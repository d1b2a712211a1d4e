---------------------------- MODULE Transactions ----------------------------
(***************************************************************************)
(* The server of Boibritto with the two things every statement competes    *)
(* for: a connection of the pool (postgres.Connect, SetMaxOpenConns) and   *)
(* the locks PostgreSQL puts on the rows a transaction has written.        *)
(*                                                                         *)
(* In Boibritto the transactions of ConfirmHandoff and MarkReturned, and   *)
(* the cascading DELETE of a book, are single steps.  Here they take their *)
(* locks one row at a time, wait for each other, deadlock and are rolled   *)
(* back; that the result is what Boibritto says is a theorem, not an       *)
(* assumption.  Statements that read, insert a book or edit a profile      *)
(* conflict with nothing: they only need a connection for a moment.        *)
(***************************************************************************)
EXTENDS Boibritto, Naturals, FiniteSets

CONSTANTS
    PoolSize,   \* connections that can be open at once; 20 in the code
    Readers     \* goroutines of the calls that only read: lists, threads, /me

ASSUME PoolAssumption == PoolSize \in Nat \ {0} /\ Readers \cap Handlers = {}

VARIABLES
    conns,          \* goroutines that hold a connection of the pool
    newRequests,    \* newRequests[h]: uncommitted versions of the requests that
                    \* the transaction of h has written, by id
    newBooks        \* newBooks[h]: likewise for books

txVars == <<conns, newRequests, newBooks>>

allVars == <<vars, txVars>>

\* What a goroutine has written it has locked, until its transaction ends.
NoRows == [id \in {} |-> Unused]

-----------------------------------------------------------------------------
(***************************************************************************)
(* What the transactions write, and in which order.                        *)
(***************************************************************************)

\* Every other call runs statements that no row lock can hold up.
WritingSteps ==
    {"update_status", "confirm_tx", "return_tx", "update_book", "delete_book"}

InTx(h) == call[h].step \in WritingSteps

\* A handoff that becomes active, or its return, sets availability too.
MovesBook(h) ==
    \/ At(h, "confirm_tx") /\ call[h].otherConfirmed
    \/ At(h, "return_tx")

RequestVersion(h, r) ==
    CASE At(h, "update_status") -> UpdateStatus(requests[r], call[h].status)
      [] At(h, "confirm_tx") ->
           IF call[h].otherConfirmed
           THEN UpdateStatus(SetConfirmed(requests[r], call[h].role), "active")
           ELSE SetConfirmed(requests[r], call[h].role)
      [] At(h, "return_tx") -> UpdateStatus(requests[r], "returned")
      [] OTHER -> Deleted     \* delete_book

Availability(available) == IF available THEN "available" ELSE "unavailable"

BookVersion(h) ==
    CASE At(h, "update_book") -> Availability(call[h].available)
      [] At(h, "confirm_tx") -> Availability(FALSE)
      [] At(h, "return_tx") -> Availability(TRUE)
      [] OTHER -> "deleted"   \* delete_book

\* The requests that h's transaction is to write next.  ON DELETE CASCADE
\* comes after the row of the book, and meets the requests in any order.
NextRequests(h) ==
    {r \in RequestIds \ DOMAIN newRequests[h] :
       \/ /\ call[h].step \in {"update_status", "confirm_tx", "return_tx"}
          /\ r = call[h].request
       \/ /\ At(h, "delete_book")
          /\ call[h].book \in DOMAIN newBooks[h]
          /\ Live(r)
          /\ requests[r].book = call[h].book}

\* Mutant: MarkReturned writes the book first.
NextBooksReturnFirst(h) ==
    {b \in Books \ DOMAIN newBooks[h] :
       \/ /\ call[h].step \in {"update_book", "delete_book"}
          /\ b = call[h].book
       \/ /\ At(h, "confirm_tx") /\ call[h].otherConfirmed
          /\ \E r \in DOMAIN newRequests[h] : newRequests[h][r].book = b
       \/ /\ At(h, "return_tx")
          /\ Live(call[h].request)
          /\ requests[call[h].request].book = b}

\* The book, if any, that it is to write next: a confirmation or a return
\* writes the book of the request it has written.
NextBooks(h) ==
    {b \in Books \ DOMAIN newBooks[h] :
       \/ /\ call[h].step \in {"update_book", "delete_book"}
          /\ b = call[h].book
       \/ /\ MovesBook(h)
          /\ \E r \in DOMAIN newRequests[h] : newRequests[h][r].book = b}

-----------------------------------------------------------------------------
(***************************************************************************)
(* Who waits for whom.                                                     *)
(***************************************************************************)

Others(h) == Handlers \ {h}

RequestFree(h, r) == \A g \in Others(h) : r \notin DOMAIN newRequests[g]

BookFree(h, b) == \A g \in Others(h) : b \notin DOMAIN newBooks[g]

\* Goroutines whose locks the next statement of h runs into.
Blockers(h) ==
    IF h \notin conns THEN {}
    ELSE {g \in Others(h) : \/ NextRequests(h) \cap DOMAIN newRequests[g] # {}
                            \/ NextBooks(h) \cap DOMAIN newBooks[g] # {}}

\* Nobody in S can go on before another member of S does.
Deadlocked(S) == S # {} /\ \A h \in S : Blockers(h) \cap S # {}

\* A cycle of the waits-for graph: the least sets that are deadlocked.
Cycle(S) == Deadlocked(S) /\ \A T \in SUBSET S : Deadlocked(T) => T = S

-----------------------------------------------------------------------------
(***************************************************************************)
(* Connections.                                                            *)
(***************************************************************************)

Room == Cardinality(conns) < PoolSize

\* A statement outside a transaction has a connection while it runs.
Briefly(step) == Room /\ step /\ UNCHANGED txVars

\* A query of a call that only reads: it waits for no lock, but it has the
\* connection until its rows are closed.
StartQuery(q) ==
    /\ q \notin conns
    /\ Room
    /\ conns' = conns \cup {q}
    /\ UNCHANGED <<vars, newRequests, newBooks>>

EndQuery(q) ==
    /\ q \in conns
    /\ conns' = conns \ {q}
    /\ UNCHANGED <<vars, newRequests, newBooks>>

\* BeginTx, or the connection of a single statement that may have to wait.
Acquire(h) ==
    /\ InTx(h) \/ At(h, "insert_request")
    /\ h \notin conns
    /\ Room
    /\ conns' = conns \cup {h}
    /\ UNCHANGED <<vars, newRequests, newBooks>>

\* COMMIT or ROLLBACK: the locks and the connection are gone.
Release(h) ==
    /\ conns' = conns \ {h}
    /\ newRequests' = [newRequests EXCEPT ![h] = NoRows]
    /\ newBooks' = [newBooks EXCEPT ![h] = NoRows]

\* The context is cancelled, the database reports an error, or its deadlock
\* detector has picked this transaction.
Cancel(h) == Abort(h) /\ Release(h)

DeadlockDetector(h) ==
    /\ \E S \in SUBSET Handlers : h \in S /\ Cycle(S)
    /\ Cancel(h)

-----------------------------------------------------------------------------
(***************************************************************************)
(* Statements of a transaction.                                            *)
(***************************************************************************)

With(rows, id, version) ==
    [x \in DOMAIN rows \cup {id} |-> IF x = id THEN version ELSE rows[x]]

\* No row has that id any more: ErrNotFound, and WithTx rolls back.
NotFound(h) == Return(h) /\ Release(h) /\ UNCHANGED <<profile, books, requests, threads, reminders>>

WriteRequest(h) ==
    /\ h \in conns
    /\ \E r \in NextRequests(h) :
         /\ RequestFree(h, r)
         /\ \/ /\ Live(r)
               /\ newRequests' = [newRequests EXCEPT ![h] = With(@, r, RequestVersion(h, r))]
               /\ UNCHANGED <<vars, conns, newBooks>>
            \/ /\ ~Live(r)
               /\ NotFound(h)

\* Mutant: SetAvailability is given the pool instead of the transaction.
WriteBookOutsideTx(h) ==
    /\ h \in conns
    /\ Room
    /\ \E b \in NextBooks(h) :
         /\ BookFree(h, b)
         /\ OnShelf(b)
         /\ newBooks' = [newBooks EXCEPT ![h] = With(@, b, BookVersion(h))]
         /\ books' = [books EXCEPT ![b] = BookVersion(h)]
         /\ UNCHANGED <<profile, requests, threads, reminders, call, conns, newRequests>>

WriteBook(h) ==
    /\ h \in conns
    /\ \E b \in NextBooks(h) :
         /\ BookFree(h, b)
         /\ \/ /\ OnShelf(b)
               /\ newBooks' = [newBooks EXCEPT ![h] = With(@, b, BookVersion(h))]
               /\ UNCHANGED <<vars, conns, newRequests>>
            \/ /\ ~OnShelf(b)
               /\ NotFound(h)

Overwrite(table, rows) ==
    [id \in DOMAIN table |-> IF id \in DOMAIN rows THEN rows[id] ELSE table[id]]

\* The last statement has succeeded.  What was written becomes visible.
Commit(h) ==
    /\ h \in conns
    /\ InTx(h)
    /\ NextRequests(h) = {} /\ NextBooks(h) = {}
    /\ requests' = Overwrite(requests, newRequests[h])
    /\ books' = Overwrite(books, newBooks[h])
    /\ Goto(h, IF At(h, "confirm_tx") /\ ~call[h].otherConfirmed
               THEN [step |-> "notify", request |-> call[h].request, role |-> call[h].role]
               ELSE Idle)
    /\ Release(h)
    /\ UNCHANGED <<profile, threads, reminders>>

\* The foreign key takes a share lock on the book, which goes together with
\* every lock but that of a DELETE.
Insert(h) ==
    /\ h \in conns
    /\ InsertRequest(h)
    /\ \A g \in Others(h) :
         At(g, "delete_book") => call[h].book \notin DOMAIN newBooks[g]
    /\ Release(h)

-----------------------------------------------------------------------------

LockedInit ==
    /\ Init
    /\ conns = {}
    /\ newRequests = [h \in Handlers |-> NoRows]
    /\ newBooks = [h \in Handlers |-> NoRows]

\* CreateThread talks to Firestore; the others read or insert.
Work(h) ==
    \/ Acquire(h)
    \/ WriteRequest(h)
    \/ WriteBook(h)
    \/ Commit(h)
    \/ Insert(h)
    \/ CreateThread(h) /\ UNCHANGED txVars
    \/ Briefly(CheckPending(h))
    \/ Briefly(NotifyOther(h))
    \/ Briefly(InsertBook(h))

LockedNext ==
    \/ \E h \in Handlers : Briefly(Begin(h)) \/ Work(h) \/ Cancel(h)
    \/ \E q \in Readers : StartQuery(q) \/ EndQuery(q)
    \/ Briefly(EditProfile)

\* A bound of the model, SERIAL not being one: its ids are used up.
OutOfIds(h) ==
    \/ /\ At(h, "insert_request")
       /\ \A r \in RequestIds : requests[r] # Unused
    \/ /\ At(h, "insert_book")
       /\ \A b \in Books : Owner[b] = call[h].owner => books[b] # "unused"

(***************************************************************************)
(* database/sql hands a freed connection to a waiter picked at random, and *)
(* PostgreSQL queues those who wait for a row, so nobody is passed over    *)
(* for ever: strong fairness of each goroutine.  A cycle of waiters stays  *)
(* until deadlock_timeout (one second) has passed for one of them.  A      *)
(* create that finds the bounded ids used up is taken to fail.             *)
(***************************************************************************)
Fairness ==
    /\ \A h \in Handlers :
         /\ SF_allVars(Work(h) \/ (OutOfIds(h) /\ Cancel(h)))
         /\ WF_allVars(DeadlockDetector(h))
    /\ \A q \in Readers : WF_allVars(EndQuery(q))

LockedSpec == LockedInit /\ [][LockedNext]_allVars /\ Fairness

-----------------------------------------------------------------------------
(***************************************************************************)
(* Properties.                                                             *)
(***************************************************************************)

\* What goroutine h has locked, and what it will write there.
Locked(h) ==
    /\ newRequests[h] # NoRows \/ newBooks[h] # NoRows => h \in conns /\ InTx(h)
    /\ \A r \in DOMAIN newRequests[h] :
         /\ r \in RequestIds
         /\ Live(r)
         /\ RequestFree(h, r)
         /\ newRequests[h][r] = RequestVersion(h, r)
         /\ \/ /\ call[h].step \in {"update_status", "confirm_tx", "return_tx"}
               /\ r = call[h].request
            \/ /\ At(h, "delete_book")
               /\ call[h].book \in DOMAIN newBooks[h]
               /\ requests[r].book = call[h].book
    /\ \A b \in DOMAIN newBooks[h] :
         /\ b \in Books
         /\ OnShelf(b)
         /\ BookFree(h, b)
         /\ newBooks[h][b] = BookVersion(h)
         /\ \/ /\ call[h].step \in {"update_book", "delete_book"}
               /\ b = call[h].book
            \/ /\ MovesBook(h)
               /\ \E r \in DOMAIN newRequests[h] : newRequests[h][r].book = b

\* Type invariant, and the heart of the refinement: two transactions never
\* hold versions of one row, and the version a transaction holds is still its
\* change to the row as committed, however long it has waited since.
LocksIInv ==
    /\ conns \subseteq Handlers \cup Readers
    /\ DOMAIN newRequests = Handlers
    /\ DOMAIN newBooks = Handlers
    /\ \A h \in conns \cap Handlers : InTx(h) \/ At(h, "insert_request")
    /\ \A h \in Handlers : Locked(h)

\* The server takes its locks row by row, waits, and is rolled back, and all
\* that can be seen of it in the tables is what Boibritto says: each
\* transaction and each cascading DELETE as one step, or none at all.
ImplementsBoibritto == Spec

\* ConfirmHandoff and MarkReturned take their locks in one order, so however
\* many of them meet on a book they only wait; it takes the deletion of a
\* book, which locks the other way round, to make a deadlock.
OnlyDeletesDeadlock ==
    \A S \in SUBSET Handlers : Deadlocked(S) => \E h \in S : At(h, "delete_book")

\* No call waits for ever: neither for a connection held by goroutines that
\* wait for one themselves, nor for a lock.
EveryCallEnds == \A h \in Handlers : call[h] # Idle ~> call[h] = Idle

=============================================================================
