-------------------------- MODULE BoibrittoProofs ---------------------------
(***************************************************************************)
(* Proofs of the safety properties of Boibritto, for any number of         *)
(* students, books, requests and goroutines.                               *)
(*                                                                         *)
(* IInv is inductive.  The argument has two halves.  A statement changes   *)
(* the tables only in a direction (RowGrows): ids are not given back,      *)
(* confirmations and acceptance dates are not withdrawn, profiles do not   *)
(* lose fields; so whatever a goroutine read, and LocalsStayTrue keeps,    *)
(* survives the statements of all the others.  And each statement, run     *)
(* with locals of which that much is true, keeps the tables in order.      *)
(*                                                                         *)
(* What a goroutine has read of its request may go stale before it writes. *)
(* StaleCause says how: by a write of a call that repeats its own, or of   *)
(* one that is stale itself.  So whatever a step does out of order is the  *)
(* work of a goroutine that was overtaken (module Overlaps), and where no  *)
(* call is repeated every step is one of the documented flow.              *)
(***************************************************************************)
EXTENDS Overlaps, TLAPS

-----------------------------------------------------------------------------
(***************************************************************************)
(* Shapes of calls and rows.                                               *)
(***************************************************************************)

\* A call at a given step has that step's locals, of their types.
LEMMA CallShape ==
    ASSUME NEW c \in Calls
    PROVE  /\ c.step \in {"check_pending", "insert_request"} =>
                 /\ c.book \in Books
                 /\ c.requester \in Users
                 /\ [c EXCEPT !.step = "insert_request"] \in Calls
                 /\ [c EXCEPT !.step = "insert_request"].step = "insert_request"
                 /\ [c EXCEPT !.step = "insert_request"].book = c.book
                 /\ [c EXCEPT !.step = "insert_request"].requester = c.requester
           /\ c.step \in {"create_thread", "update_status"} =>
                 /\ c.request \in RequestIds
                 /\ c.status \in {"accepted", "rejected"}
                 /\ [c EXCEPT !.step = "update_status"] \in Calls
                 /\ [c EXCEPT !.step = "update_status"].step = "update_status"
           /\ c.step = "confirm_tx" =>
                 c.request \in RequestIds /\ c.role \in Roles /\ c.otherConfirmed \in BOOLEAN
           /\ c.step = "notify" => c.request \in RequestIds /\ c.role \in Roles
           /\ c.step = "return_tx" => c.request \in RequestIds
           /\ c.step = "insert_book" => c.owner \in Users
           /\ c.step = "update_book" => c.book \in Books /\ c.available \in BOOLEAN
           /\ c.step = "delete_book" => c.book \in Books
  BY DEF Calls, Idle

\* The calls the handlers start are of the declared shapes.
LEMMA NewCalls ==
    /\ Idle \in Calls
    /\ \A b \in Books, u \in Users :
         [step |-> "check_pending", book |-> b, requester |-> u] \in Calls
    /\ \A r \in RequestIds, s \in {"accepted", "rejected"} :
         /\ [step |-> "create_thread", request |-> r, status |-> s] \in Calls
         /\ [step |-> "update_status", request |-> r, status |-> s] \in Calls
    /\ \A r \in RequestIds, role \in Roles, other \in BOOLEAN :
         [step |-> "confirm_tx", request |-> r, role |-> role, otherConfirmed |-> other]
           \in Calls
    /\ \A r \in RequestIds, role \in Roles :
         [step |-> "notify", request |-> r, role |-> role] \in Calls
    /\ \A r \in RequestIds : [step |-> "return_tx", request |-> r] \in Calls
    /\ \A u \in Users : [step |-> "insert_book", owner |-> u] \in Calls
    /\ \A b \in Books, a \in BOOLEAN :
         [step |-> "update_book", book |-> b, available |-> a] \in Calls
    /\ \A b \in Books : [step |-> "delete_book", book |-> b] \in Calls
  BY DEF Calls

\* A live request is a row; a row is neither unused nor deleted.
LEMMA LiveRow ==
    ASSUME TypeOK, NEW r \in RequestIds
    PROVE  /\ Live(r) <=> requests[r] \in Row
           /\ Live(r) => /\ requests[r].book \in Books
                         /\ requests[r].requester \in Users
                         /\ requests[r].status \in Statuses
                         /\ requests[r].confirmed \in SUBSET Roles
                         /\ requests[r].acceptedAt \in BOOLEAN
                         /\ requests[r] # Unused
           /\ ~Live(r) => requests[r] \in {Unused, Deleted}
           /\ requests[r] = Unused => requests[r].status = "unused"
           /\ requests[r] = Deleted => requests[r].status = "deleted"
  BY DEF TypeOK, Live, Row, Statuses, Unused, Deleted

\* The same of the next state.
LEMMA LiveRowNext ==
    ASSUME TypeOK', NEW r \in RequestIds
    PROVE  /\ Live(r)' <=> requests'[r] \in Row
           /\ Live(r)' => /\ requests'[r].book \in Books
                          /\ requests'[r].requester \in Users
                          /\ requests'[r].status \in Statuses
                          /\ requests'[r].confirmed \in SUBSET Roles
                          /\ requests'[r].acceptedAt \in BOOLEAN
                          /\ requests'[r] # Unused
           /\ ~Live(r)' => requests'[r] \in {Unused, Deleted}
           /\ requests'[r] = Unused => requests'[r].status = "unused"
           /\ requests'[r] = Deleted => requests'[r].status = "deleted"
  BY DEF TypeOK, Live, Row, Statuses, Unused, Deleted

\* UpdateStatus changes the status and may date the acceptance; the rest of
\* the row stays.
LEMMA UpdateStatusRow ==
    ASSUME NEW row \in Row, NEW status \in Statuses
    PROVE  /\ UpdateStatus(row, status) \in Row
           /\ UpdateStatus(row, status).status = status
           /\ UpdateStatus(row, status).book = row.book
           /\ UpdateStatus(row, status).requester = row.requester
           /\ UpdateStatus(row, status).confirmed = row.confirmed
           /\ row.acceptedAt => UpdateStatus(row, status).acceptedAt
           /\ status = "accepted" => UpdateStatus(row, status).acceptedAt
  BY DEF UpdateStatus, Row

\* SetConfirmed adds one confirmation; the rest of the row stays.
LEMMA SetConfirmedRow ==
    ASSUME NEW row \in Row, NEW role \in Roles
    PROVE  /\ SetConfirmed(row, role) \in Row
           /\ SetConfirmed(row, role).status = row.status
           /\ SetConfirmed(row, role).book = row.book
           /\ SetConfirmed(row, role).requester = row.requester
           /\ SetConfirmed(row, role).confirmed = row.confirmed \cup {role}
           /\ SetConfirmed(row, role).acceptedAt = row.acceptedAt
  BY DEF SetConfirmed, Row

\* There are two parties.
LEMMA TwoParties ==
    ASSUME NEW role \in Roles
    PROVE  /\ OtherParty(role) \in Roles
           /\ OtherParty(OtherParty(role)) = role
           /\ {role, OtherParty(role)} = Roles
  BY DEF Roles, OtherParty

-----------------------------------------------------------------------------
(***************************************************************************)
(* The tables move in one direction only.                                  *)
(***************************************************************************)

RowGrows(r) ==
    /\ requests[r] # Unused => requests'[r] # Unused
    /\ requests[r] # Unused /\ Live(r)' =>
         /\ Live(r)
         /\ requests'[r].book = requests[r].book
         /\ requests'[r].requester = requests[r].requester
         /\ requests[r].confirmed \subseteq requests'[r].confirmed
         /\ requests[r].acceptedAt => requests'[r].acceptedAt

TablesGrow ==
    /\ \A u \in Users : IsProfileComplete(u) => IsProfileComplete(u)'
    /\ \A r \in RequestIds : RowGrows(r)

\* What a goroutine knows survives every growth of the tables.
LEMMA LocalsSurvive ==
    ASSUME TypeOK, TypeOK', TablesGrow,
           NEW h \in Handlers, call'[h] = call[h], LocalsStayTrue(call[h])
    PROVE  LocalsStayTrue(call[h])'
<1> DEFINE c == call[h]
<1>1. c \in Calls
  BY DEF TypeOK
<1>2. CASE c.step \in {"check_pending", "insert_request"}
  BY <1>2 DEF LocalsStayTrue
<1>3. CASE c.step = "confirm_tx"
  <2>1. c.request \in RequestIds
    BY <1>1, <1>3, CallShape
  <2>2. RowGrows(c.request)
    BY <2>1 DEF TablesGrow
  <2> QED
    BY <1>3, <2>1, <2>2 DEF LocalsStayTrue, RowGrows
<1>4. CASE c.step = "notify"
  <2>1. c.request \in RequestIds
    BY <1>1, <1>4, CallShape
  <2>2. RowGrows(c.request)
    BY <2>1 DEF TablesGrow
  <2> QED
    BY <1>4, <2>1, <2>2 DEF LocalsStayTrue, RowGrows
<1>5. CASE c.step = "return_tx"
  <2>1. c.request \in RequestIds
    BY <1>1, <1>5, CallShape
  <2>2. RowGrows(c.request)
    BY <2>1 DEF TablesGrow
  <2>3. Live(c.request)' => requests'[c.request].confirmed \subseteq Roles
    BY <2>1, LiveRowNext
  <2>4. Live(c.request)' => requests'[c.request].confirmed = Roles
    BY <1>5, <2>2, <2>3 DEF LocalsStayTrue, RowGrows
  <2>5. requests'[c.request] # Unused
    BY <1>5, <2>2 DEF LocalsStayTrue, RowGrows
  <2> QED
    BY <1>5, <2>4, <2>5 DEF LocalsStayTrue
<1>6. CASE c.step = "insert_book"
  <2>1. c.owner \in Users
    BY <1>1, <1>6, CallShape
  <2> QED
    BY <1>6, <2>1 DEF LocalsStayTrue, TablesGrow
<1>7. CASE c.step = "update_book"
  BY <1>7 DEF LocalsStayTrue
<1>8. CASE c.step \notin {"check_pending", "insert_request", "confirm_tx", "notify",
                          "return_tx", "insert_book", "update_book"}
  BY <1>8 DEF LocalsStayTrue
<1> QED
  BY <1>2, <1>3, <1>4, <1>5, <1>6, <1>7, <1>8

-----------------------------------------------------------------------------
(***************************************************************************)
(* Steps that only move a goroutine.                                       *)
(***************************************************************************)

\* Goto changes one goroutine's call and no other.
LEMMA GotoOne ==
    ASSUME TypeOK, NEW h \in Handlers, NEW c \in Calls, Goto(h, c)
    PROVE  /\ call' \in [Handlers -> Calls]
           /\ call'[h] = c
           /\ \A g \in Handlers : g # h => call'[g] = call[g]
  BY DEF TypeOK, Goto

\* The facts of IInv about the tables alone.
TablesInOrder ==
    /\ HandoffConfirmed
    /\ AcceptedIsDated
    /\ ReminderIsFounded
    /\ ContactableLender
    /\ UnavailableWasHandedOver
    /\ PendingIsFresh
    /\ RequestHasBook

\* A statement keeps IInv if it keeps the tables in order, makes them grow,
\* and leaves its own goroutine with locals that are true.
LEMMA StatementKeepsIInv ==
    ASSUME IInv, TypeOK', TablesInOrder', TablesGrow, NEW h \in Handlers,
           \A g \in Handlers : g # h => call'[g] = call[g],
           LocalsStayTrue(call[h])'
    PROVE  IInv'
<1>1. ASSUME NEW g \in Handlers PROVE LocalsStayTrue(call[g])'
  <2>1. CASE g = h
    BY <2>1
  <2>2. CASE g # h
    BY <2>2, LocalsSurvive DEF IInv
  <2> QED
    BY <2>1, <2>2
<1> QED
  BY <1>1 DEF IInv, TablesInOrder

\* Tables that do not change grow, and stay in order.
LEMMA SameTables ==
    ASSUME IInv, UNCHANGED <<profile, books, requests, reminders>>
    PROVE  TablesGrow /\ TablesInOrder'
<1>1. TablesGrow
  BY DEF TablesGrow, RowGrows, IsProfileComplete, Live
<1>2. TablesInOrder'
  <2>1. HandoffConfirmed' /\ AcceptedIsDated' /\ ReminderIsFounded' /\ PendingIsFresh'
    BY DEF IInv, HandoffConfirmed, AcceptedIsDated, ReminderIsFounded, PendingIsFresh, Live
  <2>2. ContactableLender'
    BY DEF IInv, ContactableLender, Live, OnShelf, Lender, IsProfileComplete
  <2>3. UnavailableWasHandedOver'
    BY DEF IInv, UnavailableWasHandedOver, Live
  <2>4. RequestHasBook'
    BY DEF IInv, RequestHasBook, Live, OnShelf
  <2> QED
    BY <2>1, <2>2, <2>3, <2>4 DEF TablesInOrder
<1> QED
  BY <1>1, <1>2

\* A goroutine that moves on without touching the tables needs only to know
\* what its new locals say.
LEMMA MoveKeepsIInv ==
    ASSUME IInv, NEW h \in Handlers, NEW c \in Calls, Goto(h, c),
           UNCHANGED <<profile, books, requests, reminders>>, threads' \subseteq RequestIds,
           LocalsStayTrue(call[h])'
    PROVE  IInv'
<1>1. TypeOK
  BY DEF IInv
<1>2. TypeOK'
  BY <1>1, GotoOne DEF TypeOK
<1> QED
  BY <1>1, <1>2, GotoOne, SameTables, StatementKeepsIInv

\* An idle goroutine knows nothing.
LEMMA IdleKnowsNothing ==
    ASSUME NEW h \in Handlers, call'[h] = Idle
    PROVE  LocalsStayTrue(call[h])'
  BY DEF LocalsStayTrue, Idle

\* POST /books/{id}/requests has read the book: the caller is not its owner.
LEMMA BeginCreateRequestKeepsIInv ==
    ASSUME IInv, NEW h \in Handlers, NEW u \in Users, NEW b \in Books,
           BeginCreateRequest(h, u, b)
    PROVE  IInv'
<1> DEFINE c == [step |-> "check_pending", book |-> b, requester |-> u]
<1>1. c \in Calls /\ TypeOK
  BY NewCalls DEF IInv
<1>2. Goto(h, c) /\ u # Owner[b] /\ UNCHANGED <<profile, books, requests, threads, reminders>>
  BY DEF BeginCreateRequest
<1>3. call'[h] = c
  BY <1>1, <1>2, GotoOne
<1>4. LocalsStayTrue(call[h])'
  BY <1>2, <1>3 DEF LocalsStayTrue
<1> QED
  BY <1>1, <1>2, <1>4, MoveKeepsIInv DEF TypeOK

\* HasPendingRequest only decides whether the call goes on.
LEMMA CheckPendingKeepsIInv ==
    ASSUME IInv, NEW h \in Handlers, CheckPending(h)
    PROVE  IInv'
<1>1. TypeOK /\ call[h] \in Calls /\ LocalsStayTrue(call[h]) /\ call[h].step = "check_pending"
  BY DEF IInv, TypeOK, CheckPending, At
<1>2. UNCHANGED <<profile, books, requests, threads, reminders>>
  BY DEF CheckPending
<1>3. CASE Goto(h, Idle)
  BY <1>1, <1>2, <1>3, NewCalls, GotoOne, IdleKnowsNothing, MoveKeepsIInv DEF TypeOK
<1>4. CASE Goto(h, [call[h] EXCEPT !.step = "insert_request"])
  <2> DEFINE c == [call[h] EXCEPT !.step = "insert_request"]
  <2>1. /\ c \in Calls /\ c.step = "insert_request"
        /\ c.book = call[h].book /\ c.requester = call[h].requester
    BY <1>1, CallShape
  <2>2. call'[h] = c
    BY <1>1, <1>4, <2>1, GotoOne
  <2>3. c.requester # Owner[c.book]
    BY <1>1, <2>1 DEF LocalsStayTrue
  <2>4. LocalsStayTrue(call[h])'
    BY <2>1, <2>2, <2>3 DEF LocalsStayTrue
  <2> QED
    BY <1>1, <1>2, <1>4, <2>1, <2>4, MoveKeepsIInv DEF TypeOK
<1> QED
  BY <1>3, <1>4 DEF CheckPending

\* PATCH /requests/{id} keeps nothing of what it read but the request's id.
LEMMA BeginUpdateStatusKeepsIInv ==
    ASSUME IInv, NEW h \in Handlers, NEW u \in Users, NEW r \in RequestIds,
           NEW s \in {"accepted", "rejected"}, BeginUpdateStatus(h, u, r, s)
    PROVE  IInv'
<1> DEFINE c == [step |-> IF s = "accepted" THEN "create_thread" ELSE "update_status",
                 request |-> r, status |-> s]
<1>1. c \in Calls /\ TypeOK
  BY NewCalls DEF IInv
<1>2. Goto(h, c) /\ UNCHANGED <<profile, books, requests, threads, reminders>>
  BY DEF BeginUpdateStatus
<1>3. call'[h] = c
  BY <1>1, <1>2, GotoOne
<1>4. LocalsStayTrue(call[h])'
  BY <1>3 DEF LocalsStayTrue
<1> QED
  BY <1>1, <1>2, <1>4, MoveKeepsIInv DEF TypeOK

\* Creating the thread touches no table in PostgreSQL.
LEMMA CreateThreadKeepsIInv ==
    ASSUME IInv, NEW h \in Handlers, CreateThread(h)
    PROVE  IInv'
<1> DEFINE c == [call[h] EXCEPT !.step = "update_status"]
<1>1. TypeOK /\ call[h] \in Calls /\ call[h].step = "create_thread"
  BY DEF IInv, TypeOK, CreateThread, At
<1>2. c \in Calls /\ c.step = "update_status" /\ call[h].request \in RequestIds
  BY <1>1, CallShape
<1>3. Goto(h, c) /\ UNCHANGED <<profile, books, requests, reminders>>
  BY DEF CreateThread
<1>4. threads' \subseteq RequestIds
  BY <1>1, <1>2 DEF CreateThread, TypeOK
<1>5. call'[h] = c
  BY <1>1, <1>2, <1>3, GotoOne
<1>6. LocalsStayTrue(call[h])'
  BY <1>2, <1>5 DEF LocalsStayTrue
<1> QED
  BY <1>2, <1>3, <1>4, <1>6, MoveKeepsIInv

\* ConfirmHandoff has read an accepted request: the flag it took along is
\* the other party's, and the request is dated.
LEMMA BeginConfirmKeepsIInv ==
    ASSUME IInv, NEW h \in Handlers, NEW u \in Users, NEW r \in RequestIds,
           BeginConfirm(h, u, r)
    PROVE  IInv'
<1> DEFINE role == PartyOf(u, r)
           other == OtherParty(role) \in requests[r].confirmed
           c == [step |-> "confirm_tx", request |-> r, role |-> role, otherConfirmed |-> other]
<1>1. TypeOK /\ role \in Roles /\ other \in BOOLEAN
  BY DEF IInv, PartyOf, Roles
<1>2. c \in Calls
  BY <1>1, NewCalls
<1>3. Goto(h, c) /\ UNCHANGED <<profile, books, requests, threads, reminders>>
  BY DEF BeginConfirm
<1>4. call'[h] = c
  BY <1>1, <1>2, <1>3, GotoOne
<1>5. Live(r) /\ requests[r] # Unused /\ requests[r].acceptedAt
  BY <1>1, LiveRow DEF BeginConfirm, IInv, AcceptedIsDated
<1>6. /\ call'[h].step = "confirm_tx"
      /\ call'[h].request = r
      /\ call'[h].role = role
      /\ call'[h].otherConfirmed = other
  BY <1>4
<1>7. LocalsStayTrue(call[h])'
  BY <1>3, <1>5, <1>6 DEF LocalsStayTrue
<1> QED
  BY <1>1, <1>2, <1>3, <1>7, MoveKeepsIInv DEF TypeOK

\* MarkReturned has read an active request, so both parties confirmed it.
LEMMA BeginReturnKeepsIInv ==
    ASSUME IInv, NEW h \in Handlers, NEW u \in Users, NEW r \in RequestIds,
           BeginReturn(h, u, r)
    PROVE  IInv'
<1> DEFINE c == [step |-> "return_tx", request |-> r]
<1>1. TypeOK /\ c \in Calls
  BY NewCalls DEF IInv
<1>2. Goto(h, c) /\ UNCHANGED <<profile, books, requests, threads, reminders>>
  BY DEF BeginReturn
<1>3. call'[h] = c
  BY <1>1, <1>2, GotoOne
<1>4. requests[r] # Unused /\ requests[r].confirmed = Roles
  BY <1>1, LiveRow DEF BeginReturn, IInv, HandoffConfirmed
<1>5. LocalsStayTrue(call[h])'
  BY <1>2, <1>3, <1>4 DEF LocalsStayTrue
<1> QED
  BY <1>1, <1>2, <1>5, MoveKeepsIInv DEF TypeOK

\* CreateBook has read a complete profile.
LEMMA BeginCreateBookKeepsIInv ==
    ASSUME IInv, NEW h \in Handlers, NEW u \in Users, BeginCreateBook(h, u)
    PROVE  IInv'
<1> DEFINE c == [step |-> "insert_book", owner |-> u]
<1>1. TypeOK /\ c \in Calls
  BY NewCalls DEF IInv
<1>2. Goto(h, c) /\ UNCHANGED <<profile, books, requests, threads, reminders>>
  BY DEF BeginCreateBook
<1>3. call'[h] = c
  BY <1>1, <1>2, GotoOne
<1>4. LocalsStayTrue(call[h])'
  BY <1>2, <1>3 DEF LocalsStayTrue, BeginCreateBook, IsProfileComplete
<1> QED
  BY <1>1, <1>2, <1>4, MoveKeepsIInv DEF TypeOK

\* UpdateBook carries an availability that owners do send.
LEMMA BeginUpdateBookKeepsIInv ==
    ASSUME IInv, NEW h \in Handlers, NEW u \in Users, NEW b \in Books,
           NEW a \in OwnerPatches, BeginUpdateBook(h, u, b, a)
    PROVE  IInv'
<1> DEFINE c == [step |-> "update_book", book |-> b, available |-> a]
<1>1. TypeOK /\ c \in Calls
  BY NewCalls, TablesAssumption DEF IInv
<1>2. Goto(h, c) /\ UNCHANGED <<profile, books, requests, threads, reminders>>
  BY DEF BeginUpdateBook
<1>3. call'[h] = c
  BY <1>1, <1>2, GotoOne
<1>4. LocalsStayTrue(call[h])'
  BY <1>3 DEF LocalsStayTrue
<1> QED
  BY <1>1, <1>2, <1>4, MoveKeepsIInv DEF TypeOK

\* DeleteBook keeps only the book's id.
LEMMA BeginDeleteBookKeepsIInv ==
    ASSUME IInv, NEW h \in Handlers, NEW u \in Users, NEW b \in Books,
           BeginDeleteBook(h, u, b)
    PROVE  IInv'
<1> DEFINE c == [step |-> "delete_book", book |-> b]
<1>1. TypeOK /\ c \in Calls
  BY NewCalls DEF IInv
<1>2. Goto(h, c) /\ UNCHANGED <<profile, books, requests, threads, reminders>>
  BY DEF BeginDeleteBook
<1>3. call'[h] = c
  BY <1>1, <1>2, GotoOne
<1>4. LocalsStayTrue(call[h])'
  BY <1>3 DEF LocalsStayTrue
<1> QED
  BY <1>1, <1>2, <1>4, MoveKeepsIInv DEF TypeOK

\* A call that is cut off leaves the tables as they are.
LEMMA AbortKeepsIInv ==
    ASSUME IInv, NEW h \in Handlers, Abort(h)
    PROVE  IInv'
<1>1. TypeOK /\ Idle \in Calls
  BY NewCalls DEF IInv
<1>2. Goto(h, Idle) /\ UNCHANGED <<profile, books, requests, threads, reminders>>
  BY DEF Abort, Return
<1> QED
  BY <1>1, <1>2, GotoOne, IdleKnowsNothing, MoveKeepsIInv DEF TypeOK

-----------------------------------------------------------------------------
(***************************************************************************)
(* Statements that rewrite one row of borrow_requests.                     *)
(***************************************************************************)

\* A live row rewritten to a later stage of the same loan: what holds of the
\* other rows stays, and the new row has what the invariants ask of it.
LEMMA RewriteRow ==
    ASSUME IInv, NEW q \in RequestIds, Live(q), NEW row \in Row,
           requests' = [requests EXCEPT ![q] = row],
           UNCHANGED <<profile, reminders>>,
           row.book = requests[q].book,
           row.requester = requests[q].requester,
           requests[q].confirmed \subseteq row.confirmed,
           row.status # "pending",
           requests[q].acceptedAt => row.acceptedAt,
           row.confirmed # {} \/ row.status \in {"accepted", "active", "returned"}
             => row.acceptedAt,
           row.status \in {"active", "returned"} => row.confirmed = Roles
    PROVE  /\ requests' \in [RequestIds -> Row \cup {Unused, Deleted}]
           /\ TablesGrow
           /\ HandoffConfirmed' /\ AcceptedIsDated' /\ ReminderIsFounded' /\ PendingIsFresh'
           /\ \A r \in RequestIds :
                /\ Live(r)' <=> Live(r)
                /\ Live(r) => /\ requests'[r].book = requests[r].book
                              /\ requests'[r].requester = requests[r].requester
                              /\ requests[r].confirmed = Roles => requests'[r].confirmed = Roles
<1>1. TypeOK
  BY DEF IInv
<1>2. requests' \in [RequestIds -> Row \cup {Unused, Deleted}]
  BY <1>1 DEF TypeOK
<1>3. /\ requests'[q] = row
      /\ \A r \in RequestIds : r # q => requests'[r] = requests[r]
  BY <1>1 DEF TypeOK
<1>4. Live(q)' /\ row # Unused /\ row.confirmed \subseteq Roles
  BY <1>3 DEF Live, Row, Unused, Statuses
<1>5. requests[q] # Unused
  BY <1>1, LiveRow
<1>6. ASSUME NEW r \in RequestIds PROVE RowGrows(r)
  <2>1. CASE r = q
    BY <1>3, <1>4, <2>1 DEF RowGrows
  <2>2. CASE r # q
    BY <1>3, <2>2 DEF RowGrows, Live
  <2> QED
    BY <2>1, <2>2
<1>7. TablesGrow
  BY <1>6 DEF TablesGrow, IsProfileComplete
<1>8. HandoffConfirmed'
  BY <1>3 DEF IInv, HandoffConfirmed
<1>9. AcceptedIsDated'
  BY <1>3, <1>4 DEF IInv, AcceptedIsDated, Live
<1>10. ReminderIsFounded'
  BY <1>3, TwoParties DEF IInv, ReminderIsFounded, Live
<1>11. PendingIsFresh'
  BY <1>3, <1>4 DEF IInv, PendingIsFresh
<1>12. ASSUME NEW r \in RequestIds
       PROVE  /\ Live(r)' <=> Live(r)
              /\ Live(r) =>
                   /\ requests'[r].book = requests[r].book
                   /\ requests'[r].requester = requests[r].requester
                   /\ requests[r].confirmed = Roles => requests'[r].confirmed = Roles
  <2>1. CASE r = q
    <3>1. Live(q)' /\ requests'[q].book = requests[q].book
          /\ requests'[q].requester = requests[q].requester
      BY <1>3, <1>4
    <3>2. ASSUME requests[q].confirmed = Roles PROVE requests'[q].confirmed = Roles
      <4>1. Roles \subseteq row.confirmed
        BY <3>2
      <4>2. row.confirmed = Roles
        BY <1>4, <4>1
      <4> QED
        BY <1>3, <4>2
    <3> QED
      BY <2>1, <3>1, <3>2
  <2>2. CASE r # q
    BY <1>3, <2>2 DEF Live
  <2> QED
    BY <2>1, <2>2
<1> QED
  BY <1>2, <1>7, <1>8, <1>9, <1>10, <1>11, <1>12

\* Availability that changes only for a book confirmed by both parties, or
\* to available, keeps the remaining facts about the tables.
LEMMA RewriteBook ==
    ASSUME IInv, books' \in [Books -> BookStates], UNCHANGED profile,
           \A r \in RequestIds :
             /\ Live(r)' <=> Live(r)
             /\ Live(r) => /\ requests'[r].book = requests[r].book
                           /\ requests'[r].requester = requests[r].requester
                           /\ requests[r].confirmed = Roles => requests'[r].confirmed = Roles,
           \A b \in Books :
             /\ OnShelf(b)' <=> OnShelf(b)
             /\ books'[b] = "unavailable" /\ books[b] # "unavailable" =>
                  \E r \in RequestIds : /\ Live(r)'
                                        /\ requests'[r].book = b
                                        /\ requests'[r].confirmed = Roles
    PROVE  ContactableLender' /\ UnavailableWasHandedOver' /\ RequestHasBook'
<1>1. ContactableLender'
  BY DEF IInv, ContactableLender, Lender, IsProfileComplete
<1>2. UnavailableWasHandedOver'
  <2>1. SUFFICES ASSUME FALSE \notin OwnerPatches, NEW b \in Books, books'[b] = "unavailable"
                 PROVE  \E r \in RequestIds : /\ Live(r)'
                                              /\ requests'[r].book = b
                                              /\ requests'[r].confirmed = Roles
    BY DEF UnavailableWasHandedOver
  <2>2. CASE books[b] = "unavailable"
    <3>1. PICK r \in RequestIds : Live(r) /\ requests[r].book = b /\ requests[r].confirmed = Roles
      BY <2>1, <2>2 DEF IInv, UnavailableWasHandedOver
    <3> QED
      BY <3>1
  <2>3. CASE books[b] # "unavailable"
    BY <2>1, <2>3
  <2> QED
    BY <2>2, <2>3
<1>3. RequestHasBook'
  BY LiveRow DEF IInv, RequestHasBook
<1> QED
  BY <1>1, <1>2, <1>3

\* When no request changes, what the invariant says of requests alone stays.
LEMMA SameRequests ==
    ASSUME UNCHANGED requests
    PROVE  \A r \in RequestIds :
             /\ Live(r)' <=> Live(r)
             /\ Live(r) => /\ requests'[r].book = requests[r].book
                           /\ requests'[r].requester = requests[r].requester
                           /\ requests[r].confirmed = Roles => requests'[r].confirmed = Roles
  BY DEF Live

\* Availability is set on a book that is there already.
LEMMA SetAvailabilityRow ==
    ASSUME TypeOK, NEW b \in Books, NEW a \in BOOLEAN, books' = SetAvailability(b, a)
    PROVE  /\ books' \in [Books -> BookStates]
           /\ books'[b] = IF a THEN "available" ELSE "unavailable"
           /\ \A k \in Books : k # b => books'[k] = books[k]
  BY DEF TypeOK, SetAvailability, BookStates

\* accept / reject, however late: the row keeps its confirmations.
LEMMA WriteStatusKeepsIInv ==
    ASSUME IInv, NEW h \in Handlers, WriteStatus(h)
    PROVE  IInv'
<1> DEFINE q == call[h].request
           s == call[h].status
           row == UpdateStatus(requests[q], s)
<1>1. TypeOK /\ call[h] \in Calls /\ call[h].step = "update_status"
  BY DEF IInv, TypeOK, WriteStatus, At
<1>2. q \in RequestIds /\ s \in {"accepted", "rejected"}
  BY <1>1, CallShape
<1>3. Goto(h, Idle) /\ UNCHANGED <<profile, books, threads, reminders>>
  BY DEF WriteStatus, Return
<1>4. CASE ~Live(q)
  <2>1. UNCHANGED requests
    BY <1>4 DEF WriteStatus
  <2> QED
    BY <1>1, <1>3, <2>1, NewCalls, GotoOne, IdleKnowsNothing, MoveKeepsIInv DEF TypeOK
<1>5. CASE Live(q)
  <2>1. requests[q] \in Row /\ s \in Statuses
    BY <1>1, <1>2, <1>5, LiveRow DEF Statuses
  <2>2. /\ row \in Row
        /\ row.status = s
        /\ row.book = requests[q].book
        /\ row.requester = requests[q].requester
        /\ row.confirmed = requests[q].confirmed
        /\ requests[q].acceptedAt => row.acceptedAt
        /\ s = "accepted" => row.acceptedAt
    BY <2>1, UpdateStatusRow
  <2>3. requests[q].confirmed # {} => requests[q].acceptedAt
    BY <1>2, <1>5 DEF IInv, AcceptedIsDated
  <2>4. requests' = [requests EXCEPT ![q] = row]
    BY <1>5 DEF WriteStatus
  <2>5. /\ requests' \in [RequestIds -> Row \cup {Unused, Deleted}]
        /\ TablesGrow
        /\ HandoffConfirmed' /\ AcceptedIsDated' /\ ReminderIsFounded' /\ PendingIsFresh'
        /\ \A r \in RequestIds :
             /\ Live(r)' <=> Live(r)
             /\ Live(r) => /\ requests'[r].book = requests[r].book
                           /\ requests'[r].requester = requests[r].requester
                           /\ requests[r].confirmed = Roles => requests'[r].confirmed = Roles
    BY <1>2, <1>3, <1>5, <2>2, <2>3, <2>4, RewriteRow
  <2>6. ContactableLender' /\ UnavailableWasHandedOver' /\ RequestHasBook'
    BY <1>1, <1>3, <2>5, RewriteBook DEF TypeOK, OnShelf
  <2>7. TypeOK'
    BY <1>1, <1>3, <2>5, NewCalls, GotoOne DEF TypeOK
  <2> QED
    BY <1>1, <1>3, <2>5, <2>6, <2>7, NewCalls, GotoOne, IdleKnowsNothing, StatementKeepsIInv
       DEF TablesInOrder
<1> QED
  BY <1>4, <1>5

\* The handoff: activation only when the other party's flag was seen set,
\* and that flag is still set.
LEMMA ConfirmTxKeepsIInv ==
    ASSUME IInv, NEW h \in Handlers, ConfirmTx(h)
    PROVE  IInv'
<1> DEFINE q == call[h].request
           role == call[h].role
           confirmed == SetConfirmed(requests[q], role)
<1>1. TypeOK /\ call[h] \in Calls /\ call[h].step = "confirm_tx" /\ LocalsStayTrue(call[h])
  BY DEF IInv, TypeOK, ConfirmTx, At
<1>2. q \in RequestIds /\ role \in Roles /\ call[h].otherConfirmed \in BOOLEAN
  BY <1>1, CallShape
<1>3. UNCHANGED <<profile, threads, reminders>>
  BY DEF ConfirmTx
<1>4. CASE ~Live(q)
  <2>1. Goto(h, Idle) /\ UNCHANGED <<books, requests>>
    BY <1>4 DEF ConfirmTx, Return
  <2> QED
    BY <1>1, <1>3, <2>1, NewCalls, GotoOne, IdleKnowsNothing, MoveKeepsIInv DEF TypeOK
<1>5. CASE Live(q)
  <2>1. /\ requests[q] \in Row
        /\ requests[q].acceptedAt
        /\ requests[q].status # "pending"
        /\ requests[q].status \in {"active", "returned"} => requests[q].confirmed = Roles
        /\ requests[q].confirmed \subseteq Roles
        /\ requests[q].book \in Books
        /\ OnShelf(requests[q].book)
        /\ call[h].otherConfirmed => OtherParty(role) \in requests[q].confirmed
    BY <1>1, <1>2, <1>5, LiveRow
       DEF IInv, LocalsStayTrue, PendingIsFresh, HandoffConfirmed, RequestHasBook
  <2>2. /\ confirmed \in Row
        /\ confirmed.status = requests[q].status
        /\ confirmed.book = requests[q].book
        /\ confirmed.requester = requests[q].requester
        /\ confirmed.confirmed = requests[q].confirmed \cup {role}
        /\ confirmed.acceptedAt = requests[q].acceptedAt
    BY <1>2, <2>1, SetConfirmedRow
  <2>3. CASE call[h].otherConfirmed
    <3> DEFINE row == UpdateStatus(confirmed, "active")
    <3>1. /\ requests' = [requests EXCEPT ![q] = row]
          /\ books' = SetAvailability(requests[q].book, FALSE)
          /\ Goto(h, Idle)
      BY <1>5, <2>3 DEF ConfirmTx, Return
    <3>2. "active" \in Statuses
      BY DEF Statuses
    <3>3. /\ row \in Row
          /\ row.status = "active"
          /\ row.book = requests[q].book
          /\ row.requester = requests[q].requester
          /\ row.confirmed = requests[q].confirmed \cup {role}
          /\ row.acceptedAt
      BY <2>1, <2>2, <3>2, UpdateStatusRow
    <3>4. row.confirmed = Roles
      BY <1>2, <2>1, <2>3, <3>3, TwoParties
    <3>5. /\ requests' \in [RequestIds -> Row \cup {Unused, Deleted}]
          /\ TablesGrow
          /\ HandoffConfirmed' /\ AcceptedIsDated' /\ ReminderIsFounded' /\ PendingIsFresh'
          /\ \A r \in RequestIds :
               /\ Live(r)' <=> Live(r)
               /\ Live(r) => /\ requests'[r].book = requests[r].book
                             /\ requests'[r].requester = requests[r].requester
                             /\ requests[r].confirmed = Roles => requests'[r].confirmed = Roles
      BY <1>2, <1>3, <1>5, <3>1, <3>3, <3>4, RewriteRow
    <3>6. /\ requests'[q].status \in Statuses
          /\ requests'[q].book = requests[q].book
          /\ requests'[q].confirmed = Roles
      <4>1. requests'[q] = row
        BY <1>1, <1>2, <3>1 DEF TypeOK
      <4> QED
        BY <3>2, <3>3, <3>4, <4>1
    <3>7. /\ books' \in [Books -> BookStates]
          /\ books'[requests[q].book] = "unavailable"
          /\ \A k \in Books : k # requests[q].book => books'[k] = books[k]
      BY <1>1, <2>1, <3>1, SetAvailabilityRow
    <3>8. ASSUME NEW b \in Books
          PROVE  /\ OnShelf(b)' <=> OnShelf(b)
                 /\ books'[b] = "unavailable" /\ books[b] # "unavailable" =>
                      \E r \in RequestIds : /\ Live(r)'
                                            /\ requests'[r].book = b
                                            /\ requests'[r].confirmed = Roles
      <4>1. CASE b = requests[q].book
        BY <1>2, <2>1, <3>6, <3>7, <4>1 DEF OnShelf, Live
      <4>2. CASE b # requests[q].book
        BY <3>7, <4>2 DEF OnShelf
      <4> QED
        BY <4>1, <4>2
    <3>9. ContactableLender' /\ UnavailableWasHandedOver' /\ RequestHasBook'
      BY <1>3, <3>5, <3>7, <3>8, RewriteBook
    <3>10. TypeOK'
      BY <1>1, <1>3, <3>1, <3>5, <3>7, NewCalls, GotoOne DEF TypeOK
    <3> QED
      BY <1>1, <3>1, <3>5, <3>9, <3>10, NewCalls, GotoOne, IdleKnowsNothing, StatementKeepsIInv
         DEF TablesInOrder
  <2>4. CASE ~call[h].otherConfirmed
    <3> DEFINE c == [step |-> "notify", request |-> q, role |-> role]
    <3>1. /\ requests' = [requests EXCEPT ![q] = confirmed]
          /\ Goto(h, c)
          /\ UNCHANGED books
      BY <1>5, <2>4 DEF ConfirmTx
    <3>2. c \in Calls
      BY <1>2, NewCalls
    <3>3. call'[h] = c /\ call' \in [Handlers -> Calls]
          /\ \A g \in Handlers : g # h => call'[g] = call[g]
      BY <1>1, <3>1, <3>2, GotoOne
    <3>4. confirmed.status \in {"active", "returned"} => confirmed.confirmed = Roles
      BY <1>2, <2>1, <2>2
    <3>5. /\ requests' \in [RequestIds -> Row \cup {Unused, Deleted}]
          /\ TablesGrow
          /\ HandoffConfirmed' /\ AcceptedIsDated' /\ ReminderIsFounded' /\ PendingIsFresh'
          /\ \A r \in RequestIds :
               /\ Live(r)' <=> Live(r)
               /\ Live(r) => /\ requests'[r].book = requests[r].book
                             /\ requests'[r].requester = requests[r].requester
                             /\ requests[r].confirmed = Roles => requests'[r].confirmed = Roles
      BY <1>2, <1>3, <1>5, <2>1, <2>2, <3>1, <3>4, RewriteRow
    <3>6. ContactableLender' /\ UnavailableWasHandedOver' /\ RequestHasBook'
      BY <1>1, <1>3, <3>1, <3>5, RewriteBook DEF TypeOK, OnShelf
    <3>7. TypeOK'
      BY <1>1, <1>3, <3>1, <3>3, <3>5 DEF TypeOK
    <3>8. requests'[q] = confirmed /\ requests'[q] # Unused
      BY <1>1, <1>2, <2>2, <3>1, <3>7, <3>5, <1>5, LiveRowNext DEF TypeOK
    <3>9. LocalsStayTrue(call[h])'
      BY <2>2, <3>3, <3>8 DEF LocalsStayTrue
    <3> QED
      BY <3>3, <3>5, <3>6, <3>7, <3>9, StatementKeepsIInv DEF TablesInOrder
  <2> QED
    BY <1>2, <2>3, <2>4
<1> QED
  BY <1>4, <1>5

\* The return puts the book back; both parties had confirmed.
LEMMA ReturnTxKeepsIInv ==
    ASSUME IInv, NEW h \in Handlers, ReturnTx(h)
    PROVE  IInv'
<1> DEFINE q == call[h].request
           row == UpdateStatus(requests[q], "returned")
<1>1. TypeOK /\ call[h] \in Calls /\ call[h].step = "return_tx" /\ LocalsStayTrue(call[h])
  BY DEF IInv, TypeOK, ReturnTx, At
<1>2. q \in RequestIds /\ "returned" \in Statuses
  BY <1>1, CallShape DEF Statuses
<1>3. Goto(h, Idle) /\ UNCHANGED <<profile, threads, reminders>>
  BY DEF ReturnTx, Return
<1>4. CASE ~Live(q)
  <2>1. UNCHANGED <<books, requests>>
    BY <1>4 DEF ReturnTx
  <2> QED
    BY <1>1, <1>3, <2>1, NewCalls, GotoOne, IdleKnowsNothing, MoveKeepsIInv DEF TypeOK
<1>5. CASE Live(q)
  <2>1. /\ requests[q] \in Row
        /\ requests[q].confirmed = Roles
        /\ requests[q].book \in Books
        /\ OnShelf(requests[q].book)
    BY <1>1, <1>2, <1>5, LiveRow DEF IInv, LocalsStayTrue, RequestHasBook
  <2>2. requests[q].acceptedAt
    BY <1>2, <1>5, <2>1 DEF IInv, AcceptedIsDated, Roles
  <2>3. /\ row \in Row
        /\ row.status = "returned"
        /\ row.book = requests[q].book
        /\ row.requester = requests[q].requester
        /\ row.confirmed = Roles
        /\ row.acceptedAt
    BY <1>2, <2>1, <2>2, UpdateStatusRow
  <2>4. /\ requests' = [requests EXCEPT ![q] = row]
        /\ books' = SetAvailability(requests[q].book, TRUE)
    BY <1>5 DEF ReturnTx
  <2>5. /\ requests' \in [RequestIds -> Row \cup {Unused, Deleted}]
        /\ TablesGrow
        /\ HandoffConfirmed' /\ AcceptedIsDated' /\ ReminderIsFounded' /\ PendingIsFresh'
        /\ \A r \in RequestIds :
             /\ Live(r)' <=> Live(r)
             /\ Live(r) => /\ requests'[r].book = requests[r].book
                           /\ requests'[r].requester = requests[r].requester
                           /\ requests[r].confirmed = Roles => requests'[r].confirmed = Roles
    BY <1>2, <1>3, <1>5, <2>1, <2>3, <2>4, RewriteRow
  <2>6. /\ books' \in [Books -> BookStates]
        /\ books'[requests[q].book] = "available"
        /\ \A k \in Books : k # requests[q].book => books'[k] = books[k]
    BY <1>1, <2>1, <2>4, SetAvailabilityRow
  <2>7. ASSUME NEW b \in Books
        PROVE  /\ OnShelf(b)' <=> OnShelf(b)
               /\ books'[b] = "unavailable" => books[b] = "unavailable"
    BY <2>1, <2>6 DEF OnShelf
  <2>8. ContactableLender' /\ UnavailableWasHandedOver' /\ RequestHasBook'
    BY <1>3, <2>5, <2>6, <2>7, RewriteBook
  <2>9. TypeOK'
    BY <1>1, <1>3, <2>5, <2>6, NewCalls, GotoOne DEF TypeOK
  <2> QED
    BY <1>1, <1>3, <2>5, <2>8, <2>9, NewCalls, GotoOne, IdleKnowsNothing, StatementKeepsIInv
       DEF TablesInOrder
<1> QED
  BY <1>4, <1>5

-----------------------------------------------------------------------------
(***************************************************************************)
(* The other statements.                                                   *)
(***************************************************************************)

\* The party reminded is not the one whose confirmation was just committed.
LEMMA NotifyOtherKeepsIInv ==
    ASSUME IInv, NEW h \in Handlers, NotifyOther(h)
    PROVE  IInv'
<1> DEFINE q == call[h].request
           role == call[h].role
<1>1. TypeOK /\ call[h] \in Calls /\ call[h].step = "notify" /\ LocalsStayTrue(call[h])
  BY DEF IInv, TypeOK, NotifyOther, At
<1>2. q \in RequestIds /\ role \in Roles
  BY <1>1, CallShape
<1>3. Goto(h, Idle) /\ UNCHANGED <<profile, books, requests, threads>>
  BY DEF NotifyOther, Return
<1>4. reminders' \subseteq reminders \cup {<<OtherParty(role), q>>}
  BY DEF NotifyOther
<1>5. /\ requests[q] # Unused
      /\ Live(q) => role \in requests[q].confirmed
  BY <1>1 DEF LocalsStayTrue
<1>6. OtherParty(role) \in Roles /\ OtherParty(OtherParty(role)) = role
  BY <1>2, TwoParties
<1>7. ASSUME NEW p \in Roles, NEW r \in RequestIds, <<p, r>> \in reminders'
      PROVE  /\ requests[r] # Unused
             /\ Live(r) => OtherParty(p) \in requests[r].confirmed
  <2>1. CASE <<p, r>> \in reminders
    BY <2>1 DEF IInv, ReminderIsFounded, PendingIsFresh
  <2>2. CASE <<p, r>> = <<OtherParty(role), q>>
    BY <1>5, <1>6, <2>2
  <2> QED
    BY <1>4, <1>7, <2>1, <2>2
<1>8. ReminderIsFounded'
  BY <1>3, <1>7 DEF ReminderIsFounded, Live
<1>9. PendingIsFresh'
  BY <1>3, <1>7 DEF IInv, PendingIsFresh
<1>10. HandoffConfirmed' /\ AcceptedIsDated' /\ RequestHasBook'
  BY <1>3 DEF IInv, HandoffConfirmed, AcceptedIsDated, RequestHasBook, Live, OnShelf
<1>11. ContactableLender'
  BY <1>3 DEF IInv, ContactableLender, Live, OnShelf, Lender, IsProfileComplete
<1>12. UnavailableWasHandedOver'
  BY <1>3 DEF IInv, UnavailableWasHandedOver, Live
<1>13. TablesGrow
  BY <1>3 DEF TablesGrow, RowGrows, IsProfileComplete, Live
<1>14. TypeOK'
  <2>1. reminders' \subseteq Roles \X RequestIds
    BY <1>1, <1>2, <1>4, <1>6 DEF TypeOK
  <2> QED
    BY <1>1, <1>3, <2>1, NewCalls, GotoOne DEF TypeOK
<1> QED
  BY <1>1, <1>3, <1>8, <1>9, <1>10, <1>11, <1>12, <1>13, <1>14,
     NewCalls, GotoOne, IdleKnowsNothing, StatementKeepsIInv DEF TablesInOrder

\* A new request takes an unused id: nobody holds locals about it.
LEMMA InsertRequestKeepsIInv ==
    ASSUME IInv, NEW h \in Handlers, InsertRequest(h)
    PROVE  IInv'
<1> DEFINE b == call[h].book
           u == call[h].requester
           row == NewRequest(b, u)
<1>1. TypeOK /\ call[h] \in Calls /\ call[h].step = "insert_request" /\ LocalsStayTrue(call[h])
  BY DEF IInv, TypeOK, InsertRequest, At
<1>2. b \in Books /\ u \in Users /\ u # Owner[b]
  BY <1>1, CallShape DEF LocalsStayTrue
<1>3. Goto(h, Idle) /\ UNCHANGED <<profile, books, threads, reminders>>
  BY DEF InsertRequest, Return
<1>4. CASE ~OnShelf(b)
  <2>1. UNCHANGED requests
    BY <1>4 DEF InsertRequest
  <2> QED
    BY <1>1, <1>3, <2>1, NewCalls, GotoOne, IdleKnowsNothing, MoveKeepsIInv DEF TypeOK
<1>5. CASE OnShelf(b)
  <2>1. PICK q \in RequestIds : /\ requests[q] = Unused
                                /\ requests' = [requests EXCEPT ![q] = row]
    BY <1>5 DEF InsertRequest
  <2>2. /\ row \in Row
        /\ row.book = b
        /\ row.requester = u
        /\ row.status = "pending"
        /\ row.confirmed = {}
        /\ row.acceptedAt = FALSE
        /\ row # Unused
    BY <1>2 DEF NewRequest, Row, Statuses, Unused
  <2>3. /\ requests' \in [RequestIds -> Row \cup {Unused, Deleted}]
        /\ requests'[q] = row
        /\ \A r \in RequestIds : r # q => requests'[r] = requests[r]
    BY <1>1, <2>1, <2>2 DEF TypeOK
  <2>4. ~Live(q)
    BY <2>1 DEF Live, Unused, Statuses
  <2>5. TablesGrow
    BY <1>3, <2>1, <2>2, <2>3 DEF TablesGrow, RowGrows, IsProfileComplete, Live
  <2>6. HandoffConfirmed' /\ AcceptedIsDated'
    BY <2>2, <2>3 DEF IInv, HandoffConfirmed, AcceptedIsDated, Live
  <2>7. ReminderIsFounded' /\ PendingIsFresh'
    BY <1>3, <2>1, <2>2, <2>3 DEF IInv, ReminderIsFounded, PendingIsFresh, Live
  <2>8. ContactableLender' /\ RequestHasBook'
    BY <1>2, <1>3, <1>5, <2>2, <2>3
       DEF IInv, ContactableLender, RequestHasBook, Live, OnShelf, Lender, IsProfileComplete
  <2>9. UnavailableWasHandedOver'
    <3>1. SUFFICES ASSUME FALSE \notin OwnerPatches, NEW k \in Books, books[k] = "unavailable"
                   PROVE  \E r \in RequestIds : /\ Live(r)'
                                                /\ requests'[r].book = k
                                                /\ requests'[r].confirmed = Roles
      BY <1>3 DEF UnavailableWasHandedOver
    <3>2. PICK r \in RequestIds : Live(r) /\ requests[r].book = k /\ requests[r].confirmed = Roles
      BY <3>1 DEF IInv, UnavailableWasHandedOver
    <3>3. requests'[r] = requests[r]
      BY <2>3, <2>4, <3>2
    <3> QED
      BY <3>2, <3>3 DEF Live
  <2>10. TypeOK'
    BY <1>1, <1>3, <2>3, NewCalls, GotoOne DEF TypeOK
  <2> QED
    BY <1>1, <1>3, <2>5, <2>6, <2>7, <2>8, <2>9, <2>10,
       NewCalls, GotoOne, IdleKnowsNothing, StatementKeepsIInv DEF TablesInOrder
<1> QED
  BY <1>4, <1>5

\* A statement that writes books alone, and keeps which books there are
\* except for putting new ones on the list.
LEMMA BooksOnly ==
    ASSUME IInv, books' \in [Books -> BookStates], UNCHANGED <<profile, requests, reminders>>,
           \A b \in Books :
             /\ OnShelf(b) => OnShelf(b)'
             /\ OnShelf(b)' => OnShelf(b) \/ IsProfileComplete(Owner[b])
             /\ FALSE \notin OwnerPatches =>
                  (books'[b] = "unavailable" => books[b] = "unavailable")
    PROVE  TablesGrow /\ TablesInOrder'
<1>1. TablesGrow
  BY DEF TablesGrow, RowGrows, IsProfileComplete, Live
<1>2. HandoffConfirmed' /\ AcceptedIsDated' /\ ReminderIsFounded' /\ PendingIsFresh'
  BY DEF IInv, HandoffConfirmed, AcceptedIsDated, ReminderIsFounded, PendingIsFresh, Live
<1>3. ContactableLender'
  BY DEF IInv, ContactableLender, Live, Lender, IsProfileComplete
<1>4. RequestHasBook'
  <2>1. TypeOK
    BY DEF IInv
  <2> QED
    BY <2>1, LiveRow DEF IInv, RequestHasBook, Live
<1>5. UnavailableWasHandedOver'
  BY DEF IInv, UnavailableWasHandedOver, Live
<1> QED
  BY <1>1, <1>2, <1>3, <1>4, <1>5 DEF TablesInOrder

\* A new book is available, and its owner's profile is still complete.
LEMMA InsertBookKeepsIInv ==
    ASSUME IInv, NEW h \in Handlers, InsertBook(h)
    PROVE  IInv'
<1>1. TypeOK /\ call[h] \in Calls /\ call[h].step = "insert_book" /\ LocalsStayTrue(call[h])
  BY DEF IInv, TypeOK, InsertBook, At
<1>2. Goto(h, Idle) /\ UNCHANGED <<profile, requests, threads, reminders>>
  BY DEF InsertBook, Return
<1>3. PICK k \in Books : /\ books[k] = "unused"
                         /\ Owner[k] = call[h].owner
                         /\ books' = SetAvailability(k, TRUE)
  BY DEF InsertBook
<1>4. IsProfileComplete(Owner[k])
  BY <1>1, <1>3 DEF LocalsStayTrue
<1>5. /\ books' \in [Books -> BookStates]
      /\ books'[k] = "available"
      /\ \A b \in Books : b # k => books'[b] = books[b]
  BY <1>1, <1>3, SetAvailabilityRow
<1>6. \A b \in Books :
        /\ OnShelf(b) => OnShelf(b)'
        /\ OnShelf(b)' => OnShelf(b) \/ IsProfileComplete(Owner[b])
        /\ books'[b] = "unavailable" => books[b] = "unavailable"
  BY <1>3, <1>4, <1>5 DEF OnShelf
<1>7. TablesGrow /\ TablesInOrder'
  BY <1>2, <1>5, <1>6, BooksOnly
<1>8. TypeOK'
  BY <1>1, <1>2, <1>5, NewCalls, GotoOne DEF TypeOK
<1> QED
  BY <1>1, <1>2, <1>7, <1>8, NewCalls, GotoOne, IdleKnowsNothing, StatementKeepsIInv

\* A book hidden by hand is allowed for: the owner may send FALSE.
LEMMA UpdateBookKeepsIInv ==
    ASSUME IInv, NEW h \in Handlers, UpdateBook(h)
    PROVE  IInv'
<1> DEFINE k == call[h].book
<1>1. TypeOK /\ call[h] \in Calls /\ call[h].step = "update_book" /\ LocalsStayTrue(call[h])
  BY DEF IInv, TypeOK, UpdateBook, At
<1>2. k \in Books /\ call[h].available \in BOOLEAN /\ call[h].available \in OwnerPatches
  BY <1>1, CallShape DEF LocalsStayTrue
<1>3. Goto(h, Idle) /\ UNCHANGED <<profile, requests, threads, reminders>>
  BY DEF UpdateBook, Return
<1>4. CASE ~OnShelf(k)
  <2>1. UNCHANGED books
    BY <1>4 DEF UpdateBook
  <2> QED
    BY <1>1, <1>3, <2>1, NewCalls, GotoOne, IdleKnowsNothing, MoveKeepsIInv DEF TypeOK
<1>5. CASE OnShelf(k)
  <2>1. books' = SetAvailability(k, call[h].available)
    BY <1>5 DEF UpdateBook
  <2>2. /\ books' \in [Books -> BookStates]
        /\ books'[k] = IF call[h].available THEN "available" ELSE "unavailable"
        /\ \A b \in Books : b # k => books'[b] = books[b]
    BY <1>1, <1>2, <2>1, SetAvailabilityRow
  <2>3. FALSE \notin OwnerPatches => books'[k] = "available"
    BY <1>2, <2>2
  <2>4. \A b \in Books :
          /\ books[b] \in {"available", "unavailable"} <=>
               books'[b] \in {"available", "unavailable"}
          /\ FALSE \notin OwnerPatches =>
               (books'[b] = "unavailable" => books[b] = "unavailable")
    BY <1>5, <2>2, <2>3 DEF OnShelf
  <2>5. TablesGrow /\ TablesInOrder'
    BY <1>3, <2>2, <2>4, BooksOnly DEF OnShelf
  <2>6. TypeOK'
    BY <1>1, <1>3, <2>2, NewCalls, GotoOne DEF TypeOK
  <2> QED
    BY <1>1, <1>3, <2>5, <2>6, NewCalls, GotoOne, IdleKnowsNothing, StatementKeepsIInv
<1> QED
  BY <1>4, <1>5

\* A deleted book takes with it every row that could have spoken of it.
LEMMA DeleteBookKeepsIInv ==
    ASSUME IInv, NEW h \in Handlers, DeleteBook(h)
    PROVE  IInv'
<1> DEFINE k == call[h].book
<1>1. TypeOK /\ call[h] \in Calls /\ call[h].step = "delete_book"
  BY DEF IInv, TypeOK, DeleteBook, At
<1>2. k \in Books
  BY <1>1, CallShape
<1>3. Goto(h, Idle) /\ UNCHANGED <<profile, threads, reminders>>
  BY DEF DeleteBook, Return
<1>4. CASE ~OnShelf(k)
  <2>1. UNCHANGED <<books, requests>>
    BY <1>4 DEF DeleteBook
  <2> QED
    BY <1>1, <1>3, <2>1, NewCalls, GotoOne, IdleKnowsNothing, MoveKeepsIInv DEF TypeOK
<1>5. CASE OnShelf(k)
  <2>1. DeleteBookCascade(k)
    BY <1>5 DEF DeleteBook
  <2>2. /\ books' \in [Books -> BookStates]
        /\ books'[k] = "deleted"
        /\ \A b \in Books : b # k => books'[b] = books[b]
    BY <1>1, <1>2, <2>1 DEF DeleteBookCascade, TypeOK, BookStates
  <2>3. /\ requests' \in [RequestIds -> Row \cup {Unused, Deleted}]
        /\ \A r \in RequestIds :
             requests'[r] = IF Live(r) /\ requests[r].book = k THEN Deleted ELSE requests[r]
    BY <1>1, <2>1 DEF DeleteBookCascade, TypeOK
  <2>4. Deleted.status \notin Statuses /\ Deleted # Unused
    BY DEF Deleted, Unused, Statuses
  <2>5. ASSUME NEW r \in RequestIds
        PROVE  /\ requests[r] = Unused <=> requests'[r] = Unused
               /\ Live(r)' => /\ Live(r)
                              /\ requests[r].book # k
                              /\ requests'[r] = requests[r]
               /\ Live(r) /\ requests[r].book # k => Live(r)' /\ requests'[r] = requests[r]
               /\ requests'[r].status \in Statuses => Live(r)'
    BY <2>3, <2>4 DEF Live, Unused, Statuses
  <2>6. TablesGrow
    BY <1>3, <2>5 DEF TablesGrow, RowGrows, IsProfileComplete
  <2>7. HandoffConfirmed' /\ AcceptedIsDated'
    BY <2>5 DEF IInv, HandoffConfirmed, AcceptedIsDated, Statuses
  <2>8. ReminderIsFounded' /\ PendingIsFresh'
    BY <1>3, <2>5 DEF IInv, ReminderIsFounded, PendingIsFresh, Statuses
  <2>9. ContactableLender' /\ RequestHasBook'
    BY <1>1, <1>3, <2>2, <2>5, LiveRow
       DEF IInv, ContactableLender, RequestHasBook, OnShelf, Lender, IsProfileComplete
  <2>10. UnavailableWasHandedOver'
    <3>1. SUFFICES ASSUME FALSE \notin OwnerPatches, NEW b \in Books, books'[b] = "unavailable"
                   PROVE  \E r \in RequestIds : /\ Live(r)'
                                                /\ requests'[r].book = b
                                                /\ requests'[r].confirmed = Roles
      BY DEF UnavailableWasHandedOver
    <3>2. b # k /\ books[b] = "unavailable"
      BY <2>2, <3>1
    <3>3. PICK r \in RequestIds : Live(r) /\ requests[r].book = b /\ requests[r].confirmed = Roles
      BY <3>1, <3>2 DEF IInv, UnavailableWasHandedOver
    <3> QED
      BY <2>5, <3>2, <3>3
  <2>11. TypeOK'
    BY <1>1, <1>3, <2>2, <2>3, NewCalls, GotoOne DEF TypeOK
  <2> QED
    BY <1>1, <1>3, <2>6, <2>7, <2>8, <2>9, <2>10, <2>11,
       NewCalls, GotoOne, IdleKnowsNothing, StatementKeepsIInv DEF TablesInOrder
<1> QED
  BY <1>4, <1>5

\* A profile only gains fields.
LEMMA UpdateProfileKeepsIInv ==
    ASSUME IInv, NEW u \in Users, NEW fields \in SUBSET ProfileFields, UpdateProfile(u, fields)
    PROVE  IInv'
<1>1. TypeOK /\ UNCHANGED <<books, requests, threads, reminders, call>>
  BY DEF IInv, UpdateProfile
<1>2. /\ profile' \in [Users -> SUBSET ProfileFields]
      /\ \A v \in Users : IsProfileComplete(v) => IsProfileComplete(v)'
  BY <1>1 DEF TypeOK, UpdateProfile, IsProfileComplete
<1>3. TypeOK'
  BY <1>1, <1>2 DEF TypeOK
<1>4. TablesGrow
  BY <1>1, <1>2 DEF TablesGrow, RowGrows, Live
<1>5. HandoffConfirmed' /\ AcceptedIsDated' /\ ReminderIsFounded' /\ PendingIsFresh'
        /\ RequestHasBook' /\ UnavailableWasHandedOver'
  <2>1. HandoffConfirmed' /\ AcceptedIsDated' /\ ReminderIsFounded' /\ PendingIsFresh'
    BY <1>1 DEF IInv, HandoffConfirmed, AcceptedIsDated, ReminderIsFounded, PendingIsFresh, Live
  <2>2. RequestHasBook'
    BY <1>1 DEF IInv, RequestHasBook, Live, OnShelf
  <2>3. UnavailableWasHandedOver'
    BY <1>1 DEF IInv, UnavailableWasHandedOver, Live
  <2> QED
    BY <2>1, <2>2, <2>3
<1>6. ContactableLender'
  BY <1>1, <1>2, TablesAssumption DEF IInv, ContactableLender, Live, OnShelf, Lender
<1>7. ASSUME NEW h \in Handlers PROVE LocalsStayTrue(call[h])'
  BY <1>1, <1>3, <1>4, LocalsSurvive DEF IInv
<1> QED
  BY <1>3, <1>5, <1>6, <1>7 DEF IInv

-----------------------------------------------------------------------------
(***************************************************************************)
(* The theorems.                                                           *)
(***************************************************************************)

\* Empty tables and idle goroutines satisfy the invariant.
LEMMA InitIInv == Init => IInv
<1> SUFFICES ASSUME Init PROVE IInv
  OBVIOUS
<1> USE DEF Init
<1>1. TypeOK
  BY NewCalls, TablesAssumption DEF TypeOK, BookStates
<1>2. \A r \in RequestIds : ~Live(r) /\ requests[r].status = "unused"
  BY DEF Live, Unused, Statuses
<1>3. \A b \in Books : ~OnShelf(b) /\ books[b] # "unavailable"
  BY DEF OnShelf
<1>4. HandoffConfirmed /\ AcceptedIsDated /\ ReminderIsFounded /\ PendingIsFresh
  BY <1>2 DEF HandoffConfirmed, AcceptedIsDated, ReminderIsFounded, PendingIsFresh
<1>5. ContactableLender /\ UnavailableWasHandedOver /\ RequestHasBook
  BY <1>2, <1>3 DEF ContactableLender, UnavailableWasHandedOver, RequestHasBook
<1>6. \A h \in Handlers : LocalsStayTrue(call[h])
  BY DEF LocalsStayTrue, Idle
<1> QED
  BY <1>1, <1>4, <1>5, <1>6 DEF IInv

\* Every statement of every handler keeps the invariant.
LEMMA NextIInv == IInv /\ [Next]_vars => IInv'
<1> SUFFICES ASSUME IInv, [Next]_vars PROVE IInv'
  OBVIOUS
<1>1. ASSUME NEW h \in Handlers, BeginRequestCall(h) PROVE IInv'
  BY <1>1, BeginCreateRequestKeepsIInv, BeginUpdateStatusKeepsIInv, BeginConfirmKeepsIInv,
     BeginReturnKeepsIInv DEF BeginRequestCall
<1>2. ASSUME NEW h \in Handlers, BeginCatalogCall(h) PROVE IInv'
  BY <1>2, BeginCreateBookKeepsIInv, BeginUpdateBookKeepsIInv, BeginDeleteBookKeepsIInv
     DEF BeginCatalogCall
<1>3. ASSUME NEW h \in Handlers, RequestStep(h) PROVE IInv'
  BY <1>3, CheckPendingKeepsIInv, InsertRequestKeepsIInv, CreateThreadKeepsIInv,
     WriteStatusKeepsIInv, ConfirmTxKeepsIInv, NotifyOtherKeepsIInv, ReturnTxKeepsIInv
     DEF RequestStep
<1>4. ASSUME NEW h \in Handlers, CatalogStep(h) PROVE IInv'
  BY <1>4, InsertBookKeepsIInv, UpdateBookKeepsIInv, DeleteBookKeepsIInv DEF CatalogStep
<1>5. ASSUME NEW h \in Handlers, Abort(h) PROVE IInv'
  BY <1>5, AbortKeepsIInv
<1>6. CASE EditProfile
  BY <1>6, UpdateProfileKeepsIInv DEF EditProfile
<1>7. CASE UNCHANGED vars
  <2>1. UNCHANGED <<profile, books, requests, threads, reminders, call>>
    BY <1>7 DEF vars
  <2>2. TypeOK' /\ TypeOK
    BY <2>1 DEF IInv, TypeOK
  <2>3. TablesGrow /\ TablesInOrder'
    BY <2>1, SameTables
  <2>4. ASSUME NEW h \in Handlers PROVE LocalsStayTrue(call[h])'
    BY <2>1, <2>2, <2>3, LocalsSurvive DEF IInv
  <2> QED
    BY <2>2, <2>3, <2>4 DEF IInv, TablesInOrder
<1> QED
  BY <1>1, <1>2, <1>3, <1>4, <1>5, <1>6, <1>7 DEF Next, Begin, Step

\* IInv holds in every reachable state.
THEOREM Invariance == Spec => []IInv
  BY InitIInv, NextIInv, PTL DEF Spec

\* Rows and calls keep their shapes under any interleaving and any aborts.
THEOREM TypeCorrect == Spec => []TypeOK
<1>1. IInv => TypeOK
  BY DEF IInv
<1> QED
  BY <1>1, Invariance, PTL

\* However many goroutines act on stale reads, no request is ever active or
\* returned without both confirmations (ConfirmHandoff, MarkReturned).
THEOREM HandoffIsConfirmed == Spec => []HandoffConfirmed
<1>1. IInv => HandoffConfirmed
  BY DEF IInv
<1> QED
  BY <1>1, Invariance, PTL

\* Every request that was accepted has accepted_at, which the feed reads.
THEOREM AcceptanceIsDated == Spec => []AcceptedIsDated
<1>1. IInv => AcceptedIsDated
  BY DEF IInv
<1> QED
  BY <1>1, Invariance, PTL

\* A party is only asked to confirm what the other party has confirmed.
THEOREM RemindersAreFounded == Spec => []ReminderIsFounded
<1>1. IInv => ReminderIsFounded
  BY DEF IInv
<1> QED
  BY <1>1, Invariance, PTL

\* Listed books belong to students who can be reached; nobody borrows from
\* themselves.
THEOREM LendersAreContactable == Spec => []ContactableLender
<1>1. IInv => ContactableLender
  BY DEF IInv
<1> QED
  BY <1>1, Invariance, PTL

\* If owners never hide a book by hand, an unavailable one was handed over.
THEOREM UnavailableIsExplained == Spec => []UnavailableWasHandedOver
<1>1. IInv => UnavailableWasHandedOver
  BY DEF IInv
<1> QED
  BY <1>1, Invariance, PTL

-----------------------------------------------------------------------------
(***************************************************************************)
(* Action properties.                                                      *)
(***************************************************************************)

\* Steps that leave a table alone.
LEMMA QuietSteps ==
    ASSUME NEW h \in Handlers
    PROVE  /\ BeginRequestCall(h) \/ BeginCatalogCall(h) \/ Abort(h)
                => UNCHANGED <<books, requests>>
           /\ CheckPending(h) \/ CreateThread(h) \/ NotifyOther(h) => UNCHANGED <<books, requests>>
           /\ InsertRequest(h) \/ WriteStatus(h) => UNCHANGED books
           /\ InsertBook(h) \/ UpdateBook(h) => UNCHANGED requests
<1>1. BeginRequestCall(h) => UNCHANGED <<books, requests>>
  BY DEF BeginRequestCall, BeginCreateRequest, BeginUpdateStatus, BeginConfirm, BeginReturn
<1>2. BeginCatalogCall(h) => UNCHANGED <<books, requests>>
  BY DEF BeginCatalogCall, BeginCreateBook, BeginUpdateBook, BeginDeleteBook
<1> QED
  BY <1>1, <1>2
     DEF Abort, CheckPending, CreateThread, NotifyOther, InsertRequest, WriteStatus,
         InsertBook, UpdateBook

\* What the locals of the two transactions imply about their row.
LEMMA TransactionRows ==
    ASSUME IInv, NEW h \in Handlers, call[h].step \in {"confirm_tx", "return_tx"},
           Live(call[h].request)
    PROVE  /\ call[h].request \in RequestIds
           /\ requests[call[h].request] \in Row
           /\ requests[call[h].request].status # "pending"
           /\ call[h].step = "confirm_tx" => call[h].role \in Roles
<1>1. TypeOK /\ call[h] \in Calls /\ LocalsStayTrue(call[h])
  BY DEF IInv, TypeOK
<1>2. /\ call[h].request \in RequestIds
      /\ call[h].step = "confirm_tx" => call[h].role \in Roles
  BY <1>1, CallShape
<1>3. requests[call[h].request] \in Row
  BY <1>1, <1>2, LiveRow
<1>4. requests[call[h].request].status # "pending"
  BY <1>1, <1>2 DEF LocalsStayTrue, IInv, PendingIsFresh, Roles
<1> QED
  BY <1>2, <1>3, <1>4

\* The row that a handoff or a return writes.
LEMMA ConfirmTxRow ==
    ASSUME IInv, NEW h \in Handlers, ConfirmTx(h), Live(call[h].request)
    PROVE  LET q == call[h].request
           IN  /\ \A r \in RequestIds : r # q => requests'[r] = requests[r]
               /\ requests'[q].book = requests[q].book
               /\ requests'[q].status # "pending"
               /\ books' # books => /\ books' = SetAvailability(requests[q].book, FALSE)
                                    /\ requests'[q].status = "active"
<1> DEFINE q == call[h].request
           confirmed == SetConfirmed(requests[q], call[h].role)
           row == UpdateStatus(confirmed, "active")
<1>1. /\ q \in RequestIds
      /\ requests[q] \in Row
      /\ requests[q].status # "pending"
      /\ call[h].role \in Roles
  BY TransactionRows DEF ConfirmTx, At
<1>2. confirmed \in Row /\ confirmed.status = requests[q].status
        /\ confirmed.book = requests[q].book
  BY <1>1, SetConfirmedRow
<1>3. row \in Row /\ row.status = "active" /\ row.book = requests[q].book
  BY <1>2, UpdateStatusRow DEF Statuses
<1>4. \/ requests' = [requests EXCEPT ![q] = row]
         /\ books' = SetAvailability(requests[q].book, FALSE)
      \/ requests' = [requests EXCEPT ![q] = confirmed] /\ UNCHANGED books
  BY DEF ConfirmTx
<1>5. requests \in [RequestIds -> Row \cup {Unused, Deleted}]
  BY DEF IInv, TypeOK
<1> QED
  BY <1>1, <1>2, <1>3, <1>4, <1>5

\* The row that the transaction of MarkReturned writes.
LEMMA ReturnTxRow ==
    ASSUME IInv, NEW h \in Handlers, ReturnTx(h), Live(call[h].request)
    PROVE  LET q == call[h].request
           IN  /\ \A r \in RequestIds : r # q => requests'[r] = requests[r]
               /\ requests'[q].book = requests[q].book
               /\ requests'[q].status = "returned"
               /\ books' = SetAvailability(requests[q].book, TRUE)
<1> DEFINE q == call[h].request
           row == UpdateStatus(requests[q], "returned")
<1>1. q \in RequestIds /\ requests[q] \in Row
  BY TransactionRows DEF ReturnTx, At
<1>2. row \in Row /\ row.status = "returned" /\ row.book = requests[q].book
  BY <1>1, UpdateStatusRow DEF Statuses
<1>3. requests' = [requests EXCEPT ![q] = row] /\ books' = SetAvailability(requests[q].book, TRUE)
  BY DEF ReturnTx
<1>4. requests \in [RequestIds -> Row \cup {Unused, Deleted}]
  BY DEF IInv, TypeOK
<1> QED
  BY <1>1, <1>2, <1>3, <1>4

\* Every step decides pending requests properly, and brings none back.
LEMMA PendingSteps ==
    ASSUME IInv, [Next]_vars, NEW r \in RequestIds
    PROVE  PendingStep(r)
<1>1. TypeOK
  BY DEF IInv
<1>2. CASE UNCHANGED requests
  BY <1>2 DEF PendingStep
<1>3. ASSUME NEW h \in Handlers, InsertRequest(h) PROVE PendingStep(r)
  <2>1. CASE UNCHANGED requests
    BY <1>2, <2>1
  <2>2. CASE ~UNCHANGED requests
    <3>1. PICK q \in RequestIds :
            /\ requests[q] = Unused
            /\ requests' = [requests EXCEPT ![q] = NewRequest(call[h].book, call[h].requester)]
      BY <1>3, <2>2 DEF InsertRequest
    <3> QED
      BY <1>1, <3>1 DEF PendingStep, Unused, TypeOK
  <2> QED
    BY <2>1, <2>2
<1>4. ASSUME NEW h \in Handlers, WriteStatus(h) PROVE PendingStep(r)
  <2> DEFINE q == call[h].request
  <2>1. CASE UNCHANGED requests
    BY <1>2, <2>1
  <2>2. CASE ~UNCHANGED requests
    <3>1. Live(q) /\ requests' = [requests EXCEPT ![q] = UpdateStatus(@, call[h].status)]
      BY <1>4, <2>2 DEF WriteStatus
    <3>2. q \in RequestIds /\ call[h].status \in {"accepted", "rejected"}
      BY <1>1, <1>4, CallShape DEF TypeOK, WriteStatus, At
    <3>3. requests[q] \in Row /\ call[h].status \in Statuses
      BY <1>1, <3>1, <3>2, LiveRow DEF Statuses
    <3>4. UpdateStatus(requests[q], call[h].status).status \in {"accepted", "rejected"}
      BY <3>2, <3>3, UpdateStatusRow
    <3> QED
      BY <1>1, <3>1, <3>2, <3>4 DEF PendingStep, TypeOK
  <2> QED
    BY <2>1, <2>2
<1>5. ASSUME NEW h \in Handlers, ConfirmTx(h) PROVE PendingStep(r)
  <2>1. CASE UNCHANGED requests
    BY <1>2, <2>1
  <2>2. CASE ~UNCHANGED requests
    <3>1. Live(call[h].request)
      BY <1>5, <2>2 DEF ConfirmTx
    <3> QED
      BY <1>5, <3>1, ConfirmTxRow, TransactionRows DEF PendingStep, ConfirmTx, At
  <2> QED
    BY <2>1, <2>2
<1>6. ASSUME NEW h \in Handlers, ReturnTx(h) PROVE PendingStep(r)
  <2>1. CASE UNCHANGED requests
    BY <1>2, <2>1
  <2>2. CASE ~UNCHANGED requests
    <3>1. Live(call[h].request)
      BY <1>6, <2>2 DEF ReturnTx
    <3> QED
      BY <1>6, <3>1, ReturnTxRow, TransactionRows DEF PendingStep, ReturnTx, At
  <2> QED
    BY <2>1, <2>2
<1>7. ASSUME NEW h \in Handlers, DeleteBook(h) PROVE PendingStep(r)
  BY <1>2, <1>7 DEF DeleteBook, DeleteBookCascade, PendingStep, Deleted
<1>8. CASE EditProfile \/ UNCHANGED vars
  BY <1>2, <1>8 DEF EditProfile, UpdateProfile, vars
<1> QED
  BY <1>2, <1>3, <1>4, <1>5, <1>6, <1>7, <1>8, QuietSteps
     DEF Next, Begin, Step, RequestStep, CatalogStep

-----------------------------------------------------------------------------
(***************************************************************************)
(* Every step makes the tables grow.                                       *)
(***************************************************************************)

\* One row that is rewritten and keeps what it had, the others as they were.
LEMMA RowRewritten ==
    ASSUME TypeOK, NEW q \in RequestIds, Live(q), NEW row \in Row,
           requests' = [requests EXCEPT ![q] = row],
           row.book = requests[q].book,
           row.requester = requests[q].requester,
           requests[q].confirmed \subseteq row.confirmed,
           requests[q].acceptedAt => row.acceptedAt
    PROVE  \A r \in RequestIds : RowGrows(r)
<1>1. requests[q] # Unused /\ row # Unused
  BY LiveRow DEF Row, Unused
<1>2. SUFFICES ASSUME NEW r \in RequestIds PROVE RowGrows(r)
  OBVIOUS
<1>3. CASE r = q
  <2>1. requests'[q] = row
    BY DEF TypeOK
  <2> QED
    BY <1>1, <1>3, <2>1 DEF RowGrows
<1>4. CASE r # q
  <2>1. requests'[r] = requests[r]
    BY <1>4 DEF TypeOK
  <2> QED
    BY <2>1 DEF RowGrows, Live
<1> QED
  BY <1>3, <1>4

\* Whoever takes it, a step gives no id back, withdraws no confirmation or
\* date, and empties no profile.
LEMMA NextGrows ==
    ASSUME IInv, [Next]_vars
    PROVE  TablesGrow
<1>1. TypeOK
  BY DEF IInv
<1>2. ASSUME NEW u \in Users, IsProfileComplete(u) PROVE IsProfileComplete(u)'
  <2>1. CASE EditProfile
    <3>1. PICK v \in Users, fields \in SUBSET ProfileFields :
            profile' = [profile EXCEPT ![v] = @ \cup fields]
      BY <2>1 DEF EditProfile, UpdateProfile
    <3> QED
      BY <1>1, <1>2, <3>1 DEF TypeOK, IsProfileComplete
  <2>2. CASE UNCHANGED profile
    BY <1>2, <2>2 DEF IsProfileComplete
  <2>3. EditProfile \/ UNCHANGED profile
    <3>1. ASSUME NEW h \in Handlers, BeginRequestCall(h) PROVE UNCHANGED profile
      BY <3>1 DEF BeginRequestCall, BeginCreateRequest, BeginUpdateStatus, BeginConfirm,
         BeginReturn
    <3>2. ASSUME NEW h \in Handlers, BeginCatalogCall(h) PROVE UNCHANGED profile
      BY <3>2 DEF BeginCatalogCall, BeginCreateBook, BeginUpdateBook, BeginDeleteBook
    <3>3. ASSUME NEW h \in Handlers, RequestStep(h) PROVE UNCHANGED profile
      BY <3>3 DEF RequestStep, CheckPending, InsertRequest, CreateThread, WriteStatus,
         ConfirmTx, NotifyOther, ReturnTx
    <3>4. ASSUME NEW h \in Handlers, CatalogStep(h) \/ Abort(h) PROVE UNCHANGED profile
      BY <3>4 DEF CatalogStep, InsertBook, UpdateBook, DeleteBook, Abort
    <3> QED
      BY <3>1, <3>2, <3>3, <3>4 DEF Next, Begin, Step, vars
  <2> QED
    BY <2>1, <2>2, <2>3
<1>3. CASE UNCHANGED requests
  BY <1>2, <1>3 DEF TablesGrow, RowGrows, Live
<1>4. ASSUME NEW h \in Handlers, InsertRequest(h), ~UNCHANGED requests
      PROVE  \A r \in RequestIds : RowGrows(r)
  <2>1. PICK q \in RequestIds :
          /\ requests[q] = Unused
          /\ requests' = [requests EXCEPT ![q] = NewRequest(call[h].book, call[h].requester)]
    BY <1>4 DEF InsertRequest
  <2>2. \A r \in RequestIds : r # q => requests'[r] = requests[r]
    BY <1>1, <2>1 DEF TypeOK
  <2> QED
    BY <2>1, <2>2 DEF RowGrows, Live
<1>5. ASSUME NEW h \in Handlers, WriteStatus(h), ~UNCHANGED requests
      PROVE  \A r \in RequestIds : RowGrows(r)
  <2> DEFINE q == call[h].request
  <2>1. /\ Live(q)
        /\ requests' = [requests EXCEPT ![q] = UpdateStatus(requests[q], call[h].status)]
    BY <1>5 DEF WriteStatus
  <2>2. q \in RequestIds /\ call[h].status \in Statuses
    BY <1>1, <1>5, CallShape DEF TypeOK, WriteStatus, At, Statuses
  <2>3. requests[q] \in Row
    BY <1>1, <2>1, <2>2, LiveRow
  <2> QED
    BY <1>1, <2>1, <2>2, <2>3, UpdateStatusRow, RowRewritten
<1>6. ASSUME NEW h \in Handlers, ConfirmTx(h), ~UNCHANGED requests
      PROVE  \A r \in RequestIds : RowGrows(r)
  <2> DEFINE q == call[h].request
             confirmed == SetConfirmed(requests[q], call[h].role)
  <2>1. /\ Live(q)
        /\ \/ requests' = [requests EXCEPT ![q] = UpdateStatus(confirmed, "active")]
           \/ requests' = [requests EXCEPT ![q] = confirmed]
    BY <1>6 DEF ConfirmTx
  <2>2. q \in RequestIds /\ requests[q] \in Row /\ call[h].role \in Roles
    BY <1>6, <2>1, TransactionRows DEF ConfirmTx, At
  <2>3. /\ confirmed \in Row
        /\ confirmed.book = requests[q].book
        /\ confirmed.requester = requests[q].requester
        /\ requests[q].confirmed \subseteq confirmed.confirmed
        /\ confirmed.acceptedAt = requests[q].acceptedAt
    BY <2>2, SetConfirmedRow
  <2>4. /\ UpdateStatus(confirmed, "active") \in Row
        /\ UpdateStatus(confirmed, "active").book = confirmed.book
        /\ UpdateStatus(confirmed, "active").requester = confirmed.requester
        /\ UpdateStatus(confirmed, "active").confirmed = confirmed.confirmed
        /\ confirmed.acceptedAt => UpdateStatus(confirmed, "active").acceptedAt
    BY <2>3, UpdateStatusRow DEF Statuses
  <2>5. CASE requests' = [requests EXCEPT ![q] = UpdateStatus(confirmed, "active")]
    <3> HIDE DEF confirmed
    <3> QED
      BY <1>1, <2>1, <2>2, <2>3, <2>4, <2>5, RowRewritten
  <2>6. CASE requests' = [requests EXCEPT ![q] = confirmed]
    <3> HIDE DEF confirmed
    <3> QED
      BY <1>1, <2>1, <2>2, <2>3, <2>6, RowRewritten
  <2> QED
    BY <2>1, <2>5, <2>6
<1>7. ASSUME NEW h \in Handlers, ReturnTx(h), ~UNCHANGED requests
      PROVE  \A r \in RequestIds : RowGrows(r)
  <2> DEFINE q == call[h].request
  <2>1. /\ Live(q)
        /\ requests' = [requests EXCEPT ![q] = UpdateStatus(requests[q], "returned")]
    BY <1>7 DEF ReturnTx
  <2>2. q \in RequestIds /\ requests[q] \in Row
    BY <1>7, <2>1, TransactionRows DEF ReturnTx, At
  <2> QED
    BY <1>1, <2>1, <2>2, UpdateStatusRow, RowRewritten DEF Statuses
<1>8. ASSUME NEW h \in Handlers, DeleteBook(h), ~UNCHANGED requests
      PROVE  \A r \in RequestIds : RowGrows(r)
  <2>1. requests' = [r \in RequestIds |->
                       IF Live(r) /\ requests[r].book = call[h].book
                       THEN Deleted ELSE requests[r]]
    BY <1>8 DEF DeleteBook, DeleteBookCascade
  <2>2. Deleted # Unused /\ Deleted.status \notin Statuses
    BY DEF Deleted, Unused, Statuses
  <2> QED
    BY <2>1, <2>2 DEF RowGrows, Live
<1>9. \/ UNCHANGED requests
      \/ \E h \in Handlers :
           InsertRequest(h) \/ WriteStatus(h) \/ ConfirmTx(h) \/ ReturnTx(h) \/ DeleteBook(h)
  BY QuietSteps
     DEF Next, Begin, Step, RequestStep, CatalogStep, EditProfile, UpdateProfile, vars
<1> QED
  BY <1>2, <1>3, <1>4, <1>5, <1>6, <1>7, <1>8, <1>9 DEF TablesGrow

\* A pending request is decided by its owner or goes with its book, and no
\* late write makes a request pending again.
THEOREM PendingDecidedOnce == Spec => PendingIsLeftOnce
<1>1. IInv /\ [Next]_vars => [\A r \in RequestIds : PendingStep(r)]_vars
  BY PendingSteps
<1> QED
  BY <1>1, Invariance, PTL DEF Spec, PendingIsLeftOnce

-----------------------------------------------------------------------------
(***************************************************************************)
(* What a goroutine has read (ReadsAreFresh) and how it goes stale.        *)
(***************************************************************************)

AskSteps == {"check_pending", "insert_request"}

RequestSteps == {"create_thread", "update_status", "confirm_tx", "notify", "return_tx"}

\* Which calls ask for a student, and which concern a request.
LEMMA CallFields ==
    ASSUME NEW c \in Calls
    PROVE  /\ c.step \in AskSteps => "requester" \in DOMAIN c
           /\ c.step \in RequestSteps => "request" \in DOMAIN c
  BY DEF Calls, Idle, AskSteps, RequestSteps

\* A read stays fresh if the one request it is about is not written, and no
\* request appears for the student it is about.
LEMMA StaysFresh ==
    ASSUME TypeOK, NEW g \in Handlers, ReadsAreFresh(call[g]), call'[g] = call[g],
           call[g].step \in RequestSteps =>
             LET r == call[g].request
             IN  requests'[r] = requests[r] \/ ~Live(r)' \/ requests[r] = Unused,
           LocalsStayTrue(call[g]),
           call[g].step \in RequestSteps /\ requests[call[g].request] = Unused
                 /\ Live(call[g].request)'
             => requests'[call[g].request].status = "pending",
           call[g].step = "insert_request" =>
             (HasPendingRequest(call[g].book, call[g].requester)'
                => HasPendingRequest(call[g].book, call[g].requester))
    PROVE  ReadsAreFresh(call[g])'
<1> DEFINE c == call[g]
<1>1. CASE c.step = "insert_request"
  BY <1>1 DEF ReadsAreFresh
<1>2. CASE c.step \in {"create_thread", "update_status"}
  BY <1>2 DEF ReadsAreFresh, RequestSteps, Live
<1>3. CASE c.step = "confirm_tx"
  BY <1>3 DEF ReadsAreFresh, RequestSteps, Live, LocalsStayTrue
<1>4. CASE c.step = "return_tx"
  BY <1>4 DEF ReadsAreFresh, RequestSteps, Live, LocalsStayTrue
<1>5. CASE c.step \notin {"insert_request", "create_thread", "update_status", "confirm_tx",
                          "return_tx"}
  BY <1>5 DEF ReadsAreFresh
<1> QED
  BY <1>1, <1>2, <1>3, <1>4, <1>5

\* A call leaves the others' calls alone.
LEMMA OthersCalls ==
    ASSUME TypeOK, NEW h \in Handlers, Begin(h) \/ Step(h) \/ Abort(h)
    PROVE  \A g \in Handlers : g # h => call'[g] = call[g]
<1>1. ASSUME NEW c, Goto(h, c) PROVE \A g \in Handlers : g # h => call'[g] = call[g]
  BY <1>1 DEF TypeOK, Goto
<1>2. CASE BeginRequestCall(h)
  BY <1>1, <1>2 DEF BeginRequestCall, BeginCreateRequest, BeginUpdateStatus, BeginConfirm,
     BeginReturn
<1>3. CASE BeginCatalogCall(h)
  BY <1>1, <1>3 DEF BeginCatalogCall, BeginCreateBook, BeginUpdateBook, BeginDeleteBook
<1>4. CASE RequestStep(h)
  BY <1>1, <1>4 DEF RequestStep, CheckPending, InsertRequest, CreateThread, WriteStatus,
     ConfirmTx, NotifyOther, ReturnTx, Return
<1>5. CASE CatalogStep(h) \/ Abort(h)
  BY <1>1, <1>5 DEF CatalogStep, InsertBook, UpdateBook, DeleteBook, Abort, Return
<1> QED
  BY <1>2, <1>3, <1>4, <1>5 DEF Begin, Step

\* A call that has returned has read nothing.
LEMMA ReturnedReads ==
    ASSUME TypeOK, NEW h \in Handlers, Return(h)
    PROVE  ReadsAreFresh(call[h])'
<1>1. call'[h] = Idle
  BY DEF TypeOK, Return, Goto
<1> QED
  BY <1>1 DEF ReadsAreFresh, Idle

\* A handler's reads are fresh when it has just made them.
LEMMA BeginReads ==
    ASSUME TypeOK, NEW h \in Handlers, Begin(h)
    PROVE  ReadsAreFresh(call[h])'
<1>1. UNCHANGED requests /\ UNCHANGED books
  BY QuietSteps DEF Begin
<1>2. ASSUME NEW u \in Users, NEW b \in Books, BeginCreateRequest(h, u, b)
      PROVE  ReadsAreFresh(call[h])'
  <2>1. call'[h] = [step |-> "check_pending", book |-> b, requester |-> u]
    BY <1>2 DEF TypeOK, BeginCreateRequest, Goto
  <2> QED
    BY <2>1 DEF ReadsAreFresh
<1>3. ASSUME NEW u \in Users, NEW r \in RequestIds, NEW status \in {"accepted", "rejected"},
             BeginUpdateStatus(h, u, r, status)
      PROVE  ReadsAreFresh(call[h])'
  <2>1. /\ call'[h].step \in {"create_thread", "update_status"}
        /\ call'[h].request = r
        /\ requests[r].status = "pending"
    BY <1>3 DEF TypeOK, BeginUpdateStatus, Goto
  <2> QED
    BY <1>1, <2>1 DEF ReadsAreFresh
<1>4. ASSUME NEW u \in Users, NEW r \in RequestIds, BeginConfirm(h, u, r)
      PROVE  ReadsAreFresh(call[h])'
  <2> DEFINE other == OtherParty(PartyOf(u, r)) \in requests[r].confirmed
  <2>1. other \in BOOLEAN
    OBVIOUS
  <2>2. /\ call'[h] = [step |-> "confirm_tx", request |-> r, role |-> PartyOf(u, r),
                       otherConfirmed |-> other]
        /\ requests[r].status = "accepted"
    BY <1>4 DEF TypeOK, BeginConfirm, Goto
  <2>3. /\ call'[h].step = "confirm_tx"
        /\ call'[h].request = r
        /\ call'[h].role = PartyOf(u, r)
        /\ call'[h].otherConfirmed = other
    BY <2>2
  <2> QED
    BY <1>1, <2>1, <2>2, <2>3 DEF ReadsAreFresh
<1>5. ASSUME NEW u \in Users, NEW r \in RequestIds, BeginReturn(h, u, r)
      PROVE  ReadsAreFresh(call[h])'
  <2>1. /\ call'[h] = [step |-> "return_tx", request |-> r]
        /\ requests[r].status = "active"
    BY <1>5 DEF TypeOK, BeginReturn, Goto
  <2> QED
    BY <1>1, <2>1 DEF ReadsAreFresh
<1>6. CASE BeginCatalogCall(h)
  <2>1. call'[h].step \in {"insert_book", "update_book", "delete_book"}
    BY <1>6 DEF TypeOK, BeginCatalogCall, BeginCreateBook, BeginUpdateBook, BeginDeleteBook, Goto
  <2> QED
    BY <2>1 DEF ReadsAreFresh
<1> QED
  BY <1>2, <1>3, <1>4, <1>5, <1>6 DEF Begin, BeginRequestCall

\* One row is rewritten, and is pending no more.  A call that has gone stale
\* by it is about that request, and the writer's own reads were stale, or the
\* two calls repeat each other.
LEMMA StaleByRow ==
    ASSUME IInv, NEW h \in Handlers, NEW g \in Handlers, g # h,
           call[h].step \in {"update_status", "confirm_tx", "return_tx"},
           Live(call[h].request),
           \A r \in RequestIds : r # call[h].request => requests'[r] = requests[r],
           requests'[call[h].request].status # "pending",
           call'[g] = call[g], ReadsAreFresh(call[g]), ~ReadsAreFresh(call[g])'
    PROVE  \/ Repeats(call[h], call[g])
           \/ ~ReadsAreFresh(call[h]) /\ OnSameRequest(call[h], call[g])
<1> DEFINE q == call[h].request
<1>1. TypeOK /\ call[h] \in Calls /\ call[g] \in Calls /\ LocalsStayTrue(call[g])
  BY DEF IInv, TypeOK
<1>2. q \in RequestIds
  BY <1>1, CallShape
<1>3. call[g].step \in RequestSteps => call[g].request \in RequestIds
  BY <1>1, CallShape DEF RequestSteps
<1>4. \A b, u : HasPendingRequest(b, u)' => HasPendingRequest(b, u)
  BY <1>2 DEF HasPendingRequest
<1>5. call[g].step \in RequestSteps /\ call[g].request = q
  <2> SUFFICES ASSUME ~(call[g].step \in RequestSteps /\ call[g].request = q)
               PROVE  FALSE
    OBVIOUS
  <2>1. call[g].step \in RequestSteps =>
          requests'[call[g].request] = requests[call[g].request]
    BY <1>3
  <2>2. ~(requests[call[g].request] = Unused /\ Live(call[g].request)'
            /\ call[g].step \in RequestSteps)
    BY <2>1 DEF Live, Unused, Statuses
  <2> QED
    BY <1>1, <1>4, <2>1, <2>2, StaysFresh
<1>6. OnSameRequest(call[h], call[g])
  BY <1>1, <1>5, CallFields DEF OnSameRequest, RequestSteps
<1>7. ASSUME ReadsAreFresh(call[h]) PROVE Repeats(call[h], call[g])
  <2>1. \/ call[h].step = "update_status" /\ requests[q].status = "pending"
        \/ call[h].step = "confirm_tx" /\ requests[q].status = "accepted"
        \/ call[h].step = "return_tx" /\ requests[q].status = "active"
    BY <1>7 DEF ReadsAreFresh
  <2>2. \/ call[g].step \in {"create_thread", "update_status"} /\ requests[q].status = "pending"
        \/ call[g].step = "confirm_tx" /\ requests[q].status = "accepted"
        \/ call[g].step = "return_tx" /\ requests[q].status = "active"
    BY <1>5 DEF ReadsAreFresh, RequestSteps
  <2> QED
    BY <1>5, <2>1, <2>2 DEF Repeats
<1> QED
  BY <1>6, <1>7

\* A call that has gone stale by an insertion asked for the same book, for
\* the same student.
LEMMA StaleByInsert ==
    ASSUME IInv, NEW h \in Handlers, NEW g \in Handlers, g # h, InsertRequest(h),
           ~UNCHANGED requests,
           call'[g] = call[g], ReadsAreFresh(call[g]), ~ReadsAreFresh(call[g])'
    PROVE  Repeats(call[h], call[g])
<1> DEFINE b == call[h].book
           u == call[h].requester
           row == NewRequest(b, u)
<1>1. TypeOK /\ call[g] \in Calls /\ LocalsStayTrue(call[g]) /\ call[h].step = "insert_request"
  BY DEF IInv, TypeOK, InsertRequest, At
<1>2. PICK q \in RequestIds :
        requests[q] = Unused /\ requests' = [requests EXCEPT ![q] = row]
  BY DEF InsertRequest
<1>3. requests'[q] = row /\ \A r \in RequestIds : r # q => requests'[r] = requests[r]
  BY <1>1, <1>2 DEF TypeOK
<1>4. row.status = "pending" /\ row.book = b /\ row.requester = u
  BY DEF NewRequest
<1> HIDE DEF row
<1>5. \A k, v : k # b \/ v # u => (HasPendingRequest(k, v)' => HasPendingRequest(k, v))
  BY <1>3, <1>4 DEF HasPendingRequest
<1>6. call[g].step \in RequestSteps => call[g].request \in RequestIds
  BY <1>1, CallShape DEF RequestSteps
<1>7. call[g].step \in RequestSteps =>
        \/ requests'[call[g].request] = requests[call[g].request]
        \/ /\ requests[call[g].request] = Unused
           /\ requests'[call[g].request].status = "pending"
  BY <1>2, <1>3, <1>4, <1>6
<1>8. ~(requests[call[g].request] = Unused
          /\ requests'[call[g].request] = requests[call[g].request]
          /\ Live(call[g].request)')
  BY DEF Live, Unused, Statuses
<1>9. call[g].step = "insert_request" /\ call[g].book = b /\ call[g].requester = u
  BY <1>1, <1>5, <1>7, <1>8, StaysFresh
<1> QED
  BY <1>1, <1>9 DEF Repeats

\* No call goes stale by a deletion.
LEMMA FreshAfterDelete ==
    ASSUME IInv, NEW h \in Handlers, NEW g \in Handlers, DeleteBook(h),
           call'[g] = call[g], ReadsAreFresh(call[g])
    PROVE  ReadsAreFresh(call[g])'
<1>1. TypeOK /\ LocalsStayTrue(call[g])
  BY DEF IInv
<1>2. \A r \in RequestIds : requests'[r] = requests[r] \/ requests'[r].status = "deleted"
  BY DEF DeleteBook, DeleteBookCascade, Deleted
<1>3. \A c, u : HasPendingRequest(c, u)' => HasPendingRequest(c, u)
  BY <1>2 DEF HasPendingRequest
<1>4. call[g].step \in RequestSteps => call[g].request \in RequestIds
  BY <1>1, CallShape DEF TypeOK, RequestSteps
<1>5. call[g].step \in RequestSteps =>
        requests'[call[g].request] = requests[call[g].request] \/ ~Live(call[g].request)'
  BY <1>2, <1>4 DEF Live, Statuses
<1>6. ~(requests[call[g].request] = Unused
          /\ requests'[call[g].request] = requests[call[g].request]
          /\ Live(call[g].request)')
  BY DEF Live, Unused, Statuses
<1> QED
  BY <1>1, <1>3, <1>5, <1>6, StaysFresh

\* What a goroutine read stays so in its own steps: it has just been read, or
\* the call is over.
LEMMA OwnReads ==
    ASSUME TypeOK, NEW h \in Handlers, Begin(h) \/ Step(h) \/ Abort(h),
           ReadsAreFresh(call[h])
    PROVE  ReadsAreFresh(call[h])'
<1>1. CASE Begin(h)
  BY <1>1, BeginReads
<1>2. CASE Return(h)
  BY <1>2, ReturnedReads
<1>3. CASE CheckPending(h) /\ ~Return(h)
  <2> DEFINE c == [call[h] EXCEPT !.step = "insert_request"]
  <2>1. /\ Goto(h, c)
        /\ ~HasPendingRequest(call[h].book, call[h].requester)
        /\ UNCHANGED requests
    BY <1>3 DEF CheckPending, Return
  <2>2. call[h] \in Calls /\ call[h].step = "check_pending"
    BY <1>3 DEF TypeOK, CheckPending, At
  <2>3. /\ c \in Calls
        /\ c.step = "insert_request"
        /\ c.book = call[h].book /\ c.requester = call[h].requester
    BY <2>2, CallShape
  <2> HIDE DEF c
  <2>4. call'[h] = c
    BY <2>1, <2>3, GotoOne
  <2> QED
    BY <2>1, <2>3, <2>4 DEF ReadsAreFresh, HasPendingRequest
<1>4. CASE CreateThread(h)
  <2>1. call[h] \in Calls /\ call[h].step = "create_thread" /\ UNCHANGED requests
    BY <1>4 DEF TypeOK, CreateThread, At
  <2>2. call'[h] = [call[h] EXCEPT !.step = "update_status"]
    BY <1>4 DEF TypeOK, CreateThread, Goto
  <2>3. call'[h].step = "update_status" /\ call'[h].request = call[h].request
    BY <2>1, <2>2 DEF Calls, Idle
  <2> QED
    BY <2>1, <2>3 DEF ReadsAreFresh, Live
<1>5. CASE ConfirmTx(h) /\ ~Return(h)
  <2>1. PICK role, r : Goto(h, [step |-> "notify", request |-> r, role |-> role])
    BY <1>5 DEF ConfirmTx
  <2>2. call'[h].step = "notify"
    BY <2>1 DEF TypeOK, Goto
  <2> QED
    BY <2>2 DEF ReadsAreFresh
<1> QED
  BY <1>1, <1>2, <1>3, <1>4, <1>5
     DEF Step, RequestStep, CatalogStep, InsertRequest, WriteStatus, NotifyOther, ReturnTx,
         InsertBook, UpdateBook, DeleteBook, Abort

\* Whoever writes a request, or inserts one, moves on in its call.
LEMMA WriterMoves ==
    ASSUME TypeOK, NEW h \in Handlers,
           InsertRequest(h) \/ WriteStatus(h) \/ ConfirmTx(h) \/ ReturnTx(h)
    PROVE  call'[h] # call[h]
<1>1. call[h].step \in {"insert_request", "update_status", "confirm_tx", "return_tx"}
  BY DEF InsertRequest, WriteStatus, ConfirmTx, ReturnTx, At
<1>2. Return(h) \/ \E role, r : Goto(h, [step |-> "notify", request |-> r, role |-> role])
  BY DEF InsertRequest, WriteStatus, ConfirmTx, ReturnTx
<1>3. call'[h].step \in {"idle", "notify"}
  BY <1>2 DEF TypeOK, Return, Goto, Idle
<1> QED
  BY <1>1, <1>3

\* The statements that change requests.
LEMMA RequestWriters ==
    ASSUME TypeOK, [Next]_vars, ~UNCHANGED requests
    PROVE  \E h \in Handlers :
             \/ Live(call[h].request) /\ (WriteStatus(h) \/ ConfirmTx(h) \/ ReturnTx(h))
             \/ InsertRequest(h)
             \/ DeleteBook(h)
<1>1. ASSUME NEW h \in Handlers,
             WriteStatus(h) \/ ConfirmTx(h) \/ ReturnTx(h), ~Live(call[h].request)
      PROVE  UNCHANGED requests
  BY <1>1 DEF WriteStatus, ConfirmTx, ReturnTx
<1> QED
  BY <1>1, QuietSteps
     DEF Next, Begin, Step, RequestStep, CatalogStep, EditProfile, UpdateProfile, vars

\* What a decision, a confirmation or a return writes, in any interleaving:
\* one row, which is pending no more.
LEMMA WrittenRow ==
    ASSUME IInv, NEW h \in Handlers, WriteStatus(h) \/ ConfirmTx(h) \/ ReturnTx(h),
           Live(call[h].request)
    PROVE  /\ call[h].step \in {"update_status", "confirm_tx", "return_tx"}
           /\ \A r \in RequestIds : r # call[h].request => requests'[r] = requests[r]
           /\ requests'[call[h].request].status # "pending"
<1> DEFINE q == call[h].request
<1>1. TypeOK
  BY DEF IInv
<1>2. CASE WriteStatus(h)
  <2>1. /\ call[h].step = "update_status"
        /\ requests' = [requests EXCEPT ![q] = UpdateStatus(requests[q], call[h].status)]
    BY <1>2 DEF WriteStatus, At
  <2>2. q \in RequestIds /\ call[h].status \in {"accepted", "rejected"}
    BY <1>1, <2>1, CallShape DEF TypeOK
  <2>3. requests[q] \in Row /\ call[h].status \in Statuses
    BY <1>1, <2>2, LiveRow DEF Statuses
  <2>4. UpdateStatus(requests[q], call[h].status).status \in {"accepted", "rejected"}
    BY <2>2, <2>3, UpdateStatusRow
  <2> QED
    BY <1>1, <2>1, <2>2, <2>4 DEF TypeOK
<1>3. CASE ConfirmTx(h)
  BY <1>3, ConfirmTxRow DEF ConfirmTx, At
<1>4. CASE ReturnTx(h)
  BY <1>4, ReturnTxRow DEF ReturnTx, At
<1> QED
  BY <1>2, <1>3, <1>4

\* A read goes stale only by another goroutine's write: of a call that repeats
\* the reader's, or of one that acts on a stale read of the same request.
LEMMA StaleCause ==
    ASSUME IInv, [Next]_vars, NEW g \in Handlers,
           ReadsAreFresh(call[g]), ~ReadsAreFresh(call[g])'
    PROVE  \E h \in Handlers :
             /\ h # g /\ call'[h] # call[h] /\ requests' # requests
             /\ \/ Repeats(call[h], call[g])
                \/ ~ReadsAreFresh(call[h]) /\ OnSameRequest(call[h], call[g])
<1>1. TypeOK
  BY DEF IInv
<1>2. call'[g] = call[g]
  <2>1. CASE UNCHANGED vars \/ EditProfile
    BY <2>1 DEF vars, EditProfile, UpdateProfile
  <2>2. ASSUME NEW h \in Handlers, Begin(h) \/ Step(h) \/ Abort(h)
        PROVE  call'[g] = call[g]
    BY <1>1, <2>2, OwnReads, OthersCalls
  <2> QED
    BY <2>1, <2>2 DEF Next
<1>3. ~UNCHANGED requests
  BY <1>2 DEF ReadsAreFresh, HasPendingRequest, Live
<1>4. PICK h \in Handlers :
        \/ Live(call[h].request) /\ (WriteStatus(h) \/ ConfirmTx(h) \/ ReturnTx(h))
        \/ InsertRequest(h)
        \/ DeleteBook(h)
  BY <1>1, <1>3, RequestWriters
<1>5. h # g
  <2>1. Step(h)
    BY <1>4 DEF Step, RequestStep, CatalogStep
  <2> QED
    BY <1>1, <2>1, OwnReads
<1>6. CASE DeleteBook(h)
  BY <1>2, <1>6, FreshAfterDelete
<1>7. CASE InsertRequest(h)
  BY <1>1, <1>2, <1>3, <1>5, <1>7, StaleByInsert, WriterMoves
<1>8. CASE Live(call[h].request) /\ (WriteStatus(h) \/ ConfirmTx(h) \/ ReturnTx(h))
  BY <1>1, <1>2, <1>3, <1>5, <1>8, WrittenRow, StaleByRow, WriterMoves
<1> QED
  BY <1>4, <1>6, <1>7, <1>8

-----------------------------------------------------------------------------
(***************************************************************************)
(* Calls that were overtaken.                                              *)
(***************************************************************************)

\* The inductive invariant of ObservedSpec.
ObservedIInv == IInv /\ StaleIsOvertaken

\* To begin with nobody has read anything.
LEMMA InitObserved == Init => ObservedIInv
<1> SUFFICES ASSUME Init PROVE ObservedIInv
  OBVIOUS
<1>1. \A h \in Handlers : ReadsAreFresh(call[h])
  BY DEF Init, ReadsAreFresh, Idle
<1> QED
  BY <1>1, InitIInv DEF ObservedIInv, StaleIsOvertaken

\* Whoever goes stale is overtaken in that step, and stays so until its call
\* is over.
LEMMA NextObserved == ObservedIInv /\ [Next /\ Observe]_observedVars => ObservedIInv'
<1> SUFFICES ASSUME ObservedIInv, [Next /\ Observe]_observedVars PROVE ObservedIInv'
  OBVIOUS
<1>1. IInv /\ StaleIsOvertaken
  BY DEF ObservedIInv
<1>2. [Next]_vars
  BY DEF observedVars
<1>3. IInv'
  BY <1>1, <1>2, NextIInv
<1>4. ASSUME UNCHANGED observedVars, NEW g \in Handlers, ~ReadsAreFresh(call[g])'
      PROVE  g \in overtaken'
  <2>1. UNCHANGED <<requests, call, overtaken>>
    BY <1>4 DEF observedVars, vars
  <2>2. ~ReadsAreFresh(call[g])
    BY <1>4, <2>1 DEF ReadsAreFresh, HasPendingRequest, Live
  <2> QED
    BY <1>1, <2>1, <2>2 DEF StaleIsOvertaken
<1>5. ASSUME Observe, NEW g \in Handlers, ~ReadsAreFresh(call[g])'
      PROVE  g \in overtaken'
  <2>1. call'[g] # Idle
    BY <1>5 DEF ReadsAreFresh, Idle
  <2>2. CASE ~ReadsAreFresh(call[g])
    BY <1>1, <1>5, <2>1, <2>2 DEF StaleIsOvertaken, Observe
  <2>3. CASE ReadsAreFresh(call[g])
    <3>1. PICK h \in Handlers :
            /\ h # g /\ call'[h] # call[h] /\ requests' # requests
            /\ \/ Repeats(call[h], call[g])
               \/ ~ReadsAreFresh(call[h]) /\ OnSameRequest(call[h], call[g])
      BY <1>1, <1>2, <1>5, <2>3, StaleCause
    <3>2. Overtakes(h, g)
      BY <1>1, <3>1 DEF StaleIsOvertaken, Overtakes
    <3> QED
      BY <1>5, <2>1, <3>2 DEF Observe
  <2> QED
    BY <2>2, <2>3
<1>6. StaleIsOvertaken'
  BY <1>4, <1>5 DEF StaleIsOvertaken
<1> QED
  BY <1>3, <1>6 DEF ObservedIInv

\* The facts above hold of every reachable state.
THEOREM ObservedInvariance == ObservedSpec => []ObservedIInv
  BY InitObserved, NextObserved, PTL DEF ObservedSpec

\* What a handler of internal/requests has read of its request is true when it
\* writes, however its calls overlap with others, unless the same call, made a
\* second time, has overtaken it.
THEOREM StaleCallsWereOvertaken == ObservedSpec => []StaleIsOvertaken
<1>1. ObservedIInv => StaleIsOvertaken
  BY DEF ObservedIInv
<1> QED
  BY <1>1, ObservedInvariance, PTL

-----------------------------------------------------------------------------
(***************************************************************************)
(* What a step does to requests and books unless its goroutine has been    *)
(* overtaken, or, without the history, unless its reads are stale: then    *)
(* every writer finds its row in the status that its handler has read.     *)
(***************************************************************************)

\* The one row that is written.
OnlyRow(q, from, to) ==
    /\ requests[q].status = from /\ requests'[q].status \in to
    /\ requests'[q].book = requests[q].book
    /\ \A r \in RequestIds : r # q => requests'[r] = requests[r]

Decided(q) ==
    /\ OnlyRow(q, "pending", {"accepted", "rejected"})
    /\ requests'[q].confirmed = {}
    /\ UNCHANGED books

HalfConfirmed(q) ==
    /\ OnlyRow(q, "accepted", {"accepted"})
    /\ requests'[q].confirmed # Roles
    /\ UNCHANGED books

HandedOver(q) ==
    /\ OnlyRow(q, "accepted", {"active"})
    /\ requests[q].book \in Books
    /\ books' = SetAvailability(requests[q].book, FALSE)

TakenBack(q) ==
    /\ OnlyRow(q, "active", {"returned"})
    /\ requests[q].book \in Books
    /\ books' = SetAvailability(requests[q].book, TRUE)

Asked(q, b, u) ==
    /\ requests[q] = Unused /\ requests'[q] = NewRequest(b, u)
    /\ \A r \in RequestIds : r # q => requests'[r] = requests[r]
    /\ ~HasPendingRequest(b, u)
    /\ UNCHANGED books

\* What the goroutine of a write finds if its reads are fresh: the row it has
\* read, in the status it has read.
LEMMA WriterFinds ==
    ASSUME IInv, NEW h \in Handlers, ReadsAreFresh(call[h]),
           call[h].step \in {"update_status", "confirm_tx", "return_tx"},
           Live(call[h].request)
    PROVE  LET q == call[h].request
           IN  /\ q \in RequestIds /\ requests[q] \in Row
               /\ requests[q].book \in Books /\ OnShelf(requests[q].book)
               /\ call[h].step = "update_status" =>
                    /\ call[h].status \in {"accepted", "rejected"}
                    /\ requests[q].status = "pending" /\ requests[q].confirmed = {}
               /\ call[h].step = "confirm_tx" =>
                    /\ call[h].role \in Roles
                    /\ requests[q].status = "accepted"
                    /\ call[h].otherConfirmed = (OtherParty(call[h].role) \in requests[q].confirmed)
                    /\ call[h].otherConfirmed \in BOOLEAN
               /\ call[h].step = "return_tx" => requests[q].status = "active"
<1> DEFINE q == call[h].request
<1>1. TypeOK /\ call[h] \in Calls /\ PendingIsFresh /\ RequestHasBook
  BY DEF IInv, TypeOK
<1>2. /\ q \in RequestIds
      /\ call[h].step = "update_status" => call[h].status \in {"accepted", "rejected"}
      /\ call[h].step = "confirm_tx" => call[h].role \in Roles /\ call[h].otherConfirmed \in BOOLEAN
  BY <1>1, CallShape
<1>3. requests[q] \in Row /\ requests[q].book \in Books /\ OnShelf(requests[q].book)
  BY <1>1, <1>2, LiveRow DEF RequestHasBook
<1>4. call[h].step = "update_status" => requests[q].status = "pending" /\ requests[q].confirmed = {}
  BY <1>1, <1>2 DEF ReadsAreFresh, PendingIsFresh
<1>5. call[h].step = "confirm_tx" =>
        /\ requests[q].status = "accepted"
        /\ call[h].otherConfirmed = (OtherParty(call[h].role) \in requests[q].confirmed)
  BY <1>1 DEF ReadsAreFresh
<1>6. call[h].step = "return_tx" => requests[q].status = "active"
  BY <1>1 DEF ReadsAreFresh
<1> QED
  BY <1>2, <1>3, <1>4, <1>5, <1>6

\* A decision that acts on fresh reads.
LEMMA FreshDecision ==
    ASSUME IInv, NEW h \in Handlers, WriteStatus(h), Live(call[h].request),
           ReadsAreFresh(call[h])
    PROVE  call[h].request \in RequestIds /\ Decided(call[h].request)
<1> DEFINE q == call[h].request
<1>1. TypeOK /\ call[h].step = "update_status" /\ UNCHANGED books
  BY DEF IInv, WriteStatus, At
<1>2. /\ q \in RequestIds /\ requests[q] \in Row
      /\ call[h].status \in {"accepted", "rejected"}
      /\ requests[q].status = "pending" /\ requests[q].confirmed = {}
  BY <1>1, WriterFinds
<1>3. PICK row \in Row : /\ row = UpdateStatus(requests[q], call[h].status)
                         /\ row.status = call[h].status
                         /\ row.book = requests[q].book
                         /\ row.confirmed = requests[q].confirmed
  BY <1>2, UpdateStatusRow DEF Statuses
<1>4. requests' = [requests EXCEPT ![q] = row]
  BY <1>3 DEF WriteStatus
<1>5. requests'[q] = row /\ \A r \in RequestIds : r # q => requests'[r] = requests[r]
  BY <1>1, <1>2, <1>4 DEF TypeOK
<1> QED
  BY <1>1, <1>2, <1>3, <1>5 DEF Decided, OnlyRow

\* A confirmation that acts on fresh reads: the first, or the second.
LEMMA FreshConfirmation ==
    ASSUME IInv, NEW h \in Handlers, ConfirmTx(h), Live(call[h].request),
           ReadsAreFresh(call[h])
    PROVE  /\ call[h].request \in RequestIds
           /\ HalfConfirmed(call[h].request) \/ HandedOver(call[h].request)
<1> DEFINE q == call[h].request
           role == call[h].role
<1>1. TypeOK /\ call[h].step = "confirm_tx"
  BY DEF IInv, ConfirmTx, At
<1>2. /\ q \in RequestIds /\ requests[q] \in Row /\ requests[q].book \in Books
      /\ role \in Roles /\ requests[q].status = "accepted"
      /\ call[h].otherConfirmed = (OtherParty(role) \in requests[q].confirmed)
  BY <1>1, WriterFinds
<1>3. PICK confirmed \in Row :
        /\ confirmed = SetConfirmed(requests[q], role)
        /\ confirmed.status = "accepted" /\ confirmed.book = requests[q].book
        /\ confirmed.confirmed = requests[q].confirmed \cup {role}
  BY <1>2, SetConfirmedRow
<1>4. CASE call[h].otherConfirmed
  <2>1. PICK active \in Row :
          /\ active = UpdateStatus(confirmed, "active")
          /\ active.status = "active" /\ active.book = requests[q].book
    BY <1>3, UpdateStatusRow DEF Statuses
  <2>2. /\ requests' = [requests EXCEPT ![q] = active]
        /\ books' = SetAvailability(requests[q].book, FALSE)
    BY <1>3, <1>4, <2>1 DEF ConfirmTx
  <2>3. requests'[q] = active /\ \A r \in RequestIds : r # q => requests'[r] = requests[r]
    BY <1>1, <1>2, <2>2 DEF TypeOK
  <2> QED
    BY <1>2, <2>1, <2>2, <2>3 DEF HandedOver, OnlyRow
<1>5. CASE ~call[h].otherConfirmed
  <2>1. requests' = [requests EXCEPT ![q] = confirmed] /\ UNCHANGED books
    BY <1>3, <1>5 DEF ConfirmTx
  <2>2. requests'[q] = confirmed /\ \A r \in RequestIds : r # q => requests'[r] = requests[r]
    BY <1>1, <1>2, <2>1 DEF TypeOK
  <2>3. confirmed.confirmed # Roles
    <3>1. OtherParty(role) \notin requests[q].confirmed
      BY <1>2, <1>5
    <3> QED
      BY <1>2, <1>3, <3>1 DEF Roles, OtherParty
  <2> QED
    BY <1>2, <1>3, <2>1, <2>2, <2>3 DEF HalfConfirmed, OnlyRow
<1> QED
  BY <1>2, <1>4, <1>5

\* A return that acts on fresh reads.
LEMMA FreshReturn ==
    ASSUME IInv, NEW h \in Handlers, ReturnTx(h), Live(call[h].request),
           ReadsAreFresh(call[h])
    PROVE  call[h].request \in RequestIds /\ TakenBack(call[h].request)
<1> DEFINE q == call[h].request
<1>1. /\ q \in RequestIds /\ requests[q].status = "active" /\ requests[q].book \in Books
  BY WriterFinds DEF ReturnTx, At
<1>2. /\ \A r \in RequestIds : r # q => requests'[r] = requests[r]
      /\ requests'[q].book = requests[q].book
      /\ requests'[q].status = "returned"
      /\ books' = SetAvailability(requests[q].book, TRUE)
  BY ReturnTxRow
<1> QED
  BY <1>1, <1>2 DEF TakenBack, OnlyRow

\* An insertion that acts on a fresh read.
LEMMA FreshInsertion ==
    ASSUME IInv, NEW h \in Handlers, InsertRequest(h), ~UNCHANGED requests,
           ReadsAreFresh(call[h])
    PROVE  \E q \in RequestIds : Asked(q, call[h].book, call[h].requester)
<1>1. PICK q \in RequestIds :
        /\ requests[q] = Unused
        /\ requests' = [requests EXCEPT ![q] = NewRequest(call[h].book, call[h].requester)]
  BY DEF InsertRequest
<1>2. ~HasPendingRequest(call[h].book, call[h].requester) /\ UNCHANGED books
  BY DEF InsertRequest, At, ReadsAreFresh
<1> QED
  BY <1>1, <1>2 DEF Asked, IInv, TypeOK

\* What is left of the requests and books when a book is removed, or when one
\* is listed or relisted by hand.
Removed(k) ==
    /\ books' = [books EXCEPT ![k] = "deleted"]
    /\ \A r \in RequestIds :
         requests'[r] = IF Live(r) /\ requests[r].book = k THEN Deleted ELSE requests[r]

Listed(k) ==
    /\ books[k] = "unused" /\ books' = SetAvailability(k, TRUE)
    /\ UNCHANGED requests

Relisted(h, k, available) ==
    /\ ByHand(h, k, available) /\ books' = SetAvailability(k, available)
    /\ UNCHANGED requests

InOrder ==
    \/ UNCHANGED <<books, requests>>
    \/ \E q \in RequestIds :
         \/ Decided(q) \/ HalfConfirmed(q) \/ HandedOver(q) \/ TakenBack(q)
         \/ \E b, u : Asked(q, b, u)
    \/ \E k \in Books :
         \/ Removed(k) \/ Listed(k)
         \/ \E h \in Handlers, a \in BOOLEAN : Relisted(h, k, a)

\* The owner's statements on a book are in order in any interleaving.
LEMMA CatalogInOrder ==
    ASSUME IInv, NEW h \in Handlers, CatalogStep(h)
    PROVE  InOrder
<1>1. TypeOK /\ call[h] \in Calls
  BY DEF IInv, TypeOK
<1>2. CASE UNCHANGED <<books, requests>>
  BY <1>2 DEF InOrder
<1>3. CASE InsertBook(h)
  BY <1>3 DEF InsertBook, Listed, InOrder
<1>4. CASE UpdateBook(h) /\ ~UNCHANGED <<books, requests>>
  <2> DEFINE k == call[h].book
             a == call[h].available
  <2>1. /\ At(h, "update_book") /\ books' = SetAvailability(k, a)
        /\ UNCHANGED requests /\ call'[h] = Idle
    BY <1>1, <1>4 DEF UpdateBook, Return, Goto, TypeOK
  <2>2. k \in Books /\ a \in BOOLEAN
    BY <1>1, <2>1, CallShape DEF At
  <2>3. Relisted(h, k, a)
    BY <2>1 DEF Relisted, ByHand
  <2> QED
    BY <2>2, <2>3 DEF InOrder
<1>5. CASE DeleteBook(h) /\ ~UNCHANGED <<books, requests>>
  <2>1. DeleteBookCascade(call[h].book) /\ call[h].book \in Books
    BY <1>1, <1>5, CallShape DEF DeleteBook, At
  <2>2. Removed(call[h].book)
    BY <2>1 DEF DeleteBookCascade, Removed
  <2> QED
    BY <2>1, <2>2 DEF InOrder
<1> QED
  BY <1>2, <1>3, <1>4, <1>5 DEF CatalogStep

\* A statement of internal/requests is in order when its reads are fresh.
LEMMA RequestsInOrder ==
    ASSUME IInv, NEW h \in Handlers, RequestStep(h), ~UNCHANGED <<books, requests>>
    PROVE  /\ InsertRequest(h) \/ WriteStatus(h) \/ ConfirmTx(h) \/ ReturnTx(h)
           /\ ReadsAreFresh(call[h]) => InOrder
<1>1. InsertRequest(h) \/ WriteStatus(h) \/ ConfirmTx(h) \/ ReturnTx(h)
  BY QuietSteps DEF RequestStep
<1>2. ASSUME ReadsAreFresh(call[h]), InsertRequest(h) PROVE InOrder
  BY <1>2, FreshInsertion, QuietSteps DEF InOrder
<1>3. ASSUME ReadsAreFresh(call[h]), ~InsertRequest(h) PROVE InOrder
  <2>1. Live(call[h].request)
    BY <1>1, <1>3 DEF WriteStatus, ConfirmTx, ReturnTx
  <2> QED
    BY <1>1, <1>3, <2>1, FreshDecision, FreshConfirmation, FreshReturn DEF InOrder
<1> QED
  BY <1>1, <1>2, <1>3

\* Whatever is not in order is the work of a goroutine that was overtaken.
LEMMA StepsInOrder ==
    ASSUME ObservedIInv, [Next]_vars, ~ByOvertaken
    PROVE  InOrder
<1>1. IInv /\ TypeOK /\ StaleIsOvertaken
  BY DEF ObservedIInv, IInv
<1>2. CASE UNCHANGED <<books, requests>>
  BY <1>2 DEF InOrder
<1>3. ASSUME NEW h \in Handlers, RequestStep(h), ~UNCHANGED <<books, requests>>
      PROVE  InOrder
  <2>1. call'[h] # call[h]
    BY <1>1, <1>3, RequestsInOrder, WriterMoves
  <2>2. ReadsAreFresh(call[h])
    BY <1>1, <2>1 DEF StaleIsOvertaken, ByOvertaken
  <2> QED
    BY <1>1, <1>3, <2>2, RequestsInOrder
<1>4. ASSUME NEW h \in Handlers, CatalogStep(h) PROVE InOrder
  BY <1>1, <1>4, CatalogInOrder
<1> QED
  BY <1>2, <1>3, <1>4, QuietSteps
     DEF Next, Begin, Step, EditProfile, UpdateProfile, vars

-----------------------------------------------------------------------------
(***************************************************************************)
(* The harm that only calls that were overtaken can do.                    *)
(***************************************************************************)

\* Steps in order activate what both parties have confirmed.
LEMMA ActivationInOrder ==
    ASSUME IInv, InOrder, NEW r \in RequestIds, ActivationLost(r)'
    PROVE  ActivationLost(r)
<1>1. requests'[r].status = "accepted" /\ requests'[r].confirmed = Roles
  BY DEF ActivationLost
<1>2. CASE requests'[r] = requests[r]
  BY <1>1, <1>2 DEF ActivationLost
<1>3. ASSUME NEW q \in RequestIds,
             Decided(q) \/ HalfConfirmed(q) \/ HandedOver(q) \/ TakenBack(q)
      PROVE  ActivationLost(r)
  BY <1>1, <1>2, <1>3 DEF Decided, HalfConfirmed, HandedOver, TakenBack, OnlyRow, Roles
<1>4. ASSUME NEW q \in RequestIds, NEW b, NEW u, Asked(q, b, u) PROVE ActivationLost(r)
  BY <1>1, <1>2, <1>4 DEF Asked, NewRequest
<1>5. ASSUME NEW k \in Books, Removed(k) PROVE ActivationLost(r)
  BY <1>1, <1>2, <1>5 DEF Removed, Deleted
<1> QED
  BY <1>2, <1>3, <1>4, <1>5 DEF InOrder, Listed, Relisted

\* ConfirmHandoff activates what both parties have confirmed, unless the
\* handler was overtaken by another confirmation, or decision, of the request.
THEOREM ActivationsAreLostInRaces == ObservedSpec => ActivationIsLostInARace
<1>1. ObservedIInv /\ [Next /\ Observe]_observedVars =>
        [\A r \in RequestIds :
           ~ActivationLost(r) /\ ActivationLost(r)' => ByOvertaken]_vars
  BY StepsInOrder, ActivationInOrder DEF ObservedIInv, observedVars
<1> QED
  BY <1>1, ObservedInvariance, PTL DEF ObservedSpec, ActivationIsLostInARace

\* Steps in order ask for a book once.
LEMMA PendingInOrder ==
    ASSUME IInv, InOrder, NEW r \in RequestIds, NEW q \in RequestIds, PendingTwice(r, q)'
    PROVE  PendingTwice(r, q)
<1>1. /\ r # q
      /\ requests'[r].status = "pending" /\ requests'[q].status = "pending"
      /\ requests'[r].book = requests'[q].book
      /\ requests'[r].requester = requests'[q].requester
  BY DEF PendingTwice
<1>2. CASE requests'[r] = requests[r] /\ requests'[q] = requests[q]
  BY <1>1, <1>2 DEF PendingTwice
<1>3. ASSUME NEW p \in RequestIds,
             Decided(p) \/ HalfConfirmed(p) \/ HandedOver(p) \/ TakenBack(p)
      PROVE  PendingTwice(r, q)
  <2>1. /\ requests'[p].status # "pending"
        /\ \A s \in RequestIds : s # p => requests'[s] = requests[s]
    BY <1>3 DEF Decided, HalfConfirmed, HandedOver, TakenBack, OnlyRow
  <2> QED
    BY <1>1, <1>2, <2>1
<1>4. ASSUME NEW p \in RequestIds, NEW b, NEW u, Asked(p, b, u) PROVE PendingTwice(r, q)
  <2>1. /\ requests'[p].book = b /\ requests'[p].requester = u
        /\ \A s \in RequestIds : s # p => requests'[s] = requests[s]
        /\ ~HasPendingRequest(b, u)
    BY <1>4 DEF Asked, NewRequest
  <2> QED
    BY <1>1, <1>2, <2>1 DEF HasPendingRequest
<1>5. ASSUME NEW k \in Books, Removed(k) PROVE PendingTwice(r, q)
  BY <1>1, <1>2, <1>5 DEF Removed, Deleted
<1> QED
  BY <1>2, <1>3, <1>4, <1>5 DEF InOrder, Listed, Relisted

\* CreateRequest makes a student's second pending request for a book only in
\* a handler that was overtaken by the student's other one.
THEOREM PendingIsDoubledInRaces == ObservedSpec => PendingTwiceByARace
<1>1. ObservedIInv /\ [Next /\ Observe]_observedVars =>
        [\A r, q \in RequestIds :
           ~PendingTwice(r, q) /\ PendingTwice(r, q)' => ByOvertaken]_vars
  BY StepsInOrder, PendingInOrder DEF ObservedIInv, observedVars
<1> QED
  BY <1>1, ObservedInvariance, PTL DEF ObservedSpec, PendingTwiceByARace

\* Steps in order leave a loan to every book they take off the list.
LEMMA ShelfInOrder ==
    ASSUME IInv, InOrder, NEW b \in Books, Stranded(b)'
    PROVE  Stranded(b) \/ \E h \in Handlers : ByHand(h, b, FALSE)
<1>1. /\ books'[b] = "unavailable"
      /\ \A r \in RequestIds : requests'[r].status = "active" => requests'[r].book # b
      /\ TypeOK
  BY DEF Stranded, IInv
<1>2. ASSUME books'[b] = books[b],
             \A r \in RequestIds :
               requests[r].status = "active" /\ requests[r].book = b =>
                 requests'[r] = requests[r]
      PROVE  Stranded(b)
  BY <1>1, <1>2 DEF Stranded
<1>3. ASSUME NEW q \in RequestIds, Decided(q) \/ HalfConfirmed(q) PROVE Stranded(b)
  BY <1>2, <1>3 DEF Decided, HalfConfirmed, OnlyRow
<1>4. ASSUME NEW q \in RequestIds, HandedOver(q) PROVE Stranded(b)
  <2>1. requests[q].book # b
    BY <1>1, <1>4 DEF HandedOver, OnlyRow
  <2>2. books'[b] = books[b]
    BY <1>1, <1>4, <2>1, SetAvailabilityRow DEF HandedOver
  <2> QED
    BY <1>2, <1>4, <2>2 DEF HandedOver, OnlyRow
<1>5. ASSUME NEW q \in RequestIds, TakenBack(q) PROVE Stranded(b)
  <2>1. requests[q].book # b
    BY <1>1, <1>5, SetAvailabilityRow DEF TakenBack
  <2>2. books'[b] = books[b]
    BY <1>1, <1>5, <2>1, SetAvailabilityRow DEF TakenBack
  <2> QED
    BY <1>2, <1>5, <2>1, <2>2 DEF TakenBack, OnlyRow
<1>6. ASSUME NEW q \in RequestIds, NEW k, NEW u, Asked(q, k, u) PROVE Stranded(b)
  BY <1>2, <1>6 DEF Asked, Unused
<1>7. ASSUME NEW k \in Books, Removed(k) PROVE Stranded(b)
  BY <1>1, <1>2, <1>7 DEF Removed, TypeOK
<1>8. ASSUME NEW k \in Books, Listed(k) PROVE Stranded(b)
  BY <1>1, <1>2, <1>8, SetAvailabilityRow DEF Listed
<1>9. ASSUME NEW k \in Books, NEW h \in Handlers, NEW a \in BOOLEAN, Relisted(h, k, a)
      PROVE  Stranded(b) \/ ByHand(h, b, FALSE)
  BY <1>1, <1>2, <1>9, SetAvailabilityRow DEF Relisted
<1> QED
  BY <1>2, <1>3, <1>4, <1>5, <1>6, <1>7, <1>8, <1>9 DEF InOrder

\* A book is left off the list with no loan to return (WriteStatus over an
\* active request, a second return) only by a handler that was overtaken, or
\* by its owner's hand.
THEOREM BooksAreStrandedInRaces == ObservedSpec => StrandedByARace
<1>1. ObservedIInv /\ [Next /\ Observe]_observedVars =>
        [\A b \in Books :
           ~Stranded(b) /\ Stranded(b)' =>
             ByOvertaken \/ \E h \in Handlers : ByHand(h, b, FALSE)]_vars
  BY StepsInOrder, ShelfInOrder DEF ObservedIInv, observedVars
<1> QED
  BY <1>1, ObservedInvariance, PTL DEF ObservedSpec, StrandedByARace

\* Steps in order change availability with the status of a request, or by the
\* owner's hand.
LEMMA AvailabilityInOrder ==
    ASSUME IInv, InOrder, NEW b \in Books
    PROVE  AvailabilityStep(b)
<1>1. TypeOK
  BY DEF IInv
<1>2. CASE books'[b] = books[b]
  BY <1>2 DEF AvailabilityStep
<1>3. ASSUME NEW q \in RequestIds, Decided(q) \/ HalfConfirmed(q) PROVE AvailabilityStep(b)
  BY <1>2, <1>3 DEF Decided, HalfConfirmed
<1>4. ASSUME NEW q \in RequestIds, HandedOver(q) PROVE AvailabilityStep(b)
  <2>1. CASE requests[q].book # b
    BY <1>1, <1>2, <1>4, <2>1, SetAvailabilityRow DEF HandedOver
  <2>2. CASE requests[q].book = b
    <3>1. Moves(q, b, "accepted", "active") /\ books'[b] = "unavailable"
      BY <1>1, <1>4, <2>2, SetAvailabilityRow DEF HandedOver, OnlyRow, Moves
    <3> QED
      BY <3>1 DEF AvailabilityStep
  <2> QED
    BY <2>1, <2>2
<1>5. ASSUME NEW q \in RequestIds, TakenBack(q) PROVE AvailabilityStep(b)
  <2>1. CASE requests[q].book # b
    BY <1>1, <1>2, <1>5, <2>1, SetAvailabilityRow DEF TakenBack
  <2>2. CASE requests[q].book = b
    <3>1. Moves(q, b, "active", "returned") /\ books'[b] = "available"
      BY <1>1, <1>5, <2>2, SetAvailabilityRow DEF TakenBack, OnlyRow, Moves
    <3> QED
      BY <3>1 DEF AvailabilityStep
  <2> QED
    BY <2>1, <2>2
<1>6. ASSUME NEW q \in RequestIds, NEW k, NEW u, Asked(q, k, u) PROVE AvailabilityStep(b)
  BY <1>2, <1>6 DEF Asked
<1>7. ASSUME NEW k \in Books, Removed(k) PROVE AvailabilityStep(b)
  BY <1>1, <1>7 DEF Removed, TypeOK, AvailabilityStep
<1>8. ASSUME NEW k \in Books, Listed(k) PROVE AvailabilityStep(b)
  <2>1. CASE b # k
    BY <1>1, <1>2, <1>8, <2>1, SetAvailabilityRow DEF Listed
  <2>2. CASE b = k
    BY <1>8, <2>2 DEF Listed, AvailabilityStep
  <2> QED
    BY <2>1, <2>2
<1>9. ASSUME NEW k \in Books, NEW h \in Handlers, NEW a \in BOOLEAN, Relisted(h, k, a)
      PROVE  AvailabilityStep(b)
  <2>1. CASE b # k
    BY <1>1, <1>2, <1>9, <2>1, SetAvailabilityRow DEF Relisted
  <2>2. CASE b = k
    <3>1. books'[b] = IF a THEN "available" ELSE "unavailable"
      BY <1>1, <1>9, <2>2 DEF Relisted, SetAvailability, TypeOK
    <3>2. ByHand(h, b, a)
      BY <1>9, <2>2 DEF Relisted
    <3> QED
      BY <3>1, <3>2 DEF AvailabilityStep
  <2> QED
    BY <2>1, <2>2
<1> QED
  BY <1>2, <1>3, <1>4, <1>5, <1>6, <1>7, <1>8, <1>9 DEF InOrder

\* Availability changes with the status of a request, in the transaction that
\* moves it from accepted to active (ConfirmHandoff) or from active to returned
\* (MarkReturned), by the owner's hand, or in a handler that was overtaken.
THEOREM AvailabilityChangesWithStatus == ObservedSpec => AvailabilityFollowsStatus
<1>1. ASSUME ByOvertaken, NEW b \in Books PROVE AvailabilityStep(b)
  BY <1>1 DEF AvailabilityStep
<1>2. ObservedIInv /\ [Next /\ Observe]_observedVars =>
        [\A b \in Books : AvailabilityStep(b)]_vars
  BY <1>1, StepsInOrder, AvailabilityInOrder DEF ObservedIInv, observedVars
<1> QED
  BY <1>2, ObservedInvariance, PTL DEF ObservedSpec, AvailabilityFollowsStatus

-----------------------------------------------------------------------------
(***************************************************************************)
(* Calls that are not repeated (SerialSpec): nobody overtakes, no read is  *)
(* ever stale, and a write that acts on fresh reads is a step of the       *)
(* documented flow (Lending).                                              *)
(***************************************************************************)

\* No call, no read.
LEMMA InitSerial == Init => SerialIInv
<1> SUFFICES ASSUME Init PROVE SerialIInv
  OBVIOUS
<1>1. \A h \in Handlers : call[h] = Idle
  BY DEF Init
<1>2. NoCallIsRepeated
  BY <1>1 DEF NoCallIsRepeated, Repeats, Idle
<1>3. \A h \in Handlers : ReadsAreFresh(call[h])
  BY <1>1 DEF ReadsAreFresh, Idle
<1> QED
  BY <1>2, <1>3, InitIInv DEF SerialIInv

\* Where no call is repeated, nothing makes the first read stale.
LEMMA NextSerial == SerialIInv /\ [Next /\ NoCallIsRepeated']_vars => SerialIInv'
<1> SUFFICES ASSUME SerialIInv, [Next /\ NoCallIsRepeated']_vars PROVE SerialIInv'
  OBVIOUS
<1>1. IInv /\ NoCallIsRepeated /\ IInv'
  BY NextIInv DEF SerialIInv
<1>2. ASSUME NEW g \in Handlers PROVE ReadsAreFresh(call[g])'
  BY <1>1, StaleCause DEF SerialIInv, NoCallIsRepeated
<1>3. NoCallIsRepeated'
  BY <1>1 DEF NoCallIsRepeated, vars
<1> QED
  BY <1>1, <1>2, <1>3 DEF SerialIInv

\* The invariant holds in every state that calls which are not repeated reach.
THEOREM SerialInvariance == SerialSpec => []SerialIInv
  BY InitSerial, NextSerial, PTL DEF SerialSpec

-----------------------------------------------------------------------------
(***************************************************************************)
(* The borrowing flow.  AsLoan reads a request off its row; what the       *)
(* statements do to the row is what the flow does to the request.          *)
(***************************************************************************)

\* A row that is stored is the loan of its columns.
LEMMA LoanOfRow ==
    ASSUME NEW row \in Row
    PROVE  AsLoan(row) = [book |-> row.book, borrower |-> row.requester,
                          status |-> row.status, confirmed |-> row.confirmed]
  BY DEF AsLoan, Row

\* An unused id has no loan yet, a deleted row none any more.
LEMMA LoanOfNone ==
    /\ AsLoan(Unused) = [status |-> "none"]
    /\ AsLoan(Deleted) = [status |-> "gone"]
  BY DEF AsLoan, Unused, Deleted, Statuses

\* A loan is pending, accepted and so on when its row is.
LEMMA LoanStatus ==
    ASSUME TypeOK, NEW r \in RequestIds
    PROVE  /\ Live(r) => /\ AsLoan(requests[r]).status = requests[r].status
                         /\ AsLoan(requests[r]).book = requests[r].book
                         /\ AsLoan(requests[r]).borrower = requests[r].requester
                         /\ AsLoan(requests[r]).confirmed = requests[r].confirmed
           /\ ~Live(r) => AsLoan(requests[r]).status \in {"none", "gone"}
<1>1. CASE Live(r)
  BY <1>1, LiveRow, LoanOfRow
<1>2. CASE ~Live(r)
  BY <1>2, LiveRow, LoanOfNone
<1> QED
  BY <1>1, <1>2 DEF Live

\* A write to one row is a write to one loan.
LEMMA LoanUpdated ==
    ASSUME NEW row \in Row, NEW status \in Statuses
    PROVE  AsLoan(UpdateStatus(row, status)) = [AsLoan(row) EXCEPT !.status = status]
<1>1. /\ UpdateStatus(row, status) \in Row
      /\ UpdateStatus(row, status).status = status
      /\ UpdateStatus(row, status).book = row.book
      /\ UpdateStatus(row, status).requester = row.requester
      /\ UpdateStatus(row, status).confirmed = row.confirmed
  BY UpdateStatusRow
<1>2. AsLoan(UpdateStatus(row, status)) =
        [book |-> row.book, borrower |-> row.requester, status |-> status,
         confirmed |-> row.confirmed]
  BY <1>1, LoanOfRow
<1>3. AsLoan(row) = [book |-> row.book, borrower |-> row.requester,
                     status |-> row.status, confirmed |-> row.confirmed]
  BY LoanOfRow
<1> QED
  BY <1>2, <1>3

\* WriteStatus is the owner's decision.
LEMMA WriteStatusIsDecide ==
    ASSUME IInv, NEW h \in Handlers, ReadsAreFresh(call[h]), WriteStatus(h), Live(call[h].request)
    PROVE  Flow!Decide(call[h].request, call[h].status)
<1> DEFINE q == call[h].request
           s == call[h].status
<1>1. TypeOK /\ call[h].step = "update_status"
  BY DEF IInv, WriteStatus, At
<1>2. /\ q \in RequestIds /\ requests[q] \in Row
      /\ s \in {"accepted", "rejected"} /\ requests[q].status = "pending"
  BY <1>1, WriterFinds
<1>3. requests' = [requests EXCEPT ![q] = UpdateStatus(requests[q], s)] /\ UNCHANGED books
  BY DEF WriteStatus
<1>4. AsLoan(requests'[q]) = [AsLoan(requests[q]) EXCEPT !.status = s]
  BY <1>1, <1>2, <1>3, LoanUpdated DEF TypeOK, Statuses
<1>5. \A r \in RequestIds : r # q => AsLoan(requests'[r]) = AsLoan(requests[r])
  BY <1>1, <1>3 DEF TypeOK
<1>6. AsLoan(requests[q]).status = "pending"
  BY <1>1, <1>2, LoanStatus
<1> HIDE DEF q, s
<1> QED
  BY <1>2, <1>3, <1>4, <1>5, <1>6 DEF Flow!Decide, q, s

\* ReturnTx is the owner taking the book back.
LEMMA ReturnTxIsTakeBack ==
    ASSUME IInv, NEW h \in Handlers, ReadsAreFresh(call[h]), ReturnTx(h), Live(call[h].request)
    PROVE  Flow!TakeBack(call[h].request)
<1> DEFINE q == call[h].request
<1>1. TypeOK /\ call[h].step = "return_tx"
  BY DEF IInv, ReturnTx, At
<1>2. q \in RequestIds /\ requests[q] \in Row /\ requests[q].status = "active"
  BY <1>1, WriterFinds
<1>3. /\ requests' = [requests EXCEPT ![q] = UpdateStatus(requests[q], "returned")]
      /\ books' = SetAvailability(requests[q].book, TRUE)
  BY DEF ReturnTx
<1>4. AsLoan(requests'[q]) = [AsLoan(requests[q]) EXCEPT !.status = "returned"]
  BY <1>1, <1>2, <1>3, LoanUpdated DEF TypeOK, Statuses
<1>5. \A r \in RequestIds : r # q => AsLoan(requests'[r]) = AsLoan(requests[r])
  BY <1>1, <1>3 DEF TypeOK
<1>6. AsLoan(requests[q]).status = "active" /\ AsLoan(requests[q]).book = requests[q].book
  BY <1>1, <1>2, LoanStatus
<1>7. books' = [books EXCEPT ![requests[q].book] = "available"]
  BY <1>3 DEF SetAvailability
<1> HIDE DEF q
<1> QED
  BY <1>2, <1>4, <1>5, <1>6, <1>7 DEF Flow!TakeBack, q

\* ConfirmTx is a confirmation, the first or the second.
LEMMA ConfirmTxIsConfirm ==
    ASSUME IInv, NEW h \in Handlers, ReadsAreFresh(call[h]), ConfirmTx(h), Live(call[h].request)
    PROVE  Flow!Confirm(call[h].request, call[h].role)
<1> DEFINE q == call[h].request
           role == call[h].role
           confirmed == SetConfirmed(requests[q], role)
<1>1. TypeOK /\ call[h].step = "confirm_tx"
  BY DEF IInv, ConfirmTx, At
<1>2. /\ q \in RequestIds /\ requests[q] \in Row /\ role \in Roles
      /\ requests[q].status = "accepted" /\ requests[q].confirmed \in SUBSET Roles
      /\ call[h].otherConfirmed = (OtherParty(role) \in requests[q].confirmed)
  BY <1>1, WriterFinds, LiveRow
<1>3. /\ confirmed \in Row
      /\ confirmed.book = requests[q].book /\ confirmed.requester = requests[q].requester
      /\ confirmed.status = "accepted"
      /\ confirmed.confirmed = requests[q].confirmed \cup {role}
  BY <1>2, SetConfirmedRow
<1>4. /\ AsLoan(requests[q]).status = "accepted"
      /\ AsLoan(requests[q]).book = requests[q].book
      /\ AsLoan(requests[q]).borrower = requests[q].requester
      /\ AsLoan(requests[q]).confirmed = requests[q].confirmed
  BY <1>1, <1>2, LoanStatus
<1>5. CASE call[h].otherConfirmed
  <2>1. requests[q].confirmed \cup {role} = {"owner", "borrower"}
    BY <1>2, <1>5 DEF Roles, OtherParty
  <2>2. /\ requests' = [requests EXCEPT ![q] = UpdateStatus(confirmed, "active")]
        /\ books' = [books EXCEPT ![requests[q].book] = "unavailable"]
    BY <1>5 DEF ConfirmTx, SetAvailability
  <2>3. AsLoan(requests'[q]) =
          [book |-> requests[q].book, borrower |-> requests[q].requester,
           status |-> "active", confirmed |-> requests[q].confirmed \cup {role}]
    <3> HIDE DEF confirmed, role
    <3>1. /\ UpdateStatus(confirmed, "active") \in Row
          /\ UpdateStatus(confirmed, "active").status = "active"
          /\ UpdateStatus(confirmed, "active").book = confirmed.book
          /\ UpdateStatus(confirmed, "active").requester = confirmed.requester
          /\ UpdateStatus(confirmed, "active").confirmed = confirmed.confirmed
      BY <1>3, UpdateStatusRow DEF Statuses
    <3>2. requests'[q] = UpdateStatus(confirmed, "active")
      BY <1>1, <1>2, <2>2 DEF TypeOK
    <3> QED
      BY <1>3, <3>1, <3>2, LoanOfRow
  <2>4. \A r \in RequestIds : r # q => AsLoan(requests'[r]) = AsLoan(requests[r])
    BY <1>1, <2>2 DEF TypeOK
  <2> HIDE DEF confirmed, role, q
  <2>5. Flow!Confirm(q, role)
    BY <1>2, <1>4, <2>1, <2>2, <2>3, <2>4 DEF Flow!Confirm, Flow!Progress
  <2> QED
    BY <2>5 DEF q, role
<1>6. CASE ~call[h].otherConfirmed
  <2>1. requests[q].confirmed \cup {role} # {"owner", "borrower"}
    <3>1. OtherParty(role) \notin requests[q].confirmed
      BY <1>2, <1>6
    <3> QED
      BY <1>2, <3>1 DEF Roles, OtherParty
  <2>2. requests' = [requests EXCEPT ![q] = confirmed] /\ books' = books
    BY <1>6 DEF ConfirmTx
  <2>3. AsLoan(requests'[q]) =
          [book |-> requests[q].book, borrower |-> requests[q].requester,
           status |-> "accepted", confirmed |-> requests[q].confirmed \cup {role}]
    <3> HIDE DEF confirmed, role
    <3>1. requests'[q] = confirmed
      BY <1>1, <1>2, <2>2 DEF TypeOK
    <3> QED
      BY <1>3, <3>1, LoanOfRow
  <2>4. \A r \in RequestIds : r # q => AsLoan(requests'[r]) = AsLoan(requests[r])
    BY <1>1, <2>2 DEF TypeOK
  <2> HIDE DEF confirmed, role, q
  <2>5. Flow!Confirm(q, role)
    BY <1>2, <1>4, <2>1, <2>2, <2>3, <2>4 DEF Flow!Confirm, Flow!Progress
  <2> QED
    BY <2>5 DEF q, role
<1> QED
  BY <1>2, <1>5, <1>6

\* InsertRequest is a student asking, if the book is still there.
LEMMA InsertRequestIsAsk ==
    ASSUME IInv, NEW h \in Handlers, ReadsAreFresh(call[h]), InsertRequest(h), ~UNCHANGED requests
    PROVE  \E r \in RequestIds :
             /\ call[h].book \in Books /\ call[h].requester \in Users
             /\ Flow!Ask(call[h].book, call[h].requester, r)
<1> DEFINE b == call[h].book
           u == call[h].requester
           row == NewRequest(b, u)
<1>1. TypeOK /\ call[h].step = "insert_request" /\ UNCHANGED books /\ OnShelf(b)
  BY DEF IInv, InsertRequest, At
<1>2. b \in Books /\ u \in Users /\ u # Owner[b] /\ ~HasPendingRequest(b, u)
  BY <1>1, CallShape DEF IInv, TypeOK, LocalsStayTrue, ReadsAreFresh
<1>3. PICK r \in RequestIds :
        requests[r] = Unused /\ requests' = [requests EXCEPT ![r] = row]
  BY DEF InsertRequest
<1>4. AsLoan(requests'[r]) =
        [book |-> b, borrower |-> u, status |-> "pending", confirmed |-> {}]
  <2>1. row \in Row /\ row.book = b /\ row.requester = u /\ row.status = "pending"
          /\ row.confirmed = {}
    BY <1>2 DEF NewRequest, Row, Statuses
  <2>2. requests'[r] = row
    BY <1>1, <1>3 DEF TypeOK
  <2> HIDE DEF row
  <2> QED
    BY <2>1, <2>2, LoanOfRow
<1>5. \A q \in RequestIds : q # r => AsLoan(requests'[q]) = AsLoan(requests[q])
  BY <1>1, <1>3 DEF TypeOK
<1>6. AsLoan(requests[r]) = [status |-> "none"]
  BY <1>3, LoanOfNone
<1>7. ASSUME NEW q \in RequestIds, AsLoan(requests[q]).status = "pending",
             AsLoan(requests[q]).book = b, AsLoan(requests[q]).borrower = u
      PROVE  FALSE
  BY <1>1, <1>2, <1>7, LoanStatus DEF HasPendingRequest
<1> HIDE DEF b, u
<1>8. Flow!Ask(b, u, r)
  BY <1>1, <1>2, <1>4, <1>5, <1>6, <1>7
     DEF Flow!Ask, Flow!Asked, Flow!Listed, Flow!None, OnShelf
<1> QED
  BY <1>2, <1>8 DEF b, u

\* DeleteBook removes a book with its requests.
LEMMA DeleteBookIsRemove ==
    ASSUME IInv, NEW h \in Handlers, ReadsAreFresh(call[h]), DeleteBook(h), ~UNCHANGED <<books, requests>>
    PROVE  call[h].book \in Books /\ Flow!RemoveBook(call[h].book)
<1> DEFINE k == call[h].book
<1>1. TypeOK /\ call[h].step = "delete_book" /\ OnShelf(k) /\ DeleteBookCascade(k)
  BY DEF IInv, DeleteBook, At
<1>2. k \in Books
  BY <1>1, CallShape DEF TypeOK
<1>3. ASSUME NEW r \in RequestIds
      PROVE  AsLoan(requests'[r]) =
               IF AsLoan(requests[r]) \notin {[status |-> "none"], [status |-> "gone"]}
                    /\ AsLoan(requests[r]).book = k
               THEN [status |-> "gone"] ELSE AsLoan(requests[r])
  <2>1. requests'[r] = IF Live(r) /\ requests[r].book = k THEN Deleted ELSE requests[r]
    BY <1>1 DEF DeleteBookCascade
  <2>2. CASE Live(r)
    <3>1. /\ AsLoan(requests[r]).status \in Statuses
          /\ AsLoan(requests[r]).book = requests[r].book
      BY <1>1, <2>2, LoanStatus DEF Live
    <3>2. AsLoan(requests[r]) \notin {[status |-> "none"], [status |-> "gone"]}
      BY <3>1 DEF Statuses
    <3> QED
      BY <2>1, <2>2, <3>1, <3>2, LoanOfNone
  <2>3. CASE ~Live(r)
    <3>1. AsLoan(requests[r]) \in {[status |-> "none"], [status |-> "gone"]}
      BY <1>1, <2>3, LiveRow, LoanOfNone
    <3> QED
      BY <2>1, <2>3, <3>1
  <2> QED
    BY <2>2, <2>3
<1> HIDE DEF k
<1> QED
  BY <1>1, <1>2, <1>3
     DEF Flow!RemoveBook, Flow!Open, Flow!Listed, Flow!None, Flow!Gone, OnShelf,
         DeleteBookCascade, k

\* The catalogue's statements are the flow's listings and relistings.
LEMMA CatalogIsFlow ==
    ASSUME IInv, NEW h \in Handlers, ReadsAreFresh(call[h]), InsertBook(h) \/ UpdateBook(h), ~UNCHANGED books
    PROVE  \E b \in Books :
             Flow!ListBook(b) \/ \E available \in OwnerPatches : Flow!Relist(b, available)
<1>1. TypeOK /\ UNCHANGED requests
  BY QuietSteps DEF IInv
<1>2. [r \in RequestIds |-> AsLoan(requests[r])]' = [r \in RequestIds |-> AsLoan(requests[r])]
  BY <1>1
<1>3. CASE InsertBook(h)
  BY <1>2, <1>3 DEF InsertBook, SetAvailability, Flow!ListBook
<1>4. CASE UpdateBook(h)
  <2>1. /\ call[h].step = "update_book" /\ OnShelf(call[h].book)
        /\ books' = SetAvailability(call[h].book, call[h].available)
    BY <1>4 DEF UpdateBook, At
  <2>2. call[h].book \in Books /\ call[h].available \in OwnerPatches
    BY <1>1, <2>1, CallShape DEF TypeOK, IInv, LocalsStayTrue
  <2>3. Flow!Relist(call[h].book, call[h].available)
    BY <1>2, <2>1, <2>2 DEF SetAvailability, OnShelf, Flow!Relist, Flow!Listed
  <2> QED
    BY <2>2, <2>3
<1> QED
  BY <1>3, <1>4

\* Where no call is repeated every step is a step of the flow, or none.
LEMMA FlowSteps ==
    SerialIInv /\ [Next /\ NoCallIsRepeated']_vars => [Flow!LendingNext]_(Flow!lendingVars)
<1> SUFFICES ASSUME SerialIInv, [Next /\ NoCallIsRepeated']_vars
             PROVE  Flow!LendingNext \/ UNCHANGED Flow!lendingVars
  OBVIOUS
<1>1. IInv /\ TypeOK /\ \A h \in Handlers : ReadsAreFresh(call[h])
  BY DEF SerialIInv, IInv
<1>2. CASE UNCHANGED <<books, requests>>
  BY <1>2 DEF Flow!lendingVars
<1>3. ASSUME NEW h \in Handlers, WriteStatus(h), ~UNCHANGED <<books, requests>>
      PROVE  Flow!LendingNext
  <2>1. call[h].step = "update_status" /\ Live(call[h].request)
    BY <1>3 DEF WriteStatus, At
  <2>2. call[h].request \in RequestIds /\ call[h].status \in {"accepted", "rejected"}
    BY <1>1, <2>1, CallShape DEF TypeOK
  <2> QED
    BY <1>1, <1>3, <2>1, <2>2, WriteStatusIsDecide DEF Flow!LendingNext
<1>4. ASSUME NEW h \in Handlers, ConfirmTx(h), ~UNCHANGED <<books, requests>>
      PROVE  Flow!LendingNext
  <2>1. call[h].step = "confirm_tx" /\ Live(call[h].request)
    BY <1>4 DEF ConfirmTx, At
  <2>2. call[h].request \in RequestIds /\ call[h].role \in {"owner", "borrower"}
    BY <1>1, <2>1, CallShape DEF TypeOK, Roles
  <2> QED
    BY <1>1, <1>4, <2>1, <2>2, ConfirmTxIsConfirm DEF Flow!LendingNext
<1>5. ASSUME NEW h \in Handlers, ReturnTx(h), ~UNCHANGED <<books, requests>>
      PROVE  Flow!LendingNext
  <2>1. call[h].step = "return_tx" /\ Live(call[h].request)
    BY <1>5 DEF ReturnTx, At
  <2>2. call[h].request \in RequestIds
    BY <1>1, <2>1, CallShape DEF TypeOK
  <2> QED
    BY <1>1, <1>5, <2>1, <2>2, ReturnTxIsTakeBack DEF Flow!LendingNext
<1>6. ASSUME NEW h \in Handlers, InsertRequest(h), ~UNCHANGED <<books, requests>>
      PROVE  Flow!LendingNext
  BY <1>1, <1>6, QuietSteps, InsertRequestIsAsk DEF Flow!LendingNext
<1>7. ASSUME NEW h \in Handlers, DeleteBook(h), ~UNCHANGED <<books, requests>>
      PROVE  Flow!LendingNext
  BY <1>1, <1>7, DeleteBookIsRemove DEF Flow!LendingNext
<1>8. ASSUME NEW h \in Handlers, InsertBook(h) \/ UpdateBook(h), ~UNCHANGED <<books, requests>>
      PROVE  Flow!LendingNext
  BY <1>1, <1>8, QuietSteps, CatalogIsFlow DEF Flow!LendingNext
<1> QED
  BY <1>2, <1>3, <1>4, <1>5, <1>6, <1>7, <1>8, QuietSteps
     DEF Next, Begin, Step, RequestStep, CatalogStep, EditProfile, UpdateProfile, vars

\* Calls that are not repeated, each of several statements, cut off anywhere and
\* overlapping with all others, do what the documented borrowing flow says, and
\* nothing else.
THEOREM FlowIsImplemented == SerialSpec => ImplementsLending
<1>1. Init => Flow!LendingInit
  BY LoanOfNone DEF Init, Flow!LendingInit, Flow!None
<1> QED
  BY <1>1, FlowSteps, SerialInvariance, PTL
     DEF SerialSpec, ImplementsLending, Flow!LendingSpec

=============================================================================
