------------------------------- MODULE Tables -------------------------------
(***************************************************************************)
(* What the backend keeps in PostgreSQL and Firestore, and the SQL         *)
(* statements its stores run.  Every handler of the REST API runs in a     *)
(* goroutine of its own and talks to the database one statement at a time  *)
(* (READ COMMITTED); between two statements it holds only what it read     *)
(* into local variables, and every other goroutine may run.  `call' is     *)
(* that: for each goroutine, the statement it is about to run and the      *)
(* locals it will run it with.                                             *)
(*                                                                         *)
(* The handlers themselves are in Requests (borrow requests) and Catalog   *)
(* (books and profiles).                                                   *)
(***************************************************************************)

CONSTANTS
    Users,          \* users.id of the students who have signed in
    Books,          \* books.id, in the order SERIAL will hand them out to nobody else
    RequestIds,     \* borrow_requests.id; a bound: SERIAL never reuses an id
    Handlers,       \* goroutines that can be in the middle of a call at once
    Owner,          \* books.owner_id: who lists each book; no statement changes it
    SignedUp,       \* profile fields each user has filled in at the start
    OwnerPatches    \* values of `available' that owners send in PATCH /books/{id}

(***************************************************************************)
(* A profile is complete when both fields are filled in.                   *)
(***************************************************************************)
ProfileFields == {"name", "whatsapp"}

ASSUME TablesAssumption ==
    /\ Owner \in [Books -> Users]
    /\ SignedUp \in [Users -> SUBSET ProfileFields]
    /\ OwnerPatches \subseteq BOOLEAN

VARIABLES
    profile,    \* profile[u]: the fields of users row u that are filled in
    books,      \* books[b]: unused id, availability of the row, or deleted
    requests,   \* requests[r]: a row of borrow_requests, or why there is none
    threads,    \* request ids that have a thread document in Firestore
    reminders,  \* <<role, r>>: that party of r was pushed "confirm the handoff"
    call        \* call[h]: next statement and locals of goroutine h

vars == <<profile, books, requests, threads, reminders, call>>

-----------------------------------------------------------------------------
(***************************************************************************)
(* Rows.                                                                   *)
(***************************************************************************)

Statuses == {"pending", "accepted", "rejected", "active", "returned"}

Roles == {"owner", "borrower"}

OtherParty(role) == IF role = "owner" THEN "borrower" ELSE "owner"

\* acceptedAt is `accepted_at IS NOT NULL'; confirmed holds the roles whose
\* owner_confirmed / borrower_confirmed column is true.
Row == [book : Books, requester : Users, status : Statuses,
        confirmed : SUBSET Roles, acceptedAt : BOOLEAN]

Unused == [status |-> "unused"]
Deleted == [status |-> "deleted"]

BookStates == {"unused", "available", "unavailable", "deleted"}

Live(r) == requests[r].status \in Statuses

OnShelf(b) == books[b] \in {"available", "unavailable"}

Lender(r) == Owner[requests[r].book]

-----------------------------------------------------------------------------
(***************************************************************************)
(* Goroutines.                                                             *)
(***************************************************************************)

Idle == [step |-> "idle"]

Calls ==
    {Idle}
      \cup [step : {"check_pending", "insert_request"}, book : Books, requester : Users]
      \cup [step : {"create_thread", "update_status"}, request : RequestIds,
            status : {"accepted", "rejected"}]
      \cup [step : {"confirm_tx"}, request : RequestIds, role : Roles,
            otherConfirmed : BOOLEAN]
      \cup [step : {"notify"}, request : RequestIds, role : Roles]
      \cup [step : {"return_tx"}, request : RequestIds]
      \cup [step : {"insert_book"}, owner : Users]
      \cup [step : {"update_book"}, book : Books, available : BOOLEAN]
      \cup [step : {"delete_book"}, book : Books]

At(h, step) == call[h].step = step

Goto(h, next) == call' = [call EXCEPT ![h] = next]

Return(h) == Goto(h, Idle)

(***************************************************************************)
(* A call may end between any two of its statements: the client has hung   *)
(* up and its context is cancelled, the database returned an error, the    *)
(* handler panicked or the process was stopped.  A transaction that was    *)
(* open is rolled back, what earlier statements wrote stays.               *)
(***************************************************************************)
Abort(h) ==
    /\ call[h] # Idle
    /\ Return(h)
    /\ UNCHANGED <<profile, books, requests, threads, reminders>>

-----------------------------------------------------------------------------
(***************************************************************************)
(* Statements of the stores.                                               *)
(***************************************************************************)

IsProfileComplete(u) == profile[u] = ProfileFields

HasPendingRequest(b, u) ==
    \E r \in RequestIds : /\ requests[r].status = "pending"
                          /\ requests[r].book = b
                          /\ requests[r].requester = u

NewRequest(b, u) ==
    [book |-> b, requester |-> u, status |-> "pending", confirmed |-> {},
     acceptedAt |-> FALSE]

\* UpdateStatus matches the row by id alone, whatever its status is now.
UpdateStatus(row, status) ==
    [row EXCEPT !.status = status,
                !.acceptedAt = @ \/ status = "accepted"]

SetConfirmed(row, role) == [row EXCEPT !.confirmed = @ \cup {role}]

SetAvailability(b, available) ==
    [books EXCEPT ![b] = IF available THEN "available" ELSE "unavailable"]

\* ON DELETE CASCADE: the requests of a book go with it.
DeleteBookCascade(b) ==
    /\ books' = [books EXCEPT ![b] = "deleted"]
    /\ requests' = [r \in RequestIds |->
                      IF Live(r) /\ requests[r].book = b THEN Deleted ELSE requests[r]]

-----------------------------------------------------------------------------

Init ==
    /\ profile = SignedUp
    /\ books = [b \in Books |-> "unused"]
    /\ requests = [r \in RequestIds |-> Unused]
    /\ threads = {}
    /\ reminders = {}
    /\ call = [h \in Handlers |-> Idle]

(***************************************************************************)
(* Type invariant: every row and every goroutine has one of its shapes.    *)
(***************************************************************************)
TypeOK ==
    /\ profile \in [Users -> SUBSET ProfileFields]
    /\ books \in [Books -> BookStates]
    /\ requests \in [RequestIds -> Row \cup {Unused, Deleted}]
    /\ threads \subseteq RequestIds
    /\ reminders \subseteq Roles \X RequestIds
    /\ call \in [Handlers -> Calls]

=============================================================================
