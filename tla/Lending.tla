------------------------------ MODULE Lending -------------------------------
(***************************************************************************)
(* What Boibritto promises its students, as the README's borrowing flow    *)
(* and the API contract tell it: every decision, confirmation and return   *)
(* happens at once, to a request that is then in the right status.         *)
(*                                                                         *)
(* There are no goroutines here, and nothing is read before it is used.    *)
(***************************************************************************)

CONSTANTS
    Users, Books, RequestIds,
    Owner,          \* who lists each book
    OwnerPatches    \* availabilities an owner may set by hand

VARIABLES
    shelf,      \* shelf[b]: "unused", "available", "unavailable" or "deleted"
    loan        \* loan[r]: "none", "gone", or the request and its progress

lendingVars == <<shelf, loan>>

None == [status |-> "none"]
Gone == [status |-> "gone"]

Listed(b) == shelf[b] \in {"available", "unavailable"}

Open(r) == loan[r] \notin {None, Gone}

Asked(b, u) ==
    \E r \in RequestIds : /\ loan[r].status = "pending"
                          /\ loan[r].book = b
                          /\ loan[r].borrower = u

-----------------------------------------------------------------------------

ListBook(b) ==
    /\ shelf[b] = "unused"
    /\ shelf' = [shelf EXCEPT ![b] = "available"]
    /\ UNCHANGED loan

Relist(b, available) ==
    /\ Listed(b)
    /\ shelf' = [shelf EXCEPT ![b] = IF available THEN "available" ELSE "unavailable"]
    /\ UNCHANGED loan

\* A deleted book takes its requests with it.
RemoveBook(b) ==
    /\ Listed(b)
    /\ shelf' = [shelf EXCEPT ![b] = "deleted"]
    /\ loan' = [r \in RequestIds |->
                  IF Open(r) /\ loan[r].book = b THEN Gone ELSE loan[r]]

\* Not one's own book, and no second request while one is pending.
Ask(b, u, r) ==
    /\ Listed(b)
    /\ u # Owner[b]
    /\ ~Asked(b, u)
    /\ loan[r] = None
    /\ loan' = [loan EXCEPT ![r] = [book |-> b, borrower |-> u, status |-> "pending",
                                    confirmed |-> {}]]
    /\ UNCHANGED shelf

Decide(r, status) ==
    /\ loan[r].status = "pending"
    /\ loan' = [loan EXCEPT ![r].status = status]
    /\ UNCHANGED shelf

\* The request with its progress.
Progress(r, status, confirmed) ==
    [book |-> loan[r].book, borrower |-> loan[r].borrower, status |-> status,
     confirmed |-> confirmed]

\* The second confirmation activates the request and takes the book off the
\* list; the first one, or a repeated one, is only noted.
Confirm(r, party) ==
    /\ loan[r].status = "accepted"
    /\ LET confirmed == loan[r].confirmed \cup {party}
       IN  \/ /\ confirmed = {"owner", "borrower"}
              /\ loan' = [loan EXCEPT ![r] = Progress(r, "active", confirmed)]
              /\ shelf' = [shelf EXCEPT ![loan[r].book] = "unavailable"]
           \/ /\ confirmed # {"owner", "borrower"}
              /\ loan' = [loan EXCEPT ![r] = Progress(r, "accepted", confirmed)]
              /\ UNCHANGED shelf

TakeBack(r) ==
    /\ loan[r].status = "active"
    /\ loan' = [loan EXCEPT ![r].status = "returned"]
    /\ shelf' = [shelf EXCEPT ![loan[r].book] = "available"]

-----------------------------------------------------------------------------

LendingInit ==
    /\ shelf = [b \in Books |-> "unused"]
    /\ loan = [r \in RequestIds |-> None]

LendingNext ==
    \/ \E b \in Books :
         \/ ListBook(b)
         \/ RemoveBook(b)
         \/ \E available \in OwnerPatches : Relist(b, available)
         \/ \E u \in Users, r \in RequestIds : Ask(b, u, r)
    \/ \E r \in RequestIds :
         \/ \E status \in {"accepted", "rejected"} : Decide(r, status)
         \/ \E party \in {"owner", "borrower"} : Confirm(r, party)
         \/ TakeBack(r)

LendingSpec == LendingInit /\ [][LendingNext]_lendingVars

=============================================================================
