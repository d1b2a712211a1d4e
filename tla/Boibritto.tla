----------------------------- MODULE Boibritto ------------------------------
(***************************************************************************)
(* The API server: goroutines that serve calls on requests, books and      *)
(* profiles against the same tables, in any interleaving of their          *)
(* statements, and that may be cut off between any two of them.            *)
(***************************************************************************)
EXTENDS Requests, Catalog

Begin(h) == BeginRequestCall(h) \/ BeginCatalogCall(h)

Step(h) == RequestStep(h) \/ CatalogStep(h)

EditProfile == \E u \in Users, fields \in SUBSET ProfileFields : UpdateProfile(u, fields)

Next ==
    \/ \E h \in Handlers : Begin(h) \/ Step(h) \/ Abort(h)
    \/ EditProfile

Spec == Init /\ [][Next]_vars

(***************************************************************************)
(* Two calls repeat each other when they ask for the same book for the     *)
(* same student, or decide, confirm or return the same request: a button   *)
(* pressed twice, both parties confirming at the same moment.              *)
(***************************************************************************)
Repeats(c, d) ==
    \/ /\ c.step \in {"check_pending", "insert_request"}
       /\ d.step \in {"check_pending", "insert_request"}
       /\ c.book = d.book
       /\ c.requester = d.requester
    \/ /\ \/ /\ c.step \in {"create_thread", "update_status"}
             /\ d.step \in {"create_thread", "update_status"}
          \/ c.step = "confirm_tx" /\ d.step = "confirm_tx"
          \/ c.step = "return_tx" /\ d.step = "return_tx"
       /\ c.request = d.request

(***************************************************************************)
(* The same server when no call is repeated while it is in flight.  The    *)
(* code does not enforce it, and only the refinement below assumes it;     *)
(* module Overlaps says what calls that overlap can do.                    *)
(***************************************************************************)
NoCallIsRepeated ==
    \A h, g \in Handlers : h # g => ~Repeats(call[h], call[g])

SerialSpec == Init /\ [][Next /\ NoCallIsRepeated']_vars

-----------------------------------------------------------------------------
(***************************************************************************)
(* Safety, for any interleaving.                                           *)
(***************************************************************************)

\* A request is never active, nor returned, unless both parties have
\* confirmed the handoff, however stale the flag ConfirmHandoff acted on.
HandoffConfirmed ==
    \A r \in RequestIds :
      requests[r].status \in {"active", "returned"} => requests[r].confirmed = Roles

\* accepted_at, which the activity feed reads, is set on every request that
\* was accepted: also when a late reject has overwritten the status of one
\* that a party has confirmed since.
AcceptedIsDated ==
    \A r \in RequestIds :
      /\ Live(r)
      /\ \/ requests[r].confirmed # {}
         \/ requests[r].status \in {"accepted", "active", "returned"}
      => requests[r].acceptedAt

\* The push that asks a party to confirm only goes out once the other
\* party's confirmation is committed; no abort leaves it unfounded.
ReminderIsFounded ==
    \A role \in Roles, r \in RequestIds :
      <<role, r>> \in reminders /\ Live(r) => OtherParty(role) \in requests[r].confirmed

\* Nobody borrows, or asks for, a book of their own, and whoever lists a
\* book has said how to be reached.
ContactableLender ==
    /\ \A r \in RequestIds : Live(r) => requests[r].requester # Lender(r)
    /\ \A b \in Books : OnShelf(b) => IsProfileComplete(Owner[b])

\* When owners do not edit availability by hand, a book is off the list only
\* if some request for it was confirmed by both parties.
UnavailableWasHandedOver ==
    FALSE \notin OwnerPatches =>
      \A b \in Books :
        books[b] = "unavailable" =>
          \E r \in RequestIds : /\ Live(r)
                                /\ requests[r].book = b
                                /\ requests[r].confirmed = Roles

-----------------------------------------------------------------------------
(***************************************************************************)
(* Why they hold: what a goroutine still knows about a row it read before  *)
(* others ran.                                                             *)
(***************************************************************************)

\* A goroutine's locals, once read, stay true of the tables in these
\* respects: a checked student is not the owner, a request id never goes
\* back to unused, a confirmation seen or written is never withdrawn, a
\* checked profile stays complete.
LocalsStayTrue(c) ==
    /\ c.step \in {"check_pending", "insert_request"} => c.requester # Owner[c.book]
    /\ c.step = "confirm_tx" =>
         /\ requests[c.request] # Unused
         /\ Live(c.request) =>
              /\ requests[c.request].acceptedAt
              /\ c.otherConfirmed => OtherParty(c.role) \in requests[c.request].confirmed
    /\ c.step = "notify" =>
         /\ requests[c.request] # Unused
         /\ Live(c.request) => c.role \in requests[c.request].confirmed
    /\ c.step = "return_tx" =>
         /\ requests[c.request] # Unused
         /\ Live(c.request) => requests[c.request].confirmed = Roles
    /\ c.step = "insert_book" => IsProfileComplete(c.owner)
    /\ c.step = "update_book" => c.available \in OwnerPatches

\* Nothing has happened yet to a pending request, and nobody has been
\* reminded of a request that was never made.
PendingIsFresh ==
    /\ \A r \in RequestIds :
         requests[r].status = "pending" =>
           requests[r].confirmed = {} /\ ~requests[r].acceptedAt
    /\ \A role \in Roles, r \in RequestIds :
         <<role, r>> \in reminders => requests[r] # Unused

\* ON DELETE CASCADE and the foreign key: a request has a book.
RequestHasBook ==
    \A r \in RequestIds : Live(r) => OnShelf(requests[r].book)

\* The inductive invariant of the safety proofs: the properties above hold
\* in every reachable state because these facts, together, survive every
\* statement of every handler.
IInv ==
    /\ TypeOK
    /\ HandoffConfirmed
    /\ AcceptedIsDated
    /\ ReminderIsFounded
    /\ ContactableLender
    /\ UnavailableWasHandedOver
    /\ PendingIsFresh
    /\ RequestHasBook
    /\ \A h \in Handlers : LocalsStayTrue(call[h])

-----------------------------------------------------------------------------
(***************************************************************************)
(* What a step may never do.                                               *)
(***************************************************************************)

\* A pending request leaves that status only by the owner's decision or with
\* its book, and no late write ever makes a request pending again.
PendingStep(r) ==
    /\ requests[r].status = "pending" =>
         requests'[r].status \in {"pending", "accepted", "rejected", "deleted"}
    /\ requests'[r].status = "pending" => requests[r].status \in {"unused", "pending"}

PendingIsLeftOnce == [][\A r \in RequestIds : PendingStep(r)]_vars

\* What a goroutine read of its request, or of its student's requests, is
\* still so.
ReadsAreFresh(c) ==
    /\ c.step = "insert_request" => ~HasPendingRequest(c.book, c.requester)
    /\ c.step \in {"create_thread", "update_status"} /\ Live(c.request) =>
         requests[c.request].status = "pending"
    /\ c.step = "confirm_tx" /\ Live(c.request) =>
         /\ requests[c.request].status = "accepted"
         /\ c.otherConfirmed = (OtherParty(c.role) \in requests[c.request].confirmed)
    /\ c.step = "return_tx" /\ Live(c.request) => requests[c.request].status = "active"

\* The inductive invariant of SerialSpec: no read is ever stale.
SerialIInv ==
    /\ IInv
    /\ NoCallIsRepeated
    /\ \A h \in Handlers : ReadsAreFresh(call[h])

-----------------------------------------------------------------------------
(***************************************************************************)
(* The borrowing flow as documented (module Lending), read off the tables. *)
(***************************************************************************)

AsLoan(row) ==
    IF row.status \in Statuses
    THEN [book |-> row.book, borrower |-> row.requester, status |-> row.status,
          confirmed |-> row.confirmed]
    ELSE [status |-> IF row = Unused THEN "none" ELSE "gone"]

Flow == INSTANCE Lending
          WITH shelf <- books,
               loan <- [r \in RequestIds |-> AsLoan(requests[r])]

\* Step by step, calls that are not repeated do what the borrowing flow says
\* and nothing else, though each is several statements, may be cut off, and
\* overlaps with every other call.
ImplementsLending == Flow!LendingSpec

-----------------------------------------------------------------------------
(***************************************************************************)
(* What the documentation promises, and the code does not keep.            *)
(***************************************************************************)

\* Once both confirmations are in, the request is no longer merely accepted.
ActivationLost(r) ==
    requests[r].status = "accepted" /\ requests[r].confirmed = Roles

NoLostActivation == \A r \in RequestIds : ~ActivationLost(r)

\* A student has at most one pending request for the same book.
PendingTwice(r, q) ==
    /\ r # q
    /\ requests[r].status = "pending" /\ requests[q].status = "pending"
    /\ requests[r].book = requests[q].book
    /\ requests[r].requester = requests[q].requester

OnePendingRequest == \A r, q \in RequestIds : ~PendingTwice(r, q)

\* When owners do not edit availability by hand, a book that is off the list
\* is on loan, so that somebody can return it.
Stranded(b) ==
    /\ books[b] = "unavailable"
    /\ \A r \in RequestIds :
         requests[r].status = "active" => requests[r].book # b

UnavailableIsOnLoan ==
    FALSE \notin OwnerPatches => \A b \in Books : ~Stranded(b)

\* A request is decided while it is pending, and only then.
DecisionStep(r) ==
    /\ requests'[r].status \in {"accepted", "rejected"}
    /\ requests'[r].status # requests[r].status
    => requests[r].status = "pending"

DecidedOnlyWhilePending == [][\A r \in RequestIds : DecisionStep(r)]_vars

\* The book of an active request is unavailable.
ActiveBookIsUnavailable ==
    \A r \in RequestIds :
      requests[r].status = "active" => books[requests[r].book] # "available"

\* A student whose profile is incomplete cannot make a request.
RequesterIsContactable ==
    \A r \in RequestIds : Live(r) => IsProfileComplete(requests[r].requester)

\* With no call in flight, a thread belongs to a request that was accepted.
ThreadMeansAccepted ==
    (\A h \in Handlers : call[h] = Idle) =>
      \A r \in threads : Live(r) => requests[r].acceptedAt

=============================================================================
