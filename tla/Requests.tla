------------------------------ MODULE Requests ------------------------------
(***************************************************************************)
(* internal/requests: the life of a borrow request.  Each handler reads    *)
(* the rows it needs, decides, and then writes; the writes name a row by   *)
(* its id and repeat none of the conditions that were read.                *)
(*                                                                         *)
(* A Begin action is the handler from its first statement up to the point  *)
(* where it has read and accepted everything it checks; a call that is     *)
(* refused there (404, 403, 400, 409) changes no state and is no step.     *)
(* The handler's last statement re-reads the row for the response.         *)
(***************************************************************************)
EXTENDS Tables

-----------------------------------------------------------------------------
(***************************************************************************)
(* POST /books/{id}/requests.  The lookup reads the book's owner, who      *)
(* never changes, and the profile check concerns that owner, not the       *)
(* caller; a profile never becomes incomplete again, so the two reads are  *)
(* one step.                                                               *)
(***************************************************************************)

BeginCreateRequest(h, u, b) ==
    /\ call[h] = Idle
    /\ OnShelf(b)
    /\ IsProfileComplete(Owner[b])
    /\ u # Owner[b]
    /\ Goto(h, [step |-> "check_pending", book |-> b, requester |-> u])
    /\ UNCHANGED <<profile, books, requests, threads, reminders>>

\* Mutant: the answer of HasPendingRequest is ignored.
CheckNothing(h) ==
    /\ At(h, "check_pending")
    /\ Goto(h, [call[h] EXCEPT !.step = "insert_request"])
    /\ UNCHANGED <<profile, books, requests, threads, reminders>>

CheckPending(h) ==
    /\ At(h, "check_pending")
    /\ Goto(h, IF HasPendingRequest(call[h].book, call[h].requester)
               THEN Idle
               ELSE [call[h] EXCEPT !.step = "insert_request"])
    /\ UNCHANGED <<profile, books, requests, threads, reminders>>

\* The foreign key refuses the row when the book is gone by now.
InsertRequest(h) ==
    /\ At(h, "insert_request")
    /\ IF OnShelf(call[h].book)
       THEN \E r \in RequestIds :
              /\ requests[r] = Unused
              /\ requests' = [requests EXCEPT ![r] = NewRequest(call[h].book, call[h].requester)]
       ELSE UNCHANGED requests
    /\ Return(h)
    /\ UNCHANGED <<profile, books, threads, reminders>>

-----------------------------------------------------------------------------
(***************************************************************************)
(* PATCH /requests/{id}: the owner accepts or rejects.  The thread comes   *)
(* before the status, and a failure to create it (with or without effect   *)
(* at Firestore's end) is logged and otherwise ignored.                    *)
(***************************************************************************)

\* Mutant: accept and reject are not limited to pending requests.
BeginUpdateStatusAnytime(h, u, r, status) ==
    /\ call[h] = Idle
    /\ Live(r)
    /\ u = Lender(r)
    /\ Goto(h, [step |-> IF status = "accepted" THEN "create_thread" ELSE "update_status",
                request |-> r, status |-> status])
    /\ UNCHANGED <<profile, books, requests, threads, reminders>>

BeginUpdateStatus(h, u, r, status) ==
    /\ call[h] = Idle
    /\ Live(r)
    /\ u = Lender(r)
    /\ requests[r].status = "pending"
    /\ Goto(h, [step |-> IF status = "accepted" THEN "create_thread" ELSE "update_status",
                request |-> r, status |-> status])
    /\ UNCHANGED <<profile, books, requests, threads, reminders>>

CreateThread(h) ==
    /\ At(h, "create_thread")
    /\ threads' \in {threads, threads \cup {call[h].request}}
    /\ Goto(h, [call[h] EXCEPT !.step = "update_status"])
    /\ UNCHANGED <<profile, books, requests, reminders>>

WriteStatus(h) ==
    /\ At(h, "update_status")
    /\ LET r == call[h].request
       IN  requests' = IF Live(r)
                       THEN [requests EXCEPT ![r] = UpdateStatus(@, call[h].status)]
                       ELSE requests
    /\ Return(h)
    /\ UNCHANGED <<profile, books, threads, reminders>>

-----------------------------------------------------------------------------
(***************************************************************************)
(* POST /requests/{id}/confirm.  Whether the other party has confirmed is  *)
(* read before the transaction and used inside it.  The transaction only   *)
(* writes, and PostgreSQL locks the rows it writes, so it is one step.     *)
(***************************************************************************)

PartyOf(u, r) == IF u = Lender(r) THEN "owner" ELSE "borrower"

\* Mutant: a handoff can be confirmed on a request in any status.
BeginConfirmAnytime(h, u, r) ==
    /\ call[h] = Idle
    /\ Live(r)
    /\ u \in {Lender(r), requests[r].requester}
    /\ LET role == PartyOf(u, r)
       IN  Goto(h, [step |-> "confirm_tx", request |-> r, role |-> role,
                    otherConfirmed |-> OtherParty(role) \in requests[r].confirmed])
    /\ UNCHANGED <<profile, books, requests, threads, reminders>>

\* Mutant: the caller's own earlier confirmation is taken for the other's.
BeginConfirmOwnFlag(h, u, r) ==
    /\ call[h] = Idle
    /\ Live(r)
    /\ requests[r].status = "accepted"
    /\ u \in {Lender(r), requests[r].requester}
    /\ LET role == PartyOf(u, r)
       IN  Goto(h, [step |-> "confirm_tx", request |-> r, role |-> role,
                    otherConfirmed |-> role \in requests[r].confirmed])
    /\ UNCHANGED <<profile, books, requests, threads, reminders>>

BeginConfirm(h, u, r) ==
    /\ call[h] = Idle
    /\ Live(r)
    /\ requests[r].status = "accepted"
    /\ u \in {Lender(r), requests[r].requester}
    /\ LET role == PartyOf(u, r)
       IN  Goto(h, [step |-> "confirm_tx", request |-> r, role |-> role,
                    otherConfirmed |-> OtherParty(role) \in requests[r].confirmed])
    /\ UNCHANGED <<profile, books, requests, threads, reminders>>

\* Mutant: one confirmation is enough to hand the book over.
ConfirmTxEitherParty(h) ==
    /\ At(h, "confirm_tx")
    /\ LET r == call[h].request
       IN  IF Live(r)
           THEN /\ requests' = [requests EXCEPT ![r] =
                                  UpdateStatus(SetConfirmed(@, call[h].role), "active")]
                /\ books' = SetAvailability(requests[r].book, FALSE)
                /\ Return(h)
           ELSE Return(h) /\ UNCHANGED <<books, requests>>
    /\ UNCHANGED <<profile, threads, reminders>>

\* Mutant: the transaction forgets to take the book off the list.
ConfirmTxKeepsBook(h) ==
    /\ At(h, "confirm_tx")
    /\ LET r == call[h].request
           confirmed == SetConfirmed(requests[r], call[h].role)
       IN  IF Live(r)
           THEN /\ requests' = [requests EXCEPT ![r] =
                                  IF call[h].otherConfirmed
                                  THEN UpdateStatus(confirmed, "active")
                                  ELSE confirmed]
                /\ Goto(h, IF call[h].otherConfirmed THEN Idle
                           ELSE [step |-> "notify", request |-> r, role |-> call[h].role])
           ELSE Return(h) /\ UNCHANGED requests
    /\ UNCHANGED <<profile, books, threads, reminders>>

ConfirmTx(h) ==
    /\ At(h, "confirm_tx")
    /\ LET r == call[h].request
           confirmed == SetConfirmed(requests[r], call[h].role)
       IN  \/ /\ ~Live(r)                       \* ErrNotFound: rolled back
              /\ Return(h)
              /\ UNCHANGED <<books, requests>>
           \/ /\ Live(r)
              /\ call[h].otherConfirmed
              /\ requests' = [requests EXCEPT ![r] = UpdateStatus(confirmed, "active")]
              /\ books' = SetAvailability(requests[r].book, FALSE)
              /\ Return(h)
           \/ /\ Live(r)
              /\ ~call[h].otherConfirmed
              /\ requests' = [requests EXCEPT ![r] = confirmed]
              /\ Goto(h, [step |-> "notify", request |-> r, role |-> call[h].role])
              /\ UNCHANGED books
    /\ UNCHANGED <<profile, threads, reminders>>

\* Mutant: the reminder goes to the party that has just confirmed.
NotifyCaller(h) ==
    /\ At(h, "notify")
    /\ reminders' \in {reminders, reminders \cup {<<call[h].role, call[h].request>>}}
    /\ Return(h)
    /\ UNCHANGED <<profile, books, requests, threads>>

\* Best effort: the push may reach nobody.
NotifyOther(h) ==
    /\ At(h, "notify")
    /\ reminders' \in {reminders,
                       reminders \cup {<<OtherParty(call[h].role), call[h].request>>}}
    /\ Return(h)
    /\ UNCHANGED <<profile, books, requests, threads>>

-----------------------------------------------------------------------------
(***************************************************************************)
(* POST /requests/{id}/return: the owner has the book back.                *)
(***************************************************************************)

BeginReturn(h, u, r) ==
    /\ call[h] = Idle
    /\ Live(r)
    /\ u = Lender(r)
    /\ requests[r].status = "active"
    /\ Goto(h, [step |-> "return_tx", request |-> r])
    /\ UNCHANGED <<profile, books, requests, threads, reminders>>

\* Mutant: only the book is put back; the request stays active.
ReturnTxBookOnly(h) ==
    /\ At(h, "return_tx")
    /\ books' = IF Live(call[h].request)
                THEN SetAvailability(requests[call[h].request].book, TRUE)
                ELSE books
    /\ Return(h)
    /\ UNCHANGED <<profile, requests, threads, reminders>>

\* Mutant: the request is closed, but the book stays off the list.
ReturnTxStatusOnly(h) ==
    /\ At(h, "return_tx")
    /\ LET r == call[h].request
       IN  requests' = IF Live(r)
                       THEN [requests EXCEPT ![r] = UpdateStatus(@, "returned")]
                       ELSE requests
    /\ Return(h)
    /\ UNCHANGED <<profile, books, threads, reminders>>

ReturnTx(h) ==
    /\ At(h, "return_tx")
    /\ LET r == call[h].request
       IN  IF Live(r)
           THEN /\ requests' = [requests EXCEPT ![r] = UpdateStatus(@, "returned")]
                /\ books' = SetAvailability(requests[r].book, TRUE)
           ELSE UNCHANGED <<books, requests>>
    /\ Return(h)
    /\ UNCHANGED <<profile, threads, reminders>>

-----------------------------------------------------------------------------

BeginRequestCall(h) ==
    \E u \in Users :
      \/ \E b \in Books : BeginCreateRequest(h, u, b)
      \/ \E r \in RequestIds :
           \/ \E status \in {"accepted", "rejected"} : BeginUpdateStatus(h, u, r, status)
           \/ BeginConfirm(h, u, r)
           \/ BeginReturn(h, u, r)

RequestStep(h) ==
    \/ CheckPending(h)
    \/ InsertRequest(h)
    \/ CreateThread(h)
    \/ WriteStatus(h)
    \/ ConfirmTx(h)
    \/ NotifyOther(h)
    \/ ReturnTx(h)

=============================================================================
