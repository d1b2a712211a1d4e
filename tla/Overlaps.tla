------------------------------ MODULE Overlaps -------------------------------
(***************************************************************************)
(* What calls that overlap can do to each other.  Boibritto leaves a       *)
(* handler free to write what it decided on a read of long ago; here each  *)
(* step also records, in a history variable that restricts nothing, which  *)
(* goroutines have been overtaken, so that the harm of a stale read can be *)
(* told from the harm of a missing check.                                  *)
(***************************************************************************)
EXTENDS Boibritto

VARIABLE overtaken  \* goroutines that were overtaken since their call began

observedVars == <<vars, overtaken>>

\* Two calls on one request.
OnSameRequest(c, d) ==
    /\ "request" \in DOMAIN c \cap DOMAIN d
    /\ c.request = d.request

\* While g is in flight, h writes what the same call made twice writes; or h
\* writes to the request of g, and has itself been overtaken.
Overtakes(h, g) ==
    /\ h # g
    /\ call'[h] # call[h]
    /\ requests' # requests
    /\ \/ Repeats(call[h], call[g])
       \/ h \in overtaken /\ OnSameRequest(call[h], call[g])

Observe ==
    overtaken' = {g \in Handlers :
                    /\ call'[g] # Idle
                    /\ g \in overtaken \/ \E h \in Handlers : Overtakes(h, g)}

ObservedSpec == Init /\ overtaken = {} /\ [][Next /\ Observe]_observedVars

\* The step is one of a goroutine that has been overtaken.
ByOvertaken == \E h \in overtaken : call'[h] # call[h]

-----------------------------------------------------------------------------
\* What a goroutine read is still so when it writes, unless it was overtaken
\* by the same call, made a second time: an overlap of different calls (a
\* confirmation with a decision, a return with a confirmation, any of them
\* with a deletion) never leaves a handler with a wrong idea of its request.
StaleIsOvertaken ==
    \A h \in Handlers : ~ReadsAreFresh(call[h]) => h \in overtaken

\* A handoff that both parties confirmed is lost only in a handler that was
\* overtaken: two confirmations at once, each of which counts the other party
\* out, or two decisions.  A confirmation that was cut off and made again, or
\* that meets a deletion or another loan of the book, loses none.
ActivationIsLostInARace ==
    [][\A r \in RequestIds :
         ~ActivationLost(r) /\ ActivationLost(r)' => ByOvertaken]_vars

\* A student's second pending request for a book is only ever made by a
\* handler that was overtaken between HasPendingRequest and the INSERT.
PendingTwiceByARace ==
    [][\A r, q \in RequestIds :
         ~PendingTwice(r, q) /\ PendingTwice(r, q)' => ByOvertaken]_vars

\* Goroutine h has written what the owner of b asked for, and answers.
ByHand(h, b, available) ==
    /\ At(h, "update_book") /\ call[h].book = b /\ call[h].available = available
    /\ call'[h] = Idle

\* A book is left off the list with nobody to return it only by a handler that
\* was overtaken, or because its owner took it off by hand: also when it was
\* lent twice, relisted while it was away, or deleted with a call in flight.
StrandedByARace ==
    [][\A b \in Books :
         ~Stranded(b) /\ Stranded(b)' =>
           ByOvertaken \/ \E h \in Handlers : ByHand(h, b, FALSE)]_vars

\* Request r, which is for book b, changes from one status to another.
Moves(r, b, from, to) ==
    /\ requests[r].status = from /\ requests'[r].status = to
    /\ requests'[r].book = b

\* A listed book changes availability only in the transaction that takes a
\* request for it from accepted to active, or from active to returned, or
\* because its owner said so, or in a handler that was overtaken.
AvailabilityStep(b) ==
    /\ books[b] = "available" /\ books'[b] = "unavailable" =>
         \/ \E r \in RequestIds : Moves(r, b, "accepted", "active")
         \/ \E h \in Handlers : ByHand(h, b, FALSE)
         \/ ByOvertaken
    /\ books[b] = "unavailable" /\ books'[b] = "available" =>
         \/ \E r \in RequestIds : Moves(r, b, "active", "returned")
         \/ \E h \in Handlers : ByHand(h, b, TRUE)
         \/ ByOvertaken

AvailabilityFollowsStatus == [][\A b \in Books : AvailabilityStep(b)]_vars

=============================================================================
