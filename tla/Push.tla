-------------------------------- MODULE Push --------------------------------
(***************************************************************************)
(* internal/push: which device gets whose notification.  A student may     *)
(* have several devices, a device changes hands when somebody else signs   *)
(* in on it, and Send works through the tokens it read at its start, one   *)
(* call to FCM after another, while subscriptions come and go.             *)
(***************************************************************************)
CONSTANTS
    Users,      \* students
    Devices,    \* FCM tokens; a device keeps its token
    Senders,    \* goroutines that can be inside Send at once
    Faulty      \* tokens FCM refuses, for instance of an app that is gone

ASSUME PushAssumption == Faulty \subseteq Devices

VARIABLES
    subscriptions,  \* subscriptions[d]: user_id of the row with token d, or NoUser
    send,           \* send[s]: what goroutine s is doing, with the locals of Send
    ever,           \* ever[s]: devices that were the recipient's at some time since s began
    always          \* always[s]: devices that were the recipient's ever since s began

pushVars == <<subscriptions, send, ever, always>>

-----------------------------------------------------------------------------
(***************************************************************************)
(* push_subscriptions, whose token column is UNIQUE, and the goroutines.   *)
(* A goroutine with a caller works under that caller's context: it ends    *)
(* when the caller hangs up.                                               *)
(***************************************************************************)

NoUser == "no user"

IdleSend == [step |-> "idle"]

Sends ==
    {IdleSend}
      \cup [step : {"tokens", "loop", "returned"}, user : Users, todo : SUBSET Devices,
            delivered : SUBSET Devices, caller : BOOLEAN, cancelled : BOOLEAN]

Active(s) == send[s] # IdleSend

TokensIn(table, u) == {d \in Devices : table[d] = u}

TokensForUser(u) == TokensIn(subscriptions, u)

\* A statement leaves `table' behind, and the histories follow.
Write(table) ==
    /\ subscriptions' = table
    /\ ever' = [s \in Senders |->
                  IF Active(s) THEN ever[s] \cup TokensIn(table, send[s].user) ELSE ever[s]]
    /\ always' = [s \in Senders |->
                  IF Active(s) THEN always[s] \cap TokensIn(table, send[s].user) ELSE always[s]]
    /\ UNCHANGED send

-----------------------------------------------------------------------------
(***************************************************************************)
(* POST /push/subscribe and POST /push/unsubscribe.                        *)
(***************************************************************************)

\* ON CONFLICT (fcm_token) DO UPDATE: the row passes to whoever subscribes.
Subscribe(u, d) == Write([subscriptions EXCEPT ![d] = u])

\* By token alone: whoever holds it.
Unsubscribe(d) == Write([subscriptions EXCEPT ![d] = NoUser])

-----------------------------------------------------------------------------
(***************************************************************************)
(* Send.                                                                   *)
(***************************************************************************)

\* NotifyHandoffConfirmationNeeded is called under the request's context,
\* NotifyNewMessage from a goroutine with a context of its own.
BeginSend(s, u, underRequest) ==
    /\ send[s] = IdleSend
    /\ send' = [send EXCEPT ![s] = [step |-> "tokens", user |-> u, todo |-> {},
                                    delivered |-> {}, caller |-> underRequest,
                                    cancelled |-> FALSE]]
    /\ ever' = [ever EXCEPT ![s] = TokensForUser(u)]
    /\ always' = [always EXCEPT ![s] = TokensForUser(u)]
    /\ UNCHANGED subscriptions

HangUp(s) ==
    /\ send[s].step \in {"tokens", "loop"}
    /\ send[s].caller /\ ~send[s].cancelled
    /\ send' = [send EXCEPT ![s].cancelled = TRUE]
    /\ UNCHANGED <<subscriptions, ever, always>>

Move(s, call) ==
    /\ send' = [send EXCEPT ![s] = call]
    /\ UNCHANGED <<subscriptions, ever, always>>

\* Mutant: the query has lost its WHERE.
ReadTokensOfAll(s) ==
    /\ send[s].step = "tokens"
    /\ Move(s, [send[s] EXCEPT !.step = "loop",
                               !.todo = {d \in Devices : subscriptions[d] # NoUser}])

\* One statement, hence one snapshot of the table.
ReadTokens(s) ==
    /\ send[s].step = "tokens"
    /\ ~send[s].cancelled
    /\ Move(s, [send[s] EXCEPT !.step = "loop", !.todo = TokensForUser(send[s].user)])

\* The query fails, and Send returns its error.
FailTokens(s) ==
    /\ send[s].step = "tokens"
    /\ Move(s, IdleSend)

Accepts(s, d) == d \notin Faulty /\ ~send[s].cancelled

\* Mutant: the first error ends the loop.
TryDeviceOrReturn(s) ==
    /\ send[s].step = "loop"
    /\ \E d \in send[s].todo :
         IF Accepts(s, d)
         THEN Move(s, [send[s] EXCEPT !.todo = @ \ {d}, !.delivered = @ \cup {d}])
         ELSE Move(s, [send[s] EXCEPT !.todo = {}])

\* The rows come in any order; an error is logged and the loop goes on.
TryDevice(s) ==
    /\ send[s].step = "loop"
    /\ \E d \in send[s].todo :
         Move(s, [send[s] EXCEPT !.todo = @ \ {d},
                                 !.delivered = IF Accepts(s, d) THEN @ \cup {d} ELSE @])

Return(s) ==
    /\ send[s].step = "loop"
    /\ send[s].todo = {}
    /\ Move(s, [send[s] EXCEPT !.step = "returned"])

\* The goroutine answers its caller, or just ends.
Finish(s) ==
    /\ send[s].step = "returned"
    /\ Move(s, IdleSend)

-----------------------------------------------------------------------------

PushInit ==
    /\ subscriptions = [d \in Devices |-> NoUser]
    /\ send = [s \in Senders |-> IdleSend]
    /\ ever = [s \in Senders |-> {}]
    /\ always = [s \in Senders |-> {}]

SendStep(s) == ReadTokens(s) \/ FailTokens(s) \/ TryDevice(s) \/ Return(s) \/ Finish(s)

PushNext ==
    \/ \E d \in Devices : Unsubscribe(d) \/ \E u \in Users : Subscribe(u, d)
    \/ \E s \in Senders :
         \/ SendStep(s)
         \/ HangUp(s)
         \/ \E u \in Users, underRequest \in BOOLEAN : BeginSend(s, u, underRequest)

PushSpec == PushInit /\ [][PushNext]_pushVars

(***************************************************************************)
(* Fairness: the runtime schedules every goroutine, and a call to FCM      *)
(* ends, with an error or without.                                         *)
(***************************************************************************)
FairPushSpec == PushSpec /\ \A s \in Senders : WF_pushVars(SendStep(s))

-----------------------------------------------------------------------------

PushTypeOK ==
    /\ subscriptions \in [Devices -> Users \cup {NoUser}]
    /\ send \in [Senders -> Sends]
    /\ ever \in [Senders -> SUBSET Devices]
    /\ always \in [Senders -> SUBSET Devices]

\* A push is shown only by a device that was its recipient's at some time
\* while Send ran: a device that had been handed on before is left alone.
OnlyTheirDevices == \A s \in Senders : Active(s) => send[s].delivered \subseteq ever[s]

\* When Send returns to a caller who is still there, every device that was
\* the recipient's all the while has the push, whatever happened to the
\* recipient's other devices and whoever subscribed meanwhile.
OthersAreReached ==
    \A s \in Senders :
      send[s].step = "returned" /\ ~send[s].cancelled
        => always[s] \ Faulty \subseteq send[s].delivered

\* The inductive invariant of the proofs: what is left to try was the
\* recipient's when it was read, and no device that stayed is forgotten.
SendIsOnTrack(s) ==
    /\ always[s] \subseteq TokensForUser(send[s].user)
    /\ TokensForUser(send[s].user) \subseteq ever[s]
    /\ send[s].todo \cup send[s].delivered \subseteq ever[s]
    /\ send[s].step \in {"loop", "returned"} /\ ~send[s].cancelled
         => always[s] \ Faulty \subseteq send[s].todo \cup send[s].delivered
    /\ send[s].step = "returned" => send[s].todo = {}

PushIInv ==
    /\ PushTypeOK
    /\ \A s \in Senders : Active(s) => SendIsOnTrack(s)

\* A device that is about to be tried gets its push before Send ends, unless
\* the caller hangs up meanwhile: no device before it, whatever FCM says of it,
\* keeps it waiting for ever or ends the loop.
DevicesAreServed ==
    \A s \in Senders, d \in Devices \ Faulty :
      (send[s].step = "loop" /\ d \in send[s].todo /\ ~send[s].cancelled)
        ~> (Active(s) /\ (d \in send[s].delivered \/ send[s].cancelled))

-----------------------------------------------------------------------------
(***************************************************************************)
(* What the documentation promises, and the code does not keep.            *)
(***************************************************************************)

\* Send delivers to every device registered for the user.
EveryDeviceIsReached ==
    \A s \in Senders :
      send[s].step = "returned" => always[s] \ Faulty \subseteq send[s].delivered

=============================================================================
