------------------------------ MODULE Messages ------------------------------
(***************************************************************************)
(* internal/messages: the thread in which the two parties of a request     *)
(* arrange the handoff.  Threads and messages are documents in Firestore,  *)
(* beside the tables of Boibritto and outside their transactions.  The     *)
(* accept of module Requests creates the thread; POST                      *)
(* /threads/{id}/messages adds a message, then copies it to the thread as  *)
(* its preview, then pushes it to the other participant from a goroutine   *)
(* that nobody waits for.                                                  *)
(***************************************************************************)
EXTENDS Boibritto, Integers, Sequences

CONSTANTS
    Senders,        \* goroutines that can be in the middle of a send at once
    MessageIds      \* a bound on the messages sent; bodies are abstracted to ids

VARIABLES
    parties,    \* parties[r]: the two users of r, as handlers that read r know them
    thread,     \* thread[r]: document threads/r, or NoThread
    messages,   \* messages[r]: collection threads/r/messages, in the order of arrival
    sending,    \* sending[s]: next step and locals of goroutine s
    pushed      \* pushes that went out: to whom, and which message of which thread

chatVars == <<parties, thread, messages, sending, pushed>>

allVars == <<vars, chatVars>>

-----------------------------------------------------------------------------
(***************************************************************************)
(* Documents.                                                              *)
(***************************************************************************)

NoThread == [preview |-> "no thread"]
NoPreview == "no preview"

ThreadDocs == [participants : SUBSET Users, preview : MessageIds \cup {NoPreview}]

MessageDocs == [id : MessageIds, sender : Users]

ASSUME ChatAssumption == {NoPreview, NoThread.preview} \cap MessageIds = {}

Sends ==
    {Idle} \cup [step : {"add", "preview", "notify"}, request : RequestIds,
                 message : MessageDocs]

Stored(r) == {messages[r][i] : i \in DOMAIN messages[r]}

\* Every call sends a body of its own.
Fresh(m) ==
    /\ \A r \in RequestIds : \A stored \in Stored(r) : stored.id # m
    /\ \A s \in Senders : sending[s] # Idle => sending[s].message.id # m

-----------------------------------------------------------------------------
(***************************************************************************)
(* CreateThread, as the accept handler calls it.  Set replaces the whole   *)
(* document, a preview that is there included; the collection of messages  *)
(* below it stays.                                                         *)
(***************************************************************************)
CreateThreadDoc(h) ==
    LET r == call[h].request
    IN  /\ CreateThread(h)
        /\ \/ /\ threads' = threads \cup {r}
              /\ thread' = [thread EXCEPT ![r] = [participants |-> parties[r],
                                                  preview |-> NoPreview]]
           \/ threads' = threads /\ UNCHANGED thread
        /\ UNCHANGED <<messages, sending, pushed>>

-----------------------------------------------------------------------------
(***************************************************************************)
(* POST /threads/{id}/messages.                                            *)
(***************************************************************************)

\* Mutant: whether the caller is a participant is not checked.
BeginSendUnchecked(s, u, r, m) ==
    /\ sending[s] = Idle
    /\ thread[r] # NoThread
    /\ Fresh(m)
    /\ sending' = [sending EXCEPT ![s] =
                     [step |-> "add", request |-> r, message |-> [id |-> m, sender |-> u]]]
    /\ UNCHANGED <<thread, messages, pushed>>

\* The thread is there and lists the caller.
BeginSend(s, u, r, m) ==
    /\ sending[s] = Idle
    /\ thread[r] # NoThread
    /\ u \in thread[r].participants
    /\ Fresh(m)
    /\ sending' = [sending EXCEPT ![s] =
                     [step |-> "add", request |-> r, message |-> [id |-> m, sender |-> u]]]
    /\ UNCHANGED <<thread, messages, pushed>>

AtSend(s, step) == sending[s].step = step

SendNext(s, step) == sending' = [sending EXCEPT ![s].step = step]

\* Mutant: the error of Add is not looked at.
AddMessageUnchecked(s) ==
    /\ AtSend(s, "add")
    /\ \/ messages' = [messages EXCEPT ![sending[s].request] = Append(@, sending[s].message)]
       \/ UNCHANGED messages
    /\ SendNext(s, "preview")
    /\ UNCHANGED <<thread, pushed>>

AddMessage(s) ==
    /\ AtSend(s, "add")
    /\ messages' = [messages EXCEPT ![sending[s].request] = Append(@, sending[s].message)]
    /\ SendNext(s, "preview")
    /\ UNCHANGED <<thread, pushed>>

\* Mutant: Set without MergeAll.
SetPreviewReplacing(s) ==
    /\ AtSend(s, "preview")
    /\ thread' = [thread EXCEPT ![sending[s].request] =
                    [participants |-> {}, preview |-> sending[s].message.id]]
    /\ SendNext(s, "notify")
    /\ UNCHANGED <<messages, pushed>>

SetPreview(s) ==
    /\ AtSend(s, "preview")
    /\ thread' = [thread EXCEPT ![sending[s].request].preview = sending[s].message.id]
    /\ SendNext(s, "notify")
    /\ UNCHANGED <<messages, pushed>>

Push(s, u) ==
    [to |-> u, request |-> sending[s].request, message |-> sending[s].message]

\* The participants are read again.  When that fails the error is ignored
\* and the push is for user 0, who has no devices; it may also be lost.
NotifyOtherParticipant(s) ==
    /\ AtSend(s, "notify")
    /\ \E u \in thread[sending[s].request].participants \ {sending[s].message.sender} :
         pushed' \in {pushed, pushed \cup {Push(s, u)}}
    /\ sending' = [sending EXCEPT ![s] = Idle]
    /\ UNCHANGED <<thread, messages>>

\* As Abort: what was written stays, the rest is not done.
AbortSend(s) ==
    /\ sending[s] # Idle
    /\ sending' = [sending EXCEPT ![s] = Idle]
    /\ UNCHANGED <<thread, messages, pushed>>

SendStep(s) ==
    \/ \E u \in Users, r \in RequestIds, m \in MessageIds : BeginSend(s, u, r, m)
    \/ AddMessage(s)
    \/ SetPreview(s)
    \/ NotifyOtherParticipant(s)
    \/ AbortSend(s)

-----------------------------------------------------------------------------

ChatInit ==
    /\ Init
    /\ parties = [r \in RequestIds |-> {}]
    /\ thread = [r \in RequestIds |-> NoThread]
    /\ messages = [r \in RequestIds |-> << >>]
    /\ sending = [s \in Senders |-> Idle]
    /\ pushed = {}

\* Who a request is between is fixed when it is inserted, and a handler that
\* has read it still knows when the row is gone.
RememberParties ==
    parties' = [r \in RequestIds |->
                  IF Live(r)' THEN {Lender(r)', requests'[r].requester} ELSE parties[r]]

ServerStep ==
    \/ \E h \in Handlers : CreateThreadDoc(h)
    \/ /\ \/ \E h \in Handlers :
               Begin(h) \/ (Step(h) /\ ~At(h, "create_thread")) \/ Abort(h)
          \/ EditProfile
       /\ UNCHANGED <<thread, messages, sending, pushed>>

ChatNext ==
    \/ ServerStep /\ RememberParties
    \/ \E s \in Senders : SendStep(s) /\ UNCHANGED <<vars, parties>>

ChatSpec == ChatInit /\ [][ChatNext]_allVars

(***************************************************************************)
(* The same when no call is repeated while it is in flight, and two sends  *)
(* to one thread do not overlap.  The code does not enforce it: only the   *)
(* refinement below assumes it.                                            *)
(***************************************************************************)
SendsSerialised ==
    \A s, t \in Senders :
      s # t /\ sending[s] # Idle /\ sending[t] # Idle
        => sending[s].request # sending[t].request

SerialChatSpec == ChatInit /\ [][ChatNext /\ NoCallIsRepeated' /\ SendsSerialised']_allVars

-----------------------------------------------------------------------------
(***************************************************************************)
(* Types.                                                                  *)
(***************************************************************************)
ChatTypeOK ==
    /\ parties \in [RequestIds -> SUBSET Users]
    /\ thread \in [RequestIds -> ThreadDocs \cup {NoThread}]
    /\ messages \in [RequestIds -> Seq(MessageDocs)]
    /\ sending \in [Senders -> Sends]
    /\ pushed \subseteq [to : Users, request : RequestIds, message : MessageDocs]

(***************************************************************************)
(* Safety, for any interleaving.                                           *)
(***************************************************************************)

\* A thread is between the owner and the requester of its request, whatever
\* late accepts and preview writes do to the document.
ThreadIsBetweenParties ==
    \A r \in RequestIds :
      thread[r] # NoThread /\ Live(r)
        => thread[r].participants = {Lender(r), requests[r].requester}

\* Only the two of them have written in it, and nobody else is pushed a
\* message of it; nor is one of them, if it is not there or is one's own.
MessagesAreFromParties ==
    /\ \A r \in RequestIds : \A m \in Stored(r) : m.sender \in parties[r]
    /\ \A p \in pushed : /\ p.message \in Stored(p.request)
                         /\ p.to \in parties[p.request] \ {p.message.sender}

\* A preview is a message of its thread, at any moment: a send that is cut
\* off never shows what was not sent.
PreviewIsStored ==
    \A r \in RequestIds :
      thread[r].preview \in MessageIds => \E m \in Stored(r) : m.id = thread[r].preview

-----------------------------------------------------------------------------
(***************************************************************************)
(* Why they hold: a thread and what is in it are of a request that was     *)
(* made, and whose parties are fixed from then on.                         *)
(***************************************************************************)

\* An accept under way is of a request that was made, if it is still there.
AcceptsWhatWasMade ==
    \A h \in Handlers : At(h, "create_thread") => requests[call[h].request] # Unused

\* Handlers that read a request all read the same two parties.
PartiesAreFixed ==
    \A r \in RequestIds :
      /\ Live(r) => parties[r] = {Lender(r), requests[r].requester}
      /\ thread[r] # NoThread => thread[r].participants = parties[r] /\ requests[r] # Unused
      /\ thread[r] = NoThread => Stored(r) = {}

\* A send under way is by a party, into a thread that is there to stay, and
\* past its first step the message is stored.
SendIsOnTrack(s) ==
    sending[s] # Idle =>
      /\ thread[sending[s].request] # NoThread
      /\ sending[s].message.sender \in parties[sending[s].request]
      /\ ~AtSend(s, "add") => sending[s].message \in Stored(sending[s].request)

ChatIInv ==
    /\ ChatTypeOK
    /\ AcceptsWhatWasMade
    /\ PartiesAreFixed
    /\ MessagesAreFromParties
    /\ PreviewIsStored
    /\ \A s \in Senders : SendIsOnTrack(s)

-----------------------------------------------------------------------------
(***************************************************************************)
(* What a step may never do.                                               *)
(***************************************************************************)

\* The preview of r is the same message as before, or a later one.
PreviewForward(r) ==
    /\ thread[r].preview \in MessageIds
    /\ thread'[r].preview \in MessageIds
    => \E i, j \in DOMAIN messages'[r] :
         /\ messages'[r][i].id = thread[r].preview
         /\ messages'[r][j].id = thread'[r].preview
         /\ i <= j

\* A send writes its preview though another message has been stored in r
\* after its own.
OvertakenSend(s, r) ==
    /\ AtSend(s, "preview") /\ sending[s].request = r
    /\ sending'[s] # sending[s]
    /\ \E i \in DOMAIN messages[r] : messages[r][i] = sending[s].message /\ i < Len(messages[r])

\* The preview of a thread goes back to an earlier message only in a send that
\* was overtaken between its two writes: a send that was cut off, a late
\* accept or a send to another thread never takes it back.
PreviewGoesBackInARace ==
    [][\A r \in RequestIds : PreviewForward(r) \/ \E s \in Senders : OvertakenSend(s, r)]_allVars

-----------------------------------------------------------------------------
(***************************************************************************)
(* What calls and sends that do not overlap keep besides.                  *)
(***************************************************************************)

\* Every request has two different parties, a message is stored by one send
\* only, and the one a send is about to show is still the last of its thread.
PartiesAreTwo ==
    \A r \in RequestIds :
      requests[r] # Unused => \E u, v \in Users : u # v /\ parties[r] = {u, v}

MessagesAreDistinct ==
    /\ \A s, t \in Senders :
         s # t /\ sending[s] # Idle /\ sending[t] # Idle
           => sending[s].message.id # sending[t].message.id
    /\ \A s \in Senders :
         AtSend(s, "add") =>
           \A r \in RequestIds : \A m \in Stored(r) : m.id # sending[s].message.id

LastMessage(r) == messages[r][Len(messages[r])]

LatestIsShown ==
    \A s \in Senders :
      AtSend(s, "preview") =>
        /\ messages[sending[s].request] # << >>
        /\ LastMessage(sending[s].request) = sending[s].message

\* The inductive invariant of SerialChatSpec.
SerialChatIInv ==
    /\ SerialIInv
    /\ ChatIInv
    /\ SendsSerialised
    /\ PartiesAreTwo
    /\ MessagesAreDistinct
    /\ LatestIsShown

-----------------------------------------------------------------------------
(***************************************************************************)
(* The conversation as documented (module Conversation), read off the      *)
(* documents.                                                              *)
(***************************************************************************)

Standing(r) ==
    CASE requests[r].status \in {"accepted", "active", "returned"} -> "agreed"
      [] requests[r].status = "deleted" -> "gone"
      [] OTHER -> "open"

Talk == INSTANCE Conversation
          WITH Threads <- RequestIds,
               members <- [r \in RequestIds |->
                             IF thread[r] = NoThread THEN {} ELSE thread[r].participants],
               log <- messages,
               shown <- [r \in RequestIds |-> {thread[r].preview} \cap MessageIds],
               told <- pushed,
               standing <- [r \in RequestIds |-> Standing(r)]

\* Step by step, such calls and sends do what the documentation says of a
\* thread and nothing else: it is between two parties, is not opened anew
\* once the request is accepted, shows its last message whenever it shows a
\* new one, and pushes a message to nobody but the other party.
ImplementsConversation == Talk!ConversationSpec

-----------------------------------------------------------------------------
(***************************************************************************)
(* What the documentation promises, and the code does not keep.            *)
(***************************************************************************)

\* The preview of a thread never goes back to an earlier message.
PreviewMovesForward == [][\A r \in RequestIds : PreviewForward(r)]_allVars

\* A thread with messages to show does not lose its preview.
PreviewKeptStep(r) ==
    thread[r].preview \in MessageIds => thread'[r].preview \in MessageIds

PreviewIsKept == [][\A r \in RequestIds : PreviewKeptStep(r)]_allVars

=============================================================================
