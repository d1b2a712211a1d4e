---------------------------- MODULE MessagesProofs ----------------------------
(***************************************************************************)
(* Proofs of the safety properties of Messages, for any number of          *)
(* students, requests, goroutines and messages.                            *)
(*                                                                         *)
(* A step of the chat is a step of Boibritto or leaves its tables alone,   *)
(* so the tables grow only as BoibrittoProofs says: a request that was     *)
(* made keeps its book and requester, and with them its two parties.       *)
(* ChatIInv says what follows from that for threads, messages and pushes.  *)
(*                                                                         *)
(* A send shows a message that is stored (SendIsOnTrack): the preview goes *)
(* back only if another was stored after it.                               *)
(*                                                                         *)
(* Where no call is repeated and sends to a thread do not overlap,         *)
(* SerialChatIInv adds that whoever is about to show a message has written *)
(* the last one, so every step is one of the abstract conversation or      *)
(* leaves it alone.                                                        *)
(***************************************************************************)
EXTENDS Messages, BoibrittoProofs

-----------------------------------------------------------------------------
(***************************************************************************)
(* Shapes.                                                                 *)
(***************************************************************************)

\* The locals of a send that has come to its next step.
Advanced(c, step) == [c EXCEPT !.step = step]

\* A send under way has its locals.
LEMMA SendShape ==
    ASSUME NEW c \in Sends, c # Idle
    PROVE  /\ c.step \in {"add", "preview", "notify"}
           /\ c.request \in RequestIds
           /\ c.message \in MessageDocs
           /\ c.message.sender \in Users
           /\ c.message.id \in MessageIds
           /\ \A step \in {"preview", "notify"} :
                /\ Advanced(c, step) \in Sends
                /\ Advanced(c, step) # Idle
                /\ Advanced(c, step).step = step
                /\ Advanced(c, step).request = c.request
                /\ Advanced(c, step).message = c.message
  BY DEF Sends, Idle, MessageDocs, Advanced

\* A goroutine at a step of a send is in a send.
LEMMA SendAt ==
    ASSUME NEW s \in Senders, NEW step \in {"add", "preview", "notify"}, AtSend(s, step)
    PROVE  sending[s] # Idle
  BY DEF AtSend, Idle

\* A thread that is there has participants and a preview.
LEMMA ThreadShape ==
    /\ NoThread \notin ThreadDocs
    /\ NoThread.preview \notin MessageIds
    /\ NoPreview \notin MessageIds
    /\ \A doc \in ThreadDocs : doc.participants \subseteq Users
<1>1. NoThread.preview \notin MessageIds /\ NoPreview \notin MessageIds
  BY ChatAssumption
<1>2. NoThread \notin ThreadDocs
  <2>1. DOMAIN NoThread = {"preview"}
    BY DEF NoThread
  <2>2. \A doc \in ThreadDocs : DOMAIN doc = {"participants", "preview"}
    BY DEF ThreadDocs
  <2> QED
    BY <2>1, <2>2
<1> QED
  BY <1>1, <1>2 DEF ThreadDocs

\* A collection that is appended to has one element more.
LEMMA AppendStored ==
    \A seq \in Seq(MessageDocs), m \in MessageDocs :
      /\ Append(seq, m) \in Seq(MessageDocs)
      /\ {Append(seq, m)[i] : i \in DOMAIN Append(seq, m)}
           = {seq[i] : i \in DOMAIN seq} \cup {m}
<1> TAKE seq \in Seq(MessageDocs), m \in MessageDocs
<1>1. /\ Append(seq, m) \in Seq(MessageDocs)
      /\ DOMAIN seq = 1..Len(seq) /\ Len(seq) \in Nat
      /\ DOMAIN Append(seq, m) = 1..(Len(seq) + 1)
      /\ \A i \in 1..Len(seq) : Append(seq, m)[i] = seq[i]
      /\ Append(seq, m)[Len(seq) + 1] = m
  OBVIOUS
<1>2. 1..(Len(seq) + 1) = (1..Len(seq)) \cup {Len(seq) + 1}
  BY <1>1
<1> QED
  BY <1>1, <1>2

-----------------------------------------------------------------------------
(***************************************************************************)
(* Requests and their parties.                                             *)
(***************************************************************************)

\* What a step of the chat is to the tables.
LEMMA ServerSteps ==
    ASSUME ServerStep PROVE Next
<1>1. ASSUME NEW h \in Handlers, CreateThreadDoc(h) PROVE Next
  BY <1>1 DEF CreateThreadDoc, Next, Step, RequestStep
<1> QED
  BY <1>1 DEF ServerStep, Next

\* A goroutine that moves on to create a thread has read the request.
MovesProperly(h) ==
    \E c \in Calls :
      /\ Goto(h, c)
      /\ c.step = "create_thread" => requests[c.request] # Unused

LEMMA StepsMoveProperly ==
    ASSUME IInv, NEW h \in Handlers, Begin(h) \/ Step(h) \/ Abort(h)
    PROVE  MovesProperly(h)
<1>1. TypeOK /\ call[h] \in Calls
  BY DEF IInv, TypeOK
<1>2. CASE Goto(h, Idle)
  BY <1>2, NewCalls DEF MovesProperly, Idle
<1>3. ASSUME NEW c \in Calls, Goto(h, c), c.step # "create_thread" PROVE MovesProperly(h)
  BY <1>3 DEF MovesProperly
<1>4. ASSUME NEW u \in Users, NEW b \in Books, BeginCreateRequest(h, u, b)
      PROVE  MovesProperly(h)
  BY <1>3, <1>4, NewCalls DEF BeginCreateRequest
<1>5. ASSUME NEW u \in Users, NEW r \in RequestIds, NEW status \in {"accepted", "rejected"},
             BeginUpdateStatus(h, u, r, status)
      PROVE  MovesProperly(h)
  <2>1. requests[r] # Unused
    BY <1>1, <1>5, LiveRow DEF BeginUpdateStatus
  <2>2. \/ Goto(h, [step |-> "create_thread", request |-> r, status |-> status])
        \/ Goto(h, [step |-> "update_status", request |-> r, status |-> status])
    BY <1>5 DEF BeginUpdateStatus
  <2> QED
    BY <2>1, <2>2, NewCalls DEF MovesProperly
<1>6. ASSUME NEW u \in Users, NEW r \in RequestIds, BeginConfirm(h, u, r)
      PROVE  MovesProperly(h)
  <2>1. PartyOf(u, r) \in Roles
    BY DEF PartyOf, Roles
  <2>2. (OtherParty(PartyOf(u, r)) \in requests[r].confirmed) \in BOOLEAN
    OBVIOUS
  <2> QED
    BY <1>3, <1>6, <2>1, <2>2, NewCalls DEF BeginConfirm
<1>7. ASSUME NEW u \in Users, NEW r \in RequestIds, BeginReturn(h, u, r)
      PROVE  MovesProperly(h)
  BY <1>3, <1>7, NewCalls DEF BeginReturn
<1>8. ASSUME BeginCatalogCall(h) PROVE MovesProperly(h)
  BY <1>3, <1>8, NewCalls, TablesAssumption
     DEF BeginCatalogCall, BeginCreateBook, BeginUpdateBook, BeginDeleteBook
<1>9. CASE CheckPending(h)
  BY <1>1, <1>2, <1>3, <1>9, CallShape DEF CheckPending, At
<1>10. CASE CreateThread(h)
  BY <1>1, <1>3, <1>10, CallShape DEF CreateThread, At
<1>11. CASE ConfirmTx(h)
  <2>1. call[h].request \in RequestIds /\ call[h].role \in Roles
    BY <1>1, <1>11, CallShape DEF ConfirmTx, At
  <2>2. \/ Goto(h, Idle)
        \/ Goto(h, [step |-> "notify", request |-> call[h].request, role |-> call[h].role])
    BY <1>11 DEF ConfirmTx, Return
  <2> QED
    BY <1>2, <1>3, <2>1, <2>2, NewCalls
<1>12. CASE \/ InsertRequest(h) \/ WriteStatus(h) \/ NotifyOther(h) \/ ReturnTx(h)
            \/ CatalogStep(h) \/ Abort(h)
  BY <1>2, <1>12 DEF InsertRequest, WriteStatus, NotifyOther, ReturnTx, CatalogStep,
     InsertBook, UpdateBook, DeleteBook, Abort, Return
<1> QED
  BY <1>4, <1>5, <1>6, <1>7, <1>8, <1>9, <1>10, <1>11, <1>12
     DEF Begin, BeginRequestCall, Step, RequestStep

\* No step of the server makes AcceptsWhatWasMade false.
LEMMA AcceptsStayProper ==
    ASSUME IInv, AcceptsWhatWasMade, Next
    PROVE  AcceptsWhatWasMade'
<1>1. TypeOK /\ TablesGrow
  BY NextGrows DEF IInv
<1>2. \A r \in RequestIds : requests[r] # Unused => requests'[r] # Unused
  BY <1>1 DEF TablesGrow, RowGrows
<1>3. CASE EditProfile
  BY <1>3 DEF EditProfile, UpdateProfile, AcceptsWhatWasMade, At
<1>4. ASSUME NEW h \in Handlers, Begin(h) \/ Step(h) \/ Abort(h) PROVE AcceptsWhatWasMade'
  <2>1. PICK c \in Calls : /\ Goto(h, c)
                           /\ c.step = "create_thread" => requests[c.request] # Unused
    BY <1>4, StepsMoveProperly DEF MovesProperly
  <2>2. ASSUME NEW g \in Handlers, call'[g].step = "create_thread"
        PROVE  requests'[call'[g].request] # Unused
    <3>1. call'[g] \in Calls /\ (g = h => call'[g] = c) /\ (g # h => call'[g] = call[g])
      BY <1>1, <2>1, GotoOne
    <3>2. requests[call'[g].request] # Unused
      BY <2>1, <2>2, <3>1 DEF AcceptsWhatWasMade, At
    <3>3. call'[g].request \in RequestIds
      BY <2>2, <3>1, CallShape
    <3> QED
      BY <1>2, <3>2, <3>3
  <2> QED
    BY <2>2 DEF AcceptsWhatWasMade, At
<1> QED
  BY <1>3, <1>4 DEF Next

\* Who a request is between does not change once it is made.
LEMMA PartiesStay ==
    ASSUME IInv, Next, RememberParties, parties \in [RequestIds -> SUBSET Users],
           \A r \in RequestIds : Live(r) => parties[r] = {Lender(r), requests[r].requester}
    PROVE  /\ parties' \in [RequestIds -> SUBSET Users]
           /\ \A r \in RequestIds :
                /\ Live(r)' => parties'[r] = {Lender(r)', requests'[r].requester}
                /\ requests[r] # Unused => parties'[r] = parties[r] /\ requests'[r] # Unused
<1>1. TypeOK /\ TypeOK' /\ TablesGrow
  BY NextIInv, NextGrows DEF IInv
<1>2. ASSUME NEW r \in RequestIds, Live(r)'
      PROVE  /\ parties'[r] = {Lender(r)', requests'[r].requester}
             /\ parties'[r] \subseteq Users
  <2>1. parties'[r] = {Lender(r)', requests'[r].requester}
    BY <1>2 DEF RememberParties
  <2>2. requests'[r].book \in Books /\ requests'[r].requester \in Users
    BY <1>1, <1>2, LiveRowNext
  <2>3. Lender(r)' \in Users
    BY <2>2, TablesAssumption DEF Lender
  <2> QED
    BY <2>1, <2>2, <2>3
<1>3. ASSUME NEW r \in RequestIds, ~Live(r)' PROVE parties'[r] = parties[r]
  BY <1>3 DEF RememberParties
<1>4. DOMAIN parties' = RequestIds /\ parties' = [r \in RequestIds |-> parties'[r]]
  BY DEF RememberParties
<1>5. \A r \in RequestIds : parties'[r] \in SUBSET Users
  BY <1>2, <1>3
<1>6. parties' \in [RequestIds -> SUBSET Users]
  BY <1>4, <1>5
<1>7. ASSUME NEW r \in RequestIds, requests[r] # Unused
      PROVE  parties'[r] = parties[r] /\ requests'[r] # Unused
  <2>1. RowGrows(r)
    BY <1>1 DEF TablesGrow
  <2>2. CASE Live(r)'
    <3>1. /\ Live(r)
          /\ requests'[r].book = requests[r].book
          /\ requests'[r].requester = requests[r].requester
      BY <1>7, <2>1, <2>2 DEF RowGrows
    <3>2. parties'[r] = {Lender(r)', requests'[r].requester}
      BY <1>2, <2>2
    <3>3. Lender(r)' = Lender(r)
      BY <3>1 DEF Lender
    <3> QED
      BY <1>7, <2>1, <3>1, <3>2, <3>3 DEF RowGrows
  <2>3. CASE ~Live(r)'
    BY <1>3, <1>7, <2>1, <2>3 DEF RowGrows
  <2> QED
    BY <2>2, <2>3
<1> QED
  BY <1>2, <1>6, <1>7

-----------------------------------------------------------------------------
(***************************************************************************)
(* Steps of the server.                                                    *)
(***************************************************************************)

\* A step that writes nothing in Firestore keeps the invariant.
LEMMA TablesOnlyKeepsChat ==
    ASSUME IInv, ChatIInv, Next, RememberParties,
           UNCHANGED <<thread, messages, sending, pushed>>
    PROVE  ChatIInv'
<1>1. /\ parties' \in [RequestIds -> SUBSET Users]
      /\ \A r \in RequestIds :
           /\ Live(r)' => parties'[r] = {Lender(r)', requests'[r].requester}
           /\ requests[r] # Unused => parties'[r] = parties[r] /\ requests'[r] # Unused
  BY PartiesStay DEF ChatIInv, ChatTypeOK, PartiesAreFixed
<1>2. ChatTypeOK'
  BY <1>1 DEF ChatIInv, ChatTypeOK
<1>3. AcceptsWhatWasMade'
  BY AcceptsStayProper DEF ChatIInv
<1>4. \A r \in RequestIds : Stored(r)' = Stored(r)
  BY DEF Stored
<1>5. \A r \in RequestIds : thread[r] # NoThread => parties'[r] = parties[r]
  BY <1>1 DEF ChatIInv, PartiesAreFixed
<1>6. PartiesAreFixed'
  BY <1>1, <1>4 DEF ChatIInv, PartiesAreFixed
<1>7. \A r \in RequestIds : Stored(r) # {} => parties'[r] = parties[r]
  BY <1>5 DEF ChatIInv, PartiesAreFixed
<1>8. MessagesAreFromParties'
  <2>1. \A r \in RequestIds : \A m \in Stored(r)' : m.sender \in parties'[r]
    BY <1>4, <1>7 DEF ChatIInv, MessagesAreFromParties
  <2>2. ASSUME NEW p \in pushed
        PROVE  p.message \in Stored(p.request)' /\ p.to \in parties'[p.request] \ {p.message.sender}
    <3>1. p.request \in RequestIds
      BY DEF ChatIInv, ChatTypeOK
    <3> QED
      BY <1>4, <1>7, <3>1 DEF ChatIInv, MessagesAreFromParties
  <2> QED
    BY <2>1, <2>2 DEF MessagesAreFromParties
<1>9. PreviewIsStored'
  BY <1>4 DEF ChatIInv, PreviewIsStored
<1>10. ASSUME NEW s \in Senders PROVE SendIsOnTrack(s)'
  <2>1. sending[s] # Idle => sending[s].request \in RequestIds
    BY SendShape DEF ChatIInv, ChatTypeOK
  <2> QED
    BY <1>4, <1>5, <2>1 DEF ChatIInv, SendIsOnTrack, AtSend
<1> QED
  BY <1>2, <1>3, <1>6, <1>8, <1>9, <1>10 DEF ChatIInv

\* An accept that replaces a thread's document gives it the same parties, and
\* leaves the messages below it.
LEMMA CreateThreadKeepsChat ==
    ASSUME IInv, ChatIInv, NEW h \in Handlers, CreateThreadDoc(h), RememberParties
    PROVE  ChatIInv'
<1> DEFINE q == call[h].request
           doc == [participants |-> parties[q], preview |-> NoPreview]
<1>1. Next
  BY DEF CreateThreadDoc, Next, Step, RequestStep
<1>2. CASE UNCHANGED thread
  BY <1>1, <1>2, TablesOnlyKeepsChat DEF CreateThreadDoc
<1>3. CASE thread' = [thread EXCEPT ![q] = doc]
  <2>1. q \in RequestIds /\ requests[q] # Unused
    BY CallShape DEF IInv, TypeOK, CreateThreadDoc, CreateThread, At, ChatIInv, AcceptsWhatWasMade
  <2>2. UNCHANGED <<requests, messages, sending, pushed>>
    BY DEF CreateThreadDoc, CreateThread
  <2>3. /\ parties' \in [RequestIds -> SUBSET Users]
        /\ \A r \in RequestIds :
             /\ Live(r)' => parties'[r] = {Lender(r)', requests'[r].requester}
             /\ requests[r] # Unused => parties'[r] = parties[r] /\ requests'[r] # Unused
    BY <1>1, PartiesStay DEF ChatIInv, ChatTypeOK, PartiesAreFixed
  <2>4. doc \in ThreadDocs /\ doc # NoThread
    <3>1. parties[q] \in SUBSET Users
      BY <2>1 DEF ChatIInv, ChatTypeOK
    <3>2. doc \in ThreadDocs
      BY <3>1 DEF ThreadDocs
    <3> QED
      BY <3>2, ThreadShape
  <2>5. /\ thread' \in [RequestIds -> ThreadDocs \cup {NoThread}]
        /\ thread'[q] = doc
        /\ \A r \in RequestIds : r # q => thread'[r] = thread[r]
    BY <1>3, <2>1, <2>4 DEF ChatIInv, ChatTypeOK
  <2>6. \A r \in RequestIds : Stored(r)' = Stored(r)
    BY <2>2 DEF Stored
  <2>7. \A r \in RequestIds : thread[r] # NoThread => parties'[r] = parties[r] /\ thread'[r] # NoThread
    BY <2>3, <2>4, <2>5 DEF ChatIInv, PartiesAreFixed
  <2>8. ChatTypeOK'
    BY <2>2, <2>3, <2>5 DEF ChatIInv, ChatTypeOK
  <2>9. AcceptsWhatWasMade'
    BY <1>1, AcceptsStayProper DEF ChatIInv
  <2>10. PartiesAreFixed'
    <3>1. ASSUME NEW r \in RequestIds
          PROVE  /\ Live(r)' => parties'[r] = {Lender(r)', requests'[r].requester}
                 /\ thread'[r] # NoThread =>
                      thread'[r].participants = parties'[r] /\ requests'[r] # Unused
                 /\ thread'[r] = NoThread => Stored(r)' = {}
      <4>1. CASE r = q
        BY <2>1, <2>3, <2>4, <2>5, <4>1
      <4>2. CASE r # q
        BY <2>3, <2>5, <2>6, <4>2 DEF ChatIInv, PartiesAreFixed
      <4> QED
        BY <4>1, <4>2
    <3> QED
      BY <3>1 DEF PartiesAreFixed
  <2>11. \A r \in RequestIds : Stored(r) # {} => parties'[r] = parties[r]
    BY <2>7 DEF ChatIInv, PartiesAreFixed
  <2>12. MessagesAreFromParties'
    <3>1. \A r \in RequestIds : \A m \in Stored(r)' : m.sender \in parties'[r]
      BY <2>6, <2>11 DEF ChatIInv, MessagesAreFromParties
    <3>2. ASSUME NEW p \in pushed
          PROVE  /\ p.message \in Stored(p.request)'
                 /\ p.to \in parties'[p.request] \ {p.message.sender}
      <4>1. p.request \in RequestIds
        BY DEF ChatIInv, ChatTypeOK
      <4> QED
        BY <2>6, <2>11, <4>1 DEF ChatIInv, MessagesAreFromParties
    <3> QED
      BY <2>2, <3>1, <3>2 DEF MessagesAreFromParties
  <2>13. PreviewIsStored'
    <3>1. thread'[q].preview \notin MessageIds
      BY <2>5, ThreadShape
    <3> QED
      BY <2>5, <2>6, <3>1 DEF ChatIInv, PreviewIsStored
  <2>14. ASSUME NEW s \in Senders PROVE SendIsOnTrack(s)'
    <3>1. sending[s] # Idle => sending[s].request \in RequestIds
      BY SendShape DEF ChatIInv, ChatTypeOK
    <3> QED
      BY <2>2, <2>6, <2>7, <3>1 DEF ChatIInv, SendIsOnTrack, AtSend
  <2> QED
    BY <2>8, <2>9, <2>10, <2>12, <2>13, <2>14 DEF ChatIInv
<1> QED
  BY <1>2, <1>3 DEF CreateThreadDoc

-----------------------------------------------------------------------------
(***************************************************************************)
(* Steps of a send: the tables, and so the parties, stay as they are.      *)
(***************************************************************************)

\* A goroutine that goes on, and the others that stay where they are.
LEMMA SendGoesOn ==
    ASSUME ChatTypeOK, NEW s \in Senders, NEW c \in Sends,
           sending' = [sending EXCEPT ![s] = c]
    PROVE  /\ sending' \in [Senders -> Sends]
           /\ sending'[s] = c
           /\ \A t \in Senders : t # s => sending'[t] = sending[t]
  BY DEF ChatTypeOK

\* What a send keeps in order: it is enough to look at the documents, the
\* pushes and its own locals.
LEMMA SendKeepsChat ==
    ASSUME ChatIInv, NEW s \in Senders, NEW c \in Sends,
           sending' = [sending EXCEPT ![s] = c],
           UNCHANGED vars, UNCHANGED parties,
           thread' \in [RequestIds -> ThreadDocs \cup {NoThread}],
           messages' \in [RequestIds -> Seq(MessageDocs)],
           pushed' \subseteq [to : Users, request : RequestIds, message : MessageDocs],
           \A r \in RequestIds :
             /\ thread[r] = NoThread => thread'[r] = NoThread /\ Stored(r)' = {}
             /\ thread[r] # NoThread =>
                  thread'[r] # NoThread /\ thread'[r].participants = thread[r].participants
             /\ Stored(r) \subseteq Stored(r)'
             /\ \A m \in Stored(r)' : m.sender \in parties[r],
           \A p \in pushed' : /\ p.message \in Stored(p.request)'
                              /\ p.to \in parties[p.request] \ {p.message.sender},
           PreviewIsStored',
           SendIsOnTrack(s)'
    PROVE  ChatIInv'
<1>1. UNCHANGED <<requests, call>>
  BY DEF vars
<1>2. ChatTypeOK
  BY DEF ChatIInv
<1>3. ChatTypeOK'
  BY <1>2, SendGoesOn DEF ChatTypeOK
<1>4. AcceptsWhatWasMade'
  BY <1>1 DEF ChatIInv, AcceptsWhatWasMade, At
<1>5. PartiesAreFixed'
  BY <1>1 DEF ChatIInv, PartiesAreFixed, Live, Lender
<1>6. MessagesAreFromParties'
  BY DEF MessagesAreFromParties
<1>7. ASSUME NEW t \in Senders PROVE SendIsOnTrack(t)'
  <2>1. CASE t = s
    BY <2>1
  <2>2. CASE t # s
    <3>1. sending'[t] = sending[t]
      BY <1>2, <2>2, SendGoesOn
    <3>2. sending[t] # Idle => sending[t].request \in RequestIds
      BY <1>2, SendShape DEF ChatTypeOK
    <3> QED
      BY <3>1, <3>2 DEF ChatIInv, SendIsOnTrack, AtSend
  <2> QED
    BY <2>1, <2>2
<1> QED
  BY <1>3, <1>4, <1>5, <1>6, <1>7 DEF ChatIInv

\* The caller is a participant, and so one of the two parties.
LEMMA BeginSendKeepsChat ==
    ASSUME ChatIInv, NEW s \in Senders, NEW u \in Users, NEW r \in RequestIds,
           NEW m \in MessageIds, BeginSend(s, u, r, m), UNCHANGED vars, UNCHANGED parties
    PROVE  ChatIInv'
<1> DEFINE message == [id |-> m, sender |-> u]
           c == [step |-> "add", request |-> r, message |-> message]
<1>1. c \in Sends /\ ChatTypeOK
  BY DEF Sends, MessageDocs, ChatIInv
<1>2. sending' = [sending EXCEPT ![s] = c] /\ UNCHANGED <<thread, messages, pushed>>
  BY DEF BeginSend
<1>3. sending'[s] = c
  BY <1>1, <1>2, SendGoesOn
<1>4. u \in parties[r] /\ thread[r] # NoThread
  BY DEF BeginSend, ChatIInv, PartiesAreFixed
<1>5. SendIsOnTrack(s)'
  BY <1>2, <1>3, <1>4 DEF SendIsOnTrack, AtSend
<1>6. \A q \in RequestIds : Stored(q)' = Stored(q)
  BY <1>2 DEF Stored
<1>7. PreviewIsStored'
  BY <1>2, <1>6 DEF ChatIInv, PreviewIsStored
<1>8. /\ thread' \in [RequestIds -> ThreadDocs \cup {NoThread}]
      /\ messages' \in [RequestIds -> Seq(MessageDocs)]
      /\ pushed' \subseteq [to : Users, request : RequestIds, message : MessageDocs]
  BY <1>1, <1>2 DEF ChatTypeOK
<1>9. ASSUME NEW q \in RequestIds
      PROVE  /\ thread[q] = NoThread => thread'[q] = NoThread /\ Stored(q)' = {}
             /\ thread[q] # NoThread =>
                  thread'[q] # NoThread /\ thread'[q].participants = thread[q].participants
             /\ Stored(q) \subseteq Stored(q)'
             /\ \A n \in Stored(q)' : n.sender \in parties[q]
  BY <1>2, <1>6 DEF ChatIInv, PartiesAreFixed, MessagesAreFromParties
<1>10. ASSUME NEW p \in pushed'
       PROVE  /\ p.message \in Stored(p.request)'
              /\ p.to \in parties[p.request] \ {p.message.sender}
  BY <1>1, <1>2, <1>6 DEF ChatIInv, MessagesAreFromParties, ChatTypeOK
<1> QED
  BY <1>1, <1>2, <1>5, <1>7, <1>8, <1>9, <1>10, SendKeepsChat

\* A send that ends early leaves what it has written.
LEMMA AbortSendKeepsChat ==
    ASSUME ChatIInv, NEW s \in Senders, AbortSend(s), UNCHANGED vars, UNCHANGED parties
    PROVE  ChatIInv'
<1>1. Idle \in Sends /\ ChatTypeOK
  BY DEF Sends, ChatIInv
<1>2. sending' = [sending EXCEPT ![s] = Idle] /\ UNCHANGED <<thread, messages, pushed>>
  BY DEF AbortSend
<1>3. SendIsOnTrack(s)'
  BY <1>1, <1>2, SendGoesOn DEF SendIsOnTrack
<1>4. \A q \in RequestIds : Stored(q)' = Stored(q)
  BY <1>2 DEF Stored
<1>5. PreviewIsStored'
  BY <1>2, <1>4 DEF ChatIInv, PreviewIsStored
<1>6. /\ thread' \in [RequestIds -> ThreadDocs \cup {NoThread}]
      /\ messages' \in [RequestIds -> Seq(MessageDocs)]
      /\ pushed' \subseteq [to : Users, request : RequestIds, message : MessageDocs]
  BY <1>1, <1>2 DEF ChatTypeOK
<1>7. ASSUME NEW q \in RequestIds
      PROVE  /\ thread[q] = NoThread => thread'[q] = NoThread /\ Stored(q)' = {}
             /\ thread[q] # NoThread =>
                  thread'[q] # NoThread /\ thread'[q].participants = thread[q].participants
             /\ Stored(q) \subseteq Stored(q)'
             /\ \A n \in Stored(q)' : n.sender \in parties[q]
  BY <1>2, <1>4 DEF ChatIInv, PartiesAreFixed, MessagesAreFromParties
<1>8. ASSUME NEW p \in pushed'
      PROVE  /\ p.message \in Stored(p.request)'
             /\ p.to \in parties[p.request] \ {p.message.sender}
  BY <1>1, <1>2, <1>4 DEF ChatIInv, MessagesAreFromParties, ChatTypeOK
<1> QED
  BY <1>1, <1>2, <1>3, <1>5, <1>6, <1>7, <1>8, SendKeepsChat

\* The message of a party is stored.
LEMMA AddMessageKeepsChat ==
    ASSUME ChatIInv, NEW s \in Senders, AddMessage(s), UNCHANGED vars, UNCHANGED parties
    PROVE  ChatIInv'
<1>1. ChatTypeOK /\ AtSend(s, "add") /\ sending[s] # Idle /\ sending[s] \in Sends
  BY SendAt DEF ChatIInv, ChatTypeOK, AddMessage
<1>2. PICK r \in RequestIds, m \in MessageDocs, c \in Sends :
        /\ r = sending[s].request /\ m = sending[s].message
        /\ c = Advanced(sending[s], "preview")
        /\ c # Idle /\ c.step = "preview" /\ c.request = r /\ c.message = m
  BY <1>1, SendShape
<1>3. /\ messages' = [messages EXCEPT ![r] = Append(messages[r], m)]
      /\ sending' = [sending EXCEPT ![s] = c]
      /\ UNCHANGED <<thread, pushed>>
  BY <1>2 DEF AddMessage, SendNext, Advanced
<1>4. thread[r] # NoThread /\ m.sender \in parties[r]
  BY <1>1, <1>2 DEF ChatIInv, SendIsOnTrack
<1>5. messages[r] \in Seq(MessageDocs)
  BY <1>1, <1>2 DEF ChatTypeOK
<1>6. /\ Append(messages[r], m) \in Seq(MessageDocs)
      /\ {Append(messages[r], m)[i] : i \in DOMAIN Append(messages[r], m)} = Stored(r) \cup {m}
  <2>1. /\ Append(messages[r], m) \in Seq(MessageDocs)
        /\ {Append(messages[r], m)[i] : i \in DOMAIN Append(messages[r], m)}
             = {messages[r][i] : i \in DOMAIN messages[r]} \cup {m}
    BY <1>2, <1>5, AppendStored, Zenon
  <2> QED
    BY <2>1 DEF Stored
<1>7. /\ messages' \in [RequestIds -> Seq(MessageDocs)]
      /\ messages'[r] = Append(messages[r], m)
      /\ \A q \in RequestIds : q # r => messages'[q] = messages[q]
  BY <1>1, <1>2, <1>3, <1>6 DEF ChatTypeOK
<1>8. /\ Stored(r)' = Stored(r) \cup {m}
      /\ \A q \in RequestIds : q # r => Stored(q)' = Stored(q)
  BY <1>6, <1>7 DEF Stored
<1>9. sending'[s] = c
  BY <1>1, <1>2, <1>3, SendGoesOn
<1>10. SendIsOnTrack(s)'
  BY <1>2, <1>3, <1>4, <1>8, <1>9 DEF SendIsOnTrack, AtSend
<1>11. PreviewIsStored'
  BY <1>3, <1>8 DEF ChatIInv, PreviewIsStored
<1>12. ASSUME NEW q \in RequestIds
       PROVE  /\ thread[q] = NoThread => thread'[q] = NoThread /\ Stored(q)' = {}
              /\ thread[q] # NoThread =>
                   thread'[q] # NoThread /\ thread'[q].participants = thread[q].participants
              /\ Stored(q) \subseteq Stored(q)'
              /\ \A n \in Stored(q)' : n.sender \in parties[q]
  BY <1>3, <1>4, <1>8 DEF ChatIInv, PartiesAreFixed, MessagesAreFromParties
<1>13. ASSUME NEW p \in pushed'
       PROVE  /\ p.message \in Stored(p.request)'
              /\ p.to \in parties[p.request] \ {p.message.sender}
  BY <1>1, <1>3, <1>12 DEF ChatIInv, MessagesAreFromParties, ChatTypeOK
<1>14. /\ thread' \in [RequestIds -> ThreadDocs \cup {NoThread}]
       /\ pushed' \subseteq [to : Users, request : RequestIds, message : MessageDocs]
  BY <1>1, <1>3 DEF ChatTypeOK
<1> QED
  BY <1>2, <1>3, <1>7, <1>10, <1>11, <1>12, <1>13, <1>14, SendKeepsChat

\* The preview shows what has been stored; the participants stay.
LEMMA SetPreviewKeepsChat ==
    ASSUME ChatIInv, NEW s \in Senders, SetPreview(s), UNCHANGED vars, UNCHANGED parties
    PROVE  ChatIInv'
<1>1. ChatTypeOK /\ AtSend(s, "preview") /\ sending[s] # Idle /\ sending[s] \in Sends
  BY SendAt DEF ChatIInv, ChatTypeOK, SetPreview
<1>2. PICK r \in RequestIds, m \in MessageDocs, c \in Sends :
        /\ r = sending[s].request /\ m = sending[s].message
        /\ c = Advanced(sending[s], "notify")
        /\ c # Idle /\ c.step = "notify" /\ c.request = r /\ c.message = m
  BY <1>1, SendShape
<1>3. /\ thread' = [thread EXCEPT ![r].preview = m.id]
      /\ sending' = [sending EXCEPT ![s] = c]
      /\ UNCHANGED <<messages, pushed>>
  BY <1>2 DEF SetPreview, SendNext, Advanced
<1>4. thread[r] # NoThread /\ m.sender \in parties[r] /\ m \in Stored(r)
  BY <1>1, <1>2 DEF ChatIInv, SendIsOnTrack, AtSend
<1>5. thread[r] \in ThreadDocs /\ m.id \in MessageIds
  BY <1>1, <1>2, <1>4 DEF ChatTypeOK, MessageDocs
<1>6. PICK doc : doc = [thread[r] EXCEPT !.preview = m.id]
  OBVIOUS
<1>7. doc \in ThreadDocs /\ doc.participants = thread[r].participants /\ doc.preview = m.id
  BY <1>5, <1>6 DEF ThreadDocs
<1>8. doc # NoThread
  BY <1>7, ThreadShape
<1>9. /\ thread' \in [RequestIds -> ThreadDocs \cup {NoThread}]
      /\ thread'[r] = doc
      /\ \A q \in RequestIds : q # r => thread'[q] = thread[q]
  BY <1>1, <1>3, <1>6, <1>7 DEF ChatTypeOK
<1>10. \A q \in RequestIds : Stored(q)' = Stored(q)
  BY <1>3 DEF Stored
<1>11. SendIsOnTrack(s)'
  BY <1>1, <1>2, <1>3, <1>4, <1>8, <1>9, <1>10, SendGoesOn DEF SendIsOnTrack, AtSend
<1>12. PreviewIsStored'
  BY <1>4, <1>7, <1>9, <1>10 DEF ChatIInv, PreviewIsStored
<1>13. ASSUME NEW q \in RequestIds
       PROVE  /\ thread[q] = NoThread => thread'[q] = NoThread /\ Stored(q)' = {}
              /\ thread[q] # NoThread =>
                   thread'[q] # NoThread /\ thread'[q].participants = thread[q].participants
              /\ Stored(q) \subseteq Stored(q)'
              /\ \A n \in Stored(q)' : n.sender \in parties[q]
  BY <1>4, <1>7, <1>8, <1>9, <1>10 DEF ChatIInv, PartiesAreFixed, MessagesAreFromParties
<1>14. ASSUME NEW p \in pushed'
       PROVE  /\ p.message \in Stored(p.request)'
              /\ p.to \in parties[p.request] \ {p.message.sender}
  BY <1>1, <1>3, <1>10 DEF ChatIInv, MessagesAreFromParties, ChatTypeOK
<1>15. /\ messages' \in [RequestIds -> Seq(MessageDocs)]
       /\ pushed' \subseteq [to : Users, request : RequestIds, message : MessageDocs]
  BY <1>1, <1>3 DEF ChatTypeOK
<1> QED
  BY <1>2, <1>3, <1>9, <1>11, <1>12, <1>13, <1>14, <1>15, SendKeepsChat

\* The push is for the other party, about a message that is stored.
LEMMA NotifyKeepsChat ==
    ASSUME ChatIInv, NEW s \in Senders, NotifyOtherParticipant(s),
           UNCHANGED vars, UNCHANGED parties
    PROVE  ChatIInv'
<1>1. ChatTypeOK /\ AtSend(s, "notify") /\ sending[s] # Idle /\ sending[s] \in Sends
  BY SendAt DEF ChatIInv, ChatTypeOK, NotifyOtherParticipant
<1>2. PICK r \in RequestIds, m \in MessageDocs : r = sending[s].request /\ m = sending[s].message
  BY <1>1, SendShape
<1>3. thread[r] # NoThread /\ m \in Stored(r) /\ thread[r].participants = parties[r]
  BY <1>1, <1>2 DEF ChatIInv, SendIsOnTrack, AtSend, PartiesAreFixed
<1>4. PICK u \in parties[r] \ {m.sender} :
        pushed' \in {pushed, pushed \cup {[to |-> u, request |-> r, message |-> m]}}
  BY <1>2, <1>3 DEF NotifyOtherParticipant, Push
<1>5. /\ sending' = [sending EXCEPT ![s] = Idle] /\ Idle \in Sends
      /\ UNCHANGED <<thread, messages>>
  BY DEF NotifyOtherParticipant, Sends
<1>6. u \in Users
  BY <1>1 DEF ChatTypeOK
<1>7. \A q \in RequestIds : Stored(q)' = Stored(q)
  BY <1>5 DEF Stored
<1>8. SendIsOnTrack(s)'
  BY <1>1, <1>5, SendGoesOn DEF SendIsOnTrack
<1>9. PreviewIsStored'
  BY <1>5, <1>7 DEF ChatIInv, PreviewIsStored
<1>10. ASSUME NEW q \in RequestIds
       PROVE  /\ thread[q] = NoThread => thread'[q] = NoThread /\ Stored(q)' = {}
              /\ thread[q] # NoThread =>
                   thread'[q] # NoThread /\ thread'[q].participants = thread[q].participants
              /\ Stored(q) \subseteq Stored(q)'
              /\ \A n \in Stored(q)' : n.sender \in parties[q]
  BY <1>5, <1>7 DEF ChatIInv, PartiesAreFixed, MessagesAreFromParties
<1>11. ASSUME NEW p \in pushed'
       PROVE  /\ p.message \in Stored(p.request)'
              /\ p.to \in parties[p.request] \ {p.message.sender}
  <2>1. CASE p \in pushed
    BY <1>1, <1>7, <2>1 DEF ChatIInv, MessagesAreFromParties, ChatTypeOK
  <2>2. CASE p = [to |-> u, request |-> r, message |-> m]
    BY <1>3, <1>4, <1>7, <2>2
  <2> QED
    BY <1>4, <2>1, <2>2
<1>12. /\ thread' \in [RequestIds -> ThreadDocs \cup {NoThread}]
       /\ messages' \in [RequestIds -> Seq(MessageDocs)]
       /\ pushed' \subseteq [to : Users, request : RequestIds, message : MessageDocs]
  BY <1>1, <1>4, <1>5, <1>6 DEF ChatTypeOK
<1> QED
  BY <1>5, <1>8, <1>9, <1>10, <1>11, <1>12, SendKeepsChat

-----------------------------------------------------------------------------
(***************************************************************************)
(* The theorems.                                                           *)
(***************************************************************************)

LEMMA InitChat == ChatInit => IInv /\ ChatIInv
<1> SUFFICES ASSUME ChatInit PROVE IInv /\ ChatIInv
  OBVIOUS
<1> USE DEF ChatInit
<1>1. IInv
  BY InitIInv
<1>2. ChatTypeOK
  BY DEF ChatTypeOK, Sends
<1>3. AcceptsWhatWasMade /\ \A r \in RequestIds : ~Live(r)
  BY DEF AcceptsWhatWasMade, At, Init, Idle, Live, Unused, Statuses
<1>4. \A r \in RequestIds : Stored(r) = {} /\ thread[r] = NoThread
  BY DEF Stored
<1>5. PartiesAreFixed
  BY <1>3, <1>4 DEF PartiesAreFixed
<1>6. MessagesAreFromParties /\ PreviewIsStored
  BY <1>4, ThreadShape DEF MessagesAreFromParties, PreviewIsStored
<1>7. \A s \in Senders : SendIsOnTrack(s)
  BY DEF SendIsOnTrack
<1> QED
  BY <1>1, <1>2, <1>3, <1>5, <1>6, <1>7 DEF ChatIInv

LEMMA NextChat == IInv /\ ChatIInv /\ [ChatNext]_allVars => IInv' /\ ChatIInv'
<1> SUFFICES ASSUME IInv, ChatIInv, [ChatNext]_allVars PROVE IInv' /\ ChatIInv'
  OBVIOUS
<1>1. CASE ServerStep /\ RememberParties
  <2>1. Next /\ IInv'
    BY <1>1, ServerSteps, NextIInv
  <2>2. ASSUME NEW h \in Handlers, CreateThreadDoc(h) PROVE ChatIInv'
    BY <1>1, <2>2, CreateThreadKeepsChat
  <2>3. CASE UNCHANGED <<thread, messages, sending, pushed>>
    BY <1>1, <2>1, <2>3, TablesOnlyKeepsChat
  <2> QED
    BY <1>1, <2>1, <2>2, <2>3 DEF ServerStep
<1>2. ASSUME NEW s \in Senders, SendStep(s), UNCHANGED vars, UNCHANGED parties
      PROVE  ChatIInv'
  <2>1. ASSUME NEW u \in Users, NEW r \in RequestIds, NEW m \in MessageIds,
               BeginSend(s, u, r, m)
        PROVE  ChatIInv'
    BY <1>2, <2>1, BeginSendKeepsChat
  <2>2. CASE AddMessage(s)
    BY <1>2, <2>2, AddMessageKeepsChat
  <2>3. CASE SetPreview(s)
    BY <1>2, <2>3, SetPreviewKeepsChat
  <2>4. CASE NotifyOtherParticipant(s)
    BY <1>2, <2>4, NotifyKeepsChat
  <2>5. CASE AbortSend(s)
    BY <1>2, <2>5, AbortSendKeepsChat
  <2> QED
    BY <1>2, <2>1, <2>2, <2>3, <2>4, <2>5 DEF SendStep
<1>3. ASSUME UNCHANGED vars PROVE IInv'
  BY <1>3, NextIInv
<1>4. CASE UNCHANGED allVars
  <2>1. UNCHANGED vars /\ UNCHANGED <<parties, thread, messages, sending, pushed>>
    BY <1>4 DEF allVars, chatVars
  <2>2. UNCHANGED <<requests, call>> /\ \A r \in RequestIds : Stored(r)' = Stored(r)
    BY <2>1 DEF vars, Stored
  <2>3. ChatTypeOK' /\ AcceptsWhatWasMade' /\ PartiesAreFixed'
    BY <2>1, <2>2 DEF ChatIInv, ChatTypeOK, AcceptsWhatWasMade, At, PartiesAreFixed, Live, Lender
  <2>4. MessagesAreFromParties' /\ PreviewIsStored'
    BY <2>1, <2>2 DEF ChatIInv, ChatTypeOK, MessagesAreFromParties, PreviewIsStored
  <2>5. ASSUME NEW s \in Senders PROVE SendIsOnTrack(s)'
    <3>1. sending[s] # Idle => sending[s].request \in RequestIds
      BY SendShape DEF ChatIInv, ChatTypeOK
    <3> QED
      BY <2>1, <2>2, <3>1 DEF ChatIInv, SendIsOnTrack, AtSend
  <2> QED
    BY <2>1, <2>3, <2>4, <2>5, <1>3 DEF ChatIInv
<1> QED
  BY <1>1, <1>2, <1>3, <1>4 DEF ChatNext

\* Threads, messages and pushes are in order in every reachable state of the
\* tables and Firestore together.
THEOREM ChatInvariance == ChatSpec => [](IInv /\ ChatIInv)
  BY InitChat, NextChat, PTL DEF ChatSpec

\* Whatever late accepts and preview writes do to its document, a thread is
\* between the owner and the requester of its request (CreateThread).
THEOREM ThreadsAreBetweenParties == ChatSpec => []ThreadIsBetweenParties
<1>1. ChatIInv => ThreadIsBetweenParties
  BY DEF ChatIInv, PartiesAreFixed, ThreadIsBetweenParties
<1> QED
  BY <1>1, ChatInvariance, PTL

\* Nobody else writes in it or is pushed what is in it (SendMessage).
THEOREM OnlyPartiesChat == ChatSpec => []MessagesAreFromParties
<1>1. ChatIInv => MessagesAreFromParties
  BY DEF ChatIInv
<1> QED
  BY <1>1, ChatInvariance, PTL

\* A preview never shows what was not sent, however a send was cut off.
THEOREM PreviewsAreStored == ChatSpec => []PreviewIsStored
<1>1. ChatIInv => PreviewIsStored
  BY DEF ChatIInv
<1> QED
  BY <1>1, ChatInvariance, PTL

-----------------------------------------------------------------------------
(***************************************************************************)
(* Previews.                                                               *)
(***************************************************************************)

\* What AddMessage does, in the terms of the documents.
LEMMA AddMessageAppends ==
    ASSUME ChatIInv, NEW s \in Senders, AddMessage(s)
    PROVE  \E r \in RequestIds, m \in MessageDocs, c \in Sends :
             /\ sending[s] # Idle /\ AtSend(s, "add")
             /\ r = sending[s].request /\ m = sending[s].message
             /\ c # Idle /\ c.step = "preview" /\ c.request = r /\ c.message = m
             /\ sending' = [sending EXCEPT ![s] = c]
             /\ messages' = [messages EXCEPT ![r] = Append(@, m)]
             /\ messages[r] \in Seq(MessageDocs)
             /\ messages'[r] = Append(messages[r], m)
             /\ \A q \in RequestIds : q # r => messages'[q] = messages[q]
             /\ Stored(r)' = Stored(r) \cup {m}
             /\ \A q \in RequestIds : q # r => Stored(q)' = Stored(q)
<1>1. ChatTypeOK /\ AtSend(s, "add") /\ sending[s] # Idle /\ sending[s] \in Sends
  BY SendAt DEF ChatIInv, ChatTypeOK, AddMessage
<1>2. PICK r \in RequestIds, m \in MessageDocs, c \in Sends :
        /\ r = sending[s].request /\ m = sending[s].message
        /\ c = Advanced(sending[s], "preview")
        /\ c # Idle /\ c.step = "preview" /\ c.request = r /\ c.message = m
  BY <1>1, SendShape
<1>3. /\ messages' = [messages EXCEPT ![r] = Append(@, m)]
      /\ sending' = [sending EXCEPT ![s] = c]
  BY <1>2 DEF AddMessage, SendNext, Advanced
<1>4. messages[r] \in Seq(MessageDocs)
  BY <1>1, <1>2 DEF ChatTypeOK
<1>5. {Append(messages[r], m)[i] : i \in DOMAIN Append(messages[r], m)} = Stored(r) \cup {m}
  <2>1. {Append(messages[r], m)[i] : i \in DOMAIN Append(messages[r], m)}
          = {messages[r][i] : i \in DOMAIN messages[r]} \cup {m}
    BY <1>2, <1>4, AppendStored, Zenon
  <2> QED
    BY <2>1 DEF Stored
<1>6. /\ messages'[r] = Append(messages[r], m)
      /\ \A q \in RequestIds : q # r => messages'[q] = messages[q]
  BY <1>1, <1>2, <1>3 DEF ChatTypeOK
<1>7. /\ Stored(r)' = Stored(r) \cup {m}
      /\ \A q \in RequestIds : q # r => Stored(q)' = Stored(q)
  BY <1>5, <1>6 DEF Stored
<1> QED
  BY <1>1, <1>2, <1>3, <1>4, <1>6, <1>7

\* A send that has set the preview goes on to push.
LEMMA SetPreviewShows ==
    ASSUME ChatIInv, NEW s \in Senders, SetPreview(s)
    PROVE  \E r \in RequestIds, m \in MessageDocs, c \in Sends :
             /\ sending[s] # Idle /\ AtSend(s, "preview")
             /\ r = sending[s].request /\ m = sending[s].message
             /\ c.step = "notify" /\ c.message = m
             /\ sending' = [sending EXCEPT ![s] = c]
             /\ UNCHANGED <<messages, pushed>>
             /\ thread[r] # NoThread /\ thread'[r] # NoThread
             /\ thread'[r].participants = thread[r].participants
             /\ thread'[r].preview = m.id /\ m.id \in MessageIds
             /\ \A q \in RequestIds : q # r => thread'[q] = thread[q]
<1>1. ChatTypeOK /\ AtSend(s, "preview") /\ sending[s] # Idle /\ sending[s] \in Sends
  BY SendAt DEF ChatIInv, ChatTypeOK, SetPreview
<1>2. PICK r \in RequestIds, m \in MessageDocs, c \in Sends :
        /\ r = sending[s].request /\ m = sending[s].message
        /\ c = Advanced(sending[s], "notify")
        /\ c # Idle /\ c.step = "notify" /\ c.request = r /\ c.message = m
  BY <1>1, SendShape
<1>3. /\ thread' = [thread EXCEPT ![r].preview = m.id]
      /\ sending' = [sending EXCEPT ![s] = c]
      /\ UNCHANGED <<messages, pushed>>
  BY <1>2 DEF SetPreview, SendNext, Advanced
<1>4. thread[r] # NoThread
  BY <1>1, <1>2 DEF ChatIInv, SendIsOnTrack
<1>5. thread[r] \in ThreadDocs /\ m.id \in MessageIds
  BY <1>1, <1>2, <1>4 DEF ChatTypeOK, MessageDocs
<1>6. PICK doc : doc = [thread[r] EXCEPT !.preview = m.id]
  OBVIOUS
<1>7. doc \in ThreadDocs /\ doc.participants = thread[r].participants /\ doc.preview = m.id
  BY <1>5, <1>6 DEF ThreadDocs
<1>8. thread'[r] = doc /\ \A q \in RequestIds : q # r => thread'[q] = thread[q]
  BY <1>1, <1>3, <1>6 DEF ChatTypeOK
<1> QED
  BY <1>1, <1>2, <1>3, <1>4, <1>5, <1>7, <1>8, ThreadShape

\* Send s writes to thread r, as its preview, a message that is stored in it.
Shows(s, r) ==
    /\ AtSend(s, "preview") /\ sending[s].request = r /\ sending'[s] # sending[s]
    /\ sending[s].message \in Stored(r) /\ thread'[r].preview = sending[s].message.id
    /\ UNCHANGED messages

\* What a step can do to the document of a thread.
LEMMA ThreadSteps ==
    ASSUME IInv, ChatIInv, [ChatNext]_allVars, NEW r \in RequestIds
    PROVE  \/ thread'[r] = thread[r]
           \/ thread'[r].preview = NoPreview
           \/ \E s \in Senders : Shows(s, r)
<1>1. ChatTypeOK /\ TypeOK
  BY DEF ChatIInv, IInv
<1>2. CASE UNCHANGED thread
  BY <1>2
<1>3. ASSUME NEW h \in Handlers, CreateThreadDoc(h), ~UNCHANGED thread
      PROVE  thread'[r] = thread[r] \/ thread'[r].preview = NoPreview
  <2>1. PICK q \in RequestIds :
          thread' = [thread EXCEPT ![q] = [participants |-> parties[q], preview |-> NoPreview]]
    BY <1>1, <1>3, CallShape DEF CreateThreadDoc, CreateThread, At, TypeOK
  <2> QED
    BY <1>1, <2>1 DEF ChatTypeOK
<1>4. ASSUME NEW s \in Senders, SetPreview(s)
      PROVE  thread'[r] = thread[r] \/ Shows(s, r)
  <2>1. PICK q \in RequestIds, m \in MessageDocs, c \in Sends :
          /\ sending[s] # Idle /\ AtSend(s, "preview")
          /\ q = sending[s].request /\ m = sending[s].message
          /\ c.step = "notify"
          /\ sending' = [sending EXCEPT ![s] = c]
          /\ UNCHANGED messages
          /\ thread'[q].preview = m.id
          /\ \A p \in RequestIds : p # q => thread'[p] = thread[p]
    BY <1>4, SetPreviewShows
  <2>2. sending'[s] # sending[s]
    BY <1>1, <2>1 DEF ChatTypeOK, AtSend
  <2>3. m \in Stored(q)
    BY <2>1 DEF ChatIInv, SendIsOnTrack, AtSend
  <2> QED
    BY <2>1, <2>2, <2>3 DEF Shows
<1> QED
  BY <1>2, <1>3, <1>4
     DEF ChatNext, ServerStep, SendStep, BeginSend, AddMessage, NotifyOtherParticipant,
         AbortSend, allVars, chatVars

\* What is stored stays where it is.
LEMMA LogGrows ==
    ASSUME ChatIInv, [ChatNext]_allVars, NEW r \in RequestIds, NEW i \in DOMAIN messages[r]
    PROVE  i \in DOMAIN messages'[r] /\ messages'[r][i] = messages[r][i]
<1>1. CASE UNCHANGED messages
  BY <1>1
<1>2. ASSUME NEW s \in Senders, AddMessage(s)
      PROVE  i \in DOMAIN messages'[r] /\ messages'[r][i] = messages[r][i]
  <2>1. PICK q \in RequestIds, m \in MessageDocs :
          /\ messages[q] \in Seq(MessageDocs)
          /\ messages'[q] = Append(messages[q], m)
          /\ \A p \in RequestIds : p # q => messages'[p] = messages[p]
    BY <1>2, AddMessageAppends
  <2>2. \A seq \in Seq(MessageDocs) :
          \A j \in DOMAIN seq : j \in DOMAIN Append(seq, m) /\ Append(seq, m)[j] = seq[j]
    OBVIOUS
  <2> QED
    BY <2>1, <2>2
<1> QED
  BY <1>1, <1>2
     DEF ChatNext, ServerStep, CreateThreadDoc, SendStep, BeginSend, SetPreview,
         NotifyOtherParticipant, AbortSend, allVars, chatVars

\* From the message that was shown a step goes to the same, to the last one,
\* or to one that was the last when its send stored it.
LEMMA PreviewSteps ==
    ASSUME IInv, ChatIInv, [ChatNext]_allVars, NEW r \in RequestIds
    PROVE  PreviewForward(r) \/ \E s \in Senders : OvertakenSend(s, r)
<1> SUFFICES ASSUME thread[r].preview \in MessageIds, thread'[r].preview \in MessageIds,
                    \A s \in Senders : ~OvertakenSend(s, r)
             PROVE  \E i, j \in DOMAIN messages'[r] :
                      /\ messages'[r][i].id = thread[r].preview
                      /\ messages'[r][j].id = thread'[r].preview
                      /\ i <= j
  BY DEF PreviewForward
<1>1. messages[r] \in Seq(MessageDocs)
  BY DEF ChatIInv, ChatTypeOK
<1>2. PICK i \in DOMAIN messages[r] : messages[r][i].id = thread[r].preview
  BY DEF ChatIInv, PreviewIsStored, Stored
<1>3. i \in DOMAIN messages'[r] /\ messages'[r][i].id = thread[r].preview
  BY <1>2, LogGrows
<1>4. DOMAIN messages[r] = 1..Len(messages[r]) /\ Len(messages[r]) \in Nat
  BY <1>1
<1>5. CASE thread'[r] = thread[r]
  BY <1>2, <1>3, <1>4, <1>5
<1>6. ASSUME NEW s \in Senders, Shows(s, r)
      PROVE  \E j \in DOMAIN messages'[r] :
               messages'[r][j].id = thread'[r].preview /\ i <= j
  <2>1. PICK j \in DOMAIN messages[r] : messages[r][j] = sending[s].message
    BY <1>6 DEF Shows, Stored
  <2>2. j = Len(messages[r])
    BY <1>4, <1>6, <2>1 DEF Shows, OvertakenSend
  <2>3. j \in DOMAIN messages'[r] /\ messages'[r][j].id = thread'[r].preview
    BY <1>6, <2>1 DEF Shows
  <2> QED
    BY <1>2, <1>4, <2>2, <2>3
<1>7. thread'[r].preview # NoPreview
  BY ThreadShape
<1> QED
  BY <1>3, <1>5, <1>6, <1>7, ThreadSteps

\* A preview goes back to an earlier message only in a send into the same
\* thread that was overtaken between its two writes (SendMessage of the store).
THEOREM PreviewsGoBackInRaces == ChatSpec => PreviewGoesBackInARace
<1>1. (IInv /\ ChatIInv) /\ [ChatNext]_allVars =>
        [\A r \in RequestIds :
           PreviewForward(r) \/ \E s \in Senders : OvertakenSend(s, r)]_allVars
  BY PreviewSteps
<1> QED
  BY <1>1, ChatInvariance, PTL DEF ChatSpec, PreviewGoesBackInARace

-----------------------------------------------------------------------------
(***************************************************************************)
(* Calls that are not repeated: what a step does to the rows.              *)
(***************************************************************************)

\* The three things a step can do to the standing of the requests.
NoneChanges == \A r \in RequestIds : Standing(r)' = Standing(r)

OneIsAgreed ==
    \E q \in RequestIds :
      /\ Standing(q) = "open" /\ Standing(q)' = "agreed"
      /\ \A r \in RequestIds : r # q => Standing(r)' = Standing(r)

SomeAreGone ==
    \E gone \in SUBSET RequestIds :
      \A r \in RequestIds : Standing(r)' = IF r \in gone THEN "gone" ELSE Standing(r)

\* A request is made before it is deleted.
MadeFirst(r) == requests[r] = Unused => requests'[r] = Unused \/ Live(r)'

\* One row is written: only what happens to its own standing matters.
LEMMA OneRowStands ==
    ASSUME TypeOK, NEW q \in RequestIds, NEW row \in Row,
           requests' = [requests EXCEPT ![q] = row]
    PROVE  /\ requests'[q] = row
           /\ \A r \in RequestIds : MadeFirst(r)
           /\ \A r \in RequestIds : r # q => Standing(r)' = Standing(r)
<1>1. requests'[q] = row /\ \A r \in RequestIds : r # q => requests'[r] = requests[r]
  BY DEF TypeOK
<1>2. row.status \in Statuses
  BY DEF Row
<1> QED
  BY <1>1, <1>2 DEF MadeFirst, Live, Standing

\* Rows that stay leave every request where it stands.
LEMMA SameRowsStand ==
    ASSUME UNCHANGED requests
    PROVE  NoneChanges /\ \A r \in RequestIds : MadeFirst(r)
  BY DEF NoneChanges, MadeFirst, Standing

\* An accept is the only agreement, and a deletion the only end.
LEMMA RequestsStand ==
    ASSUME SerialIInv, Next
    PROVE  /\ NoneChanges \/ OneIsAgreed \/ SomeAreGone
           /\ \A r \in RequestIds : MadeFirst(r)
<1>1. IInv /\ TypeOK /\ \A h \in Handlers : ReadsAreFresh(call[h])
  BY DEF SerialIInv, IInv
<1>2. ASSUME NEW h \in Handlers, WriteStatus(h), Live(call[h].request)
      PROVE  /\ NoneChanges \/ OneIsAgreed
             /\ \A r \in RequestIds : MadeFirst(r)
  <2>1. call[h].step = "update_status"
    BY <1>2 DEF WriteStatus, At
  <2>2. PICK q \in RequestIds, status \in {"accepted", "rejected"} :
          /\ q = call[h].request /\ status = call[h].status
          /\ requests[q] \in Row /\ requests[q].status = "pending"
    BY <1>1, <1>2, <2>1, WriterFinds
  <2>3. PICK row \in Row : row = UpdateStatus(requests[q], status) /\ row.status = status
    BY <2>2, UpdateStatusRow DEF Statuses
  <2>4. requests' = [requests EXCEPT ![q] = row]
    BY <1>2, <2>2, <2>3 DEF WriteStatus
  <2>5. requests'[q] = row /\ Standing(q) = "open"
    BY <1>1, <2>2, <2>4, OneRowStands DEF Standing
  <2>6. Standing(q)' = IF status = "accepted" THEN "agreed" ELSE "open"
    BY <2>2, <2>3, <2>5 DEF Standing
  <2>7. /\ \A r \in RequestIds : MadeFirst(r)
        /\ \A r \in RequestIds : r # q => Standing(r)' = Standing(r)
    BY <1>1, <2>4, OneRowStands
  <2> QED
    BY <2>5, <2>6, <2>7 DEF NoneChanges, OneIsAgreed
<1>3. ASSUME NEW h \in Handlers, ConfirmTx(h), Live(call[h].request)
      PROVE  NoneChanges /\ \A r \in RequestIds : MadeFirst(r)
  <2>1. call[h].step = "confirm_tx"
    BY <1>3 DEF ConfirmTx, At
  <2>2. PICK q \in RequestIds, role \in Roles :
          /\ q = call[h].request /\ role = call[h].role
          /\ requests[q] \in Row /\ requests[q].status = "accepted"
    BY <1>1, <1>3, <2>1, WriterFinds
  <2>3. PICK confirmed \in Row :
          confirmed = SetConfirmed(requests[q], role) /\ confirmed.status = "accepted"
    BY <2>2, SetConfirmedRow
  <2>4. PICK active \in Row : active = UpdateStatus(confirmed, "active") /\ active.status = "active"
    BY <2>3, UpdateStatusRow DEF Statuses
  <2>5. PICK row \in {confirmed, active} : requests' = [requests EXCEPT ![q] = row]
    BY <1>3, <2>2, <2>3, <2>4 DEF ConfirmTx
  <2>6. row \in Row /\ row.status \in {"accepted", "active"}
    BY <2>3, <2>4, <2>5
  <2>7. /\ requests'[q] = row
        /\ \A r \in RequestIds : MadeFirst(r)
        /\ \A r \in RequestIds : r # q => Standing(r)' = Standing(r)
    BY <1>1, <2>5, <2>6, OneRowStands
  <2>8. Standing(q)' = Standing(q)
    BY <2>2, <2>6, <2>7 DEF Standing
  <2> QED
    BY <2>7, <2>8 DEF NoneChanges
<1>4. ASSUME NEW h \in Handlers, ReturnTx(h), Live(call[h].request)
      PROVE  NoneChanges /\ \A r \in RequestIds : MadeFirst(r)
  <2>1. call[h].step = "return_tx"
    BY <1>4 DEF ReturnTx, At
  <2>2. PICK q \in RequestIds :
          q = call[h].request /\ requests[q] \in Row /\ requests[q].status = "active"
    BY <1>1, <1>4, <2>1, WriterFinds
  <2>3. PICK row \in Row : row = UpdateStatus(requests[q], "returned") /\ row.status = "returned"
    BY <2>2, UpdateStatusRow DEF Statuses
  <2>4. requests' = [requests EXCEPT ![q] = row]
    BY <1>4, <2>2, <2>3 DEF ReturnTx
  <2>5. /\ requests'[q] = row
        /\ \A r \in RequestIds : MadeFirst(r)
        /\ \A r \in RequestIds : r # q => Standing(r)' = Standing(r)
    BY <1>1, <2>4, OneRowStands
  <2>6. Standing(q)' = Standing(q)
    BY <2>2, <2>3, <2>5 DEF Standing
  <2> QED
    BY <2>5, <2>6 DEF NoneChanges
<1>5. ASSUME NEW h \in Handlers, InsertRequest(h), ~UNCHANGED requests
      PROVE  NoneChanges /\ \A r \in RequestIds : MadeFirst(r)
  <2>1. call[h].book \in Books /\ call[h].requester \in Users
    BY <1>1, <1>5, CallShape DEF InsertRequest, At, TypeOK
  <2>2. PICK row \in Row :
          row = NewRequest(call[h].book, call[h].requester) /\ row.status = "pending"
    <3>1. \A b \in Books, u \in Users :
            NewRequest(b, u) \in Row /\ NewRequest(b, u).status = "pending"
      BY DEF NewRequest, Row, Statuses
    <3> QED
      BY <2>1, <3>1
  <2>3. PICK q \in RequestIds : requests[q] = Unused /\ requests' = [requests EXCEPT ![q] = row]
    BY <1>5, <2>2 DEF InsertRequest
  <2>4. /\ requests'[q] = row
        /\ \A r \in RequestIds : MadeFirst(r)
        /\ \A r \in RequestIds : r # q => Standing(r)' = Standing(r)
    BY <1>1, <2>3, OneRowStands
  <2>5. Standing(q)' = Standing(q)
    BY <2>2, <2>3, <2>4 DEF Standing, Unused
  <2> QED
    BY <2>4, <2>5 DEF NoneChanges
<1>6. ASSUME NEW h \in Handlers, DeleteBook(h), ~UNCHANGED <<books, requests>>
      PROVE  SomeAreGone /\ \A r \in RequestIds : MadeFirst(r)
  <2>1. \A r \in RequestIds :
          requests'[r] = IF Live(r) /\ requests[r].book = call[h].book
                         THEN Deleted ELSE requests[r]
    BY <1>6 DEF DeleteBook, DeleteBookCascade
  <2>2. \A r \in RequestIds : MadeFirst(r)
    BY <2>1 DEF MadeFirst, Live, Unused, Statuses
  <2>3. PICK gone \in SUBSET RequestIds :
          gone = {r \in RequestIds : Live(r) /\ requests[r].book = call[h].book}
    OBVIOUS
  <2>4. \A r \in RequestIds : Standing(r)' = IF r \in gone THEN "gone" ELSE Standing(r)
    BY <2>1, <2>3 DEF Standing, Deleted
  <2> QED
    BY <2>2, <2>4 DEF SomeAreGone
<1>7. ASSUME NEW h \in Handlers,
             WriteStatus(h) \/ ConfirmTx(h) \/ ReturnTx(h), ~Live(call[h].request)
      PROVE  UNCHANGED requests
  BY <1>7 DEF WriteStatus, ConfirmTx, ReturnTx
<1>8. CASE UNCHANGED requests
  BY <1>8, SameRowsStand
<1> QED
  BY <1>2, <1>3, <1>4, <1>5, <1>6, <1>7, <1>8, QuietSteps
     DEF Next, Begin, Step, RequestStep, CatalogStep, EditProfile, UpdateProfile

-----------------------------------------------------------------------------
(***************************************************************************)
(* The inductive invariant of such calls, and sends that do not overlap.   *)
(***************************************************************************)

\* A step of SerialChatSpec is one of SerialSpec as far as the tables go.
LEMMA SerialTables ==
    [ChatNext /\ NoCallIsRepeated' /\ SendsSerialised']_allVars
      => [Next /\ NoCallIsRepeated']_vars
<1>1. UNCHANGED allVars => UNCHANGED vars
  BY DEF allVars
<1>2. ChatNext => Next \/ UNCHANGED vars
  BY ServerSteps DEF ChatNext
<1> QED
  BY <1>1, <1>2

\* A step of the server leaves messages and sends alone.
LEMMA ServerLeavesSends == ServerStep => UNCHANGED <<messages, sending, pushed>>
  BY DEF ServerStep, CreateThreadDoc

\* A new request is between two students.
LEMMA PartiesStayTwo ==
    ASSUME SerialIInv, IInv', ChatIInv, PartiesAreTwo, Next, RememberParties
    PROVE  PartiesAreTwo'
<1>1. /\ \A r \in RequestIds :
           /\ Live(r)' => parties'[r] = {Lender(r)', requests'[r].requester}
           /\ requests[r] # Unused => parties'[r] = parties[r] /\ requests'[r] # Unused
  BY PartiesStay DEF SerialIInv, ChatIInv, ChatTypeOK, PartiesAreFixed
<1>2. ASSUME NEW r \in RequestIds, requests'[r] # Unused
      PROVE  \E u, v \in Users : u # v /\ parties'[r] = {u, v}
  <2>1. CASE requests[r] # Unused
    BY <1>1, <2>1 DEF PartiesAreTwo
  <2>2. CASE requests[r] = Unused
    <3>1. Live(r)'
      BY <1>2, <2>2, RequestsStand DEF MadeFirst
    <3>2. requests'[r].book \in Books /\ requests'[r].requester \in Users
      BY <3>1, LiveRowNext DEF IInv
    <3>3. Lender(r)' \in Users
      BY <3>2, TablesAssumption DEF Lender
    <3>4. requests'[r].requester # Lender(r)'
      BY <3>1 DEF IInv, ContactableLender
    <3> QED
      BY <1>1, <3>1, <3>2, <3>3, <3>4
  <2> QED
    BY <2>1, <2>2
<1> QED
  BY <1>2 DEF PartiesAreTwo

\* What the facts about sends are about.
LEMMA SameSends ==
    ASSUME UNCHANGED <<messages, sending>>, MessagesAreDistinct, LatestIsShown
    PROVE  MessagesAreDistinct' /\ LatestIsShown'
<1>1. \A r \in RequestIds : Stored(r)' = Stored(r)
  BY DEF Stored
<1> QED
  BY <1>1 DEF MessagesAreDistinct, LatestIsShown, LastMessage, AtSend

\* A send that begins has a message of its own.
LEMMA BeginSendSerial ==
    ASSUME ChatIInv, MessagesAreDistinct, LatestIsShown,
           NEW s \in Senders, NEW u \in Users, NEW r \in RequestIds, NEW m \in MessageIds,
           BeginSend(s, u, r, m)
    PROVE  MessagesAreDistinct' /\ LatestIsShown'
<1>1. PICK c \in Sends : /\ sending' = [sending EXCEPT ![s] = c]
                         /\ c.step = "add" /\ c.message.id = m
  <2> DEFINE message == [id |-> m, sender |-> u]
             c == [step |-> "add", request |-> r, message |-> message]
  <2>1. c \in Sends
    BY DEF Sends, MessageDocs
  <2>2. sending' = [sending EXCEPT ![s] = c]
    BY DEF BeginSend
  <2>3. c.step = "add" /\ c.message.id = m
    OBVIOUS
  <2> HIDE DEF c
  <2> QED
    BY <2>1, <2>2, <2>3
<1>2. sending'[s] = c /\ \A t \in Senders : t # s => sending'[t] = sending[t]
  BY <1>1, SendGoesOn DEF ChatIInv
<1>3. Fresh(m) /\ UNCHANGED messages /\ \A q \in RequestIds : Stored(q)' = Stored(q)
  BY DEF BeginSend, Stored
<1>4. MessagesAreDistinct'
  BY <1>1, <1>2, <1>3 DEF MessagesAreDistinct, Fresh, AtSend
<1>5. LatestIsShown'
  BY <1>1, <1>2, <1>3 DEF LatestIsShown, LastMessage, AtSend
<1> QED
  BY <1>4, <1>5

\* A send that is past its preview, or over, does not matter any more.
LEMMA LaterSendSerial ==
    ASSUME ChatIInv, MessagesAreDistinct, LatestIsShown, UNCHANGED messages,
           NEW s \in Senders, sending[s] # Idle,
           NEW c \in Sends, sending' = [sending EXCEPT ![s] = c],
           c.step \notin {"add", "preview"},
           c = Idle \/ c.message = sending[s].message
    PROVE  MessagesAreDistinct' /\ LatestIsShown'
<1>1. sending'[s] = c /\ \A t \in Senders : t # s => sending'[t] = sending[t]
  BY SendGoesOn DEF ChatIInv
<1>2. \A q \in RequestIds : Stored(q)' = Stored(q)
  BY DEF Stored
<1>3. MessagesAreDistinct'
  BY <1>1, <1>2 DEF MessagesAreDistinct, AtSend
<1>4. LatestIsShown'
  BY <1>1, <1>2 DEF LatestIsShown, LastMessage, AtSend
<1> QED
  BY <1>3, <1>4

\* A message that is stored is the last of its thread, and nobody else is
\* sending into that thread or sends it again.
LEMMA AddMessageSerial ==
    ASSUME ChatIInv, SendsSerialised, MessagesAreDistinct, LatestIsShown,
           NEW s \in Senders, AddMessage(s)
    PROVE  MessagesAreDistinct' /\ LatestIsShown'
<1>1. PICK r \in RequestIds, m \in MessageDocs, c \in Sends :
        /\ sending[s] # Idle /\ AtSend(s, "add")
        /\ r = sending[s].request /\ m = sending[s].message
        /\ c # Idle /\ c.step = "preview" /\ c.request = r /\ c.message = m
        /\ sending' = [sending EXCEPT ![s] = c]
        /\ messages[r] \in Seq(MessageDocs)
        /\ messages'[r] = Append(messages[r], m)
        /\ \A q \in RequestIds : q # r => messages'[q] = messages[q]
        /\ Stored(r)' = Stored(r) \cup {m}
        /\ \A q \in RequestIds : q # r => Stored(q)' = Stored(q)
  BY AddMessageAppends
<1>2. sending'[s] = c /\ \A t \in Senders : t # s => sending'[t] = sending[t]
  BY <1>1, SendGoesOn DEF ChatIInv
<1>3. ASSUME NEW t \in Senders, t # s, sending'[t] # Idle
      PROVE  /\ sending[t] \in Sends /\ sending[t].request \in RequestIds
             /\ sending[t].request # r
             /\ sending[t].message.id # m.id
  BY <1>1, <1>2, <1>3, SendShape DEF ChatIInv, ChatTypeOK, SendsSerialised, MessagesAreDistinct
<1>4. MessagesAreDistinct'
  <2>1. ASSUME NEW t \in Senders, AtSend(t, "add")', NEW q \in RequestIds, NEW n \in Stored(q)'
        PROVE  n.id # sending'[t].message.id
    <3>1. t # s /\ sending'[t] = sending[t] /\ sending'[t] # Idle
      BY <1>1, <1>2, <2>1 DEF AtSend, Idle
    <3>2. n \in Stored(q) \/ n = m
      BY <1>1, <2>1
    <3> QED
      BY <1>3, <2>1, <3>1, <3>2 DEF MessagesAreDistinct, AtSend
  <2>2. \A t, v \in Senders :
          t # v /\ sending'[t] # Idle /\ sending'[v] # Idle
            => sending'[t].message.id # sending'[v].message.id
    BY <1>1, <1>2 DEF MessagesAreDistinct
  <2> QED
    BY <2>1, <2>2 DEF MessagesAreDistinct
<1>5. LatestIsShown'
  <2>1. /\ Append(messages[r], m) # << >>
        /\ Append(messages[r], m)[Len(Append(messages[r], m))] = m
    BY <1>1
  <2>2. ASSUME NEW t \in Senders, AtSend(t, "preview")'
        PROVE  /\ messages'[sending'[t].request] # << >>
               /\ messages'[sending'[t].request][Len(messages'[sending'[t].request])]
                    = sending'[t].message
    <3>1. CASE t = s
      BY <1>1, <1>2, <2>1, <3>1
    <3>2. CASE t # s
      <4>1. sending'[t] = sending[t] /\ sending'[t] # Idle /\ AtSend(t, "preview")
        BY <1>2, <2>2, <3>2 DEF AtSend, Idle
      <4>2. messages'[sending[t].request] = messages[sending[t].request]
        BY <1>1, <1>3, <3>2, <4>1
      <4> QED
        BY <4>1, <4>2 DEF LatestIsShown, LastMessage
    <3> QED
      BY <3>1, <3>2
  <2> QED
    BY <2>2 DEF LatestIsShown, LastMessage
<1> QED
  BY <1>4, <1>5

\* Whichever step a send takes, it keeps the facts about sends.
LEMMA SendStepSerial ==
    ASSUME ChatIInv, SendsSerialised, MessagesAreDistinct, LatestIsShown,
           NEW s \in Senders, SendStep(s)
    PROVE  MessagesAreDistinct' /\ LatestIsShown'
<1>1. Idle \in Sends /\ Idle.step \notin {"add", "preview"}
  BY DEF Sends, Idle
<1>2. ASSUME NEW u \in Users, NEW r \in RequestIds, NEW m \in MessageIds, BeginSend(s, u, r, m)
      PROVE  MessagesAreDistinct' /\ LatestIsShown'
  BY <1>2, BeginSendSerial
<1>3. CASE AddMessage(s)
  BY <1>3, AddMessageSerial
<1>4. CASE SetPreview(s)
  <2>1. PICK c \in Sends : /\ sending[s] # Idle
                           /\ c.step = "notify" /\ c.message = sending[s].message
                           /\ sending' = [sending EXCEPT ![s] = c]
                           /\ UNCHANGED messages
    BY <1>4, SetPreviewShows
  <2> QED
    BY <2>1, LaterSendSerial
<1>5. CASE NotifyOtherParticipant(s)
  <2>1. /\ sending[s] # Idle /\ UNCHANGED messages
        /\ sending' = [sending EXCEPT ![s] = Idle]
    BY <1>5, SendAt DEF NotifyOtherParticipant
  <2> QED
    BY <1>1, <2>1, LaterSendSerial
<1>6. CASE AbortSend(s)
  <2>1. /\ sending[s] # Idle /\ UNCHANGED messages
        /\ sending' = [sending EXCEPT ![s] = Idle]
    BY <1>6 DEF AbortSend
  <2> QED
    BY <1>1, <2>1, LaterSendSerial
<1> QED
  BY <1>2, <1>3, <1>4, <1>5, <1>6 DEF SendStep

LEMMA InitSerialChat == ChatInit => SerialChatIInv
<1> SUFFICES ASSUME ChatInit PROVE SerialChatIInv
  OBVIOUS
<1>1. SerialIInv /\ ChatIInv
  BY InitSerial, InitChat DEF ChatInit
<1>2. PartiesAreTwo
  BY DEF ChatInit, Init, PartiesAreTwo
<1>3. \A s \in Senders : sending[s] = Idle
  BY DEF ChatInit
<1>4. SendsSerialised
  BY <1>3 DEF SendsSerialised
<1>5. MessagesAreDistinct /\ LatestIsShown
  BY <1>3 DEF MessagesAreDistinct, LatestIsShown, AtSend, Idle
<1> QED
  BY <1>1, <1>2, <1>4, <1>5 DEF SerialChatIInv

LEMMA NextSerialChat ==
    SerialChatIInv /\ [ChatNext /\ NoCallIsRepeated' /\ SendsSerialised']_allVars
      => SerialChatIInv'
<1> SUFFICES ASSUME SerialChatIInv,
                    [ChatNext /\ NoCallIsRepeated' /\ SendsSerialised']_allVars
             PROVE  SerialChatIInv'
  OBVIOUS
<1>1. SerialIInv' /\ IInv'
  BY SerialTables, NextSerial DEF SerialChatIInv, SerialIInv
<1>2. ChatIInv'
  BY NextChat DEF SerialChatIInv, SerialIInv
<1>3. SendsSerialised'
  BY DEF SerialChatIInv, SendsSerialised, allVars, chatVars
<1>4. CASE UNCHANGED allVars
  <2>1. UNCHANGED <<requests, parties, messages, sending>>
    BY <1>4 DEF allVars, vars, chatVars
  <2>2. PartiesAreTwo'
    BY <2>1 DEF SerialChatIInv, PartiesAreTwo
  <2> QED
    BY <1>1, <1>2, <1>3, <2>1, <2>2, SameSends DEF SerialChatIInv
<1>5. CASE ServerStep /\ RememberParties
  <2>1. Next /\ UNCHANGED <<messages, sending>>
    BY <1>5, ServerSteps, ServerLeavesSends
  <2>2. PartiesAreTwo'
    BY <1>1, <1>5, <2>1, PartiesStayTwo DEF SerialChatIInv
  <2> QED
    BY <1>1, <1>2, <1>3, <2>1, <2>2, SameSends DEF SerialChatIInv
<1>6. ASSUME NEW s \in Senders, SendStep(s), UNCHANGED vars, UNCHANGED parties
      PROVE  SerialChatIInv'
  <2>1. PartiesAreTwo'
    BY <1>6 DEF SerialChatIInv, PartiesAreTwo, vars
  <2>2. MessagesAreDistinct' /\ LatestIsShown'
    BY <1>6, SendStepSerial DEF SerialChatIInv
  <2> QED
    BY <1>1, <1>2, <1>3, <2>1, <2>2 DEF SerialChatIInv
<1> QED
  BY <1>4, <1>5, <1>6 DEF ChatNext

\* Where no call is repeated, and sends into one thread do not overlap, the
\* message a send is about to show is still the last one of its thread, and
\* every message is stored once (CreateThread, SendMessage).
THEOREM SerialChatInvariance == SerialChatSpec => []SerialChatIInv
  BY InitSerialChat, NextSerialChat, PTL DEF SerialChatSpec

-----------------------------------------------------------------------------
(***************************************************************************)
(* The documents implement the documented conversation (module             *)
(* Conversation): the steps that matter are the accept that sets a thread, *)
(* the three writes of a send, and whatever changes a request's standing.  *)
(***************************************************************************)

\* The mapping, one thread at a time.
Members(r) == IF thread[r] = NoThread THEN {} ELSE thread[r].participants

Shown(r) == {thread[r].preview} \cap MessageIds

\* Threads of which nothing changes.
LEMMA SameThreads ==
    ASSUME UNCHANGED thread
    PROVE  \A r \in RequestIds : Members(r)' = Members(r) /\ Shown(r)' = Shown(r)
  BY DEF Members, Shown

\* A step that changes no request's standing and no document is none.
LEMMA SameTalk ==
    ASSUME UNCHANGED <<thread, messages, pushed>>, NoneChanges
    PROVE  UNCHANGED Talk!conversationVars
  BY SameThreads DEF Talk!conversationVars, NoneChanges, Members, Shown

\* A step of the server that sets no thread: an agreement, an end, or nothing.
LEMMA TableStepsTalk ==
    ASSUME SerialIInv, Next, UNCHANGED <<thread, messages, pushed>>
    PROVE  Talk!ConversationNext \/ UNCHANGED Talk!conversationVars
<1>1. \A r \in RequestIds : Members(r)' = Members(r) /\ Shown(r)' = Shown(r)
  BY SameThreads
<1>2. CASE NoneChanges
  BY <1>2, SameTalk
<1>3. CASE OneIsAgreed
  <2>1. PICK q \in RequestIds :
          /\ Standing(q) = "open" /\ Standing(q)' = "agreed"
          /\ \A r \in RequestIds : r # q => Standing(r)' = Standing(r)
    BY <1>3 DEF OneIsAgreed
  <2>2. Talk!Agree(q)
    BY <1>1, <2>1 DEF Talk!Agree, Members, Shown
  <2> QED
    BY <2>2 DEF Talk!ConversationNext
<1>4. CASE SomeAreGone
  <2>1. PICK gone \in SUBSET RequestIds :
          \A r \in RequestIds : Standing(r)' = IF r \in gone THEN "gone" ELSE Standing(r)
    BY <1>4 DEF SomeAreGone
  <2>2. Talk!Forget(gone)
    BY <1>1, <2>1 DEF Talk!Forget, Members, Shown
  <2> QED
    BY <2>2 DEF Talk!ConversationNext
<1> QED
  BY <1>2, <1>3, <1>4, RequestsStand

\* The accept sets a thread between the two parties, of a request that is not
\* agreed upon yet.
LEMMA CreateThreadIsOpen ==
    ASSUME SerialChatIInv, NEW h \in Handlers, CreateThreadDoc(h), ~UNCHANGED thread
    PROVE  \E r \in RequestIds, u, v \in Users : Talk!Open(r, u, v)
<1>1. ChatTypeOK /\ TypeOK /\ PartiesAreFixed
  BY DEF SerialChatIInv, ChatIInv, SerialIInv, IInv
<1>2. PICK q \in RequestIds :
        /\ q = call[h].request /\ At(h, "create_thread")
        /\ thread' = [thread EXCEPT ![q] = [participants |-> parties[q], preview |-> NoPreview]]
  BY <1>1, CallShape DEF CreateThreadDoc, CreateThread, At, TypeOK
<1>3. UNCHANGED <<requests, messages, pushed>>
  BY DEF CreateThreadDoc, CreateThread
<1>4. requests[q] # Unused
  BY <1>2 DEF SerialChatIInv, ChatIInv, AcceptsWhatWasMade
<1>5. PICK u, v \in Users : u # v /\ parties[q] = {u, v}
  BY <1>4 DEF SerialChatIInv, PartiesAreTwo
<1>6. Standing(q) # "agreed"
  <2>1. Live(q) => requests[q].status = "pending"
    BY <1>2 DEF SerialChatIInv, SerialIInv, ReadsAreFresh, At
  <2> QED
    BY <2>1 DEF Standing, Live, Statuses
<1>7. Members(q) \in {{}, {u, v}}
  BY <1>1, <1>5 DEF PartiesAreFixed, Members
<1>8. /\ thread'[q].participants = parties[q] /\ thread'[q].preview = NoPreview
      /\ thread'[q] # NoThread
      /\ \A r \in RequestIds : r # q => thread'[r] = thread[r]
  <2>1. /\ thread'[q] = [participants |-> parties[q], preview |-> NoPreview]
        /\ \A r \in RequestIds : r # q => thread'[r] = thread[r]
    BY <1>1, <1>2 DEF ChatTypeOK
  <2>2. DOMAIN thread'[q] = {"participants", "preview"} /\ DOMAIN NoThread = {"preview"}
    BY <2>1 DEF NoThread
  <2> QED
    BY <2>1, <2>2
<1>9. /\ Members(q)' = {u, v} /\ Shown(q)' = {}
      /\ \A r \in RequestIds : r # q => Members(r)' = Members(r) /\ Shown(r)' = Shown(r)
  BY <1>5, <1>8, ThreadShape DEF Members, Shown
<1>10. \A r \in RequestIds : Standing(r)' = Standing(r)
  BY <1>3 DEF Standing
<1>11. Talk!Open(q, u, v)
  BY <1>3, <1>5, <1>6, <1>7, <1>9, <1>10 DEF Talk!Open, Members, Shown
<1> QED
  BY <1>11

\* Standing and threads, as a send leaves them.
LEMMA SendsLeaveRows ==
    ASSUME UNCHANGED vars
    PROVE  \A r \in RequestIds : Standing(r)' = Standing(r)
  BY DEF vars, Standing

\* Storing a message is saying it.
LEMMA AddMessageIsSay ==
    ASSUME SerialChatIInv, NEW s \in Senders, AddMessage(s), UNCHANGED vars
    PROVE  \E r \in RequestIds, u \in Users, m \in MessageIds : Talk!Say(r, u, m)
<1>1. PICK r \in RequestIds, message \in MessageDocs :
        /\ sending[s] # Idle /\ AtSend(s, "add")
        /\ r = sending[s].request /\ message = sending[s].message
        /\ messages' = [messages EXCEPT ![r] = Append(@, message)]
  BY AddMessageAppends DEF SerialChatIInv
<1>2. PICK u \in Users, m \in MessageIds :
        /\ message = [id |-> m, sender |-> u] /\ message.id = m /\ message.sender = u
  BY DEF MessageDocs
<1>3. u \in Members(r)
  BY <1>1, <1>2 DEF SerialChatIInv, ChatIInv, SendIsOnTrack, PartiesAreFixed, Members
<1>4. \A q \in RequestIds : \A said \in Stored(q) : said.id # m
  BY <1>1, <1>2 DEF SerialChatIInv, MessagesAreDistinct
<1>5. UNCHANGED <<thread, pushed>>
  BY DEF AddMessage
<1>6. /\ \A q \in RequestIds : Members(q)' = Members(q) /\ Shown(q)' = Shown(q)
      /\ \A q \in RequestIds : Standing(q)' = Standing(q)
  BY <1>5, SameThreads, SendsLeaveRows
<1>7. Talk!Say(r, u, m)
  BY <1>1, <1>2, <1>3, <1>4, <1>5, <1>6 DEF Talk!Say, Talk!Said, Stored, Members, Shown
<1> QED
  BY <1>7

\* The preview shows what was said last.
LEMMA SetPreviewIsShow ==
    ASSUME SerialChatIInv, NEW s \in Senders, SetPreview(s), UNCHANGED vars
    PROVE  \E r \in RequestIds : Talk!Show(r)
<1>1. PICK r \in RequestIds, m \in MessageDocs :
        /\ AtSend(s, "preview") /\ r = sending[s].request /\ m = sending[s].message
        /\ UNCHANGED <<messages, pushed>>
        /\ thread[r] # NoThread /\ thread'[r] # NoThread
        /\ thread'[r].participants = thread[r].participants
        /\ thread'[r].preview = m.id /\ m.id \in MessageIds
        /\ \A q \in RequestIds : q # r => thread'[q] = thread[q]
  BY SetPreviewShows DEF SerialChatIInv
<1>2. messages[r] # << >> /\ messages[r][Len(messages[r])] = m
  BY <1>1 DEF SerialChatIInv, LatestIsShown, LastMessage
<1>3. /\ \A q \in RequestIds : Members(q)' = Members(q)
      /\ Shown(r)' = {m.id}
      /\ \A q \in RequestIds : q # r => Shown(q)' = Shown(q)
  BY <1>1 DEF Members, Shown
<1>4. Talk!Show(r)
  BY <1>1, <1>2, <1>3, SendsLeaveRows DEF Talk!Show, Talk!LastSaid, Members, Shown
<1> QED
  BY <1>4

\* A push that goes out tells the other party.
LEMMA NotifyIsTell ==
    ASSUME SerialChatIInv, NEW s \in Senders, NotifyOtherParticipant(s), UNCHANGED vars,
           ~UNCHANGED pushed
    PROVE  \E r \in RequestIds, u \in Users :
             \E message \in Stored(r) : Talk!Tell(r, u, message)
<1>1. /\ AtSend(s, "notify") /\ sending[s] # Idle /\ sending[s] \in Sends
      /\ UNCHANGED <<thread, messages>>
  BY SendAt DEF SerialChatIInv, ChatIInv, ChatTypeOK, NotifyOtherParticipant
<1>2. PICK r \in RequestIds, message \in MessageDocs :
        r = sending[s].request /\ message = sending[s].message
  BY <1>1, SendShape
<1>3. /\ message \in Stored(r) /\ thread[r] # NoThread
      /\ thread[r].participants = parties[r] /\ parties[r] \subseteq Users
  BY <1>1, <1>2 DEF SerialChatIInv, ChatIInv, ChatTypeOK, SendIsOnTrack, PartiesAreFixed, AtSend
<1>4. PICK u \in Users :
        /\ u \in thread[r].participants \ {message.sender}
        /\ pushed' = pushed \cup {[to |-> u, request |-> r, message |-> message]}
  BY <1>2, <1>3 DEF NotifyOtherParticipant, Push
<1>5. \A q \in RequestIds :
        Members(q)' = Members(q) /\ Shown(q)' = Shown(q) /\ Standing(q)' = Standing(q)
  BY <1>1, SameThreads, SendsLeaveRows
<1>6. Talk!Tell(r, u, message)
  BY <1>1, <1>3, <1>4, <1>5 DEF Talk!Tell, Talk!Said, Stored, Members, Shown
<1> QED
  BY <1>3, <1>6

\* Every step of such calls and sends is a step of the conversation.
LEMMA TalkSteps ==
    SerialChatIInv /\ [ChatNext /\ NoCallIsRepeated' /\ SendsSerialised']_allVars
      => [Talk!ConversationNext]_(Talk!conversationVars)
<1> SUFFICES ASSUME SerialChatIInv,
                    [ChatNext /\ NoCallIsRepeated' /\ SendsSerialised']_allVars
             PROVE  Talk!ConversationNext \/ UNCHANGED Talk!conversationVars
  OBVIOUS
<1>1. CASE UNCHANGED allVars
  <2>1. UNCHANGED <<requests, thread, messages, pushed>>
    BY <1>1 DEF allVars, vars, chatVars
  <2> QED
    BY <2>1, SameRowsStand, SameTalk
<1>2. CASE ServerStep /\ RememberParties
  <2>1. Next /\ UNCHANGED <<messages, pushed>>
    BY <1>2, ServerSteps, ServerLeavesSends
  <2>2. CASE UNCHANGED thread
    BY <2>1, <2>2, TableStepsTalk DEF SerialChatIInv
  <2>3. CASE ~UNCHANGED thread
    <3>1. PICK h \in Handlers : CreateThreadDoc(h)
      BY <1>2, <2>3 DEF ServerStep
    <3>2. \E r \in RequestIds, u, v \in Users : Talk!Open(r, u, v)
      BY <2>3, <3>1, CreateThreadIsOpen
    <3> QED
      BY <3>2 DEF Talk!ConversationNext
  <2> QED
    BY <2>2, <2>3
<1>3. ASSUME NEW s \in Senders, SendStep(s), UNCHANGED vars
      PROVE  Talk!ConversationNext \/ UNCHANGED Talk!conversationVars
  <2>1. CASE AddMessage(s)
    BY <1>3, <2>1, AddMessageIsSay DEF Talk!ConversationNext
  <2>2. CASE SetPreview(s)
    BY <1>3, <2>2, SetPreviewIsShow DEF Talk!ConversationNext
  <2>3. CASE NotifyOtherParticipant(s) /\ ~UNCHANGED pushed
    BY <1>3, <2>3, NotifyIsTell DEF Talk!ConversationNext, Talk!Said, Stored
  <2>4. CASE UNCHANGED <<thread, messages, pushed>>
    <3>1. NoneChanges
      BY <1>3, SendsLeaveRows DEF NoneChanges
    <3> QED
      BY <2>4, <3>1, SameTalk
  <2> QED
    BY <1>3, <2>1, <2>2, <2>3, <2>4 DEF SendStep, BeginSend, AbortSend, NotifyOtherParticipant
<1> QED
  BY <1>1, <1>2, <1>3 DEF ChatNext

\* Such calls and sends, each of several writes and cut off anywhere,
\* keep what the documentation promises of a thread: it is between two
\* parties, only grows, shows its last message when it shows a new one, tells
\* the other party, and is not opened anew once the request is accepted.
THEOREM ConversationIsImplemented == SerialChatSpec => ImplementsConversation
<1>1. ChatInit => Talk!ConversationInit
  <2> SUFFICES ASSUME ChatInit PROVE Talk!ConversationInit
    OBVIOUS
  <2>1. \A r \in RequestIds : Members(r) = {} /\ Shown(r) = {} /\ Standing(r) = "open"
    BY ThreadShape DEF ChatInit, Init, Unused, Members, Shown, Standing
  <2> QED
    BY <2>1 DEF ChatInit, Talk!ConversationInit, Members, Shown
<1> QED
  BY <1>1, TalkSteps, SerialChatInvariance, PTL
     DEF SerialChatSpec, ImplementsConversation, Talk!ConversationSpec

\* The whole of the documentation's promises at once: what the same calls do
\* to the tables is the borrowing flow (module Lending), though threads and
\* messages are written beside them in no transaction.
THEOREM FlowAndConversation == SerialChatSpec => ImplementsLending /\ ImplementsConversation
<1>1. ChatInit => Init
  BY DEF ChatInit
<1>2. SerialChatSpec => SerialSpec
  BY <1>1, SerialTables, PTL DEF SerialChatSpec, SerialSpec
<1> QED
  BY <1>2, FlowIsImplemented, ConversationIsImplemented, PTL

=============================================================================
