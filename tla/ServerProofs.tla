---------------------------- MODULE ServerProofs ----------------------------
(***************************************************************************)
(* Proofs of the safety properties of Server, for any number of            *)
(* connections and any grace period.                                       *)
(*                                                                         *)
(* The main goroutine moves in one direction, and what Shutdown has done   *)
(* stays done: the listener does not open again, so a connection that is   *)
(* gone stays gone, and nobody is left when the pool is closed.            *)
(***************************************************************************)
EXTENDS Server, TLAPS

-----------------------------------------------------------------------------
(***************************************************************************)
(* The main goroutine.                                                     *)
(***************************************************************************)

\* Connecting and migrating, or failing to.
LEMMA StartKeepsServerIInv ==
    ASSUME ServerIInv, Connect \/ ConnectFails \/ Migrate
    PROVE  ServerIInv'
<1> USE DEF ServerIInv, ServerTypeOK, ListensWhenReady, ShutdownClosesListener,
            ReturnIsClean, FailureHasReason
<1>1. CASE Connect
  BY <1>1 DEF Connect
<1>2. CASE ConnectFails
  BY <1>2 DEF ConnectFails
<1>3. CASE Migrate
  BY <1>3, ServerAssumption DEF Migrate
<1> QED
  BY <1>1, <1>2, <1>3

\* The two cases of Run's select.
LEMMA SelectKeepsServerIInv ==
    ASSUME ServerIInv, TakeError \/ TakeSignal
    PROVE  ServerIInv'
<1> USE DEF ServerIInv, ServerTypeOK, ListensWhenReady, ShutdownClosesListener,
            ReturnIsClean, FailureHasReason
<1>1. CASE TakeError
  BY <1>1 DEF TakeError
<1>2. CASE TakeSignal
  BY <1>2 DEF TakeSignal
<1> QED
  BY <1>1, <1>2

\* Shutdown closes what is idle, so that nobody is left when nobody is busy.
LEMMA PollKeepsServerIInv ==
    ASSUME ServerIInv, Poll
    PROVE  ServerIInv'
<1>1. ServerTypeOK'
  BY DEF ServerIInv, ServerTypeOK, Poll
<1>2. \A c \in Clients : conn[c] = "none" => conn'[c] = "none"
  BY DEF Poll
<1>3. main' = "returned" => \A c \in Clients : conn'[c] = "none"
  BY DEF ServerIInv, ServerTypeOK, Poll, Busy
<1>4. ListensWhenReady' /\ ShutdownClosesListener' /\ FailureHasReason'
  BY <1>2 DEF ServerIInv, ServerTypeOK, ListensWhenReady, ShutdownClosesListener,
              FailureHasReason, Poll
<1>5. ReturnIsClean'
  BY <1>2, <1>3 DEF ServerIInv, ShutdownClosesListener, ReturnIsClean, Poll
<1> QED
  BY <1>1, <1>4, <1>5 DEF ServerIInv

\* The clock of the grace period.
LEMMA TickKeepsServerIInv ==
    ASSUME ServerIInv, Tick \/ TimeOut
    PROVE  ServerIInv'
<1>1. CASE Tick
  <2>1. elapsed' \in 0..Grace /\ elapsed # Grace
    BY <1>1, ServerAssumption DEF Tick, ServerIInv, ServerTypeOK
  <2>2. UNCHANGED <<main, exit, signalled, listener, pool, conn, push, lost>> /\ main = "draining"
    BY <1>1 DEF Tick
  <2> QED
    BY <2>1, <2>2 DEF ServerIInv, ServerTypeOK, ListensWhenReady, ShutdownClosesListener,
                      ReturnIsClean, FailureHasReason
<1>2. CASE TimeOut
  BY <1>2, ServerAssumption DEF TimeOut, ServerIInv, ServerTypeOK, ListensWhenReady,
     ShutdownClosesListener, ReturnIsClean, FailureHasReason
<1> QED
  BY <1>1, <1>2

\* Closing the pool and leaving.
LEMMA LeaveKeepsServerIInv ==
    ASSUME ServerIInv, ClosePool \/ Exit
    PROVE  ServerIInv'
<1> USE DEF ServerIInv, ServerTypeOK, ListensWhenReady, ShutdownClosesListener,
            ReturnIsClean, FailureHasReason
<1>1. CASE ClosePool
  BY <1>1 DEF ClosePool
<1>2. CASE Exit
  BY <1>2 DEF Exit
<1> QED
  BY <1>1, <1>2

-----------------------------------------------------------------------------
(***************************************************************************)
(* The others.                                                             *)
(***************************************************************************)

\* A listener that starts after Shutdown was called does not open.
LEMMA ListenKeepsServerIInv ==
    ASSUME ServerIInv, Listen \/ ListenFails \/ Signal
    PROVE  ServerIInv'
<1> USE DEF ServerIInv, ServerTypeOK, ListensWhenReady, ShutdownClosesListener,
            ReturnIsClean, FailureHasReason
<1>1. CASE Listen
  BY <1>1, ServerAssumption DEF Listen, InShutdown, Alive
<1>2. CASE ListenFails
  BY <1>2 DEF ListenFails
<1>3. CASE Signal
  BY <1>3 DEF Signal, Alive
<1> QED
  BY <1>1, <1>2, <1>3

\* A connection is opened by an open listener only, and what is on none is
\* on none after a request or an answer.
LEMMA ConnectionKeepsServerIInv ==
    ASSUME ServerIInv, NEW c \in Clients, Accept(c) \/ Serve(c) \/ Answer(c)
    PROVE  ServerIInv'
<1>1. /\ UNCHANGED <<main, exit, signalled, listener, elapsed, pool, push, lost>>
      /\ Alive
      /\ conn' \in [Clients -> {"none", "idle", "busy"}]
  BY DEF ServerIInv, ServerTypeOK, Accept, Serve, Answer
<1>2. listener # "open" => \A d \in Clients : conn[d] = "none" => conn'[d] = "none"
  BY DEF ServerIInv, ServerTypeOK, Accept, Serve, Answer
<1> QED
  BY <1>1, <1>2 DEF ServerIInv, ServerTypeOK, ListensWhenReady, ShutdownClosesListener,
                    ReturnIsClean, FailureHasReason, Alive

\* A push is caused by a request, and given up only when the pool is closed.
LEMMA PushKeepsServerIInv ==
    ASSUME ServerIInv, NEW c \in Clients, StartPush(c) \/ ReadTokens(c) \/ SendPush(c)
    PROVE  ServerIInv'
<1>1. /\ UNCHANGED <<main, exit, signalled, listener, elapsed, pool, conn>>
      /\ push' \in [Clients -> {"none", "due", "sending"}]
      /\ lost' = lost \/ (pool = "closed" /\ lost' = lost \cup {c})
  BY DEF ServerIInv, ServerTypeOK, StartPush, ReadTokens, SendPush
<1>2. push[c] # "none" \/ conn[c] = "busy"
  BY DEF StartPush, ReadTokens, SendPush
<1>3. listener # "none"
  BY <1>2 DEF ServerIInv, ListensWhenReady
<1> QED
  BY <1>1, <1>3 DEF ServerIInv, ServerTypeOK, ListensWhenReady, ShutdownClosesListener,
              ReturnIsClean, FailureHasReason

-----------------------------------------------------------------------------
(***************************************************************************)
(* The theorems.                                                           *)
(***************************************************************************)

LEMMA InitServer == ServerInit => ServerIInv
<1> SUFFICES ASSUME ServerInit PROVE ServerIInv
  OBVIOUS
<1>1. ServerTypeOK
  <2>1. elapsed \in 0..Grace
    BY ServerAssumption DEF ServerInit
  <2>2. conn \in [Clients -> {"none", "idle", "busy"}]
    BY DEF ServerInit
  <2>3. push \in [Clients -> {"none", "due", "sending"}]
    BY DEF ServerInit
  <2> QED
    BY <2>1, <2>2, <2>3 DEF ServerInit, ServerTypeOK
<1>2. ListensWhenReady /\ ShutdownClosesListener /\ ReturnIsClean /\ FailureHasReason
  BY DEF ServerInit, ListensWhenReady, ShutdownClosesListener, ReturnIsClean, FailureHasReason
<1> QED
  BY <1>1, <1>2 DEF ServerIInv

LEMMA NextServer == ServerIInv /\ [ServerNext]_serverVars => ServerIInv'
<1> SUFFICES ASSUME ServerIInv, [ServerNext]_serverVars PROVE ServerIInv'
  OBVIOUS
<1>1. CASE MainStep
  BY <1>1, StartKeepsServerIInv, SelectKeepsServerIInv, PollKeepsServerIInv,
     TickKeepsServerIInv, LeaveKeepsServerIInv DEF MainStep
<1>2. CASE Migrate
  BY <1>2, StartKeepsServerIInv
<1>3. CASE Tick
  BY <1>3, TickKeepsServerIInv
<1>4. CASE Signal \/ Listen \/ ListenFails
  BY <1>4, ListenKeepsServerIInv
<1>5. ASSUME NEW c \in Clients,
             Accept(c) \/ Serve(c) \/ Answer(c) \/ StartPush(c) \/ ReadTokens(c) \/ SendPush(c)
      PROVE  ServerIInv'
  BY <1>5, ConnectionKeepsServerIInv, PushKeepsServerIInv
<1>6. CASE UNCHANGED serverVars
  BY <1>6 DEF serverVars, ServerIInv, ServerTypeOK, ListensWhenReady, ShutdownClosesListener,
              ReturnIsClean, FailureHasReason
<1> QED
  BY <1>1, <1>2, <1>3, <1>4, <1>5, <1>6 DEF ServerNext

\* The process is in order in every state of its life.
THEOREM ServerInvariance == ServerSpec => []ServerIInv
  BY InitServer, NextServer, PTL DEF ServerSpec

\* An exit code of 0 was asked for and leaves nobody unanswered, and no
\* handler meets a closed pool (main, Run).
THEOREM ExitIsClean == ServerSpec => []CleanExit
<1>1. ServerIInv => CleanExit
  BY DEF ServerIInv, ReturnIsClean, CleanExit, Busy
<1> QED
  BY <1>1, ServerInvariance, PTL

\* Handlers are cut off after the whole grace period, or because the listener
\* failed, and the exit code says so (Run).
THEOREM NobodyIsCutOffEarly == ServerSpec => []CutOffOnlyAfterGrace
<1>1. ServerIInv => CutOffOnlyAfterGrace
  <2> SUFFICES ASSUME ServerIInv, main = "exited", Busy # {}
               PROVE  exit = "1" /\ (elapsed = Grace \/ listener = "failed")
    BY DEF CutOffOnlyAfterGrace
  <2>1. PICK c \in Clients : conn[c] = "busy"
    BY DEF Busy
  <2>2. listener # "none" /\ exit # "0" /\ exit # "none"
    BY <2>1 DEF ServerIInv, ListensWhenReady, ReturnIsClean, FailureHasReason
  <2>3. exit = "1"
    BY <2>2 DEF ServerIInv, ServerTypeOK
  <2> QED
    BY <2>2, <2>3 DEF ServerIInv, FailureHasReason
<1> QED
  BY <1>1, ServerInvariance, PTL

\* A push outlives its request: it is given up by a clean shutdown that closed
\* the pool, or by the exit of a process that was told to stop or had lost its
\* listener, also when handlers had used up the grace period (main, Run,
\* notifyOtherParticipant).
THEOREM PushesOutliveTheirRequests == ServerSpec => []PushesOutliveRequests
<1>1. ServerIInv => PushesOutliveRequests
  <2> SUFFICES ASSUME ServerIInv, lost # {}
               PROVE  /\ pool = "closed" \/ main = "exited"
                      /\ signalled \/ listener = "failed"
    BY DEF PushesOutliveRequests
  <2>1. listener # "none" /\ (pool = "closed" \/ main = "exited")
    BY DEF ServerIInv, ListensWhenReady, ReturnIsClean
  <2>2. CASE pool = "closed"
    BY <2>1, <2>2 DEF ServerIInv, ReturnIsClean
  <2>3. CASE main = "exited" /\ exit = "0"
    BY <2>1, <2>3 DEF ServerIInv, ReturnIsClean
  <2>4. CASE main = "exited" /\ exit = "1"
    BY <2>1, <2>4, ServerAssumption DEF ServerIInv, FailureHasReason, ShutdownClosesListener
  <2>5. main = "exited" => exit \in {"0", "1"}
    BY DEF ServerIInv, ServerTypeOK, FailureHasReason
  <2> QED
    BY <2>1, <2>2, <2>3, <2>4, <2>5
<1> QED
  BY <1>1, ServerInvariance, PTL

\* Once Shutdown is called nobody is let in, nor does a listener that was
\* slow to start open behind its back (Run).
THEOREM ShutdownLetsNobodyIn == ServerSpec => NoNewConnections
<1>1. ASSUME ServerIInv, [ServerNext]_serverVars
      PROVE  [\A c \in Clients :
                InShutdown /\ conn[c] = "none" => conn'[c] = "none"]_serverVars
  <2>1. SUFFICES ASSUME NEW c \in Clients, InShutdown, conn[c] = "none",
                        ServerNext
                 PROVE  conn'[c] = "none"
    BY <1>1
  <2>2. listener # "open"
    BY <1>1, <2>1, ServerAssumption DEF InShutdown, ServerIInv, ShutdownClosesListener
  <2>3. CASE \E d \in Clients : Accept(d) \/ Serve(d) \/ Answer(d)
    BY <1>1, <2>1, <2>2, <2>3 DEF ServerIInv, ServerTypeOK, Accept, Serve, Answer
  <2>4. CASE UNCHANGED conn \/ Poll
    BY <2>1, <2>4 DEF Poll
  <2> QED
    BY <2>1, <2>3, <2>4 DEF ServerNext, MainStep, Connect, ConnectFails, TakeError, TakeSignal,
       TimeOut, ClosePool, Exit, Migrate, Tick, Signal, Listen, ListenFails, StartPush,
       ReadTokens, SendPush
<1> QED
  BY <1>1, ServerInvariance, PTL DEF ServerSpec, NoNewConnections

=============================================================================
