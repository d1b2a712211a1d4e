------------------------------- MODULE Server -------------------------------
(***************************************************************************)
(* The life of the process: cmd/api/main.go and httpserver.Run.  The main  *)
(* goroutine connects, migrates, starts a goroutine that listens, and      *)
(* waits for that one to fail or for a signal; then it gives the handlers  *)
(* a grace period, closes the pool and exits.  Handlers, and the           *)
(* goroutines that messages.SendMessage starts and nobody waits for, run   *)
(* until the process is gone.                                              *)
(*                                                                         *)
(* What a request does to the tables is in the other modules; here it is   *)
(* only a goroutine that runs until it answers, or forever.                *)
(***************************************************************************)
EXTENDS Naturals

CONSTANTS
    Clients,    \* connections that clients may open, one request at a time each
    Grace       \* the ten seconds of Run, in ticks

ASSUME ServerAssumption == Grace \in Nat \ {0}

VARIABLES
    main,       \* what the main goroutine is at
    exit,       \* the exit code, once there is one
    signalled,  \* the context of signal.NotifyContext is done
    listener,   \* the goroutine in ListenAndServe; "failed" fills errCh
    elapsed,    \* ticks since Shutdown was called
    pool,       \* the *sql.DB
    conn,       \* conn[c]: a connection, and whether a handler runs on it
    push,       \* push[c]: the push of the last message sent on c
    lost        \* connections of which a push was given up (history)

serverVars == <<main, exit, signalled, listener, elapsed, pool, conn, push, lost>>

-----------------------------------------------------------------------------

ServerTypeOK ==
    /\ main \in {"connecting", "migrating", "serving", "draining", "returned", "failed", "exited"}
    /\ exit \in {"none", "0", "1"}
    /\ signalled \in BOOLEAN
    /\ listener \in {"none", "starting", "open", "failed", "closed"}
    /\ elapsed \in 0..Grace
    /\ pool \in {"none", "open", "closed"}
    /\ conn \in [Clients -> {"none", "idle", "busy"}]
    /\ push \in [Clients -> {"none", "due", "sending"}]
    /\ lost \subseteq Clients

Alive == main # "exited"

Busy == {c \in Clients : conn[c] = "busy"}

\* Shutdown has been called.
InShutdown == main \in {"draining", "returned"} \/ elapsed = Grace

ServerInit ==
    /\ main = "connecting"
    /\ exit = "none"
    /\ signalled = FALSE
    /\ listener = "none"
    /\ elapsed = 0
    /\ pool = "none"
    /\ conn = [c \in Clients |-> "none"]
    /\ push = [c \in Clients |-> "none"]
    /\ lost = {}

-----------------------------------------------------------------------------
(***************************************************************************)
(* Starting.  The ping runs under the signal's context, the migrations     *)
(* under none.                                                             *)
(***************************************************************************)

Connect ==
    /\ main = "connecting"
    /\ ~signalled
    /\ main' = "migrating"
    /\ pool' = "open"
    /\ UNCHANGED <<exit, signalled, listener, elapsed, conn, push, lost>>

ConnectFails ==
    /\ main = "connecting"
    /\ main' = "failed"
    /\ UNCHANGED <<exit, signalled, listener, elapsed, pool, conn, push, lost>>

Migrate ==
    /\ main = "migrating"
    /\ \/ main' = "serving" /\ listener' = "starting"
       \/ main' = "failed" /\ listener' = listener
    /\ UNCHANGED <<exit, signalled, elapsed, pool, conn, push, lost>>

-----------------------------------------------------------------------------
(***************************************************************************)
(* The listening goroutine.  It returns ErrServerClosed, which it keeps to *)
(* itself, when Shutdown was called first.                                 *)
(***************************************************************************)

Listen ==
    /\ Alive
    /\ listener = "starting"
    /\ listener' = IF InShutdown THEN "closed" ELSE "open"
    /\ UNCHANGED <<main, exit, signalled, elapsed, pool, conn, push, lost>>

ListenFails ==
    /\ main = "serving"
    /\ listener \in {"starting", "open"}
    /\ listener' = "failed"
    /\ UNCHANGED <<main, exit, signalled, elapsed, pool, conn, push, lost>>

\* A second signal changes nothing: NotifyContext goes on catching them.
Signal ==
    /\ Alive
    /\ signalled' = TRUE
    /\ UNCHANGED <<main, exit, listener, elapsed, pool, conn, push, lost>>

-----------------------------------------------------------------------------
(***************************************************************************)
(* Run's select.  When both channels are ready either may be taken, and    *)
(* with the signal taken nobody reads the listener's error any more.       *)
(***************************************************************************)

TakeError ==
    /\ main = "serving"
    /\ listener = "failed"
    /\ main' = "failed"
    /\ UNCHANGED <<exit, signalled, listener, elapsed, pool, conn, push, lost>>

\* Mutant: Shutdown that leaves the listener open.
TakeSignalListening ==
    /\ main = "serving"
    /\ signalled
    /\ main' = "draining"
    /\ UNCHANGED <<exit, signalled, listener, elapsed, pool, conn, push, lost>>

TakeSignal ==
    /\ main = "serving"
    /\ signalled
    /\ main' = "draining"
    /\ listener' = IF listener = "open" THEN "closed" ELSE listener
    /\ UNCHANGED <<exit, signalled, elapsed, pool, conn, push, lost>>

-----------------------------------------------------------------------------
(***************************************************************************)
(* Shutdown polls: it closes what is idle and returns when nothing is left *)
(* that is not.  After the grace period it returns an error instead.       *)
(***************************************************************************)

\* Mutant: Close in place of Shutdown, which waits for nobody.
PollWaitingForNobody ==
    /\ main = "draining"
    /\ conn' = [c \in Clients |-> IF conn[c] = "idle" THEN "none" ELSE conn[c]]
    /\ main' = "returned"
    /\ UNCHANGED <<exit, signalled, listener, elapsed, pool, push, lost>>

Poll ==
    /\ main = "draining"
    /\ conn' = [c \in Clients |-> IF conn[c] = "idle" THEN "none" ELSE conn[c]]
    /\ main' = IF Busy = {} THEN "returned" ELSE "draining"
    /\ UNCHANGED <<exit, signalled, listener, elapsed, pool, push, lost>>

Tick ==
    /\ main = "draining"
    /\ elapsed < Grace
    /\ elapsed' = elapsed + 1
    /\ UNCHANGED <<main, exit, signalled, listener, pool, conn, push, lost>>

\* Mutants: a context without a deadline; one that has expired already.
TimeOutNever == FALSE

TimeOutAtOnce ==
    /\ main = "draining"
    /\ main' = "failed"
    /\ UNCHANGED <<exit, signalled, listener, elapsed, pool, conn, push, lost>>

TimeOut ==
    /\ main = "draining"
    /\ elapsed = Grace
    /\ main' = "failed"
    /\ UNCHANGED <<exit, signalled, listener, elapsed, pool, conn, push, lost>>

-----------------------------------------------------------------------------
(***************************************************************************)
(* Leaving.  os.Exit runs no deferred call, so the pool is closed only     *)
(* after a clean shutdown, and before the process is gone.  Pushes that    *)
(* are not out by then go with the process.                                *)
(***************************************************************************)

ClosePool ==
    /\ main = "returned"
    /\ pool = "open"
    /\ pool' = "closed"
    /\ UNCHANGED <<main, exit, signalled, listener, elapsed, conn, push, lost>>

Exit ==
    /\ \/ main = "returned" /\ pool = "closed" /\ exit' = "0"
       \/ main = "failed" /\ exit' = "1"
    /\ main' = "exited"
    /\ push' = [c \in Clients |-> "none"]
    /\ lost' = lost \cup {c \in Clients : push[c] # "none"}
    /\ UNCHANGED <<signalled, listener, elapsed, pool, conn>>

-----------------------------------------------------------------------------
(***************************************************************************)
(* Connections.  A request that is already on its way to an idle           *)
(* connection is served while Shutdown waits; an answer given then closes  *)
(* its connection.  That net/http reads the first bytes of a request       *)
(* shortly before it counts the connection as active is left out.          *)
(***************************************************************************)

Accept(c) ==
    /\ Alive
    /\ listener = "open"
    /\ conn[c] = "none"
    /\ conn' = [conn EXCEPT ![c] = "idle"]
    /\ UNCHANGED <<main, exit, signalled, listener, elapsed, pool, push, lost>>

Serve(c) ==
    /\ Alive
    /\ conn[c] = "idle"
    /\ conn' = [conn EXCEPT ![c] = "busy"]
    /\ UNCHANGED <<main, exit, signalled, listener, elapsed, pool, push, lost>>

\* Mutant: a push under the context of the request, which ends with it.
AnswerCancellingPush(c) ==
    /\ Alive
    /\ conn[c] = "busy"
    /\ conn' = [conn EXCEPT ![c] = "none"]
    /\ push' = [push EXCEPT ![c] = "none"]
    /\ lost' = IF push[c] = "none" THEN lost ELSE lost \cup {c}
    /\ UNCHANGED <<main, exit, signalled, listener, elapsed, pool>>

Answer(c) ==
    /\ Alive
    /\ conn[c] = "busy"
    /\ \/ conn' = [conn EXCEPT ![c] = "none"]
       \/ ~InShutdown /\ conn' = [conn EXCEPT ![c] = "idle"]
    /\ UNCHANGED <<main, exit, signalled, listener, elapsed, pool, push, lost>>

\* go s.notifyOtherParticipant: one push at a time per connection, a bound.
StartPush(c) ==
    /\ Alive
    /\ conn[c] = "busy"
    /\ push[c] = "none"
    /\ push' = [push EXCEPT ![c] = "due"]
    /\ UNCHANGED <<main, exit, signalled, listener, elapsed, pool, conn, lost>>

\* The tokens come from the pool, which may be closed by now.
ReadTokens(c) ==
    /\ Alive
    /\ push[c] = "due"
    /\ \/ /\ pool = "open"
          /\ push' = [push EXCEPT ![c] = "sending"]
          /\ lost' = lost
       \/ /\ pool = "closed"
          /\ push' = [push EXCEPT ![c] = "none"]
          /\ lost' = lost \cup {c}
    /\ UNCHANGED <<main, exit, signalled, listener, elapsed, pool, conn>>

SendPush(c) ==
    /\ Alive
    /\ push[c] = "sending"
    /\ push' = [push EXCEPT ![c] = "none"]
    /\ UNCHANGED <<main, exit, signalled, listener, elapsed, pool, conn, lost>>

-----------------------------------------------------------------------------

MainStep ==
    Connect \/ ConnectFails \/ TakeError \/ TakeSignal \/ Poll \/ TimeOut \/ ClosePool \/ Exit

ServerNext ==
    \/ MainStep
    \/ Migrate
    \/ Tick
    \/ Signal
    \/ Listen
    \/ ListenFails
    \/ \E c \in Clients :
         Accept(c) \/ Serve(c) \/ Answer(c) \/ StartPush(c) \/ ReadTokens(c) \/ SendPush(c)

\* Nothing obliges a handler, a push or a migration to end.
ServerSpec ==
    /\ ServerInit
    /\ [][ServerNext]_serverVars
    /\ WF_serverVars(MainStep)
    /\ WF_serverVars(Tick)

-----------------------------------------------------------------------------
(***************************************************************************)
(* Properties.                                                             *)
(***************************************************************************)

\* No handler meets a closed pool, and an exit code of 0 means that somebody
\* asked for the exit and that every request that had reached a handler was
\* answered (main.go:36, :58): also those that arrived during the shutdown.
CleanExit ==
    /\ pool = "closed" => Busy = {}
    /\ exit = "0" => signalled /\ Busy = {}

\* A process that had begun to listen cuts requests off only with an error,
\* and only when the grace period is over or the listener has failed
\* (server.go:34-40).
CutOffOnlyAfterGrace ==
    main = "exited" /\ Busy # {} => exit = "1" /\ (elapsed = Grace \/ listener = "failed")

\* A push survives the request that caused it (messages/service.go:86): it is
\* given up only when the pool is closed or the process exits, and that only
\* after a signal or a failure of the listener.  Nobody waits for it then,
\* whatever the exit code.
PushesOutliveRequests ==
    lost # {} =>
      /\ pool = "closed" \/ main = "exited"
      /\ signalled \/ listener = "failed"

\* Once Run stops waiting for the signal nobody new gets a connection
\* (server.go:40).
NoNewConnections ==
    [][\A c \in Clients :
         InShutdown /\ conn[c] = "none" => conn'[c] = "none"]_serverVars

\* After a signal, or a listener's failure, the process ends, with handlers
\* and pushes that never do; but for one that is still migrating.
StopsInTheEnd ==
    (main # "migrating" /\ (signalled \/ listener = "failed")) ~> main = "exited"

\* Not so, see lost_error: the select may take the signal and drop an error
\* that is ready as well (server.go:33).
FailureIsReported == exit = "0" => listener # "failed"

\* Not so, see lost_push: Shutdown counts connections, and a push is on none
\* (messages/service.go:86, server.go:40).
CleanExitLosesNoPush == exit = "0" => lost = {}

\* Not so, see stuck_migration: a migration is not told about the signal
\* (main.go:89, postgres.go:48).
SignalStops == signalled ~> main = "exited"

-----------------------------------------------------------------------------
(***************************************************************************)
(* Why the safety properties hold.                                         *)
(***************************************************************************)

\* Nobody is connected before the listener has started, and it is started
\* when the migrations are done.
ListensWhenReady ==
    /\ main \in {"connecting", "migrating"} => listener = "none" /\ elapsed = 0
    /\ main \in {"serving", "draining", "returned"} => listener # "none"
    /\ listener = "none" =>
         /\ \A c \in Clients : conn[c] = "none" /\ push[c] = "none"
         /\ lost = {}

\* A shutdown was asked for, and has closed the listener for good, also a
\* listener that has yet to start.
ShutdownClosesListener ==
    main \in {"draining", "returned"} \/ elapsed # 0 =>
      /\ main \in {"draining", "returned", "failed", "exited"}
      /\ signalled
      /\ listener # "open"

\* From a clean return of Shutdown on there is nobody left, and only then is
\* the pool closed and 0 the exit code.
ReturnIsClean ==
    /\ exit = "0" \/ pool = "closed" => main \in {"returned", "exited"}
    /\ exit = "0" \/ pool = "closed" \/ main = "returned" =>
         signalled /\ \A c \in Clients : conn[c] = "none"
    /\ lost # {} => pool = "closed" \/ main = "exited"

\* There is an exit code once there is an exit, and 1 has its reasons.
FailureHasReason ==
    /\ exit = "none" <=> main # "exited"
    /\ main = "failed" \/ exit = "1" => elapsed = Grace \/ listener \in {"none", "failed"}

\* The inductive invariant of the proofs.
ServerIInv ==
    /\ ServerTypeOK
    /\ ListensWhenReady
    /\ ShutdownClosesListener
    /\ ReturnIsClean
    /\ FailureHasReason

=============================================================================
