-------------------------------- MODULE Agent --------------------------------
(***************************************************************************)
(* cli/agent/agent.go: the life of an agent, from the start of its service *)
(* to the return of runAgent.  A signal may come while the service is      *)
(* being built, while the listener is being opened or while gRPC serves,   *)
(* and runAgent returns within shutdownTimeout of it whatever hangs.       *)
(*                                                                         *)
(* A result waits in its channel as the state of what was made (service    *)
(* and listener); each has one reader.  The goroutines are followed after  *)
(* runAgent has returned, which the process may not outlive.  gRPC is      *)
(* external: it does what runAgent relies on.  Time is a clock that ticks  *)
(* at any moment, with shutdownTimeout as a number of ticks.               *)
(***************************************************************************)
EXTENDS Naturals, Sequences

CONSTANTS
    Timeout,    \* shutdownTimeout, in ticks
    MaxStart,   \* bound: the last tick at which a shutdown begins
    MaxRpcs     \* bound: RPCs in flight

ASSUME AgentAssumption ==
    Timeout \in Nat \ {0} /\ MaxStart \in Nat /\ MaxRpcs \in Nat

VARIABLES
    clock, doneAt,     \* doneAt: when GracefulStop or Close last returned
    signals, signalAt, \* a signal waits; the time that was forwarded
    apc, deadline, failed, result,  \* runAgent: place, deadline, errors, result
    backend,           \* the context of the backend
    service, begun,    \* the service, and whether it has begun to shut down
    cleanup,           \* the goroutine that closes the service, and its error
    listener, lateCloser,  \* the listener; the goroutine that waits to close it
    health, serve,     \* health status; the goroutine of Serve
    graceful, forced,  \* the goroutines of GracefulStop and Stop
    rpcs               \* RPCs in flight

timeVars    == <<clock, doneAt>>
signalVars  == <<signals, signalAt>>
mainVars    == <<apc, deadline, failed, result>>
serviceVars == <<service, begun, cleanup>>
listenVars  == <<listener, lateCloser>>
grpcVars    == <<serve, graceful, forced, rpcs>>

vars == <<timeVars, signalVars, mainVars, backend, serviceVars, listenVars,
          health, grpcVars>>

\* runAgent has started the goroutine that builds the service.
Init ==
    /\ clock = 0 /\ doneAt = 0
    /\ signals = FALSE /\ signalAt = <<>>
    /\ apc = "awaitInit" /\ deadline = 0 /\ failed = FALSE /\ result = "none"
    /\ backend = "alive"
    /\ service = "building" /\ begun = FALSE /\ cleanup = "none"
    /\ listener = "none" /\ lateCloser = FALSE
    /\ health = "none"
    /\ serve = "none" /\ graceful = "none" /\ forced = "none" /\ rpcs = 0

-----------------------------------------------------------------------------
(***************************************************************************)
(* Time, signals and the constructors.                                     *)
(***************************************************************************)
Tick ==
    /\ clock < IF deadline = 0 THEN MaxStart ELSE deadline + 1
    /\ clock' = clock + 1
    /\ UNCHANGED <<doneAt, signalVars, mainVars, backend, serviceVars, listenVars,
                   health, grpcVars>>

outsideFrame == UNCHANGED <<timeVars, mainVars, backend, health, grpcVars>>

\* External: a signal is raised; signals has room for one.
raise ==
    /\ apc # "returned" /\ ~signals /\ signals' = TRUE
    /\ outsideFrame /\ UNCHANGED <<signalAt, serviceVars, listenVars>>

\* The goroutine forwards the time of the first signal, and ends.
forward ==
    /\ signals /\ signalAt = <<>> /\ apc # "returned"
    /\ signals' = FALSE /\ signalAt' = <<clock>>
    /\ outsideFrame /\ UNCHANGED <<serviceVars, listenVars>>

\* lake.NewService and net.Listen return, however late.
NewServiceReturns(outcome) ==
    /\ service = "building" /\ service' = outcome
    /\ outsideFrame /\ UNCHANGED <<signalVars, begun, cleanup, listenVars>>

listenReturns(outcome) ==
    /\ listener = "opening" /\ listener' = outcome
    /\ outsideFrame /\ UNCHANGED <<signalVars, serviceVars, lateCloser>>

\* Mutant of lateListener: the listener is left to itself.
lateListenerLost == FALSE

\* listenWithSignal keeps a goroutine for a listener that appears late.
lateListener == lateCloser

closeLateListener ==
    /\ lateListener /\ listener = "open" /\ listener' = "closed"
    /\ outsideFrame /\ UNCHANGED <<signalVars, serviceVars, lateCloser>>

-----------------------------------------------------------------------------
(***************************************************************************)
(* gRPC.                                                                   *)
(***************************************************************************)
grpcFrame ==
    UNCHANGED <<clock, signalVars, mainVars, backend, serviceVars, lateCloser, health>>

\* An RPC is admitted by the service, or ends.
rpc ==
    /\ \/ serve = "serving" /\ ~begun /\ rpcs < MaxRpcs /\ rpcs' = rpcs + 1
       \/ rpcs > 0 /\ rpcs' = rpcs - 1
    /\ grpcFrame /\ UNCHANGED <<doneAt, listener, serve, graceful, forced>>

serverStopped == graceful \in {"running", "done"} \/ forced = "done"

\* Serve takes the listener, and closes it if the server is already stopped.
Serve ==
    /\ serve = "starting"
    /\ IF serverStopped
       THEN serve' = "returned" /\ listener' = "closed"
       ELSE serve' = "serving" /\ UNCHANGED listener
    /\ grpcFrame /\ UNCHANGED <<doneAt, graceful, forced, rpcs>>

serveFails ==
    /\ serve = "serving" /\ serve' = "failed" /\ listener' = "closed"
    /\ grpcFrame /\ UNCHANGED <<doneAt, graceful, forced, rpcs>>

\* A stop closes the listener that Serve holds, and ends Serve.
endServe ==
    IF serve = "serving"
    THEN serve' = "returned" /\ listener' = "closed"
    ELSE UNCHANGED <<serve, listener>>

GracefulStop ==
    /\ graceful = "start" /\ graceful' = "running" /\ endServe
    /\ grpcFrame /\ UNCHANGED <<doneAt, forced, rpcs>>

\* GracefulStop waits for the RPCs, or for a Stop that cuts them off.
gracefulReturns ==
    /\ graceful = "running" /\ (rpcs = 0 \/ forced = "done")
    /\ graceful' = "done" /\ doneAt' = clock
    /\ grpcFrame /\ UNCHANGED <<listener, serve, forced, rpcs>>

Stop ==
    /\ forced = "start" /\ forced' = "done" /\ endServe
    /\ grpcFrame /\ UNCHANGED <<doneAt, graceful, rpcs>>

-----------------------------------------------------------------------------
(***************************************************************************)
(* The goroutine that closes the service.                                  *)
(***************************************************************************)
cleanupFrame ==
    UNCHANGED <<clock, signalVars, mainVars, backend, listenVars, health, grpcVars>>

\* Mutant of resultComes: the late result is read only while runAgent waits.
resultComesInTime == service \in {"open", "failed"} /\ apc = "awaitCleanup"

resultComes == service \in {"open", "failed"}

\* cleanup(<-initialized), in awaitInitialization.
lateResult ==
    /\ cleanup = "wait" /\ resultComes
    /\ cleanup' = IF service = "open" THEN "close" ELSE "error"
    /\ cleanupFrame /\ UNCHANGED <<doneAt, service, begun>>

\* service.Close, which begins with BeginShutdown.
CloseService ==
    /\ cleanup = "close" /\ service = "open"
    /\ service' = "closing" /\ begun' = TRUE
    /\ cleanupFrame /\ UNCHANGED <<doneAt, cleanup>>

\* It returns when its handlers have, and the relayer is closed.
CloseServiceReturns(err) ==
    /\ cleanup = "close" /\ service = "closing" /\ rpcs = 0
    /\ service' = "closed" /\ cleanup' = err /\ doneAt' = clock
    /\ cleanupFrame /\ UNCHANGED begun

-----------------------------------------------------------------------------
(***************************************************************************)
(* runAgent.                                                               *)
(***************************************************************************)
goto(from, to) == apc = from /\ apc' = to

mainFrame == UNCHANGED <<timeVars, signalVars, rpcs>>

\* runAgent returns err, joined to the failure that made it stop, and the
\* deferred initCancel ends the context of the backend.
return(err) ==
    /\ apc' = "returned" /\ backend' = "cancelled"
    /\ result' = IF failed /\ err = "nil" THEN "error" ELSE err

\* newGRPCServer, and the goroutine of listenWithSignal.
serviceInitialized ==
    /\ goto("awaitInit", "listen") /\ service = "open"
    /\ health' = "SERVING" /\ listener' = "opening"
    /\ mainFrame
    /\ UNCHANGED <<deadline, failed, result, backend, serviceVars, lateCloser, serve,
                   graceful, forced>>

initializationFailed ==
    /\ apc = "awaitInit" /\ service = "failed" /\ return("error")
    /\ mainFrame
    /\ UNCHANGED <<deadline, failed, serviceVars, listenVars, health, serve, graceful,
                   forced>>

\* The signal wins: a goroutine keeps the late result.
initializationAborted ==
    /\ goto("awaitInit", "awaitCleanup") /\ signalAt # <<>>
    /\ deadline' = Head(signalAt) + Timeout
    /\ backend' = "cancelled" /\ cleanup' = "wait"
    /\ mainFrame
    /\ UNCHANGED <<failed, result, service, begun, listenVars, health, serve,
                   graceful, forced>>

\* Mutant of expired: the timer is never set.
expiredNever == FALSE

expired == clock >= deadline

\* The end of awaitInitialization: any ready case.
abortReturns ==
    /\ apc = "awaitCleanup"
    /\ \/ cleanup \in {"nil", "error"} /\ return(cleanup)
       \/ expired /\ return("timeout")
    /\ mainFrame
    /\ UNCHANGED <<deadline, failed, serviceVars, listenVars, health, serve, graceful,
                   forced>>

listening ==
    /\ goto("listen", "select") /\ listener = "open" /\ serve' = "starting"
    /\ mainFrame
    /\ UNCHANGED <<deadline, failed, result, backend, serviceVars, listenVars, health,
                   graceful, forced>>

\* Mutant of shutdownStart: the clock is read without looking at signalAt.
shutdownStartNow == clock

\* The time of a signal that is already there, or now.
shutdownStart == IF signalAt # <<>> THEN Head(signalAt) ELSE clock

\* stop(at) is called, with or without a failure to report.
callStop(from, at, failure) ==
    /\ goto(from, "health") /\ deadline' = at + Timeout /\ failed' = failure
    /\ mainFrame
    /\ UNCHANGED <<result, backend, serviceVars, listener, health, serve, graceful,
                   forced>>

\* The signal comes while Listen is under way.
listenInterrupted ==
    /\ signalAt # <<>> /\ callStop("listen", Head(signalAt), FALSE)
    /\ lateCloser' = TRUE

listenFailed ==
    /\ listener = "failed" /\ callStop("listen", shutdownStart, TRUE)
    /\ UNCHANGED lateCloser

serveReturned ==
    /\ serve = "failed" /\ callStop("select", shutdownStart, TRUE)
    /\ UNCHANGED lateCloser

signalled ==
    /\ signalAt # <<>> /\ callStop("select", Head(signalAt), FALSE)
    /\ UNCHANGED lateCloser

-----------------------------------------------------------------------------
(***************************************************************************)
(* stop and shutdownServiceWithin.                                         *)
(***************************************************************************)
stopFrame == mainFrame /\ UNCHANGED <<deadline, failed, service, listenVars, serve>>

shutdownHealth ==
    /\ goto("health", "begin") /\ health' = "NOT_SERVING"
    /\ stopFrame
    /\ UNCHANGED <<result, backend, begun, cleanup, graceful, forced>>

duringDrain == UNCHANGED backend

\* BeginShutdown, and the two goroutines.
beginShutdown ==
    /\ goto("begin", "drain") /\ duringDrain
    /\ begun' = TRUE /\ graceful' = "start" /\ cleanup' = "close"
    /\ stopFrame
    /\ UNCHANGED <<result, health, forced>>

\* The loop has seen both channels.
drained == graceful = "done" /\ cleanup \in {"nil", "error"}

\* The timer, in the loop or in the look at the clock after it.
cancelBackend ==
    /\ goto("drain", "stop") /\ expired /\ backend' = "cancelled"
    /\ stopFrame
    /\ UNCHANGED <<result, begun, cleanup, health, graceful, forced>>

stopServer == forced' = "start"

stopAndReturn ==
    /\ apc = "stop" /\ return("timeout") /\ stopServer
    /\ stopFrame
    /\ UNCHANGED <<begun, cleanup, health, graceful>>

\* Mutant of inTime: the clock is not looked at after the loop.
inTimeAssumed == TRUE

inTime == ~expired

cleanReturn ==
    /\ apc = "drain" /\ drained /\ inTime /\ return(cleanup)
    /\ stopFrame
    /\ UNCHANGED <<begun, cleanup, health, graceful, forced>>

-----------------------------------------------------------------------------
runAgent ==
    \/ serviceInitialized \/ initializationFailed
    \/ initializationAborted \/ abortReturns
    \/ listening \/ listenFailed \/ listenInterrupted \/ signalled \/ serveReturned
    \/ shutdownHealth \/ beginShutdown \/ cancelBackend \/ stopAndReturn \/ cleanReturn

Next ==
    \/ Tick \/ raise \/ forward
    \/ \E outcome \in {"open", "failed"} :
          NewServiceReturns(outcome) \/ listenReturns(outcome)
    \/ rpc \/ Serve \/ serveFails \/ GracefulStop \/ gracefulReturns \/ Stop
    \/ lateResult \/ CloseService \/ closeLateListener
    \/ \E err \in {"nil", "error"} : CloseServiceReturns(err)
    \/ runAgent

Spec == Init /\ [][Next]_vars

(***************************************************************************)
(* Fairness.  Time passes and a goroutine that can go on does.  Nothing is *)
(* assumed of the constructors, of the RPCs or of service.Close, which may *)
(* all hang for ever.                                                      *)
(***************************************************************************)
Fairness ==
    /\ WF_vars(Tick) /\ WF_vars(forward) /\ WF_vars(runAgent)
    /\ WF_vars(lateResult) /\ WF_vars(CloseService) /\ WF_vars(closeLateListener)
    /\ WF_vars(Serve) /\ WF_vars(GracefulStop) /\ WF_vars(gracefulReturns)
    /\ WF_vars(Stop)

FairSpec == Spec /\ Fairness

-----------------------------------------------------------------------------
(***************************************************************************)
(* Properties.                                                             *)
(***************************************************************************)
\* signalAt has room for one time (agent.go:119).
SignalAtType == signalAt \in Seq(Nat) /\ Len(signalAt) <= 1

\* The type of every variable of the agent (agent.go:50-166, 202-233).
TypeOK ==
    /\ clock \in Nat /\ deadline \in Nat /\ doneAt \in Nat
    /\ signals \in BOOLEAN /\ SignalAtType
    /\ apc \in {"awaitInit", "awaitCleanup", "listen", "select", "health",
                "begin", "drain", "stop", "returned"}
    /\ failed \in BOOLEAN /\ result \in {"none", "nil", "error", "timeout"}
    /\ backend \in {"alive", "cancelled"}
    /\ service \in {"building", "failed", "open", "closing", "closed"}
    /\ begun \in BOOLEAN /\ cleanup \in {"none", "wait", "close", "nil", "error"}
    /\ listener \in {"none", "opening", "failed", "open", "closed"}
    /\ lateCloser \in BOOLEAN
    /\ health \in {"none", "SERVING", "NOT_SERVING"}
    /\ serve \in {"none", "starting", "serving", "failed", "returned"}
    /\ graceful \in {"none", "start", "running", "done"}
    /\ forced \in {"none", "start", "done"} /\ rpcs \in 0..MaxRpcs

(***************************************************************************)
(* A nil from an agent that served means that a signal asked for the stop  *)
(* and that it was orderly and in time: no RPC in flight, and server and   *)
(* service closed by their own goroutines within shutdownTimeout of the    *)
(* signal, although the select may take their channels when its timer has  *)
(* fired too (agent.go:215-232).  A failure of Serve or of the listener    *)
(* that runAgent stopped for is never turned into a nil by the shutdown    *)
(* that follows it (agent.go:157, 165).  Nothing is said of a Serve that   *)
(* failed when a signal was there as well: the select may take the signal, *)
(* and then runAgent never reads the failure (agent.go:161-163).           *)
(***************************************************************************)
CleanExit ==
    result = "nil" /\ graceful # "none" =>
        /\ rpcs = 0 /\ graceful = "done" /\ service = "closed" /\ forced = "none"
        /\ ~failed /\ signalAt # <<>>
        /\ doneAt < deadline /\ deadline = Head(signalAt) + Timeout

(***************************************************************************)
(* The time allowed runs from the signal, however long the agent was busy  *)
(* before it looked at it and whatever else made it stop (agent.go:178).   *)
(***************************************************************************)
BudgetRunsFromSignal ==
    deadline # 0 /\ signalAt # <<>> => deadline <= Head(signalAt) + Timeout

-----------------------------------------------------------------------------
(***************************************************************************)
(* Liveness, under Fairness.                                               *)
(***************************************************************************)
\* A signal ends runAgent, whatever hangs (agent.go:85-105, 202-233).
SignalEndsAgent == signals ~> apc = "returned"

(***************************************************************************)
(* What runAgent leaves behind when it returns is cleaned up: a service    *)
(* that is ready only then is closed by the goroutine that waits for it,   *)
(* the listener is closed whichever of the signal, the listener and Serve  *)
(* came first, and the server stops, RPCs that never end included          *)
(* (agent.go:71-77, 94, 134-139, 207, 223).                                *)
(***************************************************************************)
LeftoversAreClosed ==
    /\ apc = "returned" /\ service = "open" ~> service # "open"
    /\ apc = "returned" /\ listener = "open" ~> listener = "closed"
    /\ apc = "returned" /\ graceful # "none" ~> graceful = "done"
=============================================================================
