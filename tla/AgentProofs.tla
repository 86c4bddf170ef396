----------------------------- MODULE AgentProofs -----------------------------
(***************************************************************************)
(* Theorems about Agent, for every timeout and any number of RPCs.         *)
(***************************************************************************)
EXTENDS Agent, TLAPS

\* What leaves signalAt alone keeps its type.
LEMMA SignalAtSame == SignalAtType /\ UNCHANGED signalAt => SignalAtType'
  BY DEF SignalAtType

LEMMA TypeInit == Init => TypeOK
<1>1. 0 \in 0..MaxRpcs
  BY AgentAssumption DEF AgentAssumption
<1>2. Init => SignalAtType
  BY DEF Init, SignalAtType
<1>3. Init => /\ signals \in BOOLEAN /\ failed \in BOOLEAN /\ begun \in BOOLEAN
              /\ lateCloser \in BOOLEAN
  BY DEF Init
<1> QED BY <1>1, <1>2, <1>3 DEF Init, TypeOK

(***************************************************************************)
(* Steps outside runAgent keep the type.                                   *)
(***************************************************************************)
LEMMA OutsideType ==
  ASSUME TypeOK,
         \/ Tick \/ raise \/ forward \/ closeLateListener
         \/ \E outcome \in {"open", "failed"} :
               NewServiceReturns(outcome) \/ listenReturns(outcome)
  PROVE  TypeOK'
<1> USE SignalAtSame DEF TypeOK, outsideFrame, timeVars, signalVars, mainVars, serviceVars,
            listenVars, grpcVars
<1>1. CASE Tick BY <1>1 DEF Tick
<1>2. CASE raise BY <1>2 DEF raise
<1>3. CASE forward
  <2>1. clock \in Nat
    OBVIOUS
  <2>2. SignalAtType'
    BY <1>3, <2>1 DEF forward, SignalAtType
  <2>3. signals' \in BOOLEAN /\ UNCHANGED <<timeVars, mainVars, backend, health, grpcVars,
                                       serviceVars, listenVars>>
    BY <1>3 DEF forward
  <2> QED BY <2>2, <2>3
<1>4. CASE closeLateListener BY <1>4 DEF closeLateListener
<1>5. ASSUME NEW outcome \in {"open", "failed"}, NewServiceReturns(outcome)
      PROVE  TypeOK'
  BY <1>5 DEF NewServiceReturns
<1>6. ASSUME NEW outcome \in {"open", "failed"}, listenReturns(outcome)
      PROVE  TypeOK'
  BY <1>6 DEF listenReturns
<1> QED BY <1>1, <1>2, <1>3, <1>4, <1>5, <1>6

\* Steps of gRPC and of the goroutine that closes the service keep the type.
LEMMA BackgroundType ==
  ASSUME TypeOK,
         \/ rpc \/ Serve \/ serveFails \/ GracefulStop \/ gracefulReturns \/ Stop
         \/ lateResult \/ CloseService
         \/ \E err \in {"nil", "error"} : CloseServiceReturns(err)
  PROVE  TypeOK'
<1> USE SignalAtSame DEF TypeOK, grpcFrame, cleanupFrame, endServe, timeVars, signalVars, mainVars,
            serviceVars, listenVars, grpcVars
<1>1. CASE rpc BY <1>1, AgentAssumption DEF rpc, AgentAssumption
<1>2. CASE Serve BY <1>2 DEF Serve
<1>3. CASE serveFails BY <1>3 DEF serveFails
<1>4. CASE GracefulStop BY <1>4 DEF GracefulStop
<1>5. CASE gracefulReturns BY <1>5 DEF gracefulReturns
<1>6. CASE Stop BY <1>6 DEF Stop
<1>7. CASE lateResult BY <1>7 DEF lateResult
<1>8. CASE CloseService BY <1>8 DEF CloseService
<1>9. ASSUME NEW err \in {"nil", "error"}, CloseServiceReturns(err)
      PROVE  TypeOK'
  BY <1>9 DEF CloseServiceReturns
<1> QED BY <1>1, <1>2, <1>3, <1>4, <1>5, <1>6, <1>7, <1>8, <1>9

\* Steps of runAgent keep the type.
LEMMA RunAgentType == ASSUME TypeOK, runAgent PROVE TypeOK'
<1> USE SignalAtSame DEF TypeOK, mainFrame, stopFrame, goto, return, timeVars, signalVars, mainVars,
            serviceVars, listenVars, grpcVars
<1> Timeout \in Nat
  BY AgentAssumption DEF AgentAssumption
<1>0. /\ signalAt # <<>> => Head(signalAt) + Timeout \in Nat
      /\ shutdownStart + Timeout \in Nat
  BY DEF shutdownStart, SignalAtType
<1> DEFINE stopCalled == /\ apc' = "health" /\ deadline' \in Nat /\ failed' \in BOOLEAN
                         /\ lateCloser' \in BOOLEAN /\ mainFrame
                         /\ UNCHANGED <<result, backend, serviceVars, listener, health,
                                       serve, graceful, forced>>
<1>a. stopCalled => TypeOK'
  OBVIOUS
<1> HIDE DEF stopCalled
<1>1. CASE serviceInitialized BY <1>1 DEF serviceInitialized
<1>2. CASE initializationFailed BY <1>2 DEF initializationFailed
<1>3. CASE initializationAborted BY <1>0, <1>3 DEF initializationAborted
<1>4. CASE abortReturns BY <1>4 DEF abortReturns
<1>5. CASE listening BY <1>5 DEF listening
<1>6. CASE listenFailed
  <2>1. stopCalled BY <1>0, <1>6 DEF listenFailed, callStop, stopCalled
  <2> QED BY <1>a, <2>1
<1>7. CASE listenInterrupted
  <2>1. stopCalled BY <1>0, <1>7 DEF listenInterrupted, callStop, stopCalled
  <2> QED BY <1>a, <2>1
<1>8. CASE signalled
  <2>1. stopCalled BY <1>0, <1>8 DEF signalled, callStop, stopCalled
  <2> QED BY <1>a, <2>1
<1>9. CASE serveReturned
  <2>1. stopCalled BY <1>0, <1>9 DEF serveReturned, callStop, stopCalled
  <2> QED BY <1>a, <2>1
<1>10. CASE shutdownHealth BY <1>10 DEF shutdownHealth
<1>11. CASE beginShutdown BY <1>11 DEF beginShutdown, duringDrain
<1>12. CASE cancelBackend BY <1>12 DEF cancelBackend
<1>13. CASE stopAndReturn BY <1>13 DEF stopAndReturn, stopServer
<1>14. CASE cleanReturn BY <1>14 DEF cleanReturn, drained
<1> QED BY <1>1, <1>2, <1>3, <1>4, <1>5, <1>6, <1>7, <1>8, <1>9, <1>10, <1>11,
           <1>12, <1>13, <1>14 DEF runAgent

LEMMA TypeStep == ASSUME TypeOK, [Next]_vars PROVE TypeOK'
<1>1. CASE UNCHANGED vars
  BY <1>1, SignalAtSame DEF TypeOK, vars, timeVars, signalVars, mainVars, serviceVars, listenVars, grpcVars
<1>2. CASE Next
  BY <1>2, OutsideType, BackgroundType, RunAgentType DEF Next
<1> QED BY <1>1, <1>2

(***************************************************************************)
(* The variables of the agent keep their types; signalAt never holds more  *)
(* than the one time its channel has room for (agent.go:119).              *)
(***************************************************************************)
THEOREM TypeCorrect == Spec => []TypeOK
  BY TypeInit, TypeStep, PTL DEF Spec
-----------------------------------------------------------------------------
(***************************************************************************)
(* The budget.  A step moves the clock, sets the deadline from the signal  *)
(* or from the clock, forwards a signal, or touches none of the three.     *)
(***************************************************************************)
LEMMA TimeStep ==
  ASSUME TypeOK, [Next]_vars
  PROVE  \/ UNCHANGED <<clock, deadline, signalAt>>
         \/ Tick
         \/ forward
         \/ signalAt # <<>> /\ deadline' = Head(signalAt) + Timeout
            /\ UNCHANGED <<clock, signalAt>>
         \/ signalAt = <<>> /\ deadline' = clock + Timeout
            /\ UNCHANGED <<clock, signalAt>>
<1> USE DEF timeVars, signalVars, mainVars
<1>1. CASE UNCHANGED vars BY <1>1 DEF vars
<1>2. CASE Tick \/ forward BY <1>2
<1>3. CASE raise \/ closeLateListener
           \/ \E outcome \in {"open", "failed"} :
                 NewServiceReturns(outcome) \/ listenReturns(outcome)
  BY <1>3 DEF raise, closeLateListener, NewServiceReturns, listenReturns, outsideFrame
<1>4. CASE rpc \/ Serve \/ serveFails \/ GracefulStop \/ gracefulReturns \/ Stop
  BY <1>4 DEF rpc, Serve, serveFails, GracefulStop, gracefulReturns, Stop, grpcFrame
<1>5. CASE lateResult \/ CloseService
           \/ \E err \in {"nil", "error"} : CloseServiceReturns(err)
  BY <1>5 DEF lateResult, CloseService, CloseServiceReturns, cleanupFrame
<1>6. CASE serviceInitialized \/ initializationFailed \/ abortReturns \/ listening
  BY <1>6 DEF serviceInitialized, initializationFailed, abortReturns, listening, mainFrame
<1>7. CASE initializationAborted
  BY <1>7 DEF initializationAborted, mainFrame
<1>8. CASE listenInterrupted \/ signalled
  BY <1>8 DEF listenInterrupted, signalled, callStop, mainFrame
<1>9. CASE listenFailed \/ serveReturned
  BY <1>9 DEF listenFailed, serveReturned, callStop, shutdownStart, mainFrame
<1>10. CASE shutdownHealth \/ beginShutdown \/ cancelBackend \/ stopAndReturn
            \/ cleanReturn
  BY <1>10 DEF shutdownHealth, beginShutdown, cancelBackend, stopAndReturn, cleanReturn,
               stopFrame, mainFrame
<1> QED BY <1>1, <1>2, <1>3, <1>4, <1>5, <1>6, <1>7, <1>8, <1>9, <1>10
        DEF Next, runAgent

(***************************************************************************)
(* Neither the start of the budget nor a forwarded signal lies in the      *)
(* future, so a signal that comes after the deadline was set leaves less.  *)
(***************************************************************************)
TimesPast ==
    /\ deadline <= clock + Timeout
    /\ signalAt # <<>> => Head(signalAt) <= clock

BudgetInv == TypeOK /\ TimesPast /\ BudgetRunsFromSignal

LEMMA BudgetStep == ASSUME BudgetInv, [Next]_vars PROVE BudgetInv'
<1> USE DEF TimesPast, BudgetRunsFromSignal
<1>0. TypeOK'
  BY TypeStep DEF BudgetInv
<1>1. /\ Timeout \in Nat /\ clock \in Nat /\ deadline \in Nat
      /\ signalAt # <<>> => Head(signalAt) \in Nat
  BY AgentAssumption DEF AgentAssumption, BudgetInv, TypeOK, SignalAtType
<1>2. CASE UNCHANGED <<clock, deadline, signalAt>>
  BY <1>0, <1>2 DEF BudgetInv
<1>3. CASE Tick
  <2>1. clock' = clock + 1 /\ UNCHANGED <<deadline, signalAt>>
    BY <1>3 DEF Tick, signalVars, mainVars
  <2> QED BY <1>0, <1>1, <2>1 DEF BudgetInv
<1>4. CASE forward
  <2>1. Head(signalAt') = clock /\ UNCHANGED <<clock, deadline>>
    BY <1>4 DEF forward, outsideFrame, timeVars, mainVars
  <2> QED BY <1>0, <1>1, <2>1 DEF BudgetInv
<1>5. CASE signalAt # <<>> /\ deadline' = Head(signalAt) + Timeout
           /\ UNCHANGED <<clock, signalAt>>
  BY <1>0, <1>1, <1>5 DEF BudgetInv
<1>6. CASE signalAt = <<>> /\ deadline' = clock + Timeout
           /\ UNCHANGED <<clock, signalAt>>
  BY <1>0, <1>1, <1>6 DEF BudgetInv
<1> QED BY <1>2, <1>3, <1>4, <1>5, <1>6, TimeStep DEF BudgetInv

(***************************************************************************)
(* The time allowed for a shutdown runs from the signal, for every timeout *)
(* and whatever else made runAgent stop first (agent.go:178-185, 202-203). *)
(***************************************************************************)
THEOREM BudgetIsTheSignals == Spec => []BudgetRunsFromSignal
<1>1. Init => BudgetInv
  <2>1. Init => TimesPast /\ BudgetRunsFromSignal
    BY AgentAssumption DEF Init, TimesPast, BudgetRunsFromSignal, AgentAssumption
  <2> QED BY <2>1, TypeInit DEF BudgetInv
<1>2. BudgetInv /\ [Next]_vars => BudgetInv'
  BY BudgetStep
<1>3. BudgetInv => BudgetRunsFromSignal
  BY DEF BudgetInv
<1> QED BY <1>1, <1>2, <1>3, PTL DEF Spec
-----------------------------------------------------------------------------
(***************************************************************************)
(* The clean exit.  GracefulStop and Close are started only by a shutdown  *)
(* that has begun, which admits no RPC; a Stop means that the deadline has *)
(* passed; and a shutdown without a failure to report runs from a signal.  *)
(***************************************************************************)
ShutdownShape ==
    /\ doneAt <= clock
    /\ graceful # "none" => /\ begun /\ apc \in {"drain", "stop", "returned"}
                            /\ cleanup \in {"close", "nil", "error"}
    /\ graceful # "none" /\ cleanup # "close" => service = "closed"
    /\ graceful = "done" => rpcs = 0 \/ forced = "done"
    /\ forced # "none" => apc = "returned" /\ result = "timeout"
    /\ result # "none" => apc = "returned"
    /\ apc \in {"health", "begin", "drain"} /\ ~failed =>
          signalAt # <<>> /\ deadline = Head(signalAt) + Timeout

\* What a nil result fixes for good.
NilShape ==
    result = "nil" /\ graceful # "none" =>
        /\ graceful = "done" /\ cleanup = "nil" /\ forced = "none"
        /\ ~failed /\ signalAt # <<>>
        /\ doneAt < deadline /\ deadline = Head(signalAt) + Timeout

ExitInv == TypeOK /\ ShutdownShape /\ NilShape

LEMMA OutsideExit ==
  ASSUME ExitInv, TypeOK',
         \/ Tick \/ raise \/ forward \/ closeLateListener
         \/ \E outcome \in {"open", "failed"} :
               NewServiceReturns(outcome) \/ listenReturns(outcome)
  PROVE  ExitInv'
<1> USE DEF ExitInv, ShutdownShape, NilShape, outsideFrame, timeVars, signalVars,
            mainVars, serviceVars, listenVars, grpcVars
<1>1. CASE Tick BY <1>1 DEF Tick, TypeOK
<1>2. CASE raise BY <1>2 DEF raise
<1>3. CASE forward BY <1>3 DEF forward
<1>4. CASE closeLateListener BY <1>4 DEF closeLateListener
<1>5. ASSUME NEW outcome \in {"open", "failed"}, NewServiceReturns(outcome)
      PROVE  ExitInv'
  BY <1>5 DEF NewServiceReturns
<1>6. ASSUME NEW outcome \in {"open", "failed"}, listenReturns(outcome)
      PROVE  ExitInv'
  BY <1>6 DEF listenReturns
<1> QED BY <1>1, <1>2, <1>3, <1>4, <1>5, <1>6

LEMMA BackgroundExit ==
  ASSUME ExitInv, TypeOK',
         \/ rpc \/ Serve \/ serveFails \/ GracefulStop \/ gracefulReturns \/ Stop
         \/ lateResult \/ CloseService
         \/ \E err \in {"nil", "error"} : CloseServiceReturns(err)
  PROVE  ExitInv'
<1> USE DEF ExitInv, ShutdownShape, NilShape, grpcFrame, cleanupFrame, endServe,
            timeVars, signalVars, mainVars, serviceVars, listenVars, grpcVars
<1>1. CASE rpc BY <1>1 DEF rpc, TypeOK
<1>2. CASE Serve BY <1>2 DEF Serve
<1>3. CASE serveFails BY <1>3 DEF serveFails
<1>4. CASE GracefulStop BY <1>4 DEF GracefulStop
<1>5. CASE gracefulReturns BY <1>5 DEF gracefulReturns, TypeOK
<1>6. CASE Stop BY <1>6 DEF Stop
<1>7. CASE lateResult BY <1>7 DEF lateResult
<1>8. CASE CloseService BY <1>8 DEF CloseService
<1>9. ASSUME NEW err \in {"nil", "error"}, CloseServiceReturns(err)
      PROVE  ExitInv'
  BY <1>9 DEF CloseServiceReturns, TypeOK
<1> QED BY <1>1, <1>2, <1>3, <1>4, <1>5, <1>6, <1>7, <1>8, <1>9

LEMMA RunAgentExit == ASSUME ExitInv, TypeOK', runAgent PROVE ExitInv'
<1> USE DEF ExitInv, ShutdownShape, NilShape, mainFrame, stopFrame, goto, return,
            timeVars, signalVars, mainVars, serviceVars, listenVars, grpcVars
<1>1. CASE serviceInitialized BY <1>1 DEF serviceInitialized
<1>2. CASE initializationFailed BY <1>2 DEF initializationFailed
<1>3. CASE initializationAborted BY <1>3 DEF initializationAborted
<1>4. CASE abortReturns BY <1>4 DEF abortReturns
<1>5. CASE listening BY <1>5 DEF listening
<1>6. CASE listenFailed BY <1>6 DEF listenFailed, callStop
<1>7. CASE listenInterrupted BY <1>7 DEF listenInterrupted, callStop
<1>8. CASE signalled BY <1>8 DEF signalled, callStop
<1>9. CASE serveReturned BY <1>9 DEF serveReturned, callStop
<1>10. CASE shutdownHealth BY <1>10 DEF shutdownHealth
<1>11. CASE beginShutdown BY <1>11 DEF beginShutdown, duringDrain
<1>12. CASE cancelBackend BY <1>12 DEF cancelBackend
<1>13. CASE stopAndReturn BY <1>13 DEF stopAndReturn, stopServer
<1>14. CASE cleanReturn BY <1>14 DEF cleanReturn, drained, inTime, expired, TypeOK
<1> QED BY <1>1, <1>2, <1>3, <1>4, <1>5, <1>6, <1>7, <1>8, <1>9, <1>10, <1>11,
           <1>12, <1>13, <1>14 DEF runAgent

LEMMA ExitStep == ASSUME ExitInv, [Next]_vars PROVE ExitInv'
<1>0. TypeOK'
  BY TypeStep DEF ExitInv
<1>1. CASE UNCHANGED vars
  BY <1>0, <1>1 DEF ExitInv, ShutdownShape, NilShape, vars, timeVars, signalVars,
                    mainVars, serviceVars, listenVars, grpcVars
<1>2. CASE Next
  BY <1>0, <1>2, OutsideExit, BackgroundExit, RunAgentExit DEF Next
<1> QED BY <1>1, <1>2

(***************************************************************************)
(* A nil from an agent that served means a signal, an orderly end within   *)
(* the timeout of it with no RPC in flight, and no failure that runAgent   *)
(* stopped for, for every timeout and any number of RPCs (agent.go:157,    *)
(* 161-166, 202-233).                                                      *)
(***************************************************************************)
THEOREM NilIsClean == Spec => []CleanExit
<1>1. Init => ExitInv
  <2>1. Init => ShutdownShape /\ NilShape
    BY DEF Init, ShutdownShape, NilShape
  <2> QED BY <2>1, TypeInit DEF ExitInv
<1>2. ExitInv /\ [Next]_vars => ExitInv'
  BY ExitStep
<1>3. ExitInv => CleanExit
  BY DEF ExitInv, ShutdownShape, NilShape, CleanExit
<1> QED BY <1>1, <1>2, <1>3, PTL DEF Spec
=============================================================================
