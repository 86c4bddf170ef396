----------------------------- MODULE NodeProofs -----------------------------
(***************************************************************************)
(* Theorems about Node, for every timeout, any number of RPCs and any      *)
(* capacity of the peer channel.                                           *)
(***************************************************************************)
EXTENDS Node, AgentProofs

RP == INSTANCE RelayerProofs

\* On the agent's variables a step of the node is a step of Agent.
LEMMA AgentPart == ASSUME [NodeNext]_nodeVars PROVE [Next]_vars
<1>1. CASE UNCHANGED nodeVars BY <1>1 DEF nodeVars
<1>2. CASE buildReturns BY <1>2 DEF buildReturns, Next
<1>3. CASE closeReturns
  <2>1. CloseServiceReturns("nil") \/ CloseServiceReturns("error")
    BY <1>3 DEF closeReturns
  <2> QED BY <2>1 DEF Next
<1>4. CASE agentStep BY <1>4 DEF agentStep, Next
<1>5. CASE otherAgentStep BY <1>5 DEF otherAgentStep, Next
<1>6. CASE closeRelayer \/ relayerStep BY <1>6 DEF closeRelayer, relayerStep
<1> QED BY <1>1, <1>2, <1>3, <1>4, <1>5, <1>6 DEF NodeNext

\* And on the relayer's, a step of Relayer.
LEMMA RelayerPart == ASSUME [NodeNext]_nodeVars PROVE [R!Next]_(R!vars)
<1>1. UNCHANGED relayerVars => UNCHANGED R!vars
  BY DEF relayerVars, R!vars, R!buildVars, R!closeVars, R!discoveryVars
<1>2. CASE UNCHANGED nodeVars BY <1>1, <1>2 DEF nodeVars
<1>3. CASE buildReturns \/ closeReturns \/ otherAgentStep
  BY <1>1, <1>3 DEF buildReturns, closeReturns, otherAgentStep
<1>4. CASE agentStep
  <2>1. R!parentCancelled \/ R!CancelBackend \/ UNCHANGED relayerVars
    BY <1>4 DEF agentStep, cancels
  <2> QED BY <1>1, <2>1 DEF R!Next
<1>5. CASE closeRelayer
  <2>1. R!Close("service") /\ "service" \in R!Callers
    BY <1>5 DEF closeRelayer, R!Callers, Closers
  <2> QED BY <2>1 DEF R!Next
<1>6. CASE relayerStep
  <2>1. "NewRelayer" \in R!Callers BY DEF R!Callers
  <2> QED BY <1>6, <2>1 DEF relayerStep, closeStep, R!Next
<1> QED BY <1>2, <1>3, <1>4, <1>5, <1>6 DEF NodeNext

\* Relayer's next-state relation is the one its theorems are about.
LEMMA SameRelayer == ASSUME [R!Next]_(R!vars) PROVE [RP!Next]_(RP!vars)
BY DEF R!vars, R!buildVars, R!closeVars, R!discoveryVars, R!Parts, R!Callers,
       R!Next, R!NewRelayer, R!keysAndHost, R!startMdns, R!startDht, R!startPubsub,
       R!constructionFails, R!build, R!opens, R!buildFrame, R!Close, R!mayClose, R!goto,
       R!closeOnceOver, R!cancel, R!closePart, R!release, R!afterPart, R!CancelBackend,
       R!parentCancelled, R!abortFrame, R!peerFound, R!HandlePeerFound, R!DiscoverPeers,
       R!connectReturns, R!discoveryFrame,
       RP!vars, RP!buildVars, RP!closeVars, RP!discoveryVars, RP!Parts, RP!Callers,
       RP!Next, RP!NewRelayer, RP!keysAndHost, RP!startMdns, RP!startDht, RP!startPubsub,
       RP!constructionFails, RP!build, RP!opens, RP!buildFrame, RP!Close, RP!mayClose,
       RP!goto, RP!closeOnceOver, RP!cancel, RP!closePart, RP!release, RP!afterPart,
       RP!CancelBackend, RP!parentCancelled, RP!abortFrame, RP!peerFound,
       RP!HandlePeerFound, RP!DiscoverPeers, RP!connectReturns, RP!discoveryFrame

LEMMA RelayerKept == ASSUME RP!RelayerInv, [NodeNext]_nodeVars PROVE RP!RelayerInv'
<1>1. [RP!Next]_(RP!vars) BY RelayerPart, SameRelayer
<1>2. PeerCap \in Nat \ {0} /\ MaxFound \in Nat /\ "NewRelayer" \notin Closers
  BY NodeAssumption DEF NodeAssumption, Closers
<1> QED BY <1>1, <1>2, RP!RelayerInvStep

(***************************************************************************)
(* The agent and its relayer, run together, are an Agent and a Relayer: so *)
(* every invariant of either is one of the node (agent.go:50-166,          *)
(* relayer.go:50-105, 181-211).                                            *)
(***************************************************************************)
THEOREM NodeRunsBoth == NodeSpec => Spec /\ R!Spec
<1>1. NodeInit => Init /\ R!Init BY DEF NodeInit
<1> QED BY <1>1, AgentPart, RelayerPart, PTL DEF NodeSpec, Spec, R!Spec

-----------------------------------------------------------------------------
(***************************************************************************)
(* What ties the two together.  The service closes only a relayer that was *)
(* built, is closed only when the relayer is, and reports the relayer's    *)
(* errors; nobody outside the relayer ends its context before the deadline *)
(* of a shutdown, unless there is no shutdown or it is over.               *)
(***************************************************************************)
CloseShape ==
    /\ kpc["NewRelayer"] # "idle" => npc \in {"fail", "error"}
    /\ kpc["service"] # "idle" => npc = "ok"
    /\ service = "closed" => kpc["service"] = "returned"
    /\ cleanup = "nil" \/ result = "nil" => kpc["service"] = "returned" /\ closeErr = {}

AbortShape ==
    /\ apc = "stop" => clock >= deadline
    /\ aborted => /\ apc \in {"awaitCleanup", "stop", "returned"}
                  /\ graceful = "none" \/ clock >= deadline \/ service = "closed"

NodeInv == ExitInv /\ RP!RelayerInv /\ CloseShape /\ AbortShape

LEMMA NodeInvInit == NodeInit => NodeInv
<1> SUFFICES ASSUME NodeInit PROVE NodeInv OBVIOUS
<1>1. ExitInv
  <2>1. ShutdownShape /\ NilShape BY DEF NodeInit, Init, ShutdownShape, NilShape
  <2> QED BY <2>1, TypeInit DEF ExitInv, NodeInit
<1>2. RP!RelayerInv
  <2>1. RP!Init BY DEF NodeInit, R!Init, RP!Init, R!Parts, RP!Parts, R!Callers, RP!Callers
  <2>2. PeerCap \in Nat \ {0} /\ MaxFound \in Nat /\ "NewRelayer" \notin Closers
    BY NodeAssumption DEF NodeAssumption, Closers
  <2> QED BY <2>1, <2>2, RP!RelayerInvInit
<1>3. CloseShape
  <2>1. {"NewRelayer", "service"} \subseteq R!Callers BY DEF R!Callers, Closers
  <2> QED BY <2>1 DEF NodeInit, Init, R!Init, CloseShape
<1>4. AbortShape BY DEF NodeInit, Init, R!Init, AbortShape
<1> QED BY <1>1, <1>2, <1>3, <1>4 DEF NodeInv

\* What the relayer's invariant says of the calls of Close.
LEMMA CallersType ==
    ASSUME NodeInv
    PROVE  kpc \in [{"NewRelayer", "service"} ->
                       {"center", "mdns", "dht", "host", "idle", "once", "cancel", "returned"}]
<1>1. RP!Callers = {"NewRelayer", "service"} BY DEF RP!Callers, Closers
<1> QED BY <1>1 DEF NodeInv, RP!RelayerInv, RP!TypeOK, RP!Parts

\* A step of the relayer leaves a Close that has returned as it is.
LEMMA RelayerClose ==
    ASSUME NodeInv, relayerStep \/ closeRelayer PROVE CloseShape' /\ AbortShape'
<1> USE DEF NodeInv
<1>1. /\ UNCHANGED vars
      /\ UNCHANGED <<service, cleanup, result, apc, clock, deadline, graceful>>
  BY DEF relayerStep, closeRelayer, vars, timeVars, mainVars, serviceVars, grpcVars
<1>2. UNCHANGED aborted
  BY DEF relayerStep, closeRelayer, closeStep, R!NewRelayer, R!keysAndHost, R!startMdns,
         R!startDht, R!startPubsub, R!constructionFails, R!buildFrame, R!Close, R!cancel,
         R!closePart, R!peerFound, R!HandlePeerFound, R!DiscoverPeers, R!connectReturns,
         R!discoveryFrame
<1>3. AbortShape' BY <1>1, <1>2 DEF AbortShape
<1>4. CASE R!NewRelayer
  <2>1. UNCHANGED <<kpc, closeErr>> /\ npc \notin {"ok", "error"}
        /\ (npc = "fail" => npc' = "error")
    BY <1>4 DEF R!NewRelayer, R!keysAndHost, R!startMdns, R!startDht, R!startPubsub,
                R!constructionFails, R!buildFrame, R!closeVars, R!build
  <2> QED BY <1>1, <1>3, <2>1 DEF CloseShape
<1>5. ASSUME NEW k \in {"NewRelayer", "service"}, R!Close(k) PROVE CloseShape'
  <2>1. /\ kpc[k] = "idle" /\ kpc' = [kpc EXCEPT ![k] = kpc'[k]] /\ UNCHANGED <<npc, closeErr>>
        /\ npc = IF k = "NewRelayer" THEN "fail" ELSE "ok"
    BY <1>5, CallersType DEF R!Close, R!goto, R!mayClose, R!buildVars
  <2> QED BY <1>1, <2>1, CallersType DEF CloseShape
<1>6. ASSUME NEW k \in {"NewRelayer", "service"}, closeStep(k) PROVE CloseShape'
  <2>1. /\ kpc[k] \notin {"idle", "returned"} /\ UNCHANGED npc
        /\ \A j \in {"NewRelayer", "service"} \ {k} : kpc'[j] = kpc[j]
    BY <1>6, CallersType
    DEF closeStep, R!cancel, R!closePart, R!goto, R!buildVars, R!Parts
  <2>2. kpc["service"] # "returned"
    BY <2>1 DEF CloseShape
  <2> QED BY <1>1, <2>1, <2>2 DEF CloseShape
<1>7. CASE R!peerFound \/ R!HandlePeerFound \/ R!DiscoverPeers \/ R!connectReturns
  <2>1. UNCHANGED <<npc, kpc, closeErr>>
    BY <1>7 DEF R!peerFound, R!HandlePeerFound, R!DiscoverPeers, R!connectReturns,
                R!discoveryFrame, R!buildVars, R!closeVars
  <2> QED BY <1>1, <1>3, <2>1 DEF CloseShape
<1>8. R!Callers = {"NewRelayer", "service"} BY DEF R!Callers, Closers
<1> QED BY <1>3, <1>4, <1>5, <1>6, <1>7, <1>8 DEF relayerStep, closeRelayer

\* A step of the agent that the relayer does not see.
LEMMA AgentClose ==
    ASSUME NodeInv, otherAgentStep \/ buildReturns \/ closeReturns
    PROVE  CloseShape' /\ AbortShape'
<1> USE DEF NodeInv
<1>1. UNCHANGED <<npc, kpc, closeErr, aborted>>
  BY DEF otherAgentStep, buildReturns, closeReturns, relayerVars
<1>2. UNCHANGED <<apc, deadline, result>>
  BY DEF otherAgentStep, buildReturns, closeReturns, Tick, raise, forward, listenReturns,
         rpc, Serve, serveFails, GracefulStop, gracefulReturns, Stop, lateResult,
         CloseService, closeLateListener, NewServiceReturns, CloseServiceReturns,
         outsideFrame, grpcFrame, cleanupFrame, mainVars
<1>3. clock >= deadline => clock' >= deadline
  <2>1. clock' = clock \/ clock' = clock + 1
    BY DEF otherAgentStep, buildReturns, closeReturns, Tick, raise, forward, listenReturns,
           rpc, Serve, serveFails, GracefulStop, gracefulReturns, Stop, lateResult,
           CloseService, closeLateListener, NewServiceReturns, CloseServiceReturns,
           outsideFrame, grpcFrame, cleanupFrame, timeVars
  <2> QED BY <2>1 DEF ExitInv, TypeOK
<1>4. graceful = "none" => graceful' = "none"
  BY DEF otherAgentStep, buildReturns, closeReturns, Tick, raise, forward, listenReturns,
         rpc, Serve, serveFails, GracefulStop, gracefulReturns, Stop, lateResult,
         CloseService, closeLateListener, NewServiceReturns, CloseServiceReturns,
         outsideFrame, grpcFrame, cleanupFrame, grpcVars
<1>5. service = "closed" => service' = "closed"
  BY DEF otherAgentStep, buildReturns, closeReturns, Tick, raise, forward, listenReturns,
         rpc, Serve, serveFails, GracefulStop, gracefulReturns, Stop, lateResult,
         CloseService, closeLateListener, NewServiceReturns, CloseServiceReturns,
         outsideFrame, grpcFrame, cleanupFrame, serviceVars
<1>6. AbortShape' BY <1>1, <1>2, <1>3, <1>4, <1>5 DEF AbortShape
<1>7. CASE closeReturns
  <2>1. kpc["service"] = "returned" /\ (cleanup' = "nil" => closeErr = {})
    BY <1>7 DEF closeReturns, relayerClosed, CloseServiceReturns
  <2> QED BY <1>1, <1>2, <1>6, <2>1 DEF CloseShape
<1>8. CASE otherAgentStep \/ buildReturns
  <2>1. /\ cleanup' = "nil" => cleanup = "nil"
        /\ service' = "closed" => service = "closed"
    BY <1>8 DEF otherAgentStep, buildReturns, Tick, raise, forward, listenReturns,
           rpc, Serve, serveFails, GracefulStop, gracefulReturns, Stop, lateResult,
           CloseService, closeLateListener, NewServiceReturns,
           outsideFrame, grpcFrame, cleanupFrame, serviceVars
  <2> QED BY <1>1, <1>2, <1>6, <2>1 DEF CloseShape
<1> QED BY <1>7, <1>8

\* A step of runAgent ends the relayer's context, or leaves the relayer alone.
LEMMA RunAgentClose == ASSUME NodeInv, agentStep PROVE CloseShape' /\ AbortShape'
<1> USE DEF NodeInv
<1>1. /\ UNCHANGED <<npc, kpc, closeErr>>
      /\ aborted' => aborted \/ apc' \in {"awaitCleanup", "returned", "stop"}
  BY DEF agentStep, cancels, R!parentCancelled, R!CancelBackend, R!abortFrame, R!buildVars,
         R!closeVars, relayerVars
<1>2. UNCHANGED <<clock, service>>
  BY DEF agentStep, runAgent, serviceInitialized, initializationFailed,
         initializationAborted, abortReturns, listening, listenFailed, listenInterrupted,
         signalled, serveReturned, shutdownHealth, beginShutdown, cancelBackend,
         stopAndReturn, cleanReturn, callStop, mainFrame, stopFrame, timeVars, serviceVars
<1>3. /\ cleanup' = "nil" => cleanup = "nil"
      /\ result' = "nil" => result = "nil" \/ cleanup = "nil"
  BY DEF agentStep, runAgent, serviceInitialized, initializationFailed,
         initializationAborted, abortReturns, listening, listenFailed, listenInterrupted,
         signalled, serveReturned, shutdownHealth, beginShutdown, cancelBackend,
         stopAndReturn, cleanReturn, callStop, return, stopFrame, serviceVars
<1>4. CloseShape' BY <1>1, <1>2, <1>3 DEF CloseShape
<1> DEFINE Ending == {"awaitCleanup", "returned", "stop"}
\* What each step that ends the context knows.
<1>5. \/ apc \notin Ending /\ apc' \notin Ending
      \/ apc = "awaitInit" /\ apc' # "stop" /\ UNCHANGED graceful
      \/ /\ UNCHANGED <<deadline, graceful>>
         /\ \/ apc = "awaitCleanup" /\ apc' = "returned"
            \/ apc = "drain" /\ apc' = "stop" /\ clock >= deadline
            \/ apc = "stop" /\ apc' = "returned"
            \/ apc = "drain" /\ apc' = "returned" /\ drained
  BY DEF agentStep, runAgent, serviceInitialized, initializationFailed,
         initializationAborted, abortReturns, listening, listenFailed, listenInterrupted,
         signalled, serveReturned, shutdownHealth, beginShutdown, cancelBackend,
         stopAndReturn, cleanReturn, callStop, goto, return, stopFrame, expired
<1>6. AbortShape'
  BY <1>1, <1>2, <1>5 DEF AbortShape, ExitInv, ShutdownShape, drained
<1> QED BY <1>4, <1>6

LEMMA NodeInvStep == ASSUME NodeInv, [NodeNext]_nodeVars PROVE NodeInv'
<1>1. ExitInv' /\ RP!RelayerInv'
  BY AgentPart, ExitStep, RelayerKept DEF NodeInv
<1>2. CloseShape' /\ AbortShape'
  <2>1. CASE UNCHANGED nodeVars
    BY <2>1 DEF NodeInv, CloseShape, AbortShape, nodeVars, vars, relayerVars, timeVars,
                mainVars, serviceVars, grpcVars
  <2> QED BY <2>1, RelayerClose, AgentClose, RunAgentClose DEF NodeNext
<1> QED BY <1>1, <1>2 DEF NodeInv

LEMMA NodeInvariant == NodeSpec => []NodeInv
  BY NodeInvInit, NodeInvStep, PTL DEF NodeSpec

(***************************************************************************)
(* An agent that returns nil has released its whole relayer, and without   *)
(* an error, for every timeout and however the signal, the construction,   *)
(* the RPCs and the closing of the parts interleave (agent.go:85-105,      *)
(* 202-233; relayer.go:181-211).                                           *)
(***************************************************************************)
THEOREM NilReleasesAll == NodeSpec => []NilMeansReleased
<1>1. NodeInv => NilMeansReleased
  <2> SUFFICES ASSUME NodeInv, result = "nil"
               PROVE  ctxDone /\ closeErr = {} /\ \A p \in R!Parts : part[p] # "open"
    BY DEF NilMeansReleased
  <2>1. kpc["service"] = "returned" /\ closeErr = {} BY DEF NodeInv, CloseShape
  <2>2. "service" \in RP!Callers BY DEF RP!Callers, Closers
  <2>3. closeOnce = "over" BY <2>1, <2>2 DEF NodeInv, RP!RelayerInv, RP!ClosesAfterBuilding
  <2> QED
    BY <2>1, <2>3 DEF NodeInv, RP!RelayerInv, RP!PlaceShape, RP!NoneOpen, RP!Parts, R!Parts
<1> QED BY <1>1, NodeInvariant, PTL

(***************************************************************************)
(* An agent told to stop closes its topics on a live pubsub: once a        *)
(* graceful stop is under way, the context ends under an open message      *)
(* center only after the deadline (agent.go:202-233; relayer.go:181-211).  *)
(***************************************************************************)
THEOREM TopicsCloseInTime == NodeSpec => []TopicsCloseOnLivePubsub
<1>1. NodeInv => TopicsCloseOnLivePubsub
  <2> SUFFICES ASSUME NodeInv, part["center"] = "open", ctxDone
               PROVE  graceful = "none" \/ clock >= deadline
    BY DEF TopicsCloseOnLivePubsub
  <2>1. aborted BY DEF NodeInv, RP!RelayerInv, RP!CtxShape
  <2>2. service # "closed"
    <3> SUFFICES ASSUME service = "closed" PROVE FALSE OBVIOUS
    <3>1. kpc["service"] = "returned" BY DEF NodeInv, CloseShape
    <3>2. "service" \in RP!Callers BY DEF RP!Callers, Closers
    <3>3. closeOnce = "over" BY <3>1, <3>2 DEF NodeInv, RP!RelayerInv, RP!ClosesAfterBuilding
    <3> QED BY <3>3 DEF NodeInv, RP!RelayerInv, RP!PlaceShape, RP!NoneOpen, RP!Parts
  <2> QED BY <2>1, <2>2 DEF NodeInv, AbortShape
<1> QED BY <1>1, NodeInvariant, PTL
=============================================================================
