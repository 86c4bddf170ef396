--------------------------------- MODULE Node ---------------------------------
(***************************************************************************)
(* An agent together with its relayer: runAgent builds the relayer through *)
(* lake.NewService, closes it through service.Close, and cancels its       *)
(* context at the deadline, or when it returns.  The steps of both modules *)
(* are those of Agent and Relayer; the ones in which they meet are joint.  *)
(***************************************************************************)
EXTENDS Agent

CONSTANTS PeerCap, MaxFound

ASSUME NodeAssumption == PeerCap \in Nat \ {0} /\ MaxFound \in Nat

VARIABLES enabled, npc, part, ctxDone, aborted, kpc, closeOnce, closeErr,
          finding, found, peers, dpc

\* The service is the relayer's only owner.
Closers == {"service"}

R == INSTANCE Relayer

relayerVars ==
    <<enabled, npc, part, ctxDone, aborted, kpc, closeOnce, closeErr, finding, found,
      peers, dpc>>

nodeVars == <<vars, relayerVars>>

NodeInit == Init /\ R!Init

-----------------------------------------------------------------------------
\* NewService returns what NewRelayer did.
buildReturns ==
    /\ \/ npc = "ok" /\ NewServiceReturns("open")
       \/ npc = "error" /\ NewServiceReturns("failed")
    /\ UNCHANGED relayerVars

\* service.Close has waited for its handlers, and closes the relayer.
closeRelayer ==
    /\ service = "closing" /\ rpcs = 0
    /\ R!Close("service")
    /\ UNCHANGED vars

\* Mutant of relayerClosed: the relayer is closed in the background.
relayerClosedLater == kpc["service"] # "idle"

relayerClosed == kpc["service"] = "returned"

closeReturns ==
    /\ relayerClosed
    /\ CloseServiceReturns(IF closeErr = {} THEN "nil" ELSE "error")
    /\ UNCHANGED relayerVars

\* initCancel ends the parent context; CancelBackend comes at the deadline.
cancels ==
    CASE apc' \in {"awaitCleanup", "returned"} -> R!parentCancelled
      [] apc' = "stop" -> R!CancelBackend
      [] OTHER         -> UNCHANGED relayerVars

agentStep == runAgent /\ cancels

otherAgentStep ==
    /\ \/ Tick \/ raise \/ forward
       \/ \E outcome \in {"open", "failed"} : listenReturns(outcome)
       \/ rpc \/ Serve \/ serveFails \/ GracefulStop \/ gracefulReturns \/ Stop
       \/ lateResult \/ CloseService \/ closeLateListener
    /\ UNCHANGED relayerVars

\* The service closes its relayer once, so nobody waits for the closeOnce.
closeStep(k) ==
    \/ R!cancel(k) \/ \E p \in R!Parts : R!closePart(k, p)

relayerStep ==
    /\ \/ R!NewRelayer \/ R!Close("NewRelayer")
       \/ \E k \in R!Callers : closeStep(k)
       \/ R!peerFound \/ R!HandlePeerFound \/ R!DiscoverPeers \/ R!connectReturns
    /\ UNCHANGED vars

NodeNext ==
    \/ buildReturns \/ closeRelayer \/ closeReturns
    \/ agentStep \/ otherAgentStep \/ relayerStep

NodeSpec == NodeInit /\ [][NodeNext]_nodeVars

(***************************************************************************)
(* Fairness.  As in Agent and Relayer; besides, the constructors of libp2p *)
(* return, and an RPC ends once the backend is cancelled (what Service and *)
(* Box show of their handlers).                                            *)
(***************************************************************************)
NodeFairness ==
    /\ WF_nodeVars(otherAgentStep /\ clock' # clock)
    /\ WF_nodeVars(forward /\ UNCHANGED relayerVars) /\ WF_nodeVars(agentStep)
    /\ WF_nodeVars((lateResult \/ CloseService) /\ UNCHANGED relayerVars)
    /\ WF_nodeVars((GracefulStop \/ gracefulReturns) /\ UNCHANGED relayerVars)
    /\ WF_nodeVars(Stop /\ UNCHANGED relayerVars)
    /\ WF_nodeVars(rpc /\ rpcs' < rpcs /\ backend = "cancelled" /\ UNCHANGED relayerVars)
    /\ WF_nodeVars(buildReturns) /\ WF_nodeVars(closeRelayer) /\ WF_nodeVars(closeReturns)
    /\ WF_nodeVars(R!NewRelayer /\ UNCHANGED vars)
    /\ WF_nodeVars(R!Close("NewRelayer") /\ UNCHANGED vars)
    /\ \A k \in R!Callers :
          WF_nodeVars((ctxDone \/ kpc[k] # "center" \/ part["center"] = "nil")
                      /\ closeStep(k) /\ UNCHANGED vars)
    /\ WF_nodeVars(R!HandlePeerFound /\ UNCHANGED vars)

NodeFairSpec == NodeSpec /\ NodeFairness

-----------------------------------------------------------------------------
(***************************************************************************)
(* An agent that returns nil has released its whole relayer, and without   *)
(* an error: a signal during the construction and a signal while serving   *)
(* alike (agent.go:85-105, 202-233; relayer.go:181-211).                   *)
(***************************************************************************)
NilMeansReleased ==
    result = "nil" =>
        ctxDone /\ closeErr = {} /\ \A p \in R!Parts : part[p] # "open"

(***************************************************************************)
(* An agent told to stop in time closes its topics on a live pubsub: the   *)
(* context ends under an open message center only after the deadline, or   *)
(* while no graceful stop has begun, as when the signal came before the    *)
(* service was there.                                                      *)
(***************************************************************************)
TopicsCloseOnLivePubsub ==
    part["center"] = "open" /\ ctxDone => graceful = "none" \/ clock >= deadline

(***************************************************************************)
(* After a signal everything libp2p was given is released for good, even   *)
(* when the agent has returned without waiting: the cancelled backend lets *)
(* the goroutine that still closes the service finish (agent.go:221-224).  *)
(***************************************************************************)
SignalReleasesRelayer ==
    signals ~> [](\A p \in R!Parts : part[p] # "open")
=============================================================================
