------------------------------- MODULE Relayer -------------------------------
(***************************************************************************)
(* relayer/relayer.go: the libp2p side of an agent.  NewRelayer opens its  *)
(* parts one after the other and any of them may fail; Close releases them *)
(* in a fixed order, once, whoever calls it; mDNS hands discovered peers   *)
(* to DiscoverPeers through a bounded channel; CancelBackend, and the end  *)
(* of the context NewRelayer was given, may come at any moment.            *)
(*                                                                         *)
(* libp2p is external: every call may fail; mDNS may call HandlePeerFound  *)
(* from its own goroutine, which its Close waits for; a Connect lasts as   *)
(* long as it likes while the context lives.  The message center is here   *)
(* one part, whose Close may likewise last while the context lives.        *)
(***************************************************************************)
EXTENDS Naturals

CONSTANTS
    Closers,    \* calls of Close by the relayer's owner
    PeerCap,    \* capacity of discoveryNotifee.peerChan
    MaxFound    \* bound: peers that mDNS finds

ASSUME RelayerAssumption ==
    PeerCap \in Nat \ {0} /\ MaxFound \in Nat /\ "NewRelayer" \notin Closers

VARIABLES
    enabled,          \* mdnsEnabled, dhtEnabled
    npc,              \* place in NewRelayer
    part,             \* Relayer.msgCenter, .mdnsSvc, .kadDHT, .host
    ctxDone, aborted, \* backendCtx is over; somebody outside Close ended it
    kpc, closeOnce, closeErr,   \* calls of Close
    finding, found,   \* HandlePeerFound is running; peers found so far
    peers, dpc        \* length of peerChan; place in DiscoverPeers

buildVars     == <<enabled, npc>>
closeVars     == <<kpc, closeOnce, closeErr>>
discoveryVars == <<finding, found, peers, dpc>>

vars == <<buildVars, part, ctxDone, aborted, closeVars, discoveryVars>>

Parts   == {"center", "mdns", "dht", "host"}
\* The callers of Close: the owner's, and the deferred call of NewRelayer.
Callers == Closers \cup {"NewRelayer"}

\* The call of NewRelayer.
Init ==
    /\ enabled \in SUBSET {"mdns", "dht"} /\ npc = "keys"
    /\ part = [p \in Parts |-> "nil"]
    /\ ctxDone = FALSE /\ aborted = FALSE
    /\ kpc = [k \in Callers |-> "idle"] /\ closeOnce = "new" /\ closeErr = {}
    /\ finding = FALSE /\ found = 0 /\ peers = 0 /\ dpc = "none"

-----------------------------------------------------------------------------
(***************************************************************************)
(* NewRelayer.                                                             *)
(***************************************************************************)
build(from, to) == npc = from /\ npc' = to

opens(p) == part' = [part EXCEPT ![p] = "open"]

buildFrame == UNCHANGED <<enabled, aborted, closeVars, finding, found, peers>>

\* Before the host there is nothing to close but the context.
keysAndHost ==
    /\ \/ build("keys", "host") /\ UNCHANGED <<part, ctxDone>>
       \/ build("host", "mdns") /\ opens("host") /\ UNCHANGED ctxDone
       \/ /\ build("keys", "error") \/ build("host", "error")
          /\ ctxDone' = TRUE /\ UNCHANGED part
    /\ buildFrame /\ UNCHANGED dpc

\* The field is set before Start, so a service that fails to start is closed.
startMdns ==
    /\ IF "mdns" \in enabled
       THEN opens("mdns") /\ (build("mdns", "dht") \/ build("mdns", "fail"))
       ELSE build("mdns", "dht") /\ UNCHANGED part
    /\ buildFrame /\ UNCHANGED <<ctxDone, dpc>>

startDht ==
    /\ \/ "dht" \notin enabled /\ build("dht", "pubsub") /\ UNCHANGED part
       \/ "dht" \in enabled /\ build("dht", "bootstrap") /\ opens("dht")
       \/ "dht" \in enabled /\ build("dht", "fail") /\ UNCHANGED part
       \/ build("bootstrap", "pubsub") /\ UNCHANGED part
       \/ build("bootstrap", "fail") /\ UNCHANGED part
    /\ buildFrame /\ UNCHANGED <<ctxDone, dpc>>

\* Mutant of startPubsub: initialized is set before the last step can fail.
startPubsubEarly ==
    /\ \/ /\ build("pubsub", "ok") /\ opens("center")
          /\ dpc' = IF "mdns" \in enabled THEN "select" ELSE "none"
       \/ build("pubsub", "error") /\ UNCHANGED <<part, dpc>>
    /\ buildFrame /\ UNCHANGED ctxDone

\* NewService then starts DiscoverPeers.
startPubsub ==
    /\ \/ /\ build("pubsub", "ok") /\ opens("center")
          /\ dpc' = IF "mdns" \in enabled THEN "select" ELSE "none"
       \/ build("pubsub", "fail") /\ UNCHANGED <<part, dpc>>
    /\ buildFrame /\ UNCHANGED ctxDone

\* The deferred Close of a failed construction has returned.
constructionFails ==
    /\ kpc["NewRelayer"] = "returned"
    /\ build("fail", "error")
    /\ buildFrame /\ UNCHANGED <<part, ctxDone, dpc>>

-----------------------------------------------------------------------------
(***************************************************************************)
(* Close.                                                                  *)
(***************************************************************************)
goto(k, place) == kpc' = [kpc EXCEPT ![k] = place]

mayClose(k) == npc = IF k = "NewRelayer" THEN "fail" ELSE "ok"

\* Mutant of Close: the context is cancelled before the center is closed.
CloseCancelsFirst(k) ==
    /\ kpc[k] = "idle" /\ mayClose(k)
    /\ goto(k, IF closeOnce = "new" THEN "center" ELSE "once")
    /\ closeOnce' = IF closeOnce = "new" THEN "body" ELSE closeOnce
    /\ ctxDone' = TRUE
    /\ UNCHANGED <<buildVars, part, aborted, closeErr, discoveryVars>>

\* The first caller runs close, the others wait for it.
Close(k) ==
    /\ kpc[k] = "idle" /\ mayClose(k)
    /\ goto(k, IF closeOnce = "new" THEN "center" ELSE "once")
    /\ closeOnce' = IF closeOnce = "new" THEN "body" ELSE closeOnce
    /\ UNCHANGED <<buildVars, part, ctxDone, aborted, closeErr, discoveryVars>>

closeOnceOver(k) ==
    /\ kpc[k] = "once" /\ closeOnce = "over" /\ goto(k, "returned")
    /\ UNCHANGED <<buildVars, part, ctxDone, aborted, closeOnce, closeErr,
                   discoveryVars>>

\* A nil field is skipped; an error is kept and does not stop the rest.
release(p) ==
    IF part[p] = "nil"
    THEN UNCHANGED <<part, closeErr>>
    ELSE /\ part' = [part EXCEPT ![p] = "closed"]
         /\ \/ closeErr' = closeErr \cup {p}
            \/ UNCHANGED closeErr

\* Mutant of afterPart: the host is closed before the DHT that uses it.
afterPartHostFirst(p) ==
    CASE p = "center" -> "cancel" [] p = "mdns" -> "host"
      [] p = "host" -> "dht" [] p = "dht" -> "returned"

afterPart(p) ==
    CASE p = "center" -> "cancel" [] p = "mdns" -> "dht"
      [] p = "dht" -> "host" [] p = "host" -> "returned"

\* One part is closed.  That mDNS's Close waits for its callback is assumed of
\* libp2p: relayer.go only calls it.
closePart(k, p) ==
    /\ kpc[k] = p /\ (p = "mdns" => ~finding)
    /\ release(p)
    /\ goto(k, afterPart(p))
    /\ closeOnce' = IF afterPart(p) = "returned" THEN "over" ELSE closeOnce
    /\ UNCHANGED <<buildVars, ctxDone, aborted, discoveryVars>>

cancel(k) ==
    /\ kpc[k] = "cancel" /\ goto(k, "mdns")
    /\ ctxDone' = TRUE
    /\ UNCHANGED <<buildVars, part, aborted, closeOnce, closeErr, discoveryVars>>

abortFrame == UNCHANGED <<buildVars, part, closeVars, discoveryVars>>

CancelBackend ==
    /\ npc = "ok" /\ aborted' = TRUE /\ ctxDone' = TRUE
    /\ abortFrame

\* The context given to NewRelayer, parent of backendCtx, is cancelled.
parentCancelled ==
    /\ aborted' = TRUE /\ ctxDone' = TRUE
    /\ abortFrame

-----------------------------------------------------------------------------
(***************************************************************************)
(* Peer discovery.                                                         *)
(***************************************************************************)
\* External: mDNS found a peer and calls the notifee.
peerFound ==
    /\ part["mdns"] = "open" /\ ~finding /\ found < MaxFound
    /\ finding' = TRUE /\ found' = found + 1
    /\ UNCHANGED <<buildVars, part, ctxDone, aborted, closeVars, peers, dpc>>

\* Mutant of HandlePeerFound: a plain send, which waits for room.
HandlePeerFoundBlocks ==
    /\ finding /\ finding' = FALSE
    /\ peers < PeerCap /\ peers' = peers + 1
    /\ UNCHANGED <<buildVars, part, ctxDone, aborted, closeVars, found, dpc>>

\* The hint is queued, or dropped when the queue is full or the context over.
HandlePeerFound ==
    /\ finding /\ finding' = FALSE
    /\ \/ peers < PeerCap /\ peers' = peers + 1
       \/ (ctxDone \/ peers = PeerCap) /\ UNCHANGED peers
    /\ UNCHANGED <<buildVars, part, ctxDone, aborted, closeVars, found, dpc>>

discoveryFrame ==
    UNCHANGED <<buildVars, part, ctxDone, aborted, closeVars, finding, found>>

\* Mutant of DiscoverPeers: the loop receives without looking at the context.
DiscoverPeersDeaf ==
    /\ dpc = "select" /\ peers > 0 /\ peers' = peers - 1 /\ dpc' = "connect"
    /\ discoveryFrame

\* The select of the loop takes any ready case.
DiscoverPeers ==
    /\ dpc = "select"
    /\ \/ ctxDone /\ dpc' = "returned" /\ UNCHANGED peers
       \/ peers > 0 /\ peers' = peers - 1 /\ dpc' = "connect"
    /\ discoveryFrame

\* host.Connect returns, with or without an error.
connectReturns ==
    /\ dpc = "connect" /\ dpc' = "select"
    /\ UNCHANGED peers /\ discoveryFrame

-----------------------------------------------------------------------------
NewRelayer ==
    keysAndHost \/ startMdns \/ startDht \/ startPubsub \/ constructionFails

Next ==
    \/ NewRelayer
    \/ \E k \in Callers :
          Close(k) \/ closeOnceOver(k) \/ cancel(k) \/ \E p \in Parts : closePart(k, p)
    \/ CancelBackend \/ parentCancelled
    \/ peerFound \/ HandlePeerFound \/ DiscoverPeers \/ connectReturns

Spec == Init /\ [][Next]_vars

(***************************************************************************)
(* Fairness.  A running goroutine goes on.  The center's Close and a       *)
(* Connect are only assumed to return once their context is over; the      *)
(* other Closes of libp2p return.  Nothing makes the owner close, cancel   *)
(* or the constructor's calls return.                                      *)
(***************************************************************************)
Fairness ==
    /\ \A k \in Callers :
          /\ WF_vars(closeOnceOver(k) \/ cancel(k))
          /\ WF_vars(\E p \in Parts \ {"center"} : closePart(k, p))
          /\ WF_vars((ctxDone \/ part["center"] = "nil") /\ closePart(k, "center"))
    /\ WF_vars(Close("NewRelayer"))
    /\ WF_vars(HandlePeerFound) /\ WF_vars(DiscoverPeers)
    /\ WF_vars(ctxDone /\ connectReturns)

FairSpec == Spec /\ Fairness

-----------------------------------------------------------------------------
(***************************************************************************)
(* Properties.                                                             *)
(***************************************************************************)
\* The type of every variable of the relayer (relayer.go:32-48, 241-260).
TypeOK ==
    /\ enabled \subseteq {"mdns", "dht"}
    /\ npc \in {"keys", "host", "mdns", "dht", "bootstrap", "pubsub", "ok",
                "fail", "error"}
    /\ part \in [Parts -> {"nil", "open", "closed"}]
    /\ ctxDone \in BOOLEAN /\ aborted \in BOOLEAN
    /\ kpc \in [Callers -> Parts \cup {"idle", "once", "cancel", "returned"}]
    /\ closeOnce \in {"new", "body", "over"} /\ closeErr \subseteq Parts
    /\ finding \in BOOLEAN /\ found \in 0..MaxFound /\ peers \in 0..PeerCap
    /\ dpc \in {"none", "select", "connect", "returned"}

(***************************************************************************)
(* A NewRelayer that returns an error leaves nothing behind: every part it *)
(* opened is closed, its context is over, and nobody reads or feeds the    *)
(* peer channel (relayer.go:59-105).  That nobody feeds it any more rests  *)
(* on mDNS's Close waiting for its callback.                               *)
(***************************************************************************)
FailedConstructionReleases ==
    npc = "error" =>
        /\ \A p \in Parts : part[p] # "open"
        /\ ctxDone /\ ~finding /\ dpc = "none"

(***************************************************************************)
(* The order of Close.  The host goes last, as the others run on it; and   *)
(* the center goes while its pubsub is alive, so that an orderly Close     *)
(* never makes topic.Close fail: only a cancellation from outside ends the *)
(* context under an open center (relayer.go:181-211).                      *)
(***************************************************************************)
ReleasedInOrder ==
    /\ part["host"] # "open" => \A p \in Parts : part[p] # "open"
    /\ part["center"] = "open" /\ ctxDone => aborted

(***************************************************************************)
(* A Close that hangs in the center returns once the backend is cancelled: *)
(* what the agent's CancelBackend at the deadline relies on.  A notifee    *)
(* that blocked on the full peer queue would hold it up, if mDNS's Close   *)
(* waits for its callback as assumed (relayer.go:189-195, 254-260).        *)
(***************************************************************************)
CancelReleasesClose ==
    \A k \in Callers : aborted /\ kpc[k] # "idle" ~> kpc[k] = "returned"

\* The goroutine that reads the peer queue ends with the context, also out of
\* a Connect (relayer.go:216-239); CancelReleasesClose is about its writer.
DiscoveryEnds == ctxDone ~> dpc \in {"none", "returned"}
=============================================================================
