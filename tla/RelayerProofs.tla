---------------------------- MODULE RelayerProofs ----------------------------
(***************************************************************************)
(* Theorems about Relayer, for any number of closers and any capacity of   *)
(* the peer channel.                                                       *)
(***************************************************************************)
EXTENDS Relayer, TLAPS

LEMMA TypeInit == Init => TypeOK
<1>1. 0 \in 0..MaxFound /\ 0 \in 0..PeerCap
  BY RelayerAssumption DEF RelayerAssumption
<1>2. Init => /\ ctxDone \in BOOLEAN /\ aborted \in BOOLEAN /\ finding \in BOOLEAN
  BY DEF Init
<1> QED BY <1>1, <1>2 DEF Init, TypeOK

\* Steps of NewRelayer keep the type.
LEMMA BuildType == ASSUME TypeOK, NewRelayer PROVE TypeOK'
<1> USE DEF TypeOK, build, opens, buildFrame, closeVars, Parts
<1>1. CASE keysAndHost BY <1>1 DEF keysAndHost
<1>2. CASE startMdns BY <1>2 DEF startMdns
<1>3. CASE startDht BY <1>3 DEF startDht
<1>4. CASE startPubsub BY <1>4 DEF startPubsub
<1>5. CASE constructionFails BY <1>5 DEF constructionFails
<1> QED BY <1>1, <1>2, <1>3, <1>4, <1>5 DEF NewRelayer

\* Steps of a Close keep the type.
LEMMA CloseType ==
  ASSUME TypeOK, NEW k \in Callers,
         Close(k) \/ closeOnceOver(k) \/ cancel(k) \/ \E p \in Parts : closePart(k, p)
  PROVE  TypeOK'
<1> USE DEF TypeOK, goto, buildVars, discoveryVars
<1>1. CASE Close(k) BY <1>1 DEF Close, Parts
<1>2. CASE closeOnceOver(k) BY <1>2 DEF closeOnceOver
<1>3. CASE cancel(k) BY <1>3 DEF cancel, Parts
<1>4. ASSUME NEW p \in Parts, closePart(k, p) PROVE TypeOK'
  <2>1. afterPart(p) \in Parts \cup {"cancel", "returned"}
    BY DEF afterPart, Parts
  <2>2. part' \in [Parts -> {"nil", "open", "closed"}] /\ closeErr' \subseteq Parts
    BY <1>4 DEF closePart, release
  <2>3. /\ kpc' \in [Callers -> Parts \cup {"idle", "once", "cancel", "returned"}]
        /\ closeOnce' \in {"new", "body", "over"}
    BY <1>4, <2>1 DEF closePart
  <2>4. UNCHANGED <<enabled, npc, ctxDone, aborted, finding, found, peers, dpc>>
    BY <1>4 DEF closePart
  <2> QED BY <2>2, <2>3, <2>4
<1> QED BY <1>1, <1>2, <1>3, <1>4

\* The other steps keep the type.
LEMMA OtherType ==
  ASSUME TypeOK,
         \/ CancelBackend \/ parentCancelled
         \/ peerFound \/ HandlePeerFound \/ DiscoverPeers \/ connectReturns
  PROVE  TypeOK'
<1> USE DEF TypeOK, abortFrame, discoveryFrame, buildVars, closeVars, discoveryVars
<1> MaxFound \in Nat /\ PeerCap \in Nat
  BY RelayerAssumption DEF RelayerAssumption
<1>1. CASE CancelBackend \/ parentCancelled BY <1>1 DEF CancelBackend, parentCancelled
<1>2. CASE peerFound BY <1>2 DEF peerFound
<1>3. CASE HandlePeerFound
  <2>1. peers' \in 0..PeerCap
    <3>1. peers \in 0..PeerCap /\ (peers' = peers \/ (peers < PeerCap /\ peers' = peers + 1))
      BY <1>3 DEF HandlePeerFound
    <3> QED BY <3>1
  <2>2. finding' = FALSE
    BY <1>3 DEF HandlePeerFound
  <2>3. UNCHANGED <<buildVars, part, ctxDone, aborted, closeVars, found, dpc>>
    BY <1>3 DEF HandlePeerFound
  <2> QED BY <2>1, <2>2, <2>3
<1>4. CASE DiscoverPeers BY <1>4 DEF DiscoverPeers
<1>5. CASE connectReturns BY <1>5 DEF connectReturns
<1> QED BY <1>1, <1>2, <1>3, <1>4, <1>5

LEMMA TypeStep == ASSUME TypeOK, [Next]_vars PROVE TypeOK'
<1>1. CASE UNCHANGED vars
  BY <1>1 DEF TypeOK, vars, buildVars, closeVars, discoveryVars
<1>2. CASE Next
  BY <1>2, BuildType, CloseType, OtherType DEF Next
<1> QED BY <1>1, <1>2

(***************************************************************************)
(* The variables of the relayer keep their types: the queue of peers never *)
(* holds more than its capacity (relayer.go:248-260).                      *)
(***************************************************************************)
THEOREM TypeCorrect == Spec => []TypeOK
  BY TypeInit, TypeStep, PTL DEF Spec

-----------------------------------------------------------------------------
(***************************************************************************)
(* What a call of Close leaves behind at each of its places.  Neither      *)
(* property is inductive: that the host goes last rests on where the       *)
(* running Close is, on Close starting only after the construction, and on *)
(* the host being opened before the other parts.                           *)
(***************************************************************************)
Building == {"keys", "host", "mdns", "dht", "bootstrap", "pubsub"}

NoneOpen(P) == \A p \in P : part[p] # "open"

\* No Close runs during the construction, and a call that returned is over.
ClosesAfterBuilding ==
    /\ closeOnce # "new" => npc \notin Building
    /\ \A k \in Callers : /\ kpc[k] # "idle" => closeOnce # "new"
                          /\ kpc[k] = "returned" => closeOnce = "over"

\* The host is opened first and closed last.
HostShape ==
    /\ npc \in {"keys", "host"} => part["host"] = "nil"
    /\ npc \in Building \ {"keys", "host"} => part["host"] # "nil"
    /\ part["host"] = "nil" => \A p \in Parts : part[p] = "nil"
    /\ part["host"] = "closed" => NoneOpen(Parts) /\ closeOnce # "new"

\* What is released when a call of Close reaches a place.
PlaceShape ==
    /\ \A k \in Callers :
          /\ kpc[k] = "cancel" => NoneOpen({"center"})
          /\ kpc[k] = "mdns" => NoneOpen({"center"}) /\ ctxDone
          /\ kpc[k] = "dht" => NoneOpen({"center", "mdns"}) /\ ctxDone
          /\ kpc[k] = "host" => NoneOpen({"center", "mdns", "dht"}) /\ ctxDone
    /\ closeOnce = "over" => NoneOpen(Parts) /\ ctxDone

\* Only a call of Close past the center, or somebody outside, ends the context.
CtxShape ==
    /\ npc \in Building /\ ctxDone => aborted
    /\ part["center"] = "open" /\ ctxDone => aborted

\* What an error of NewRelayer and the discovery goroutines say.
EndShape ==
    /\ npc = "error" => ctxDone /\ NoneOpen(Parts)
    /\ finding => part["mdns"] = "open"
    /\ dpc # "none" => npc = "ok"

RelayerInv ==
    TypeOK /\ ClosesAfterBuilding /\ HostShape /\ PlaceShape /\ CtxShape /\ EndShape

LEMMA RelayerInvInit == Init => RelayerInv
<1>1. Init => TypeOK BY TypeInit
<1>2. Init => ClosesAfterBuilding BY DEF Init, ClosesAfterBuilding, Building
<1>3. Init => HostShape BY DEF Init, HostShape, Building, NoneOpen, Parts
<1>4. Init => PlaceShape BY DEF Init, PlaceShape, NoneOpen
<1>5. Init => CtxShape BY DEF Init, CtxShape
<1>6. Init => EndShape BY DEF Init, EndShape
<1> QED BY <1>1, <1>2, <1>3, <1>4, <1>5, <1>6 DEF RelayerInv

\* A step of NewRelayer opens at most one part, after the host and before any Close.
LEMMA BuildInv == ASSUME RelayerInv, NewRelayer PROVE RelayerInv'
<1> USE DEF RelayerInv
<1>1. TypeOK' BY BuildType
<1>2. UNCHANGED <<kpc, closeOnce, aborted, finding>>
  BY DEF NewRelayer, keysAndHost, startMdns, startDht, startPubsub,
         constructionFails, buildFrame, closeVars
<1>3. CASE constructionFails
  <2>1. /\ UNCHANGED <<part, ctxDone, dpc>> /\ npc = "fail" /\ npc' = "error"
        /\ kpc["NewRelayer"] = "returned"
    BY <1>3 DEF constructionFails, build
  <2>2. ctxDone /\ NoneOpen(Parts)
    BY <2>1 DEF ClosesAfterBuilding, PlaceShape, Callers
  <2>3. ClosesAfterBuilding' /\ HostShape' /\ PlaceShape' /\ CtxShape'
    BY <1>2, <2>1 DEF ClosesAfterBuilding, HostShape, PlaceShape, CtxShape, Building, NoneOpen
  <2>4. EndShape' BY <1>2, <2>1, <2>2 DEF EndShape, NoneOpen
  <2> QED BY <1>1, <2>3, <2>4
<1>4. CASE keysAndHost \/ startMdns \/ startDht \/ startPubsub
  <2>1. npc \in Building
    BY <1>4 DEF keysAndHost, startMdns, startDht, startPubsub, build, Building
  <2>2. closeOnce = "new" /\ \A k \in Callers : kpc[k] = "idle"
    BY <2>1 DEF ClosesAfterBuilding
  <2>3. ClosesAfterBuilding' /\ PlaceShape'
    BY <1>2, <2>2 DEF ClosesAfterBuilding, PlaceShape
  <2>4. CASE keysAndHost
    <3> USE <2>4, <1>2, <2>2 DEF keysAndHost, build, opens
    <3>1. HostShape' BY DEF HostShape, Building, NoneOpen, TypeOK, Parts
    <3>2. CtxShape' BY DEF CtxShape, HostShape, Building, TypeOK, Parts
    <3>3. EndShape' BY DEF EndShape, HostShape, Building, NoneOpen, TypeOK, Parts
    <3> QED BY <1>1, <2>3, <3>1, <3>2, <3>3
  <2>5. CASE startMdns \/ startDht \/ startPubsub
    <3>1. /\ npc \in Building \ {"keys", "host"} /\ npc' \notin {"keys", "host", "error"}
          /\ UNCHANGED ctxDone
      BY <2>5 DEF startMdns, startDht, startPubsub, build, Building
    <3>2. PICK p \in {"center", "mdns", "dht"} :
              part' = part \/ part' = [part EXCEPT ![p] = "open"]
      BY <2>5 DEF startMdns, startDht, startPubsub, opens
    <3>3. part["host"] \notin {"nil", "closed"} /\ part'["host"] = part["host"]
      BY <2>2, <3>1, <3>2 DEF HostShape, TypeOK, Parts
    <3>4. HostShape' BY <3>1, <3>3 DEF HostShape
    <3>5. CtxShape' BY <1>2, <2>1, <3>1 DEF CtxShape
    <3>6. part["mdns"] = "open" => part'["mdns"] = "open"
      BY <3>2 DEF TypeOK, Parts
    <3>7. dpc' # "none" => npc' = "ok"
      BY <2>5, <3>1 DEF startMdns, startDht, startPubsub, build, EndShape, Building
    <3>8. EndShape' BY <1>2, <3>1, <3>6, <3>7 DEF EndShape
    <3> QED BY <1>1, <2>3, <3>4, <3>5, <3>8
  <2> QED BY <1>4, <2>4, <2>5
<1> QED BY <1>3, <1>4 DEF NewRelayer

\* A Close releases the parts in the order of its places.
LEMMA CloseInv ==
  ASSUME RelayerInv, NEW k \in Callers,
         Close(k) \/ closeOnceOver(k) \/ cancel(k) \/ \E p \in Parts : closePart(k, p)
  PROVE  RelayerInv'
<1> USE DEF RelayerInv
<1>1. TypeOK' BY CloseType
<1>2. UNCHANGED <<npc, aborted, finding, dpc>>
  BY DEF Close, closeOnceOver, cancel, closePart, buildVars, discoveryVars
<1>3. CASE Close(k)
  <2>1. /\ UNCHANGED <<part, ctxDone>> /\ npc \in {"ok", "fail"}
        /\ closeOnce' # "new" /\ (closeOnce # "new" => closeOnce' = closeOnce)
        /\ (closeOnce' = "over" => closeOnce = "over")
        /\ kpc' = [kpc EXCEPT ![k] = kpc'[k]] /\ kpc'[k] \in {"center", "once"}
    BY <1>3 DEF Close, mayClose, goto, TypeOK
  <2>2. ClosesAfterBuilding'
    BY <1>2, <2>1 DEF ClosesAfterBuilding, Building, TypeOK
  <2>3. HostShape' BY <1>2, <2>1 DEF HostShape, NoneOpen
  <2>4. PlaceShape' BY <2>1 DEF PlaceShape, NoneOpen, TypeOK
  <2>5. CtxShape' /\ EndShape' BY <1>2, <2>1 DEF CtxShape, EndShape, NoneOpen
  <2> QED BY <1>1, <2>2, <2>3, <2>4, <2>5
<1>4. CASE closeOnceOver(k)
  <2>1. /\ UNCHANGED <<part, ctxDone, closeOnce>> /\ closeOnce = "over"
        /\ kpc' = [kpc EXCEPT ![k] = "returned"]
    BY <1>4 DEF closeOnceOver, goto
  <2>2. ClosesAfterBuilding' BY <1>2, <2>1 DEF ClosesAfterBuilding, TypeOK
  <2>3. HostShape' /\ CtxShape' /\ EndShape'
    BY <1>2, <2>1 DEF HostShape, CtxShape, EndShape, NoneOpen
  <2>4. PlaceShape' BY <2>1 DEF PlaceShape, NoneOpen, TypeOK
  <2> QED BY <1>1, <2>2, <2>3, <2>4
<1>5. CASE cancel(k)
  <2>1. /\ UNCHANGED <<part, closeOnce>> /\ ctxDone' = TRUE
        /\ kpc[k] = "cancel" /\ kpc' = [kpc EXCEPT ![k] = "mdns"]
    BY <1>5 DEF cancel, goto
  <2>2. part["center"] # "open" /\ npc \notin Building
    BY <2>1 DEF ClosesAfterBuilding, PlaceShape, NoneOpen
  <2>3. ClosesAfterBuilding' BY <1>2, <2>1 DEF ClosesAfterBuilding, TypeOK
  <2>4. HostShape' BY <1>2, <2>1 DEF HostShape, NoneOpen
  <2>5. PlaceShape' BY <2>1, <2>2 DEF PlaceShape, NoneOpen, TypeOK
  <2>6. CtxShape' /\ EndShape' BY <1>2, <2>1, <2>2 DEF CtxShape, EndShape, NoneOpen
  <2> QED BY <1>1, <2>3, <2>4, <2>5, <2>6
<1>6. ASSUME NEW p \in Parts, closePart(k, p) PROVE RelayerInv'
  <2>1. /\ kpc[k] = p /\ kpc' = [kpc EXCEPT ![k] = afterPart(p)] /\ UNCHANGED ctxDone
        /\ (p = "mdns" => ~finding)
        /\ closeOnce' = IF p = "host" THEN "over" ELSE closeOnce
        /\ closeOnce # "new" /\ npc \notin Building
    BY <1>6 DEF closePart, goto, afterPart, Parts, ClosesAfterBuilding
  <2>2. /\ part' = part \/ part' = [part EXCEPT ![p] = "closed"]
        /\ part[p] = "nil" => part' = part
        /\ part'[p] # "open"
        /\ \A q \in Parts \ {p} : part'[q] = part[q]
    BY <1>6 DEF closePart, release, TypeOK
  <2>3. \A q \in Parts : part[q] # "open" => part'[q] # "open"
    BY <2>2
  <2>4. \A P \in SUBSET Parts : NoneOpen(P) => NoneOpen(P)'
    BY <2>3 DEF NoneOpen
  <2>5. ClosesAfterBuilding'
    <3>1. afterPart(p) = "returned" => p = "host"
      BY DEF afterPart, Parts
    <3> QED BY <1>2, <2>1, <3>1 DEF ClosesAfterBuilding, TypeOK
  <2>6. p = "host" => NoneOpen(Parts)' /\ ctxDone
    BY <2>1, <2>2, <2>3 DEF PlaceShape, NoneOpen, Parts
  <2>7. HostShape'
    <3>1. part["host"] = "nil" <=> part'["host"] = "nil"
      BY <2>2 DEF Parts, TypeOK
    <3>2. part["host"] = "nil" => \A q \in Parts : part'[q] = "nil"
      BY <2>2 DEF HostShape
    <3>3. part'["host"] = "closed" => NoneOpen(Parts)' /\ closeOnce' # "new"
      <4>1. CASE p = "host" BY <2>1, <2>6, <4>1
      <4>2. CASE p # "host"
        <5>1. part'["host"] = part["host"] BY <2>2, <4>2 DEF Parts
        <5> QED BY <2>1, <2>4, <4>2, <5>1 DEF HostShape
      <4> QED BY <4>1, <4>2
    <3> QED BY <1>2, <2>1, <3>1, <3>2, <3>3 DEF HostShape, Building
  <2>8. PlaceShape'
    <3>1. closeOnce' = "over" => NoneOpen(Parts)' /\ ctxDone'
      BY <2>1, <2>4, <2>6 DEF PlaceShape
    <3>2. ASSUME NEW j \in Callers
          PROVE  /\ kpc'[j] = "cancel" => NoneOpen({"center"})'
                 /\ kpc'[j] = "mdns" => NoneOpen({"center"})' /\ ctxDone'
                 /\ kpc'[j] = "dht" => NoneOpen({"center", "mdns"})' /\ ctxDone'
                 /\ kpc'[j] = "host" => NoneOpen({"center", "mdns", "dht"})' /\ ctxDone'
      <4>1. CASE j # k
        <5>1. kpc'[j] = kpc[j] BY <2>1, <4>1 DEF TypeOK
        <5> QED BY <2>1, <2>3, <5>1 DEF PlaceShape, NoneOpen, Parts
      <4>2. CASE j = k
        <5>1. kpc'[j] = afterPart(p) BY <2>1, <4>2 DEF TypeOK
        <5> QED BY <2>1, <2>2, <2>3, <5>1, <4>2 DEF PlaceShape, NoneOpen, afterPart, Parts
      <4> QED BY <4>1, <4>2
    <3> QED BY <3>1, <3>2 DEF PlaceShape
  <2>9. CtxShape' BY <1>2, <2>1, <2>3 DEF CtxShape, Parts
  <2>10. EndShape'
    <3>1. finding => part'["mdns"] = "open"
      BY <2>1, <2>2 DEF EndShape, Parts
    <3> QED BY <1>2, <2>1, <2>4, <3>1 DEF EndShape
  <2> QED BY <1>1, <2>5, <2>7, <2>8, <2>9, <2>10
<1> QED BY <1>3, <1>4, <1>5, <1>6

\* The other steps release nothing.
LEMMA OtherInv ==
  ASSUME RelayerInv,
         \/ CancelBackend \/ parentCancelled
         \/ peerFound \/ HandlePeerFound \/ DiscoverPeers \/ connectReturns
  PROVE  RelayerInv'
<1> USE DEF RelayerInv
<1>1. TypeOK' BY OtherType
<1>2. UNCHANGED <<npc, part, kpc, closeOnce>>
  BY DEF CancelBackend, parentCancelled, peerFound, HandlePeerFound, DiscoverPeers,
         connectReturns, abortFrame, discoveryFrame, buildVars, closeVars
<1>3. /\ ctxDone => ctxDone'
      /\ (ctxDone' = ctxDone /\ aborted' = aborted) \/ aborted'
  BY DEF CancelBackend, parentCancelled, peerFound, HandlePeerFound, DiscoverPeers,
         connectReturns, abortFrame, discoveryFrame
<1>4. finding' => finding \/ part["mdns"] = "open"
  BY DEF CancelBackend, parentCancelled, peerFound, HandlePeerFound, DiscoverPeers,
         connectReturns, abortFrame, discoveryFrame, discoveryVars
<1>5. dpc' # "none" => dpc # "none"
  BY DEF CancelBackend, parentCancelled, peerFound, HandlePeerFound, DiscoverPeers,
         connectReturns, abortFrame, discoveryFrame, discoveryVars
<1>6. ClosesAfterBuilding' /\ HostShape'
  BY <1>2 DEF ClosesAfterBuilding, HostShape, NoneOpen
<1>7. PlaceShape' BY <1>2, <1>3 DEF PlaceShape, NoneOpen
<1>8. CtxShape' BY <1>2, <1>3 DEF CtxShape
<1>9. EndShape' BY <1>2, <1>3, <1>4, <1>5 DEF EndShape, NoneOpen
<1> QED BY <1>1, <1>6, <1>7, <1>8, <1>9

LEMMA RelayerInvStep == ASSUME RelayerInv, [Next]_vars PROVE RelayerInv'
<1>1. CASE UNCHANGED vars
  <2>1. TypeOK' BY <1>1, TypeStep DEF RelayerInv
  <2>2. UNCHANGED <<npc, part, ctxDone, aborted, kpc, closeOnce, finding, dpc>>
    BY <1>1 DEF vars, buildVars, closeVars, discoveryVars
  <2> QED
    BY <2>1, <2>2 DEF RelayerInv, ClosesAfterBuilding, HostShape, PlaceShape,
                      CtxShape, EndShape, NoneOpen
<1>2. CASE Next
  BY <1>2, BuildInv, CloseInv, OtherInv DEF Next
<1> QED BY <1>1, <1>2

(***************************************************************************)
(* However many callers race to close the relayer and whoever cancels its  *)
(* context meanwhile, the host is the last part to go, and an orderly      *)
(* Close never ends the context under an open message center               *)
(* (relayer.go:181-211).                                                   *)
(***************************************************************************)
THEOREM ClosesInOrder == Spec => []ReleasedInOrder
<1>1. RelayerInv => ReleasedInOrder
  BY DEF RelayerInv, HostShape, CtxShape, ReleasedInOrder, NoneOpen, TypeOK, Parts
<1> QED BY <1>1, RelayerInvInit, RelayerInvStep, PTL DEF Spec

(***************************************************************************)
(* Whatever step of NewRelayer fails, its error comes with nothing open,   *)
(* its context over and no discovery running (relayer.go:59-105).          *)
(***************************************************************************)
THEOREM ErrorLeavesNothing == Spec => []FailedConstructionReleases
<1>1. RelayerInv => FailedConstructionReleases
  BY DEF RelayerInv, EndShape, FailedConstructionReleases, NoneOpen, Parts
<1> QED BY <1>1, RelayerInvInit, RelayerInvStep, PTL DEF Spec
=============================================================================
