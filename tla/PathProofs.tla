----------------------------- MODULE PathProofs -----------------------------
(***************************************************************************)
(* Theorems about MessagePath, for any keys, topics, payloads and agents,  *)
(* and any injective encoding of capsules.                                 *)
(***************************************************************************)
EXTENDS MessagePath, TLAPS

\* A signed capsule carries no signature that nobody made.
Sealed(signed) ==
    signed.signature # <<>> => Head(signed.signature).data \in signatures \cup {Noise}

\* What has been delivered came through pubsub and passed the validator.
PathInv ==
    /\ delivered \in [Agents -> SUBSET gossip]
    /\ \A request \in requests : Sealed(request)
    /\ \A m \in gossip :
          m.data # <<>> /\ Head(m.data) # <<>> => Sealed(Head(Head(m.data)))
    /\ \A a \in Agents : \A m \in delivered[a] : validateTopicMessage(m.topic, m)
    /\ AcceptedIsDeliverable

LEMMA OptionHead == ASSUME NEW S, NEW o \in option(S), o # <<>> PROVE Head(o) \in S
<1>1. PICK x \in S : o = <<x>> BY DEF option
<1> QED BY <1>1

\* What a client of any make can send is sealed.
LEMMA WritableIsSealed == ASSUME NEW signed \in SignedMsgCapsule PROVE Sealed(signed)
<1> SUFFICES ASSUME signed.signature # <<>>
             PROVE  Head(signed.signature).data \in signatures \cup {Noise}
  BY DEF Sealed
<1>1. signed.signature \in option(Signature) BY DEF SignedMsgCapsule
<1>2. Head(signed.signature) \in Signature BY <1>1, OptionHead
<1> QED BY <1>2, Zenon DEF Signature

\* What was sealed stays sealed as more signatures are made.
LEMMA SealedStays ==
    ASSUME signatures \subseteq signatures', NEW signed, Sealed(signed)
    PROVE  signed.signature # <<>> =>
              Head(signed.signature).data \in signatures' \cup {Noise}
BY DEF Sealed

\* A signature that verifies was made by the key it names.
LEMMA VerifiedIsSigned ==
    ASSUME NEW signed, Sealed(signed), NEW bytes, verify(bytes, signed.signature)
    PROVE  Sign(Head(signed.signature).pubKey, bytes) \in signatures
<1> DEFINE s == Head(signed.signature)
<1>1. s.pubKey \in Keys /\ s.data = Sign(s.pubKey, bytes) BY DEF verify
<1>2. s.data \in signatures \cup {Noise} BY DEF verify, Sealed
<1>3. Sign(s.pubKey, bytes) # Noise
  <2>1. Sign(s.pubKey, bytes).by = s.pubKey /\ Noise.by = "nobody" BY DEF Sign, Noise
  <2> QED BY <1>1, <2>1, PathAssumption, Zenon DEF PathAssumption
<1> QED BY <1>1, <1>2, <1>3

\* What Service.Publish lets through, every validator of the topic does.
LEMMA AdmissibleIsValid ==
    ASSUME NEW request, admissible(request)
    PROVE  LET m == [topic |-> Head(request.msgCapsule).topic, data |-> <<<<request>>>>]
           IN  validateTopicMessage(m.topic, m) /\ Head(Head(m.data)) = request
BY DEF admissible, validateTopicMessage, VerifyTimestamped, VerifySignedMsgCapsule

LEMMA PathInit == Init => PathInv
BY DEF Init, PathInv, AcceptedIsDeliverable

LEMMA PathStep == ASSUME PathInv, [Next]_vars PROVE PathInv'
<1> USE DEF PathInv
<1> DEFINE Good(m) == m.data # <<>> /\ Head(m.data) # <<>> => Sealed(Head(Head(m.data)))
\* A step that only makes signatures, requests or gossip.
<1>1. ASSUME signatures \subseteq signatures', gossip \subseteq gossip',
             UNCHANGED <<accepted, delivered>>,
             \A r \in requests' : r \in requests \/ Sealed(r)',
             \A m \in gossip' : m \in gossip \/ Good(m)'
      PROVE  PathInv'
  <2>1. \A r \in requests' : Sealed(r)'
    BY <1>1, SealedStays DEF Sealed
  <2>2. \A m \in gossip' : Good(m)'
    BY <1>1, SealedStays DEF Sealed
  <2>3. AcceptedIsDeliverable' BY <1>1 DEF AcceptedIsDeliverable
  <2>4. delivered' \in [Agents -> SUBSET gossip'] BY <1>1
  <2>5. (\A a \in Agents : \A m \in delivered[a] : validateTopicMessage(m.topic, m))'
    BY <1>1
  <2> QED BY <2>1, <2>2, <2>3, <2>4, <2>5
<1>2. ASSUME NEW k \in Keys, NEW topic \in Topics, signSubscribe(k, topic) PROVE PathInv'
  BY <1>1, <1>2 DEF signSubscribe
<1>3. ASSUME NEW k \in Keys, NEW topic \in Topics, NEW data \in Payloads,
             Publish(k, topic, data)
      PROVE  PathInv'
  <2> DEFINE c == [topic |-> topic, data |-> data]
             s == Sign(k, MsgCapsuleSigningBytes(c))
             r == [msgCapsule |-> <<c>>, signature |-> <<[pubKey |-> k, data |-> s]>>]
  <2>1. /\ signatures' = signatures \cup {s} /\ requests' = requests \cup {r}
        /\ UNCHANGED <<gossip, accepted, delivered>>
    BY <1>3 DEF Publish
  <2>2. Head(r.signature).data = s OBVIOUS
  <2> HIDE DEF s
  <2>3. s \in signatures' BY <2>1
  <2>4. \A q \in requests' : q \in requests \/ Sealed(q)'
    BY <2>1, <2>2, <2>3 DEF Sealed
  <2> HIDE DEF r
  <2> QED BY <1>1, <2>1, <2>4
<1>4. ASSUME NEW request \in SignedMsgCapsule, otherRequest(request) PROVE PathInv'
  <2>1. Sealed(request)' BY <1>4, WritableIsSealed DEF otherRequest, Sealed
  <2> QED BY <1>1, <1>4, <2>1 DEF otherRequest
<1>5. ASSUME NEW request \in requests, servePublish(request) PROVE PathInv'
  <2>1. UNCHANGED <<signatures, delivered>> /\ requests' \subseteq requests
    BY <1>5 DEF servePublish
  <2>2. CASE UNCHANGED <<gossip, accepted>> BY <1>1, <2>1, <2>2
  <2>3. CASE admissible(request) /\ boxPublish(request)
    <3> DEFINE m == [topic |-> Head(request.msgCapsule).topic, data |-> <<<<request>>>>]
    <3>1. gossip' = gossip \cup {m} /\ accepted' = accepted \cup {m}
      BY <2>3 DEF boxPublish
    <3>2. validateTopicMessage(m.topic, m) /\ Head(Head(m.data)) = request
      BY <2>3, AdmissibleIsValid
    <3> HIDE DEF m
    <3>3. Good(m)' BY <2>1, <3>2 DEF Sealed
    <3>4. AcceptedIsDeliverable' BY <3>1, <3>2 DEF AcceptedIsDeliverable
    <3>5. \A n \in gossip' : Good(n)' BY <2>1, <3>1, <3>3 DEF Sealed
    <3>6. \A r \in requests' : Sealed(r)' BY <2>1 DEF Sealed
    <3>7. delivered' \in [Agents -> SUBSET gossip'] BY <2>1, <3>1
    <3>8. (\A a \in Agents : \A n \in delivered[a] : validateTopicMessage(n.topic, n))'
      BY <2>1
    <3> QED BY <3>4, <3>5, <3>6, <3>7, <3>8
  <2> QED BY <1>5, <2>2, <2>3 DEF servePublish
<1>6. ASSUME NEW topic \in Topics, NEW data \in option(option(SignedMsgCapsule)),
             peerPublishes(topic, data)
      PROVE  PathInv'
  <2> DEFINE m == [topic |-> topic, data |-> data]
  <2>1. /\ UNCHANGED <<signatures, requests, accepted, delivered>>
        /\ gossip' = gossip \cup {m}
    BY <1>6 DEF peerPublishes
  <2>2. Good(m)
    <3> SUFFICES ASSUME data # <<>>, Head(data) # <<>> PROVE Sealed(Head(Head(data)))
      OBVIOUS
    <3>1. Head(data) \in option(SignedMsgCapsule) BY OptionHead
    <3>2. Head(Head(data)) \in SignedMsgCapsule BY <3>1, OptionHead
    <3> QED BY <3>2, WritableIsSealed
  <2> HIDE DEF m
  <2>3. \A n \in gossip' : n \in gossip \/ Good(n)' BY <2>1, <2>2 DEF Sealed
  <2> QED BY <1>1, <2>1, <2>3
<1>7. ASSUME NEW a \in Agents, NEW topic \in Topics, NEW s \in option(Signature),
             serveSubscribe(a, topic, s)
      PROVE  PathInv'
  BY <1>1, <1>7 DEF serveSubscribe
<1>8. ASSUME NEW a \in Agents, NEW m \in gossip, deliver(a, m) PROVE PathInv'
  <2>1. /\ UNCHANGED <<signatures, requests, gossip, accepted>>
        /\ validateTopicMessage(m.topic, m)
        /\ delivered' = [delivered EXCEPT ![a] = @ \cup {m}]
    BY <1>8 DEF deliver
  <2>2. delivered' \in [Agents -> SUBSET gossip'] BY <2>1
  <2>3. \A b \in Agents : \A n \in delivered'[b] : n \in delivered[b] \/ n = m
    BY <2>1
  <2>4. \A b \in Agents : \A n \in delivered'[b] : validateTopicMessage(n.topic, n)
    BY <2>1, <2>3
  <2>5. AcceptedIsDeliverable' BY <2>1 DEF AcceptedIsDeliverable
  <2>6. (\A r \in requests : Sealed(r))' /\ (\A n \in gossip : Good(n))'
    BY <2>1 DEF Sealed
  <2> QED BY <2>2, <2>4, <2>5, <2>6
<1>9. CASE UNCHANGED vars BY <1>1, <1>9 DEF vars
<1> QED BY <1>2, <1>3, <1>4, <1>5, <1>6, <1>7, <1>8, <1>9 DEF Next

LEMMA PathInvariant == Spec => []PathInv
  BY PathInit, PathStep, PTL DEF Spec

(***************************************************************************)
(* Whoever relays it, what reaches a subscriber was signed by the key it   *)
(* names, for the topic on which it is delivered: for any number of        *)
(* clients and peers, any encoding, and topic IDs that may be the bytes of *)
(* a capsule (validator.go:20-32, signature.go:48-60).                     *)
(***************************************************************************)
THEOREM OnlySignedIsDeliveredHolds == Spec => []OnlySignedIsDelivered
<1>1. PathInv => OnlySignedIsDelivered
  <2> SUFFICES ASSUME PathInv, NEW a \in Agents, NEW m \in delivered[a]
               PROVE  LET signed == Head(Head(m.data)) IN
                      /\ Head(signed.msgCapsule).topic = m.topic
                      /\ Sign(Head(signed.signature).pubKey,
                              MsgCapsuleSigningBytes(Head(signed.msgCapsule))) \in signatures
    BY DEF OnlySignedIsDelivered
  <2> DEFINE signed == Head(Head(m.data))
  <2>1. m \in gossip /\ validateTopicMessage(m.topic, m) BY DEF PathInv
  <2>2. /\ m.data # <<>> /\ Head(m.data) # <<>> /\ Head(signed.msgCapsule).topic = m.topic
        /\ verify(MsgCapsuleSigningBytes(Head(signed.msgCapsule)), signed.signature)
    BY <2>1 DEF validateTopicMessage, VerifyTimestamped, VerifySignedMsgCapsule
  <2>3. Sealed(signed) BY <2>1, <2>2 DEF PathInv
  <2> HIDE DEF signed
  <2>4. Sign(Head(signed.signature).pubKey,
             MsgCapsuleSigningBytes(Head(signed.msgCapsule))) \in signatures
    BY <2>2, <2>3, VerifiedIsSigned
  <2> QED BY <2>2, <2>4 DEF signed
<1> QED BY <1>1, PathInvariant, PTL

(***************************************************************************)
(* Whatever Service.Publish answered with ok, every validator of the topic *)
(* it went to lets through (lake.go:123-148, validator.go:20-32).          *)
(***************************************************************************)
THEOREM AcceptedIsDeliverableHolds == Spec => []AcceptedIsDeliverable
  BY PathInvariant, PTL DEF PathInv
=============================================================================
