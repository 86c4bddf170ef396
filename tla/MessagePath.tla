----------------------------- MODULE MessagePath -----------------------------
(***************************************************************************)
(* The way of a message from the client that signs it to the subscribers   *)
(* of its topic: protocol/signature.go, msg/validator.go, Client.Publish,  *)
(* and the checks of Service.Publish and Service.Subscribe.  The client's  *)
(* signature is the only one: gossip carries none of its own, so every     *)
(* agent checks it again, on the topic on which the message came.          *)
(*                                                                         *)
(* An optional field, or a message that may not decode, is a sequence of   *)
(* at most one element.  Requests come from clients of any make, and       *)
(* messages from peers of any make; what they carry is anything but a      *)
(* signature nobody made.  The encoding of capsules is a constant: all     *)
(* that is known of it is that different capsules have different bytes,    *)
(* and a topic ID may well be such bytes.  The signature scheme and pubsub *)
(* are external: pubsub may lose a message, deliver it again or out of     *)
(* order.                                                                  *)
(***************************************************************************)
EXTENDS Naturals, Sequences

CONSTANTS
    Keys,     \* public keys, each with its signer
    Topics,   \* topic IDs, of any length
    LongTopics,  \* those outside MinTopicIDLen..MaxTopicIDLen
    Payloads, \* the rest of a MsgCapsule
    Encode,   \* the deterministic encoding of a MsgCapsule
    Agents,
    MaxSteps  \* bound: requests made and messages injected

MsgCapsule == [topic : Topics, data : Payloads]

ASSUME PathAssumption ==
    /\ LongTopics \subseteq Topics /\ MaxSteps \in Nat
    /\ Keys \cap {"", "garbled", "nobody"} = {}
    /\ DOMAIN Encode = MsgCapsule
    /\ \A c, d \in MsgCapsule : Encode[c] = Encode[d] => c = d

VARIABLES
    signatures,    \* history: the signatures clients have made
    requests,      \* PublishReqs on their way to an agent
    gossip,        \* messages in pubsub, with their topic
    accepted,      \* those that Service.Publish answered with ok
    subscriptions, \* agents with a subscriber, and the topic
    delivered,     \* messages handed to the subscribers of an agent
    steps

vars == <<signatures, requests, gossip, accepted, subscriptions, delivered, steps>>

option(S) == {<<>>} \cup {<<x>> : x \in S}

\* What the signers sign: an encoded capsule, or the bare bytes of a topic ID.
MsgCapsuleSigningBytes(c) == Encode[c]
SubscribeSigningBytes(t)  == t

Sign(k, bytes) == [by |-> k, over |-> bytes]
Noise          == [by |-> "nobody", over |-> "nothing"]

\* Signature messages that can be written down with the signatures made so far.
Signature == [pubKey : Keys \cup {"", "garbled"}, data : signatures \cup {Noise}]

SignedMsgCapsule == [msgCapsule : option(MsgCapsule), signature : option(Signature)]

-----------------------------------------------------------------------------
(***************************************************************************)
(* protocol/signature.go and msg/validator.go.                             *)
(***************************************************************************)
\* The key is there and parses, and the data is its signature of the bytes.
verify(bytes, signature) ==
    /\ signature # <<>>
    /\ LET s == Head(signature) IN
          s.pubKey \in Keys /\ s.data = Sign(s.pubKey, bytes)

VerifySignedMsgCapsule(signed) ==
    /\ signed.msgCapsule # <<>>
    /\ verify(MsgCapsuleSigningBytes(Head(signed.msgCapsule)), signed.signature)

\* Mutant of VerifyTimestamped: the topic of the capsule is not compared.
VerifyTimestampedAnyTopic(timestamped, topic) ==
    timestamped # <<>> /\ VerifySignedMsgCapsule(Head(timestamped))

\* VerifyTimestampedSignedMsgCapsule.
VerifyTimestamped(timestamped, topic) ==
    /\ timestamped # <<>>
    /\ LET signed == Head(timestamped) IN
          /\ signed.msgCapsule # <<>> /\ Head(signed.msgCapsule).topic = topic
          /\ VerifySignedMsgCapsule(signed)

VerifySubscribe(topic, signature) == verify(SubscribeSigningBytes(topic), signature)

\* The message must decode, and be good for the topic of the validator.
validateTopicMessage(topic, message) ==
    message.data # <<>> /\ VerifyTimestamped(Head(message.data), topic)

CheckStrLen(topic) == topic \notin LongTopics

-----------------------------------------------------------------------------
(***************************************************************************)
(* Clients, agents and peers.                                              *)
(***************************************************************************)
Init ==
    /\ signatures = {} /\ requests = {} /\ gossip = {} /\ accepted = {}
    /\ subscriptions = {} /\ delivered = [a \in Agents |-> {}] /\ steps = 0

step == steps < MaxSteps /\ steps' = steps + 1

\* Client.Publish: a capsule signed by the client.
Publish(k, topic, data) ==
    LET c == [topic |-> topic, data |-> data]
        s == Sign(k, MsgCapsuleSigningBytes(c))
    IN  /\ step
        /\ signatures' = signatures \cup {s}
        /\ requests' = requests \cup
              {[msgCapsule |-> <<c>>, signature |-> <<[pubKey |-> k, data |-> s]>>]}
        /\ UNCHANGED <<gossip, accepted, subscriptions, delivered>>

\* A request of some other client.
otherRequest(request) ==
    /\ step /\ requests' = requests \cup {request}
    /\ UNCHANGED <<signatures, gossip, accepted, subscriptions, delivered>>

\* Mutant of admissible: the signature is left to the validators.
admissibleUnverified(request) ==
    /\ request.msgCapsule # <<>> /\ CheckStrLen(Head(request.msgCapsule).topic)

\* The checks of Service.Publish.  The topic of a missing capsule is empty.
admissible(request) ==
    /\ request.msgCapsule # <<>> /\ CheckStrLen(Head(request.msgCapsule).topic)
    /\ VerifySignedMsgCapsule(request)

\* Box.Publish adds a timestamp, which nobody signs, and hands it to pubsub.
boxPublish(request) ==
    LET message == [topic |-> Head(request.msgCapsule).topic, data |-> <<<<request>>>>]
    IN  gossip' = gossip \cup {message} /\ accepted' = accepted \cup {message}

\* Service.Publish; GetBox and pubsub may fail a request that is in order.
servePublish(request) ==
    /\ request \in requests /\ requests' = requests \ {request}
    /\ \/ admissible(request) /\ boxPublish(request)
       \/ UNCHANGED <<gossip, accepted>>
    /\ UNCHANGED <<signatures, subscriptions, delivered, steps>>

\* External: a peer puts a message on a topic, decodable or not.
peerPublishes(topic, data) ==
    /\ step /\ gossip' = gossip \cup {[topic |-> topic, data |-> data]}
    /\ UNCHANGED <<signatures, requests, accepted, subscriptions, delivered>>

\* Client.Subscribe signs the topic; the agent checks length and signature.
signSubscribe(k, topic) ==
    /\ step /\ signatures' = signatures \cup {Sign(k, SubscribeSigningBytes(topic))}
    /\ UNCHANGED <<requests, gossip, accepted, subscriptions, delivered>>

serveSubscribe(a, topic, signature) ==
    /\ CheckStrLen(topic) /\ VerifySubscribe(topic, signature)
    /\ subscriptions' = subscriptions \cup {<<a, topic>>}
    /\ UNCHANGED <<signatures, requests, gossip, accepted, delivered, steps>>

\* The validator of the topic lets the message through to the subscribers.
deliver(a, message) ==
    /\ message \in gossip /\ <<a, message.topic>> \in subscriptions
    /\ validateTopicMessage(message.topic, message)
    /\ delivered' = [delivered EXCEPT ![a] = @ \cup {message}]
    /\ UNCHANGED <<signatures, requests, gossip, accepted, subscriptions, steps>>

Next ==
    \/ \E k \in Keys, topic \in Topics :
          signSubscribe(k, topic) \/ \E data \in Payloads : Publish(k, topic, data)
    \/ \E request \in SignedMsgCapsule : otherRequest(request)
    \/ \E request \in requests : servePublish(request)
    \/ \E topic \in Topics, data \in option(option(SignedMsgCapsule)) :
          peerPublishes(topic, data)
    \/ \E a \in Agents, topic \in Topics, s \in option(Signature) :
          serveSubscribe(a, topic, s)
    \/ \E a \in Agents, message \in gossip : deliver(a, message)

Spec == Init /\ [][Next]_vars

-----------------------------------------------------------------------------
(***************************************************************************)
(* Properties.                                                             *)
(***************************************************************************)
(***************************************************************************)
(* Whoever relayed it, what reaches a subscriber is a capsule whose bytes  *)
(* the key it names has signed, unchanged, and which names the topic on    *)
(* which it is delivered (validator.go:20-32, signature.go:48-60).         *)
(***************************************************************************)
OnlySignedIsDelivered ==
    \A a \in Agents : \A m \in delivered[a] :
        LET signed == Head(Head(m.data)) IN
        /\ Head(signed.msgCapsule).topic = m.topic
        /\ Sign(Head(signed.signature).pubKey,
                MsgCapsuleSigningBytes(Head(signed.msgCapsule))) \in signatures

(***************************************************************************)
(* An ok to a publisher is never taken back by a validator: whatever       *)
(* Service.Publish accepted, every agent accepts on the topic it went to,  *)
(* and so does a client that verifies what it receives (lake.go:123-148).  *)
(***************************************************************************)
AcceptedIsDeliverable == \A m \in accepted : validateTopicMessage(m.topic, m)

=============================================================================
