------------------------------- MODULE Service -------------------------------
(***************************************************************************)
(* lake/lake.go: the gRPC service of one agent.  Every Subscribe call has  *)
(* a handler and a sender goroutine of its own: only the sender touches    *)
(* the stream, so that a client that does not read blocks the sender and   *)
(* never the handler.  Publish calls, Subscribe handlers and senders are   *)
(* counted by three WaitGroups, which Close waits for in turn before it    *)
(* closes the relayer.                                                     *)
(*                                                                         *)
(* A select with a default case is one step with what follows it; a select *)
(* that waits takes any ready case.  The box is here what its callers see  *)
(* of it (module Box has the rest): joins return, a delivery reaches every *)
(* registered subscriber or evicts it, and the box may end them all.  A    *)
(* join whose context is over fails at once and may leave its subscriber   *)
(* in the box, to a goroutine that no WaitGroup counts and that withdraws  *)
(* it later.  Nobody ever sees that subscriber, so givenUp only says that  *)
(* the box has it.  gRPC is external: Send may block for as long as the    *)
(* stream lives, and the stream's context ends when the client leaves or   *)
(* the handler returns.                                                    *)
(***************************************************************************)
EXTENDS Naturals, Sequences

CONSTANTS
    Streams,      \* Subscribe calls, all for one topic
    Publishers,   \* Publish calls
    Closers,      \* calls of Close
    QueueCap,     \* externalChanBufferSize
    MaxCapsules   \* bound: capsules the box delivers

ASSUME ServiceAssumption == QueueCap \in Nat \ {0} /\ MaxCapsules \in Nat

VARIABLES
    shutdown,     \* shuttingDown, and the channel closed with it
    publishes, subscribeHandlers, senders,   \* WaitGroup counters
    hpc, ret,     \* place of a Subscribe handler, and what it returns
    watching, joinCancelled,  \* goroutines that cancel a join; joins cancelled
    streamDone,   \* streams whose context is over
    subscriber,   \* streams that were given a Subscriber
    registered,   \* handed-out subscribers the box has
    givenUp,      \* subscribers the box has although their join failed
    stopped, messages, delivered,  \* Subscriber.reason, .messages; the box's count
    spc, response, result,    \* sender: place, response in hand, result channel
    sent, late,   \* history: responses the stream took, and those after shutdown
    ppc,          \* place of a Publish call
    cpc, relayer  \* place of a Close call; the relayer's closeOnce

counterVars == <<publishes, subscribeHandlers, senders>>
handlerVars == <<hpc, ret, watching, joinCancelled, subscriber>>
boxVars     == <<registered, givenUp, stopped, messages, delivered>>
senderVars  == <<spc, response, result, sent, late>>
callVars    == <<ppc, cpc, relayer>>

vars == <<shutdown, counterVars, handlerVars, streamDone, boxVars, senderVars,
          callVars>>

Response  == [type : {"none", "ackOk", "ackFail", "relay"}, capsule : Nat]
Reasons   == {"nil", "closed", "slow", "nextError"}
Errors    == Reasons \cup {"canceled", "sendError"}
Statuses  == {"nil", "closed", "nextError", "sendError", "exhausted", "unavailable"}

\* A SubscribeRes without a capsule.
bare(type) == [type |-> type, capsule |-> 0]

\* NewService.
Init ==
    /\ shutdown = FALSE
    /\ publishes = 0 /\ subscribeHandlers = 0 /\ senders = 0
    /\ hpc = [h \in Streams |-> "idle"] /\ ret = [h \in Streams |-> "none"]
    /\ watching = {} /\ joinCancelled = {} /\ subscriber = {}
    /\ streamDone = {}
    /\ registered = {} /\ givenUp = {} /\ stopped = [h \in Streams |-> "no"]
    /\ messages = [h \in Streams |-> <<>>] /\ delivered = 0
    /\ spc = [h \in Streams |-> "none"] /\ response = [h \in Streams |-> bare("none")]
    /\ result = [h \in Streams |-> <<>>]
    /\ sent = [h \in Streams |-> <<>>] /\ late = [h \in Streams |-> 0]
    /\ ppc = [p \in Publishers |-> "idle"]
    /\ cpc = [k \in Closers |-> "idle"] /\ relayer = "open"

-----------------------------------------------------------------------------
(***************************************************************************)
(* The Subscribe handler.                                                  *)
(***************************************************************************)
goto(h, place) == hpc' = [hpc EXCEPT ![h] = place]

return(h, status) ==
    /\ goto(h, "leave")
    /\ ret' = [ret EXCEPT ![h] = status]

\* admitSubscribe, under the mutex that BeginShutdown takes.
Subscribe(h) ==
    /\ hpc[h] = "idle"
    /\ \/ /\ shutdown
          /\ goto(h, "returned") /\ ret' = [ret EXCEPT ![h] = "unavailable"]
          /\ UNCHANGED subscribeHandlers
       \/ /\ ~shutdown
          /\ goto(h, "validate") /\ UNCHANGED ret
          /\ subscribeHandlers' = subscribeHandlers + 1
    /\ UNCHANGED <<shutdown, publishes, senders, watching, joinCancelled,
                   subscriber, streamDone, boxVars, senderVars, callVars>>

\* Mutant of startSender: the relay loop is entered before the ACK.
startSenderNoAck(h, ack) ==
    /\ senders' = senders + 1
    /\ spc' = [spc EXCEPT ![h] = "loop"]
    /\ response' = [response EXCEPT ![h] = bare(ack)]
    /\ goto(h, "wait")
    /\ UNCHANGED <<result, sent, late>>

\* startSender with its first response.
startSender(h, ack) ==
    /\ senders' = senders + 1
    /\ spc' = [spc EXCEPT ![h] = "admit"]
    /\ response' = [response EXCEPT ![h] = bare(ack)]
    /\ goto(h, "wait")
    /\ UNCHANGED <<result, sent, late>>

\* Topic length and signature: a bad request gets a failed ACK.
validate(h) ==
    /\ hpc[h] = "validate"
    /\ \/ startSender(h, "ackFail")
       \/ goto(h, "getBox") /\ UNCHANGED <<senders, senderVars>>
    /\ UNCHANGED <<shutdown, publishes, subscribeHandlers, ret, watching,
                   joinCancelled, subscriber, streamDone, boxVars, callVars>>

\* GetBox fails, or the goroutine that watches the join is started.
getBox(h) ==
    /\ hpc[h] = "getBox"
    /\ \/ startSender(h, "ackFail") /\ UNCHANGED watching
       \/ /\ goto(h, "join") /\ watching' = watching \cup {h}
          /\ UNCHANGED <<senders, senderVars>>
    /\ UNCHANGED <<shutdown, publishes, subscribeHandlers, ret, joinCancelled,
                   subscriber, streamDone, boxVars, callVars>>

\* The watching goroutine sees the shutdown.
cancelJoin(h) ==
    /\ h \in watching /\ shutdown
    /\ watching' = watching \ {h}
    /\ joinCancelled' = joinCancelled \cup {h}
    /\ UNCHANGED <<shutdown, counterVars, hpc, ret, subscriber, streamDone,
                   boxVars, senderVars, callVars>>

joinCtxDone(h) == h \in joinCancelled \/ h \in streamDone

\* JoinSubContext returns a subscriber, only while its context is alive.
joined(h) ==
    /\ hpc[h] = "join" /\ ~joinCtxDone(h)
    /\ subscriber' = subscriber \cup {h}
    /\ registered' = registered \cup {h}
    /\ watching' = watching \ {h}
    /\ startSender(h, "ackOk")
    /\ UNCHANGED <<shutdown, publishes, subscribeHandlers, ret, joinCancelled,
                   streamDone, givenUp, stopped, messages, delivered, callVars>>

\* JoinSubContext failed: the caller hears of it unless it is going anyway.
\* If its context is over, the box may have admitted or parked the subscriber.
joinFailed(h) ==
    /\ hpc[h] = "join" /\ watching' = watching \ {h}
    /\ \/ UNCHANGED givenUp
       \/ joinCtxDone(h) /\ givenUp' = givenUp \cup {h}
    /\ \/ /\ shutdown \/ h \in streamDone
          /\ return(h, "nil")
          /\ UNCHANGED <<senders, senderVars>>
       \/ /\ ~shutdown /\ h \notin streamDone
          /\ startSender(h, "ackFail")
          /\ UNCHANGED ret
    /\ UNCHANGED <<shutdown, publishes, subscribeHandlers, joinCancelled,
                   subscriber, streamDone, registered, stopped, messages,
                   delivered, callVars>>

\* subscriberStreamError.
streamError(err) ==
    CASE err = "slow"     -> "exhausted"
      [] err = "canceled" -> "nil"
      [] OTHER            -> err

\* A box closed by the shutdown ends the stream quietly.
streamResult(err) ==
    IF err = "closed" /\ shutdown THEN "nil" ELSE streamError(err)

\* Mutant of shutdownStreamResult: the subscriber's own error is not asked for.
shutdownStreamResultOfSender(h) ==
    LET real(err) == err \notin {"no", "nil", "closed"} IN
    IF result[h] # <<>> /\ real(Head(result[h])) THEN streamError(Head(result[h]))
    ELSE "nil"

\* The first real error of the subscriber, then of the sender, if any.
shutdownStreamResult(h) ==
    LET real(err) == err \notin {"no", "nil", "closed"} IN
    IF h \in subscriber /\ real(stopped[h]) THEN streamError(stopped[h])
    ELSE IF result[h] # <<>> /\ real(Head(result[h]))
         THEN streamError(Head(result[h]))
    ELSE "nil"

\* Mutant of waitSender: only the sender's result ends the wait.
waitSenderOnly(h) ==
    /\ hpc[h] = "wait"
    /\ result[h] # <<>> /\ return(h, streamResult(Head(result[h])))
    /\ UNCHANGED <<shutdown, counterVars, watching, joinCancelled, subscriber,
                   streamDone, boxVars, senderVars, callVars>>

\* The handler waits for the first of four events; the sender may go on.
waitSender(h) ==
    /\ hpc[h] = "wait"
    /\ \/ shutdown /\ return(h, shutdownStreamResult(h))
       \/ h \in streamDone /\ return(h, "nil")
       \/ result[h] # <<>> /\ return(h, streamResult(Head(result[h])))
       \/ h \in subscriber /\ stopped[h] # "no" /\ return(h, streamResult(stopped[h]))
    /\ UNCHANGED <<shutdown, counterVars, watching, joinCancelled, subscriber,
                   streamDone, boxVars, senderVars, callVars>>

\* The deferred LeaveSub and subscribeHandlers.Done.
leave(h) ==
    /\ hpc[h] = "leave" /\ goto(h, "returned")
    /\ subscribeHandlers' = subscribeHandlers - 1
    /\ registered' = registered \ {h}
    /\ stopped' = IF h \in registered THEN [stopped EXCEPT ![h] = "nil"] ELSE stopped
    /\ UNCHANGED <<shutdown, publishes, senders, ret, watching, joinCancelled,
                   subscriber, streamDone, givenUp, messages, delivered,
                   senderVars, callVars>>

\* External: the client goes away, or gRPC ends the stream after its handler.
streamEnds(h) ==
    /\ hpc[h] # "idle" /\ h \notin streamDone
    /\ streamDone' = streamDone \cup {h}
    /\ UNCHANGED <<shutdown, counterVars, handlerVars, boxVars, senderVars,
                   callVars>>

-----------------------------------------------------------------------------
(***************************************************************************)
(* The box, as its callers see it.                                         *)
(***************************************************************************)
hasRoom(h) == Len(messages[h]) < QueueCap

\* The goroutine that JoinSubContext left behind withdraws the subscriber.
withdraw(h) ==
    /\ h \in givenUp /\ givenUp' = givenUp \ {h}
    /\ UNCHANGED <<shutdown, counterVars, handlerVars, streamDone, registered,
                   stopped, messages, delivered, senderVars, callVars>>

\* A capsule goes to every subscriber with room and evicts the others.
boxDelivers ==
    /\ registered \cup givenUp # {} /\ delivered < MaxCapsules
    /\ delivered' = delivered + 1
    /\ messages' = [h \in Streams |-> IF h \in registered /\ hasRoom(h)
                                      THEN Append(messages[h], delivered + 1)
                                      ELSE messages[h]]
    /\ stopped' = [h \in Streams |-> IF h \in registered /\ ~hasRoom(h)
                                     THEN "slow" ELSE stopped[h]]
    /\ registered' = {h \in registered : hasRoom(h)}
    /\ givenUp' \in SUBSET givenUp
    /\ UNCHANGED <<shutdown, counterVars, handlerVars, streamDone, senderVars,
                   callVars>>

\* StopSub, Close, or the end of the worker stops every subscriber; only Close
\* also ends the joins that are still parked.
boxEnds ==
    /\ registered \cup givenUp # {} /\ registered' = {}
    /\ \E why \in {"nil", "closed", "nextError"} :
          /\ stopped' = [h \in Streams |-> IF h \in registered THEN why
                                          ELSE stopped[h]]
          /\ givenUp' \in IF why = "closed" THEN {{}} ELSE SUBSET givenUp
    /\ UNCHANGED <<shutdown, counterVars, handlerVars, streamDone, messages,
                   delivered, senderVars, callVars>>

-----------------------------------------------------------------------------
(***************************************************************************)
(* The sender goroutine of a stream.                                       *)
(***************************************************************************)
senderFrame ==
    UNCHANGED <<shutdown, publishes, subscribeHandlers, handlerVars, streamDone,
                registered, givenUp, stopped, delivered, callVars>>

\* The selects with a default case look at the shutdown channel.
sawShutdown == shutdown

\* result <- err, and the deferred close(result) and senders.Done.
finish(h, err) ==
    /\ spc' = [spc EXCEPT ![h] = "ended"]
    /\ result' = [result EXCEPT ![h] = Append(@, err)]
    /\ senders' = senders - 1

\* A sender without a subscriber has only the ACK to send.
afterSend(h) ==
    IF h \in subscriber
    THEN spc' = [spc EXCEPT ![h] = "loop"] /\ UNCHANGED <<result, senders>>
    ELSE finish(h, "nil")

\* send: skipped once shutdown is seen, and skipping is no error.
admit(h) ==
    /\ spc[h] = "admit"
    /\ IF sawShutdown
       THEN afterSend(h)
       ELSE spc' = [spc EXCEPT ![h] = "sending"] /\ UNCHANGED <<result, senders>>
    /\ senderFrame
    /\ UNCHANGED <<messages, response, sent, late>>

\* stream.Send returns nil.
sendReturns(h) ==
    /\ spc[h] = "sending"
    /\ sent' = [sent EXCEPT ![h] = Append(@, response[h])]
    /\ late' = [late EXCEPT ![h] = IF shutdown THEN @ + 1 ELSE @]
    /\ afterSend(h)
    /\ senderFrame
    /\ UNCHANGED <<messages, response>>

\* stream.Send fails: the stream is over, or the transport broke.
sendFails(h) ==
    /\ spc[h] = "sending"
    /\ finish(h, "sendError")
    /\ senderFrame
    /\ UNCHANGED <<messages, response, sent, late>>

\* The head of the loop.
loop(h) ==
    /\ spc[h] = "loop"
    /\ IF sawShutdown
       THEN finish(h, "nil")
       ELSE spc' = [spc EXCEPT ![h] = "select"] /\ UNCHANGED <<result, senders>>
    /\ senderFrame
    /\ UNCHANGED <<messages, response, sent, late>>

\* The select of the loop ends the sender.
selectEnds(h) ==
    /\ spc[h] = "select"
    /\ \/ shutdown /\ finish(h, "nil")
       \/ h \in streamDone /\ finish(h, "canceled")
       \/ stopped[h] # "no" /\ finish(h, stopped[h])
    /\ senderFrame
    /\ UNCHANGED <<messages, response, sent, late>>

\* The select of the loop takes a capsule.
selectTakes(h) ==
    /\ spc[h] = "select" /\ messages[h] # <<>>
    /\ response' = [response EXCEPT ![h] =
                       [type |-> "relay", capsule |-> Head(messages[h])]]
    /\ messages' = [messages EXCEPT ![h] = Tail(@)]
    /\ spc' = [spc EXCEPT ![h] = "taken"]
    /\ senderFrame
    /\ UNCHANGED <<senders, result, sent, late>>

\* The capsule in hand is dropped if the shutdown has begun.
taken(h) ==
    /\ spc[h] = "taken"
    /\ IF sawShutdown
       THEN finish(h, "nil")
       ELSE spc' = [spc EXCEPT ![h] = "admit"] /\ UNCHANGED <<result, senders>>
    /\ senderFrame
    /\ UNCHANGED <<messages, response, sent, late>>

-----------------------------------------------------------------------------
(***************************************************************************)
(* Publish, BeginShutdown and Close.                                       *)
(***************************************************************************)
publishFrame ==
    UNCHANGED <<shutdown, subscribeHandlers, senders, handlerVars, streamDone,
                boxVars, senderVars, cpc, relayer>>

\* admitPublish.
Publish(p) ==
    /\ ppc[p] = "idle"
    /\ ppc' = [ppc EXCEPT ![p] = IF shutdown THEN "unavailable" ELSE "verify"]
    /\ publishes' = IF shutdown THEN publishes ELSE publishes + 1
    /\ publishFrame

\* Length and signature, then GetBox, then box.Publish.
publishGoesOn(p) ==
    /\ ppc[p] \in {"verify", "getBox"}
    /\ ppc' = [ppc EXCEPT ![p] = IF @ = "verify" THEN "getBox" ELSE "publish"]
    /\ publishFrame
    /\ UNCHANGED publishes

\* Mutant of publishReturns: publishes.Done is only reached without an error.
publishReturnsLeaky(p) ==
    /\ \/ /\ ppc[p] = "publish" /\ ppc' = [ppc EXCEPT ![p] = "ok"]
          /\ publishes' = publishes - 1
       \/ /\ ppc[p] \in {"verify", "getBox", "publish"}
          /\ ppc' = [ppc EXCEPT ![p] = "error"]
          /\ UNCHANGED publishes
    /\ publishFrame

\* Publish returns, from any of its steps, and counts itself out.
publishReturns(p) ==
    /\ \/ ppc[p] = "publish" /\ ppc' = [ppc EXCEPT ![p] = "ok"]
       \/ /\ ppc[p] \in {"verify", "getBox", "publish"}
          /\ ppc' = [ppc EXCEPT ![p] = "error"]
    /\ publishes' = publishes - 1
    /\ publishFrame

closeFrame ==
    UNCHANGED <<counterVars, handlerVars, streamDone, boxVars, senderVars, ppc>>

\* BeginShutdown, called by the agent before Close.
BeginShutdown ==
    /\ ~shutdown /\ shutdown' = TRUE
    /\ closeFrame
    /\ UNCHANGED <<cpc, relayer>>

\* Close calls BeginShutdown itself.
Close(k) ==
    /\ cpc[k] = "idle" /\ cpc' = [cpc EXCEPT ![k] = "publishes"]
    /\ shutdown' = TRUE
    /\ closeFrame
    /\ UNCHANGED relayer

\* Mutant of waits: the senders are waited for before the handlers.
waitsSwapped(k) ==
    \/ /\ cpc[k] = "publishes" /\ publishes = 0
       /\ cpc' = [cpc EXCEPT ![k] = "handlers"]
    \/ /\ cpc[k] = "handlers" /\ senders = 0
       /\ cpc' = [cpc EXCEPT ![k] = "senders"]
    \/ /\ cpc[k] = "senders" /\ subscribeHandlers = 0
       /\ cpc' = [cpc EXCEPT ![k] = "relayer"]

\* The three WaitGroups, in the order of the code.
waits(k) ==
    \/ /\ cpc[k] = "publishes" /\ publishes = 0
       /\ cpc' = [cpc EXCEPT ![k] = "handlers"]
    \/ /\ cpc[k] = "handlers" /\ subscribeHandlers = 0
       /\ cpc' = [cpc EXCEPT ![k] = "senders"]
    \/ /\ cpc[k] = "senders" /\ senders = 0
       /\ cpc' = [cpc EXCEPT ![k] = "relayer"]

closeWaits(k) ==
    /\ waits(k)
    /\ closeFrame
    /\ UNCHANGED <<shutdown, relayer>>

\* relayer.Close: the first caller runs the body, the others wait for it.
closeRelayer(k) ==
    /\ cpc[k] = "relayer" /\ relayer # "closing"
    /\ cpc' = [cpc EXCEPT ![k] = IF relayer = "open" THEN "closing" ELSE "returned"]
    /\ relayer' = IF relayer = "open" THEN "closing" ELSE relayer
    /\ closeFrame
    /\ UNCHANGED shutdown

\* The center has closed every box, so no dispatcher holds a subscriber.
closeReturns(k) ==
    /\ cpc[k] = "closing" /\ givenUp = {}
    /\ cpc' = [cpc EXCEPT ![k] = "returned"]
    /\ relayer' = "closed"
    /\ closeFrame
    /\ UNCHANGED shutdown

-----------------------------------------------------------------------------
handlerStep(h) == validate(h) \/ getBox(h) \/ waitSender(h) \/ leave(h)

senderStep(h) == admit(h) \/ loop(h) \/ selectEnds(h) \/ selectTakes(h) \/ taken(h)

Next ==
    \/ \E h \in Streams :
          \/ Subscribe(h) \/ handlerStep(h) \/ cancelJoin(h)
          \/ joined(h) \/ joinFailed(h) \/ withdraw(h) \/ streamEnds(h)
          \/ senderStep(h) \/ sendReturns(h) \/ sendFails(h)
    \/ boxDelivers \/ boxEnds
    \/ \E p \in Publishers : Publish(p) \/ publishGoesOn(p) \/ publishReturns(p)
    \/ BeginShutdown
    \/ \E k \in Closers : Close(k) \/ closeWaits(k) \/ closeRelayer(k) \/ closeReturns(k)

Spec == Init /\ [][Next]_vars

(***************************************************************************)
(* Goroutines whose next step is ready take it.  A join is only assumed to *)
(* return once its context is over (the select of JoinSubContext sees      *)
(* that, whatever the backend does), and Send only once the stream is      *)
(* over; gRPC ends the stream of a handler that has returned.  GetBox and  *)
(* box.Publish return (CallsReturn of module Center), and a withdrawal is  *)
(* served (FailedJoinLeavesNothing of module Box).  Nothing makes a client *)
(* read, leave or call.                                                    *)
(***************************************************************************)
Fairness ==
    /\ \A h \in Streams :
          /\ WF_vars(handlerStep(h))
          /\ WF_vars(cancelJoin(h))
          /\ WF_vars(joinCtxDone(h) /\ joinFailed(h)) /\ WF_vars(withdraw(h))
          /\ WF_vars(hpc[h] = "returned" /\ streamEnds(h))
          /\ WF_vars(senderStep(h))
          /\ WF_vars(h \in streamDone /\ sendFails(h))
    /\ \A p \in Publishers : WF_vars(publishGoesOn(p) \/ publishReturns(p))
    /\ \A k \in Closers :
          WF_vars(closeWaits(k) \/ closeRelayer(k) \/ closeReturns(k))

FairSpec == Spec /\ Fairness

-----------------------------------------------------------------------------
(***************************************************************************)
(* Properties.                                                             *)
(***************************************************************************)
Handling == {"validate", "getBox", "join", "wait", "leave"}
Sending  == {"admit", "sending", "loop", "select", "taken"}

\* The type of every variable of the service (lake.go:29-42).
TypeOK ==
    /\ shutdown \in BOOLEAN
    /\ publishes \in Nat /\ subscribeHandlers \in Nat /\ senders \in Nat
    /\ hpc \in [Streams -> Handling \cup {"idle", "returned"}]
    /\ ret \in [Streams -> Statuses \cup {"none"}]
    /\ watching \subseteq Streams /\ joinCancelled \subseteq Streams
    /\ streamDone \subseteq Streams /\ subscriber \subseteq Streams
    /\ registered \subseteq Streams /\ givenUp \subseteq Streams
    /\ stopped \in [Streams -> Reasons \cup {"no"}]
    /\ messages \in [Streams -> Seq(Nat)] /\ delivered \in Nat
    /\ spc \in [Streams -> Sending \cup {"none", "ended"}]
    /\ response \in [Streams -> Response]
    /\ result \in [Streams -> Seq(Errors)]
    /\ sent \in [Streams -> Seq(Response)] /\ late \in [Streams -> Nat]
    /\ ppc \in [Publishers -> {"idle", "verify", "getBox", "publish", "ok",
                               "error", "unavailable"}]
    /\ cpc \in [Closers -> {"idle", "publishes", "handlers", "senders",
                            "relayer", "closing", "returned"}]
    /\ relayer \in {"open", "closing", "closed"}

(***************************************************************************)
(* The relayer is closed under nobody: when Close goes on to it no Publish *)
(* is under way, no handler runs, no sender holds a stream and every       *)
(* subscriber that was handed out has left its box, although senders.Add   *)
(* is called outside the mutex while Close is already waiting              *)
(* (lake.go:61-70, 217).  What a box may still have then is what joins cut *)
(* short by the shutdown left to their withdrawals (box.go:591-599,        *)
(* 610-617): nobody was given it, and a closed relayer has none of it and  *)
(* gets no more.                                                           *)
(***************************************************************************)
QuietRelayer ==
    relayer # "open" =>
        /\ \A p \in Publishers : ppc[p] \notin {"verify", "getBox", "publish"}
        /\ \A h \in Streams : hpc[h] \notin Handling /\ spc[h] \notin Sending
        /\ registered = {} /\ givenUp \cap subscriber = {}
        /\ relayer = "closed" => givenUp = {}

(***************************************************************************)
(* What a client reads is one ACK, and after an ok ACK an unbroken run of  *)
(* the capsules the box delivered: neither the ACK skipped by a shutdown   *)
(* nor a capsule dropped by it is followed by anything.  "A send admitted  *)
(* just before shutdown may still finish", but one at most (lake.go:222).  *)
(***************************************************************************)
AckThenRun ==
    \A h \in Streams :
        LET log == sent[h] IN
        /\ log # <<>> => log[1].type \in {"ackOk", "ackFail"}
        /\ Len(log) > 1 => log[1].type = "ackOk"
        /\ \A i \in 2..Len(log) : log[i].type = "relay"
        /\ \A i \in 2..(Len(log) - 1) : log[i + 1].capsule = log[i].capsule + 1
        /\ late[h] <= 1

\* What excuses a nil.
QuietCause(h) ==
    \/ h \in streamDone \/ stopped[h] = "nil"
    \/ shutdown /\ stopped[h] = "closed"
    \/ shutdown /\ stopped[h] = "no" /\ result[h] = <<>>
    \/ shutdown /\ result[h] # <<>> /\ Head(result[h]) = "nil"

(***************************************************************************)
(* A subscription that had begun ends without an error only for a reason:  *)
(* a client that is gone, a box that stopped it without an error, or the   *)
(* shutdown.  The shutdown is a reason only if there is nothing to report: *)
(* an eviction, a failed worker and a failed Send are still reported while *)
(* it goes on (lake.go:302-316), a box that it closed is not.  The formula *)
(* lets one race pass, because the code does: the sender saw the shutdown  *)
(* first and its nil won the select (lake.go:240-243, 284), so that an     *)
(* evicted client reads an orderly end.                                    *)
(***************************************************************************)
QuietEndHasCause ==
    [][\A h \in subscriber :
          hpc[h] = "wait" /\ ret'[h] = "nil" => QuietCause(h)]_vars

\* A handler returns once the service shuts down, the client is gone or the
\* box has ended its subscriber, also while its sender is stuck in Send.
HandlersEnd ==
    \A h \in Streams :
        hpc[h] \in Handling /\ (shutdown \/ h \in streamDone \/ stopped[h] # "no")
            ~> hpc[h] = "returned"

\* Close returns, whatever the clients do with their streams (lake.go:61-70).
CloseReturns == \A k \in Closers : cpc[k] # "idle" ~> cpc[k] = "returned"
=============================================================================
