--------------------------------- MODULE Box ---------------------------------
(***************************************************************************)
(* msg/box.go: one topic's message box.  A single dispatcher goroutine     *)
(* owns the set of subscribers of the topic; a worker goroutine per        *)
(* generation reads the backend subscription and feeds the dispatcher;     *)
(* any number of callers run JoinSubContext, LeaveSub, StopSub and Close.  *)
(*                                                                         *)
(* controlCh is unbuffered, so sending an event on it is one step together *)
(* with the dispatcher's handler of that event.  A handler runs without    *)
(* blocking (every channel it sends on is buffered and empty, which        *)
(* RepliesFitTheirChannels checks); its tail, which does block on the      *)
(* worker group and on topic.Close, is the three steps after "loop".       *)
(*                                                                         *)
(* The maps pending and active are the sets of the callers whose           *)
(* subscriber they hold; UniqueSubscriberIDs shows the sets stand for maps *)
(* keyed by subscriber ID.  A message keeps the generation of the worker   *)
(* that read it when it moves to a subscriber's queue, as history.         *)
(***************************************************************************)
EXTENDS Naturals, Sequences, FiniteSets

CONSTANTS
    Clients,       \* calls of JoinSubContext; each allocates one Subscriber
    SubscriberID,  \* the ID each call passes; calls may share one
    Stoppers,      \* calls of StopSub
    Closers,       \* calls of Close
    InternalCap,   \* internalChanBufferSize, capacity of messageCh
    ExternalCap,   \* externalChanBufferSize, capacity of Subscriber.messages
    MaxCapsules    \* bound: capsules the backend delivers in all generations

ASSUME CapacityAssumption ==
    /\ InternalCap \in Nat \ {0}
    /\ ExternalCap \in Nat \ {0}

ASSUME CallersAssumption ==
    /\ DOMAIN SubscriberID = Clients
    /\ MaxCapsules \in Nat

VARIABLES
    \* boxDispatcher
    state, generation, workerCancel, pending, active,
    \* the dispatcher's place in runDispatcher, and box.ctx
    dpc, boxCancelled,
    \* one worker per generation, its context and its backend subscription
    worker, cancelled, open,
    \* messageCh and the number of capsules the backend has delivered
    messageCh, sent,
    \* JoinSubContext and LeaveSub: place in the call, context, cancel goroutine
    pc, ctxDone, cancelJoin,
    \* Subscriber: why it was stopped, replies, messages, and those consumed
    stopped, replies, messages, received,
    \* StopSub and Close
    spc, cpc, closeOnce

dispatcherVars == <<state, generation, workerCancel, pending, active>>
boxVars        == <<dpc, boxCancelled>>
workerVars     == <<worker, cancelled, open>>
streamVars     == <<messageCh, sent>>
callVars       == <<pc, ctxDone, cancelJoin>>
subscriberVars == <<stopped, replies>>
queueVars      == <<messages, received>>
otherCallVars  == <<spc, cpc, closeOnce>>

vars == <<dispatcherVars, boxVars, workerVars, streamVars, callVars,
          subscriberVars, queueVars, otherCallVars>>

-----------------------------------------------------------------------------
States    == {"idle", "starting", "running", "stopping", "closing"}
Reasons   == {"nil", "canceled", "closed", "duplicate", "slow",
              "startError", "nextError"}
Results   == {"ok"} \cup Reasons
WorkerPCs == {"subscribe", "startOk", "startFailed", "next", "push",
              "unsubscribe", "stopped", "returning", "exit"}
Worker    == [pc : WorkerPCs, err : {"nil", "startError", "nextError"},
              capsule : Nat]
Message   == [gen : Nat, capsule : Nat]

\* newBoxWithBackend and the dispatcher's initial record.
Init ==
    /\ state = "idle" /\ generation = 0 /\ workerCancel = FALSE
    /\ pending = {} /\ active = {}
    /\ dpc = "loop" /\ boxCancelled = FALSE
    /\ worker = <<>> /\ cancelled = {} /\ open = {}
    /\ messageCh = <<>> /\ sent = 0
    /\ pc = [c \in Clients |-> "idle"] /\ ctxDone = {} /\ cancelJoin = {}
    /\ stopped = [c \in Clients |-> "no"]
    /\ replies = [c \in Clients |-> <<>>]
    /\ messages = [c \in Clients |-> <<>>]
    /\ received = [c \in Clients |-> <<>>]
    /\ spc = [s \in Stoppers |-> "idle"]
    /\ cpc = [k \in Closers |-> "idle"]
    /\ closeOnce = "new"

-----------------------------------------------------------------------------
(***************************************************************************)
(* Steps shared by the handlers.                                           *)
(***************************************************************************)
\* Mutant of stop: done is never closed.
stopSilently(S, why) == UNCHANGED stopped

\* Subscriber.stop: the first reason stays.
stop(S, why) ==
    stopped' = [c \in Clients |-> IF c \in S /\ stopped[c] = "no"
                                  THEN why ELSE stopped[c]]

\* request.reply <- result, for every request in S.
reply(S, result) ==
    replies' = [c \in Clients |-> IF c \in S THEN Append(replies[c], result)
                                  ELSE replies[c]]

\* Who holds the ID of caller c in a map.
holder(map, c) == {d \in map : SubscriberID[d] = SubscriberID[c]}

\* startWorker: a goroutine for the next generation, beside the workers w.
startWorker(w) ==
    worker' = [g \in 1..(generation + 1) |->
                  IF g = generation + 1
                  THEN [pc |-> "subscribe", err |-> "nil", capsule |-> 0]
                  ELSE w[g]]

startGeneration(w) ==
    /\ generation' = generation + 1
    /\ state' = "starting"
    /\ workerCancel' = TRUE
    /\ startWorker(w)
    /\ UNCHANGED cancelled

\* Mutant of cancelWorker: the worker's context is never cancelled.
cancelNoWorker == UNCHANGED cancelled

\* workerCancel(): cancels the context of the current generation's worker.
cancelWorker ==
    cancelled' = IF workerCancel THEN cancelled \cup {generation} ELSE cancelled

\* Mutant of beginStopping: workerCancel is reset when it is called.
beginStoppingForgets ==
    /\ state' = "stopping"
    /\ cancelWorker
    /\ workerCancel' = FALSE
    /\ UNCHANGED generation

beginStopping ==
    /\ state' = "stopping"
    /\ cancelWorker
    /\ UNCHANGED <<generation, workerCancel>>

\* Mutant of restartOrIdle: the pending joins are not looked at.
idleAlways(w) ==
    /\ state' = "idle"
    /\ workerCancel' = FALSE
    /\ worker' = w
    /\ UNCHANGED <<generation, cancelled>>

\* Called once workerCancel is nil; w are the workers after the event.
restartOrIdle(w) ==
    \/ /\ pending = {}
       /\ state' = "idle"
       /\ workerCancel' = FALSE
       /\ worker' = w
       /\ UNCHANGED <<generation, cancelled>>
    \/ /\ pending # {}
       /\ startGeneration(w)

\* Mutant of deserts: the last subscriber's departure goes unnoticed.
desertsNever(gone, map, when) == FALSE

\* Removing gone from map in the given state leaves nobody to serve.
deserts(gone, map, when) == gone # {} /\ map \ gone = {} /\ state = when

beginStoppingIf(condition) ==
    IF condition
    THEN beginStopping
    ELSE UNCHANGED <<state, generation, workerCancel, cancelled>>

\* Mutant of failPending: the requests stay in the map.
failPendingKeeps(err) ==
    /\ UNCHANGED pending
    /\ stop(pending, err)
    /\ reply(pending, err)

failPending(err) ==
    /\ pending' = {}
    /\ stop(pending, err)
    /\ reply(pending, err)

\* The end of handleControl: leave the loop once closing with no worker.
afterControl ==
    dpc' = IF state' = "closing" /\ ~workerCancel' THEN "wgWait" ELSE "loop"

-----------------------------------------------------------------------------
(***************************************************************************)
(* The dispatcher's handlers.                                              *)
(***************************************************************************)
rejectDuplicate(c) ==
    /\ stop({c}, "duplicate")
    /\ reply({c}, "duplicate")

\* An ID is taken while a subscriber with it is active or pending.
idTaken(c) == holder(active \cup pending, c) # {}

\* The request of caller c is admitted, parked or refused.
joinOutcome(c) ==
    \/ /\ c \in ctxDone
       /\ stop({c}, "canceled") /\ reply({c}, "canceled")
       /\ UNCHANGED <<dispatcherVars, worker, cancelled>>
    \/ /\ c \notin ctxDone /\ state = "closing"
       /\ stop({c}, "closed") /\ reply({c}, "closed")
       /\ UNCHANGED <<dispatcherVars, worker, cancelled>>
    \/ /\ c \notin ctxDone /\ state # "closing" /\ idTaken(c)
       /\ rejectDuplicate(c)
       /\ UNCHANGED <<dispatcherVars, worker, cancelled>>
    \/ /\ c \notin ctxDone /\ state = "idle" /\ ~idTaken(c)
       /\ pending' = pending \cup {c}
       /\ startGeneration(worker)
       /\ UNCHANGED <<active, subscriberVars>>
    \/ /\ c \notin ctxDone /\ state \in {"starting", "stopping"} /\ ~idTaken(c)
       /\ pending' = pending \cup {c}
       /\ UNCHANGED <<state, generation, workerCancel, active, worker,
                      cancelled, subscriberVars>>
    \/ /\ c \notin ctxDone /\ state = "running" /\ ~idTaken(c)
       /\ active' = active \cup {c}
       /\ reply({c}, "ok")
       /\ UNCHANGED <<state, generation, workerCancel, pending, worker,
                      cancelled, stopped>>

handleJoin(c) ==
    /\ dpc = "loop" /\ pc[c] = "send"
    /\ pc' = [pc EXCEPT ![c] = "reply"]
    /\ joinOutcome(c)
    /\ afterControl
    /\ UNCHANGED <<boxCancelled, open, streamVars, ctxDone, cancelJoin,
                   queueVars, otherCallVars>>

\* Mutant of matches: by ID alone.
matchesID(map, c) == holder(map, c)

\* A cancelJoinRequest matches the very subscriber it was sent for.
matches(map, c) == {d \in map : d = c}

handleCancelJoin(c) ==
    /\ dpc = "loop" /\ c \in cancelJoin
    /\ cancelJoin' = cancelJoin \ {c}
    /\ LET parked == matches(pending, c)
           joined == matches(active, c)
       IN  /\ pending' = pending \ parked
           /\ active' = active \ joined
           /\ stop(parked \cup joined, "canceled")
           /\ reply(parked, "canceled")
           /\ beginStoppingIf(\/ deserts(parked, pending, "starting")
                              \/ deserts(joined, active, "running"))
    /\ afterControl
    /\ UNCHANGED <<boxCancelled, worker, open, streamVars, pc, ctxDone,
                   queueVars, otherCallVars>>

\* The reply to a leaveRequest is sent here, so the call returns with it.
handleLeave(c) ==
    /\ dpc = "loop" /\ pc[c] = "leaving"
    /\ pc' = [pc EXCEPT ![c] = "left"]
    /\ LET gone == holder(active, c)
       IN  /\ active' = active \ gone
           /\ stop(gone, "nil")
           /\ beginStoppingIf(deserts(gone, active, "running"))
    /\ afterControl
    /\ UNCHANGED <<pending, replies, boxCancelled, worker, open, streamVars,
                   ctxDone, cancelJoin, queueVars, otherCallVars>>

handleStop(s) ==
    /\ dpc = "loop" /\ spc[s] = "send"
    /\ spc' = [spc EXCEPT ![s] = "returned"]
    /\ active' = {}
    /\ stop(active, "nil")
    /\ beginStoppingIf(state \in {"starting", "running"})
    /\ afterControl
    /\ UNCHANGED <<pending, replies, boxCancelled, worker, open, streamVars,
                   callVars, queueVars, cpc, closeOnce>>

handleClose(k) ==
    /\ dpc = "loop" /\ cpc[k] = "send"
    /\ cpc' = [cpc EXCEPT ![k] = "wait"]
    /\ closeOnce' = "over"
    /\ IF state = "closing"
       THEN UNCHANGED <<dispatcherVars, boxCancelled, cancelled,
                        subscriberVars>>
       ELSE /\ state' = "closing"
            /\ boxCancelled' = TRUE
            /\ pending' = {} /\ active' = {}
            /\ stop(pending \cup active, "closed")
            /\ reply(pending, "closed")
            /\ cancelWorker
            /\ UNCHANGED <<generation, workerCancel>>
    /\ afterControl
    /\ UNCHANGED <<worker, open, streamVars, callVars, queueVars, spc>>

\* A startResult with an error is its worker's terminal event.
handleStartFailure(g) ==
    LET w == [worker EXCEPT ![g].pc = "returning"] IN
    \/ /\ state = "starting"
       /\ failPending("startError")
       /\ state' = "idle" /\ workerCancel' = FALSE /\ worker' = w
       /\ UNCHANGED <<generation, active, cancelled>>
    \/ /\ state = "stopping"
       /\ restartOrIdle(w)
       /\ UNCHANGED <<pending, active, subscriberVars>>
    \/ /\ state \notin {"starting", "stopping"}
       /\ workerCancel' = FALSE /\ worker' = w
       /\ UNCHANGED <<state, generation, pending, active, cancelled,
                      subscriberVars>>

\* activation <- activate: the worker goes on reading or unsubscribes.
activation(g, activate) ==
    worker' = [worker EXCEPT ![g].pc = IF activate THEN "next" ELSE "unsubscribe"]

\* Pending requests whose context is over are refused when the start succeeds.
expired == pending \cap ctxDone

handleStartSuccess(g) ==
    \/ /\ state = "starting"
       /\ stop(expired, "canceled")
       /\ replies' = [c \in Clients |->
                        IF c \in expired THEN Append(replies[c], "canceled")
                        ELSE IF c \in pending THEN Append(replies[c], "ok")
                        ELSE replies[c]]
       /\ pending' = {}
       /\ active' = active \cup (pending \ expired)
       /\ activation(g, pending \ expired # {})
       /\ IF pending \ expired = {}
          THEN beginStopping
          ELSE /\ state' = "running"
               /\ UNCHANGED <<generation, workerCancel, cancelled>>
    \/ /\ state # "starting"
       /\ activation(g, FALSE)
       /\ UNCHANGED <<dispatcherVars, cancelled, subscriberVars>>

handleStartResult(g) ==
    /\ dpc = "loop" /\ worker[g].pc \in {"startOk", "startFailed"}
    /\ IF worker[g].pc = "startFailed"
       THEN IF g = generation
            THEN handleStartFailure(g)
            ELSE /\ worker' = [worker EXCEPT ![g].pc = "returning"]
                 /\ UNCHANGED <<dispatcherVars, cancelled, subscriberVars>>
       ELSE IF g = generation
            THEN handleStartSuccess(g)
            ELSE /\ activation(g, FALSE)
                 /\ UNCHANGED <<dispatcherVars, cancelled, subscriberVars>>
    /\ afterControl
    /\ UNCHANGED <<boxCancelled, open, streamVars, callVars, queueVars,
                   otherCallVars>>

\* workerStopped of the current generation.
workerStoppedOutcome(g) ==
    LET w == [worker EXCEPT ![g].pc = "returning"] IN
    \/ /\ state = "running"
       /\ active' = {}
       /\ stop(active, worker[g].err)
       /\ state' = "idle" /\ workerCancel' = FALSE /\ worker' = w
       /\ UNCHANGED <<generation, pending, cancelled, replies>>
    \/ /\ state = "stopping"
       /\ restartOrIdle(w)
       /\ UNCHANGED <<pending, active, subscriberVars>>
    \/ /\ state \notin {"running", "stopping"}
       /\ workerCancel' = FALSE /\ worker' = w
       /\ UNCHANGED <<state, generation, pending, active, cancelled,
                      subscriberVars>>

handleWorkerStopped(g) ==
    /\ dpc = "loop" /\ worker[g].pc = "stopped"
    /\ IF g = generation
       THEN workerStoppedOutcome(g)
       ELSE /\ worker' = [worker EXCEPT ![g].pc = "returning"]
            /\ UNCHANGED <<dispatcherVars, cancelled, subscriberVars>>
    /\ afterControl
    /\ UNCHANGED <<boxCancelled, open, streamVars, callVars, queueVars,
                   otherCallVars>>

\* Mutant of isCurrent: the generation is not compared.
isRunning(message) == state = "running"

\* A message counts only while the generation that read it is running.
isCurrent(message) == state = "running" /\ message.gen = generation

hasRoom(c) == Len(messages[c]) < ExternalCap

\* Mutant of evicted: a message to a full queue is dropped.
evictedNever == {}

\* Subscribers without room are removed, never passed over.
evicted == {c \in active : ~hasRoom(c)}

handleMessage ==
    /\ dpc = "loop" /\ messageCh # <<>>
    /\ messageCh' = Tail(messageCh)
    /\ LET message == Head(messageCh)
       IN  IF isCurrent(message)
           THEN /\ messages' = [c \in Clients |->
                                  IF c \in active /\ hasRoom(c)
                                  THEN Append(messages[c], message)
                                  ELSE messages[c]]
                /\ active' = active \ evicted
                /\ stop(evicted, "slow")
                /\ beginStoppingIf(active \ evicted = {})
           ELSE UNCHANGED <<state, generation, workerCancel, active, cancelled,
                            stopped, messages>>
    /\ UNCHANGED <<pending, boxVars, worker, open, sent, callVars, replies,
                   received, otherCallVars>>

\* workerWG.Wait returns, and topic.Close is called.
waitWorkers ==
    /\ dpc = "wgWait"
    /\ \A g \in 1..generation : worker[g].pc = "exit"
    /\ dpc' = "topicClose"
    /\ UNCHANGED <<dispatcherVars, boxCancelled, workerVars, streamVars,
                   callVars, subscriberVars, queueVars, otherCallVars>>

\* topic.Close returns, with or without an error, and done is closed.
topicClosed ==
    /\ dpc = "topicClose"
    /\ dpc' = "done"
    /\ UNCHANGED <<dispatcherVars, boxCancelled, workerVars, streamVars,
                   callVars, subscriberVars, queueVars, otherCallVars>>

-----------------------------------------------------------------------------
(***************************************************************************)
(* The worker goroutine of generation g (startWorker).  The backend        *)
(* subscription is external: Subscribe returns or fails, Next returns a    *)
(* message, an error, or the end of the worker's context.                  *)
(***************************************************************************)
workerStep(g, from, to) ==
    /\ worker[g].pc = from
    /\ worker' = [worker EXCEPT ![g].pc = to]
    /\ UNCHANGED <<dispatcherVars, boxVars, callVars, subscriberVars,
                   queueVars, otherCallVars>>

subscribe(g) ==
    \/ /\ workerStep(g, "subscribe", "startOk")
       /\ open' = open \cup {g}
       /\ UNCHANGED <<cancelled, streamVars>>
    \/ /\ workerStep(g, "subscribe", "startFailed")
       /\ UNCHANGED <<cancelled, open, streamVars>>

\* Next returned data that decodes.
nextMessage(g) ==
    /\ worker[g].pc = "next" /\ sent < MaxCapsules
    /\ sent' = sent + 1
    /\ worker' = [worker EXCEPT ![g].pc = "push", ![g].capsule = sent + 1]
    /\ UNCHANGED <<dispatcherVars, boxVars, cancelled, open, messageCh,
                   callVars, subscriberVars, queueVars, otherCallVars>>

\* Next returned data that does not decode: logged, and on to the next.
nextMalformed(g) ==
    /\ workerStep(g, "next", "next")
    /\ UNCHANGED <<cancelled, open, streamVars>>

\* Next failed: a real error counts only while the context is alive.
nextFails(g) ==
    /\ worker[g].pc = "next" /\ g \notin cancelled
    /\ \E err \in {"nil", "nextError"} :
          worker' = [worker EXCEPT ![g].pc = "unsubscribe", ![g].err = err]
    /\ UNCHANGED <<dispatcherVars, boxVars, cancelled, open, streamVars,
                   callVars, subscriberVars, queueVars, otherCallVars>>

nextCancelled(g) ==
    /\ g \in cancelled
    /\ workerStep(g, "next", "unsubscribe")
    /\ UNCHANGED <<cancelled, open, streamVars>>

\* The select on messageCh and the context; a cancelled worker leaves the loop.
push(g) ==
    /\ workerStep(g, "push", IF g \in cancelled THEN "unsubscribe" ELSE "next")
    /\ \/ /\ Len(messageCh) < InternalCap
          /\ messageCh' = Append(messageCh,
                              [gen |-> g, capsule |-> worker[g].capsule])
       \/ /\ g \in cancelled
          /\ UNCHANGED messageCh
    /\ UNCHANGED <<cancelled, open, sent>>

\* subscription.Cancel returns; workerStopped is sent next.
unsubscribe(g) ==
    /\ workerStep(g, "unsubscribe", "stopped")
    /\ open' = open \ {g}
    /\ UNCHANGED <<cancelled, streamVars>>

\* The deferred workerWG.Done.
workerDone(g) ==
    /\ workerStep(g, "returning", "exit")
    /\ UNCHANGED <<cancelled, open, streamVars>>

-----------------------------------------------------------------------------
(***************************************************************************)
(* The callers.                                                            *)
(***************************************************************************)
callStep(c, from, to) ==
    /\ pc[c] = from
    /\ pc' = [pc EXCEPT ![c] = to]
    /\ UNCHANGED <<dispatcherVars, boxVars, workerVars, streamVars, replies,
                   queueVars, otherCallVars>>

\* box.ctx or box.done releases a caller.
boxOver == boxCancelled \/ dpc = "done"

\* The caller's context ends while its JoinSubContext has not returned.
cancelContext(c) ==
    /\ pc[c] \in {"idle", "send", "reply"} /\ c \notin ctxDone
    /\ ctxDone' = ctxDone \cup {c}
    /\ UNCHANGED <<dispatcherVars, boxVars, workerVars, streamVars, pc,
                   cancelJoin, subscriberVars, queueVars, otherCallVars>>

\* JoinSubContext up to its first select.
joinCall(c) ==
    /\ callStep(c, "idle", IF c \in ctxDone THEN "failed" ELSE "send")
    /\ UNCHANGED <<ctxDone, cancelJoin, stopped>>

\* The first select gives up: the request was never sent.
joinGivesUp(c) ==
    /\ callStep(c, "send", "failed")
    /\ \/ c \in ctxDone /\ stop({c}, "canceled")
       \/ boxOver /\ stop({c}, "closed")
    /\ UNCHANGED <<ctxDone, cancelJoin>>

\* Mutant of joinAbandoned: the request is not withdrawn.
joinAbandonedSilently(c) ==
    /\ c \in ctxDone
    /\ callStep(c, "reply", "failed")
    /\ stop({c}, "canceled")
    /\ UNCHANGED <<ctxDone, cancelJoin>>

\* The second select sees the context end: a goroutine withdraws the request.
joinAbandoned(c) ==
    /\ c \in ctxDone
    /\ callStep(c, "reply", "failed")
    /\ stop({c}, "canceled")
    /\ cancelJoin' = cancelJoin \cup {c}
    /\ UNCHANGED ctxDone

\* The second select sees the box close.
joinBoxOver(c) ==
    /\ boxOver
    /\ callStep(c, "reply", "failed")
    /\ stop({c}, "closed")
    /\ UNCHANGED <<ctxDone, cancelJoin>>

\* The second select takes the reply; a late cancellation still withdraws.
joinReplied(c) ==
    /\ replies[c] # <<>>
    /\ \/ /\ Head(replies[c]) # "ok"
          /\ callStep(c, "reply", "failed")
          /\ UNCHANGED cancelJoin
       \/ /\ Head(replies[c]) = "ok" /\ c \in ctxDone
          /\ callStep(c, "reply", "failed")
          /\ cancelJoin' = cancelJoin \cup {c}
       \/ /\ Head(replies[c]) = "ok" /\ c \notin ctxDone
          /\ callStep(c, "reply", "joined")
          /\ UNCHANGED cancelJoin
    /\ UNCHANGED <<ctxDone, stopped>>

\* The withdrawing goroutine ends because the box is done.
cancelJoinOver(c) ==
    /\ c \in cancelJoin /\ dpc = "done"
    /\ cancelJoin' = cancelJoin \ {c}
    /\ UNCHANGED <<dispatcherVars, boxVars, workerVars, streamVars, pc,
                   ctxDone, subscriberVars, queueVars, otherCallVars>>

\* The subscriber's owner takes a message from Messages().
receive(c) ==
    /\ pc[c] = "joined" /\ messages[c] # <<>>
    /\ messages' = [messages EXCEPT ![c] = Tail(@)]
    /\ received' = [received EXCEPT ![c] = Append(@, Head(messages[c]))]
    /\ UNCHANGED <<dispatcherVars, boxVars, workerVars, streamVars, callVars,
                   subscriberVars, otherCallVars>>

\* LeaveSub is called, and gives up if the box is over.
leaveCall(c) ==
    /\ callStep(c, "joined", "leaving")
    /\ UNCHANGED <<ctxDone, cancelJoin, stopped>>

leaveBoxOver(c) ==
    /\ boxOver
    /\ callStep(c, "leaving", "left")
    /\ UNCHANGED <<ctxDone, cancelJoin, stopped>>

\* A step of StopSub or Close that only moves the call on.
boxStays ==
    UNCHANGED <<dispatcherVars, boxVars, workerVars, streamVars, callVars,
                subscriberVars, queueVars>>

stopCall(s) ==
    /\ spc[s] = "idle"
    /\ spc' = [spc EXCEPT ![s] = "send"]
    /\ boxStays
    /\ UNCHANGED <<cpc, closeOnce>>

stopBoxOver(s) ==
    /\ boxOver /\ spc[s] = "send"
    /\ spc' = [spc EXCEPT ![s] = "returned"]
    /\ boxStays
    /\ UNCHANGED <<cpc, closeOnce>>

\* Close: the first caller runs the closeOnce body, the others wait for it.
closeCall(k) ==
    /\ cpc[k] = "idle"
    /\ cpc' = [cpc EXCEPT ![k] = IF closeOnce = "new" THEN "send" ELSE "once"]
    /\ closeOnce' = IF closeOnce = "new" THEN "body" ELSE closeOnce
    /\ boxStays
    /\ UNCHANGED spc

closeOnceOver(k) ==
    /\ cpc[k] = "once" /\ closeOnce = "over"
    /\ cpc' = [cpc EXCEPT ![k] = "wait"]
    /\ boxStays
    /\ UNCHANGED <<spc, closeOnce>>

closeReturns(k) ==
    /\ cpc[k] = "wait" /\ dpc = "done"
    /\ cpc' = [cpc EXCEPT ![k] = "returned"]
    /\ boxStays
    /\ UNCHANGED <<spc, closeOnce>>

-----------------------------------------------------------------------------
Generations == 1..generation

clientStep(c) ==
    \/ cancelContext(c) \/ joinCall(c) \/ joinGivesUp(c) \/ joinAbandoned(c)
    \/ joinBoxOver(c) \/ joinReplied(c) \/ cancelJoinOver(c)
    \/ receive(c) \/ leaveCall(c) \/ leaveBoxOver(c)

workerNext(g) ==
    \/ subscribe(g) \/ nextMessage(g) \/ nextMalformed(g) \/ nextFails(g)
    \/ nextCancelled(g) \/ push(g) \/ unsubscribe(g) \/ workerDone(g)

\* runDispatcher: one control event, one message, or a step of the tail.
runDispatcher ==
    \/ \E c \in Clients : handleJoin(c) \/ handleCancelJoin(c) \/ handleLeave(c)
    \/ \E s \in Stoppers : handleStop(s)
    \/ \E k \in Closers : handleClose(k)
    \/ \E g \in Generations : handleStartResult(g) \/ handleWorkerStopped(g)
    \/ handleMessage
    \/ waitWorkers
    \/ topicClosed

Next ==
    \/ runDispatcher
    \/ \E g \in Generations : workerNext(g)
    \/ \E c \in Clients : clientStep(c)
    \/ \E s \in Stoppers : stopCall(s) \/ stopBoxOver(s)
    \/ \E k \in Closers : closeCall(k) \/ closeOnceOver(k) \/ closeReturns(k)

Spec == Init /\ [][Next]_vars

(***************************************************************************)
(* Fairness.  The dispatcher serves every sender blocked on controlCh (Go  *)
(* queues them, and controlCh has priority over messageCh); goroutines     *)
(* whose next step is ready take it.  The backend is assumed to answer     *)
(* Subscribe and Cancel and to honour the context in Next.  Nothing makes  *)
(* a caller call, leave, stop, close or cancel, nor the backend deliver.   *)
(***************************************************************************)
Fairness ==
    /\ \A c \in Clients :
          /\ WF_vars(handleJoin(c))
          /\ WF_vars(handleCancelJoin(c))
          /\ WF_vars(handleLeave(c))
          /\ WF_vars(joinGivesUp(c) \/ joinAbandoned(c) \/ joinBoxOver(c)
                     \/ joinReplied(c) \/ cancelJoinOver(c) \/ leaveBoxOver(c))
    /\ \A s \in Stoppers : WF_vars(handleStop(s)) /\ WF_vars(stopBoxOver(s))
    /\ \A k \in Closers : WF_vars(handleClose(k) \/ closeOnceOver(k) \/ closeReturns(k))
    /\ WF_vars(\E g \in Generations :
                  handleStartResult(g) \/ handleWorkerStopped(g))
    /\ WF_vars(\E g \in Generations :
                  subscribe(g) \/ nextCancelled(g) \/ push(g) \/ unsubscribe(g)
                  \/ workerDone(g))
    /\ WF_vars(handleMessage) /\ WF_vars(waitWorkers) /\ WF_vars(topicClosed)

FairSpec == Spec /\ Fairness

-----------------------------------------------------------------------------
(***************************************************************************)
(* Properties.                                                             *)
(***************************************************************************)
DispatcherType ==
    /\ state \in States /\ generation \in Nat /\ workerCancel \in BOOLEAN
    /\ pending \subseteq Clients /\ active \subseteq Clients
    /\ dpc \in {"loop", "wgWait", "topicClose", "done"}
    /\ boxCancelled \in BOOLEAN

WorkerType ==
    /\ worker \in [Generations -> Worker]
    /\ cancelled \subseteq Generations /\ open \subseteq Generations

StreamType ==
    /\ messageCh \in Seq(Message) /\ sent \in Nat
    /\ messages \in [Clients -> Seq(Message)]
    /\ received \in [Clients -> Seq(Message)]

CallType ==
    /\ pc \in [Clients -> {"idle", "send", "reply", "joined", "failed",
                           "leaving", "left"}]
    /\ ctxDone \subseteq Clients /\ cancelJoin \subseteq Clients
    /\ stopped \in [Clients -> {"no"} \cup Reasons]
    /\ replies \in [Clients -> Seq(Results)]
    /\ spc \in [Stoppers -> {"idle", "send", "returned"}]
    /\ cpc \in [Closers -> {"idle", "once", "send", "wait", "returned"}]
    /\ closeOnce \in {"new", "body", "over"}

\* The type of every variable of the box (box.go:118-168).
TypeOK == DispatcherType /\ WorkerType /\ StreamType /\ CallType

\* A worker that has not yet sent its terminal event to the dispatcher.
Alive(g) == worker[g].pc \notin {"returning", "exit"}

(***************************************************************************)
(* At most one worker is alive, it belongs to the current generation, and  *)
(* the dispatcher knows of it exactly through workerCancel; only a worker  *)
(* past Subscribe and before Cancel holds a backend subscription.  So no   *)
(* second backend subscription is ever opened beside the first, and the    *)
(* stale-generation branches of the handlers are never needed.             *)
(***************************************************************************)
OneWorker ==
    /\ \A g \in Generations : Alive(g) => g = generation /\ workerCancel
    /\ workerCancel => generation \in Generations /\ Alive(generation)
    /\ \A g \in open : worker[g].pc \in {"startOk", "next", "push", "unsubscribe"}

(***************************************************************************)
(* What each dispatcher state says of the two maps and of the worker:      *)
(* nobody waits in an idle or running box, a starting box has somebody to  *)
(* start for, a running box has somebody to serve and a worker that serves *)
(* them, and a stopping box has a cancelled worker whose end moves it on.  *)
(***************************************************************************)
StateShape ==
    /\ state = "idle" => pending = {} /\ active = {} /\ ~workerCancel
    /\ state = "starting" =>
          /\ pending # {} /\ active = {} /\ workerCancel
          /\ generation \notin cancelled
          /\ worker[generation].pc \in {"subscribe", "startOk", "startFailed"}
    /\ state = "running" =>
          /\ pending = {} /\ active # {} /\ workerCancel
          /\ generation \notin cancelled
          /\ worker[generation].pc \in {"next", "push", "unsubscribe", "stopped"}
    /\ state = "stopping" =>
          active = {} /\ workerCancel /\ generation \in cancelled
    /\ state = "closing" =>
          pending = {} /\ active = {} /\ (workerCancel => generation \in cancelled)

(***************************************************************************)
(* topic.Close is called only when every worker goroutine has returned and *)
(* every backend subscription has been cancelled (box.go:221-224), and     *)
(* from then on every subscriber that was ever handed out is stopped.      *)
(***************************************************************************)
TopicClosedLast ==
    dpc \in {"topicClose", "done"} =>
        /\ open = {}
        /\ \A g \in Generations : worker[g].pc = "exit"
        /\ \A c \in Clients : pc[c] = "joined" => stopped[c] # "no"

(***************************************************************************)
(* A request is answered at most once, so the buffered reply channel never *)
(* blocks the dispatcher, and a request that is still pending has not been *)
(* answered yet.                                                           *)
(***************************************************************************)
RepliesFitTheirChannels ==
    \A c \in Clients :
        /\ Len(replies[c]) <= 1
        /\ c \in pending => replies[c] = <<>>

(***************************************************************************)
(* The sets stand for maps: no two subscribers known to the dispatcher     *)
(* share an ID, whatever joins, cancellations and leaves interleave.       *)
(***************************************************************************)
UniqueSubscriberIDs ==
    /\ active \cap pending = {}
    /\ \A c, d \in active \cup pending :
          SubscriberID[c] = SubscriberID[d] => c = d

(***************************************************************************)
(* A caller that JoinSubContext gave a subscriber to is registered, or its *)
(* Done channel is closed: no one waits on a subscriber the dispatcher has *)
(* forgotten.                                                              *)
(***************************************************************************)
JoinedIsServed ==
    \A c \in Clients :
        pc[c] \in {"joined", "leaving"} /\ stopped[c] = "no" => c \in active

(***************************************************************************)
(* The dispatcher holds no subscriber without an owner: its call is still  *)
(* open, or it was handed out and not yet left, or the goroutine that      *)
(* withdraws it is under way (box.go:593, 611).                            *)
(***************************************************************************)
NoOrphans ==
    \A c \in active \cup pending :
        pc[c] \in {"reply", "joined", "leaving"} \/ c \in cancelJoin

(***************************************************************************)
(* Only the end of its own context cancels a subscriber: a cancelJoin      *)
(* request that arrives late, when the ID belongs to another subscriber,   *)
(* does not touch it (box.go:262, 270).                                    *)
(***************************************************************************)
OnlyOwnCancellation ==
    \A c \in Clients :
        stopped[c] = "canceled" \/ replies[c] = <<"canceled">> => c \in ctxDone

Delivered(c) == received[c] \o messages[c]

\* The places in messageCh of what the current generation has read.
Backlog == {i \in 1..Len(messageCh) : messageCh[i].gen = generation}

first(S) == CHOOSE i \in S : \A j \in S : i <= j

\* The capsule that the current generation reads or pushes next.
Upcoming ==
    IF worker[generation].pc = "push" THEN worker[generation].capsule ELSE sent + 1

\* The capsule the current generation hands to the dispatcher next.
NextCapsule ==
    IF Backlog = {} THEN Upcoming ELSE messageCh[first(Backlog)].capsule

(***************************************************************************)
(* Fan-out is gapless and in order: what a subscriber got is a run of      *)
(* consecutive capsules of one generation, and while it is active the next *)
(* capsule of the generation continues the run.  A full queue therefore    *)
(* ends a subscriber and never skips a message, and no capsule of an       *)
(* earlier generation reaches a later subscriber (box.go:410-431).         *)
(***************************************************************************)
GaplessFanOut ==
    \A c \in Clients :
        LET log == Delivered(c) IN
        /\ \A i \in 1..(Len(log) - 1) :
              /\ log[i + 1].capsule = log[i].capsule + 1
              /\ log[i + 1].gen = log[i].gen
        /\ c \in active /\ log # <<>> =>
              /\ log[Len(log)].gen = generation
              /\ NextCapsule = log[Len(log)].capsule + 1

-----------------------------------------------------------------------------
(***************************************************************************)
(* Liveness, under Fairness.                                               *)
(***************************************************************************)
(***************************************************************************)
(* Every call returns: no reply to a JoinSubContext is lost, LeaveSub and  *)
(* StopSub are served or see the box over, and Close ends whatever the     *)
(* worker and the callers are doing (box.go:526-550, 569-640).             *)
(***************************************************************************)
CallsReturn ==
    /\ \A c \in Clients : pc[c] = "send" ~> pc[c] \notin {"send", "reply"}
    /\ \A c \in Clients : pc[c] = "leaving" ~> pc[c] = "left"
    /\ \A s \in Stoppers : spc[s] = "send" ~> spc[s] = "returned"
    /\ \A k \in Closers : cpc[k] # "idle" ~> cpc[k] = "returned"

(***************************************************************************)
(* A call that ended without a subscriber leaves none behind.  A join      *)
(* whose context ends after the dispatcher parked or admitted its          *)
(* subscriber returns at once and a goroutine withdraws it later           *)
(* (box.go:591-599, 610-617); whatever starts, failures, StopSub and Close *)
(* come between, the box forgets that subscriber for good, and that of a   *)
(* caller that has left.                                                   *)
(***************************************************************************)
FailedJoinLeavesNothing ==
    \A c \in Clients :
        pc[c] \in {"failed", "left"} ~> [](c \notin active \cup pending)

(***************************************************************************)
(* A box nobody uses gives its backend subscription up: when no subscriber *)
(* is left, either the worker ends or somebody joins again.                *)
(***************************************************************************)
DesertedBoxReleasesWorker ==
    active \cup pending = {} ~> open = {} \/ active \cup pending # {}
=============================================================================
