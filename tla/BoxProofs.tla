------------------------------ MODULE BoxProofs ------------------------------
(***************************************************************************)
(* Proofs about Box and BoxGroup, for every set of callers, assignment of  *)
(* IDs, capacities and number of capsules.                                 *)
(***************************************************************************)
EXTENDS BoxGroup, TLAPS

USE DEF dispatcherVars, boxVars, workerVars, streamVars, callVars,
        subscriberVars, queueVars, otherCallVars

-----------------------------------------------------------------------------
(***************************************************************************)
(* Type correctness.                                                       *)
(***************************************************************************)
\* Subscriber.stop keeps the type of the subscribers' errors.
LEMMA StopType ==
    ASSUME CallType, NEW S, NEW why \in Reasons, stop(S, why)
    PROVE  stopped' \in [Clients -> {"no"} \cup Reasons]
BY DEF stop, CallType

\* A reply keeps the type of the reply channels.
LEMMA ReplyType ==
    ASSUME CallType, NEW S, NEW result \in Results, reply(S, result)
    PROVE  replies' \in [Clients -> Seq(Results)]
BY DEF reply, CallType

\* Moving a worker on keeps the type of the workers.
LEMMA WorkerMoves ==
    ASSUME WorkerType, NEW g \in Generations, NEW p \in WorkerPCs
    PROVE  [worker EXCEPT ![g].pc = p] \in [Generations -> Worker]
BY DEF WorkerType, Worker

\* So does keeping a capsule it read, and an error it met.
LEMMA WorkerReads ==
    ASSUME WorkerType, NEW g \in Generations, NEW n \in Nat
    PROVE  [worker EXCEPT ![g].pc = "push", ![g].capsule = n]
              \in [Generations -> Worker]
BY DEF WorkerType, Worker, WorkerPCs

\* So does an error that Next returned.
LEMMA WorkerErrs ==
    ASSUME WorkerType, NEW g \in Generations, NEW e \in {"nil", "nextError"}
    PROVE  [worker EXCEPT ![g].pc = "unsubscribe", ![g].err = e]
              \in [Generations -> Worker]
BY DEF WorkerType, Worker, WorkerPCs

\* startGeneration adds one worker of the right type.
LEMMA StartType ==
    ASSUME DispatcherType, WorkerType,
           NEW w \in [Generations -> Worker], startGeneration(w)
    PROVE  /\ generation' \in Nat /\ state' \in States /\ workerCancel' \in BOOLEAN
           /\ worker' \in [Generations' -> Worker]
           /\ cancelled' \subseteq Generations' /\ open \subseteq Generations'
<1>1. /\ generation' = generation + 1 /\ generation \in Nat
      /\ Generations' = 1..(generation + 1) /\ Generations = 1..generation
  BY DEF startGeneration, DispatcherType, Generations
<1>2. worker' \in [1..(generation + 1) -> Worker]
  BY <1>1 DEF startGeneration, startWorker, Worker, WorkerPCs
<1> QED
  BY <1>1, <1>2 DEF startGeneration, WorkerType, States

\* restartOrIdle keeps the types of what it changes.
LEMMA RestartType ==
    ASSUME DispatcherType, WorkerType,
           NEW w \in [Generations -> Worker], restartOrIdle(w)
    PROVE  /\ generation' \in Nat /\ state' \in States /\ workerCancel' \in BOOLEAN
           /\ worker' \in [Generations' -> Worker]
           /\ cancelled' \subseteq Generations' /\ open \subseteq Generations'
<1>1. CASE pending = {}
  BY <1>1 DEF restartOrIdle, DispatcherType, WorkerType, States, Generations
<1>2. CASE pending # {}
  BY <1>2, StartType DEF restartOrIdle
<1> QED
  BY <1>1, <1>2

\* beginStopping keeps the types of what it changes.
LEMMA StoppingType ==
    ASSUME DispatcherType, WorkerType, OneWorker, beginStopping
    PROVE  /\ generation' = generation /\ state' \in States
           /\ workerCancel' = workerCancel
           /\ cancelled' \subseteq Generations
BY DEF beginStopping, cancelWorker, DispatcherType, WorkerType, OneWorker,
       States

\* newBoxWithBackend builds a box of the right type.
LEMMA InitTypeOK == Init => TypeOK
<1> SUFFICES ASSUME Init PROVE TypeOK
  OBVIOUS
<1>1. worker \in [Generations -> Worker]
  <2>1. Generations = {}
    BY DEF Init, Generations
  <2> QED
    BY <2>1 DEF Init
<1>2. /\ messageCh \in Seq(Message)
      /\ replies \in [Clients -> Seq(Results)]
      /\ messages \in [Clients -> Seq(Message)]
      /\ received \in [Clients -> Seq(Message)]
  BY DEF Init
<1> QED
  BY <1>1, <1>2 DEF Init, TypeOK, DispatcherType, WorkerType, StreamType,
                    CallType, States

\* A handler of a caller's request keeps the type.
LEMMA RequestTypeOK ==
    ASSUME TypeOK, OneWorker,
           \/ \E c \in Clients : handleJoin(c) \/ handleCancelJoin(c) \/ handleLeave(c)
           \/ \E s \in Stoppers : handleStop(s)
           \/ \E k \in Closers : handleClose(k)
    PROVE  TypeOK'
<1> USE DEF TypeOK
<1>1. ASSUME NEW c \in Clients, handleJoin(c) PROVE TypeOK'
  <2>1. StreamType'
    BY <1>1 DEF handleJoin, StreamType
  <2>2. DispatcherType' /\ WorkerType'
    BY <1>1, StartType DEF handleJoin, joinOutcome, afterControl, WorkerType,
                           DispatcherType, Generations
  <2>3. CallType'
    BY <1>1, StopType, ReplyType DEF handleJoin, joinOutcome, rejectDuplicate,
                           CallType, Reasons, Results
  <2> QED
    BY <2>1, <2>2, <2>3
<1>2. ASSUME NEW c \in Clients, handleCancelJoin(c) PROVE TypeOK'
  <2>1. StreamType'
    BY <1>2 DEF handleCancelJoin, StreamType
  <2>2. DispatcherType' /\ WorkerType'
    BY <1>2, StoppingType DEF handleCancelJoin, beginStoppingIf, afterControl, WorkerType,
                              DispatcherType, Generations
  <2>3. CallType'
    BY <1>2, StopType, ReplyType DEF handleCancelJoin, CallType, Reasons, Results
  <2> QED
    BY <2>1, <2>2, <2>3
<1>3. ASSUME NEW c \in Clients, handleLeave(c) PROVE TypeOK'
  <2>1. StreamType'
    BY <1>3 DEF handleLeave, StreamType
  <2>2. DispatcherType' /\ WorkerType'
    BY <1>3, StoppingType DEF handleLeave, beginStoppingIf, afterControl, WorkerType,
                              DispatcherType, Generations
  <2>3. CallType'
    BY <1>3, StopType DEF handleLeave, CallType, Reasons
  <2> QED
    BY <2>1, <2>2, <2>3
<1>4. ASSUME NEW s \in Stoppers, handleStop(s) PROVE TypeOK'
  <2>1. StreamType'
    BY <1>4 DEF handleStop, StreamType
  <2>2. DispatcherType' /\ WorkerType'
    BY <1>4, StoppingType DEF handleStop, beginStoppingIf, afterControl, WorkerType,
                              DispatcherType, Generations
  <2>3. CallType'
    BY <1>4, StopType DEF handleStop, CallType, Reasons
  <2> QED
    BY <2>1, <2>2, <2>3
<1>5. ASSUME NEW k \in Closers, handleClose(k) PROVE TypeOK'
  <2>1. StreamType'
    BY <1>5 DEF handleClose, StreamType
  <2>2. DispatcherType' /\ WorkerType'
    <3>1. workerCancel => generation \in Generations
      BY DEF OneWorker
    <3>2. /\ cancelled' \subseteq Generations /\ generation' = generation
          /\ worker' = worker /\ open' = open
      BY <1>5, <3>1 DEF handleClose, cancelWorker, WorkerType
    <3> QED
      BY <1>5, <3>2 DEF handleClose, afterControl, WorkerType, DispatcherType,
                        Generations, States
  <2>3. CallType'
    BY <1>5, StopType, ReplyType DEF handleClose, CallType, Reasons, Results
  <2> QED
    BY <2>1, <2>2, <2>3
<1> QED
  BY <1>1, <1>2, <1>3, <1>4, <1>5

\* A handler of a worker's event, and the end of the dispatcher, keep the type.
LEMMA EventTypeOK ==
    ASSUME TypeOK, OneWorker,
           \/ \E g \in Generations : handleStartResult(g) \/ handleWorkerStopped(g)
           \/ handleMessage \/ waitWorkers \/ topicClosed
    PROVE  TypeOK'
<1> USE DEF TypeOK
<1>1. ASSUME NEW g \in Generations, handleStartResult(g) PROVE TypeOK'
  <2>1. StreamType'
    BY <1>1 DEF handleStartResult, StreamType
  <2>2. CASE worker[g].pc = "startFailed"
    <3> DEFINE w == [worker EXCEPT ![g].pc = "returning"]
    <3>1. w \in [Generations -> Worker]
      BY WorkerMoves DEF WorkerPCs
    <3>2. DispatcherType' /\ WorkerType'
      BY <1>1, <2>2, <3>1, RestartType DEF handleStartResult,
         handleStartFailure, failPending, afterControl, WorkerType,
         DispatcherType, Generations, States
    <3>3. CallType'
      BY <1>1, <2>2, StopType, ReplyType DEF handleStartResult,
         handleStartFailure, failPending, CallType, Reasons, Results
    <3> QED
      BY <2>1, <3>2, <3>3
  <2>3. CASE worker[g].pc # "startFailed"
    <3>1. ASSUME NEW activate, activation(g, activate)
          PROVE  worker' \in [Generations -> Worker]
      BY <3>1, WorkerMoves DEF activation, WorkerPCs
    <3>2. DispatcherType' /\ WorkerType'
      BY <1>1, <2>3, <3>1, StoppingType DEF handleStartResult,
         handleStartSuccess, afterControl, WorkerType, DispatcherType,
         Generations, States
    <3>3. replies' \in [Clients -> Seq(Results)]
      <4>1. "ok" \in Results /\ "canceled" \in Results
        BY DEF Results, Reasons
      <4>2. \A c \in Clients : /\ replies[c] \in Seq(Results)
                              /\ Append(replies[c], "ok") \in Seq(Results)
                              /\ Append(replies[c], "canceled") \in Seq(Results)
        BY <4>1 DEF CallType
      <4>3. CASE replies' = replies
        BY <4>3 DEF CallType
      <4>4. CASE replies' # replies
        <5>1. replies' = [c \in Clients |->
                        IF c \in expired THEN Append(replies[c], "canceled")
                        ELSE IF c \in pending THEN Append(replies[c], "ok")
                        ELSE replies[c]]
          BY <1>1, <2>3, <4>4 DEF handleStartResult, handleStartSuccess
        <5> QED
          BY <4>2, <5>1
      <4> QED
        BY <4>3, <4>4
    <3>4. CallType'
      BY <1>1, <2>3, <3>3, StopType DEF handleStartResult, handleStartSuccess,
         CallType, Reasons
    <3> QED
      BY <2>1, <3>2, <3>4
  <2> QED
    BY <2>2, <2>3
<1>2. ASSUME NEW g \in Generations, handleWorkerStopped(g) PROVE TypeOK'
  <2> DEFINE w == [worker EXCEPT ![g].pc = "returning"]
  <2>1. w \in [Generations -> Worker]
    BY WorkerMoves DEF WorkerPCs
  <2>2. StreamType'
    BY <1>2 DEF handleWorkerStopped, StreamType
  <2>3. DispatcherType' /\ WorkerType'
    BY <1>2, <2>1, RestartType DEF handleWorkerStopped, workerStoppedOutcome,
       afterControl, WorkerType, DispatcherType, Generations, States
  <2>4. worker[g].err \in Reasons
    BY DEF WorkerType, Worker, Reasons
  <2>5. CallType'
    BY <1>2, <2>4, StopType DEF handleWorkerStopped, workerStoppedOutcome,
       CallType
  <2> QED
    BY <2>2, <2>3, <2>5
<1>3. CASE handleMessage
  <2>1. StreamType'
    <3>1. Head(messageCh) \in Message /\ Tail(messageCh) \in Seq(Message)
      BY <1>3 DEF handleMessage, StreamType
    <3>2. messages' \in [Clients -> Seq(Message)]
      <4>1. \A c \in Clients : /\ messages[c] \in Seq(Message)
                              /\ Append(messages[c], Head(messageCh)) \in Seq(Message)
        BY <3>1 DEF StreamType
      <4>2. CASE isCurrent(Head(messageCh))
        BY <1>3, <4>1, <4>2 DEF handleMessage
      <4>3. CASE ~isCurrent(Head(messageCh))
        BY <1>3, <4>3 DEF handleMessage, StreamType
      <4> QED
        BY <4>2, <4>3
    <3> QED
      BY <1>3, <3>1, <3>2 DEF handleMessage, StreamType
  <2>2. DispatcherType' /\ WorkerType'
    BY <1>3, StoppingType DEF handleMessage, beginStoppingIf, WorkerType, DispatcherType,
       Generations
  <2>3. CallType'
    BY <1>3, StopType DEF handleMessage, CallType, Reasons
  <2> QED
    BY <2>1, <2>2, <2>3
<1>4. CASE waitWorkers \/ topicClosed
  BY <1>4 DEF waitWorkers, topicClosed, DispatcherType, WorkerType, StreamType,
              CallType, Generations
<1> QED
  BY <1>1, <1>2, <1>3, <1>4

\* A push keeps the type of messageCh.
LEMMA PushType ==
    ASSUME StreamType, NEW m \in Message,
           messageCh' = messageCh \/ messageCh' = Append(messageCh, m)
    PROVE  messageCh' \in Seq(Message)
<1>1. messageCh \in Seq(Message) BY DEF StreamType
<1>2. Append(messageCh, m) \in Seq(Message) BY <1>1
<1> QED BY <1>1, <1>2

\* Every step of a worker goroutine keeps the type.
LEMMA WorkerTypeOK ==
    ASSUME TypeOK, NEW g \in Generations, workerNext(g)
    PROVE  TypeOK'
<1> USE DEF TypeOK
<1>1. worker' \in [Generations -> Worker]
  <2>1. ASSUME NEW p \in WorkerPCs, worker' = [worker EXCEPT ![g].pc = p]
        PROVE  worker' \in [Generations -> Worker]
    BY <2>1, WorkerMoves
  <2>2. CASE subscribe(g)
    <3>1. \/ worker' = [worker EXCEPT ![g].pc = "startOk"]
          \/ worker' = [worker EXCEPT ![g].pc = "startFailed"]
      BY <2>2 DEF subscribe, workerStep
    <3> QED
      BY <2>1, <3>1 DEF WorkerPCs
  <2>3. CASE nextMessage(g)
    <3>1. sent + 1 \in Nat
      BY DEF StreamType
    <3>2. worker' = [worker EXCEPT ![g].pc = "push", ![g].capsule = sent + 1]
      BY <2>3 DEF nextMessage
    <3> QED
      BY <3>1, <3>2, WorkerReads, Zenon
  <2>4. CASE nextFails(g)
    <3>1. PICK e \in {"nil", "nextError"} :
             worker' = [worker EXCEPT ![g].pc = "unsubscribe", ![g].err = e]
      BY <2>4, Zenon DEF nextFails
    <3> QED
      BY <3>1, WorkerErrs, Zenon
  <2>5. CASE nextMalformed(g) \/ nextCancelled(g) \/ push(g)
    <3>1. \/ worker' = [worker EXCEPT ![g].pc = "next"]
          \/ worker' = [worker EXCEPT ![g].pc = "unsubscribe"]
      BY <2>5 DEF nextMalformed, nextCancelled, push, workerStep
    <3> QED
      BY <2>1, <3>1 DEF WorkerPCs
  <2>6. CASE unsubscribe(g) \/ workerDone(g)
    BY <2>1, <2>6 DEF unsubscribe, workerDone, workerStep, WorkerPCs
  <2> QED
    BY <2>2, <2>3, <2>4, <2>5, <2>6 DEF workerNext
<1>2. messageCh' \in Seq(Message) /\ sent' \in Nat
  <2>1. CASE push(g)
    <3>1. [gen |-> g, capsule |-> worker[g].capsule] \in Message
      BY DEF DispatcherType, WorkerType, Worker, Message, Generations
    <3>2. \/ messageCh' = messageCh
          \/ messageCh' = Append(messageCh,
                            [gen |-> g, capsule |-> worker[g].capsule])
      BY <2>1 DEF push
    <3>3. messageCh' \in Seq(Message)
      BY <3>1, <3>2, PushType
    <3> QED
      BY <2>1, <3>3 DEF push, StreamType
  <2>2. CASE ~push(g)
    BY <2>2 DEF workerNext, workerStep, subscribe, nextMessage, nextMalformed,
       nextFails, nextCancelled, unsubscribe, workerDone, StreamType
  <2> QED
    BY <2>1, <2>2
<1>3. /\ open' \subseteq Generations /\ cancelled' = cancelled
      /\ UNCHANGED <<dispatcherVars, boxVars, callVars>>
      /\ UNCHANGED <<subscriberVars, queueVars, otherCallVars>>
  BY DEF workerNext, workerStep, subscribe, nextMessage, nextMalformed,
     nextFails, nextCancelled, push, unsubscribe, workerDone, WorkerType
<1> QED
  BY <1>1, <1>2, <1>3 DEF DispatcherType, WorkerType, StreamType, CallType,
                          Generations

\* Every step of a caller keeps the type.
LEMMA CallerTypeOK ==
    ASSUME TypeOK,
           \/ \E c \in Clients : clientStep(c)
           \/ \E s \in Stoppers : stopCall(s) \/ stopBoxOver(s)
           \/ \E k \in Closers : closeCall(k) \/ closeOnceOver(k) \/ closeReturns(k)
    PROVE  TypeOK'
<1> USE DEF TypeOK
<1>1. ASSUME NEW c \in Clients, clientStep(c) PROVE TypeOK'
  <2>1. CASE receive(c)
    <3>1. Head(messages[c]) \in Message /\ Tail(messages[c]) \in Seq(Message)
      BY <2>1 DEF receive, StreamType
    <3>2. /\ messages' \in [Clients -> Seq(Message)]
          /\ received' \in [Clients -> Seq(Message)]
      BY <2>1, <3>1 DEF receive, StreamType
    <3> QED
      BY <2>1, <3>2 DEF receive, DispatcherType, WorkerType, StreamType,
                        CallType, Generations
  <2>2. CASE ~receive(c)
    <3>1. DispatcherType' /\ WorkerType' /\ StreamType'
      BY <1>1, <2>2 DEF clientStep, callStep, cancelContext, joinCall,
         joinGivesUp, joinAbandoned, joinBoxOver, joinReplied, cancelJoinOver,
         leaveCall, leaveBoxOver, DispatcherType, WorkerType, StreamType,
         Generations
    <3>2. CallType'
      BY <1>1, <2>2, StopType DEF clientStep, callStep, cancelContext,
         joinCall, joinGivesUp, joinAbandoned, joinBoxOver, joinReplied,
         cancelJoinOver, leaveCall, leaveBoxOver, CallType, Reasons
    <3> QED
      BY <3>1, <3>2
  <2> QED
    BY <2>1, <2>2
<1>2. ASSUME \/ \E s \in Stoppers : stopCall(s) \/ stopBoxOver(s)
             \/ \E k \in Closers : closeCall(k) \/ closeOnceOver(k) \/ closeReturns(k)
      PROVE  TypeOK'
  <2>1. boxStays
    BY <1>2 DEF stopCall, stopBoxOver, closeCall, closeOnceOver, closeReturns
  <2>2. DispatcherType' /\ WorkerType' /\ StreamType'
    BY <2>1 DEF boxStays, dispatcherVars, boxVars, workerVars, streamVars,
       queueVars, DispatcherType, WorkerType, StreamType, Generations
  <2>3. UNCHANGED <<pc, ctxDone, cancelJoin, stopped, replies>>
    BY <2>1 DEF boxStays, callVars, subscriberVars
  <2>4. /\ spc' \in [Stoppers -> {"idle", "send", "returned"}]
        /\ cpc' \in [Closers -> {"idle", "once", "send", "wait", "returned"}]
        /\ closeOnce' \in {"new", "body", "over"}
    <3>1. ASSUME NEW s \in Stoppers, stopCall(s) \/ stopBoxOver(s)
          PROVE  /\ spc' \in [Stoppers -> {"idle", "send", "returned"}]
                 /\ UNCHANGED <<cpc, closeOnce>>
      BY <3>1 DEF stopCall, stopBoxOver, CallType
    <3>2. ASSUME NEW k \in Closers,
                 closeCall(k) \/ closeOnceOver(k) \/ closeReturns(k)
          PROVE  <2>4
      BY <3>2 DEF closeCall, closeOnceOver, closeReturns, CallType
    <3> QED
      BY <1>2, <3>1, <3>2 DEF CallType
  <2> QED
    BY <2>2, <2>3, <2>4 DEF CallType
<1> QED
  BY <1>1, <1>2

\* Every step keeps the type, given that a known worker has a generation.
LEMMA StepTypeOK == TypeOK /\ OneWorker /\ [Next]_vars => TypeOK'
<1> SUFFICES ASSUME TypeOK, OneWorker, [Next]_vars PROVE TypeOK'
  OBVIOUS
<1>1. CASE UNCHANGED vars
  BY <1>1 DEF vars, TypeOK, DispatcherType, WorkerType, StreamType, CallType,
              Generations
<1>2. CASE Next
  BY <1>2, RequestTypeOK, EventTypeOK, WorkerTypeOK, CallerTypeOK
     DEF Next, runDispatcher
<1> QED
  BY <1>1, <1>2

-----------------------------------------------------------------------------
(***************************************************************************)
(* The life of the worker.                                                 *)
(***************************************************************************)
\* What the end of the dispatcher's loop says of its state.
TailShape ==
    /\ boxCancelled => state = "closing"
    /\ dpc # "loop" => state = "closing" /\ ~workerCancel
    /\ dpc \in {"topicClose", "done"} =>
          \A g \in Generations : worker[g].pc = "exit"

Lifecycle == OneWorker /\ StateShape /\ TailShape

lifecycleVars == <<dispatcherVars, boxVars, workerVars>>

\* A step that leaves the dispatcher and the worker alone keeps Lifecycle.
LEMMA LifecycleFrame ==
    ASSUME Lifecycle, UNCHANGED lifecycleVars
    PROVE  Lifecycle'
BY DEF Lifecycle, OneWorker, StateShape, TailShape, Alive, Generations,
       lifecycleVars

\* A new box has no worker.
LEMMA InitLifecycle == Init => Lifecycle
BY DEF Init, Lifecycle, OneWorker, StateShape, TailShape, Alive, Generations

\* A worker that reports is the one of the current generation.
LEMMA Current ==
    ASSUME OneWorker, NEW g \in Generations, Alive(g)
    PROVE  g = generation /\ workerCancel
BY DEF OneWorker

\* Without a live worker nothing is subscribed at the backend.
LEMMA QuietBackend ==
    ASSUME TypeOK, OneWorker, ~workerCancel
    PROVE  /\ open = {}
           /\ \A g \in Generations : worker[g].pc \in {"returning", "exit"}
BY DEF OneWorker, Alive, TypeOK, WorkerType

\* A generation started beside ended workers is the only live one.
LEMMA StartLifecycle ==
    ASSUME TypeOK, NEW w \in [Generations -> Worker],
           \A h \in Generations : w[h].pc \in {"returning", "exit"},
           open' = {}, startGeneration(w)
    PROVE  /\ OneWorker'
           /\ generation' \notin cancelled'
           /\ worker'[generation'].pc = "subscribe"
<1>1. /\ generation' = generation + 1 /\ generation \in Nat
      /\ Generations' = 1..(generation + 1) /\ Generations = 1..generation
      /\ cancelled' = cancelled /\ cancelled \subseteq 1..generation
      /\ workerCancel'
  BY DEF startGeneration, TypeOK, DispatcherType, WorkerType, Generations
<1>2. worker' = [g \in 1..(generation + 1) |->
                  IF g = generation + 1
                  THEN [pc |-> "subscribe", err |-> "nil", capsule |-> 0]
                  ELSE w[g]]
  BY DEF startGeneration, startWorker
<1>3. /\ generation' \in Generations' /\ worker'[generation'].pc = "subscribe"
      /\ \A g \in Generations' : g # generation' =>
            worker'[g].pc \in {"returning", "exit"}
  BY <1>1, <1>2
<1>4. generation' \notin cancelled'
  BY <1>1
<1> QED
  BY <1>1, <1>3, <1>4 DEF OneWorker, Alive

\* A handler ends in the loop, or leaves it with the box closing.
LEMMA TailAfterControl ==
    ASSUME dpc = "loop", afterControl, boxCancelled' => state' = "closing"
    PROVE  TailShape'
BY DEF afterControl, TailShape

\* An event that moves no worker keeps the one worker.
LEMMA SameWorkers ==
    ASSUME OneWorker, UNCHANGED <<generation, workerCancel, worker, open>>
    PROVE  OneWorker'
BY DEF OneWorker, Alive, Generations

\* A handler of a caller's request keeps Lifecycle.
LEMMA RequestLifecycle ==
    ASSUME TypeOK, Lifecycle,
           \/ \E c \in Clients : handleJoin(c) \/ handleCancelJoin(c) \/ handleLeave(c)
           \/ \E s \in Stoppers : handleStop(s)
           \/ \E k \in Closers : handleClose(k)
    PROVE  Lifecycle'
<1> USE DEF Lifecycle
<1>1. ASSUME NEW c \in Clients, handleJoin(c) PROVE Lifecycle'
  <2>1. CASE state = "idle" /\ pending' # pending
    <3>1. startGeneration(worker) /\ active' = active /\ pending' # {} /\ open' = open
      BY <1>1, <2>1 DEF handleJoin, joinOutcome
    <3>2. ~workerCancel /\ active = {} /\ worker \in [Generations -> Worker]
      BY <2>1 DEF StateShape, TypeOK, WorkerType
    <3>3. /\ OneWorker' /\ generation' \notin cancelled'
          /\ worker'[generation'].pc = "subscribe"
      BY <3>1, <3>2, QuietBackend, StartLifecycle
    <3>4. state' = "starting" /\ workerCancel'
      BY <3>1 DEF startGeneration
    <3>5. StateShape'
      BY <3>1, <3>2, <3>3, <3>4 DEF StateShape
    <3>6. TailShape'
      BY <1>1, <2>1, TailAfterControl DEF handleJoin, TailShape
    <3> QED
      BY <3>3, <3>5, <3>6
  <2>2. CASE ~(state = "idle" /\ pending' # pending)
    <3>1. UNCHANGED <<state, generation, workerCancel, worker, cancelled, open>>
      BY <1>1, <2>2 DEF handleJoin, joinOutcome, idTaken, holder
    <3>2. StateShape'
      BY <1>1, <2>2, <3>1 DEF handleJoin, joinOutcome, StateShape
    <3>3. TailShape'
      BY <1>1, <3>1, TailAfterControl DEF handleJoin, TailShape
    <3> QED
      BY <3>1, <3>2, <3>3, SameWorkers
  <2> QED
    BY <2>1, <2>2
<1>2. ASSUME NEW c \in Clients, handleCancelJoin(c) PROVE Lifecycle'
  <2>1. /\ UNCHANGED <<generation, workerCancel, worker, open, boxCancelled>>
        /\ state = "closing" => state' = "closing"
    BY <1>2 DEF handleCancelJoin, beginStoppingIf, beginStopping, deserts
  <2>2. StateShape'
    BY <1>2, <2>1 DEF handleCancelJoin, beginStoppingIf, beginStopping,
       cancelWorker, deserts, matches, StateShape
  <2>3. TailShape'
    BY <1>2, <2>1, TailAfterControl DEF handleCancelJoin, TailShape
  <2> QED
    BY <2>1, <2>2, <2>3, SameWorkers
<1>3. ASSUME NEW c \in Clients, handleLeave(c) PROVE Lifecycle'
  <2>1. /\ UNCHANGED <<generation, workerCancel, worker, open, boxCancelled>>
        /\ state = "closing" => state' = "closing"
    BY <1>3 DEF handleLeave, beginStoppingIf, beginStopping, deserts
  <2>2. StateShape'
    BY <1>3, <2>1 DEF handleLeave, beginStoppingIf, beginStopping,
       cancelWorker, deserts, StateShape
  <2>3. TailShape'
    BY <1>3, <2>1, TailAfterControl DEF handleLeave, TailShape
  <2> QED
    BY <2>1, <2>2, <2>3, SameWorkers
<1>4. ASSUME NEW s \in Stoppers, handleStop(s) PROVE Lifecycle'
  <2>1. /\ UNCHANGED <<generation, workerCancel, worker, open, boxCancelled>>
        /\ state = "closing" => state' = "closing"
    BY <1>4 DEF handleStop, beginStoppingIf, beginStopping
  <2>2. StateShape'
    BY <1>4, <2>1 DEF handleStop, beginStoppingIf, beginStopping,
       cancelWorker, StateShape
  <2>3. TailShape'
    BY <1>4, <2>1, TailAfterControl DEF handleStop, TailShape
  <2> QED
    BY <2>1, <2>2, <2>3, SameWorkers
<1>5. ASSUME NEW k \in Closers, handleClose(k) PROVE Lifecycle'
  <2>1. UNCHANGED <<generation, workerCancel, worker, open>> /\ state' = "closing"
    BY <1>5 DEF handleClose
  <2>2. StateShape'
    BY <1>5, <2>1 DEF handleClose, cancelWorker, StateShape
  <2>3. TailShape'
    BY <1>5, <2>1, TailAfterControl DEF handleClose
  <2> QED
    BY <2>1, <2>2, <2>3, SameWorkers
<1> QED
  BY <1>1, <1>2, <1>3, <1>4, <1>5

\* When the current worker reports its end, no other worker is alive.
LEMMA LastWorkerEnds ==
    ASSUME TypeOK, OneWorker, NEW g \in Generations,
           worker[g].pc \in {"startFailed", "stopped"},
           NEW w, w = [worker EXCEPT ![g].pc = "returning"]
    PROVE  /\ w \in [Generations -> Worker]
           /\ \A h \in Generations : w[h].pc \in {"returning", "exit"}
           /\ open = {} /\ g = generation /\ workerCancel
<1>1. g = generation /\ workerCancel
  BY Current DEF Alive
<1>2. w \in [Generations -> Worker]
  BY WorkerMoves DEF TypeOK, WorkerPCs
<1>3. \A h \in Generations : w[h].pc \in {"returning", "exit"}
  BY <1>1 DEF OneWorker, Alive, TypeOK, WorkerType, Worker
<1>4. open = {}
  BY <1>1 DEF OneWorker, Alive, TypeOK, WorkerType
<1> QED
  BY <1>1, <1>2, <1>3, <1>4

\* The workers are w, none is alive, and the dispatcher knows it.
LEMMA EndLifecycle ==
    ASSUME TypeOK, NEW w \in [Generations -> Worker],
           \A h \in Generations : w[h].pc \in {"returning", "exit"},
           worker' = w, open' = {}, generation' = generation, ~workerCancel'
    PROVE  OneWorker'
BY DEF OneWorker, Alive, Generations

\* The dispatcher's answer to the end of the current worker keeps Lifecycle.
LEMMA WorkerEndLifecycle ==
    ASSUME TypeOK, Lifecycle, NEW g \in Generations,
           worker[g].pc \in {"startFailed", "stopped"},
           handleStartResult(g) \/ handleWorkerStopped(g)
    PROVE  Lifecycle'
<1> USE DEF Lifecycle
<1> DEFINE w == [worker EXCEPT ![g].pc = "returning"]
<1>1. /\ w \in [Generations -> Worker]
      /\ \A h \in Generations : w[h].pc \in {"returning", "exit"}
      /\ open = {} /\ g = generation /\ workerCancel
  BY LastWorkerEnds
<1>2. /\ dpc = "loop" /\ afterControl
      /\ UNCHANGED <<boxCancelled, open>>
      /\ state = "stopping" => restartOrIdle(w) /\ UNCHANGED <<pending, active>>
      /\ state # "stopping" =>
            worker' = w /\ workerCancel' = FALSE /\ generation' = generation
      /\ state \in {"starting", "running"} =>
            state' = "idle" /\ pending' = {} /\ active' = {}
      /\ state \in {"idle", "closing"} => UNCHANGED <<state, pending, active>>
  <2>1. CASE worker[g].pc = "startFailed"
    <3>1. state # "running"
      BY <1>1, <2>1 DEF StateShape
    <3> QED
      BY <1>1, <2>1, <3>1 DEF handleStartResult, handleStartFailure,
         handleWorkerStopped, failPending, StateShape
  <2>2. CASE worker[g].pc = "stopped"
    <3>1. state # "starting"
      BY <1>1, <2>2 DEF StateShape
    <3> QED
      BY <1>1, <2>2, <3>1 DEF handleStartResult, handleWorkerStopped,
         workerStoppedOutcome, StateShape
  <2> QED
    BY <2>1, <2>2
<1>3. CASE state = "stopping" /\ pending # {}
  <2>1. startGeneration(w) /\ active = {}
    BY <1>2, <1>3 DEF restartOrIdle, StateShape
  <2>2. /\ OneWorker' /\ generation' \notin cancelled'
        /\ worker'[generation'].pc = "subscribe"
    BY <1>1, <1>2, <2>1, StartLifecycle
  <2>3. state' = "starting" /\ workerCancel'
    BY <2>1 DEF startGeneration
  <2> QED
    BY <1>2, <1>3, <2>1, <2>2, <2>3, TailAfterControl DEF StateShape, TailShape
<1>4. CASE ~(state = "stopping" /\ pending # {})
  <2>1. /\ worker' = w /\ ~workerCancel' /\ generation' = generation
        /\ pending' = {} /\ active' = {}
        /\ state' \in {"idle", "closing"}
        /\ state' = "closing" <=> state = "closing"
    BY <1>2, <1>4 DEF restartOrIdle, StateShape, TypeOK, DispatcherType, States
  <2>2. OneWorker'
    BY <1>1, <1>2, <2>1, EndLifecycle
  <2>3. StateShape'
    BY <2>1 DEF StateShape
  <2>4. TailShape'
    BY <1>2, <2>1, TailAfterControl DEF TailShape
  <2> QED
    BY <2>2, <2>3, <2>4
<1> QED
  BY <1>3, <1>4

\* A successful start keeps Lifecycle.
LEMMA StartOkLifecycle ==
    ASSUME TypeOK, Lifecycle, NEW g \in Generations,
           worker[g].pc = "startOk", handleStartResult(g)
    PROVE  Lifecycle'
<1> USE DEF Lifecycle
<1>1. g = generation /\ workerCancel
  BY Current DEF Alive
<1>2. /\ dpc = "loop" /\ afterControl /\ handleStartSuccess(g)
      /\ UNCHANGED <<boxCancelled, open>>
  BY <1>1 DEF handleStartResult
<1>3. /\ generation' = generation /\ workerCancel' = workerCancel
      /\ \E p \in {"next", "unsubscribe"} : worker' = [worker EXCEPT ![g].pc = p]
  BY <1>2 DEF handleStartSuccess, activation, beginStopping
<1>4. /\ worker'[g].pc \in {"next", "unsubscribe"}
      /\ \A h \in Generations : h # g => worker'[h] = worker[h]
  BY <1>3 DEF TypeOK, WorkerType, Worker
<1>5. OneWorker'
  BY <1>1, <1>2, <1>3, <1>4 DEF OneWorker, Alive, Generations, TypeOK, WorkerType
<1>6. StateShape'
  BY <1>1, <1>2, <1>3, <1>4 DEF handleStartSuccess, beginStopping,
     cancelWorker, StateShape
<1>7. TailShape'
  BY <1>2, TailAfterControl DEF handleStartSuccess, beginStopping, TailShape
<1> QED
  BY <1>5, <1>6, <1>7

\* The other events of the dispatcher keep Lifecycle.
LEMMA EventLifecycle ==
    ASSUME TypeOK, Lifecycle,
           \/ \E g \in Generations : handleStartResult(g) \/ handleWorkerStopped(g)
           \/ handleMessage \/ waitWorkers \/ topicClosed
    PROVE  Lifecycle'
<1> USE DEF Lifecycle
<1>1. ASSUME NEW g \in Generations, handleStartResult(g) \/ handleWorkerStopped(g)
      PROVE  Lifecycle'
  BY <1>1, WorkerEndLifecycle, StartOkLifecycle DEF handleStartResult,
     handleWorkerStopped
<1>2. CASE handleMessage
  <2>1. /\ UNCHANGED <<generation, workerCancel, worker, open, boxCancelled>>
        /\ UNCHANGED <<dpc, pending>> /\ dpc = "loop"
        /\ state # "running" => UNCHANGED <<state, active, cancelled>>
    BY <1>2 DEF handleMessage, beginStoppingIf, beginStopping, isCurrent
  <2>2. StateShape'
    BY <1>2, <2>1 DEF handleMessage, beginStoppingIf, beginStopping,
       cancelWorker, StateShape
  <2>3. TailShape'
    BY <2>1 DEF TailShape
  <2> QED
    BY <2>1, <2>2, <2>3, SameWorkers
<1>3. CASE waitWorkers \/ topicClosed
  BY <1>3, SameWorkers DEF waitWorkers, topicClosed, StateShape, TailShape,
     Generations
<1> QED
  BY <1>1, <1>2, <1>3

\* A step of a worker goroutine keeps Lifecycle.
LEMMA WorkerLifecycle ==
    ASSUME TypeOK, Lifecycle, NEW g \in Generations, workerNext(g)
    PROVE  Lifecycle'
<1> USE DEF Lifecycle
<1>1. UNCHANGED <<dispatcherVars, boxVars, cancelled>>
  BY DEF workerNext, workerStep, subscribe, nextMessage, nextMalformed,
     nextFails, nextCancelled, push, unsubscribe, workerDone
<1>2. \A h \in Generations : h # g => worker'[h] = worker[h]
  BY DEF workerNext, workerStep, subscribe, nextMessage, nextMalformed,
     nextFails, nextCancelled, push, unsubscribe, workerDone, TypeOK, WorkerType
<1>3. CASE Alive(g)
  <2>1. g = generation /\ workerCancel
    BY <1>3, Current
  <2>2. \/ worker[g].pc = "subscribe" /\ worker'[g].pc = "startOk" /\ open' = open \cup {g}
        \/ worker[g].pc = "subscribe" /\ worker'[g].pc = "startFailed" /\ open' = open
        \/ /\ worker[g].pc \in {"next", "push"}
           /\ worker'[g].pc \in {"next", "push", "unsubscribe"} /\ open' = open
        \/ /\ worker[g].pc = "unsubscribe"
           /\ worker'[g].pc = "stopped" /\ open' = open \ {g}
    BY <1>3 DEF Alive, workerNext, workerStep, subscribe, nextMessage,
       nextMalformed, nextFails, nextCancelled, push, unsubscribe, workerDone,
       TypeOK, WorkerType, Worker
  <2>3. OneWorker'
    BY <1>1, <1>2, <2>1, <2>2 DEF OneWorker, Alive, Generations, TypeOK, WorkerType
  <2>4. StateShape'
    BY <1>1, <2>1, <2>2 DEF StateShape
  <2>5. TailShape'
    BY <1>1, <2>1 DEF TailShape
  <2> QED
    BY <2>3, <2>4, <2>5
<1>4. CASE ~Alive(g)
  <2>1. worker[g].pc = "returning" /\ worker'[g].pc = "exit" /\ open' = open
    BY <1>4 DEF Alive, workerNext, workerStep, subscribe, nextMessage,
       nextMalformed, nextFails, nextCancelled, push, unsubscribe, workerDone,
       TypeOK, WorkerType, Worker
  <2>2. workerCancel => g # generation
    BY <1>4 DEF OneWorker
  <2>3. OneWorker'
    BY <1>1, <1>2, <2>1, <2>2 DEF OneWorker, Alive, Generations, TypeOK, WorkerType
  <2>4. StateShape'
    <3>1. workerCancel => worker'[generation] = worker[generation]
      BY <1>2, <2>2 DEF OneWorker
    <3> QED
      BY <1>1, <3>1 DEF StateShape
  <2>5. TailShape'
    BY <1>1, <2>1, <1>2 DEF TailShape, Generations
  <2> QED
    BY <2>3, <2>4, <2>5
<1> QED
  BY <1>3, <1>4

\* A step of a caller leaves the dispatcher and the worker alone.
LEMMA CallerLifecycle ==
    ASSUME Lifecycle,
           \/ \E c \in Clients : clientStep(c)
           \/ \E s \in Stoppers : stopCall(s) \/ stopBoxOver(s)
           \/ \E k \in Closers : closeCall(k) \/ closeOnceOver(k) \/ closeReturns(k)
    PROVE  Lifecycle'
<1>1. UNCHANGED lifecycleVars
  BY DEF lifecycleVars, clientStep, callStep, cancelContext, joinCall,
     joinGivesUp, joinAbandoned, joinBoxOver, joinReplied, cancelJoinOver,
     receive, leaveCall, leaveBoxOver, stopCall, stopBoxOver, closeCall,
     closeOnceOver, closeReturns, boxStays
<1> QED
  BY <1>1, LifecycleFrame

\* TypeOK with Lifecycle is inductive.
LEMMA StepLifecycle == TypeOK /\ Lifecycle /\ [Next]_vars => Lifecycle'
<1> SUFFICES ASSUME TypeOK, Lifecycle, [Next]_vars PROVE Lifecycle'
  OBVIOUS
<1>1. CASE UNCHANGED vars
  BY <1>1, LifecycleFrame DEF vars, lifecycleVars
<1>2. CASE Next
  BY <1>2, RequestLifecycle, EventLifecycle, WorkerLifecycle, CallerLifecycle
     DEF Next, runDispatcher
<1> QED
  BY <1>1, <1>2

\* The type and the lifecycle hold in every reachable state.
LEMMA TypedLifecycle == Spec => [](TypeOK /\ Lifecycle)
<1>1. Init => TypeOK /\ Lifecycle
  BY InitTypeOK, InitLifecycle
<1>2. TypeOK /\ Lifecycle /\ [Next]_vars => (TypeOK /\ Lifecycle)'
  BY StepTypeOK, StepLifecycle DEF Lifecycle
<1> QED
  BY <1>1, <1>2, PTL DEF Spec

(***************************************************************************)
(* The variables of a box keep their types in every behaviour.             *)
(***************************************************************************)
THEOREM TypeCorrect == Spec => []TypeOK
BY TypedLifecycle, PTL

(***************************************************************************)
(* No second worker is alive beside the current one, and the dispatcher's  *)
(* workerCancel tells exactly whether one is.                              *)
(***************************************************************************)
THEOREM NoSecondWorker == Spec => []OneWorker
<1>1. TypeOK /\ Lifecycle => OneWorker
  BY DEF Lifecycle
<1> QED
  BY <1>1, TypedLifecycle, PTL

(***************************************************************************)
(* The dispatcher's state always agrees with its maps and its worker.      *)
(***************************************************************************)
THEOREM StatesAgree == Spec => []StateShape
<1>1. TypeOK /\ Lifecycle => StateShape
  BY DEF Lifecycle
<1> QED
  BY <1>1, TypedLifecycle, PTL

-----------------------------------------------------------------------------
(***************************************************************************)
(* The callers of JoinSubContext and LeaveSub.                             *)
(***************************************************************************)
\* What the answer to a request says of where its subscriber is.
AnswerShape ==
    \A c \in Clients :
        /\ replies[c] = <<>> \/ \E r \in Results : replies[c] = <<r>>
        /\ pc[c] \in {"idle", "send"} => replies[c] = <<>> /\ c \notin active \cup pending
        /\ c \in pending => replies[c] = <<>>
        /\ c \in active => replies[c] = <<"ok">>
        /\ replies[c] = <<"ok">> /\ stopped[c] = "no" => c \in active
        /\ pc[c] \in {"joined", "leaving", "left"} => replies[c] = <<"ok">>

\* A request is withdrawn only after its context has ended.
Withdrawn == cancelJoin \subseteq ctxDone

Callers == AnswerShape /\ Withdrawn /\ NoOrphans /\ OnlyOwnCancellation

\* A reply channel with one answer.
LEMMA OneAnswer ==
    ASSUME NEW r
    PROVE  /\ Append(<<>>, r) = <<r>> /\ <<r>> # <<>>
           /\ Head(<<r>>) = r /\ Len(<<r>>) = 1 /\ Len(<<>>) = 0
OBVIOUS

\* An answer to requests that have none is their only one.
LEMMA ReplyOnce ==
    ASSUME CallType, NEW S, NEW r, reply(S, r),
           \A d \in Clients : d \in S => replies[d] = <<>>
    PROVE  \A d \in Clients : replies'[d] = IF d \in S THEN <<r>> ELSE replies[d]
<1> SUFFICES ASSUME NEW d \in Clients
             PROVE  replies'[d] = IF d \in S THEN <<r>> ELSE replies[d]
  OBVIOUS
<1>1. replies'[d] = IF d \in S THEN Append(replies[d], r) ELSE replies[d]
  BY DEF reply
<1> QED
  BY <1>1, OneAnswer

\* Subscriber.stop, subscriber by subscriber.
LEMMA StopEach ==
    ASSUME NEW S, NEW why, stop(S, why)
    PROVE  \A d \in Clients :
              stopped'[d] = IF d \in S /\ stopped[d] = "no" THEN why ELSE stopped[d]
BY DEF stop

\* A handler that stops and forgets the members of Gone, without an answer to
\* anybody, keeps Callers; why is not a cancellation.
LEMMA ForgetCallers ==
    ASSUME TypeOK, Callers, NEW Gone, NEW why \in Reasons \ {"canceled"},
           stop(Gone, why), active' = active \ Gone, pending' = pending,
           UNCHANGED <<replies, ctxDone, cancelJoin>>,
           \/ pc' = pc
           \/ \E c \in Clients : /\ pc[c] = "leaving" /\ c \notin active'
                                 /\ pc' = [pc EXCEPT ![c] = "left"]
    PROVE  Callers'
<1> USE DEF Callers
<1>1. \A d \in Clients :
         stopped'[d] = IF d \in Gone /\ stopped[d] = "no" THEN why ELSE stopped[d]
  BY StopEach
<1>2. why # "no" /\ why # "canceled"
  BY DEF Reasons
<1>3. AnswerShape'
  BY <1>1, <1>2 DEF AnswerShape, TypeOK, CallType
<1>4. OnlyOwnCancellation' /\ Withdrawn'
  BY <1>1, <1>2 DEF OnlyOwnCancellation, Withdrawn
<1>5. NoOrphans'
  <2> SUFFICES ASSUME NEW d \in active' \cup pending'
               PROVE  pc'[d] \in {"reply", "joined", "leaving"} \/ d \in cancelJoin'
    BY DEF NoOrphans
  <2>1. d \in active \cup pending /\ d \in Clients
    BY DEF TypeOK, DispatcherType
  <2>2. pc[d] = "leaving" => d \notin pending
    BY <2>1, OneAnswer DEF AnswerShape
  <2> QED
    BY <2>1, <2>2 DEF NoOrphans, TypeOK, CallType
<1> QED
  BY <1>3, <1>4, <1>5

(***************************************************************************)
(* What a handler may do to the callers: admit In, refuse Out, park Park,  *)
(* and stop the members Gone, the refused and the stopped for the same     *)
(* reason.                                                                 *)
(***************************************************************************)
Dispatch(In, Out, Gone, Park, why) ==
    /\ active' = (active \cup In) \ Gone
    /\ pending' = (pending \cup Park) \ (In \cup Out)
    /\ \A d \in Clients :
          replies'[d] = IF d \in In THEN <<"ok">>
                        ELSE IF d \in Out THEN <<why>> ELSE replies[d]
    /\ \A d \in Clients :
          stopped'[d] = IF d \in Out \cup Gone /\ stopped[d] = "no"
                        THEN why ELSE stopped[d]
    /\ why \in Reasons
    /\ why = "canceled" => (Out \cup Gone) \subseteq ctxDone
    /\ Gone \subseteq active
    /\ In \cap Out = {} /\ Park \cap (In \cup Out) = {}
    /\ \A d \in In \cup Out \cup Park :
          d \in Clients /\ replies[d] = <<>> /\ pc'[d] \notin {"idle", "send"}
    /\ \A d \in In \cup Park : d \in pending \/ pc'[d] = "reply"
    /\ \A d \in Clients :
          pc'[d] = pc[d] \/ (pc[d] = "send" /\ pc'[d] = "reply")
    /\ ctxDone' = ctxDone /\ cancelJoin' \subseteq cancelJoin
    /\ \A d \in cancelJoin \ cancelJoin' : d \notin active' \cup pending'

\* Such a handler keeps Callers.
LEMMA DispatchCallers ==
    ASSUME TypeOK, Callers, NEW In, NEW Out, NEW Gone, NEW Park, NEW why,
           Dispatch(In, Out, Gone, Park, why)
    PROVE  Callers'
<1> USE DEF Callers, Dispatch
<1>1. why # "no" /\ why # "ok" /\ why \in Results
  BY DEF Reasons, Results
<1>2. AnswerShape'
  <2> SUFFICES ASSUME NEW d \in Clients
      PROVE (/\ replies[d] = <<>> \/ \E r \in Results : replies[d] = <<r>>
             /\ pc[d] \in {"idle", "send"} => replies[d] = <<>> /\ d \notin active \cup pending
             /\ d \in pending => replies[d] = <<>>
             /\ d \in active => replies[d] = <<"ok">>
             /\ replies[d] = <<"ok">> /\ stopped[d] = "no" => d \in active
             /\ pc[d] \in {"joined", "leaving", "left"} => replies[d] = <<"ok">>)'
    BY DEF AnswerShape
  <2>1. /\ replies[d] = <<>> \/ \E r \in Results : replies[d] = <<r>>
        /\ pc[d] \in {"idle", "send"} => replies[d] = <<>> /\ d \notin active \cup pending
        /\ d \in pending => replies[d] = <<>>
        /\ d \in active => replies[d] = <<"ok">>
        /\ replies[d] = <<"ok">> /\ stopped[d] = "no" => d \in active
        /\ pc[d] \in {"joined", "leaving", "left"} => replies[d] = <<"ok">>
    BY DEF AnswerShape
  <2>2. CASE d \in In
    BY <1>1, <2>1, <2>2, OneAnswer DEF Results
  <2>3. CASE d \in Out
    BY <1>1, <2>1, <2>3, OneAnswer
  <2>4. CASE d \notin In \cup Out
    BY <1>1, <2>1, <2>4, OneAnswer
  <2> QED
    BY <2>2, <2>3, <2>4
<1>3. Withdrawn'
  BY DEF Withdrawn
<1>4. NoOrphans'
  BY OneAnswer DEF NoOrphans, TypeOK, DispatcherType, AnswerShape
<1>5. OnlyOwnCancellation'
  <2> SUFFICES ASSUME NEW d \in Clients,
                      stopped'[d] = "canceled" \/ replies'[d] = <<"canceled">>
               PROVE  d \in ctxDone
    BY DEF OnlyOwnCancellation
  <2> QED
    BY <1>1, OneAnswer DEF OnlyOwnCancellation
<1> QED
  BY <1>2, <1>3, <1>4, <1>5

callerVars == <<pending, active, replies, stopped, pc, ctxDone, cancelJoin>>

\* A step that leaves the callers alone keeps Callers.
LEMMA CallersFrame ==
    ASSUME Callers, UNCHANGED callerVars
    PROVE  Callers'
BY DEF Callers, AnswerShape, Withdrawn, NoOrphans, OnlyOwnCancellation, callerVars

\* A handler of a caller's request keeps Callers.
LEMMA RequestCallers ==
    ASSUME TypeOK, Lifecycle, Callers,
           \/ \E c \in Clients : handleJoin(c) \/ handleCancelJoin(c) \/ handleLeave(c)
           \/ \E s \in Stoppers : handleStop(s)
           \/ \E k \in Closers : handleClose(k)
    PROVE  Callers'
<1> USE DEF Callers
<1>0. CallType /\ active \subseteq Clients /\ pending \subseteq Clients
  BY DEF TypeOK, DispatcherType
<1>1. ASSUME NEW c \in Clients, handleJoin(c) PROVE Callers'
  <2>1. /\ replies[c] = <<>> /\ c \notin active \cup pending
        /\ pc' = [pc EXCEPT ![c] = "reply"] /\ UNCHANGED <<ctxDone, cancelJoin>>
        /\ pc[c] = "send"
    BY <1>1 DEF handleJoin, AnswerShape
  <2>2. /\ pc'[c] = "reply"
        /\ \A d \in Clients : pc'[d] = pc[d] \/ (pc[d] = "send" /\ pc'[d] = "reply")
    BY <1>0, <2>1 DEF CallType
  <2>3. ASSUME NEW why \in {"canceled", "closed", "duplicate"},
               stop({c}, why), reply({c}, why), UNCHANGED dispatcherVars,
               why = "canceled" => c \in ctxDone
        PROVE  Callers'
    <3>1. \A d \in Clients : replies'[d] = IF d \in {c} THEN <<why>> ELSE replies[d]
      BY <1>0, <2>1, <2>3, ReplyOnce
    <3>2. \A d \in Clients :
             stopped'[d] = IF d \in {c} /\ stopped[d] = "no" THEN why ELSE stopped[d]
      BY <2>3, StopEach
    <3>3. Dispatch({}, {c}, {}, {}, why)
      BY <2>1, <2>2, <2>3, <3>1, <3>2 DEF Dispatch, Reasons
    <3> QED
      BY <3>3, DispatchCallers
  <2>4. CASE c \in ctxDone
    BY <1>1, <2>3, <2>4 DEF handleJoin, joinOutcome
  <2>5. CASE c \notin ctxDone /\ state = "closing"
    BY <1>1, <2>3, <2>5 DEF handleJoin, joinOutcome
  <2>6. CASE c \notin ctxDone /\ state # "closing" /\ idTaken(c)
    BY <1>1, <2>3, <2>6 DEF handleJoin, joinOutcome, rejectDuplicate
  <2>7. CASE c \notin ctxDone /\ state \in {"idle", "starting", "stopping"} /\ ~idTaken(c)
    <3>1. pending' = pending \cup {c} /\ UNCHANGED <<active, stopped, replies>>
      BY <1>1, <2>7 DEF handleJoin, joinOutcome
    <3>2. Dispatch({}, {}, {}, {c}, "nil")
      BY <2>1, <2>2, <3>1 DEF Dispatch, Reasons
    <3> QED
      BY <3>2, DispatchCallers
  <2>8. CASE c \notin ctxDone /\ state = "running" /\ ~idTaken(c)
    <3>1. /\ active' = active \cup {c} /\ reply({c}, "ok")
          /\ UNCHANGED <<pending, stopped>>
      BY <1>1, <2>8 DEF handleJoin, joinOutcome
    <3>2. \A d \in Clients : replies'[d] = IF d \in {c} THEN <<"ok">> ELSE replies[d]
      BY <1>0, <2>1, <3>1, ReplyOnce
    <3>3. Dispatch({c}, {}, {}, {}, "nil")
      BY <2>1, <2>2, <3>1, <3>2 DEF Dispatch, Reasons
    <3> QED
      BY <3>3, DispatchCallers
  <2> QED
    BY <2>4, <2>5, <2>6, <2>7, <2>8 DEF TypeOK, DispatcherType, States
<1>2. ASSUME NEW c \in Clients, handleCancelJoin(c) PROVE Callers'
  <2> DEFINE parked == matches(pending, c)
             joined == matches(active, c)
  <2>1. /\ pending' = pending \ parked /\ active' = active \ joined
        /\ stop(parked \cup joined, "canceled") /\ reply(parked, "canceled")
        /\ cancelJoin' = cancelJoin \ {c} /\ c \in cancelJoin
        /\ pc' = pc /\ ctxDone' = ctxDone
    BY <1>2 DEF handleCancelJoin
  <2>2. /\ parked \subseteq pending /\ joined \subseteq active
        /\ parked \subseteq {c} /\ joined \subseteq {c} /\ c \in ctxDone
        /\ c \notin active' \cup pending'
    BY <2>1 DEF matches, Withdrawn
  <2>3. \A d \in parked : /\ d \in Clients /\ replies[d] = <<>>
                          /\ pc[d] \notin {"idle", "send"}
    BY <1>0, <2>2 DEF AnswerShape
  <2> HIDE DEF parked, joined
  <2>4. \A d \in Clients :
           replies'[d] = IF d \in parked THEN <<"canceled">> ELSE replies[d]
    BY <1>0, <2>1, <2>3, ReplyOnce
  <2>5. \A d \in Clients :
           stopped'[d] = IF d \in parked \cup joined /\ stopped[d] = "no"
                         THEN "canceled" ELSE stopped[d]
    BY <2>1, StopEach
  <2>6. Dispatch({}, parked, joined, {}, "canceled")
    BY <2>1, <2>2, <2>3, <2>4, <2>5 DEF Dispatch, Reasons
  <2> QED
    BY <2>6, DispatchCallers
<1>3. ASSUME NEW c \in Clients, handleLeave(c) PROVE Callers'
  <2>1. /\ stop(holder(active, c), "nil") /\ active' = active \ holder(active, c)
        /\ UNCHANGED <<pending, replies, ctxDone, cancelJoin>>
        /\ pc[c] = "leaving" /\ pc' = [pc EXCEPT ![c] = "left"]
    BY <1>3 DEF handleLeave
  <2>2. c \notin active'
    BY <2>1 DEF holder
  <2> QED
    BY <2>1, <2>2, ForgetCallers DEF Reasons
<1>4. ASSUME NEW s \in Stoppers, handleStop(s) PROVE Callers'
  <2>1. /\ stop(active, "nil") /\ active' = active \ active
        /\ UNCHANGED <<pending, replies, ctxDone, cancelJoin, pc>>
    BY <1>4 DEF handleStop
  <2> QED
    BY <2>1, ForgetCallers DEF Reasons
<1>5. ASSUME NEW k \in Closers, handleClose(k) PROVE Callers'
  <2>1. CASE state = "closing"
    BY <1>5, <2>1, CallersFrame DEF handleClose, callerVars
  <2>2. CASE state # "closing"
    <3>1. /\ pending' = {} /\ active' = {} /\ reply(pending, "closed")
          /\ stop(pending \cup active, "closed")
          /\ UNCHANGED <<pc, ctxDone, cancelJoin>>
      BY <1>5, <2>2 DEF handleClose
    <3>2. \A d \in pending : /\ d \in Clients /\ replies[d] = <<>>
                             /\ pc[d] \notin {"idle", "send"}
      BY <1>0 DEF AnswerShape
    <3>3. \A d \in Clients :
             replies'[d] = IF d \in pending THEN <<"closed">> ELSE replies[d]
      BY <1>0, <3>1, <3>2, ReplyOnce
    <3>4. \A d \in Clients :
             stopped'[d] = IF d \in pending \cup active /\ stopped[d] = "no"
                           THEN "closed" ELSE stopped[d]
      BY <3>1, StopEach
    <3>5. Dispatch({}, pending, active, {}, "closed")
      BY <3>1, <3>2, <3>3, <3>4 DEF Dispatch, Reasons
    <3> QED
      BY <3>5, DispatchCallers
  <2> QED
    BY <2>1, <2>2
<1> QED
  BY <1>1, <1>2, <1>3, <1>4, <1>5

\* The handlers of the worker's events keep Callers.
LEMMA EventCallers ==
    ASSUME TypeOK, Lifecycle, Callers,
           \/ \E g \in Generations : handleStartResult(g) \/ handleWorkerStopped(g)
           \/ handleMessage \/ waitWorkers \/ topicClosed
    PROVE  Callers'
<1> USE DEF Callers
<1>0. /\ CallType /\ active \subseteq Clients /\ pending \subseteq Clients
      /\ \A d \in pending : /\ d \in Clients /\ replies[d] = <<>>
                            /\ pc[d] \notin {"idle", "send"}
  BY DEF TypeOK, DispatcherType, AnswerShape
<1>1. ASSUME NEW g \in Generations, handleStartResult(g) PROVE Callers'
  <2>1. UNCHANGED <<pc, ctxDone, cancelJoin>>
    BY <1>1 DEF handleStartResult
  <2>2. g = generation
    BY <1>1, Current DEF handleStartResult, Alive, Lifecycle
  <2>3. CASE state # "starting"
    <3>1. UNCHANGED callerVars
      BY <1>1, <2>1, <2>2, <2>3 DEF handleStartResult, handleStartFailure,
         handleStartSuccess, callerVars
    <3> QED
      BY <3>1, CallersFrame
  <2>4. CASE state = "starting" /\ worker[g].pc = "startFailed"
    <3>1. /\ pending' = {} /\ active' = active
          /\ stop(pending, "startError") /\ reply(pending, "startError")
      BY <1>1, <2>2, <2>4 DEF handleStartResult, handleStartFailure, failPending
    <3>2. \A d \in Clients :
             replies'[d] = IF d \in pending THEN <<"startError">> ELSE replies[d]
      BY <1>0, <3>1, ReplyOnce
    <3>3. \A d \in Clients :
             stopped'[d] = IF d \in pending /\ stopped[d] = "no"
                           THEN "startError" ELSE stopped[d]
      BY <3>1, StopEach
    <3>4. Dispatch({}, pending, {}, {}, "startError")
      BY <1>0, <2>1, <3>1, <3>2, <3>3 DEF Dispatch, Reasons
    <3> QED
      BY <3>4, DispatchCallers
  <2>5. CASE state = "starting" /\ worker[g].pc = "startOk"
    <3>1. /\ pending' = {} /\ active' = active \cup (pending \ expired)
          /\ stop(expired, "canceled")
          /\ replies' = [c \in Clients |->
                           IF c \in expired THEN Append(replies[c], "canceled")
                           ELSE IF c \in pending THEN Append(replies[c], "ok")
                           ELSE replies[c]]
      BY <1>1, <2>2, <2>5 DEF handleStartResult, handleStartSuccess
    <3>2. expired \subseteq pending /\ expired \subseteq ctxDone
      BY DEF expired
    <3>3. \A d \in Clients :
             replies'[d] = IF d \in pending \ expired THEN <<"ok">>
                           ELSE IF d \in expired THEN <<"canceled">> ELSE replies[d]
      BY <1>0, <3>1, <3>2, OneAnswer
    <3>4. \A d \in Clients :
             stopped'[d] = IF d \in expired /\ stopped[d] = "no"
                           THEN "canceled" ELSE stopped[d]
      BY <3>1, StopEach
    <3>5. Dispatch(pending \ expired, expired, {}, {}, "canceled")
      BY <1>0, <2>1, <3>1, <3>2, <3>3, <3>4 DEF Dispatch, Reasons
    <3> QED
      BY <3>5, DispatchCallers
  <2> QED
    BY <1>1, <2>3, <2>4, <2>5 DEF handleStartResult
<1>2. ASSUME NEW g \in Generations, handleWorkerStopped(g) PROVE Callers'
  <2>1. UNCHANGED <<pending, replies, pc, ctxDone, cancelJoin>>
    BY <1>2 DEF handleWorkerStopped, workerStoppedOutcome
  <2>2. CASE g = generation /\ state = "running"
    <3>1. active' = active \ active /\ stop(active, worker[g].err)
      BY <1>2, <2>2 DEF handleWorkerStopped, workerStoppedOutcome
    <3>2. worker[g].err \in Reasons \ {"canceled"}
      BY DEF TypeOK, WorkerType, Worker, Reasons
    <3> QED
      BY <2>1, <3>1, <3>2, ForgetCallers
  <2>3. CASE ~(g = generation /\ state = "running")
    <3>1. UNCHANGED callerVars
      BY <1>2, <2>1, <2>3 DEF handleWorkerStopped, workerStoppedOutcome, callerVars
    <3> QED
      BY <3>1, CallersFrame
  <2> QED
    BY <2>2, <2>3
<1>3. CASE handleMessage
  <2>1. UNCHANGED <<pending, replies, pc, ctxDone, cancelJoin>>
    BY <1>3 DEF handleMessage
  <2>2. CASE isCurrent(Head(messageCh))
    <3>1. active' = active \ evicted /\ stop(evicted, "slow")
      BY <1>3, <2>2 DEF handleMessage
    <3> QED
      BY <2>1, <3>1, ForgetCallers DEF Reasons
  <2>3. CASE ~isCurrent(Head(messageCh))
    <3>1. UNCHANGED callerVars
      BY <1>3, <2>1, <2>3 DEF handleMessage, callerVars
    <3> QED
      BY <3>1, CallersFrame
  <2> QED
    BY <2>2, <2>3
<1>4. CASE waitWorkers \/ topicClosed
  BY <1>4, CallersFrame DEF waitWorkers, topicClosed, callerVars
<1> QED
  BY <1>1, <1>2, <1>3, <1>4

\* A step of the caller itself keeps Callers.
LEMMA ClientCallers ==
    ASSUME TypeOK, Lifecycle, Callers, NEW c \in Clients, clientStep(c)
    PROVE  Callers'
<1> USE DEF Callers
<1>1. boxOver => active = {} /\ pending = {}
  BY DEF boxOver, Lifecycle, TailShape, StateShape
<1>2. \A d \in Clients : d # c => pc'[d] = pc[d] /\ stopped'[d] = stopped[d]
  BY DEF clientStep, callStep, cancelContext, joinCall, joinGivesUp,
     joinAbandoned, joinBoxOver, joinReplied, cancelJoinOver, receive,
     leaveCall, leaveBoxOver, stop, TypeOK, CallType
<1>3. UNCHANGED <<active, pending, replies>>
  BY DEF clientStep, callStep, cancelContext, joinCall, joinGivesUp,
     joinAbandoned, joinBoxOver, joinReplied, cancelJoinOver, receive,
     leaveCall, leaveBoxOver
<1>4. CASE cancelContext(c) \/ cancelJoinOver(c) \/ receive(c)
  <2>1. UNCHANGED <<pc, stopped>> /\ ctxDone \subseteq ctxDone'
    BY <1>4 DEF cancelContext, cancelJoinOver, receive
  <2>2. /\ cancelJoin' \subseteq cancelJoin
        /\ cancelJoin' # cancelJoin => active = {} /\ pending = {}
    BY <1>1, <1>4 DEF cancelContext, cancelJoinOver, receive, boxOver
  <2> QED
    BY <1>3, <2>1, <2>2 DEF AnswerShape, Withdrawn, NoOrphans, OnlyOwnCancellation
<1>5. CASE joinCall(c) \/ leaveCall(c) \/ leaveBoxOver(c)
  <2>1. /\ UNCHANGED <<stopped, ctxDone, cancelJoin>>
        /\ \/ pc[c] = "idle" /\ pc'[c] \in {"send", "failed"}
           \/ pc[c] = "joined" /\ pc'[c] = "leaving"
           \/ pc[c] = "leaving" /\ pc'[c] = "left" /\ active = {} /\ pending = {}
    BY <1>1, <1>5 DEF joinCall, leaveCall, leaveBoxOver, callStep, TypeOK, CallType
  <2> QED
    BY <1>2, <1>3, <2>1, OneAnswer DEF AnswerShape, Withdrawn, NoOrphans,
       OnlyOwnCancellation, TypeOK, DispatcherType
<1>6. CASE joinGivesUp(c) \/ joinAbandoned(c) \/ joinBoxOver(c)
  <2>1. /\ ctxDone' = ctxDone /\ cancelJoin \subseteq cancelJoin'
        /\ cancelJoin' \subseteq cancelJoin \cup {c}
        /\ pc'[c] = "failed"
        /\ \/ pc[c] = "send" /\ (c \in ctxDone \/ stopped'[c] # "canceled" \/ stopped'[c] = stopped[c])
           \/ c \in ctxDone /\ c \in cancelJoin'
           \/ active = {} /\ pending = {} /\ (stopped'[c] # "canceled" \/ stopped'[c] = stopped[c])
        /\ cancelJoin' # cancelJoin => c \in ctxDone
        /\ stopped'[c] # "no"
    BY <1>1, <1>6 DEF joinGivesUp, joinAbandoned, joinBoxOver, callStep, stop,
       TypeOK, CallType
  <2>2. AnswerShape'
    BY <1>2, <1>3, <2>1 DEF AnswerShape
  <2>3. Withdrawn' /\ OnlyOwnCancellation'
    BY <1>2, <1>3, <2>1 DEF Withdrawn, OnlyOwnCancellation
  <2>4. NoOrphans'
    BY <1>2, <1>3, <2>1 DEF NoOrphans, AnswerShape, TypeOK, DispatcherType
  <2> QED
    BY <2>2, <2>3, <2>4
<1>7. CASE joinReplied(c)
  <2>1. PICK r \in Results : replies[c] = <<r>>
    BY <1>7 DEF joinReplied, AnswerShape
  <2>2. /\ UNCHANGED <<stopped, ctxDone>> /\ cancelJoin \subseteq cancelJoin'
        /\ cancelJoin' \subseteq cancelJoin \cup {c}
        /\ pc[c] = "reply"
        /\ \/ r # "ok" /\ pc'[c] = "failed" /\ cancelJoin' = cancelJoin
           \/ r = "ok" /\ pc'[c] = "failed" /\ c \in cancelJoin' /\ c \in ctxDone
           \/ r = "ok" /\ pc'[c] = "joined" /\ cancelJoin' = cancelJoin
    BY <1>7, <2>1, OneAnswer DEF joinReplied, callStep, TypeOK, CallType
  <2>3. r # "ok" => c \notin active \cup pending
    BY <2>1, OneAnswer DEF AnswerShape
  <2>4. AnswerShape'
    BY <1>2, <1>3, <2>1, <2>2 DEF AnswerShape
  <2>5. Withdrawn' /\ OnlyOwnCancellation'
    BY <1>3, <2>2 DEF Withdrawn, OnlyOwnCancellation
  <2>6. NoOrphans'
    BY <1>2, <1>3, <2>2, <2>3 DEF NoOrphans, TypeOK, DispatcherType
  <2> QED
    BY <2>4, <2>5, <2>6
<1> QED
  BY <1>4, <1>5, <1>6, <1>7 DEF clientStep

\* A new box has no callers.
LEMMA InitCallers == Init => Callers
BY DEF Init, Callers, AnswerShape, Withdrawn, NoOrphans, OnlyOwnCancellation

\* Callers is inductive, given TypeOK and Lifecycle.
LEMMA StepCallers == TypeOK /\ Lifecycle /\ Callers /\ [Next]_vars => Callers'
<1> SUFFICES ASSUME TypeOK, Lifecycle, Callers, [Next]_vars PROVE Callers'
  OBVIOUS
<1>1. CASE UNCHANGED vars
  BY <1>1, CallersFrame DEF vars, callerVars
<1>2. ASSUME NEW g \in Generations, workerNext(g) PROVE Callers'
  <2>1. UNCHANGED callerVars
    BY <1>2 DEF workerNext, workerStep, subscribe, nextMessage, nextMalformed,
       nextFails, nextCancelled, push, unsubscribe, workerDone, callerVars
  <2> QED
    BY <2>1, CallersFrame
<1>3. ASSUME \/ \E s \in Stoppers : stopCall(s) \/ stopBoxOver(s)
             \/ \E k \in Closers : closeCall(k) \/ closeOnceOver(k) \/ closeReturns(k)
      PROVE  Callers'
  <2>1. UNCHANGED callerVars
    BY <1>3 DEF stopCall, stopBoxOver, closeCall, closeOnceOver, closeReturns,
       boxStays, callerVars
  <2> QED
    BY <2>1, CallersFrame
<1>4. CASE Next
  BY <1>2, <1>3, <1>4, RequestCallers, EventCallers, ClientCallers
     DEF Next, runDispatcher
<1> QED
  BY <1>1, <1>4

\* The type, the lifecycle and the callers hold in every reachable state.
LEMMA TypedCallers == Spec => [](TypeOK /\ Lifecycle /\ Callers)
<1>1. Init => Callers
  BY InitCallers
<1>2. TypeOK /\ Lifecycle /\ Callers /\ [Next]_vars => Callers'
  BY StepCallers
<1> QED
  BY <1>1, <1>2, TypedLifecycle, PTL DEF Spec

(***************************************************************************)
(* The dispatcher answers a request at most once, so a reply never blocks  *)
(* it.                                                                     *)
(***************************************************************************)
THEOREM NoReplyBlocks == Spec => []RepliesFitTheirChannels
<1>1. TypeOK /\ Lifecycle /\ Callers => RepliesFitTheirChannels
  <2> SUFFICES ASSUME Callers, NEW c \in Clients
               PROVE  Len(replies[c]) <= 1 /\ (c \in pending => replies[c] = <<>>)
    BY DEF RepliesFitTheirChannels
  <2>1. /\ replies[c] = <<>> \/ \E r \in Results : replies[c] = <<r>>
        /\ c \in pending => replies[c] = <<>>
    BY DEF Callers, AnswerShape
  <2>2. replies[c] = <<>> => Len(replies[c]) = 0
    BY OneAnswer
  <2>3. \A r \in Results : replies[c] = <<r>> => Len(replies[c]) = 1
    BY OneAnswer
  <2>4. Len(replies[c]) = 0 \/ Len(replies[c]) = 1
    BY <2>1, <2>2, <2>3, Zenon
  <2>5. \A n : n = 0 \/ n = 1 => n <= 1
    OBVIOUS
  <2>6. Len(replies[c]) <= 1
    BY <2>4, <2>5, Zenon
  <2> QED
    BY <2>1, <2>6, Zenon
<1> QED
  BY <1>1, TypedCallers, PTL

(***************************************************************************)
(* Whoever holds a subscriber is served by it or told of its end.          *)
(***************************************************************************)
THEOREM NobodyForgotten == Spec => []JoinedIsServed
<1>1. TypeOK /\ Lifecycle /\ Callers => JoinedIsServed
  BY DEF Callers, AnswerShape, JoinedIsServed
<1> QED
  BY <1>1, TypedCallers, PTL

(***************************************************************************)
(* The dispatcher keeps no subscriber whose owner is gone.                 *)
(***************************************************************************)
THEOREM NobodyOrphaned == Spec => []NoOrphans
<1>1. TypeOK /\ Lifecycle /\ Callers => NoOrphans
  BY DEF Callers
<1> QED
  BY <1>1, TypedCallers, PTL

(***************************************************************************)
(* A cancellation reaches only the caller whose context ended, also when   *)
(* callers share an ID.                                                    *)
(***************************************************************************)
THEOREM CancellationIsOwn == Spec => []OnlyOwnCancellation
<1>1. TypeOK /\ Lifecycle /\ Callers => OnlyOwnCancellation
  BY DEF Callers
<1> QED
  BY <1>1, TypedCallers, PTL

(***************************************************************************)
(* topic.Close comes after the last worker, and after every subscriber was *)
(* stopped.                                                                *)
(***************************************************************************)
THEOREM TopicClosesLast == Spec => []TopicClosedLast
<1>1. TypeOK /\ Lifecycle /\ Callers => TopicClosedLast
  <2> SUFFICES ASSUME TypeOK, Lifecycle, Callers, dpc \in {"topicClose", "done"}
               PROVE  /\ open = {}
                      /\ \A g \in Generations : worker[g].pc = "exit"
                      /\ \A c \in Clients : pc[c] = "joined" => stopped[c] # "no"
    BY DEF TopicClosedLast
  <2>1. state = "closing" /\ ~workerCancel /\ active = {}
    BY DEF Lifecycle, TailShape, StateShape
  <2>2. open = {}
    BY <2>1, QuietBackend DEF Lifecycle
  <2>3. \A g \in Generations : worker[g].pc = "exit"
    BY DEF Lifecycle, TailShape
  <2>4. \A c \in Clients : pc[c] = "joined" => stopped[c] # "no"
    BY <2>1 DEF Callers, AnswerShape
  <2> QED
    BY <2>2, <2>3, <2>4
<1> QED
  BY <1>1, TypedCallers, PTL

-----------------------------------------------------------------------------
(***************************************************************************)
(* The maps are keyed by ID.                                               *)
(***************************************************************************)
\* A join adds at most its own caller, whose ID is free; nothing else adds one.
LEMMA Registered ==
    ASSUME TypeOK, Lifecycle, UniqueSubscriberIDs, [Next]_vars
    PROVE  UniqueSubscriberIDs'
<1>1. ASSUME active' \cup pending' \subseteq active \cup pending,
             active' \cap pending' = {}
      PROVE  UniqueSubscriberIDs'
  BY <1>1 DEF UniqueSubscriberIDs
<1>2. ASSUME NEW c \in Clients, handleJoin(c) PROVE UniqueSubscriberIDs'
  <2>1. CASE idTaken(c) \/ c \in ctxDone \/ state = "closing"
    BY <1>1, <1>2, <2>1 DEF handleJoin, joinOutcome, UniqueSubscriberIDs
  <2>2. CASE ~idTaken(c)
    <3>1. \A d \in active \cup pending : SubscriberID[d] # SubscriberID[c]
      BY <2>2 DEF idTaken, holder
    <3>2. \/ UNCHANGED <<active, pending>>
          \/ active' = active \cup {c} /\ pending' = pending
          \/ active' = active /\ pending' = pending \cup {c}
      BY <1>2 DEF handleJoin, joinOutcome
    <3> QED
      BY <3>1, <3>2 DEF UniqueSubscriberIDs
  <2> QED
    BY <2>1, <2>2
<1>3. ASSUME NEW g \in Generations, handleStartResult(g) PROVE UniqueSubscriberIDs'
  <2>1. \/ UNCHANGED <<active, pending>>
        \/ pending' = {} /\ active' \subseteq active \cup pending
    BY <1>3 DEF handleStartResult, handleStartFailure, failPending,
       handleStartSuccess
  <2> QED
    BY <1>1, <2>1 DEF UniqueSubscriberIDs
<1>4. ASSUME active' \subseteq active, pending' \subseteq pending
      PROVE  UniqueSubscriberIDs'
  BY <1>1, <1>4 DEF UniqueSubscriberIDs
<1>5. CASE UNCHANGED vars
  BY <1>4, <1>5 DEF vars
<1>6. ASSUME NEW c \in Clients,
             handleCancelJoin(c) \/ handleLeave(c) \/ clientStep(c)
      PROVE  UniqueSubscriberIDs'
  BY <1>4, <1>6 DEF handleCancelJoin, handleLeave, clientStep, callStep,
     cancelContext, joinCall, joinGivesUp, joinAbandoned, joinBoxOver,
     joinReplied, cancelJoinOver, receive, leaveCall, leaveBoxOver
<1>7. ASSUME NEW g \in Generations, handleWorkerStopped(g) \/ workerNext(g)
      PROVE  UniqueSubscriberIDs'
  BY <1>4, <1>7 DEF handleWorkerStopped, workerStoppedOutcome, workerNext,
     workerStep, subscribe, nextMessage, nextMalformed, nextFails,
     nextCancelled, push, unsubscribe, workerDone
<1>8. ASSUME \/ \E s \in Stoppers : handleStop(s) \/ stopCall(s) \/ stopBoxOver(s)
             \/ \E k \in Closers : handleClose(k) \/ closeCall(k)
                                   \/ closeOnceOver(k) \/ closeReturns(k)
             \/ handleMessage \/ waitWorkers \/ topicClosed
      PROVE  UniqueSubscriberIDs'
  BY <1>4, <1>8 DEF handleStop, stopCall, stopBoxOver, handleClose, closeCall,
     closeOnceOver, closeReturns, boxStays, handleMessage, waitWorkers,
     topicClosed
<1> QED
  BY <1>2, <1>3, <1>5, <1>6, <1>7, <1>8 DEF Next, runDispatcher

(***************************************************************************)
(* No two subscribers the dispatcher knows share an ID.                    *)
(***************************************************************************)
THEOREM IDsStayUnique == Spec => []UniqueSubscriberIDs
<1>1. Init => UniqueSubscriberIDs
  BY DEF Init, UniqueSubscriberIDs
<1>2. TypeOK /\ Lifecycle /\ UniqueSubscriberIDs /\ [Next]_vars => UniqueSubscriberIDs'
  BY Registered
<1> QED
  BY <1>1, <1>2, TypedLifecycle, PTL DEF Spec

-----------------------------------------------------------------------------
(***************************************************************************)
(* Fan-out.                                                                *)
(***************************************************************************)
Starting == {"subscribe", "startOk", "startFailed"}

\* messageCh holds what earlier generations left, then what the current one
\* has pushed; a worker that has not started has pushed nothing.
ChannelShape ==
    /\ \A i \in 1..Len(messageCh) : messageCh[i].gen \in Generations
    /\ \E k \in 0..Len(messageCh) : Backlog = (k + 1)..Len(messageCh)
    /\ generation \in Generations /\ worker[generation].pc \in Starting => Backlog = {}

\* While the box runs no capsule is lost between the backend and the
\* dispatcher: the backlog is a run that ends just before the capsule in the
\* worker's hands, or else with the last one read.
RunShape ==
    state = "running" =>
        /\ \A i \in Backlog : i + 1 \in Backlog =>
              messageCh[i + 1].capsule = messageCh[i].capsule + 1
        /\ Backlog # {} => messageCh[Len(messageCh)].capsule + 1 = Upcoming
        /\ worker[generation].pc = "push" => worker[generation].capsule = sent

\* Nobody is given a message before the answer to its request.
FreshLogs ==
    \A c \in Clients : replies[c] = <<>> => messages[c] = <<>> /\ received[c] = <<>>

\* GaplessFanOut of one subscriber.
RunOfOne(log) ==
    \A i \in 1..(Len(log) - 1) :
        log[i + 1].capsule = log[i].capsule + 1 /\ log[i + 1].gen = log[i].gen

UpToDate(log) ==
    log # <<>> =>
        log[Len(log)].gen = generation /\ NextCapsule = log[Len(log)].capsule + 1

FanOut == ChannelShape /\ RunShape /\ FreshLogs /\ GaplessFanOut

BoxInv == TypeOK /\ Lifecycle /\ Callers

LEMMA FirstOfRange ==
    ASSUME NEW k \in Nat, NEW n \in Nat, k < n
    PROVE  first((k + 1)..n) = k + 1
<1>1. k + 1 \in (k + 1)..n /\ \A j \in (k + 1)..n : k + 1 <= j
  OBVIOUS
<1>2. \A i \in (k + 1)..n : (\A j \in (k + 1)..n : i <= j) => i = k + 1
  OBVIOUS
<1>3. first((k + 1)..n) \in (k + 1)..n /\ \A j \in (k + 1)..n : first((k + 1)..n) <= j
  BY <1>1, Zenon DEF first
<1> QED BY <1>2, <1>3

LEMMA GaplessByOne ==
    GaplessFanOut <=> \A c \in Clients : /\ RunOfOne(Delivered(c))
                                         /\ c \in active => UpToDate(Delivered(c))
BY DEF GaplessFanOut, RunOfOne, UpToDate

\* The box serves somebody only while it runs.
LEMMA ServesRunning ==
    ASSUME TypeOK, StateShape, active # {}
    PROVE  state = "running"
BY DEF StateShape, TypeOK, DispatcherType, States

\* A running box has a worker that is past its start and not cancelled.
LEMMA RunningWorker ==
    ASSUME TypeOK, Lifecycle, state = "running"
    PROVE  /\ generation \in Generations /\ generation \notin cancelled
           /\ worker[generation].pc \in {"next", "push", "unsubscribe", "stopped"}
           /\ pending = {}
BY DEF Lifecycle, StateShape, OneWorker

LEMMA EmptyConcat == <<>> \o <<>> = <<>>
OBVIOUS

\* A step that delivers nothing: whoever it leaves active was so before, with
\* the same capsule to come, or is new and was given nothing.
LEMMA NothingDelivered ==
    ASSUME TypeOK, FanOut, TypeOK',
           \A c \in Clients : Delivered(c)' = Delivered(c),
           active' \subseteq active \cup {c \in Clients : replies[c] = <<>>},
           active # {} /\ active' # {} =>
               generation' = generation /\ NextCapsule' = NextCapsule
    PROVE  GaplessFanOut'
<1> USE DEF FanOut
<1>1. ASSUME NEW c \in Clients PROVE RunOfOne(Delivered(c)')
  BY <1>1, GaplessByOne
<1>2. ASSUME NEW c \in Clients, c \in active', c \in active
      PROVE  UpToDate(Delivered(c))'
  <2>1. UpToDate(Delivered(c)) BY <1>2, GaplessByOne
  <2>2. generation' = generation /\ NextCapsule' = NextCapsule BY <1>2
  <2>3. Delivered(c)' = Delivered(c) BY <1>2
  <2> QED BY <2>1, <2>2, <2>3 DEF UpToDate
<1>3. ASSUME NEW c \in Clients, c \in active', c \notin active
      PROVE  UpToDate(Delivered(c))'
  <2>1. messages[c] = <<>> /\ received[c] = <<>> BY <1>3 DEF FreshLogs
  <2>2. Delivered(c) = <<>> BY <2>1, EmptyConcat DEF Delivered
  <2>3. Delivered(c)' = <<>> BY <1>3, <2>2
  <2> QED BY <2>3 DEF UpToDate
<1> QED
  BY <1>1, <1>2, <1>3 DEF GaplessFanOut, RunOfOne, UpToDate

(***************************************************************************)
(* What a handler of the dispatcher, but for that of a message, may do to  *)
(* the workers: leave them alone, start a generation, move the worker of   *)
(* a box that does not run on, or let it read when the box begins to run.  *)
(***************************************************************************)
WorkersKept  == UNCHANGED <<generation, worker>> /\ (state' = "running" => state = "running")
Restarted    == generation' = generation + 1 /\ state' # "running"
WorkerMoved  == /\ generation' = generation /\ state' # "running"
                /\ worker'[generation].pc \notin Starting
RunBegins    == /\ generation' = generation /\ state # "running" /\ Backlog = {}
                /\ worker'[generation].pc = "next"

LEMMA HandlerFan ==
    ASSUME BoxInv, FanOut, BoxInv',
           UNCHANGED <<messageCh, sent, messages, received>>,
           \A c \in Clients : replies'[c] = <<>> => replies[c] = <<>>,
           active' \subseteq active \cup {c \in Clients : replies[c] = <<>>},
           WorkersKept \/ Restarted \/ WorkerMoved \/ RunBegins
    PROVE  FanOut'
<1> USE DEF BoxInv, FanOut
<1>0. /\ generation \in Nat /\ Len(messageCh) \in Nat
      /\ Generations = 1..generation /\ Generations' = 1..generation'
  BY DEF TypeOK, DispatcherType, StreamType, Generations
<1>1. FreshLogs' BY DEF FreshLogs
<1>2. \A c \in Clients : Delivered(c)' = Delivered(c) BY DEF Delivered
<1>3. /\ state' # "running" => active' = {}
      /\ state # "running" => active = {}
  <2>1. active # {} => state = "running" BY ServesRunning DEF Lifecycle
  <2>2. active' # {} => state' = "running"
    BY DEF Lifecycle, StateShape, TypeOK, DispatcherType, States
  <2> QED BY <2>1, <2>2
<1>4. CASE WorkersKept
  <2>1. Backlog' = Backlog /\ Upcoming' = Upcoming /\ Generations' = Generations
    BY <1>4 DEF WorkersKept, Backlog, Upcoming, Generations
  <2>2. NextCapsule' = NextCapsule BY <2>1 DEF NextCapsule
  <2>3. ChannelShape' BY <1>4, <2>1 DEF ChannelShape, WorkersKept
  <2>4. RunShape' BY <1>4, <2>1 DEF RunShape, WorkersKept
  <2>5. GaplessFanOut' BY <1>2, <1>4, <2>2, NothingDelivered DEF WorkersKept
  <2> QED BY <1>1, <2>3, <2>4, <2>5
<1>5. CASE Restarted
  <2>1. Backlog' = {}
    <3>1. \A i \in 1..Len(messageCh) : messageCh[i].gen \in 1..generation
      BY <1>0 DEF ChannelShape
    <3> QED BY <1>0, <1>5, <3>1 DEF Backlog, Restarted
  <2>2. ChannelShape'
    <3>1. (Len(messageCh) + 1)..Len(messageCh) = {} /\ Len(messageCh) \in 0..Len(messageCh)
      BY <1>0
    <3>2. Generations \subseteq Generations' BY <1>0, <1>5 DEF Restarted
    <3> QED BY <2>1, <3>1, <3>2 DEF ChannelShape
  <2>3. RunShape' BY <1>5 DEF RunShape, Restarted
  <2>4. GaplessFanOut' BY <1>2, <1>3, <1>5, NothingDelivered DEF Restarted
  <2> QED BY <1>1, <2>2, <2>3, <2>4
<1>6. CASE WorkerMoved
  <2>1. Backlog' = Backlog /\ Generations' = Generations
    BY <1>6 DEF WorkerMoved, Backlog, Generations
  <2>2. ChannelShape' BY <1>6, <2>1 DEF ChannelShape, WorkerMoved
  <2>3. RunShape' BY <1>6 DEF RunShape, WorkerMoved
  <2>4. GaplessFanOut' BY <1>2, <1>3, <1>6, NothingDelivered DEF WorkerMoved
  <2> QED BY <1>1, <2>2, <2>3, <2>4
<1>7. CASE RunBegins
  <2>1. Backlog' = Backlog /\ Generations' = Generations
    BY <1>7 DEF RunBegins, Backlog, Generations
  <2>2. ChannelShape' BY <1>7, <2>1 DEF ChannelShape, RunBegins, Starting
  <2>3. RunShape' BY <1>7, <2>1 DEF RunShape, RunBegins
  <2>4. GaplessFanOut' BY <1>2, <1>3, <1>7, NothingDelivered DEF RunBegins
  <2> QED BY <1>1, <2>2, <2>3, <2>4
<1> QED BY <1>4, <1>5, <1>6, <1>7

\* An answer fills a reply channel and empties none.
LEMMA RepliesGrow ==
    ASSUME CallType, NEW c \in Clients, NEW r
    PROVE  Append(replies[c], r) # <<>>
BY DEF CallType

LEMMA RequestFan ==
    ASSUME BoxInv, FanOut, BoxInv',
           \/ \E c \in Clients : handleJoin(c) \/ handleCancelJoin(c) \/ handleLeave(c)
           \/ \E s \in Stoppers : handleStop(s)
           \/ \E k \in Closers : handleClose(k)
    PROVE  FanOut'
<1> USE DEF BoxInv
<1>0. CallType BY DEF TypeOK
<1>1. ASSUME NEW c \in Clients, handleJoin(c) PROVE FanOut'
  <2>1. replies[c] = <<>> BY <1>1 DEF handleJoin, Callers, AnswerShape
  <2>2. \A d \in Clients : replies'[d] = <<>> => replies[d] = <<>>
    BY <1>0, <1>1, <2>1, RepliesGrow DEF handleJoin, joinOutcome, reply, rejectDuplicate
  <2>3. active' \subseteq active \cup {d \in Clients : replies[d] = <<>>}
    BY <1>1, <2>1 DEF handleJoin, joinOutcome
  <2>4. WorkersKept \/ Restarted
    BY <1>1 DEF handleJoin, joinOutcome, startGeneration, WorkersKept, Restarted
  <2> QED BY <1>1, <2>2, <2>3, <2>4, HandlerFan DEF handleJoin
<1>2. ASSUME NEW c \in Clients, handleCancelJoin(c) PROVE FanOut'
  <2>1. \A d \in Clients : replies'[d] = <<>> => replies[d] = <<>>
    BY <1>0, <1>2, RepliesGrow DEF handleCancelJoin, reply
  <2>2. active' \subseteq active BY <1>2 DEF handleCancelJoin
  <2>3. WorkersKept
    BY <1>2 DEF handleCancelJoin, beginStoppingIf, beginStopping, WorkersKept
  <2> QED BY <1>2, <2>1, <2>2, <2>3, HandlerFan DEF handleCancelJoin
<1>3. ASSUME NEW c \in Clients, handleLeave(c) PROVE FanOut'
  <2>1. active' \subseteq active BY <1>3 DEF handleLeave
  <2>2. WorkersKept
    BY <1>3 DEF handleLeave, beginStoppingIf, beginStopping, WorkersKept
  <2> QED BY <1>3, <2>1, <2>2, HandlerFan DEF handleLeave
<1>4. ASSUME NEW s \in Stoppers, handleStop(s) PROVE FanOut'
  <2>1. WorkersKept
    BY <1>4 DEF handleStop, beginStoppingIf, beginStopping, WorkersKept
  <2> QED BY <1>4, <2>1, HandlerFan DEF handleStop
<1>5. ASSUME NEW k \in Closers, handleClose(k) PROVE FanOut'
  <2>1. \A d \in Clients : replies'[d] = <<>> => replies[d] = <<>>
    BY <1>0, <1>5, RepliesGrow DEF handleClose, reply
  <2>2. active' \subseteq active BY <1>5 DEF handleClose
  <2>3. WorkersKept BY <1>5 DEF handleClose, WorkersKept
  <2> QED BY <1>5, <2>1, <2>2, <2>3, HandlerFan DEF handleClose
<1> QED BY <1>1, <1>2, <1>3, <1>4, <1>5

\* What a worker that ends leaves behind, also when another is started.
LEMMA EndFan ==
    ASSUME TypeOK, NEW g \in Generations, g = generation,
           NEW w, w = [worker EXCEPT ![g].pc = "returning"],
           \/ restartOrIdle(w)
           \/ worker' = w /\ generation' = generation /\ state' # "running"
    PROVE  Restarted \/ WorkerMoved
<1>1. worker \in [Generations -> Worker] BY DEF TypeOK, WorkerType
<1>2. w[generation].pc = "returning" BY <1>1 DEF Worker
<1>3. CASE worker' = w /\ generation' = generation /\ state' # "running"
  BY <1>2, <1>3 DEF WorkerMoved, Starting
<1>4. CASE restartOrIdle(w)
  BY <1>2, <1>4 DEF restartOrIdle, startGeneration, Restarted, WorkerMoved, Starting
<1> QED BY <1>3, <1>4

LEMMA WorkerEventFan ==
    ASSUME BoxInv, FanOut, BoxInv', NEW g \in Generations,
           handleStartResult(g) \/ handleWorkerStopped(g)
    PROVE  FanOut'
<1> USE DEF BoxInv
<1>0. CallType /\ worker \in [Generations -> Worker] BY DEF TypeOK, WorkerType
<1>1. g = generation /\ workerCancel /\ worker[g].pc \in {"startOk", "startFailed", "stopped"}
  <2>1. worker[g].pc \in {"startOk", "startFailed", "stopped"}
    BY DEF handleStartResult, handleWorkerStopped
  <2>2. Alive(g) BY <2>1 DEF Alive
  <2> QED BY <2>1, <2>2, Current DEF Lifecycle
<1>2. UNCHANGED <<messageCh, sent, messages, received>>
  BY DEF handleStartResult, handleWorkerStopped
<1>3. CASE handleStartResult(g) /\ worker[g].pc = "startFailed"
  <2>1. handleStartFailure(g) BY <1>1, <1>3 DEF handleStartResult
  <2>2. \A d \in Clients : replies'[d] = <<>> => replies[d] = <<>>
    BY <1>0, <2>1, RepliesGrow DEF handleStartFailure, failPending, reply
  <2>3. active' \subseteq active BY <2>1 DEF handleStartFailure
  <2>4. state # "running" BY <1>1, <1>3, RunningWorker
  <2>5. Restarted \/ WorkerMoved
    BY <1>1, <2>1, <2>4, EndFan DEF handleStartFailure
  <2> QED BY <1>2, <2>2, <2>3, <2>5, HandlerFan
<1>4. CASE handleStartResult(g) /\ worker[g].pc # "startFailed"
  <2>1. handleStartSuccess(g) /\ worker[g].pc = "startOk"
    BY <1>1, <1>4 DEF handleStartResult
  <2>2. state # "running" /\ Backlog = {}
    BY <1>1, <2>1, RunningWorker DEF FanOut, ChannelShape, Starting
  <2>3. \A d \in Clients : replies'[d] = <<>> => replies[d] = <<>>
    BY <1>0, <2>1, RepliesGrow DEF handleStartSuccess
  <2>4. active' \subseteq active \cup {d \in Clients : replies[d] = <<>>}
    BY <2>1 DEF handleStartSuccess, Callers, AnswerShape, TypeOK, DispatcherType
  <2>5. WorkerMoved \/ RunBegins
    <3>1. \A activate : activation(g, activate) =>
             worker'[g].pc = IF activate THEN "next" ELSE "unsubscribe"
      BY <1>0 DEF activation, Worker
    <3>2. CASE state = "starting" /\ pending \ expired # {}
      BY <1>1, <2>1, <2>2, <3>1, <3>2 DEF handleStartSuccess, RunBegins
    <3>3. CASE ~(state = "starting" /\ pending \ expired # {})
      BY <1>1, <2>1, <2>2, <3>1, <3>3
         DEF handleStartSuccess, beginStopping, WorkerMoved, Starting
    <3> QED BY <3>2, <3>3
  <2> QED BY <1>2, <2>3, <2>4, <2>5, HandlerFan
<1>5. CASE handleWorkerStopped(g)
  <2>1. workerStoppedOutcome(g) BY <1>1, <1>5 DEF handleWorkerStopped
  <2>2. active' \subseteq active /\ replies' = replies
    BY <2>1 DEF workerStoppedOutcome
  <2>3. Restarted \/ WorkerMoved
    BY <1>1, <2>1, EndFan DEF workerStoppedOutcome
  <2> QED BY <1>2, <2>2, <2>3, HandlerFan
<1> QED BY <1>3, <1>4, <1>5

\* The frame of a worker's step.
LEMMA WorkerFrame ==
    ASSUME NEW g \in Generations, workerNext(g)
    PROVE  UNCHANGED <<generation, state, active, replies, messages, received>>
BY DEF workerNext, workerStep, subscribe, nextMessage, nextMalformed, nextFails,
       nextCancelled, push, unsubscribe, workerDone

\* A step of a worker that pushes nothing.
LEMMA ReadFan ==
    ASSUME BoxInv, FanOut, BoxInv', NEW g \in Generations, workerNext(g), ~push(g)
    PROVE  FanOut'
<1> USE DEF BoxInv, FanOut
<1>0. worker \in [Generations -> Worker] BY DEF TypeOK, WorkerType
<1>1. UNCHANGED <<generation, state, active, replies, messages, received, messageCh>>
  BY WorkerFrame
     DEF workerNext, workerStep, subscribe, nextMessage, nextMalformed, nextFails,
         nextCancelled, unsubscribe, workerDone
<1>2. Backlog' = Backlog /\ Generations' = Generations
  BY <1>1 DEF Backlog, Generations
<1>3. FreshLogs' BY <1>1 DEF FreshLogs
<1>4. ASSUME generation \in Generations, worker'[generation].pc \in Starting
      PROVE  worker[generation].pc \in Starting
  BY <1>0, <1>4 DEF workerNext, workerStep, subscribe, nextMessage, nextMalformed,
     nextFails, nextCancelled, unsubscribe, workerDone, Starting, Worker
<1>5. ChannelShape' BY <1>1, <1>2, <1>4 DEF ChannelShape
<1>6. ASSUME state = "running"
      PROVE  /\ Upcoming' = Upcoming
             /\ worker'[generation].pc = "push" => worker'[generation].capsule = sent'
  <2>1. /\ generation \in Generations /\ generation \notin cancelled
        /\ worker[generation].pc \in {"next", "push", "unsubscribe", "stopped"}
    BY <1>6, RunningWorker
  <2>2. worker[generation].pc = "push" => worker[generation].capsule = sent
    BY <1>6 DEF RunShape
  <2>3. CASE g # generation
    <3>1. worker'[generation] = worker[generation]
      BY <1>0, <2>1, <2>3 DEF workerNext, workerStep, subscribe, nextMessage,
         nextMalformed, nextFails, nextCancelled, unsubscribe, workerDone
    <3>2. sent' = sent
      <4>1. worker[g].pc # "next"
        <5>1. Alive(g) => g = generation BY DEF Lifecycle, OneWorker
        <5> QED BY <2>3, <5>1 DEF Alive
      <4> QED BY <4>1 DEF workerNext, workerStep, subscribe, nextMessage,
         nextMalformed, nextFails, nextCancelled, unsubscribe, workerDone
    <3> QED BY <1>1, <2>2, <3>1, <3>2 DEF Upcoming
  <2>4. CASE g = generation /\ nextMessage(g)
    <3>1. /\ worker[generation].pc = "next" /\ sent' = sent + 1
          /\ worker'[generation].pc = "push" /\ worker'[generation].capsule = sent + 1
      BY <1>0, <2>4 DEF nextMessage, Worker
    <3> QED BY <1>1, <3>1 DEF Upcoming
  <2>5. CASE g = generation /\ ~nextMessage(g)
    <3>1. /\ worker[generation].pc # "push" /\ sent' = sent
          /\ worker'[generation].pc # "push"
      BY <1>0, <2>1, <2>5 DEF workerNext, workerStep, subscribe, nextMalformed,
         nextFails, nextCancelled, unsubscribe, workerDone, Worker
    <3> QED BY <1>1, <3>1 DEF Upcoming
  <2> QED BY <2>3, <2>4, <2>5
<1>7. RunShape' BY <1>1, <1>2, <1>6 DEF RunShape
<1>8. active # {} => NextCapsule' = NextCapsule
  <2>1. active # {} => Upcoming' = Upcoming BY <1>6, ServesRunning DEF Lifecycle
  <2> QED BY <1>1, <1>2, <2>1 DEF NextCapsule
<1>9. GaplessFanOut'
  <2>1. \A c \in Clients : Delivered(c)' = Delivered(c) BY <1>1 DEF Delivered
  <2> QED BY <1>1, <1>8, <2>1, NothingDelivered
<1> QED BY <1>3, <1>5, <1>7, <1>9

\* The current generation's worker pushes what it holds, or a cancelled one
\* drops it.
LEMMA PushFan ==
    ASSUME BoxInv, FanOut, BoxInv', NEW g \in Generations, push(g)
    PROVE  FanOut'
<1> USE DEF BoxInv, FanOut
<1>0. worker \in [Generations -> Worker] /\ messageCh \in Seq(Message)
  BY DEF TypeOK, WorkerType, StreamType
<1>1. UNCHANGED <<generation, state, active, replies, messages, received, sent>>
  BY WorkerFrame DEF workerNext, push, workerStep
<1>2. g = generation /\ worker[g].pc = "push" /\ worker'[g].pc \in {"next", "unsubscribe"}
  <2>1. worker[g].pc = "push" /\ worker'[g].pc \in {"next", "unsubscribe"}
    BY <1>0 DEF push, workerStep, Worker
  <2>2. Alive(g) BY <2>1 DEF Alive
  <2> QED BY <2>1, <2>2, Current DEF Lifecycle
<1>3. FreshLogs' BY <1>1 DEF FreshLogs
<1>4. \A c \in Clients : Delivered(c)' = Delivered(c) BY <1>1 DEF Delivered
<1>5. Generations' = Generations BY <1>1 DEF Generations
<1>6. CASE messageCh' = messageCh /\ g \in cancelled
  <2>1. Backlog' = Backlog BY <1>1, <1>6 DEF Backlog
  <2>2. ChannelShape' BY <1>1, <1>2, <1>5, <1>6, <2>1 DEF ChannelShape, Starting
  <2>3. state # "running" BY <1>2, <1>6, RunningWorker
  <2>4. active = {} BY <2>3, ServesRunning DEF Lifecycle
  <2>5. RunShape' BY <1>1, <2>3 DEF RunShape
  <2>6. GaplessFanOut' BY <1>1, <1>4, <2>4, NothingDelivered
  <2> QED BY <1>3, <2>2, <2>5, <2>6
<1>7. CASE messageCh' # messageCh \/ g \notin cancelled
  <2> DEFINE m == [gen |-> g, capsule |-> worker[g].capsule]
             n == Len(messageCh)
  <2>1. messageCh' = Append(messageCh, m) BY <1>7 DEF push
  <2>2. m.gen = generation /\ m.capsule = worker[generation].capsule /\ n \in Nat
    BY <1>0, <1>2
  <2>3. /\ Len(messageCh') = n + 1 /\ messageCh'[n + 1] = m
        /\ \A i \in 1..n : messageCh'[i] = messageCh[i]
    <3>1. m \in Message BY <1>0 DEF Message, Worker, Generations
    <3> QED BY <1>0, <2>1, <3>1
  <2> HIDE DEF m, n
  <2>4. PICK k \in 0..n : Backlog = (k + 1)..n BY DEF ChannelShape, n
  <2>5. Backlog' = (k + 1)..(n + 1)
    <3>1. Backlog' = {i \in 1..(n + 1) : messageCh'[i].gen = generation}
      BY <1>1, <2>3 DEF Backlog
    <3>2. \A i \in 1..n : i \in Backlog <=> messageCh[i].gen = generation
      BY DEF Backlog, n
    <3>3. \A i \in 1..(n + 1) : messageCh'[i].gen = generation <=> i \in (k + 1)..(n + 1)
      BY <2>2, <2>3, <2>4, <3>2
    <3> QED BY <2>2, <3>1, <3>3
  <2>6. ChannelShape'
    <3>1. \A i \in 1..(n + 1) : messageCh'[i].gen \in Generations
      <4>1. \A i \in 1..n : messageCh[i].gen \in Generations BY DEF ChannelShape, n
      <4> QED BY <1>2, <2>2, <2>3, <4>1
    <3>2. k \in 0..(n + 1) BY <2>2
    <3>3. worker'[generation'].pc \notin Starting BY <1>1, <1>2 DEF Starting
    <3> QED BY <1>5, <2>3, <2>5, <3>1, <3>2, <3>3 DEF ChannelShape
  <2>7. ASSUME state = "running"
        PROVE  Upcoming = m.capsule /\ Upcoming' = m.capsule + 1
    <3>1. worker[generation].capsule = sent BY <1>2, <2>7 DEF RunShape
    <3> QED BY <1>1, <1>2, <2>2, <3>1 DEF Upcoming
  <2>8. RunShape'
    <3> SUFFICES ASSUME state = "running" PROVE RunShape' BY <1>1 DEF RunShape
    <3>1. ASSUME NEW i \in (k + 1)..(n + 1), i + 1 \in (k + 1)..(n + 1)
          PROVE  messageCh'[i + 1].capsule = messageCh'[i].capsule + 1
      <4>1. i \in Backlog /\ i \in 1..n BY <2>2, <2>4, <3>1
      <4>2. CASE i = n
        <5>1. messageCh[n].capsule + 1 = Upcoming BY <4>1 DEF RunShape, n
        <5> QED BY <2>2, <2>3, <2>7, <4>1, <4>2, <5>1
      <4>3. CASE i # n
        <5>1. i + 1 \in Backlog /\ i + 1 \in 1..n BY <2>2, <2>4, <4>1, <4>3
        <5>2. messageCh[i + 1].capsule = messageCh[i].capsule + 1
          BY <4>1, <5>1 DEF RunShape
        <5> QED BY <2>3, <4>1, <5>1, <5>2
      <4> QED BY <4>2, <4>3
    <3>2. messageCh'[Len(messageCh')].capsule + 1 = Upcoming' BY <2>3, <2>7
    <3>3. worker'[generation'].pc # "push" BY <1>1, <1>2
    <3> QED BY <2>5, <3>1, <3>2, <3>3 DEF RunShape
  <2>9. active # {} => NextCapsule' = NextCapsule
    <3> SUFFICES ASSUME active # {} PROVE NextCapsule' = NextCapsule OBVIOUS
    <3>0. state = "running" BY ServesRunning DEF Lifecycle
    <3>1. first((k + 1)..(n + 1)) = k + 1 BY <2>2, FirstOfRange
    <3>2. Backlog' # {} BY <2>2, <2>5
    <3>3. NextCapsule' = messageCh'[k + 1].capsule
      BY <2>5, <3>1, <3>2 DEF NextCapsule
    <3>4. CASE k = n
      <4>1. Backlog = {} BY <2>2, <2>4, <3>4
      <4> QED BY <2>3, <2>7, <3>0, <3>3, <3>4, <4>1 DEF NextCapsule
    <3>5. CASE k < n
      <4>1. first((k + 1)..n) = k + 1 BY <2>2, <3>5, FirstOfRange
      <4>2. Backlog # {} /\ k + 1 \in 1..n BY <2>2, <2>4, <3>5
      <4> QED BY <2>3, <2>4, <3>3, <4>1, <4>2 DEF NextCapsule
    <3> QED BY <2>2, <3>4, <3>5
  <2>10. GaplessFanOut' BY <1>1, <1>4, <2>9, NothingDelivered
  <2> QED BY <1>3, <2>6, <2>8, <2>10
<1> QED BY <1>6, <1>7 DEF push

LEMMA ConcatAppend ==
    ASSUME NEW r \in Seq(Message), NEW q \in Seq(Message), NEW x \in Message
    PROVE  r \o Append(q, x) = Append(r \o q, x)
OBVIOUS

LEMMA ConcatMove ==
    ASSUME NEW r \in Seq(Message), NEW q \in Seq(Message), q # <<>>
    PROVE  Append(r, Head(q)) \o Tail(q) = r \o q
OBVIOUS

\* A message that continues a run makes it one longer.
LEMMA RunGrows ==
    ASSUME NEW log \in Seq(Message), RunOfOne(log), NEW m \in Message,
           log # <<>> => /\ m.gen = log[Len(log)].gen
                         /\ m.capsule = log[Len(log)].capsule + 1
    PROVE  /\ RunOfOne(Append(log, m)) /\ Append(log, m) # <<>>
           /\ Append(log, m)[Len(Append(log, m))] = m
<1> DEFINE new == Append(log, m)
<1>1. Len(log) \in Nat /\ Len(new) = Len(log) + 1 /\ new[Len(log) + 1] = m
  OBVIOUS
<1>2. \A i \in 1..Len(log) : new[i] = log[i]
  OBVIOUS
<1>3. log = <<>> <=> Len(log) = 0
  OBVIOUS
<1>4. new # <<>>
  OBVIOUS
<1> HIDE DEF new
<1>5. ASSUME NEW i \in 1..(Len(new) - 1)
      PROVE  new[i + 1].capsule = new[i].capsule + 1 /\ new[i + 1].gen = new[i].gen
  <2>1. CASE i = Len(log) BY <1>1, <1>2, <1>3, <2>1
  <2>2. CASE i < Len(log) BY <1>1, <1>2, <2>2 DEF RunOfOne
  <2> QED BY <1>1, <2>1, <2>2
<1> QED BY <1>1, <1>4, <1>5 DEF RunOfOne, new

\* The message at the head of messageCh, if it counts, is the one that every
\* active subscriber's run waits for, and the next one continues it.
LEMMA HeadIsNext ==
    ASSUME BoxInv, FanOut, handleMessage, isCurrent(Head(messageCh))
    PROVE  /\ Head(messageCh) \in Message
           /\ Head(messageCh).gen = generation
           /\ NextCapsule = Head(messageCh).capsule
           /\ NextCapsule' = Head(messageCh).capsule + 1
           /\ ChannelShape' /\ RunShape'
<1> USE DEF BoxInv, FanOut
<1> DEFINE n == Len(messageCh)
<1>0. messageCh \in Seq(Message) /\ messageCh # <<>> BY DEF handleMessage, TypeOK, StreamType
<1>1. /\ Head(messageCh) = messageCh[1] /\ Head(messageCh) \in Message
      /\ n \in Nat /\ n > 0 /\ Len(Tail(messageCh)) = n - 1
      /\ \A i \in 1..(n - 1) : Tail(messageCh)[i] = messageCh[i + 1]
  BY <1>0
<1>2. /\ messageCh' = Tail(messageCh) /\ UNCHANGED <<generation, worker, sent>>
      /\ state = "running" /\ messageCh[1].gen = generation
  BY <1>1 DEF handleMessage, isCurrent, beginStoppingIf, beginStopping
<1> HIDE DEF n
<1>3. PICK k \in 0..n : Backlog = (k + 1)..n BY DEF ChannelShape, n
<1>4. 1 \in Backlog BY <1>1, <1>2 DEF Backlog, n
<1>5. Backlog = 1..n BY <1>1, <1>3, <1>4
<1>6. Backlog' = 1..(n - 1)
  <2>1. Backlog' = {i \in 1..(n - 1) : messageCh[i + 1].gen = generation}
    BY <1>1, <1>2 DEF Backlog
  <2>2. \A i \in 1..(n - 1) : messageCh[i + 1].gen = generation
    <3>1. \A i \in 1..n : messageCh[i].gen = generation BY <1>5 DEF Backlog
    <3> QED BY <1>1, <3>1
  <2> QED BY <2>1, <2>2
<1>7. Upcoming' = Upcoming BY <1>2 DEF Upcoming
<1>8. /\ \A i \in 1..(n - 1) : messageCh[i + 1].capsule = messageCh[i].capsule + 1
      /\ messageCh[n].capsule + 1 = Upcoming
      /\ worker[generation].pc = "push" => worker[generation].capsule = sent
  <2>1. \A i \in 1..(n - 1) : i \in Backlog /\ i + 1 \in Backlog BY <1>1, <1>5
  <2> QED BY <1>2, <1>4, <2>1 DEF RunShape, n
<1>9. NextCapsule = messageCh[1].capsule
  <2>1. first((0 + 1)..n) = 0 + 1 BY <1>1, FirstOfRange
  <2>2. first(1..n) = 1 BY <2>1
  <2> QED BY <1>4, <1>5, <2>2 DEF NextCapsule
<1>10. NextCapsule' = messageCh[1].capsule + 1
  <2>1. CASE n = 1 BY <1>6, <1>7, <1>8, <2>1 DEF NextCapsule
  <2>2. CASE n > 1
    <3>1. first((0 + 1)..(n - 1)) = 0 + 1 BY <1>1, <2>2, FirstOfRange
    <3>2. first(1..(n - 1)) = 1 /\ 1 \in 1..(n - 1) BY <1>1, <2>2, <3>1
    <3>3. NextCapsule' = messageCh'[1].capsule BY <1>6, <3>2 DEF NextCapsule
    <3> QED BY <1>1, <1>2, <1>8, <3>2, <3>3
  <2> QED BY <1>1, <2>1, <2>2
<1>11. ChannelShape'
  <2>1. Generations' = Generations BY <1>2 DEF Generations
  <2>2. \A i \in 1..(n - 1) : messageCh[i + 1].gen \in Generations
    <3>1. \A i \in 1..n : messageCh[i].gen \in Generations BY DEF ChannelShape, n
    <3> QED BY <1>1, <3>1
  <2>3. Len(messageCh') = n - 1 /\ \A i \in 1..(n - 1) : messageCh'[i] = messageCh[i + 1]
    BY <1>1, <1>2
  <2>4. worker'[generation'].pc \notin Starting BY <1>2, RunningWorker DEF Starting
  <2>5. 0 \in 0..(n - 1) /\ (0 + 1)..(n - 1) = 1..(n - 1) BY <1>1
  <2> QED BY <1>6, <2>1, <2>2, <2>3, <2>4, <2>5 DEF ChannelShape
<1>12. RunShape'
  <2>1. Len(messageCh') = n - 1 /\ \A i \in 1..(n - 1) : messageCh'[i] = messageCh[i + 1]
    BY <1>1, <1>2
  <2>2. \A i \in 1..(n - 1) : i + 1 \in 1..(n - 1) =>
           messageCh'[i + 1].capsule = messageCh'[i].capsule + 1
    BY <1>1, <1>8, <2>1
  <2>3. Backlog' # {} => messageCh'[n - 1] = messageCh[n]
    <3>1. Backlog' # {} => n - 1 \in 1..(n - 1) BY <1>1, <1>6
    <3> QED BY <1>1, <2>1, <3>1
  <2> QED BY <1>2, <1>6, <1>7, <1>8, <2>1, <2>2, <2>3 DEF RunShape
<1> QED BY <1>1, <1>2, <1>9, <1>10, <1>11, <1>12

\* Whom a message that counts goes to.
LEMMA MessageGoesTo ==
    ASSUME TypeOK, handleMessage, isCurrent(Head(messageCh)), NEW c \in Clients
    PROVE  Delivered(c)' = IF c \in active \ evicted
                           THEN Append(Delivered(c), Head(messageCh)) ELSE Delivered(c)
<1>1. /\ Head(messageCh) \in Message /\ received[c] \in Seq(Message)
      /\ messages[c] \in Seq(Message)
  BY DEF handleMessage, TypeOK, StreamType
<1>2. c \in active \ evicted <=> c \in active /\ hasRoom(c) BY DEF evicted
<1>3. /\ received' = received
      /\ messages'[c] = IF c \in active /\ hasRoom(c)
                        THEN Append(messages[c], Head(messageCh)) ELSE messages[c]
  BY DEF handleMessage
<1>4. received[c] \o Append(messages[c], Head(messageCh))
         = Append(received[c] \o messages[c], Head(messageCh))
  BY <1>1, ConcatAppend
<1> QED BY <1>2, <1>3, <1>4 DEF Delivered

\* A message of an earlier generation, or to a box that does not run.
LEMMA StaleFan ==
    ASSUME BoxInv, FanOut, BoxInv', handleMessage, ~isCurrent(Head(messageCh))
    PROVE  FanOut'
<1> USE DEF BoxInv, FanOut
<1> DEFINE n == Len(messageCh)
<1>0. messageCh \in Seq(Message) /\ messageCh # <<>> BY DEF handleMessage, TypeOK, StreamType
<1>1. /\ Head(messageCh) = messageCh[1]
      /\ n \in Nat /\ n > 0 /\ Len(Tail(messageCh)) = n - 1
      /\ \A i \in 1..(n - 1) : Tail(messageCh)[i] = messageCh[i + 1]
  BY <1>0
<1>2. /\ messageCh' = Tail(messageCh)
      /\ UNCHANGED <<generation, worker, sent, state, active, replies, messages, received>>
      /\ state # "running" \/ messageCh[1].gen # generation
  BY <1>1 DEF handleMessage, isCurrent
<1> HIDE DEF n
<1>3. Len(messageCh') = n - 1 /\ \A i \in 1..(n - 1) : messageCh'[i] = messageCh[i + 1]
  BY <1>1, <1>2
<1>4. PICK k \in 0..n : Backlog = (k + 1)..n BY DEF ChannelShape, n
<1>5. \A i \in 1..n : messageCh[i].gen = generation <=> i \in (k + 1)..n
  BY <1>4 DEF Backlog, n
<1>6. PICK l \in 0..(n - 1) : l = IF k = 0 THEN 0 ELSE k - 1
  BY <1>1
<1>7. Backlog' = (l + 1)..(n - 1)
  <2>1. Backlog' = {i \in 1..(n - 1) : messageCh[i + 1].gen = generation}
    BY <1>2, <1>3 DEF Backlog
  <2>2. \A i \in 1..(n - 1) : messageCh[i + 1].gen = generation <=> i \in (l + 1)..(n - 1)
    BY <1>1, <1>5, <1>6
  <2> QED BY <1>1, <1>6, <2>1, <2>2
<1>8. ChannelShape'
  <2>1. Generations' = Generations BY <1>2 DEF Generations
  <2>2. \A i \in 1..(n - 1) : messageCh'[i].gen \in Generations
    <3>1. \A i \in 1..n : messageCh[i].gen \in Generations BY DEF ChannelShape, n
    <3> QED BY <1>1, <1>3, <3>1
  <2>3. Backlog = {} => Backlog' = {}
    <3>1. Backlog = {} => k = n BY <1>1, <1>4
    <3> QED BY <1>1, <1>6, <1>7, <3>1
  <2> QED BY <1>2, <1>3, <1>6, <1>7, <2>1, <2>2, <2>3 DEF ChannelShape
<1>9. Upcoming' = Upcoming BY <1>2 DEF Upcoming
<1>10. ASSUME state = "running" PROVE k > 0 /\ l = k - 1
  <2>1. 1 \notin (k + 1)..n BY <1>1, <1>2, <1>5, <1>10
  <2> QED BY <1>1, <1>6, <2>1
<1>11. RunShape'
  <2> SUFFICES ASSUME state = "running" PROVE RunShape' BY <1>2 DEF RunShape
  <2>1. ASSUME NEW i \in Backlog', i + 1 \in Backlog'
        PROVE  messageCh'[i + 1].capsule = messageCh'[i].capsule + 1
    <3>1. /\ i \in 1..(n - 1) /\ i + 1 \in 1..(n - 1) /\ i + 1 \in Backlog
          /\ (i + 1) + 1 \in Backlog
      BY <1>1, <1>4, <1>7, <1>10, <2>1
    <3> QED BY <1>3, <3>1 DEF RunShape
  <2>2. ASSUME Backlog' # {} PROVE messageCh'[n - 1].capsule + 1 = Upcoming
    <3>1. n - 1 \in 1..(n - 1) /\ n \in Backlog BY <1>1, <1>4, <1>7, <1>10, <2>2
    <3>2. messageCh'[n - 1] = messageCh[n] BY <1>1, <1>3, <3>1
    <3> QED BY <3>1, <3>2 DEF RunShape, n
  <2>3. worker'[generation'].pc = "push" => worker'[generation'].capsule = sent'
    BY <1>2 DEF RunShape
  <2> QED BY <1>3, <1>9, <2>1, <2>2, <2>3 DEF RunShape
<1>12. active # {} => NextCapsule' = NextCapsule
  <2> SUFFICES ASSUME active # {} PROVE NextCapsule' = NextCapsule OBVIOUS
  <2>1. k > 0 /\ l = k - 1 BY <1>10, ServesRunning DEF Lifecycle
  <2>2. CASE k = n
    <3>1. Backlog = {} /\ Backlog' = {} BY <1>1, <1>4, <1>7, <2>1, <2>2
    <3> QED BY <1>9, <3>1 DEF NextCapsule
  <2>3. CASE k < n
    <3>1. k \in Nat /\ l \in Nat /\ n - 1 \in Nat /\ l < n - 1
      BY <1>1, <2>1, <2>3
    <3>2. first((k + 1)..n) = k + 1 BY <1>1, <2>3, <3>1, FirstOfRange
    <3>3. first((l + 1)..(n - 1)) = l + 1 BY <3>1, FirstOfRange
    <3>4. k + 1 \in Backlog BY <1>1, <1>4, <2>3, <3>1
    <3>5. l + 1 \in Backlog' /\ l + 1 \in 1..(n - 1) /\ (l + 1) + 1 = k + 1
      BY <1>1, <1>7, <2>1, <3>1
    <3>6. NextCapsule = messageCh[k + 1].capsule BY <1>4, <3>2, <3>4 DEF NextCapsule
    <3>7. NextCapsule' = messageCh'[l + 1].capsule BY <1>7, <3>3, <3>5 DEF NextCapsule
    <3> QED BY <1>3, <3>5, <3>6, <3>7
  <2> QED BY <1>1, <2>2, <2>3
<1>13. GaplessFanOut'
  <2>1. \A c \in Clients : Delivered(c)' = Delivered(c) BY <1>2 DEF Delivered
  <2> QED BY <1>2, <1>12, <2>1, NothingDelivered
<1>14. FreshLogs' BY <1>2 DEF FreshLogs
<1> QED BY <1>8, <1>11, <1>13, <1>14

LEMMA LogType ==
    ASSUME TypeOK, NEW c \in Clients
    PROVE  Delivered(c) \in Seq(Message)
<1>1. received[c] \in Seq(Message) /\ messages[c] \in Seq(Message)
  BY DEF TypeOK, StreamType
<1> QED BY <1>1 DEF Delivered

\* A message that counts reaches every active subscriber or ends it.
LEMMA CurrentFan ==
    ASSUME BoxInv, FanOut, BoxInv', handleMessage, isCurrent(Head(messageCh))
    PROVE  FanOut'
<1> USE DEF BoxInv, FanOut
<1> DEFINE m == Head(messageCh)
<1>1. /\ m \in Message /\ m.gen = generation /\ NextCapsule = m.capsule
      /\ NextCapsule' = m.capsule + 1 /\ ChannelShape' /\ RunShape'
  BY HeadIsNext
<1>2. /\ UNCHANGED <<generation, replies, received>> /\ active' = active \ evicted
  BY DEF handleMessage, beginStoppingIf, beginStopping
<1>3. \A c \in Clients : Delivered(c)' = IF c \in active \ evicted
                                         THEN Append(Delivered(c), m) ELSE Delivered(c)
  BY MessageGoesTo
<1>4. FreshLogs'
  <2> SUFFICES ASSUME NEW c \in Clients, replies[c] = <<>>
               PROVE  messages'[c] = <<>> /\ received'[c] = <<>>
    BY <1>2 DEF FreshLogs
  <2>1. c \notin active
    <3>1. <<"ok">> # <<>> BY OneAnswer
    <3> QED BY <3>1 DEF Callers, AnswerShape
  <2>2. messages'[c] = messages[c] BY <2>1 DEF handleMessage
  <2> QED BY <1>2, <2>2 DEF FreshLogs
<1> HIDE DEF m
<1>5. ASSUME NEW c \in Clients
      PROVE  RunOfOne(Delivered(c)') /\ (c \in active' => UpToDate(Delivered(c))')
  <2>1. /\ RunOfOne(Delivered(c)) /\ (c \in active => UpToDate(Delivered(c)))
        /\ Delivered(c) \in Seq(Message)
    BY GaplessByOne, LogType
  <2>2. CASE c \in active \ evicted
    <3>1. Delivered(c) # <<>> =>
             /\ m.gen = Delivered(c)[Len(Delivered(c))].gen
             /\ m.capsule = Delivered(c)[Len(Delivered(c))].capsule + 1
      BY <1>1, <2>1, <2>2 DEF UpToDate
    <3>2. /\ RunOfOne(Append(Delivered(c), m))
          /\ Append(Delivered(c), m)[Len(Append(Delivered(c), m))] = m
      BY <1>1, <2>1, <3>1, RunGrows
    <3>3. Delivered(c)' = Append(Delivered(c), m) BY <1>3, <2>2
    <3>4. UpToDate(Delivered(c))' BY <1>1, <1>2, <3>2, <3>3 DEF UpToDate
    <3> QED BY <3>2, <3>3, <3>4
  <2>3. CASE c \notin active \ evicted BY <1>2, <1>3, <2>1, <2>3
  <2> QED BY <2>2, <2>3
<1>6. GaplessFanOut' BY <1>5 DEF GaplessFanOut, RunOfOne, UpToDate
<1> QED BY <1>1, <1>4, <1>6

\* The owner of a subscriber takes a message from its queue.
LEMMA ReceiveKeepsLog ==
    ASSUME TypeOK, NEW d \in Clients, receive(d), NEW c \in Clients
    PROVE  Delivered(c)' = Delivered(c)
<1>1. received \in [Clients -> Seq(Message)] /\ messages \in [Clients -> Seq(Message)]
  BY DEF TypeOK, StreamType
<1>2. CASE c = d
  <2>1. /\ received'[c] = Append(received[c], Head(messages[c]))
        /\ messages'[c] = Tail(messages[c]) /\ messages[c] # <<>>
    BY <1>1, <1>2 DEF receive
  <2>2. Append(received[c], Head(messages[c])) \o Tail(messages[c])
           = received[c] \o messages[c]
    BY <1>1, <2>1, ConcatMove
  <2> QED BY <2>1, <2>2 DEF Delivered
<1>3. CASE c # d
  <2>1. received'[c] = received[c] /\ messages'[c] = messages[c]
    BY <1>1, <1>3 DEF receive
  <2> QED BY <2>1 DEF Delivered
<1> QED BY <1>2, <1>3

LEMMA CallerFan ==
    ASSUME BoxInv, FanOut, BoxInv',
           \/ \E c \in Clients : clientStep(c)
           \/ \E s \in Stoppers : stopCall(s) \/ stopBoxOver(s)
           \/ \E k \in Closers : closeCall(k) \/ closeOnceOver(k) \/ closeReturns(k)
           \/ waitWorkers \/ topicClosed \/ UNCHANGED vars
    PROVE  FanOut'
<1> USE DEF BoxInv, FanOut
<1>1. UNCHANGED <<dispatcherVars, workerVars, streamVars, replies>>
  BY DEF clientStep, callStep, cancelContext, joinCall, joinGivesUp, joinAbandoned,
     joinBoxOver, joinReplied, cancelJoinOver, receive, leaveCall, leaveBoxOver,
     stopCall, stopBoxOver, closeCall, closeOnceOver, closeReturns, boxStays,
     waitWorkers, topicClosed, vars
<1>2. Backlog' = Backlog /\ Upcoming' = Upcoming /\ Generations' = Generations
  BY <1>1 DEF Backlog, Upcoming, Generations
<1>3. ChannelShape' BY <1>1, <1>2 DEF ChannelShape
<1>4. RunShape' BY <1>1, <1>2 DEF RunShape
<1>5. NextCapsule' = NextCapsule BY <1>1, <1>2 DEF NextCapsule
<1>6. CASE \E d \in Clients : receive(d)
  <2>1. PICK d \in Clients : receive(d) BY <1>6
  <2>2. \A c \in Clients : Delivered(c)' = Delivered(c) BY <2>1, ReceiveKeepsLog
  <2>3. GaplessFanOut' BY <1>1, <1>5, <2>2, NothingDelivered
  <2>4. FreshLogs'
    <3>1. replies[d] # <<>>
      <4>1. <<"ok">> # <<>> BY OneAnswer
      <4> QED BY <2>1, <4>1 DEF receive, Callers, AnswerShape
    <3>2. \A c \in Clients \ {d} : messages'[c] = messages[c] /\ received'[c] = received[c]
      BY <2>1 DEF receive, TypeOK, StreamType
    <3> QED BY <1>1, <3>1, <3>2 DEF FreshLogs
  <2> QED BY <1>3, <1>4, <2>3, <2>4
<1>7. CASE ~\E d \in Clients : receive(d)
  <2>1. UNCHANGED <<messages, received>>
    BY <1>7 DEF clientStep, callStep, cancelContext, joinCall, joinGivesUp, joinAbandoned,
       joinBoxOver, joinReplied, cancelJoinOver, leaveCall, leaveBoxOver,
       stopCall, stopBoxOver, closeCall, closeOnceOver, closeReturns, boxStays,
       waitWorkers, topicClosed, vars
  <2>2. \A c \in Clients : Delivered(c)' = Delivered(c) BY <2>1 DEF Delivered
  <2>3. GaplessFanOut' BY <1>1, <1>5, <2>2, NothingDelivered
  <2>4. FreshLogs' BY <1>1, <2>1 DEF FreshLogs
  <2> QED BY <1>3, <1>4, <2>3, <2>4
<1> QED BY <1>6, <1>7

LEMMA InitFan == Init => FanOut
<1> SUFFICES ASSUME Init PROVE FanOut OBVIOUS
<1>1. Len(messageCh) = 0 /\ Backlog = {} BY DEF Init, Backlog
<1>2. 0 \in 0..0 /\ (0 + 1)..0 = {} /\ 1..0 = {} OBVIOUS
<1>3. ChannelShape BY <1>1, <1>2 DEF ChannelShape
<1>4. RunShape /\ FreshLogs BY DEF Init, RunShape, FreshLogs
<1>5. \A c \in Clients : Delivered(c) = <<>> BY EmptyConcat DEF Init, Delivered
<1>6. GaplessFanOut BY <1>5 DEF GaplessFanOut, Init
<1> QED BY <1>3, <1>4, <1>6 DEF FanOut

LEMMA StepFan == BoxInv /\ FanOut /\ BoxInv' /\ [Next]_vars => FanOut'
<1> SUFFICES ASSUME BoxInv, FanOut, BoxInv', [Next]_vars PROVE FanOut'
  OBVIOUS
<1>1. ASSUME NEW g \in Generations, workerNext(g) PROVE FanOut'
  BY <1>1, ReadFan, PushFan
<1>2. CASE handleMessage BY <1>2, StaleFan, CurrentFan
<1>3. CASE UNCHANGED vars BY <1>3, CallerFan
<1>4. CASE Next
  BY <1>1, <1>2, <1>4, RequestFan, WorkerEventFan, CallerFan DEF Next, runDispatcher
<1> QED BY <1>3, <1>4

LEMMA TypedFan == Spec => [](BoxInv /\ FanOut)
<1>1. Init => FanOut BY InitFan
<1>2. BoxInv <=> TypeOK /\ Lifecycle /\ Callers BY DEF BoxInv
<1> QED BY <1>1, <1>2, StepFan, TypedCallers, PTL DEF Spec

(***************************************************************************)
(* Every subscriber gets a run of consecutive capsules of one generation,  *)
(* and an active one misses nothing that the generation still hands over   *)
(* (box.go:410-431).                                                       *)
(***************************************************************************)
THEOREM FanOutHasNoGaps == Spec => []GaplessFanOut
<1>1. BoxInv /\ FanOut => GaplessFanOut BY DEF FanOut
<1> QED BY <1>1, TypedFan, PTL

-----------------------------------------------------------------------------
(***************************************************************************)
(* Refinement of TopicGroup.                                               *)
(***************************************************************************)
\* Nobody is stopped before its request is sent, and a request the dispatcher
\* has taken is parked or answered.
RequestShape ==
    \A c \in Clients :
        /\ pc[c] \in {"idle", "send"} => stopped[c] = "no"
        /\ pc[c] = "reply" => c \in pending \/ replies[c] # <<>>

GroupInv == BoxInv /\ FanOut /\ RequestShape

\* The group steps, in terms of the box.
LEMMA GroupStutters ==
    ASSUME \A c \in Clients : phaseOf(c)' = phaseOf(c) /\ Delivered(c)' = Delivered(c),
           boxCancelled' = boxCancelled
    PROVE  [Group!Next]_(Group!vars)
BY DEF Group!vars

LEMMA GroupEnds ==
    ASSUME NEW S \in SUBSET Clients,
           \A c \in Clients : phaseOf(c)' = IF c \in S THEN "gone" ELSE phaseOf(c),
           \A c \in S : phaseOf(c) # "gone",
           \A c \in Clients : Delivered(c)' = Delivered(c), boxCancelled' = boxCancelled
    PROVE  [Group!Next]_(Group!vars)
<1>1. CASE S = {} BY <1>1, GroupStutters
<1>2. CASE S # {}
  <2>1. Group!End(S) BY <1>2 DEF Group!End, Group!Move
  <2> QED BY <2>1 DEF Group!Next
<1> QED BY <1>1, <1>2

LEMMA GroupAsks ==
    ASSUME NEW c \in Clients, phaseOf(c) = "out", ~boxCancelled,
           \A d \in Clients : phaseOf(d)' = IF d = c THEN "asking" ELSE phaseOf(d),
           \A d \in Clients : Delivered(d)' = Delivered(d), boxCancelled' = boxCancelled
    PROVE  [Group!Next]_(Group!vars)
<1>1. Group!Ask(c) BY DEF Group!Ask, Group!Move
<1> QED BY <1>1 DEF Group!Next

LEMMA GroupAdmits ==
    ASSUME NEW In \in SUBSET Clients, NEW Away \in SUBSET Clients, In # {}, ~boxCancelled,
           \A c \in In : phaseOf(c) \in {"out", "asking"},
           \A c \in Away : phaseOf(c) = "asking",
           \A c \in Clients : phaseOf(c)' = IF c \in In THEN "member"
                                            ELSE IF c \in Away THEN "gone" ELSE phaseOf(c),
           \A c \in Clients : Delivered(c)' = Delivered(c), boxCancelled' = boxCancelled
    PROVE  [Group!Next]_(Group!vars)
<1>1. Group!Admit(In, Away) BY DEF Group!Admit
<1> QED BY <1>1 DEF Group!Next

LEMMA GroupCloses ==
    ASSUME ~boxCancelled, boxCancelled' = TRUE,
           \A c \in Clients : phaseOf(c)' = IF phaseOf(c) \in {"asking", "member"}
                                            THEN "gone" ELSE phaseOf(c),
           \A c \in Clients : Delivered(c)' = Delivered(c)
    PROVE  [Group!Next]_(Group!vars)
<1>1. Group!Close BY DEF Group!Close, Group!Move
<1> QED BY <1>1 DEF Group!Next

\* Who is in which phase.
LEMMA Phases ==
    ASSUME BoxInv, NEW c \in Clients
    PROVE  /\ phaseOf(c) = "member" <=> c \in active
           /\ phaseOf(c) = "asking" <=> c \in pending
           /\ phaseOf(c) = "gone" <=> /\ c \notin active \cup pending
                                      /\ stopped[c] # "no" \/ replies[c] # <<>>
<1>1. ~(c \in active /\ c \in pending) BY OneAnswer DEF BoxInv, Callers, AnswerShape
<1> QED BY <1>1 DEF phaseOf

\* Callers whose request and subscriber a step leaves alone keep their phase.
LEMMA PhaseKept ==
    ASSUME NEW c \in Clients, c \in active' <=> c \in active,
           c \in pending' <=> c \in pending,
           stopped'[c] = stopped[c] /\ replies'[c] = replies[c]
    PROVE  phaseOf(c)' = phaseOf(c)
BY DEF phaseOf

LEMMA InitGroup == Init => Group!Init
<1> SUFFICES ASSUME Init PROVE Group!Init OBVIOUS
<1>1. \A c \in Clients : phaseOf(c) = "out" BY DEF Init, phaseOf
<1>2. \A c \in Clients : Delivered(c) = <<>> BY EmptyConcat DEF Init, Delivered
<1> QED BY <1>1, <1>2 DEF Group!Init, Init

LEMMA InitRequest == Init => RequestShape
BY DEF Init, RequestShape

\* The frame of a handler, for the group: it gives no message.
LEMMA HandlerLogs ==
    ASSUME UNCHANGED queueVars, NEW c \in Clients PROVE Delivered(c)' = Delivered(c)
BY DEF Delivered

LEMMA JoinGroup ==
    ASSUME GroupInv, NEW c \in Clients, handleJoin(c)
    PROVE  [Group!Next]_(Group!vars) /\ RequestShape'
<1> USE DEF GroupInv, BoxInv
<1>0. CallType BY DEF TypeOK
<1>1. /\ pc[c] = "send" /\ pc' = [pc EXCEPT ![c] = "reply"]
      /\ UNCHANGED <<boxCancelled, messages, received>>
  BY DEF handleJoin
<1>2. replies[c] = <<>> /\ c \notin active /\ c \notin pending /\ stopped[c] = "no"
  BY <1>1 DEF Callers, AnswerShape, RequestShape
<1>3. \A d \in Clients : pc'[d] = IF d = c THEN "reply" ELSE pc[d]
  BY <1>0, <1>1 DEF CallType
<1>4. \A d \in Clients : Delivered(d)' = Delivered(d) BY <1>1, HandlerLogs
<1>5. phaseOf(c) = "out" BY <1>2 DEF phaseOf
<1>6. state # "closing" => ~boxCancelled BY DEF Lifecycle, TailShape
<1>7. ASSUME NEW r \in Reasons, stop({c}, r), reply({c}, r), UNCHANGED <<active, pending>>
      PROVE  [Group!Next]_(Group!vars) /\ RequestShape'
  <2>1. \A d \in Clients : replies'[d] = IF d = c THEN <<r>> ELSE replies[d]
    BY <1>0, <1>2, <1>7, ReplyOnce
  <2>2. \A d \in Clients : stopped'[d] = IF d = c THEN r ELSE stopped[d]
    BY <1>2, <1>7, StopEach
  <2>3. <<r>> # <<>> BY OneAnswer
  <2>4. RequestShape' BY <1>3, <1>7, <2>1, <2>2, <2>3 DEF RequestShape
  <2>5. \A d \in Clients : phaseOf(d)' = IF d \in {c} THEN "gone" ELSE phaseOf(d)
    BY <1>2, <1>7, <2>1, <2>2, <2>3 DEF phaseOf
  <2>6. [Group!Next]_(Group!vars) BY <1>1, <1>4, <1>5, <2>5, GroupEnds
  <2> QED BY <2>4, <2>6
<1>8. CASE /\ pending' = pending \cup {c} /\ UNCHANGED <<active, stopped, replies>>
           /\ state # "closing"
  <2>1. RequestShape' BY <1>3, <1>8 DEF RequestShape
  <2>2. \A d \in Clients : phaseOf(d)' = IF d = c THEN "asking" ELSE phaseOf(d)
    BY <1>2, <1>8 DEF phaseOf
  <2>3. [Group!Next]_(Group!vars) BY <1>1, <1>4, <1>5, <1>6, <1>8, <2>2, GroupAsks
  <2> QED BY <2>1, <2>3
<1>9. CASE /\ active' = active \cup {c} /\ reply({c}, "ok") /\ UNCHANGED <<pending, stopped>>
           /\ state # "closing"
  <2>1. \A d \in Clients : replies'[d] = IF d = c THEN <<"ok">> ELSE replies[d]
    BY <1>0, <1>2, <1>9, ReplyOnce
  <2>2. <<"ok">> # <<>> BY OneAnswer
  <2>3. RequestShape' BY <1>3, <1>9, <2>1, <2>2 DEF RequestShape
  <2>4. \A d \in Clients : phaseOf(d)' = IF d \in {c} THEN "member"
                                         ELSE IF d \in {} THEN "gone" ELSE phaseOf(d)
    BY <1>2, <1>9, <2>1, <2>2 DEF phaseOf
  <2>5. /\ {c} \in SUBSET Clients /\ {} \in SUBSET Clients /\ {c} # {} /\ ~boxCancelled
        /\ \A d \in {c} : phaseOf(d) \in {"out", "asking"}
        /\ \A d \in {} : phaseOf(d) = "asking"
    BY <1>5, <1>6, <1>9
  <2>6. boxCancelled' = boxCancelled BY <1>1
  <2>7. [Group!Next]_(Group!vars) BY <1>4, <2>4, <2>5, <2>6, GroupAdmits
  <2> QED BY <2>3, <2>7
<1>10. \/ \E r \in Reasons : stop({c}, r) /\ reply({c}, r) /\ UNCHANGED <<active, pending>>
       \/ /\ pending' = pending \cup {c} /\ UNCHANGED <<active, stopped, replies>>
          /\ state # "closing"
       \/ /\ active' = active \cup {c} /\ reply({c}, "ok") /\ UNCHANGED <<pending, stopped>>
          /\ state # "closing"
  BY DEF handleJoin, joinOutcome, rejectDuplicate, Reasons
<1> QED BY <1>7, <1>8, <1>9, <1>10

(***************************************************************************)
(* Members of Gone are stopped and forgotten, requests of Out are refused. *)
(***************************************************************************)
Cuts(Gone, Out, why) ==
    /\ active' = active \ Gone /\ pending' = pending \ Out
    /\ Gone \subseteq active /\ Out \subseteq pending
    /\ \A d \in Clients :
          stopped'[d] = IF d \in Gone \cup Out /\ stopped[d] = "no" THEN why ELSE stopped[d]
    /\ \A d \in Clients :
          IF d \in Out THEN replies'[d] # <<>> ELSE replies'[d] = replies[d]
    /\ UNCHANGED queueVars
    /\ \A d \in Clients : pc'[d] = pc[d] \/ (pc[d] = "leaving" /\ pc'[d] = "left")

LEMMA CutPhases ==
    ASSUME GroupInv, NEW Gone, NEW Out, NEW why, why # "no", Cuts(Gone, Out, why),
           NEW d \in Clients
    PROVE  /\ phaseOf(d)' = IF d \in Gone \cup Out THEN "gone" ELSE phaseOf(d)
           /\ d \in Gone \cup Out => phaseOf(d) \in {"asking", "member"}
           /\ Delivered(d)' = Delivered(d)
<1> USE DEF GroupInv, BoxInv, Cuts
<1>1. Delivered(d)' = Delivered(d) BY HandlerLogs
<1>2. ~(d \in active /\ d \in pending) BY OneAnswer DEF Callers, AnswerShape
<1>3. d \in active => replies[d] # <<>>
  BY OneAnswer DEF Callers, AnswerShape
<1>4. CASE d \in Gone \cup Out BY <1>1, <1>2, <1>3, <1>4 DEF phaseOf
<1>5. CASE d \notin Gone \cup Out
  <2>1. phaseOf(d)' = phaseOf(d) BY <1>5, PhaseKept
  <2> QED BY <1>1, <1>5, <2>1
<1> QED BY <1>4, <1>5

LEMMA CutRequests ==
    ASSUME GroupInv, NEW Gone, NEW Out, NEW why, Cuts(Gone, Out, why)
    PROVE  RequestShape'
<1> USE DEF GroupInv, BoxInv, Cuts
<1> SUFFICES ASSUME NEW d \in Clients
             PROVE  /\ pc'[d] \in {"idle", "send"} => stopped'[d] = "no"
                    /\ pc'[d] = "reply" => d \in pending' \/ replies'[d] # <<>>
  BY DEF RequestShape
<1>1. pc[d] \in {"idle", "send"} => d \notin Gone \cup Out
  BY DEF Callers, AnswerShape
<1> QED BY <1>1 DEF RequestShape

LEMMA CutGroup ==
    ASSUME GroupInv, NEW Gone, NEW Out, NEW why, why # "no", Cuts(Gone, Out, why),
           UNCHANGED boxCancelled
    PROVE  [Group!Next]_(Group!vars) /\ RequestShape'
<1>1. Gone \cup Out \in SUBSET Clients
  BY DEF GroupInv, BoxInv, TypeOK, DispatcherType, Cuts
<1>2. \A d \in Clients :
         /\ phaseOf(d)' = IF d \in Gone \cup Out THEN "gone" ELSE phaseOf(d)
         /\ d \in Gone \cup Out => phaseOf(d) \in {"asking", "member"}
         /\ Delivered(d)' = Delivered(d)
  BY CutPhases
<1>3. \A d \in Gone \cup Out : phaseOf(d) # "gone" BY <1>1, <1>2
<1> QED BY <1>1, <1>2, <1>3, GroupEnds, CutRequests

\* A step that leaves the group and the requests as they are.
LEMMA SameGroup ==
    ASSUME GroupInv,
           UNCHANGED <<active, pending, stopped, replies, boxCancelled, pc, queueVars>>
    PROVE  [Group!Next]_(Group!vars) /\ RequestShape'
<1>1. \A c \in Clients : phaseOf(c)' = phaseOf(c) BY DEF phaseOf
<1>2. \A c \in Clients : Delivered(c)' = Delivered(c) BY DEF Delivered
<1>3. RequestShape' BY DEF GroupInv, RequestShape
<1> QED BY <1>1, <1>2, <1>3, GroupStutters

\* The other requests: a withdrawal, a leave, a stop and a close.
LEMMA RequestGroup ==
    ASSUME GroupInv,
           \/ \E c \in Clients : handleJoin(c) \/ handleCancelJoin(c) \/ handleLeave(c)
           \/ \E s \in Stoppers : handleStop(s)
           \/ \E k \in Closers : handleClose(k)
    PROVE  [Group!Next]_(Group!vars) /\ RequestShape'
<1> USE DEF GroupInv, BoxInv
<1>0. /\ CallType /\ active \subseteq Clients /\ pending \subseteq Clients
      /\ \A d \in pending : replies[d] = <<>>
  BY DEF TypeOK, DispatcherType, Callers, AnswerShape
<1>1. ASSUME NEW c \in Clients, handleCancelJoin(c)
      PROVE  [Group!Next]_(Group!vars) /\ RequestShape'
  <2> DEFINE parked == matches(pending, c)
             joined == matches(active, c)
  <2>1. /\ pending' = pending \ parked /\ active' = active \ joined
        /\ stop(parked \cup joined, "canceled") /\ reply(parked, "canceled")
        /\ UNCHANGED <<pc, queueVars, boxCancelled>>
    BY <1>1 DEF handleCancelJoin
  <2>2. parked \subseteq pending /\ joined \subseteq active BY DEF matches
  <2> HIDE DEF parked, joined
  <2>3. \A d \in Clients :
           replies'[d] = IF d \in parked THEN <<"canceled">> ELSE replies[d]
    BY <1>0, <2>1, <2>2, ReplyOnce
  <2>4. \A d \in Clients :
           stopped'[d] = IF d \in joined \cup parked /\ stopped[d] = "no"
                         THEN "canceled" ELSE stopped[d]
    BY <2>1, StopEach
  <2>5. <<"canceled">> # <<>> BY OneAnswer
  <2>6. Cuts(joined, parked, "canceled")
    BY <2>1, <2>2, <2>3, <2>4, <2>5 DEF Cuts
  <2> QED BY <2>1, <2>6, CutGroup
<1>2. ASSUME NEW c \in Clients, handleLeave(c)
      PROVE  [Group!Next]_(Group!vars) /\ RequestShape'
  <2>1. /\ stop(holder(active, c), "nil") /\ active' = active \ holder(active, c)
        /\ UNCHANGED <<pending, replies, queueVars, boxCancelled>>
        /\ pc[c] = "leaving" /\ pc' = [pc EXCEPT ![c] = "left"]
    BY <1>2 DEF handleLeave
  <2>2. holder(active, c) \subseteq active BY DEF holder
  <2>3. \A d \in Clients :
           stopped'[d] = IF d \in holder(active, c) /\ stopped[d] = "no"
                         THEN "nil" ELSE stopped[d]
    BY <2>1, StopEach
  <2>4. \A d \in Clients : pc'[d] = pc[d] \/ (pc[d] = "leaving" /\ pc'[d] = "left")
    BY <1>0, <2>1 DEF CallType
  <2>5. Cuts(holder(active, c), {}, "nil") BY <2>1, <2>2, <2>3, <2>4 DEF Cuts
  <2> QED BY <2>1, <2>5, CutGroup
<1>3. ASSUME NEW s \in Stoppers, handleStop(s)
      PROVE  [Group!Next]_(Group!vars) /\ RequestShape'
  <2>1. /\ stop(active, "nil") /\ active' = {}
        /\ UNCHANGED <<pending, replies, pc, queueVars, boxCancelled>>
    BY <1>3 DEF handleStop
  <2>2. \A d \in Clients :
           stopped'[d] = IF d \in active /\ stopped[d] = "no" THEN "nil" ELSE stopped[d]
    BY <2>1, StopEach
  <2>3. Cuts(active, {}, "nil") BY <2>1, <2>2 DEF Cuts
  <2> QED BY <2>1, <2>3, CutGroup
<1>4. ASSUME NEW k \in Closers, handleClose(k)
      PROVE  [Group!Next]_(Group!vars) /\ RequestShape'
  <2>1. CASE state = "closing" BY <1>4, <2>1, SameGroup DEF handleClose
  <2>2. CASE state # "closing"
    <3>1. /\ pending' = {} /\ active' = {} /\ reply(pending, "closed")
          /\ stop(pending \cup active, "closed")
          /\ boxCancelled' = TRUE /\ UNCHANGED <<pc, queueVars>>
      BY <1>4, <2>2 DEF handleClose
    <3>2. \A d \in Clients :
             replies'[d] = IF d \in pending THEN <<"closed">> ELSE replies[d]
      BY <1>0, <3>1, ReplyOnce
    <3>3. \A d \in Clients :
             stopped'[d] = IF d \in active \cup pending /\ stopped[d] = "no"
                           THEN "closed" ELSE stopped[d]
      BY <3>1, StopEach
    <3>4. <<"closed">> # <<>> BY OneAnswer
    <3>5. Cuts(active, pending, "closed") BY <3>1, <3>2, <3>3, <3>4 DEF Cuts
    <3>6. ASSUME NEW d \in Clients
          PROVE  /\ phaseOf(d)' = IF phaseOf(d) \in {"asking", "member"}
                                  THEN "gone" ELSE phaseOf(d)
                 /\ Delivered(d)' = Delivered(d)
      <4>1. /\ phaseOf(d)' = IF d \in active \cup pending THEN "gone" ELSE phaseOf(d)
            /\ Delivered(d)' = Delivered(d)
        BY <3>5, CutPhases
      <4>2. d \in active \cup pending <=> phaseOf(d) \in {"asking", "member"} BY Phases
      <4> QED BY <4>1, <4>2
    <3>7. ~boxCancelled BY <2>2 DEF Lifecycle, TailShape
    <3>8. RequestShape' BY <3>5, CutRequests
    <3> QED BY <3>1, <3>6, <3>7, <3>8, GroupCloses
  <2> QED BY <2>1, <2>2
<1> QED BY <1>1, <1>2, <1>3, <1>4, JoinGroup

\* The worker reports how its start went: all who asked are refused, or those
\* whose context lasts are admitted together and the others refused.
LEMMA StartGroup ==
    ASSUME GroupInv, NEW g \in Generations, handleStartResult(g)
    PROVE  [Group!Next]_(Group!vars) /\ RequestShape'
<1> USE DEF GroupInv, BoxInv
<1>0. /\ CallType /\ active \subseteq Clients /\ pending \subseteq Clients
      /\ \A d \in pending : replies[d] = <<>>
  BY DEF TypeOK, DispatcherType, Callers, AnswerShape
<1>1. UNCHANGED <<pc, queueVars, boxCancelled>> BY DEF handleStartResult, callVars
<1>2. g = generation BY Current DEF handleStartResult, Alive, Lifecycle
<1>3. CASE state # "starting"
  <2>1. UNCHANGED <<active, pending, stopped, replies>>
    BY <1>2, <1>3 DEF handleStartResult, handleStartFailure, handleStartSuccess
  <2> QED BY <1>1, <2>1, SameGroup
<1>4. CASE state = "starting" /\ worker[g].pc = "startFailed"
  <2>1. /\ pending' = {} /\ active' = active
        /\ stop(pending, "startError") /\ reply(pending, "startError")
    BY <1>2, <1>4 DEF handleStartResult, handleStartFailure, failPending
  <2>2. \A d \in Clients :
           replies'[d] = IF d \in pending THEN <<"startError">> ELSE replies[d]
    BY <1>0, <2>1, ReplyOnce
  <2>3. \A d \in Clients :
           stopped'[d] = IF d \in pending /\ stopped[d] = "no"
                         THEN "startError" ELSE stopped[d]
    BY <2>1, StopEach
  <2>4. <<"startError">> # <<>> BY OneAnswer
  <2>5. Cuts({}, pending, "startError") BY <1>1, <2>1, <2>2, <2>3, <2>4 DEF Cuts
  <2> QED BY <1>1, <2>5, CutGroup
<1>5. CASE state = "starting" /\ worker[g].pc = "startOk"
  <2>1. /\ pending' = {} /\ active' = active \cup (pending \ expired)
        /\ stop(expired, "canceled")
        /\ replies' = [c \in Clients |->
                         IF c \in expired THEN Append(replies[c], "canceled")
                         ELSE IF c \in pending THEN Append(replies[c], "ok")
                         ELSE replies[c]]
    BY <1>2, <1>5 DEF handleStartResult, handleStartSuccess
  <2>2. expired \subseteq pending BY DEF expired
  <2>3. \A d \in Clients :
           IF d \in pending THEN replies'[d] # <<>> ELSE replies'[d] = replies[d]
    BY <1>0, <2>1, <2>2, OneAnswer
  <2>4. \A d \in Clients :
           stopped'[d] = IF d \in expired /\ stopped[d] = "no"
                         THEN "canceled" ELSE stopped[d]
    BY <2>1, StopEach
  <2>5. RequestShape'
    <3>1. \A d \in Clients : pc[d] \in {"idle", "send"} => d \notin pending
      BY DEF Callers, AnswerShape
    <3> QED BY <1>1, <2>1, <2>2, <2>3, <2>4, <3>1 DEF RequestShape
  <2>6. active = {} /\ ~boxCancelled BY <1>5 DEF Lifecycle, StateShape, TailShape
  <2>7. \A d \in Clients : phaseOf(d)' = IF d \in pending \ expired THEN "member"
                                         ELSE IF d \in expired THEN "gone" ELSE phaseOf(d)
    <3> SUFFICES ASSUME NEW d \in Clients
                 PROVE  phaseOf(d)' = IF d \in pending \ expired THEN "member"
                                      ELSE IF d \in expired THEN "gone" ELSE phaseOf(d)
      OBVIOUS
    <3>1. CASE d \in pending BY <2>1, <2>2, <2>3, <2>6, <3>1 DEF phaseOf
    <3>2. CASE d \notin pending
      <4>1. phaseOf(d)' = phaseOf(d) BY <2>1, <2>2, <2>3, <2>4, <3>2, PhaseKept
      <4> QED BY <2>2, <3>2, <4>1
    <3> QED BY <3>1, <3>2
  <2>8. \A d \in pending : phaseOf(d) = "asking" BY <1>0, Phases
  <2>9. \A d \in Clients : Delivered(d)' = Delivered(d) BY <1>1, HandlerLogs
  <2>10. /\ pending \ expired \in SUBSET Clients /\ expired \in SUBSET Clients
         /\ \A d \in pending \ expired : phaseOf(d) \in {"out", "asking"}
         /\ \A d \in expired : phaseOf(d) = "asking"
    BY <1>0, <2>2, <2>8
  <2>11. boxCancelled' = boxCancelled BY <1>1
  <2>12. CASE pending \ expired = {}
    <3>1. \A d \in Clients : phaseOf(d)' = IF d \in expired THEN "gone" ELSE phaseOf(d)
      BY <2>7, <2>12
    <3>2. \A d \in expired : phaseOf(d) # "gone" BY <2>10
    <3> QED BY <2>5, <2>9, <2>10, <2>11, <3>1, <3>2, GroupEnds
  <2>13. CASE pending \ expired # {}
    BY <2>5, <2>6, <2>7, <2>9, <2>10, <2>11, <2>13, GroupAdmits
  <2> QED BY <2>12, <2>13
<1> QED BY <1>3, <1>4, <1>5 DEF handleStartResult

\* The worker reports its end: whoever is still served is cut off.
LEMMA StoppedGroup ==
    ASSUME GroupInv, NEW g \in Generations, handleWorkerStopped(g)
    PROVE  [Group!Next]_(Group!vars) /\ RequestShape'
<1> USE DEF GroupInv, BoxInv
<1>1. UNCHANGED <<pending, replies, pc, queueVars, boxCancelled>>
  BY DEF handleWorkerStopped, workerStoppedOutcome, callVars
<1>2. CASE g = generation /\ state = "running"
  <2>1. active' = {} /\ stop(active, worker[g].err)
    BY <1>2 DEF handleWorkerStopped, workerStoppedOutcome
  <2>2. worker[g].err # "no" BY DEF TypeOK, WorkerType, Worker
  <2>3. \A d \in Clients :
           stopped'[d] = IF d \in active /\ stopped[d] = "no"
                         THEN worker[g].err ELSE stopped[d]
    BY <2>1, StopEach
  <2>4. Cuts(active, {}, worker[g].err) BY <1>1, <2>1, <2>3 DEF Cuts
  <2> QED BY <1>1, <2>2, <2>4, CutGroup
<1>3. CASE ~(g = generation /\ state = "running")
  <2>1. UNCHANGED <<active, stopped>>
    BY <1>3 DEF handleWorkerStopped, workerStoppedOutcome
  <2> QED BY <1>1, <2>1, SameGroup
<1> QED BY <1>2, <1>3

LEMMA LongerByOne ==
    ASSUME NEW log \in Seq(Message), NEW m \in Message
    PROVE  Append(log, m) # log /\ Append(log, m)[Len(Append(log, m))] = m
<1>1. Len(Append(log, m)) = Len(log) + 1 /\ Len(log) \in Nat
  OBVIOUS
<1>2. Append(log, m)[Len(log) + 1] = m
  OBVIOUS
<1> QED BY <1>1, <1>2

\* A message that counts goes to every member but the slow ones.
LEMMA MessageGroup ==
    ASSUME GroupInv, handleMessage
    PROVE  [Group!Next]_(Group!vars) /\ RequestShape'
<1> USE DEF GroupInv, BoxInv
<1>1. UNCHANGED <<pending, replies, pc, received, boxCancelled>>
  BY DEF handleMessage, callVars, boxVars
<1>2. CASE ~isCurrent(Head(messageCh))
  <2>1. UNCHANGED <<active, stopped, messages>> BY <1>2 DEF handleMessage
  <2> QED BY <1>1, <2>1, SameGroup
<1>3. CASE isCurrent(Head(messageCh))
  <2> DEFINE m == Head(messageCh)
  <2>1. active' = active \ evicted /\ stop(evicted, "slow") BY <1>3 DEF handleMessage
  <2>2. evicted \subseteq active /\ active \subseteq Clients
    BY DEF evicted, TypeOK, DispatcherType
  <2>3. \A d \in Clients :
           stopped'[d] = IF d \in evicted /\ stopped[d] = "no" THEN "slow" ELSE stopped[d]
    BY <2>1, StopEach
  <2>4. \A d \in Clients : d \in active => replies[d] # <<>> /\ d \notin pending
    BY OneAnswer DEF Callers, AnswerShape
  <2>5. RequestShape'
    <3>1. \A d \in Clients : pc[d] \in {"idle", "send"} => d \notin active
      BY DEF Callers, AnswerShape
    <3> QED BY <1>1, <2>2, <2>3, <3>1 DEF RequestShape
  <2>6. \A d \in Clients : phaseOf(d)' = IF d \in evicted THEN "gone" ELSE phaseOf(d)
    BY <1>1, <2>1, <2>2, <2>3, <2>4 DEF phaseOf
  <2>7. \A d \in Clients : Delivered(d)' = IF d \in active \ evicted
                                           THEN Append(Delivered(d), m) ELSE Delivered(d)
    BY <1>3, MessageGoesTo
  <2>8. m \in Message /\ m.gen = generation /\ NextCapsule = m.capsule
    BY <1>3, HeadIsNext
  <2>9. \A d \in Clients : phaseOf(d) = "member" <=> d \in active BY Phases
  <2> HIDE DEF m
  <2>10. CASE active \ evicted = {}
    <3>1. \A d \in Clients : Delivered(d)' = Delivered(d) BY <2>7, <2>10
    <3>2. /\ evicted \in SUBSET Clients /\ boxCancelled' = boxCancelled
          /\ \A d \in evicted : phaseOf(d) # "gone"
      BY <1>1, <2>2, <2>9
    <3> QED BY <2>5, <2>6, <3>1, <3>2, GroupEnds
  <2>11. CASE active \ evicted # {}
    <3>1. ASSUME NEW d \in active \ evicted
          PROVE  /\ Delivered(d) # <<>> =>
                       /\ m.gen = Delivered(d)[Len(Delivered(d))].gen
                       /\ m.capsule = Delivered(d)[Len(Delivered(d))].capsule + 1
                 /\ Delivered(d)' # Delivered(d)
                 /\ Delivered(d)'[Len(Delivered(d)')] = m
      <4>1. d \in Clients BY <2>2
      <4>2. UpToDate(Delivered(d)) /\ Delivered(d) \in Seq(Message)
        BY <4>1, GaplessByOne, LogType DEF FanOut
      <4>3. Delivered(d)' = Append(Delivered(d), m) BY <2>7, <4>1
      <4>4. /\ Append(Delivered(d), m) # Delivered(d)
            /\ Append(Delivered(d), m)[Len(Append(Delivered(d), m))] = m
        BY <2>8, <4>2, LongerByOne
      <4> QED BY <2>8, <4>2, <4>3, <4>4 DEF UpToDate
    <3>2. Group!Members = active BY <2>2, <2>9 DEF Group!Members
    <3>3. \A d \in active \ evicted : Group!Continues(m, d)
      BY <2>2, <3>1 DEF Group!Continues
    <3>4. Group!Deliver(m, evicted)
      BY <1>1, <2>2, <2>6, <2>7, <2>11, <3>2, <3>3 DEF Group!Deliver, Group!Move
    <3>5. m \in Group!Given
      <4>1. PICK d \in active \ evicted : TRUE BY <2>11
      <4>2. d \in Clients BY <2>2
      <4> QED BY <3>1, <4>2 DEF Group!Given
    <3>6. evicted \in SUBSET Clients BY <2>2
    <3> QED BY <2>5, <3>4, <3>5, <3>6 DEF Group!Next
  <2> QED BY <2>10, <2>11
<1> QED BY <1>2, <1>3

\* A step of a caller ends at most its own request, and only one not yet sent.
LEMMA ClientGroup ==
    ASSUME GroupInv, NEW c \in Clients, clientStep(c)
    PROVE  [Group!Next]_(Group!vars) /\ RequestShape'
<1> USE DEF GroupInv, BoxInv
<1>1. UNCHANGED <<active, pending, replies, boxCancelled>>
  BY DEF clientStep, callStep, cancelContext, joinCall, joinGivesUp, joinAbandoned,
     joinBoxOver, joinReplied, cancelJoinOver, receive, leaveCall, leaveBoxOver,
     dispatcherVars, boxVars, subscriberVars
<1>2. \A d \in Clients : d # c => pc'[d] = pc[d] /\ stopped'[d] = stopped[d]
  BY DEF clientStep, callStep, cancelContext, joinCall, joinGivesUp,
     joinAbandoned, joinBoxOver, joinReplied, cancelJoinOver, receive,
     leaveCall, leaveBoxOver, stop, TypeOK, CallType
<1>3. \A d \in Clients : Delivered(d)' = Delivered(d)
  <2>1. CASE receive(c) BY <2>1, ReceiveKeepsLog
  <2>2. CASE ~receive(c)
    <3>1. UNCHANGED queueVars
      BY <2>2 DEF clientStep, callStep, cancelContext, joinCall, joinGivesUp,
         joinAbandoned, joinBoxOver, joinReplied, cancelJoinOver, leaveCall, leaveBoxOver
    <3> QED BY <3>1, HandlerLogs
  <2> QED BY <2>1, <2>2
<1>4. boxCancelled' = boxCancelled BY <1>1
<1>5. CASE joinGivesUp(c)
  <2>1. pc[c] = "send" /\ pc'[c] = "failed" /\ stopped'[c] # "no"
    BY <1>5 DEF joinGivesUp, callStep, stop, TypeOK, CallType
  <2>2. replies[c] = <<>> /\ c \notin active /\ c \notin pending /\ stopped[c] = "no"
    BY <2>1 DEF Callers, AnswerShape, RequestShape
  <2>3. RequestShape' BY <1>1, <1>2, <2>1 DEF RequestShape
  <2>4. phaseOf(c) = "out" /\ phaseOf(c)' = "gone" BY <1>1, <2>1, <2>2 DEF phaseOf
  <2>5. \A d \in Clients : phaseOf(d)' = IF d \in {c} THEN "gone" ELSE phaseOf(d)
    BY <1>1, <1>2, <2>4 DEF phaseOf
  <2>6. {c} \in SUBSET Clients /\ \A d \in {c} : phaseOf(d) # "gone" BY <2>4
  <2> QED BY <1>3, <1>4, <2>3, <2>5, <2>6, GroupEnds
<1>6. CASE joinAbandoned(c) \/ joinBoxOver(c)
  <2>1. pc[c] = "reply" /\ pc'[c] = "failed"
    BY <1>6 DEF joinAbandoned, joinBoxOver, callStep, TypeOK, CallType
  <2>2. c \in pending \/ replies[c] # <<>> BY <2>1 DEF RequestShape
  <2>3. RequestShape' BY <1>1, <1>2, <2>1 DEF RequestShape
  <2>4. phaseOf(c)' = phaseOf(c) BY <1>1, <2>2 DEF phaseOf
  <2>5. \A d \in Clients : phaseOf(d)' = phaseOf(d)
    BY <1>1, <1>2, <2>4 DEF phaseOf
  <2> QED BY <1>3, <1>4, <2>3, <2>5, GroupStutters
<1>7. CASE ~joinGivesUp(c) /\ ~joinAbandoned(c) /\ ~joinBoxOver(c)
  <2>1. stopped' = stopped
    BY <1>7 DEF clientStep, callStep, cancelContext, joinCall, joinReplied,
       cancelJoinOver, receive, leaveCall, leaveBoxOver, subscriberVars
  <2>2. \/ pc'[c] = pc[c]
        \/ pc[c] = "idle" /\ pc'[c] \in {"send", "failed"}
        \/ pc'[c] \in {"failed", "joined", "leaving", "left"}
    BY <1>7 DEF clientStep, callStep, cancelContext, joinCall, joinReplied,
       cancelJoinOver, receive, leaveCall, leaveBoxOver, callVars, TypeOK, CallType
  <2>3. RequestShape' BY <1>1, <1>2, <2>1, <2>2 DEF RequestShape
  <2>4. \A d \in Clients : phaseOf(d)' = phaseOf(d) BY <1>1, <2>1 DEF phaseOf
  <2> QED BY <1>3, <1>4, <2>3, <2>4, GroupStutters
<1> QED BY <1>5, <1>6, <1>7

LEMMA StepGroup ==
    ASSUME GroupInv, [Next]_vars
    PROVE  [Group!Next]_(Group!vars) /\ RequestShape'
<1>1. ASSUME NEW g \in Generations, workerNext(g)
      PROVE  [Group!Next]_(Group!vars) /\ RequestShape'
  <2>1. UNCHANGED <<active, pending, stopped, replies, boxCancelled, pc, queueVars>>
    BY <1>1 DEF workerNext, workerStep, subscribe, nextMessage, nextMalformed, nextFails,
       nextCancelled, push, unsubscribe, workerDone, dispatcherVars, boxVars, callVars,
       subscriberVars
  <2> QED BY <2>1, SameGroup
<1>2. CASE \/ \E s \in Stoppers : stopCall(s) \/ stopBoxOver(s)
           \/ \E k \in Closers : closeCall(k) \/ closeOnceOver(k) \/ closeReturns(k)
           \/ waitWorkers \/ topicClosed \/ UNCHANGED vars
  <2>1. UNCHANGED <<active, pending, stopped, replies, boxCancelled, pc, queueVars>>
    BY <1>2 DEF stopCall, stopBoxOver, closeCall, closeOnceOver, closeReturns, boxStays,
       waitWorkers, topicClosed, vars, dispatcherVars, boxVars, callVars, subscriberVars
  <2> QED BY <2>1, SameGroup
<1>3. CASE Next
  BY <1>1, <1>2, <1>3, RequestGroup, StartGroup, StoppedGroup, MessageGroup, ClientGroup
     DEF Next, runDispatcher
<1> QED BY <1>2, <1>3

(***************************************************************************)
(* The box keeps the promises of TopicGroup: a delivery reaches every      *)
(* member or ends its membership, members join and leave for good, and a   *)
(* closed group has none, whatever generations, workers, withdrawals and   *)
(* closes interleave (box.go:199-462).                                     *)
(***************************************************************************)
THEOREM BoxImplementsGroup == Spec => ImplementsGroup
<1>1. Init => Group!Init /\ RequestShape BY InitGroup, InitRequest
<1>2. BoxInv /\ FanOut /\ RequestShape /\ [Next]_vars
         => [Group!Next]_(Group!vars) /\ RequestShape'
  BY StepGroup DEF GroupInv
<1> QED BY <1>1, <1>2, TypedFan, PTL DEF Spec, ImplementsGroup, Group!Spec
=============================================================================
