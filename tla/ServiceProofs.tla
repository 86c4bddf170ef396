---------------------------- MODULE ServiceProofs ----------------------------
(***************************************************************************)
(* Theorems about Service, for any number of streams, publishers and calls *)
(* of Close, any capacity of the subscribers' queues and any number of     *)
(* capsules.                                                               *)
(***************************************************************************)
EXTENDS Service, FiniteSetTheorems, TLAPS

-----------------------------------------------------------------------------
(***************************************************************************)
(* The WaitGroups.  A counter is the number of goroutines between the Add  *)
(* and the Done of its group; that is what makes a Wait mean something,    *)
(* and what keeps a Done from going below zero, which would panic.         *)
(***************************************************************************)
Publishing == {p \in Publishers : ppc[p] \in {"verify", "getBox", "publish"}}
Handlers   == {h \in Streams : hpc[h] \in Handling}
Holding    == {h \in Streams : spc[h] \in Sending}

\* n goroutines are in S.
Counts(n, S) == IsFiniteSet(S) /\ n = Cardinality(S)

Counted ==
    /\ Counts(publishes, Publishing)
    /\ Counts(subscribeHandlers, Handlers)
    /\ Counts(senders, Holding)

\* A handler has no sender before the first response, and the box has a
\* subscriber only between its join and its leave.
HandlerShape ==
    \A h \in Streams :
        /\ hpc[h] \in {"idle", "validate", "getBox", "join"} => spc[h] = "none"
        /\ h \in registered => hpc[h] \in {"wait", "leave"}

\* The Waits that lie behind a place of Close, and behind the relayer's end.
CloseShape ==
    /\ \A k \in Closers :
          /\ cpc[k] # "idle" => shutdown
          /\ cpc[k] \notin {"idle", "publishes"} => Publishing = {}
          /\ cpc[k] \notin {"idle", "publishes", "handlers"} => Handlers = {}
          /\ cpc[k] \in {"relayer", "closing", "returned"} => Holding = {}
    /\ relayer # "open" =>
          shutdown /\ Publishing = {} /\ Handlers = {} /\ Holding = {}

ServiceInv == TypeOK /\ Counted /\ HandlerShape /\ CloseShape

CountersNat == publishes \in Nat /\ subscribeHandlers \in Nat /\ senders \in Nat

\* Add and Done keep a count; a count of zero is an empty set.
LEMMA CountAdd ==
    ASSUME NEW S, NEW n, Counts(n, S), NEW x, x \notin S
    PROVE  Counts(n + 1, S \cup {x})
BY FS_AddElement DEF Counts

LEMMA CountDone ==
    ASSUME NEW S, NEW n, Counts(n, S), NEW x, x \in S
    PROVE  Counts(n - 1, S \ {x})
BY FS_RemoveElement DEF Counts

LEMMA CountZero ==
    ASSUME NEW S, NEW n, Counts(n, S)
    PROVE  n \in Nat /\ (n = 0 => S = {})
BY FS_CardinalityType, FS_EmptySet DEF Counts

-----------------------------------------------------------------------------
(***************************************************************************)
(* Type correctness, given that the counters are naturals.                 *)
(***************************************************************************)
\* Whatever ends a stream is translated to a status.
LEMMA StatusType ==
    /\ \A err \in Errors : streamError(err) \in Statuses
    /\ \A err \in Errors : streamResult(err) \in Statuses
BY DEF streamError, streamResult, Errors, Reasons, Statuses

LEMMA ShutdownStatusType ==
    ASSUME TypeOK, NEW h \in Streams PROVE shutdownStreamResult(h) \in Statuses
<1>1. stopped[h] \in Reasons \cup {"no"} /\ result[h] \in Seq(Errors)
  BY DEF TypeOK
<1>2. stopped[h] # "no" => stopped[h] \in Errors
  BY <1>1 DEF Errors
<1>3. result[h] # <<>> => Head(result[h]) \in Errors
  BY <1>1
<1>4. "nil" \in Statuses BY DEF Statuses
<1> QED BY <1>2, <1>3, <1>4, StatusType DEF shutdownStreamResult

\* Starting a sender, and ending one, keep the types of its state.
LEMMA SenderStarts ==
    ASSUME TypeOK, NEW h \in Streams, NEW ack \in {"ackOk", "ackFail"},
           startSender(h, ack)
    PROVE  /\ hpc' \in [Streams -> Handling \cup {"idle", "returned"}]
           /\ spc' \in [Streams -> Sending \cup {"none", "ended"}]
           /\ response' \in [Streams -> Response]
           /\ UNCHANGED <<result, sent, late>>
<1>1. bare(ack) \in Response BY DEF bare, Response
<1> QED BY <1>1 DEF TypeOK, startSender, goto, Handling, Sending

LEMMA SenderFinishes ==
    ASSUME TypeOK, NEW h \in Streams, NEW err \in Errors, finish(h, err)
    PROVE  /\ spc' \in [Streams -> Sending \cup {"none", "ended"}]
           /\ result' \in [Streams -> Seq(Errors)]
<1>1. Append(result[h], err) \in Seq(Errors) BY DEF TypeOK
<1> QED BY <1>1 DEF TypeOK, finish

LEMMA HandlerType ==
    ASSUME TypeOK, CountersNat', NEW h \in Streams,
           \/ Subscribe(h) \/ handlerStep(h) \/ cancelJoin(h)
           \/ joined(h) \/ joinFailed(h) \/ withdraw(h) \/ streamEnds(h)
    PROVE  TypeOK'
<1> USE DEF TypeOK, CountersNat, counterVars, handlerVars, boxVars, senderVars, callVars
<1>1. CASE Subscribe(h) BY <1>1 DEF Subscribe, goto, Handling, Statuses
<1>2. CASE validate(h)
  <2>1. CASE startSender(h, "ackFail") BY <1>2, <2>1, SenderStarts DEF validate
  <2>2. CASE goto(h, "getBox") /\ UNCHANGED senderVars
    <3>1. hpc' \in [Streams -> Handling \cup {"idle", "returned"}]
      BY <2>2 DEF goto, Handling
    <3> QED BY <1>2, <2>2, <3>1 DEF validate
  <2> QED BY <1>2, <2>1, <2>2 DEF validate
<1>3. CASE getBox(h)
  <2>1. CASE startSender(h, "ackFail") /\ UNCHANGED watching
    BY <1>3, <2>1, SenderStarts DEF getBox
  <2>2. CASE /\ goto(h, "join") /\ watching' = watching \cup {h}
             /\ UNCHANGED senderVars
    <3>1. hpc' \in [Streams -> Handling \cup {"idle", "returned"}]
      BY <2>2 DEF goto, Handling
    <3> QED BY <1>3, <2>2, <3>1 DEF getBox
  <2> QED BY <1>3, <2>1, <2>2 DEF getBox
<1>4. CASE waitSender(h)
  <2>1. PICK status \in Statuses : return(h, status)
    <3>1. shutdownStreamResult(h) \in Statuses BY ShutdownStatusType
    <3>2. "nil" \in Statuses BY DEF Statuses
    <3>3. result[h] # <<>> => streamResult(Head(result[h])) \in Statuses
      BY StatusType
    <3>4. stopped[h] # "no" => streamResult(stopped[h]) \in Statuses
      BY StatusType DEF Errors
    <3> QED BY <1>4, <3>1, <3>2, <3>3, <3>4 DEF waitSender
  <2>2. /\ hpc' \in [Streams -> Handling \cup {"idle", "returned"}]
        /\ ret' \in [Streams -> Statuses \cup {"none"}]
    BY <2>1 DEF return, goto, Handling
  <2> QED BY <1>4, <2>2 DEF waitSender
<1>5. CASE leave(h)
  <2>1. stopped' \in [Streams -> Reasons \cup {"no"}]
    BY <1>5 DEF leave, Reasons
  <2> QED BY <1>5, <2>1 DEF leave, goto
<1>6. CASE cancelJoin(h) BY <1>6 DEF cancelJoin
<1>7. CASE joined(h) BY <1>7, SenderStarts DEF joined
<1>8. CASE joinFailed(h)
  <2>1. CASE startSender(h, "ackFail") /\ UNCHANGED ret
    BY <1>8, <2>1, SenderStarts DEF joinFailed
  <2>2. CASE return(h, "nil") /\ UNCHANGED senderVars
    <3>0. givenUp' \subseteq Streams BY <1>8 DEF joinFailed
    <3>1. /\ hpc' \in [Streams -> Handling \cup {"idle", "returned"}]
          /\ ret' \in [Streams -> Statuses \cup {"none"}]
      BY <2>2 DEF return, goto, Handling, Statuses
    <3> QED BY <1>8, <2>2, <3>0, <3>1 DEF joinFailed
  <2> QED BY <1>8, <2>1, <2>2 DEF joinFailed
<1>9. CASE streamEnds(h) BY <1>9 DEF streamEnds
<1>10. CASE withdraw(h) BY <1>10 DEF withdraw
<1> QED
  BY <1>1, <1>2, <1>3, <1>4, <1>5, <1>6, <1>7, <1>8, <1>9, <1>10 DEF handlerStep

LEMMA SenderType ==
    ASSUME TypeOK, CountersNat', NEW h \in Streams,
           senderStep(h) \/ sendReturns(h) \/ sendFails(h)
    PROVE  TypeOK'
<1> USE DEF TypeOK, CountersNat, counterVars, handlerVars, boxVars, senderVars, callVars,
            senderFrame
<1>0. "nil" \in Errors /\ "sendError" \in Errors /\ "canceled" \in Errors
  BY DEF Errors, Reasons
<1>1. CASE admit(h)
  BY <1>0, <1>1, SenderFinishes DEF admit, afterSend, Sending
<1>2. CASE loop(h)
  BY <1>0, <1>2, SenderFinishes DEF loop, Sending
<1>3. CASE selectEnds(h)
  <2>1. PICK err \in Errors : finish(h, err)
    BY <1>0, <1>3 DEF selectEnds, Errors
  <2> QED BY <1>3, <2>1, SenderFinishes DEF selectEnds
<1>4. CASE selectTakes(h)
  <2>1. messages[h] \in Seq(Nat) /\ messages[h] # <<>>
    BY <1>4 DEF selectTakes
  <2>2. Head(messages[h]) \in Nat /\ Tail(messages[h]) \in Seq(Nat)
    BY <2>1
  <2>3. [type |-> "relay", capsule |-> Head(messages[h])] \in Response
    BY <2>2 DEF Response
  <2> QED BY <1>4, <2>2, <2>3 DEF selectTakes, Sending
<1>5. CASE taken(h)
  BY <1>0, <1>5, SenderFinishes DEF taken, Sending
<1>6. CASE sendReturns(h)
  <2>1. Append(sent[h], response[h]) \in Seq(Response)
    OBVIOUS
  <2>2. sent' \in [Streams -> Seq(Response)] /\ late' \in [Streams -> Nat]
    BY <1>6, <2>1 DEF sendReturns
  <2> QED BY <1>0, <1>6, <2>2, SenderFinishes DEF sendReturns, afterSend, Sending
<1>7. CASE sendFails(h)
  BY <1>0, <1>7, SenderFinishes DEF sendFails
<1> QED BY <1>1, <1>2, <1>3, <1>4, <1>5, <1>6, <1>7 DEF senderStep

LEMMA OtherType ==
    ASSUME TypeOK, CountersNat',
           \/ boxDelivers \/ boxEnds \/ BeginShutdown
           \/ \E p \in Publishers : Publish(p) \/ publishGoesOn(p) \/ publishReturns(p)
           \/ \E k \in Closers :
                 Close(k) \/ closeWaits(k) \/ closeRelayer(k) \/ closeReturns(k)
    PROVE  TypeOK'
<1> USE DEF TypeOK, CountersNat, counterVars, handlerVars, boxVars, senderVars, callVars,
            publishFrame, closeFrame
<1>1. CASE boxDelivers
  <2>1. \A h \in Streams : Append(messages[h], delivered + 1) \in Seq(Nat)
    OBVIOUS
  <2>2. messages' \in [Streams -> Seq(Nat)]
    BY <1>1, <2>1 DEF boxDelivers
  <2>3. stopped' \in [Streams -> Reasons \cup {"no"}]
    BY <1>1 DEF boxDelivers, Reasons
  <2>4. givenUp' \subseteq Streams BY <1>1 DEF boxDelivers
  <2> QED BY <1>1, <2>2, <2>3, <2>4 DEF boxDelivers
<1>2. CASE boxEnds
  <2>1. stopped' \in [Streams -> Reasons \cup {"no"}]
    BY <1>2 DEF boxEnds, Reasons
  <2>2. givenUp' \subseteq Streams BY <1>2 DEF boxEnds
  <2> QED BY <1>2, <2>1, <2>2 DEF boxEnds
<1>3. CASE BeginShutdown BY <1>3 DEF BeginShutdown
<1>4. ASSUME NEW p \in Publishers, Publish(p) \/ publishGoesOn(p) \/ publishReturns(p)
      PROVE  TypeOK'
  <2>1. ppc' \in [Publishers -> {"idle", "verify", "getBox", "publish", "ok", "error",
                                 "unavailable"}]
    <3>1. CASE Publish(p) BY <3>1 DEF Publish
    <3>2. CASE publishGoesOn(p) BY <3>2 DEF publishGoesOn
    <3>3. CASE publishReturns(p)
      <4>1. PICK place \in {"ok", "error"} : ppc' = [ppc EXCEPT ![p] = place]
        BY <3>3 DEF publishReturns
      <4> QED BY <4>1
    <3> QED BY <1>4, <3>1, <3>2, <3>3
  <2>2. publishFrame BY <1>4 DEF Publish, publishGoesOn, publishReturns
  <2> QED BY <2>1, <2>2
<1>5. ASSUME NEW k \in Closers,
             Close(k) \/ closeWaits(k) \/ closeRelayer(k) \/ closeReturns(k)
      PROVE  TypeOK'
  <2>1. CASE Close(k) BY <2>1 DEF Close
  <2>2. CASE closeWaits(k) BY <2>2 DEF closeWaits, waits
  <2>3. CASE closeRelayer(k) BY <2>3 DEF closeRelayer
  <2>4. CASE closeReturns(k) BY <2>4 DEF closeReturns
  <2> QED BY <1>5, <2>1, <2>2, <2>3, <2>4
<1> QED BY <1>1, <1>2, <1>3, <1>4, <1>5

LEMMA TypeStep ==
    ASSUME TypeOK, CountersNat', [Next]_vars PROVE TypeOK'
<1>1. CASE UNCHANGED vars
  BY <1>1 DEF TypeOK, vars, counterVars, handlerVars, boxVars, senderVars, callVars
<1>2. CASE Next
  BY <1>2, HandlerType, SenderType, OtherType DEF Next
<1> QED BY <1>1, <1>2

-----------------------------------------------------------------------------
(***************************************************************************)
(* The counters and the order of Close.                                    *)
(***************************************************************************)
LEMMA InvInit == Init => ServiceInv
<1> SUFFICES ASSUME Init PROVE ServiceInv OBVIOUS
<1>1. Publishing = {} /\ Handlers = {} /\ Holding = {}
  BY DEF Init, Publishing, Handlers, Holding, Handling, Sending
<1>2. Counted
  BY <1>1, FS_EmptySet DEF Counted, Counts, Init
<1>3. TypeOK
  <2>1. shutdown \in BOOLEAN /\ delivered \in Nat BY DEF Init
  <2>2. bare("none") \in Response BY DEF bare, Response
  <2>3. /\ messages \in [Streams -> Seq(Nat)] /\ result \in [Streams -> Seq(Errors)]
        /\ sent \in [Streams -> Seq(Response)]
    BY DEF Init
  <2> QED BY <2>1, <2>2, <2>3 DEF Init, TypeOK
<1>4. HandlerShape /\ CloseShape BY DEF Init, HandlerShape, CloseShape
<1> QED BY <1>2, <1>3, <1>4 DEF ServiceInv

\* Sets that keep their counter keep the count.
LEMMA SameCounts ==
    ASSUME Counted, UNCHANGED counterVars,
           Publishing' = Publishing, Handlers' = Handlers, Holding' = Holding
    PROVE  Counted'
BY DEF Counted, Counts, counterVars

\* CloseShape survives a step that moves no Close and fills no set.
LEMMA SameClose ==
    ASSUME CloseShape, UNCHANGED <<cpc, relayer>>, shutdown => shutdown',
           Publishing = {} => Publishing' = {}, Handlers = {} => Handlers' = {},
           Handlers = {} /\ Holding = {} => Holding' = {}
    PROVE  CloseShape'
BY DEF CloseShape

\* A sender is started only by a handler that runs and has none.
LEMMA StartInv ==
    ASSUME ServiceInv, NEW h \in Streams, NEW ack \in {"ackOk", "ackFail"},
           startSender(h, ack), hpc[h] \in {"validate", "getBox", "join"},
           UNCHANGED <<publishes, subscribeHandlers, shutdown, callVars>>,
           registered' = registered \/ registered' = registered \cup {h}
    PROVE  Counted' /\ HandlerShape' /\ CloseShape'
<1> USE DEF ServiceInv
<1>1. /\ hpc' = [hpc EXCEPT ![h] = "wait"] /\ spc' = [spc EXCEPT ![h] = "admit"]
      /\ senders' = senders + 1 /\ UNCHANGED <<ppc, cpc, relayer>>
  BY DEF startSender, goto, callVars
<1>2. h \in Handlers /\ h \notin Holding
  BY DEF Handlers, Holding, HandlerShape, Handling, Sending
<1>3. Publishing' = Publishing
  BY <1>1 DEF Publishing
<1>4. Handlers' = Handlers
  BY <1>1, <1>2 DEF Handlers, Handling, TypeOK
<1>5. Holding' = Holding \cup {h}
  BY <1>1 DEF Holding, Sending, TypeOK
<1>6. Counted'
  BY <1>1, <1>2, <1>3, <1>4, <1>5, CountAdd DEF Counted, Counts
<1>7. HandlerShape'
  BY <1>1 DEF HandlerShape, TypeOK
<1>8. CloseShape'
  BY <1>1, <1>2, <1>3, <1>4, SameClose
<1> QED BY <1>6, <1>7, <1>8

LEMMA HandlerInv ==
    ASSUME ServiceInv, NEW h \in Streams,
           \/ Subscribe(h) \/ handlerStep(h) \/ cancelJoin(h)
           \/ joined(h) \/ joinFailed(h) \/ withdraw(h) \/ streamEnds(h)
    PROVE  Counted' /\ HandlerShape' /\ CloseShape'
<1> USE DEF ServiceInv, counterVars, handlerVars, boxVars, senderVars, callVars
\* A step of the handler that starts no sender and counts nothing.
<1>0. ASSUME UNCHANGED <<publishes, subscribeHandlers, senders, shutdown, registered,
                         spc, ppc, cpc, relayer>>,
             \/ hpc' = hpc
             \/ /\ hpc[h] = "validate" /\ hpc' = [hpc EXCEPT ![h] = "getBox"]
             \/ /\ hpc[h] = "getBox" /\ hpc' = [hpc EXCEPT ![h] = "join"]
             \/ /\ hpc[h] \in {"join", "wait"} /\ hpc' = [hpc EXCEPT ![h] = "leave"]
      PROVE  Counted' /\ HandlerShape' /\ CloseShape'
  <2>1. Publishing' = Publishing /\ Holding' = Holding
    BY <1>0 DEF Publishing, Holding
  <2>2. Handlers' = Handlers
    BY <1>0 DEF Handlers, Handling, TypeOK
  <2>3. HandlerShape' BY <1>0 DEF HandlerShape, TypeOK
  <2> QED BY <1>0, <2>1, <2>2, <2>3, SameCounts, SameClose
<1>1. CASE Subscribe(h)
  <2>1. UNCHANGED <<publishes, senders, shutdown, registered, spc, ppc, cpc, relayer>>
    BY <1>1 DEF Subscribe
  <2>2. Publishing' = Publishing /\ Holding' = Holding
    BY <2>1 DEF Publishing, Holding
  <2>3. CASE shutdown
    <3>1. hpc[h] = "idle" /\ hpc' = [hpc EXCEPT ![h] = "returned"] /\ UNCHANGED subscribeHandlers
      BY <1>1, <2>3 DEF Subscribe, goto
    <3>2. Handlers' = Handlers BY <3>1 DEF Handlers, Handling, TypeOK
    <3>3. HandlerShape' BY <2>1, <3>1 DEF HandlerShape, TypeOK
    <3> QED BY <2>1, <2>2, <3>1, <3>2, <3>3, SameCounts, SameClose
  <2>4. CASE ~shutdown
    <3>1. /\ hpc[h] = "idle" /\ hpc' = [hpc EXCEPT ![h] = "validate"]
          /\ subscribeHandlers' = subscribeHandlers + 1
      BY <1>1, <2>4 DEF Subscribe, goto
    <3>2. h \notin Handlers /\ Handlers' = Handlers \cup {h}
      BY <3>1 DEF Handlers, Handling, TypeOK
    <3>3. Counted'
      BY <2>1, <2>2, <3>1, <3>2, CountAdd DEF Counted, Counts
    <3>4. HandlerShape' BY <2>1, <3>1 DEF HandlerShape, TypeOK
    <3>5. CloseShape' BY <2>1, <2>4 DEF CloseShape
    <3> QED BY <3>3, <3>4, <3>5
  <2> QED BY <2>3, <2>4
<1>2. CASE validate(h)
  <2>1. CASE startSender(h, "ackFail") BY <1>2, <2>1, StartInv DEF validate
  <2>2. CASE ~startSender(h, "ackFail") BY <1>0, <1>2, <2>2 DEF validate, goto
  <2> QED BY <2>1, <2>2
<1>3. CASE getBox(h)
  <2>1. CASE startSender(h, "ackFail") BY <1>3, <2>1, StartInv DEF getBox
  <2>2. CASE ~startSender(h, "ackFail") BY <1>0, <1>3, <2>2 DEF getBox, goto
  <2> QED BY <2>1, <2>2
<1>4. CASE waitSender(h)
  <2>1. hpc[h] = "wait" /\ hpc' = [hpc EXCEPT ![h] = "leave"]
    BY <1>4 DEF waitSender, return, goto
  <2> QED BY <1>0, <1>4, <2>1 DEF waitSender
<1>5. CASE leave(h)
  <2>1. /\ UNCHANGED <<publishes, senders, shutdown, spc, ppc, cpc, relayer>>
        /\ hpc[h] = "leave" /\ hpc' = [hpc EXCEPT ![h] = "returned"]
        /\ subscribeHandlers' = subscribeHandlers - 1 /\ registered' = registered \ {h}
    BY <1>5 DEF leave, goto
  <2>2. Publishing' = Publishing /\ Holding' = Holding
    BY <2>1 DEF Publishing, Holding
  <2>3. h \in Handlers /\ Handlers' = Handlers \ {h}
    BY <2>1 DEF Handlers, Handling, TypeOK
  <2>4. Counted'
    BY <2>1, <2>2, <2>3, CountDone DEF Counted, Counts
  <2>5. HandlerShape' BY <2>1 DEF HandlerShape, TypeOK
  <2>6. CloseShape' BY <2>1, <2>2, <2>3, SameClose
  <2> QED BY <2>4, <2>5, <2>6
<1>6. CASE cancelJoin(h) BY <1>0, <1>6 DEF cancelJoin
<1>7. CASE joined(h) BY <1>7, StartInv DEF joined
<1>8. CASE joinFailed(h)
  <2>1. CASE startSender(h, "ackFail") BY <1>8, <2>1, StartInv DEF joinFailed
  <2>2. CASE ~startSender(h, "ackFail") BY <1>0, <1>8, <2>2 DEF joinFailed, return, goto
  <2> QED BY <2>1, <2>2
<1>9. CASE streamEnds(h) BY <1>0, <1>9 DEF streamEnds
<1>10. CASE withdraw(h) BY <1>0, <1>10 DEF withdraw
<1> QED
  BY <1>1, <1>2, <1>3, <1>4, <1>5, <1>6, <1>7, <1>8, <1>9, <1>10 DEF handlerStep

\* A step of a sender moves it among its places, or ends it and counts it out.
LEMMA SenderInv ==
    ASSUME ServiceInv, NEW h \in Streams,
           senderStep(h) \/ sendReturns(h) \/ sendFails(h)
    PROVE  Counted' /\ HandlerShape' /\ CloseShape'
<1> USE DEF ServiceInv, counterVars, handlerVars, boxVars, senderVars, callVars
<1>1. /\ UNCHANGED <<publishes, subscribeHandlers, shutdown, registered, hpc, ppc, cpc,
                     relayer>>
      /\ spc[h] \in Sending
  BY DEF senderStep, admit, loop, selectEnds, selectTakes, taken, sendReturns,
         sendFails, senderFrame, Sending
<1>2. Publishing' = Publishing /\ Handlers' = Handlers
  BY <1>1 DEF Publishing, Handlers
<1>3. HandlerShape'
  <2>1. hpc[h] \notin {"idle", "validate", "getBox", "join"}
    BY <1>1 DEF HandlerShape, Sending
  <2>2. \A j \in Streams \ {h} : spc'[j] = spc[j]
    BY DEF senderStep, admit, loop, selectEnds, selectTakes, taken, sendReturns,
           sendFails, afterSend, finish, TypeOK
  <2> QED BY <1>1, <2>1, <2>2 DEF HandlerShape
<1>4. \/ \E place \in Sending : spc' = [spc EXCEPT ![h] = place] /\ UNCHANGED senders
      \/ spc' = [spc EXCEPT ![h] = "ended"] /\ senders' = senders - 1
  BY DEF senderStep, admit, loop, selectEnds, selectTakes, taken, sendReturns,
         sendFails, afterSend, finish, Sending
<1>5. CASE \E place \in Sending : spc' = [spc EXCEPT ![h] = place] /\ UNCHANGED senders
  <2>1. Holding' = Holding BY <1>1, <1>5 DEF Holding, TypeOK
  <2>2. Counted' BY <1>1, <1>2, <1>5, <2>1, SameCounts
  <2> QED BY <1>1, <1>2, <1>3, <2>1, <2>2, SameClose
<1>6. CASE spc' = [spc EXCEPT ![h] = "ended"] /\ senders' = senders - 1
  <2>1. h \in Holding /\ Holding' = Holding \ {h}
    BY <1>1, <1>6 DEF Holding, Sending, TypeOK
  <2>2. Counted'
    BY <1>1, <1>2, <1>6, <2>1, CountDone DEF Counted, Counts
  <2> QED BY <1>1, <1>2, <1>3, <2>1, <2>2, SameClose
<1> QED BY <1>4, <1>5, <1>6

LEMMA PublishInv ==
    ASSUME ServiceInv, NEW p \in Publishers,
           Publish(p) \/ publishGoesOn(p) \/ publishReturns(p)
    PROVE  Counted' /\ HandlerShape' /\ CloseShape'
<1> USE DEF ServiceInv, counterVars, handlerVars, boxVars, senderVars
<1>1. UNCHANGED <<subscribeHandlers, senders, shutdown, registered, hpc, spc, cpc, relayer>>
  BY DEF Publish, publishGoesOn, publishReturns, publishFrame
<1>2. Handlers' = Handlers /\ Holding' = Holding
  BY <1>1 DEF Handlers, Holding
<1>3. HandlerShape' BY <1>1 DEF HandlerShape
<1>4. CASE Publish(p)
  <2>1. CASE shutdown
    <3>1. Publishing' = Publishing /\ UNCHANGED publishes
      BY <1>4, <2>1 DEF Publish, Publishing, TypeOK
    <3> QED BY <1>1, <1>2, <1>3, <3>1, SameCounts, SameClose
  <2>2. CASE ~shutdown
    <3>1. /\ p \notin Publishing /\ Publishing' = Publishing \cup {p}
          /\ publishes' = publishes + 1
      BY <1>4, <2>2 DEF Publish, Publishing, TypeOK
    <3>2. Counted' BY <1>1, <1>2, <3>1, CountAdd DEF Counted, Counts
    <3>3. CloseShape' BY <1>1, <2>2 DEF CloseShape
    <3> QED BY <1>3, <3>2, <3>3
  <2> QED BY <2>1, <2>2
<1>5. CASE publishGoesOn(p)
  <2>1. Publishing' = Publishing /\ UNCHANGED publishes
    BY <1>5 DEF publishGoesOn, Publishing, TypeOK
  <2> QED BY <1>1, <1>2, <1>3, <2>1, SameCounts, SameClose
<1>6. CASE publishReturns(p)
  <2>1. /\ p \in Publishing /\ Publishing' = Publishing \ {p}
        /\ publishes' = publishes - 1
    BY <1>6 DEF publishReturns, Publishing, TypeOK
  <2>2. Counted' BY <1>1, <1>2, <2>1, CountDone DEF Counted, Counts
  <2> QED BY <1>1, <1>2, <1>3, <2>1, <2>2, SameClose
<1> QED BY <1>4, <1>5, <1>6

\* The steps of the box, of BeginShutdown and of Close count nothing.
LEMMA CloseInv ==
    ASSUME ServiceInv,
           \/ boxDelivers \/ boxEnds \/ BeginShutdown
           \/ \E k \in Closers :
                 Close(k) \/ closeWaits(k) \/ closeRelayer(k) \/ closeReturns(k)
    PROVE  Counted' /\ HandlerShape' /\ CloseShape'
<1> USE DEF ServiceInv, counterVars, handlerVars, boxVars, senderVars, callVars
<1>1. /\ UNCHANGED <<publishes, subscribeHandlers, senders, hpc, spc, ppc>>
      /\ registered' \subseteq registered
  BY DEF boxDelivers, boxEnds, BeginShutdown, Close, closeWaits, closeRelayer,
         closeReturns, closeFrame
<1>2. Publishing' = Publishing /\ Handlers' = Handlers /\ Holding' = Holding
  BY <1>1 DEF Publishing, Handlers, Holding
<1>3. Counted' /\ HandlerShape'
  BY <1>1, <1>2, SameCounts DEF HandlerShape
<1>4. CASE boxDelivers \/ boxEnds \/ BeginShutdown
  <2>1. UNCHANGED <<cpc, relayer>> /\ (shutdown => shutdown')
    BY <1>4 DEF boxDelivers, boxEnds, BeginShutdown
  <2> QED BY <1>2, <1>3, <2>1, SameClose
<1>5. ASSUME NEW k \in Closers,
             Close(k) \/ closeWaits(k) \/ closeRelayer(k) \/ closeReturns(k)
      PROVE  CloseShape'
  <2> USE DEF CloseShape, TypeOK
  <2>1. CASE Close(k) BY <1>2, <2>1 DEF Close
  <2>2. CASE closeWaits(k)
    <3>1. /\ publishes = 0 => Publishing = {}
          /\ subscribeHandlers = 0 => Handlers = {}
          /\ senders = 0 => Holding = {}
      BY CountZero DEF Counted
    <3>2. UNCHANGED <<shutdown, relayer>> /\ shutdown
      BY <2>2 DEF closeWaits, waits
    <3>3. PICK place \in {"handlers", "senders", "relayer"} :
              cpc' = [cpc EXCEPT ![k] = place]
      BY <2>2 DEF closeWaits, waits
    <3>4. /\ Publishing = {}
          /\ place # "handlers" => Handlers = {}
          /\ place = "relayer" => Holding = {}
      BY <2>2, <3>1, <3>3 DEF closeWaits, waits
    <3> QED BY <1>2, <3>2, <3>3, <3>4
  <2>3. CASE closeRelayer(k) BY <1>2, <2>3 DEF closeRelayer
  <2>4. CASE closeReturns(k) BY <1>2, <2>4 DEF closeReturns
  <2> QED BY <1>5, <2>1, <2>2, <2>3, <2>4
<1> QED BY <1>3, <1>4, <1>5

LEMMA InvStep == ASSUME ServiceInv, [Next]_vars PROVE ServiceInv'
<1>1. Counted' /\ HandlerShape' /\ CloseShape'
  <2>1. CASE UNCHANGED vars
    BY <2>1 DEF vars, counterVars, handlerVars, boxVars, senderVars, callVars, ServiceInv,
                Counted, Counts, HandlerShape, CloseShape, Publishing, Handlers, Holding
  <2>2. CASE Next
    BY <2>2, HandlerInv, SenderInv, PublishInv, CloseInv DEF Next
  <2> QED BY <2>1, <2>2
<1>2. CountersNat'
  BY <1>1, CountZero DEF Counted, CountersNat
<1> QED BY <1>1, <1>2, TypeStep DEF ServiceInv

(***************************************************************************)
(* The variables of the service keep their types; no Done of a WaitGroup   *)
(* takes its counter below zero (lake.go:29-42, 61-70).                    *)
(***************************************************************************)
THEOREM TypeCorrect == Spec => []TypeOK
<1>1. ServiceInv => TypeOK BY DEF ServiceInv
<1> QED BY <1>1, InvInit, InvStep, PTL DEF Spec

\* A subscriber is handed out, or left to its withdrawal, only by a join that
\* has ended, and never both; a closed relayer's boxes have none.
GivenUpShape ==
    /\ \A h \in subscriber \cup givenUp : hpc[h] \in {"wait", "leave", "returned"}
    /\ subscriber \cap givenUp = {}
    /\ relayer = "closed" => givenUp = {}

\* Only a running handler adds to either set.
LEMMA GivenUpStep ==
    ASSUME ServiceInv, GivenUpShape, [Next]_vars PROVE GivenUpShape'
<1> USE DEF ServiceInv, counterVars, handlerVars, boxVars, senderVars, callVars
\* A step after which the sets are no larger and no handler has gone back.
<1>0. ASSUME subscriber' \subseteq subscriber, givenUp' \subseteq givenUp,
             relayer' = "closed" => relayer = "closed" \/ givenUp' = {},
             \A h \in Streams : hpc[h] \in {"wait", "leave", "returned"} =>
                 hpc'[h] \in {"wait", "leave", "returned"}
      PROVE  GivenUpShape'
  BY <1>0 DEF GivenUpShape, TypeOK
<1>1. CASE UNCHANGED vars BY <1>0, <1>1 DEF vars
<1>2. ASSUME NEW h \in Streams, hpc[h] = "join", hpc'[h] \in {"wait", "leave"},
             \A j \in Streams \ {h} : hpc'[j] = hpc[j],
             \/ subscriber' = subscriber \cup {h} /\ givenUp' = givenUp
             \/ subscriber' = subscriber /\ givenUp' \subseteq givenUp \cup {h},
             UNCHANGED relayer
      PROVE  GivenUpShape'
  <2>1. h \notin subscriber \cup givenUp BY <1>2 DEF GivenUpShape
  <2>2. relayer = "open"
    <3>1. h \in Handlers BY <1>2 DEF Handlers, Handling
    <3> QED BY <3>1 DEF CloseShape
  <2> QED BY <1>2, <2>1, <2>2 DEF GivenUpShape, TypeOK
<1>3. ASSUME NEW h \in Streams, joined(h) PROVE GivenUpShape'
  BY <1>2, <1>3 DEF joined, startSender, goto, TypeOK
<1>4. ASSUME NEW h \in Streams, joinFailed(h) PROVE GivenUpShape'
  <2>1. /\ hpc[h] = "join" /\ UNCHANGED <<subscriber, relayer>>
        /\ givenUp' \subseteq givenUp \cup {h}
    BY <1>4 DEF joinFailed
  <2>2. hpc'[h] \in {"wait", "leave"} /\ \A j \in Streams \ {h} : hpc'[j] = hpc[j]
    BY <1>4 DEF joinFailed, startSender, return, goto, TypeOK
  <2> QED BY <1>2, <2>1, <2>2
<1>5. ASSUME NEW h \in Streams,
             Subscribe(h) \/ handlerStep(h) \/ cancelJoin(h) \/ withdraw(h) \/ streamEnds(h)
      PROVE  GivenUpShape'
  <2>1. UNCHANGED <<subscriber, relayer>> /\ givenUp' \subseteq givenUp
    BY <1>5 DEF Subscribe, handlerStep, validate, getBox, waitSender, leave, cancelJoin,
                withdraw, streamEnds
  <2>2. \A j \in Streams : hpc[j] \in {"wait", "leave", "returned"} =>
            hpc'[j] \in {"wait", "leave", "returned"}
    <3>1. CASE cancelJoin(h) \/ withdraw(h) \/ streamEnds(h)
      BY <3>1 DEF cancelJoin, withdraw, streamEnds, handlerVars
    <3>2. CASE Subscribe(h)
      BY <3>2 DEF Subscribe, return, goto, TypeOK
    <3>3. CASE handlerStep(h)
      <4>1. CASE validate(h) \/ getBox(h)
        BY <4>1 DEF validate, getBox, startSender, return, goto, TypeOK
      <4>2. CASE waitSender(h) \/ leave(h)
        BY <4>2 DEF waitSender, leave, return, goto, TypeOK
      <4> QED BY <3>3, <4>1, <4>2 DEF handlerStep
    <3> QED BY <1>5, <3>1, <3>2, <3>3
  <2> QED BY <1>0, <2>1, <2>2
<1>6. ASSUME NEW h \in Streams, senderStep(h) \/ sendReturns(h) \/ sendFails(h)
      PROVE  GivenUpShape'
  <2>1. UNCHANGED <<subscriber, relayer, givenUp, hpc>>
    BY <1>6 DEF senderStep, admit, loop, selectEnds, selectTakes, taken, sendReturns,
                sendFails, senderFrame
  <2> QED BY <1>0, <2>1
<1>7. CASE boxDelivers \/ boxEnds
  <2>1. UNCHANGED <<subscriber, relayer, hpc>> /\ givenUp' \subseteq givenUp
    BY <1>7 DEF boxDelivers, boxEnds
  <2> QED BY <1>0, <2>1
<1>8. ASSUME NEW p \in Publishers, Publish(p) \/ publishGoesOn(p) \/ publishReturns(p)
      PROVE  GivenUpShape'
  BY <1>0, <1>8 DEF Publish, publishGoesOn, publishReturns, publishFrame
<1>9. CASE BeginShutdown BY <1>0, <1>9 DEF BeginShutdown, closeFrame
<1>10. ASSUME NEW k \in Closers,
              Close(k) \/ closeWaits(k) \/ closeRelayer(k) \/ closeReturns(k)
       PROVE  GivenUpShape'
  <2>1. UNCHANGED <<subscriber, givenUp, hpc>>
    BY <1>10 DEF Close, closeWaits, closeRelayer, closeReturns, closeFrame
  <2>2. relayer' = "closed" => relayer = "closed" \/ givenUp = {}
    BY <1>10 DEF Close, closeWaits, closeRelayer, closeReturns
  <2> QED BY <1>0, <2>1, <2>2
<1> QED
  BY <1>1, <1>3, <1>4, <1>5, <1>6, <1>7, <1>8, <1>9, <1>10 DEF Next

(***************************************************************************)
(* Whatever the streams, publishers and racing Closes do, the relayer is   *)
(* closed under none of them; a box may still hold what joins given up     *)
(* left to their withdrawals, and holds nothing once the relayer is closed *)
(* (lake.go:61-70, 217; box.go:591-599, 610-617).                          *)
(***************************************************************************)
THEOREM RelayerClosesQuiet == Spec => []QuietRelayer
<1>1. Init => ServiceInv /\ GivenUpShape
  BY InvInit DEF Init, GivenUpShape
<1>2. ServiceInv /\ GivenUpShape /\ [Next]_vars => ServiceInv' /\ GivenUpShape'
  BY InvStep, GivenUpStep
<1>3. ServiceInv /\ GivenUpShape => QuietRelayer
  BY DEF ServiceInv, GivenUpShape, CloseShape, HandlerShape, QuietRelayer, Publishing,
         Handlers, Holding, Handling, TypeOK
<1> QED BY <1>1, <1>2, <1>3, PTL DEF Spec

-----------------------------------------------------------------------------
(***************************************************************************)
(* One stream: its queue, its sender's log and its end.                    *)
(***************************************************************************)
Consecutive(queue) == \A i \in 1..(Len(queue) - 1) : queue[i + 1] = queue[i] + 1

\* The queue is a run of capsules that goes on from the last one taken, and
\* ends with the last one delivered for as long as the box has the subscriber.
QueueShape(h) ==
    LET queue == messages[h] IN
    /\ Consecutive(queue)
    /\ h \in registered /\ queue # <<>> => queue[Len(queue)] = delivered
    /\ response[h].type = "relay" =>
          /\ queue # <<>> => queue[1] = response[h].capsule + 1
          /\ h \in registered /\ queue = <<>> => response[h].capsule = delivered
    /\ h \notin subscriber => queue = <<>> /\ response[h].type # "relay"
    /\ h \in subscriber => response[h].type # "ackFail"

\* A response that may be sent after those of the log.
CanFollow(log, r) ==
    IF log = <<>> THEN r.type \in {"ackOk", "ackFail"}
    ELSE /\ log[1].type = "ackOk" /\ r.type = "relay"
         /\ Len(log) > 1 => r.capsule = log[Len(log)].capsule + 1

\* What a sender holds can follow its log, until the shutdown; after that only
\* a Send admitted before is left to add to it.
SendShape(h) ==
    /\ spc[h] = "none" => sent[h] = <<>> /\ response[h].type = "none"
    /\ ~shutdown => late[h] = 0
    /\ spc[h] = "sending" => late[h] = 0 /\ CanFollow(sent[h], response[h])
    /\ ~shutdown /\ spc[h] \in {"taken", "admit"} => CanFollow(sent[h], response[h])
    /\ ~shutdown /\ spc[h] \in {"loop", "select"} =>
          /\ sent[h] # <<>> /\ sent[h][1].type = "ackOk"
          /\ sent[h][Len(sent[h])] = response[h]

\* A subscriber is stopped once, for one reason, and the one result of its
\* sender is quiet only for a cause.
EndShape(h) ==
    /\ h \in registered => stopped[h] = "no" /\ h \in subscriber
    /\ h \notin subscriber => stopped[h] = "no"
    /\ h \in subscriber => hpc[h] \in {"wait", "leave", "returned"}
    /\ hpc[h] \notin {"leave", "returned"} => ret[h] = "none"
    /\ spc[h] # "ended" => result[h] = <<>>
    /\ h \in subscriber /\ result[h] # <<>> =>
          /\ Head(result[h]) = "nil" => shutdown \/ stopped[h] = "nil"
          /\ Head(result[h]) = "canceled" => h \in streamDone
          /\ Head(result[h]) \in {"closed", "slow", "nextError"} =>
                stopped[h] = Head(result[h])

\* AckThenRun of one log.
LogShape(log) ==
    /\ log # <<>> => log[1].type \in {"ackOk", "ackFail"}
    /\ Len(log) > 1 => log[1].type = "ackOk"
    /\ \A i \in 2..Len(log) : log[i].type = "relay"
    /\ \A i \in 2..(Len(log) - 1) : log[i + 1].capsule = log[i].capsule + 1

StreamShape(h) ==
    QueueShape(h) /\ SendShape(h) /\ EndShape(h) /\ LogShape(sent[h]) /\ late[h] <= 1

StreamInv == ServiceInv /\ \A h \in Streams : StreamShape(h)

LEMMA EmptyLen ==
    ASSUME NEW S, NEW s \in Seq(S) PROVE Len(s) \in Nat /\ (s = <<>> <=> Len(s) = 0)
OBVIOUS

LEMMA RunAppend ==
    ASSUME NEW queue \in Seq(Nat), Consecutive(queue), NEW n \in Nat,
           queue # <<>> => queue[Len(queue)] + 1 = n
    PROVE  /\ Consecutive(Append(queue, n))
           /\ Append(queue, n) # <<>>
           /\ Append(queue, n)[Len(Append(queue, n))] = n
           /\ Append(queue, n)[1] = IF queue = <<>> THEN n ELSE queue[1]
<1>1. Append(queue, n) \in Seq(Nat) /\ Len(Append(queue, n)) = Len(queue) + 1
  OBVIOUS
<1>2. \A i \in 1..Len(queue) : Append(queue, n)[i] = queue[i]
  OBVIOUS
<1>3. Append(queue, n)[Len(queue) + 1] = n
  OBVIOUS
<1>4. /\ queue = <<>> <=> Len(queue) = 0
      /\ Append(queue, n) = <<>> <=> Len(Append(queue, n)) = 0
  BY <1>1, EmptyLen
<1>5. Len(queue) \in Nat
  OBVIOUS
<1>6. ASSUME NEW i \in 1..Len(queue)
      PROVE  Append(queue, n)[i + 1] = Append(queue, n)[i] + 1
  <2>1. CASE i = Len(queue) BY <1>2, <1>3, <1>4, <1>5, <2>1
  <2>2. CASE i < Len(queue)
    BY <1>2, <1>5, <2>2 DEF Consecutive
  <2> QED BY <1>5, <2>1, <2>2
<1>7. Consecutive(Append(queue, n)) BY <1>1, <1>5, <1>6 DEF Consecutive
<1>8. Append(queue, n)[1] = IF queue = <<>> THEN n ELSE queue[1]
  <2>1. CASE queue = <<>> BY <1>3, <1>4, <2>1
  <2>2. CASE queue # <<>> BY <1>2, <1>4, <1>5, <2>2
  <2> QED BY <2>1, <2>2
<1>9. Append(queue, n) # <<>> BY <1>1, <1>4, <1>5
<1> QED BY <1>1, <1>3, <1>7, <1>8, <1>9

LEMMA RunTail ==
    ASSUME NEW queue \in Seq(Nat), Consecutive(queue), queue # <<>>
    PROVE  /\ Consecutive(Tail(queue)) /\ Head(queue) = queue[1]
           /\ Tail(queue) # <<>> =>
                 /\ Tail(queue)[1] = Head(queue) + 1
                 /\ Tail(queue)[Len(Tail(queue))] = queue[Len(queue)]
           /\ Tail(queue) = <<>> => Head(queue) = queue[Len(queue)]
<1>1. /\ Tail(queue) \in Seq(Nat) /\ Len(queue) \in Nat /\ Len(queue) > 0
      /\ Len(Tail(queue)) = Len(queue) - 1
  OBVIOUS
<1>2. \A i \in 1..(Len(queue) - 1) : Tail(queue)[i] = queue[i + 1]
  OBVIOUS
<1>3. Tail(queue) = <<>> <=> Len(queue) = 1
  <2>1. Tail(queue) = <<>> <=> Len(Tail(queue)) = 0 BY <1>1, EmptyLen
  <2>2. Len(Tail(queue)) = 0 <=> Len(queue) = 1 BY <1>1
  <2> QED BY <2>1, <2>2
<1>4. Head(queue) = queue[1]
  OBVIOUS
<1>5. Consecutive(Tail(queue))
  BY <1>1, <1>2 DEF Consecutive
<1>6. Tail(queue) # <<>> => /\ Tail(queue)[1] = Head(queue) + 1
                            /\ Tail(queue)[Len(Tail(queue))] = queue[Len(queue)]
  <2> SUFFICES ASSUME Tail(queue) # <<>>
               PROVE  /\ Tail(queue)[1] = Head(queue) + 1
                      /\ Tail(queue)[Len(Tail(queue))] = queue[Len(queue)]
    OBVIOUS
  <2>1. 1 \in 1..(Len(queue) - 1) /\ Len(queue) - 1 \in 1..(Len(queue) - 1)
    BY <1>1, <1>3
  <2>2. queue[1 + 1] = queue[1] + 1 BY <2>1 DEF Consecutive
  <2>3. Tail(queue)[1] = queue[1 + 1] BY <1>2, <2>1
  <2>4. Tail(queue)[Len(queue) - 1] = queue[(Len(queue) - 1) + 1] BY <1>2, <2>1
  <2>5. (Len(queue) - 1) + 1 = Len(queue) BY <1>1
  <2> QED BY <1>1, <1>4, <2>2, <2>3, <2>4, <2>5
<1> QED BY <1>1, <1>3, <1>4, <1>5, <1>6

LEMMA LogAppend ==
    ASSUME NEW log \in Seq(Response), LogShape(log), NEW r \in Response,
           CanFollow(log, r)
    PROVE  /\ LogShape(Append(log, r)) /\ Append(log, r) # <<>>
           /\ Append(log, r)[Len(Append(log, r))] = r
           /\ r.type # "ackFail" => Append(log, r)[1].type = "ackOk"
<1> DEFINE new == Append(log, r)
<1>1. new \in Seq(Response) /\ Len(new) = Len(log) + 1 /\ Len(log) \in Nat
  OBVIOUS
<1>2. (\A i \in 1..Len(log) : new[i] = log[i]) /\ new[Len(log) + 1] = r
  OBVIOUS
<1>3. log = <<>> <=> Len(log) = 0
  OBVIOUS
<1> HIDE DEF new
<1>4. CASE log = <<>>
  BY <1>1, <1>2, <1>3, <1>4 DEF LogShape, CanFollow
<1>5. CASE log # <<>>
  <2>1. new[1].type = "ackOk" BY <1>1, <1>2, <1>3, <1>5 DEF CanFollow
  <2>2. \A i \in 2..Len(new) : new[i].type = "relay"
    BY <1>1, <1>2, <1>3, <1>5 DEF CanFollow, LogShape
  <2>3. ASSUME NEW i \in 2..(Len(new) - 1) PROVE new[i + 1].capsule = new[i].capsule + 1
    <3>1. CASE i = Len(log) BY <1>1, <1>2, <1>5, <3>1 DEF CanFollow
    <3>2. CASE i < Len(log) BY <1>1, <1>2, <3>2 DEF LogShape
    <3> QED BY <1>1, <3>1, <3>2
  <2> QED BY <1>1, <1>2, <2>1, <2>2, <2>3 DEF LogShape
<1> QED BY <1>4, <1>5 DEF new

\* A stream whose queue and sender are left alone.
KeptSender(h) ==
    /\ spc'[h] = spc[h] /\ response'[h] = response[h] /\ result'[h] = result[h]
    /\ sent'[h] = sent[h] /\ late'[h] = late[h]

KeptBox(h) ==
    /\ messages'[h] = messages[h]
    /\ h \in subscriber' <=> h \in subscriber
    /\ h \in registered' => h \in registered /\ delivered' = delivered
    /\ stopped'[h] = stopped[h] \/ (h \in registered /\ h \notin registered')

KeptHandler(h) ==
    /\ shutdown => shutdown'
    /\ h \in streamDone => h \in streamDone'
    /\ h \in subscriber => hpc'[h] \in {"wait", "leave", "returned"}
    /\ hpc'[h] \notin {"leave", "returned"} => ret'[h] = "none"

LEMMA StreamKept ==
    ASSUME NEW h \in Streams, StreamShape(h), KeptSender(h), KeptBox(h), KeptHandler(h)
    PROVE  StreamShape(h)'
<1> USE DEF StreamShape, KeptSender, KeptBox, KeptHandler
<1>1. QueueShape(h)' BY DEF QueueShape, Consecutive
<1>2. SendShape(h)' BY DEF SendShape, CanFollow
<1>3. EndShape(h)' BY DEF EndShape
<1>4. LogShape(sent[h])' BY DEF LogShape
<1> QED BY <1>1, <1>2, <1>3, <1>4

\* The first response of a stream, in the hands of its sender.
LEMMA StreamStarts ==
    ASSUME StreamInv, NEW h \in Streams, NEW ack \in {"ackOk", "ackFail"},
           startSender(h, ack), hpc[h] \in {"validate", "getBox", "join"},
           UNCHANGED <<shutdown, ret, streamDone, stopped, messages, delivered>>,
           \/ ack = "ackFail" /\ UNCHANGED <<subscriber, registered>>
           \/ /\ ack = "ackOk" /\ subscriber' = subscriber \cup {h}
              /\ registered' = registered \cup {h}
    PROVE  \A j \in Streams : StreamShape(j)'
<1> USE DEF StreamInv
<1>0. StreamShape(h) /\ TypeOK /\ HandlerShape BY DEF ServiceInv
<1>1. /\ hpc' = [hpc EXCEPT ![h] = "wait"] /\ spc' = [spc EXCEPT ![h] = "admit"]
      /\ response' = [response EXCEPT ![h] = bare(ack)]
      /\ UNCHANGED <<result, sent, late>>
  BY DEF startSender, goto
<1>2. ASSUME NEW j \in Streams, j # h PROVE StreamShape(j)'
  <2>1. KeptSender(j) BY <1>0, <1>1, <1>2 DEF KeptSender, TypeOK
  <2>2. KeptBox(j) BY <1>2 DEF KeptBox
  <2>3. StreamShape(j) OBVIOUS
  <2>4. KeptHandler(j)
    BY <1>0, <1>1, <1>2, <2>3 DEF KeptHandler, TypeOK, StreamShape, EndShape
  <2> QED BY <2>1, <2>2, <2>3, <2>4, StreamKept
<1>3. /\ hpc'[h] = "wait" /\ spc'[h] = "admit"
      /\ response'[h].type = ack
  BY <1>0, <1>1 DEF TypeOK, bare
<1>4. spc[h] = "none" /\ h \notin subscriber
  BY <1>0 DEF HandlerShape, StreamShape, EndShape
<1>5. sent[h] = <<>> /\ result[h] = <<>> /\ messages[h] = <<>> /\ stopped[h] = "no"
  BY <1>0, <1>4 DEF StreamShape, SendShape, EndShape, QueueShape
<1>6. ret[h] = "none" /\ (~shutdown => late[h] = 0) /\ late[h] <= 1
  BY <1>0 DEF StreamShape, EndShape, SendShape
<1>7. h \notin registered BY <1>0, <1>4 DEF StreamShape, EndShape
<1>8. QueueShape(h)'
  <2>1. Consecutive(messages[h]) BY <1>0 DEF StreamShape, QueueShape
  <2>2. messages'[h] = <<>> BY <1>5
  <2> QED BY <1>3, <1>4, <1>5, <2>1, <2>2 DEF QueueShape
<1>9. SendShape(h)'
  BY <1>1, <1>3, <1>5, <1>6 DEF SendShape, CanFollow
<1>10. EndShape(h)'
  BY <1>1, <1>3, <1>4, <1>5, <1>6, <1>7 DEF EndShape
<1>11. LogShape(sent[h])' /\ late'[h] <= 1
  BY <1>0, <1>1, <1>6 DEF StreamShape, LogShape
<1>12. StreamShape(h)' BY <1>8, <1>9, <1>10, <1>11 DEF StreamShape
<1> QED BY <1>2, <1>12

LEMMA HandlerStream ==
    ASSUME StreamInv, NEW h \in Streams,
           \/ Subscribe(h) \/ handlerStep(h) \/ cancelJoin(h)
           \/ joined(h) \/ joinFailed(h) \/ withdraw(h) \/ streamEnds(h)
    PROVE  \A j \in Streams : StreamShape(j)'
<1> USE DEF StreamInv, ServiceInv, counterVars, handlerVars, boxVars, senderVars, callVars
\* A step of the handler that starts no sender.
<1>0. ASSUME UNCHANGED <<shutdown, subscriber, messages, delivered, spc, response,
                         result, sent, late>>,
             \/ UNCHANGED <<registered, stopped>>
             \/ /\ registered' = registered \ {h}
                /\ \/ h \notin registered /\ UNCHANGED stopped
                   \/ h \in registered /\ stopped' = [stopped EXCEPT ![h] = "nil"],
             streamDone \subseteq streamDone',
             \/ UNCHANGED <<hpc, ret>>
             \/ /\ hpc[h] \in {"idle", "validate", "getBox"} /\ UNCHANGED ret
                /\ \E place \in {"validate", "getBox", "join"} :
                      hpc' = [hpc EXCEPT ![h] = place]
             \/ /\ \A j \in Streams \ {h} : ret'[j] = ret[j]
                /\ \E place \in {"leave", "returned"} : hpc' = [hpc EXCEPT ![h] = place]
      PROVE  \A j \in Streams : StreamShape(j)'
  <2> TAKE j \in Streams
  <2>1. KeptSender(j) BY <1>0 DEF KeptSender
  <2>2. KeptBox(j) BY <1>0 DEF KeptBox, TypeOK
  <2>3. KeptHandler(j)
    <3>1. EndShape(j) BY DEF StreamShape
    <3>2. CASE UNCHANGED <<hpc, ret>> BY <1>0, <3>1, <3>2 DEF KeptHandler, EndShape
    <3>3. CASE /\ hpc[h] \in {"idle", "validate", "getBox"} /\ UNCHANGED ret
               /\ \E place \in {"validate", "getBox", "join"} :
                     hpc' = [hpc EXCEPT ![h] = place]
      BY <1>0, <3>1, <3>3 DEF KeptHandler, EndShape, TypeOK
    <3>4. CASE /\ \A i \in Streams \ {h} : ret'[i] = ret[i]
               /\ \E place \in {"leave", "returned"} : hpc' = [hpc EXCEPT ![h] = place]
      BY <1>0, <3>1, <3>4 DEF KeptHandler, EndShape, TypeOK
    <3> QED BY <1>0, <3>2, <3>3, <3>4
  <2>4. StreamShape(j) OBVIOUS
  <2> QED BY <2>1, <2>2, <2>3, <2>4, StreamKept
<1>1. CASE Subscribe(h)
  <2>1. \A j \in Streams \ {h} : ret'[j] = ret[j] BY <1>1 DEF Subscribe, TypeOK
  <2> QED BY <1>0, <1>1, <2>1 DEF Subscribe, goto
<1>2. CASE validate(h)
  <2>1. CASE startSender(h, "ackFail") BY <1>2, <2>1, StreamStarts DEF validate
  <2>2. CASE ~startSender(h, "ackFail") BY <1>0, <1>2, <2>2 DEF validate, goto
  <2> QED BY <2>1, <2>2
<1>3. CASE getBox(h)
  <2>1. CASE startSender(h, "ackFail") BY <1>3, <2>1, StreamStarts DEF getBox
  <2>2. CASE ~startSender(h, "ackFail") BY <1>0, <1>3, <2>2 DEF getBox, goto
  <2> QED BY <2>1, <2>2
<1>4. CASE waitSender(h)
  <2>1. hpc' = [hpc EXCEPT ![h] = "leave"] /\ \A j \in Streams \ {h} : ret'[j] = ret[j]
    BY <1>4 DEF waitSender, return, goto, TypeOK
  <2> QED BY <1>0, <1>4, <2>1 DEF waitSender
<1>5. CASE leave(h)
  <2>1. hpc' = [hpc EXCEPT ![h] = "returned"] /\ \A j \in Streams \ {h} : ret'[j] = ret[j]
    BY <1>5 DEF leave, goto
  <2>2. /\ registered' = registered \ {h}
        /\ \/ h \notin registered /\ UNCHANGED stopped
           \/ h \in registered /\ stopped' = [stopped EXCEPT ![h] = "nil"]
    BY <1>5 DEF leave
  <2> QED BY <1>0, <1>5, <2>1, <2>2 DEF leave
<1>6. CASE cancelJoin(h) BY <1>0, <1>6 DEF cancelJoin
<1>7. CASE joined(h) BY <1>7, StreamStarts DEF joined
<1>8. CASE joinFailed(h)
  <2>1. CASE startSender(h, "ackFail")
    <3>1. CASE UNCHANGED ret BY <1>8, <2>1, <3>1, StreamStarts DEF joinFailed
    <3>2. CASE ~UNCHANGED ret
      BY <1>8, <2>1, <3>2 DEF joinFailed, startSender, return, goto, TypeOK
    <3> QED BY <3>1, <3>2
  <2>2. CASE ~startSender(h, "ackFail")
    <3>1. hpc' = [hpc EXCEPT ![h] = "leave"] /\ \A j \in Streams \ {h} : ret'[j] = ret[j]
      BY <1>8, <2>2 DEF joinFailed, return, goto, TypeOK
    <3> QED BY <1>0, <1>8, <2>2, <3>1 DEF joinFailed, return, goto
  <2> QED BY <2>1, <2>2
<1>9. CASE streamEnds(h) BY <1>0, <1>9 DEF streamEnds
<1>10. CASE withdraw(h) BY <1>0, <1>10 DEF withdraw
<1> QED
  BY <1>1, <1>2, <1>3, <1>4, <1>5, <1>6, <1>7, <1>8, <1>9, <1>10 DEF handlerStep

\* The frame of a sender's step: the other streams, and the end of its own.
LEMMA OtherStreams ==
    ASSUME StreamInv, NEW h \in Streams,
           senderStep(h) \/ sendReturns(h) \/ sendFails(h)
    PROVE  \A j \in Streams \ {h} : StreamShape(j)'
<1> SUFFICES ASSUME NEW j \in Streams \ {h} PROVE StreamShape(j)'
  OBVIOUS
<1> USE DEF StreamInv, ServiceInv, handlerVars
<1>1. KeptSender(j)
  BY DEF KeptSender, senderStep, admit, loop, selectEnds, selectTakes, taken,
         sendReturns, sendFails, afterSend, finish, TypeOK
<1>2. messages'[j] = messages[j]
  BY DEF senderStep, admit, loop, selectEnds, selectTakes, taken, sendReturns,
         sendFails, TypeOK
<1>3. senderFrame
  BY DEF senderStep, admit, loop, selectEnds, selectTakes, taken, sendReturns, sendFails
<1>4. KeptBox(j) BY <1>2, <1>3 DEF KeptBox, senderFrame
<1>5. StreamShape(j) OBVIOUS
<1>6. KeptHandler(j)
  BY <1>3, <1>5 DEF KeptHandler, senderFrame, StreamShape, EndShape
<1> QED BY <1>1, <1>4, <1>5, <1>6, StreamKept

\* A sender that goes on keeps the end of its stream as it is.
LEMMA GoesOn ==
    ASSUME NEW h \in Streams, TypeOK, EndShape(h), senderFrame, UNCHANGED result,
           spc[h] # "ended"
    PROVE  EndShape(h)'
BY DEF EndShape, senderFrame, handlerVars

\* A sender that ends leaves one result, and is quiet only for a cause.
LEMMA EndsWith ==
    ASSUME NEW h \in Streams, TypeOK, EndShape(h), senderFrame, spc[h] # "ended",
           NEW err, finish(h, err),
           h \in subscriber /\ err = "nil" => shutdown \/ stopped[h] = "nil",
           err = "canceled" => h \in streamDone,
           err \in {"closed", "slow", "nextError"} => stopped[h] = err
    PROVE  EndShape(h)'
<1>1. result[h] = <<>> BY DEF EndShape
<1>2. result'[h] = <<err>> BY <1>1 DEF finish, TypeOK
<1>3. Head(result'[h]) = err BY <1>2
<1>4. spc'[h] = "ended" BY DEF finish, TypeOK
<1> QED BY <1>3, <1>4 DEF EndShape, senderFrame, handlerVars

\* Its queue and its response in hand are left alone.
LEMMA SameQueue ==
    ASSUME NEW h \in Streams, QueueShape(h), senderFrame, UNCHANGED <<messages, response>>
    PROVE  QueueShape(h)'
BY DEF QueueShape, Consecutive, senderFrame, handlerVars

LEMMA SenderStream ==
    ASSUME StreamInv, NEW h \in Streams,
           senderStep(h) \/ sendReturns(h) \/ sendFails(h)
    PROVE  StreamShape(h)'
<1> USE DEF StreamInv
<1>0. /\ TypeOK /\ QueueShape(h) /\ SendShape(h) /\ EndShape(h)
      /\ LogShape(sent[h]) /\ late[h] <= 1
  BY DEF ServiceInv, StreamShape
<1>a. senderFrame /\ UNCHANGED <<shutdown, subscriber, stopped, streamDone>>
  BY DEF senderStep, admit, loop, selectEnds, selectTakes, taken, sendReturns, sendFails,
         senderFrame, handlerVars
<1>b. spc[h] # "ended"
  BY DEF senderStep, admit, loop, selectEnds, selectTakes, taken, sendReturns, sendFails
\* Every step but selectTakes and sendReturns leaves the log and the queue.
<1>c. ASSUME UNCHANGED <<messages, response, sent, late>>, EndShape(h)', SendShape(h)'
      PROVE  StreamShape(h)'
  <2>1. QueueShape(h)' BY <1>0, <1>a, <1>c, SameQueue
  <2>2. LogShape(sent[h])' /\ late'[h] <= 1 BY <1>0, <1>c DEF LogShape
  <2> QED BY <1>c, <2>1, <2>2 DEF StreamShape
\* A sender that has ended sends no more.
<1>d. ASSUME spc'[h] = "ended", UNCHANGED late PROVE SendShape(h)'
  BY <1>0, <1>a, <1>d DEF SendShape
<1>e. ASSUME NEW err, finish(h, err) PROVE spc'[h] = "ended"
  BY <1>0, <1>e DEF finish, TypeOK
<1>1. CASE admit(h)
  <2>1. UNCHANGED <<messages, response, sent, late>> /\ spc[h] = "admit" BY <1>1 DEF admit
  <2>2. CASE shutdown /\ h \notin subscriber
    <3>1. finish(h, "nil") BY <1>1, <2>2 DEF admit, sawShutdown, afterSend
    <3>2. EndShape(h)' BY <1>0, <1>a, <1>b, <2>2, <3>1, EndsWith
    <3> QED BY <1>c, <1>d, <1>e, <2>1, <3>1, <3>2
  <2>3. CASE shutdown /\ h \in subscriber
    <3>1. spc'[h] = "loop" /\ UNCHANGED result
      BY <1>0, <1>1, <2>3 DEF admit, sawShutdown, afterSend, TypeOK
    <3>2. EndShape(h)' BY <1>0, <1>a, <1>b, <3>1, GoesOn
    <3>3. SendShape(h)' BY <1>0, <1>a, <2>1, <2>3, <3>1 DEF SendShape
    <3> QED BY <1>c, <2>1, <3>2, <3>3
  <2>4. CASE ~shutdown
    <3>1. spc'[h] = "sending" /\ UNCHANGED result
      BY <1>0, <1>1, <2>4 DEF admit, sawShutdown, TypeOK
    <3>2. EndShape(h)' BY <1>0, <1>a, <1>b, <3>1, GoesOn
    <3>3. late[h] = 0 /\ CanFollow(sent[h], response[h])
      BY <1>0, <2>1, <2>4 DEF SendShape
    <3>4. CanFollow(sent[h], response[h])' BY <2>1, <3>3 DEF CanFollow
    <3>5. SendShape(h)' BY <2>1, <3>1, <3>3, <3>4 DEF SendShape
    <3> QED BY <1>c, <2>1, <3>2, <3>5
  <2> QED BY <2>2, <2>3, <2>4
<1>2. CASE loop(h)
  <2>1. UNCHANGED <<messages, response, sent, late>> /\ spc[h] = "loop" BY <1>2 DEF loop
  <2>2. CASE shutdown
    <3>1. finish(h, "nil") BY <1>2, <2>2 DEF loop, sawShutdown
    <3>2. EndShape(h)' BY <1>0, <1>a, <1>b, <2>2, <3>1, EndsWith
    <3> QED BY <1>c, <1>d, <1>e, <2>1, <3>1, <3>2
  <2>3. CASE ~shutdown
    <3>1. spc'[h] = "select" /\ UNCHANGED result
      BY <1>0, <1>2, <2>3 DEF loop, sawShutdown, TypeOK
    <3>2. EndShape(h)' BY <1>0, <1>a, <1>b, <3>1, GoesOn
    <3>3. SendShape(h)' BY <1>0, <1>a, <2>1, <2>3, <3>1 DEF SendShape
    <3> QED BY <1>c, <2>1, <3>2, <3>3
  <2> QED BY <2>2, <2>3
<1>3. CASE selectEnds(h)
  <2>1. UNCHANGED <<messages, response, sent, late>> BY <1>3 DEF selectEnds
  <2>2. PICK err : /\ finish(h, err)
                   /\ \/ shutdown /\ err = "nil"
                      \/ h \in streamDone /\ err = "canceled"
                      \/ err = stopped[h]
    BY <1>3 DEF selectEnds
  <2>3. stopped[h] # "canceled" BY <1>0 DEF TypeOK, Reasons
  <2>4. EndShape(h)' BY <1>0, <1>a, <1>b, <2>2, <2>3, EndsWith
  <2> QED BY <1>c, <1>d, <1>e, <2>1, <2>2, <2>4
<1>4. CASE selectTakes(h)
  <2> DEFINE queue == messages[h]
             first == Head(queue)
  <2>1. /\ spc[h] = "select" /\ queue # <<>> /\ queue \in Seq(Nat)
        /\ spc'[h] = "taken" /\ response'[h] = [type |-> "relay", capsule |-> first]
        /\ messages'[h] = Tail(queue)
        /\ UNCHANGED <<result, sent, late, delivered, registered>>
    BY <1>0, <1>4 DEF selectTakes, senderFrame, TypeOK
  <2>2. Consecutive(queue) BY <1>0 DEF QueueShape
  <2>3. /\ Consecutive(Tail(queue)) /\ first = queue[1]
        /\ Tail(queue) # <<>> =>
              Tail(queue)[1] = first + 1 /\ Tail(queue)[Len(Tail(queue))] = queue[Len(queue)]
        /\ Tail(queue) = <<>> => first = queue[Len(queue)]
    BY <2>1, <2>2, RunTail
  <2>4. response'[h].type = "relay" /\ response'[h].capsule = first BY <2>1
  <2>5. /\ h \in subscriber /\ (h \in registered => queue[Len(queue)] = delivered)
        /\ response[h].type = "relay" => first = response[h].capsule + 1
    BY <1>0, <2>1, <2>3 DEF QueueShape
  <2> HIDE DEF queue, first
  <2>6. QueueShape(h)'
    BY <1>a, <2>1, <2>3, <2>4, <2>5 DEF QueueShape
  <2>7. EndShape(h)' BY <1>0, <1>a, <1>b, <2>1, GoesOn
  <2>8. ASSUME ~shutdown PROVE CanFollow(sent[h], response[h])'
    <3>1. /\ sent[h] # <<>> /\ sent[h][1].type = "ackOk"
          /\ sent[h][Len(sent[h])] = response[h]
      BY <1>0, <2>1, <2>8 DEF SendShape
    <3>2. sent[h] \in Seq(Response) BY <1>0 DEF TypeOK
    <3>3. Len(sent[h]) \in Nat BY <3>2
    <3>4. Len(sent[h]) > 1 => response[h].type = "relay"
      BY <1>0, <3>1, <3>3 DEF LogShape
    <3> QED BY <2>1, <2>4, <2>5, <3>1, <3>4 DEF CanFollow
  <2>9. SendShape(h)' BY <1>0, <1>a, <2>1, <2>8 DEF SendShape
  <2>10. LogShape(sent[h])' /\ late'[h] <= 1 BY <1>0, <2>1 DEF LogShape
  <2> QED BY <2>6, <2>7, <2>9, <2>10 DEF StreamShape
<1>5. CASE taken(h)
  <2>1. UNCHANGED <<messages, response, sent, late>> /\ spc[h] = "taken" BY <1>5 DEF taken
  <2>2. CASE shutdown
    <3>1. finish(h, "nil") BY <1>5, <2>2 DEF taken, sawShutdown
    <3>2. EndShape(h)' BY <1>0, <1>a, <1>b, <2>2, <3>1, EndsWith
    <3> QED BY <1>c, <1>d, <1>e, <2>1, <3>1, <3>2
  <2>3. CASE ~shutdown
    <3>1. spc'[h] = "admit" /\ UNCHANGED result
      BY <1>0, <1>5, <2>3 DEF taken, sawShutdown, TypeOK
    <3>2. EndShape(h)' BY <1>0, <1>a, <1>b, <3>1, GoesOn
    <3>3. CanFollow(sent[h], response[h])' BY <1>0, <2>1, <2>3 DEF SendShape, CanFollow
    <3>4. SendShape(h)' BY <1>0, <1>a, <2>1, <3>1, <3>3 DEF SendShape
    <3> QED BY <1>c, <2>1, <3>2, <3>4
  <2> QED BY <2>2, <2>3
<1>6. CASE sendReturns(h)
  <2> DEFINE log == sent[h]
             new == Append(log, response[h])
  <2>1. /\ spc[h] = "sending" /\ sent'[h] = new
        /\ late'[h] = IF shutdown THEN late[h] + 1 ELSE late[h]
        /\ UNCHANGED <<messages, response>> /\ afterSend(h)
    BY <1>0, <1>6 DEF sendReturns, TypeOK
  <2>2. CanFollow(log, response[h]) /\ late[h] = 0 BY <1>0, <2>1 DEF SendShape
  <2>3. log \in Seq(Response) /\ response[h] \in Response BY <1>0 DEF TypeOK
  <2>4. /\ LogShape(new) /\ new # <<>> /\ new[Len(new)] = response[h]
        /\ response[h].type # "ackFail" => new[1].type = "ackOk"
    BY <1>0, <2>2, <2>3, LogAppend
  <2> HIDE DEF log, new
  <2>5. LogShape(sent[h])' BY <2>1, <2>4 DEF LogShape
  <2>6. late'[h] <= 1 /\ (~shutdown => late'[h] = 0) BY <2>1, <2>2
  <2>7. QueueShape(h)' BY <1>0, <1>a, <2>1, SameQueue
  <2>8. CASE h \in subscriber
    <3>1. spc'[h] = "loop" /\ UNCHANGED result BY <1>0, <2>1, <2>8 DEF afterSend, TypeOK
    <3>2. response[h].type # "ackFail" BY <1>0, <2>8 DEF QueueShape
    <3>3. SendShape(h)' BY <1>a, <2>1, <2>4, <2>6, <3>1, <3>2 DEF SendShape
    <3>4. EndShape(h)' BY <1>0, <1>a, <1>b, <3>1, GoesOn
    <3> QED BY <2>5, <2>6, <2>7, <3>3, <3>4 DEF StreamShape
  <2>9. CASE h \notin subscriber
    <3>1. finish(h, "nil") BY <2>1, <2>9 DEF afterSend
    <3>2. SendShape(h)' BY <1>a, <1>e, <2>6, <3>1 DEF SendShape
    <3>3. EndShape(h)' BY <1>0, <1>a, <1>b, <2>9, <3>1, EndsWith
    <3> QED BY <2>5, <2>6, <2>7, <3>2, <3>3 DEF StreamShape
  <2> QED BY <2>8, <2>9
<1>7. CASE sendFails(h)
  <2>1. UNCHANGED <<messages, response, sent, late>> /\ finish(h, "sendError")
    BY <1>7 DEF sendFails
  <2>2. EndShape(h)' BY <1>0, <1>a, <1>b, <2>1, EndsWith
  <2> QED BY <1>c, <1>d, <1>e, <2>1, <2>2
<1> QED BY <1>1, <1>2, <1>3, <1>4, <1>5, <1>6, <1>7 DEF senderStep

\* A delivery goes to the end of a queue or ends the subscriber.
LEMMA BoxStream ==
    ASSUME StreamInv, NEW h \in Streams, boxDelivers \/ boxEnds
    PROVE  StreamShape(h)'
<1> USE DEF StreamInv, handlerVars, senderVars
<1>0. TypeOK /\ StreamShape(h) BY DEF ServiceInv
<1>1. KeptSender(h) /\ KeptHandler(h)
  BY <1>0 DEF KeptSender, KeptHandler, boxDelivers, boxEnds, StreamShape, EndShape
<1>2. CASE boxEnds
  <2>1. KeptBox(h) BY <1>2 DEF KeptBox, boxEnds
  <2> QED BY <1>0, <1>1, <2>1, StreamKept
<1>3. CASE boxDelivers /\ ~(h \in registered /\ hasRoom(h))
  <2>1. KeptBox(h) BY <1>3 DEF KeptBox, boxDelivers
  <2> QED BY <1>0, <1>1, <2>1, StreamKept
<1>4. CASE boxDelivers /\ h \in registered /\ hasRoom(h)
  <2> DEFINE queue == messages[h]
             new == Append(queue, delivered + 1)
  <2>1. /\ messages'[h] = new /\ delivered' = delivered + 1 /\ h \in registered'
        /\ stopped'[h] = stopped[h]
        /\ UNCHANGED <<shutdown, handlerVars, streamDone, senderVars>>
    BY <1>4 DEF boxDelivers
  <2>2. queue \in Seq(Nat) /\ delivered \in Nat BY <1>0 DEF TypeOK
  <2>3. /\ Consecutive(queue) /\ (queue # <<>> => queue[Len(queue)] = delivered)
        /\ response[h].type = "relay" =>
              response[h].capsule + 1 = IF queue = <<>> THEN delivered + 1 ELSE queue[1]
    BY <1>0, <1>4 DEF StreamShape, QueueShape
  <2>4. /\ Consecutive(new) /\ new # <<>> /\ new[Len(new)] = delivered + 1
        /\ new[1] = IF queue = <<>> THEN delivered + 1 ELSE queue[1]
    BY <2>2, <2>3, RunAppend
  <2>5. h \in subscriber /\ response[h].type # "ackFail"
    BY <1>0, <1>4 DEF StreamShape, EndShape, QueueShape
  <2> HIDE DEF queue, new
  <2>6. QueueShape(h)' BY <2>1, <2>3, <2>4, <2>5 DEF QueueShape
  <2>7. SendShape(h)' BY <1>0, <2>1 DEF StreamShape, SendShape, CanFollow
  <2>8. EndShape(h)' BY <1>0, <1>4, <2>1, <2>5 DEF StreamShape, EndShape
  <2>9. LogShape(sent[h])' /\ late'[h] <= 1 BY <1>0, <2>1 DEF StreamShape, LogShape
  <2> QED BY <2>6, <2>7, <2>8, <2>9 DEF StreamShape
<1> QED BY <1>2, <1>3, <1>4

LEMMA StreamInit == Init => StreamInv
<1> SUFFICES ASSUME Init PROVE StreamInv OBVIOUS
<1>1. ASSUME NEW h \in Streams PROVE StreamShape(h)
  <2>1. /\ spc[h] = "none" /\ hpc[h] = "idle" /\ ret[h] = "none" /\ stopped[h] = "no"
        /\ messages[h] = <<>> /\ sent[h] = <<>> /\ result[h] = <<>> /\ late[h] = 0
        /\ response[h].type = "none" /\ h \notin subscriber /\ h \notin registered
    BY DEF Init, bare
  <2>2. QueueShape(h) BY <2>1 DEF QueueShape, Consecutive
  <2>3. SendShape(h) BY <2>1 DEF SendShape
  <2>4. EndShape(h) BY <2>1 DEF EndShape
  <2>5. LogShape(sent[h]) /\ late[h] <= 1 BY <2>1 DEF LogShape
  <2> QED BY <2>2, <2>3, <2>4, <2>5 DEF StreamShape
<1> QED BY <1>1, InvInit DEF StreamInv

LEMMA StreamStep == ASSUME StreamInv, [Next]_vars PROVE StreamInv'
<1> USE DEF StreamInv
<1>1. ServiceInv' BY InvStep
\* A step that is none of a stream's.
<1>2. ASSUME UNCHANGED <<handlerVars, streamDone, boxVars, senderVars>>,
             shutdown' = shutdown \/ shutdown' = TRUE
      PROVE  \A h \in Streams : StreamShape(h)'
  <2> TAKE h \in Streams
  <2> USE DEF handlerVars, boxVars, senderVars
  <2>1. StreamShape(h) OBVIOUS
  <2>2. KeptSender(h) /\ KeptBox(h) /\ KeptHandler(h)
    BY <1>2, <2>1 DEF KeptSender, KeptBox, KeptHandler, StreamShape, EndShape
  <2> QED BY <2>1, <2>2, StreamKept
<1>3. ASSUME NEW h \in Streams,
             \/ Subscribe(h) \/ handlerStep(h) \/ cancelJoin(h)
             \/ joined(h) \/ joinFailed(h) \/ withdraw(h) \/ streamEnds(h)
      PROVE  \A j \in Streams : StreamShape(j)'
  BY <1>3, HandlerStream
<1>4. ASSUME NEW h \in Streams, senderStep(h) \/ sendReturns(h) \/ sendFails(h)
      PROVE  \A j \in Streams : StreamShape(j)'
  <2>1. StreamShape(h)' BY <1>4, SenderStream
  <2>2. \A j \in Streams \ {h} : StreamShape(j)' BY <1>4, OtherStreams
  <2> QED BY <2>1, <2>2
<1>5. CASE boxDelivers \/ boxEnds BY <1>1, <1>5, BoxStream
<1>6. ASSUME NEW p \in Publishers, Publish(p) \/ publishGoesOn(p) \/ publishReturns(p)
      PROVE  \A j \in Streams : StreamShape(j)'
  BY <1>2, <1>6 DEF Publish, publishGoesOn, publishReturns, publishFrame
<1>7. CASE BeginShutdown
  <2>1. /\ UNCHANGED <<handlerVars, streamDone, boxVars, senderVars>>
        /\ shutdown' = shutdown \/ shutdown' = TRUE
    BY <1>7 DEF BeginShutdown, closeFrame
  <2> QED BY <1>1, <1>2, <2>1
<1>8. ASSUME NEW k \in Closers,
             Close(k) \/ closeWaits(k) \/ closeRelayer(k) \/ closeReturns(k)
      PROVE  \A j \in Streams : StreamShape(j)'
  <2>1. /\ UNCHANGED <<handlerVars, streamDone, boxVars, senderVars>>
        /\ shutdown' = shutdown \/ shutdown' = TRUE
    BY <1>8 DEF Close, closeWaits, closeRelayer, closeReturns, closeFrame
  <2> QED BY <1>2, <2>1
<1>9. CASE UNCHANGED vars
  <2>1. UNCHANGED <<handlerVars, streamDone, boxVars, senderVars>> /\ shutdown' = shutdown
    BY <1>9 DEF vars
  <2> QED BY <1>1, <1>2, <2>1
<1>10. \A h \in Streams : StreamShape(h)'
  BY <1>3, <1>4, <1>5, <1>6, <1>7, <1>8, <1>9 DEF Next
<1> QED BY <1>1, <1>10

(***************************************************************************)
(* Every stream's log is one ACK and then, after an ok one, a run of the   *)
(* box's capsules without a gap, and at most one Send ends after the       *)
(* shutdown has begun (lake.go:214-276).                                   *)
(***************************************************************************)
THEOREM LogsAreAckThenRun == Spec => []AckThenRun
<1>1. StreamInv => AckThenRun
  BY DEF StreamInv, StreamShape, LogShape, AckThenRun
<1> QED BY <1>1, StreamInit, StreamStep, PTL DEF Spec

\* Only the wait of a handler gives a subscription that has begun its status.
LEMMA QuietStep ==
    ASSUME StreamInv, Next, NEW h \in subscriber, hpc[h] = "wait", ret'[h] = "nil"
    PROVE  QuietCause(h)
<1> USE DEF StreamInv, ServiceInv, handlerVars
<1>0. h \in Streams /\ TypeOK /\ EndShape(h) BY DEF TypeOK, StreamShape
<1>1. ret[h] = "none" BY <1>0 DEF EndShape
<1>2. waitSender(h)
  <2>1. ASSUME NEW j \in Streams,
               \/ Subscribe(j) \/ handlerStep(j) \/ cancelJoin(j)
               \/ joined(j) \/ joinFailed(j) \/ withdraw(j) \/ streamEnds(j)
        PROVE  waitSender(h)
    <3>1. ret'[h] # ret[h] BY <1>1
    <3>2. CASE waitSender(j)
      <4>1. j = h BY <1>0, <3>1, <3>2 DEF waitSender, return, TypeOK
      <4> QED BY <3>2, <4>1
    <3>3. CASE Subscribe(j)
      BY <1>0, <3>1, <3>3 DEF Subscribe, TypeOK
    <3>4. CASE joinFailed(j)
      BY <1>0, <3>1, <3>4 DEF joinFailed, return, TypeOK
    <3> QED
      BY <2>1, <3>1, <3>2, <3>3, <3>4
         DEF handlerStep, validate, getBox, leave, cancelJoin, joined, withdraw,
             streamEnds
  <2>2. ASSUME NEW j \in Streams, senderStep(j) \/ sendReturns(j) \/ sendFails(j)
        PROVE  ret' = ret
    BY <2>2 DEF senderStep, admit, loop, selectEnds, selectTakes, taken, sendReturns,
                sendFails, senderFrame
  <2>3. ASSUME boxDelivers \/ boxEnds \/ BeginShutdown PROVE ret' = ret
    BY <2>3 DEF boxDelivers, boxEnds, BeginShutdown, closeFrame
  <2>4. ASSUME NEW p \in Publishers, Publish(p) \/ publishGoesOn(p) \/ publishReturns(p)
        PROVE  ret' = ret
    BY <2>4 DEF Publish, publishGoesOn, publishReturns, publishFrame
  <2>5. ASSUME NEW k \in Closers,
               Close(k) \/ closeWaits(k) \/ closeRelayer(k) \/ closeReturns(k)
        PROVE  ret' = ret
    BY <2>5 DEF Close, closeWaits, closeRelayer, closeReturns, closeFrame
  <2> QED BY <1>1, <2>1, <2>2, <2>3, <2>4, <2>5 DEF Next
<1>3. \A status : return(h, status) => status = "nil"
  BY <1>0 DEF return, TypeOK
<1>4. \A err : streamResult(err) = "nil" =>
          err \in {"nil", "canceled"} \/ (err = "closed" /\ shutdown)
  BY DEF streamResult, streamError
<1>5. stopped[h] \in {"no", "nil", "closed", "slow", "nextError"}
  BY <1>0 DEF TypeOK, Reasons
<1>6. result[h] # <<>> => Head(result[h]) \in Errors BY <1>0 DEF TypeOK
<1>7. result[h] # <<>> =>
        /\ Head(result[h]) = "nil" => shutdown \/ stopped[h] = "nil"
        /\ Head(result[h]) = "canceled" => h \in streamDone
        /\ Head(result[h]) \in {"closed", "slow", "nextError"} =>
              stopped[h] = Head(result[h])
  BY <1>0 DEF EndShape
<1>8. CASE shutdown /\ return(h, shutdownStreamResult(h))
  <2>1. shutdownStreamResult(h) = "nil" BY <1>3, <1>8
  <2>2. stopped[h] \in {"no", "nil", "closed"}
    BY <1>5, <2>1 DEF shutdownStreamResult, streamError
  <2>3. stopped[h] = "no" /\ result[h] # <<>> => Head(result[h]) \in {"nil", "canceled"}
    BY <1>6, <1>7, <2>1 DEF shutdownStreamResult, streamError, Errors, Reasons
  <2> QED BY <1>7, <1>8, <2>2, <2>3 DEF QuietCause
<1>9. CASE h \in streamDone BY <1>9 DEF QuietCause
<1>10. CASE result[h] # <<>> /\ return(h, streamResult(Head(result[h])))
  <2>1. streamResult(Head(result[h])) = "nil" BY <1>3, <1>10
  <2> QED BY <1>4, <1>7, <1>10, <2>1 DEF QuietCause
<1>11. CASE stopped[h] # "no" /\ return(h, streamResult(stopped[h]))
  <2>1. streamResult(stopped[h]) = "nil" BY <1>3, <1>11
  <2> QED BY <1>4, <1>5, <2>1 DEF QuietCause
<1> QED BY <1>2, <1>8, <1>9, <1>10, <1>11 DEF waitSender

(***************************************************************************)
(* No subscription that had begun is ended quietly without a client that   *)
(* is gone, a box that stopped it without an error, or a shutdown with     *)
(* nothing to report but for the nil of a sender that saw it first         *)
(* (lake.go:278-316).                                                      *)
(***************************************************************************)
THEOREM NoQuietEndWithoutCause == Spec => QuietEndHasCause
<1>1. StreamInv /\ [Next]_vars =>
        [\A h \in subscriber :
            hpc[h] = "wait" /\ ret'[h] = "nil" => QuietCause(h)]_vars
  BY QuietStep
<1> QED BY <1>1, StreamInit, StreamStep, PTL DEF Spec, QuietEndHasCause
=============================================================================
