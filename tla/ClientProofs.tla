---------------------------- MODULE ClientProofs ----------------------------
(***************************************************************************)
(* Proofs about module Client.  The inductive invariant says where an      *)
(* error of the client's own making can be met, and what must already be   *)
(* visible there: the stop of the call, or the ACK timer that fired.       *)
(***************************************************************************)
EXTENDS Client, TLAPS

\* The contexts and the timer's channel follow what ends them.
Followers ==
    /\ subDone => stopped
    /\ connClosed => closed
    /\ expired => timer = "fired"

\* Before the ACK the timer is running or has fired; after it, it is stopped.
TimerShape ==
    /\ pc \in {"open", "ack", "gotAck", "gotBad", "ackFailed"} =>
          timer \in {"armed", "fired"}
    /\ pc \in {"relay", "recv"} => timer = "stopped"

\* An error of the client's own making is met only when its cause is visible.
TeardownShape ==
    /\ pc = "ackFailed" /\ err \in Teardown => stopped \/ timer = "fired"
    /\ pc = "ended" /\ err \in Teardown => stopped

Inv == TypeOK /\ Followers /\ TimerShape /\ TeardownShape /\ HonestResult

\* The invariant holds before the call (client.go:85).
LEMMA InitInv == Init => Inv
<1> SUFFICES ASSUME Init PROVE Inv
  OBVIOUS
<1>1. TypeOK
  <2>1. backoff \in Nat /\ retries \in Nat
    BY DEF Init
  <2> QED
    BY <2>1, Zenon DEF Init, TypeOK
<1>2. Followers /\ TimerShape /\ TeardownShape /\ HonestResult
  BY DEF Init, Followers, TimerShape, TeardownShape, HonestResult
<1> QED
  BY <1>1, <1>2 DEF Inv

\* Contexts, connection and timers end without disturbing it.
LEMMA OutsideInv ==
    ASSUME Inv, contextEnds \/ Close \/ propagate \/ timerFires \/ timerRuns
                \/ servesLong
    PROVE  Inv'
<1> USE DEF Inv, TypeOK, Followers, TimerShape, TeardownShape, HonestResult,
            stopVars, callFrame, stopped
<1>1. CASE contextEnds
  BY <1>1 DEF contextEnds
<1>2. CASE Close
  <2>1. TypeOK'
    <3>1. (closed \in BOOLEAN /\ connClosed \in BOOLEAN)'
      BY <1>2, Zenon DEF Close
    <3>2. UNCHANGED <<pc, err, ret, timer, expired, served, backoff, retries,
                      ctxErr, subDone>>
      BY <1>2, Zenon DEF Close
    <3> QED
      BY <3>1, <3>2
  <2>2. (Followers /\ TimerShape /\ TeardownShape /\ HonestResult)'
    BY <1>2, Zenon DEF Close
  <2> QED
    BY <2>1, <2>2
<1>3. CASE propagate
  BY <1>3 DEF propagate
<1>4. CASE timerFires
  BY <1>4 DEF timerFires
<1>5. CASE timerRuns
  BY <1>5 DEF timerRuns
<1>6. CASE servesLong
  BY <1>6 DEF servesLong
<1> QED
  BY <1>1, <1>2, <1>3, <1>4, <1>5, <1>6

\* What a gRPC call may fail with has a visible cause if it is our own.
LEMMA CallErrors ==
    ASSUME Followers, NEW e \in callError
    PROVE  /\ e \in Retryable \cup Teardown \cup {"exhausted"}
           /\ e \in Teardown => stopped \/ timer = "fired"
BY DEF Followers, callError, ServerErrors, attemptDone, Teardown, Retryable,
       stopped

\* The steps of an attempt keep it (client.go:158-230).
LEMMA AttemptInv ==
    ASSUME Inv, open \/ recvAck \/ recv \/ recvFails \/ classifyACKError
                \/ checkACK \/ relayLoop
    PROVE  Inv'
<1> USE DEF Inv, TypeOK, Followers, TimerShape, TeardownShape, HonestResult,
            stopVars, attemptFrame, stopped, goto, fail
<1>1. CASE open
  BY <1>1, CallErrors DEF open
<1>2. CASE recvAck
  BY <1>2, CallErrors DEF recvAck
<1>3. CASE recv
  BY <1>3 DEF recv, Teardown
<1>4. CASE recvFails
  BY <1>4, CallErrors DEF recvFails
<1>5. CASE classifyACKError
  BY <1>5 DEF classifyACKError, stopTimer, tooLate, Retryable, Teardown
<1>6. CASE checkACK
  BY <1>6 DEF checkACK, stopTimer, tooLate, Retryable, Teardown
<1>7. CASE relayLoop
  BY <1>7 DEF relayLoop, Teardown
<1> QED
  BY <1>1, <1>2, <1>3, <1>4, <1>5, <1>6, <1>7

\* A call that is stopped has an honest result (client.go:141-152).
LEMMA StoppedResult ==
    ASSUME TypeOK, stopped, returnStopped
    PROVE  /\ pc' = "returned" /\ ret' \in {"nil", "deadline"}
           /\ ret' = "nil" => ctxErr = "canceled" \/ closed
           /\ ret' \notin Retryable \cup Teardown
BY DEF TypeOK, stopped, returnStopped, return, Retryable, Teardown

\* The loop of Subscribe keeps it (client.go:104-137).
LEMMA LoopInv ==
    ASSUME Inv, Subscribe \/ check \/ attemptEnds \/ pauseEnds \/ pauseStopped
    PROVE  Inv'
<1> USE DEF Inv, TypeOK, Followers, TimerShape, TeardownShape, HonestResult,
            stopVars, loopFrame, stopped
<1>1. CASE Subscribe
  BY <1>1 DEF Subscribe
<1>2. CASE check
  <2>1. CASE stopped
    BY <1>2, <2>1, StoppedResult DEF check
  <2>2. CASE ~stopped
    <3>1. TypeOK'
      BY <1>2, <2>2, Zenon DEF check
    <3>2. (Followers /\ TimerShape /\ TeardownShape /\ HonestResult)'
      BY <1>2, <2>2 DEF check
    <3> QED
      BY <3>1, <3>2
  <2> QED
    BY <2>1, <2>2
<1>3. CASE attemptEnds
  BY <1>3, StoppedResult DEF attemptEnds, return
<1>4. CASE pauseEnds
  BY <1>4 DEF pauseEnds, grown, Cap
<1>5. CASE pauseStopped
  BY <1>5, StoppedResult DEF pauseStopped
<1> QED
  BY <1>1, <1>2, <1>3, <1>4, <1>5

\* Every step of the call keeps the invariant.
LEMMA Invariant == Spec => []Inv
<1>1. Inv /\ [Next]_vars => Inv'
  <2> SUFFICES ASSUME Inv, [Next]_vars PROVE Inv'
    OBVIOUS
  <2>1. CASE UNCHANGED vars
    BY <2>1 DEF vars, stopVars, Inv, TypeOK, Followers, TimerShape,
                TeardownShape, HonestResult, stopped
  <2> QED
    BY <2>1, OutsideInv, AttemptInv, LoopInv DEF Next, localStep
<1> QED
  BY <1>1, InitInv, PTL DEF Spec

-----------------------------------------------------------------------------
\* Subscribe returns nil only after a cancellation or Close, and never an
\* error that a retry might cure or that its own teardown caused, for any
\* number of retries (client.go:85-137).
THEOREM ResultIsHonest == Spec => []HonestResult
BY Invariant, PTL DEF Inv

\* The ACK timer never ends a stream that was acknowledged, for any number of
\* attempts (client.go:162-177).
THEOREM AckStopsTimer == Spec => []AckedStreamLives
<1>1. Inv => AckedStreamLives
  BY DEF Inv, Followers, TimerShape, AckedStreamLives
<1> QED
  BY <1>1, Invariant, PTL

\* The powers of two below the cap.
LEMMA Powers ==
    /\ 2 ^ 0 = 1 /\ 2 ^ 1 = 2 /\ 2 ^ 2 = 4 /\ 2 ^ 3 = 8 /\ 2 ^ 4 = 16 /\ 2 ^ 5 = 32
OBVIOUS

\* One pause more: the next power of two, or the cap.
LEMMA Grows ==
    ASSUME NEW k \in Nat
    PROVE  grown(IF k < 6 THEN 2 ^ k ELSE Cap) = IF k + 1 < 6 THEN 2 ^ (k + 1) ELSE Cap
<1>1. CASE k = 0 BY <1>1, Powers DEF grown, Cap
<1>2. CASE k = 1 BY <1>2, Powers DEF grown, Cap
<1>3. CASE k = 2 BY <1>3, Powers DEF grown, Cap
<1>4. CASE k = 3 BY <1>4, Powers DEF grown, Cap
<1>5. CASE k = 4 BY <1>5, Powers DEF grown, Cap
<1>6. CASE k = 5 BY <1>6, Powers DEF grown, Cap
<1>7. CASE k >= 6 BY <1>7 DEF grown, Cap
<1> QED BY <1>1, <1>2, <1>3, <1>4, <1>5, <1>6, <1>7

\* The pauses double from 100 ms to the cap of 5 s, start over after a long
\* service, and never pass the cap, however many there are (client.go:130-135).
THEOREM BackoffIsRamp == Spec => []BackoffRamps
<1>1. Init => BackoffRamps BY Powers DEF Init, BackoffRamps
<1>2. Inv /\ BackoffRamps /\ [Next]_vars => BackoffRamps'
  <2> SUFFICES ASSUME Inv, BackoffRamps, [Next]_vars PROVE BackoffRamps'
    OBVIOUS
  <2>1. CASE pauseEnds
    <3>1. retries \in Nat BY DEF Inv, TypeOK
    <3>2. backoff' = grown(backoff) /\ retries' = retries + 1 BY <2>1 DEF pauseEnds
    <3> QED BY <3>1, <3>2, Grows DEF BackoffRamps
  <2>2. CASE attemptEnds
    <3>1. \/ UNCHANGED <<backoff, retries>>
          \/ backoff' = 1 /\ retries' = 0
      BY <2>2 DEF attemptEnds
    <3>2. CASE UNCHANGED <<backoff, retries>> BY <3>2 DEF BackoffRamps
    <3>3. CASE backoff' = 1 /\ retries' = 0
      <4>1. backoff' = 2 ^ retries' /\ retries' < 6 BY <3>3, Powers
      <4> QED BY <4>1 DEF BackoffRamps
    <3> QED BY <3>1, <3>2, <3>3
  <2>3. CASE ~pauseEnds /\ ~attemptEnds
    <3>1. UNCHANGED <<backoff, retries>>
      BY <2>3 DEF Next, localStep, contextEnds, Close, propagate, timerFires, timerRuns,
         servesLong, open, recvAck, recv, recvFails, classifyACKError, checkACK, relayLoop,
         check, Subscribe, pauseStopped, callFrame, attemptFrame, vars
    <3> QED BY <3>1 DEF BackoffRamps
  <2> QED BY <2>1, <2>2, <2>3
<1> QED BY <1>1, <1>2, Invariant, PTL DEF Spec
=============================================================================
