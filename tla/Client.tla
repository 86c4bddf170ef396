------------------------------- MODULE Client -------------------------------
(***************************************************************************)
(* client/client.go: one Subscribe call of the Go client.  It opens a      *)
(* stream, waits for the ACK under a timer, relays capsules to the         *)
(* handler, and opens another stream after a pause when the stream ends in *)
(* a way that another agent may cure.  The caller's context and            *)
(* Client.Close end it, from any place.                                    *)
(*                                                                         *)
(* Contexts end in two steps: ctx or Client.closed first, subCtx after it  *)
(* (context.AfterFunc runs in a goroutine of its own).  A gRPC call is one *)
(* step; the server, the connection and the handler are external.  Time is *)
(* counted in units of the first pause, 100 ms; the jitter of a pause is   *)
(* left out.                                                               *)
(***************************************************************************)
EXTENDS Naturals

CONSTANT
    MaxRetries    \* bound: pauses the call takes

ASSUME ClientAssumption == MaxRetries \in Nat

VARIABLES
    pc, err, ret,      \* place in the call, the attempt's error, the result
    ctxErr, closed, connClosed, subDone,   \* the caller's ctx, Close, subCtx
    timer, expired,    \* the ACK timer of the attempt, and its channel
    served,            \* "no", "acked", or "long": 30 s or more since the ACK
    backoff,
    retries            \* history: pauses since the first or the last reset

stopVars == <<ctxErr, closed, connClosed, subDone>>
vars == <<pc, err, ret, stopVars, timer, expired, served, backoff, retries>>

Cap == 50   \* 5 s

Retryable == {"ackTimeout", "eof", "unavailable", "deadlineExceeded"}

\* Errors of the client's own making: it cancelled, or closed the connection.
Teardown == {"canceledCall", "connClosing"}

\* What the stream may end with on the server's side.
ServerErrors == {"eof", "unavailable", "deadlineExceeded", "exhausted"}

Init ==
    /\ pc = "idle" /\ err = "none" /\ ret = "none"
    /\ ctxErr = "nil" /\ closed = FALSE /\ connClosed = FALSE /\ subDone = FALSE
    /\ timer = "none" /\ expired = FALSE /\ served = "no"
    /\ backoff = 1 /\ retries = 0

-----------------------------------------------------------------------------
(***************************************************************************)
(* What ends the call from outside.                                        *)
(***************************************************************************)
callFrame == UNCHANGED <<pc, err, ret, timer, expired, served, backoff, retries>>

contextEnds ==
    /\ ctxErr = "nil" /\ ctxErr' \in {"canceled", "deadline"}
    /\ callFrame
    /\ UNCHANGED <<closed, connClosed, subDone>>

\* Mutant of Close: the connection is closed before the context.
CloseConnFirst ==
    /\ \/ ~connClosed /\ connClosed' = TRUE /\ UNCHANGED closed
       \/ connClosed /\ ~closed /\ closed' = TRUE /\ UNCHANGED connClosed
    /\ callFrame
    /\ UNCHANGED <<ctxErr, subDone>>

\* Close ends the context, then the connection.
Close ==
    /\ \/ ~closed /\ closed' = TRUE /\ UNCHANGED connClosed
       \/ closed /\ ~connClosed /\ connClosed' = TRUE /\ UNCHANGED closed
    /\ callFrame
    /\ UNCHANGED <<ctxErr, subDone>>

\* subCtx follows ctx, and Client.closed through context.AfterFunc.
propagate ==
    /\ ~subDone /\ (ctxErr # "nil" \/ closed) /\ subDone' = TRUE
    /\ callFrame
    /\ UNCHANGED <<ctxErr, closed, connClosed>>

\* The ACK timer fires, and then its function runs.
timerFires ==
    /\ timer = "armed" /\ timer' = "fired"
    /\ UNCHANGED <<pc, err, ret, stopVars, expired, served, backoff, retries>>

timerRuns ==
    /\ timer = "fired" /\ ~expired /\ expired' = TRUE
    /\ UNCHANGED <<pc, err, ret, stopVars, timer, served, backoff, retries>>

\* 30 seconds pass on a stream that was acknowledged.
servesLong ==
    /\ served = "acked" /\ served' = "long"
    /\ UNCHANGED <<pc, err, ret, stopVars, timer, expired, backoff, retries>>

-----------------------------------------------------------------------------
(***************************************************************************)
(* The attempt.                                                            *)
(***************************************************************************)
attemptFrame == UNCHANGED <<ret, stopVars, backoff, retries>>

goto(place) == pc' = place /\ UNCHANGED err

\* Mutant of attemptDone: not derived from subCtx.
attemptAlone == expired

\* The attempt's context: its own timer or subCtx.
attemptDone == expired \/ subDone

\* What a gRPC call on the attempt's stream fails with.
callError ==
    ServerErrors \cup (IF attemptDone THEN {"canceledCall"} ELSE {})
                 \cup (IF connClosed THEN {"connClosing"} ELSE {})

fail(place) == pc' = place /\ err' \in callError

\* subscribeAttempt opens the stream; expired and the timer are its own.
open ==
    /\ pc = "open"
    /\ goto("ack") \/ fail("ackFailed")
    /\ attemptFrame
    /\ UNCHANGED <<timer, expired, served>>

recvAck ==
    /\ pc = "ack"
    /\ \/ \E answer \in {"gotAck", "gotBad"} : goto(answer)
       \/ fail("ackFailed")
    /\ attemptFrame
    /\ UNCHANGED <<timer, expired, served>>

\* Mutant of stopTimer: the timer goes on after the ACK.
leaveTimer(place) ==
    /\ timer = "armed" /\ goto(place)
    /\ UNCHANGED <<timer, expired>>

\* timer.Stop comes in time.
stopTimer(place) ==
    /\ timer = "armed" /\ timer' = "stopped"
    /\ goto(place)
    /\ UNCHANGED expired

\* timer.Stop comes too late: wait for expired, and call it a timeout.
tooLate ==
    /\ timer = "fired" /\ expired
    /\ pc' = "ended" /\ err' = "ackTimeout"
    /\ UNCHANGED <<timer, expired>>

classifyACKError ==
    /\ pc = "ackFailed"
    /\ stopTimer("ended") \/ tooLate
    /\ attemptFrame
    /\ UNCHANGED served

\* A response arrived: an ACK in time begins the service, anything else ends.
checkACK ==
    /\ \/ pc = "gotAck" /\ stopTimer("relay") /\ served' = "acked"
       \/ /\ pc = "gotBad" /\ timer = "armed" /\ timer' = "stopped"
          /\ pc' = "ended" /\ err' = "badAck"
          /\ UNCHANGED <<expired, served>>
       \/ pc \in {"gotAck", "gotBad"} /\ tooLate /\ UNCHANGED served
    /\ attemptFrame

\* The head of the relay loop looks at subCtx.
relayLoop ==
    /\ pc = "relay"
    /\ \/ subDone /\ pc' = "ended" /\ err' = "canceledCall"
       \/ ~subDone /\ goto("recv")
    /\ attemptFrame
    /\ UNCHANGED <<timer, expired, served>>

\* A relayed capsule goes to the handler, or fails its verification.
recv ==
    /\ pc = "recv"
    /\ \/ goto("relay")
       \/ pc' = "ended" /\ err' = "invalidCapsule"
    /\ attemptFrame
    /\ UNCHANGED <<timer, expired, served>>

recvFails ==
    /\ pc = "recv" /\ fail("ended")
    /\ attemptFrame
    /\ UNCHANGED <<timer, expired, served>>

-----------------------------------------------------------------------------
(***************************************************************************)
(* The loop of Subscribe.                                                  *)
(***************************************************************************)
loopFrame == UNCHANGED <<err, stopVars>>

stopped == ctxErr # "nil" \/ closed

\* subscriptionStopped: only a deadline of the caller is an error.
return(result) == pc' = "returned" /\ ret' = result

returnStopped == return(IF ctxErr = "deadline" THEN "deadline" ELSE "nil")

Subscribe ==
    /\ pc = "idle" /\ pc' = "check"
    /\ loopFrame
    /\ UNCHANGED <<ret, timer, expired, served, backoff, retries>>

\* The head of the loop; a new attempt has a timer and a channel of its own.
check ==
    /\ pc = "check"
    /\ \/ /\ stopped /\ returnStopped
          /\ UNCHANGED <<timer, expired, served>>
       \/ /\ ~stopped /\ pc' = "open" /\ timer' = "armed"
          /\ expired' = FALSE /\ served' = "no"
          /\ UNCHANGED ret
    /\ loopFrame
    /\ UNCHANGED <<backoff, retries>>

\* Stopped, not retryable, or a pause that a long service has reset.
attemptEnds ==
    /\ pc = "ended"
    /\ \/ stopped /\ returnStopped /\ UNCHANGED <<backoff, retries>>
       \/ /\ ~stopped /\ err \notin Retryable
          /\ return(err)
          /\ UNCHANGED <<backoff, retries>>
       \/ /\ ~stopped /\ err \in Retryable
          /\ pc' = "pause"
          /\ backoff' = IF served = "long" THEN 1 ELSE backoff
          /\ retries' = IF served = "long" THEN 0 ELSE retries
          /\ UNCHANGED ret
    /\ loopFrame
    /\ UNCHANGED <<timer, expired, served>>

\* Mutant of grown: the cap is looked at before the doubling only.
grownUncapped(b) == IF b < Cap THEN 2 * b ELSE b

grown(b) == IF b < Cap THEN IF 2 * b > Cap THEN Cap ELSE 2 * b ELSE b

\* The pause ends by its timer or by subCtx.
pauseEnds ==
    /\ pc = "pause" /\ retries < MaxRetries
    /\ pc' = "check"
    /\ backoff' = grown(backoff) /\ retries' = retries + 1
    /\ loopFrame
    /\ UNCHANGED <<ret, timer, expired, served>>

pauseStopped ==
    /\ pc = "pause" /\ subDone
    /\ returnStopped
    /\ loopFrame
    /\ UNCHANGED <<timer, expired, served, backoff, retries>>

-----------------------------------------------------------------------------
localStep == classifyACKError \/ checkACK \/ relayLoop \/ check \/ attemptEnds

Next ==
    \/ contextEnds \/ Close \/ propagate \/ timerFires \/ timerRuns \/ servesLong
    \/ open \/ recvAck \/ recv \/ recvFails
    \/ localStep
    \/ Subscribe \/ pauseEnds \/ pauseStopped

Spec == Init /\ [][Next]_vars

(***************************************************************************)
(* The client's own steps are taken when they are ready, its timers fire,  *)
(* and a gRPC call returns once its context is over.  Nothing makes the    *)
(* server answer, and nothing makes the caller stop the call.              *)
(***************************************************************************)
Fairness ==
    /\ WF_vars(localStep) /\ WF_vars(propagate)
    /\ WF_vars(timerFires) /\ WF_vars(timerRuns)
    /\ WF_vars(attemptDone /\ (open \/ recvAck))
    /\ WF_vars(attemptDone /\ recvFails)
    /\ WF_vars(pauseEnds) /\ WF_vars(pauseStopped)

FairSpec == Spec /\ Fairness

-----------------------------------------------------------------------------
(***************************************************************************)
(* Properties.                                                             *)
(***************************************************************************)
\* The type of every variable of the call (client.go:85-230).
TypeOK ==
    /\ pc \in {"idle", "check", "open", "ack", "ackFailed", "gotAck", "gotBad",
               "relay", "recv", "ended", "pause", "returned"}
    /\ err \in Retryable \cup Teardown \cup {"none", "exhausted", "badAck",
                                             "invalidCapsule"}
    /\ ret \in Retryable \cup Teardown \cup {"none", "nil", "deadline",
                                    "exhausted", "badAck", "invalidCapsule"}
    /\ ctxErr \in {"nil", "canceled", "deadline"}
    /\ closed \in BOOLEAN /\ connClosed \in BOOLEAN /\ subDone \in BOOLEAN
    /\ timer \in {"none", "armed", "fired", "stopped"} /\ expired \in BOOLEAN
    /\ served \in {"no", "acked", "long"}
    /\ backoff \in Nat /\ retries \in Nat

(***************************************************************************)
(* The result of Subscribe is the caller's doing or the server's refusal:  *)
(* nil only after a cancellation or Close, and never an error that another *)
(* attempt might cure or that the client's own teardown caused, whichever  *)
(* of timer, contexts and connection is seen first (client.go:78-81,       *)
(* 105-114, 224-230).                                                      *)
(***************************************************************************)
HonestResult ==
    pc = "returned" =>
        /\ ret = "nil" => ctxErr = "canceled" \/ closed
        /\ ret \notin Retryable \cup Teardown

(***************************************************************************)
(* Once a stream has been acknowledged the ACK timer cannot end it: it was *)
(* stopped in time, or the attempt was given up (client.go:174-177).       *)
(***************************************************************************)
AckedStreamLives ==
    pc \in {"relay", "recv"} => timer # "fired" /\ ~expired

(***************************************************************************)
(* After k pauses in a row, not counting those before a service of 30 s or *)
(* more, the next pause is 2^k times the first while that is below the cap *)
(* and the cap from then on (client.go:103, 115-117, 130-135).             *)
(***************************************************************************)
BackoffRamps == backoff = IF retries < 6 THEN 2 ^ retries ELSE Cap

\* A cancelled context or Client.Close ends the call, wherever it is.
StopsWhenTold ==
    pc # "idle" /\ (ctxErr # "nil" \/ closed) ~> pc = "returned"

=============================================================================
