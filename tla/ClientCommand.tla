---------------------------- MODULE ClientCommand ----------------------------
(***************************************************************************)
(* cli/client/client.go: the interactive client, on top of the Subscribe   *)
(* call of Client.  RunE starts three goroutines, one that listens to      *)
(* signals, one that receives and one that sends what is typed, and        *)
(* returns when all three have returned.  They meet in the context of the  *)
(* command: whoever ends it ends the others, and standard input is closed  *)
(* in a goroutine of its own (context.AfterFunc).                          *)
(*                                                                         *)
(* Terminal and operating system are external.  Closing standard input     *)
(* ends a read that is waiting in it only when the descriptor is           *)
(* interruptible, which os.Stdin is if it came in non-blocking mode.       *)
(***************************************************************************)
EXTENDS Client

VARIABLES
    main,      \* RunE: "starting", "waiting", "failed" or "returned"
    signal,    \* "none", "raised": in sigCh, or "taken"
    listener,
    receiver,  \* "none", "running" or "returned"; pc is its Subscribe call
    sender,    \* "blocked" when it waits in a read of standard input
    stdinOpen,
    interruptible

commandVars == <<main, signal, listener, receiver, sender, stdinOpen, interruptible>>
allVars == <<vars, commandVars>>

CommandInit ==
    /\ Init
    /\ main = "starting" /\ signal = "none" /\ listener = "none" /\ receiver = "none"
    /\ sender = "none" /\ stdinOpen = TRUE /\ interruptible \in BOOLEAN

\* External: sigCh has room for one signal.
raise ==
    /\ signal = "none" /\ signal' = "raised"
    /\ UNCHANGED <<vars, main, listener, receiver, sender, stdinOpen, interruptible>>

subscribeFrame ==
    UNCHANGED <<pc, err, ret, subDone, timer, expired, served, backoff, retries>>

\* cancel of the command's context; every call but the first does nothing.
cancel == ctxErr' = IF ctxErr = "nil" THEN "canceled" ELSE ctxErr

\* Key, client and goroutines; a failure of the first two ends the command.
start ==
    /\ main = "starting"
    /\ \/ /\ main' = "waiting" /\ listener' = "select" /\ sender' = "loop"
          /\ receiver' = "running" /\ Subscribe
       \/ /\ main' = "failed" /\ cancel
          /\ UNCHANGED <<closed, connClosed, listener, receiver, sender>> /\ subscribeFrame
    /\ UNCHANGED <<signal, stdinOpen, interruptible>>

stopInput ==
    /\ ctxErr # "nil" /\ stdinOpen /\ main = "waiting" /\ stdinOpen' = FALSE
    /\ UNCHANGED <<vars, main, signal, listener, receiver, sender, interruptible>>

-----------------------------------------------------------------------------
(***************************************************************************)
(* The goroutine that listens to signals.                                  *)
(***************************************************************************)
listenFrame == UNCHANGED <<main, receiver, sender, stdinOpen, interruptible>>

\* Mutant of takeSignal: Client.Close is left to end everything.
takeSignalOnly ==
    /\ listener = "select" /\ signal = "raised"
    /\ signal' = "taken" /\ listener' = "close"
    /\ UNCHANGED vars /\ listenFrame

takeSignal ==
    /\ listener = "select" /\ signal = "raised"
    /\ signal' = "taken" /\ cancel /\ listener' = "close"
    /\ UNCHANGED <<closed, connClosed>> /\ subscribeFrame /\ listenFrame

\* Client.Close: its context, then its connection.
closeClient ==
    /\ listener = "close" /\ Close
    /\ listener' = IF connClosed' THEN "returned" ELSE "close"
    /\ UNCHANGED signal /\ listenFrame

listenerDone ==
    /\ listener = "select" /\ ctxErr # "nil" /\ listener' = "returned"
    /\ UNCHANGED <<vars, signal>> /\ listenFrame

listen == takeSignal \/ closeClient \/ listenerDone

-----------------------------------------------------------------------------
(***************************************************************************)
(* The goroutine that receives.  The command does not ask for verification *)
(* of what it receives, and its handler always returns nil.                *)
(***************************************************************************)
receiveLocal == (localStep \/ pauseEnds \/ pauseStopped) /\ UNCHANGED commandVars
contextReaches == propagate /\ UNCHANGED commandVars
timers == (timerFires \/ timerRuns) /\ UNCHANGED commandVars
call == (open \/ recvAck \/ recvFails) /\ UNCHANGED commandVars
relayed ==
    /\ (recv /\ pc' = "relay") \/ servesLong
    /\ UNCHANGED commandVars

\* Mutant of receiverReturns: an error is printed only.
receiverPrints ==
    /\ receiver = "running" /\ pc = "returned" /\ receiver' = "returned"
    /\ UNCHANGED <<vars, main, signal, listener, sender, stdinOpen, interruptible>>

\* Subscribe has returned: an error ends the command.
receiverReturns ==
    /\ receiver = "running" /\ pc = "returned" /\ receiver' = "returned"
    /\ IF ret # "nil" THEN cancel ELSE UNCHANGED ctxErr
    /\ UNCHANGED <<closed, connClosed>> /\ subscribeFrame
    /\ UNCHANGED <<main, signal, listener, sender, stdinOpen, interruptible>>

-----------------------------------------------------------------------------
(***************************************************************************)
(* The goroutine that sends.                                               *)
(***************************************************************************)
sendFrame ==
    UNCHANGED <<vars, main, signal, listener, receiver, stdinOpen, interruptible>>

sendLoop ==
    /\ sender = "loop" /\ sender' = IF ctxErr # "nil" THEN "returned" ELSE "prompt"
    /\ sendFrame

\* Nothing is typed yet; a read of a closed file does not wait.
readWaits ==
    /\ sender = "prompt" /\ stdinOpen /\ sender' = "blocked"
    /\ sendFrame

\* EOF returns; an error or an empty line goes round; anything else is sent.
readReturns ==
    /\ sender \in {"prompt", "blocked"} /\ sender' \in {"returned", "loop", "publishing"}
    /\ sendFrame

\* Client.Publish has returned; its error is only printed.
published ==
    /\ sender = "publishing" /\ sender' = "loop"
    /\ sendFrame

-----------------------------------------------------------------------------
\* wg.Wait, and the deferred Close and cancel.
finish ==
    /\ main = "waiting" /\ main' = "returned"
    /\ listener = "returned" /\ receiver = "returned" /\ sender = "returned"
    /\ closed' = TRUE /\ connClosed' = TRUE /\ cancel
    /\ subscribeFrame /\ UNCHANGED <<signal, listener, receiver, sender, stdinOpen, interruptible>>

CommandNext ==
    \/ raise \/ start \/ stopInput \/ listen \/ finish
    \/ receiveLocal \/ contextReaches \/ timers \/ call \/ relayed \/ receiverReturns
    \/ sendLoop \/ readWaits \/ readReturns \/ published

(***************************************************************************)
(* Goroutines run, timers fire, and a call whose context is over returns.  *)
(* Nobody need type anything: a read that waits returns for certain only   *)
(* when its descriptor is closed and interruptible.                        *)
(***************************************************************************)
CommandFairness ==
    /\ WF_allVars(start) /\ WF_allVars(stopInput) /\ WF_allVars(listen) /\ WF_allVars(finish)
    /\ WF_allVars(receiveLocal) /\ WF_allVars(contextReaches) /\ WF_allVars(timers)
    /\ WF_allVars(attemptDone /\ call) /\ WF_allVars(receiverReturns)
    /\ WF_allVars(sendLoop) /\ WF_allVars(sender = "prompt" /\ (readWaits \/ readReturns))
    /\ WF_allVars(~stdinOpen /\ interruptible /\ readReturns)
    /\ WF_allVars(ctxErr # "nil" /\ published)

CommandSpec == CommandInit /\ [][CommandNext]_allVars /\ CommandFairness

-----------------------------------------------------------------------------
\* A read of standard input does not wait for ever, or can be interrupted.
InputReturns == []<>(interruptible \/ sender # "blocked")

(***************************************************************************)
(* A signal ends the command, whatever its goroutines are doing, and so    *)
(* does the refusal of the subscription, through the context: unless a     *)
(* read of standard input waits for ever (client.go:62, 72-75, 97-101,     *)
(* 110-112).                                                               *)
(***************************************************************************)
CommandEnds ==
    InputReturns =>
        /\ signal = "raised" ~> main \in {"failed", "returned"}
        /\ pc = "returned" /\ ret # "nil" ~> main = "returned"
=============================================================================
