------------------------------- MODULE Loader -------------------------------
(***************************************************************************)
(* cli/tools/loader/loader.go: the load generator.  runE starts a          *)
(* goroutine that waits for a signal and one that publishes a number at    *)
(* each tick, and returns when both have returned.                         *)
(*                                                                         *)
(* Client.Publish runs with the context of the command and no deadline: it *)
(* may wait for an answer for as long as the context is alive.  A failed   *)
(* publish is printed and counts like any other.                           *)
(***************************************************************************)
EXTENDS Naturals

CONSTANTS
    LoadCounts,  \* values of --count, which is not limited when it is 0
    MaxLoad      \* bound: an unlimited load goes on without counting further

ASSUME LoaderAssumption == LoadCounts \subseteq Nat /\ MaxLoad \in Nat

VARIABLES
    loadCount,
    main,       \* runE: "starting", "waiting", "failed" or "returned"
    signal,     \* "none", "raised": in sigCh, or "taken"
    cancelled,  \* the context
    closed,     \* Client.Close
    listener,   \* the goroutine that listens to signals
    loader,     \* the goroutine of the ticker
    i           \* publishes made

vars == <<loadCount, main, signal, cancelled, closed, listener, loader, i>>

Limited == loadCount > 0

Init ==
    /\ loadCount \in LoadCounts
    /\ main = "starting" /\ signal = "none" /\ cancelled = FALSE /\ closed = FALSE
    /\ listener = "none" /\ loader = "none" /\ i = 0

\* External: sigCh has room for one signal.
raise ==
    /\ signal = "none" /\ signal' = "raised"
    /\ UNCHANGED <<loadCount, main, cancelled, closed, listener, loader, i>>

\* Key and client; a failure of either ends the command.
start ==
    /\ main = "starting"
    /\ \/ main' = "waiting" /\ listener' = "select" /\ loader' = "select"
          /\ UNCHANGED cancelled
       \/ main' = "failed" /\ cancelled' = TRUE /\ UNCHANGED <<listener, loader>>
    /\ UNCHANGED <<loadCount, signal, closed, i>>

listenFrame == UNCHANGED <<loadCount, main, loader, i>>

\* Mutant of takeSignal: the client is closed and the context is not ended.
takeSignalOnly ==
    /\ listener = "select" /\ signal = "raised"
    /\ signal' = "taken" /\ listener' = "close"
    /\ listenFrame /\ UNCHANGED <<cancelled, closed>>

\* A signal cancels the context, and then closes the client.
takeSignal ==
    /\ listener = "select" /\ signal = "raised"
    /\ signal' = "taken" /\ cancelled' = TRUE /\ listener' = "close"
    /\ listenFrame /\ UNCHANGED closed

closeClient ==
    /\ listener = "close" /\ closed' = TRUE /\ listener' = "returned"
    /\ listenFrame /\ UNCHANGED <<signal, cancelled>>

\* The other case of the select: the load is over.
listenerDone ==
    /\ listener = "select" /\ cancelled /\ listener' = "returned"
    /\ listenFrame /\ UNCHANGED <<signal, cancelled, closed>>

listen == takeSignal \/ closeClient \/ listenerDone

tickFrame == UNCHANGED <<loadCount, main, signal, closed, listener>>

seesDone ==
    /\ loader = "select" /\ cancelled /\ loader' = "returned"
    /\ tickFrame /\ UNCHANGED <<cancelled, i>>

loadIsOver == Limited /\ i >= loadCount

\* Mutant of endOfLoad: the listener is left waiting.
endOfLoadSilently ==
    /\ loader = "select" /\ loadIsOver
    /\ loader' = "returned"
    /\ tickFrame /\ UNCHANGED <<cancelled, i>>

\* A tick after the last publish: the load is over for the listener as well.
endOfLoad ==
    /\ loader = "select" /\ loadIsOver
    /\ cancelled' = TRUE /\ loader' = "returned"
    /\ tickFrame /\ UNCHANGED i

\* A tick: Publish is called.
tick ==
    /\ loader = "select" /\ ~loadIsOver
    /\ loader' = "publishing"
    /\ tickFrame /\ UNCHANGED <<cancelled, i>>

\* Publish returns: acknowledged, or with an error that is only printed.
published ==
    /\ loader = "publishing" /\ loader' = "select"
    /\ i' = IF Limited \/ i < MaxLoad THEN i + 1 ELSE i
    /\ tickFrame /\ UNCHANGED cancelled

\* wg.Wait, and the deferred Close and cancel.
finish ==
    /\ main = "waiting" /\ listener = "returned" /\ loader = "returned"
    /\ main' = "returned" /\ closed' = TRUE /\ cancelled' = TRUE
    /\ UNCHANGED <<loadCount, signal, listener, loader, i>>

Next == raise \/ start \/ listen \/ seesDone \/ endOfLoad \/ tick \/ published \/ finish

\* Goroutines run, ticks come, and a call whose context has ended returns.
\* Whether an answer comes while the context is alive is up to the agent.
Fairness ==
    /\ WF_vars(start) /\ WF_vars(finish) /\ WF_vars(listen) /\ SF_vars(seesDone) /\ WF_vars(endOfLoad)
    /\ WF_vars(tick) /\ WF_vars(cancelled /\ published)

Spec == Init /\ [][Next]_vars

FairSpec == Spec /\ Fairness

-----------------------------------------------------------------------------
(***************************************************************************)
(* The command ends, all its goroutines with it.  A limited load ends by   *)
(* itself, provided that no call waits for ever, and does not leave the    *)
(* goroutine behind that listens to signals; and a signal ends any load,   *)
(* also one that comes before the client is there or during a call that is *)
(* never answered (loader.go:72-79, 97-104).                               *)
(***************************************************************************)
LoaderEnds ==
    /\ []<>(loader # "publishing") =>
          (main = "waiting" /\ Limited ~> main = "returned")
    /\ signal = "raised" ~> main \in {"failed", "returned"}
=============================================================================
