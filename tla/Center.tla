------------------------------- MODULE Center -------------------------------
(***************************************************************************)
(* msg/center.go: the directory of message boxes, one per topic.  GetBox   *)
(* creates the box of a topic or waits for the call that does; LeaveBox    *)
(* and Close clean an entry up.  The mutex guards only short sections: the *)
(* box is created and closed outside it, so an entry is found half made    *)
(* and half cleaned, and the channels ready and done order the rest.       *)
(*                                                                         *)
(* A GetBox call creates at most one entry, and returns with it, so an     *)
(* entry is named by the call that created it.  A section under the mutex  *)
(* is one step.  A box is open or closed here; its life is module Box.     *)
(*                                                                         *)
(* External: pubsub refuses a second validator and a second Join of a      *)
(* topic, may refuse either for other reasons, and refuses everything once *)
(* its context is over (CancelBackend).                                    *)
(***************************************************************************)
CONSTANTS
    Topics,    \* topic IDs
    Getters,   \* calls of GetBox
    Leavers,   \* calls of LeaveBox
    Closers,   \* calls of Close
    TopicOf,   \* the topic a GetBox or LeaveBox call is for
    None       \* no entry

\* Close cleans up with one goroutine per topic, named by the topic.
Cleaners == Leavers \cup Topics

ASSUME CenterCallsAssumption ==
    /\ TopicOf \in [Getters \cup Leavers -> Topics]
    /\ None \notin Getters
    /\ Topics \cap (Getters \cup Leavers) = {}
    /\ Getters \cap Leavers = {}

VARIABLES
    entries,      \* Center.entries
    closed,       \* Center.closed
    entry,        \* the topicEntry each GetBox call created
    pc,           \* place of a GetBox call
    cleanPC,      \* place of a cleanupEntry call
    target,       \* the entry a call works on
    cpc, closeOnce,
    validator, joined,  \* pubsub: topics with a validator, joined topics
    backendDone,  \* pubsub's context is over
    dead          \* history: boxes closed before a GetBox call began

vars == <<entries, closed, entry, pc, cleanPC, target, cpc, closeOnce,
          validator, joined, backendDone, dead>>

Entry == [ready : BOOLEAN, done : BOOLEAN, closing : BOOLEAN,
          box : {"none", "open", "closed"}, err : BOOLEAN,
          cleanupErr : BOOLEAN, once : {"new", "running", "over"}]

newEntry == [ready |-> FALSE, done |-> FALSE, closing |-> FALSE, box |-> "none",
             err |-> FALSE, cleanupErr |-> FALSE, once |-> "new"]

topic(x) == IF x \in Topics THEN x ELSE TopicOf[x]

\* NewCenter.
Init ==
    /\ entries = [t \in Topics |-> None] /\ closed = FALSE
    /\ entry = [g \in Getters |-> newEntry]
    /\ pc = [g \in Getters |-> "idle"]
    /\ cleanPC = [x \in Cleaners |-> "idle"]
    /\ target = [x \in Getters \cup Cleaners |-> None]
    /\ cpc = [k \in Closers |-> "idle"] /\ closeOnce = "new"
    /\ validator = {} /\ joined = {} /\ backendDone = FALSE
    /\ dead = [g \in Getters |-> {}]

-----------------------------------------------------------------------------
(***************************************************************************)
(* GetBox.                                                                 *)
(***************************************************************************)
goto(g, place) == pc' = [pc EXCEPT ![g] = place]

getterFrame == UNCHANGED <<closed, cleanPC, cpc, closeOnce, backendDone>>

getCall(g) ==
    /\ pc[g] = "idle" /\ goto(g, "lookup")
    /\ dead' = [dead EXCEPT ![g] = {e \in Getters : entry[e].box = "closed"}]
    /\ getterFrame
    /\ UNCHANGED <<entries, entry, target, validator, joined>>

\* Mutant of lookup: closed is not looked at.
lookupClosed(g) ==
    /\ pc[g] = "lookup"
    /\ \/ /\ entries[topic(g)] = None
          /\ entries' = [entries EXCEPT ![topic(g)] = g]
          /\ target' = [target EXCEPT ![g] = g]
          /\ goto(g, "register")
       \/ /\ entries[topic(g)] # None
          /\ target' = [target EXCEPT ![g] = entries[topic(g)]]
          /\ goto(g, "waitReady")
          /\ UNCHANGED entries
    /\ getterFrame
    /\ UNCHANGED <<entry, validator, joined, dead>>

\* The first section: refuse, create, or wait for whoever has created.
lookup(g) ==
    /\ pc[g] = "lookup"
    /\ \/ closed /\ goto(g, "gotClosed") /\ UNCHANGED <<entries, target>>
       \/ /\ ~closed /\ entries[topic(g)] = None
          /\ entries' = [entries EXCEPT ![topic(g)] = g]
          /\ target' = [target EXCEPT ![g] = g]
          /\ goto(g, "register")
       \/ /\ ~closed /\ entries[topic(g)] # None
          /\ target' = [target EXCEPT ![g] = entries[topic(g)]]
          /\ goto(g, "waitReady")
          /\ UNCHANGED entries
    /\ getterFrame
    /\ UNCHANGED <<entry, validator, joined, dead>>

\* createBox: RegisterTopicValidator, Join, and the rollback of the first.
register(g) ==
    /\ pc[g] = "register"
    /\ \/ /\ ~backendDone /\ topic(g) \notin validator
          /\ validator' = validator \cup {topic(g)}
          /\ goto(g, "join")
       \/ goto(g, "failed") /\ UNCHANGED validator
    /\ getterFrame
    /\ UNCHANGED <<entries, entry, target, joined, dead>>

joinTopic(g) ==
    /\ pc[g] = "join"
    /\ \/ /\ ~backendDone /\ topic(g) \notin joined
          /\ joined' = joined \cup {topic(g)}
          /\ goto(g, "created")
       \/ goto(g, "rollback") /\ UNCHANGED joined
    /\ getterFrame
    /\ UNCHANGED <<entries, entry, target, validator, dead>>

\* UnregisterTopicValidator fails only when the backend is over.
unregister(t) == validator' = IF backendDone THEN validator ELSE validator \ {t}

rollback(g) ==
    /\ pc[g] = "rollback"
    /\ unregister(topic(g))
    /\ goto(g, "failed")
    /\ getterFrame
    /\ UNCHANGED <<entries, entry, target, joined, dead>>

\* Mutant of settledEntry: ready is closed only when there is a box.
settledEntryUnready(e, failed) ==
    [e EXCEPT !.ready = ~failed, !.err = failed,
              !.box = IF failed THEN "none" ELSE "open",
              !.cleanupErr = failed /\ ~e.closing,
              !.done = failed /\ ~e.closing]

\* The creator's entry after the second section.
settledEntry(e, failed) ==
    [e EXCEPT !.ready = TRUE, !.err = failed,
              !.box = IF failed THEN "none" ELSE "open",
              !.cleanupErr = failed /\ ~e.closing,
              !.done = failed /\ ~e.closing]

\* A failed creation that nobody is cleaning up takes its entry back.
settle(g) ==
    /\ pc[g] \in {"created", "failed"}
    /\ LET failed == pc[g] = "failed" IN
       /\ entry' = [entry EXCEPT ![g] = settledEntry(@, failed)]
       /\ entries' = IF failed /\ ~entry[g].closing /\ entries[topic(g)] = g
                     THEN [entries EXCEPT ![topic(g)] = None] ELSE entries
       /\ goto(g, IF failed THEN "gotError" ELSE "gotBox")
    /\ getterFrame
    /\ UNCHANGED <<target, validator, joined, dead>>

\* A waiting call: ready, then closing under the read lock, then done.
waitReady(g) ==
    /\ pc[g] = "waitReady" /\ entry[target[g]].ready
    /\ goto(g, IF entry[target[g]].closing THEN "waitDone" ELSE "checkDone")
    /\ getterFrame
    /\ UNCHANGED <<entries, entry, target, validator, joined, dead>>

waitDone(g) ==
    /\ pc[g] = "waitDone" /\ entry[target[g]].done
    /\ goto(g, IF entry[target[g]].cleanupErr THEN "gotError" ELSE "lookup")
    /\ getterFrame
    /\ UNCHANGED <<entries, entry, target, validator, joined, dead>>

checkDone(g) ==
    /\ pc[g] = "checkDone"
    /\ LET e == entry[target[g]] IN
       goto(g, IF e.err THEN "gotError" ELSE IF e.done THEN "lookup" ELSE "gotBox")
    /\ getterFrame
    /\ UNCHANGED <<entries, entry, target, validator, joined, dead>>

-----------------------------------------------------------------------------
(***************************************************************************)
(* cleanupEntry, called by LeaveBox and by the goroutines of Close.        *)
(***************************************************************************)
cleanStep(x, from, to) ==
    /\ cleanPC[x] = from
    /\ cleanPC' = [cleanPC EXCEPT ![x] = to]
    /\ UNCHANGED <<closed, pc, cpc, closeOnce, backendDone, dead>>

\* LeaveBox finds the entry, and lets the mutex go before cleanupEntry.
LeaveBox(x) ==
    /\ x \in Leavers
    /\ \/ /\ entries[topic(x)] = None
          /\ cleanStep(x, "idle", "notFound")
          /\ UNCHANGED target
       \/ /\ entries[topic(x)] # None
          /\ cleanStep(x, "idle", "enter")
          /\ target' = [target EXCEPT ![x] = entries[topic(x)]]
    /\ UNCHANGED <<entries, entry, validator, joined>>

\* Mutant of markClosing: the flag is not raised.
markNothing(e) == UNCHANGED entry

markClosing(e) == entry' = [entry EXCEPT ![e].closing = TRUE]

\* The first section of cleanupEntry.
enterCleanup(x) ==
    /\ \/ /\ cleanStep(x, "enter", "returned")
          /\ entry[target[x]].done
          /\ UNCHANGED entry
       \/ /\ cleanStep(x, "enter", "once")
          /\ ~entry[target[x]].done
          /\ markClosing(target[x])
    /\ UNCHANGED <<entries, target, validator, joined>>

\* cleanupOnce.Do: the first caller runs the body, the others wait for it.
once(x) ==
    /\ \/ /\ cleanStep(x, "once", "body")
          /\ entry[target[x]].once = "new"
          /\ entry' = [entry EXCEPT ![target[x]].once = "running"]
       \/ /\ cleanStep(x, "once", "wait")
          /\ entry[target[x]].once = "over"
          /\ UNCHANGED entry
    /\ UNCHANGED <<entries, target, validator, joined>>

\* The body waits for the creation; without a box its error is the result.
awaitCreation(x) ==
    /\ cleanPC[x] = "body" /\ entry[target[x]].ready
    /\ \/ /\ cleanStep(x, "body", "closeBox")
          /\ entry[target[x]].box # "none"
          /\ UNCHANGED entry
       \/ /\ cleanStep(x, "body", "remove")
          /\ entry[target[x]].box = "none"
          /\ entry' = [entry EXCEPT ![target[x]].cleanupErr =
                          entry[target[x]].err]
    /\ UNCHANGED <<entries, target, validator, joined>>

\* box.Close returns; its error is that of topic.Close, which keeps the topic.
closeBox(x) ==
    /\ cleanStep(x, "closeBox", "unregister")
    /\ \/ /\ ~backendDone
          /\ joined' = joined \ {topic(x)}
          /\ entry' = [entry EXCEPT ![target[x]].box = "closed"]
       \/ /\ entry' = [entry EXCEPT ![target[x]].box = "closed",
                                    ![target[x]].cleanupErr = TRUE]
          /\ UNCHANGED joined
    /\ UNCHANGED <<entries, target, validator>>

unregisterValidator(x) ==
    /\ cleanStep(x, "unregister", "remove")
    /\ unregister(topic(x))
    /\ entry' = [entry EXCEPT ![target[x]].cleanupErr = @ \/ backendDone]
    /\ UNCHANGED <<entries, target, joined>>

\* Mutant of removable: an entry whose cleanup failed is removed too.
removableAlways(x) == entries[topic(x)] = target[x]

\* Only a clean entry leaves the map, and only if it is still the topic's.
removable(x) ==
    entries[topic(x)] = target[x] /\ ~entry[target[x]].cleanupErr

\* The second section of cleanupEntry.
removeEntry(x) ==
    /\ cleanStep(x, "remove", "closeDone")
    /\ entries' = IF removable(x) THEN [entries EXCEPT ![topic(x)] = None]
                  ELSE entries
    /\ UNCHANGED <<entry, target, validator, joined>>

closeDone(x) ==
    /\ cleanStep(x, "closeDone", "wait")
    /\ entry' = [entry EXCEPT ![target[x]].done = TRUE,
                              ![target[x]].once = "over"]
    /\ UNCHANGED <<entries, target, validator, joined>>

cleanupReturns(x) ==
    /\ cleanStep(x, "wait", "returned")
    /\ entry[target[x]].done
    /\ UNCHANGED <<entries, entry, target, validator, joined>>

-----------------------------------------------------------------------------
(***************************************************************************)
(* Close.                                                                  *)
(***************************************************************************)
closeFrame == UNCHANGED <<entries, entry, pc, validator, joined, backendDone, dead>>

\* Mutant of snapshot: entries still being created are passed over.
snapshotReady == {t \in Topics : entries[t] # None /\ entry[entries[t]].ready}

snapshot == {t \in Topics : entries[t] # None}

\* The first caller marks the center and starts a cleanup per entry.
Close(k) ==
    /\ cpc[k] = "idle" /\ cpc' = [cpc EXCEPT ![k] = "wait"]
    /\ IF closeOnce = "new"
       THEN /\ closeOnce' = "body" /\ closed' = TRUE
            /\ cleanPC' = [x \in Cleaners |->
                              IF x \in snapshot THEN "enter" ELSE cleanPC[x]]
            /\ target' = [x \in Getters \cup Cleaners |->
                              IF x \in snapshot THEN entries[x] ELSE target[x]]
       ELSE UNCHANGED <<closeOnce, closed, cleanPC, target>>
    /\ closeFrame

\* wg.Wait: every cleanup has returned.
closeBodyEnds ==
    /\ closeOnce = "body" /\ closeOnce' = "over"
    /\ \A t \in Topics : cleanPC[t] \in {"idle", "returned"}
    /\ closeFrame
    /\ UNCHANGED <<closed, cleanPC, target, cpc>>

closeReturns(k) ==
    /\ cpc[k] = "wait" /\ closeOnce = "over"
    /\ cpc' = [cpc EXCEPT ![k] = "returned"]
    /\ closeFrame
    /\ UNCHANGED <<closed, cleanPC, target, closeOnce>>

\* relayer.CancelBackend ends pubsub's context.
CancelBackend ==
    /\ ~backendDone /\ backendDone' = TRUE
    /\ UNCHANGED <<entries, closed, entry, pc, cleanPC, target, cpc,
                   closeOnce, validator, joined, dead>>

-----------------------------------------------------------------------------
getterStep(g) ==
    \/ lookup(g) \/ register(g) \/ joinTopic(g) \/ rollback(g) \/ settle(g)
    \/ waitReady(g) \/ waitDone(g) \/ checkDone(g)

cleanerStep(x) ==
    \/ enterCleanup(x) \/ once(x) \/ awaitCreation(x) \/ closeBox(x)
    \/ unregisterValidator(x) \/ removeEntry(x) \/ closeDone(x)
    \/ cleanupReturns(x)

Next ==
    \/ \E g \in Getters : getCall(g) \/ getterStep(g)
    \/ \E x \in Cleaners : LeaveBox(x) \/ cleanerStep(x)
    \/ \E k \in Closers : Close(k) \/ closeReturns(k)
    \/ closeBodyEnds
    \/ CancelBackend

Spec == Init /\ [][Next]_vars

(***************************************************************************)
(* Every goroutine whose next step is ready takes it; pubsub answers, and  *)
(* box.Close returns (CallsReturn of module Box).  Nothing makes a caller  *)
(* call.                                                                   *)
(***************************************************************************)
Fairness ==
    /\ \A g \in Getters : WF_vars(getterStep(g))
    /\ \A x \in Cleaners : WF_vars(cleanerStep(x))
    /\ \A k \in Closers : WF_vars(closeReturns(k))
    /\ WF_vars(closeBodyEnds)

FairSpec == Spec /\ Fairness

-----------------------------------------------------------------------------
(***************************************************************************)
(* Properties.                                                             *)
(***************************************************************************)
\* The type of every variable of the center (center.go:15-35).
TypeOK ==
    /\ entries \in [Topics -> Getters \cup {None}]
    /\ closed \in BOOLEAN /\ backendDone \in BOOLEAN
    /\ entry \in [Getters -> Entry]
    /\ pc \in [Getters -> {"idle", "lookup", "register", "join", "rollback",
                           "created", "failed", "waitReady", "waitDone",
                           "checkDone", "gotClosed", "gotError", "gotBox"}]
    /\ cleanPC \in [Cleaners -> {"idle", "notFound", "enter", "once", "body",
                                 "closeBox", "unregister", "remove",
                                 "closeDone", "wait", "returned"}]
    /\ target \in [Getters \cup Cleaners -> Getters \cup {None}]
    /\ cpc \in [Closers -> {"idle", "wait", "returned"}]
    /\ closeOnce \in {"new", "body", "over"}
    /\ validator \subseteq Topics /\ joined \subseteq Topics
    /\ dead \in [Getters -> SUBSET Getters]

\* A GetBox call that is inside createBox or about to publish its result.
Creating(g) == pc[g] \in {"register", "join", "rollback", "created", "failed"}

(***************************************************************************)
(* Two incarnations of a topic never overlap: while the backend is up, a   *)
(* topic without an entry holds nothing in pubsub and has no open box, and *)
(* the call that starts to create one finds neither a validator nor a      *)
(* joined topic, so RegisterTopicValidator and Join are never refused as   *)
(* duplicates of what an earlier box left behind (center.go:57-81,         *)
(* 135-148).                                                               *)
(***************************************************************************)
OneIncarnation ==
    /\ \A g \in Getters :
          Creating(g) \/ entry[g].box = "open" => entries[topic(g)] = g
    /\ ~backendDone =>
          /\ \A t \in validator \cup joined : entries[t] # None
          /\ \A g \in Getters :
                pc[g] = "register" => topic(g) \notin validator \cup joined

(***************************************************************************)
(* When Close has returned every box is closed, no creation is under way   *)
(* and none can begin, also for a box that was still being created when    *)
(* Close took its snapshot (center.go:170-197).                            *)
(***************************************************************************)
ClosedForGood ==
    (\E k \in Closers : cpc[k] = "returned") =>
        \A g \in Getters : ~Creating(g) /\ entry[g].box # "open"

(***************************************************************************)
(* GetBox never returns a box that was closed before the call began, and   *)
(* never a nil box without an error (center.go:83-102).                    *)
(***************************************************************************)
FreshBox ==
    \A g \in Getters : pc[g] = "gotBox" =>
        entry[target[g]].box # "none" /\ target[g] \notin dead[g]

\* Every GetBox, LeaveBox and Close call returns, whatever they wait for.
CallsReturn ==
    /\ \A g \in Getters :
          pc[g] = "lookup" ~> pc[g] \in {"gotClosed", "gotError", "gotBox"}
    /\ \A x \in Cleaners : cleanPC[x] = "enter" ~> cleanPC[x] = "returned"
    /\ \A k \in Closers : cpc[k] = "wait" ~> cpc[k] = "returned"
=============================================================================
