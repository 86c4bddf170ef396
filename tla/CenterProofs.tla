---------------------------- MODULE CenterProofs ----------------------------
(***************************************************************************)
(* Theorems about Center, for any topics and any number of calls.          *)
(***************************************************************************)
EXTENDS CenterDirectory, TLAPS

\* topic names the topic of every call and of every cleanup.
LEMMA TopicType == \A x \in Getters \cup Cleaners : topic(x) \in Topics
BY CenterCallsAssumption DEF CenterCallsAssumption, topic, Cleaners

\* Entries stay entries when a field is given a value of its type.
LEMMA EntryUpdates ==
  ASSUME NEW e \in Entry, NEW b \in BOOLEAN, NEW x \in {"none", "open", "closed"},
         NEW o \in {"new", "running", "over"}
  PROVE  /\ [e EXCEPT !.closing = TRUE] \in Entry
         /\ [e EXCEPT !.once = o] \in Entry
         /\ [e EXCEPT !.cleanupErr = b] \in Entry
         /\ [e EXCEPT !.box = x] \in Entry
         /\ [e EXCEPT !.box = x, !.cleanupErr = TRUE] \in Entry
         /\ [e EXCEPT !.done = TRUE, !.once = o] \in Entry
BY DEF Entry

LEMMA TypeInit == Init => TypeOK
<1> SUFFICES ASSUME Init PROVE TypeOK OBVIOUS
<1>1. newEntry \in Entry BY DEF newEntry, Entry
<1>2. closed \in BOOLEAN /\ backendDone \in BOOLEAN BY DEF Init
<1> QED BY <1>1, <1>2 DEF Init, TypeOK

\* The steps of GetBox keep the type.
LEMMA GetterType ==
  ASSUME TypeOK, NEW g \in Getters, getCall(g) \/ getterStep(g)
  PROVE  TypeOK'
<1> topic(g) \in Topics BY TopicType
<1> USE DEF TypeOK, goto, getterFrame
<1>1. CASE getCall(g) BY <1>1 DEF getCall
<1>2. CASE lookup(g)
  <2>1. entries' \in [Topics -> Getters \cup {None}]
    BY <1>2 DEF lookup
  <2>2. target' \in [Getters \cup Cleaners -> Getters \cup {None}]
    BY <1>2 DEF lookup
  <2> QED BY <1>2, <2>1, <2>2 DEF lookup
<1>3. CASE register(g) BY <1>3 DEF register
<1>4. CASE joinTopic(g) BY <1>4 DEF joinTopic
<1>5. CASE rollback(g) BY <1>5 DEF rollback, unregister
<1>6. CASE settle(g)
  <2>1. settledEntry(entry[g], pc[g] = "failed") \in Entry
    <3> DEFINE F == pc[g] = "failed"
    <3>1. entry[g] \in Entry /\ F \in BOOLEAN /\ (F /\ ~entry[g].closing) \in BOOLEAN
      OBVIOUS
    <3> HIDE DEF F
    <3>2. ASSUME NEW e \in Entry, NEW f \in BOOLEAN, NEW c \in BOOLEAN,
                 NEW b \in {"none", "open", "closed"}
          PROVE  [e EXCEPT !.ready = TRUE, !.err = f, !.box = b,
                           !.cleanupErr = c, !.done = c] \in Entry
      BY DEF Entry
    <3>3. settledEntry(entry[g], F) \in Entry
      BY <3>1, <3>2 DEF settledEntry
    <3> QED BY <3>3 DEF F
  <2>2. entry' \in [Getters -> Entry]
    BY <1>6, <2>1 DEF settle
  <2>3. entries' \in [Topics -> Getters \cup {None}]
    BY <1>6 DEF settle
  <2> QED BY <1>6, <2>2, <2>3 DEF settle
<1>7. CASE waitReady(g) BY <1>7 DEF waitReady
<1>8. CASE waitDone(g) BY <1>8 DEF waitDone
<1>9. CASE checkDone(g) BY <1>9 DEF checkDone
<1> QED
  BY <1>1, <1>2, <1>3, <1>4, <1>5, <1>6, <1>7, <1>8, <1>9 DEF getterStep

\* The steps of LeaveBox and of cleanupEntry keep the type.
LEMMA CleanerType ==
  ASSUME TypeOK, NEW x \in Cleaners, LeaveBox(x) \/ cleanerStep(x)
  PROVE  TypeOK'
<1> topic(x) \in Topics BY TopicType
<1> USE DEF TypeOK, cleanStep
<1>1. CASE LeaveBox(x) BY <1>1 DEF LeaveBox
<1>2. CASE enterCleanup(x)
  <2>1. entry' \in [Getters -> Entry]
    <3>1. CASE target[x] \in Getters
      <4>1. entry[target[x]] \in Entry BY <3>1
      <4> QED BY <1>2, <3>1, <4>1, EntryUpdates DEF enterCleanup, markClosing
    <3>2. CASE target[x] \notin Getters
      BY <1>2, <3>2 DEF enterCleanup, markClosing
    <3> QED BY <3>1, <3>2
  <2> QED BY <1>2, <2>1 DEF enterCleanup
<1>3. CASE once(x)
  <2>1. entry' \in [Getters -> Entry]
    <3>1. CASE target[x] \in Getters
      <4>1. entry[target[x]] \in Entry BY <3>1
      <4> QED BY <1>3, <3>1, <4>1, EntryUpdates DEF once
    <3>2. CASE target[x] \notin Getters
      BY <1>3, <3>2 DEF once
    <3> QED BY <3>1, <3>2
  <2> QED BY <1>3, <2>1 DEF once
<1>4. CASE awaitCreation(x)
  <2>1. entry' \in [Getters -> Entry]
    <3>1. CASE target[x] \in Getters
      <4>1. entry[target[x]] \in Entry BY <3>1
      <4>2. entry[target[x]].err \in BOOLEAN BY <4>1 DEF Entry
      <4>3. [entry[target[x]] EXCEPT !.cleanupErr = entry[target[x]].err] \in Entry
        BY <4>1, <4>2, EntryUpdates
      <4> HIDE DEF TypeOK
      <4>4. entry \in [Getters -> Entry] BY DEF TypeOK
      <4>5. entry' = entry \/ entry' = [entry EXCEPT ![target[x]].cleanupErr =
                                                       entry[target[x]].err]
        BY <1>4 DEF awaitCreation
      <4> QED BY <3>1, <4>3, <4>4, <4>5
    <3>2. CASE target[x] \notin Getters
      BY <1>4, <3>2 DEF awaitCreation
    <3> QED BY <3>1, <3>2
  <2> QED BY <1>4, <2>1 DEF awaitCreation
<1>5. CASE closeBox(x)
  <2>1. entry' \in [Getters -> Entry]
    <3>1. CASE target[x] \in Getters
      <4>1. entry[target[x]] \in Entry BY <3>1
      <4> QED BY <1>5, <3>1, <4>1, EntryUpdates DEF closeBox
    <3>2. CASE target[x] \notin Getters
      BY <1>5, <3>2 DEF closeBox
    <3> QED BY <3>1, <3>2
  <2> QED BY <1>5, <2>1 DEF closeBox
<1>6. CASE unregisterValidator(x)
  <2>1. entry' \in [Getters -> Entry]
    <3>1. CASE target[x] \in Getters
      <4>1. entry[target[x]] \in Entry BY <3>1
      <4> QED BY <1>6, <3>1, <4>1, EntryUpdates DEF unregisterValidator
    <3>2. CASE target[x] \notin Getters
      BY <1>6, <3>2 DEF unregisterValidator
    <3> QED BY <3>1, <3>2
  <2> QED BY <1>6, <2>1 DEF unregisterValidator, unregister
<1>7. CASE removeEntry(x) BY <1>7 DEF removeEntry
<1>8. CASE closeDone(x)
  <2>1. entry' \in [Getters -> Entry]
    <3>1. CASE target[x] \in Getters
      <4>1. entry[target[x]] \in Entry BY <3>1
      <4> QED BY <1>8, <3>1, <4>1, EntryUpdates DEF closeDone
    <3>2. CASE target[x] \notin Getters
      BY <1>8, <3>2 DEF closeDone
    <3> QED BY <3>1, <3>2
  <2> QED BY <1>8, <2>1 DEF closeDone
<1>9. CASE cleanupReturns(x) BY <1>9 DEF cleanupReturns
<1> QED
  BY <1>1, <1>2, <1>3, <1>4, <1>5, <1>6, <1>7, <1>8, <1>9 DEF cleanerStep

\* The steps of Close keep the type.
LEMMA CloserType ==
  ASSUME TypeOK,
         \/ \E k \in Closers : Close(k) \/ closeReturns(k)
         \/ closeBodyEnds \/ CancelBackend
  PROVE  TypeOK'
<1> USE DEF TypeOK, closeFrame
<1>1. ASSUME NEW k \in Closers, Close(k) PROVE TypeOK'
  <2>1. closed' \in BOOLEAN /\ closeOnce' \in {"new", "body", "over"}
    BY <1>1 DEF Close
  <2>2. cleanPC' \in [Cleaners -> {"idle", "notFound", "enter", "once", "body",
                                   "closeBox", "unregister", "remove",
                                   "closeDone", "wait", "returned"}]
    BY <1>1 DEF Close
  <2>3. target' \in [Getters \cup Cleaners -> Getters \cup {None}]
    BY <1>1 DEF Close, snapshot
  <2> QED BY <1>1, <2>1, <2>2, <2>3 DEF Close
<1>2. ASSUME NEW k \in Closers, closeReturns(k) PROVE TypeOK'
  BY <1>2 DEF closeReturns
<1>3. CASE closeBodyEnds BY <1>3 DEF closeBodyEnds
<1>4. CASE CancelBackend BY <1>4 DEF CancelBackend
<1> QED BY <1>1, <1>2, <1>3, <1>4

LEMMA TypeStep == ASSUME TypeOK, [Next]_vars PROVE TypeOK'
<1>1. CASE UNCHANGED vars BY <1>1 DEF TypeOK, vars
<1>2. CASE Next BY <1>2, GetterType, CleanerType, CloserType DEF Next
<1> QED BY <1>1, <1>2

(***************************************************************************)
(* The variables of the center keep their types: an entry is one of the    *)
(* calls' and pubsub only knows the center's topics (center.go:15-35).     *)
(***************************************************************************)
THEOREM TypeCorrect == Spec => []TypeOK
  BY TypeInit, TypeStep, PTL DEF Spec

-----------------------------------------------------------------------------
(***************************************************************************)
(* The inductive invariant.  A call that has created an entry is spent.    *)
(***************************************************************************)
Spent(g) == target[g] = g

\* Places inside the body of cleanupOnce, and those before the entry goes.
Removing == {"body", "closeBox", "unregister", "remove"}
Body     == Removing \cup {"closeDone"}
Waiting  == {"waitReady", "waitDone", "checkDone"}

\* Entries in the map, and those that calls hold, are made, and for the topic.
Ownership ==
    /\ \A t \in Topics : entries[t] # None => topic(entries[t]) = t /\ Spent(entries[t])
    /\ \A y \in Getters \cup Cleaners :
          target[y] # None => topic(target[y]) = topic(y) /\ Spent(target[y])
    /\ \A x \in Cleaners : cleanPC[x] \notin {"idle", "notFound"} => target[x] # None
    /\ \A g \in Getters :
          /\ pc[g] \in Waiting \cup {"gotBox"} => target[g] # None
          /\ pc[g] \in Waiting \cup {"idle", "lookup"} => ~Spent(g)
          /\ ~Spent(g) => entry[g] = newEntry

\* How the fields of an entry go together, and when it is in the map.
EntryShape ==
    \A g \in Getters :
        LET e == entry[g] IN
        /\ Creating(g) => /\ Spent(g) /\ entries[topic(g)] = g
                          /\ ~e.ready /\ ~e.done /\ e.box = "none"
        /\ e.ready /\ e.box = "none" => e.err
        /\ e.box = "open" => entries[topic(g)] = g /\ e.ready /\ ~e.done
        /\ e.box = "closed" => e.closing /\ e.ready /\ e.once # "new"
        /\ e.once = "new" /\ e.done => ~e.closing
        /\ e.once = "over" => e.done
        /\ Spent(g) /\ ~e.done /\ e.once = "new" => entries[topic(g)] = g

\* One body runs per entry; what is true of the entry at each of its places.
CleanShape ==
    /\ \A x, y \in Cleaners :
          cleanPC[x] \in Body /\ cleanPC[y] \in Body /\ target[x] = target[y] => x = y
    /\ \A x \in Cleaners :
          LET e == entry[target[x]] IN
          /\ cleanPC[x] = "once" => e.closing
          /\ cleanPC[x] \in Body => e.closing /\ e.once = "running" /\ ~e.done
          /\ cleanPC[x] \in Removing => entries[topic(x)] = target[x]
          /\ cleanPC[x] = "body" => e.box # "closed"
          /\ cleanPC[x] = "closeBox" => e.box = "open"
          /\ cleanPC[x] = "unregister" =>
                e.box = "closed" /\ (e.cleanupErr \/ topic(x) \notin joined)
          /\ cleanPC[x] = "remove" =>
                /\ e.ready /\ e.box # "open"
                /\ e.cleanupErr \/ topic(x) \notin validator \cup joined
          /\ cleanPC[x] = "closeDone" => e.ready /\ e.box # "open"

\* What pubsub holds for a topic, while the backend is up.
PubsubShape ==
    ~backendDone =>
        /\ \A t \in Topics : entries[t] = None => t \notin validator \cup joined
        /\ \A g \in Getters :
              /\ pc[g] \in {"register", "failed"} => topic(g) \notin validator \cup joined
              /\ pc[g] \in {"join", "rollback"} => topic(g) \notin joined

\* After the snapshot of Close, what is alive has a cleanup under way.
ClosingShape ==
    /\ closed <=> closeOnce # "new"
    /\ closed => \A g \in Getters :
          Creating(g) \/ entry[g].box = "open" =>
              /\ target[topic(g)] = g /\ cleanPC[topic(g)] \notin {"idle", "returned"}
              /\ closeOnce # "over"
    /\ \A k \in Closers : cpc[k] = "returned" => closeOnce = "over"

\* A dead box stays closed, and a call that goes past closing waits for none.
DeadShape ==
    \A g \in Getters :
        /\ \A e \in dead[g] : entry[e].box = "closed"
        /\ pc[g] = "checkDone" => entry[target[g]].ready /\ target[g] \notin dead[g]

CenterInv ==
    /\ TypeOK /\ Ownership /\ EntryShape /\ CleanShape /\ PubsubShape
    /\ ClosingShape /\ DeadShape /\ FreshBox

\* Calls, topics and None are told apart.
LEMMA Distinct ==
    /\ None \notin Getters /\ Getters \cap Cleaners = {} /\ Leavers \cap Topics = {}
    /\ Topics \subseteq Cleaners /\ \A t \in Topics : topic(t) = t
BY CenterCallsAssumption DEF CenterCallsAssumption, Cleaners, topic

LEMMA CenterInvInit == Init => CenterInv
<1> SUFFICES ASSUME Init PROVE CenterInv OBVIOUS
<1>1. TypeOK BY TypeInit
<1>2. Ownership
  BY Distinct DEF Init, Ownership, Spent, Waiting
<1>3. EntryShape
  BY Distinct DEF Init, EntryShape, Creating, newEntry, Spent
<1>4. CleanShape BY DEF Init, CleanShape, Body, Removing
<1>5. PubsubShape BY DEF Init, PubsubShape
<1>6. ClosingShape BY DEF Init, ClosingShape, Creating, newEntry
<1>7. DeadShape /\ FreshBox BY DEF Init, DeadShape, FreshBox
<1> QED BY <1>1, <1>2, <1>3, <1>4, <1>5, <1>6, <1>7 DEF CenterInv

-----------------------------------------------------------------------------
\* Steps of GetBox that touch no entry.
LEMMA PlainGetterInv ==
    ASSUME CenterInv, NEW g \in Getters,
           \/ getCall(g) \/ register(g) \/ joinTopic(g) \/ rollback(g)
           \/ waitReady(g) \/ waitDone(g) \/ checkDone(g)
    PROVE  CenterInv'
<1> USE DEF CenterInv
<1>0. topic(g) \in Topics BY TopicType
<1>1. TypeOK' BY GetterType DEF getterStep
<1>2. UNCHANGED <<entries, entry, target, cleanPC, closed, closeOnce, cpc, backendDone>>
  BY DEF getCall, register, joinTopic, rollback, waitReady, waitDone, checkDone, getterFrame
<1>3. /\ pc' = [pc EXCEPT ![g] = pc'[g]]
      /\ \/ pc[g] = "idle" /\ pc'[g] = "lookup"
         \/ pc[g] = "register" /\ pc'[g] \in {"join", "failed"}
         \/ pc[g] = "join" /\ pc'[g] \in {"created", "rollback"}
         \/ pc[g] = "rollback" /\ pc'[g] = "failed"
         \/ pc[g] = "waitReady" /\ pc'[g] \in {"waitDone", "checkDone"}
         \/ pc[g] = "waitDone" /\ pc'[g] \in {"gotError", "lookup"}
         \/ pc[g] = "checkDone" /\ pc'[g] \in {"gotError", "lookup", "gotBox"}
  BY DEF getCall, register, joinTopic, rollback, waitReady, waitDone, checkDone, goto, TypeOK
<1>4. \A h \in Getters : /\ h # g => pc'[h] = pc[h]
                         /\ Creating(h)' <=> Creating(h)
  BY <1>3 DEF Creating, TypeOK
<1>5. Ownership' BY <1>2, <1>3 DEF Ownership, Waiting, Spent, TypeOK
<1>6. EntryShape' BY <1>2, <1>4 DEF EntryShape, Spent
<1>7. /\ validator' = validator \/ (Creating(g) /\ validator' = validator \cup {topic(g)})
         \/ validator' \subseteq validator
      /\ joined' = joined \/ (Creating(g) /\ joined' = joined \cup {topic(g)})
  BY DEF getCall, register, joinTopic, rollback, waitReady, waitDone, checkDone,
         unregister, Creating
<1>8. CleanShape'
  <2>1. ASSUME NEW x \in Cleaners, cleanPC[x] \in {"unregister", "remove"}, topic(x) = topic(g)
        PROVE  ~Creating(g)
    <3>1. entries[topic(x)] = target[x] /\ target[x] \in Getters
      BY <2>1 DEF CleanShape, Removing, Ownership, TypeOK
    <3>2. entry[target[x]].ready
      BY <2>1, <3>1 DEF CleanShape, EntryShape
    <3> QED BY <2>1, <3>1, <3>2 DEF EntryShape
  <2>2. ASSUME NEW x \in Cleaners, cleanPC[x] \in {"unregister", "remove"}
        PROVE  /\ topic(x) \notin validator => topic(x) \notin validator'
               /\ topic(x) \notin joined => topic(x) \notin joined'
    BY <1>7, <2>1, <2>2
  <2> QED BY <1>2, <2>2 DEF CleanShape
<1>9. PubsubShape'
  <2>1. CASE pc[g] \in {"register", "join", "rollback"}
    <3>1. \A h \in Getters : Creating(h) /\ topic(h) = topic(g) => h = g
      BY <2>1 DEF EntryShape, Creating
    <3>2. entries[topic(g)] = g /\ None \notin Getters
      BY <2>1, Distinct DEF EntryShape, Creating
    <3>3. ASSUME ~backendDone
          PROVE  /\ \A t \in Topics \ {topic(g)} :
                       /\ t \notin validator => t \notin validator'
                       /\ t \notin joined => t \notin joined'
                 /\ pc'[g] = "failed" => topic(g) \notin validator' \cup joined'
                 /\ pc'[g] \in {"join", "rollback"} => topic(g) \notin joined'
      <4>1. CASE register(g)
        BY <3>3, <4>1, <1>3 DEF register, PubsubShape, goto, TypeOK
      <4>2. CASE joinTopic(g)
        BY <3>3, <4>2, <1>3 DEF joinTopic, PubsubShape, goto, TypeOK
      <4>3. CASE rollback(g)
        BY <3>3, <4>3, <1>3 DEF rollback, unregister, PubsubShape, goto, TypeOK
      <4> QED
        BY <2>1, <4>1, <4>2, <4>3 DEF getCall, waitReady, waitDone, checkDone
    <3>4. \A h \in Getters \ {g} :
              pc[h] \in {"register", "failed", "join", "rollback"} => topic(h) # topic(g)
      BY <3>1 DEF Creating
    <3> QED
      BY <1>2, <1>3, <1>4, <3>2, <3>3, <3>4, <2>1, TopicType DEF PubsubShape
  <2>2. CASE pc[g] \notin {"register", "join", "rollback"}
    <3>1. UNCHANGED <<validator, joined>>
      BY <2>2 DEF getCall, register, joinTopic, rollback, waitReady, waitDone, checkDone
    <3> QED BY <1>2, <1>3, <1>4, <2>2, <3>1 DEF PubsubShape
  <2> QED BY <2>1, <2>2
<1>10. ClosingShape' BY <1>2, <1>4 DEF ClosingShape
<1>11. /\ dead' = dead \/ dead' = [dead EXCEPT ![g] = {e \in Getters : entry[e].box = "closed"}]
       /\ pc'[g] # "lookup" => dead' = dead
  BY DEF getCall, register, joinTopic, rollback, waitReady, waitDone, checkDone, goto, TypeOK
<1>12. DeadShape'
  <2>1. \A h \in Getters : \A e \in dead'[h] : entry[e].box = "closed"
    BY <1>11 DEF DeadShape, TypeOK
  <2>2. pc'[g] = "checkDone" => entry[target[g]].ready /\ target[g] \notin dead[g]
    <3>1. CASE waitReady(g)
      <4>1. target[g] \in Getters BY <3>1 DEF waitReady, Ownership, Waiting, TypeOK
      <4>2. pc'[g] = "checkDone" => entry[target[g]].ready /\ ~entry[target[g]].closing
        BY <3>1 DEF waitReady, goto, TypeOK
      <4> QED BY <4>1, <4>2 DEF DeadShape, EntryShape
    <3>2. CASE ~waitReady(g)
      BY <1>3, <3>2 DEF getCall, register, joinTopic, rollback, waitDone, checkDone
    <3> QED BY <3>1, <3>2
  <2> QED BY <1>2, <1>4, <1>11, <2>1, <2>2 DEF DeadShape, TypeOK
<1>13. FreshBox'
  <2>1. pc'[g] = "gotBox" => entry[target[g]].box # "none" /\ target[g] \notin dead[g]
    <3>1. ASSUME pc'[g] = "gotBox"
          PROVE  pc[g] = "checkDone" /\ ~entry[target[g]].err
      BY <3>1, <1>3 DEF getCall, register, joinTopic, rollback, waitReady, waitDone,
                        checkDone, goto, TypeOK
    <3> QED BY <3>1 DEF DeadShape, EntryShape, Ownership, Waiting, TypeOK
  <2> QED BY <1>2, <1>4, <1>11, <2>1 DEF FreshBox, TypeOK
<1> QED BY <1>1, <1>5, <1>6, <1>8, <1>9, <1>10, <1>12, <1>13

\* The first section of GetBox.
LEMMA LookupInv == ASSUME CenterInv, NEW g \in Getters, lookup(g) PROVE CenterInv'
<1> USE DEF CenterInv
<1>0. topic(g) \in Topics BY TopicType
<1>1. TypeOK' BY GetterType DEF getterStep
<1>2. /\ UNCHANGED <<entry, validator, joined, dead, cleanPC, closed, closeOnce, cpc, backendDone>>
      /\ pc[g] = "lookup" /\ pc' = [pc EXCEPT ![g] = pc'[g]]
      /\ pc'[g] \in {"gotClosed", "register", "waitReady"}
  BY DEF lookup, getterFrame, goto, TypeOK
<1>3. \A h \in Getters \ {g} : pc'[h] = pc[h] /\ (Creating(h)' <=> Creating(h))
  BY <1>2 DEF Creating, TypeOK
<1>4. \A y \in (Getters \cup Cleaners) \ {g} : target'[y] = target[y]
  BY DEF lookup, TypeOK
<1>5. ~Spent(g) /\ entry[g] = newEntry /\ ~Creating(g)
  BY <1>2 DEF Ownership, Creating
<1>6. g \notin Cleaners /\ g # None /\ None \notin Getters
  BY Distinct
<1>7. \A y \in Getters \cup Cleaners : target[y] # g
  BY <1>5, <1>6 DEF Ownership
<1>8. \A t \in Topics : entries[t] # g
  BY <1>5, <1>6 DEF Ownership, Spent
<1>9. CASE pc'[g] = "gotClosed"
  <2>1. UNCHANGED <<entries, target>>
    BY <1>9 DEF lookup, goto, TypeOK
  <2>2. ~Creating(g)' BY <1>9 DEF Creating
  <2>3. Ownership' BY <1>2, <1>3, <1>9, <2>1 DEF Ownership, Spent, Waiting
  <2>4. EntryShape' BY <1>2, <1>3, <2>1, <2>2 DEF EntryShape, Spent
  <2>5. CleanShape' BY <1>2, <2>1 DEF CleanShape
  <2>6. PubsubShape' BY <1>2, <1>3, <1>9, <2>1 DEF PubsubShape
  <2>7. ClosingShape' BY <1>2, <1>3, <1>5, <2>1, <2>2 DEF ClosingShape
  <2>8. DeadShape' /\ FreshBox' BY <1>2, <1>3, <1>9, <2>1 DEF DeadShape, FreshBox
  <2> QED BY <1>1, <2>3, <2>4, <2>5, <2>6, <2>7, <2>8
<1>10. CASE pc'[g] = "register"
  <2>1. /\ ~closed /\ entries[topic(g)] = None
        /\ entries' = [entries EXCEPT ![topic(g)] = g] /\ target' = [target EXCEPT ![g] = g]
    BY <1>10 DEF lookup, goto, TypeOK
  <2>2. entries'[topic(g)] = g /\ target'[g] = g
        /\ \A t \in Topics \ {topic(g)} : entries'[t] = entries[t]
    BY <1>0, <2>1 DEF TypeOK
  <2>3. Ownership'
    <3>1. \A h \in Getters : Spent(h) => Spent(h)'
      BY <1>4, <1>5 DEF Spent
    <3>2. (\A t \in Topics :
              entries[t] # None => topic(entries[t]) = t /\ Spent(entries[t]))'
      BY <2>2, <3>1 DEF Ownership, Spent, TypeOK
    <3>3. (\A y \in Getters \cup Cleaners :
              target[y] # None => topic(target[y]) = topic(y) /\ Spent(target[y]))'
      BY <1>4, <2>2, <3>1 DEF Ownership, Spent, TypeOK
    <3>4. \A h \in Getters : ~Spent(h)' => ~Spent(h)
      BY <3>1
    <3>5. \A h \in Getters \ {g} : Spent(h)' <=> Spent(h)
      BY <1>4 DEF Spent
    <3> QED BY <1>2, <1>3, <1>4, <1>6, <1>10, <2>2, <3>2, <3>3, <3>4, <3>5
            DEF Ownership, Waiting
  <2>4. EntryShape'
    <3>1. ASSUME NEW h \in Getters \ {g}
          PROVE  /\ entries[topic(h)] = h => entries'[topic(h)] = h
                 /\ Spent(h)' <=> Spent(h)
      BY <1>4, <1>6, <2>1, <2>2, TopicType DEF Spent
    <3>2. ~newEntry.ready /\ ~newEntry.done /\ newEntry.box = "none" /\ newEntry.once = "new"
      BY DEF newEntry
    <3> QED BY <1>2, <1>3, <1>5, <2>2, <3>1, <3>2 DEF EntryShape, Spent
  <2>5. CleanShape'
    <3>1. \A x \in Cleaners : target'[x] = target[x]
      BY <1>4, <1>6
    <3>2. \A x \in Cleaners : cleanPC[x] \in Removing => entries'[topic(x)] = entries[topic(x)]
      BY <1>6, <2>1, <2>2, TopicType DEF CleanShape, Ownership, Removing
    <3> QED BY <1>2, <3>1, <3>2 DEF CleanShape
  <2>6. PubsubShape'
    BY <1>0, <1>2, <1>3, <1>6, <1>10, <2>1, <2>2 DEF PubsubShape
  <2>7. ClosingShape' BY <1>2, <2>1 DEF ClosingShape
  <2>8. DeadShape' /\ FreshBox'
    BY <1>2, <1>3, <1>4, <1>10 DEF DeadShape, FreshBox
  <2> QED BY <1>1, <2>3, <2>4, <2>5, <2>6, <2>7, <2>8
<1>11. CASE pc'[g] = "waitReady"
  <2>1. /\ entries[topic(g)] # None /\ UNCHANGED entries
        /\ target'[g] = entries[topic(g)]
    BY <1>11 DEF lookup, goto, TypeOK
  <2>2. \A h \in Getters : Spent(h)' <=> Spent(h)
    BY <1>0, <1>4, <1>5, <1>8, <2>1 DEF Spent
  <2>3. ~Creating(g)' BY <1>11 DEF Creating
  <2>4. \A x \in Cleaners : target'[x] = target[x] BY <1>4, <1>6
  <2>5. Ownership'
    <3>1. (\A y \in Getters \cup Cleaners :
              target[y] # None => topic(target[y]) = topic(y) /\ Spent(target[y]))'
      BY <1>0, <1>4, <2>1, <2>2 DEF Ownership, TypeOK, Spent
    <3>2. (\A t \in Topics :
              entries[t] # None => topic(entries[t]) = t /\ Spent(entries[t]))'
      BY <2>1, <2>2 DEF Ownership, TypeOK, Spent
    <3> QED BY <1>2, <1>3, <1>4, <1>5, <1>11, <2>1, <2>2, <2>4, <3>1, <3>2
            DEF Ownership, Waiting
  <2>6. EntryShape' BY <1>2, <1>3, <2>1, <2>2, <2>3 DEF EntryShape
  <2>7. CleanShape' BY <1>2, <2>1, <2>4 DEF CleanShape
  <2>8. PubsubShape' BY <1>2, <1>3, <1>11, <2>1 DEF PubsubShape
  <2>9. ClosingShape'
    BY <1>2, <1>3, <1>5, <2>3, <2>4, Distinct, TopicType DEF ClosingShape
  <2>10. DeadShape' /\ FreshBox'
    BY <1>2, <1>3, <1>4, <1>11 DEF DeadShape, FreshBox
  <2> QED BY <1>1, <2>5, <2>6, <2>7, <2>8, <2>9, <2>10
<1> QED BY <1>2, <1>9, <1>10, <1>11

\* The second section of GetBox.
LEMMA SettleInv == ASSUME CenterInv, NEW g \in Getters, settle(g) PROVE CenterInv'
<1> USE DEF CenterInv
<1>0. topic(g) \in Topics BY TopicType
<1>1. TypeOK' BY GetterType DEF getterStep
<1>2. /\ UNCHANGED <<target, validator, joined, dead, cleanPC, closed, closeOnce, cpc, backendDone>>
      /\ pc[g] \in {"created", "failed"} /\ pc' = [pc EXCEPT ![g] = pc'[g]]
      /\ pc'[g] = IF pc[g] = "failed" THEN "gotError" ELSE "gotBox"
  BY DEF settle, getterFrame, goto, TypeOK
<1>3. /\ Creating(g) /\ ~Creating(g)'
      /\ \A h \in Getters \ {g} : pc'[h] = pc[h] /\ (Creating(h)' <=> Creating(h))
  BY <1>2 DEF Creating, TypeOK
<1>4. /\ Spent(g) /\ entries[topic(g)] = g /\ ~entry[g].ready /\ ~entry[g].done
      /\ entry[g].box = "none"
  BY <1>3 DEF EntryShape
<1>5. /\ \A h \in Getters \ {g} : entry'[h] = entry[h]
      /\ entry'[g] = settledEntry(entry[g], pc[g] = "failed")
  BY DEF settle, TypeOK
<1>6. /\ entry'[g].ready
      /\ entry'[g].err <=> pc[g] = "failed"
      /\ entry'[g].box = IF pc[g] = "failed" THEN "none" ELSE "open"
      /\ entry'[g].done <=> pc[g] = "failed" /\ ~entry[g].closing
      /\ entry'[g].closing <=> entry[g].closing
      /\ entry'[g].once = entry[g].once
  <2>1. entry[g] \in Entry BY DEF TypeOK
  <2>2. CASE pc[g] = "failed"
    <3>1. (pc[g] = "failed") = TRUE BY <2>2
    <3>2. entry'[g] = settledEntry(entry[g], TRUE) BY <1>5, <3>1, Zenon
    <3>3. /\ entry'[g].ready = TRUE /\ entry'[g].err = TRUE /\ entry'[g].box = "none"
          /\ entry'[g].done = ~entry[g].closing
          /\ entry'[g].closing = entry[g].closing /\ entry'[g].once = entry[g].once
      BY <2>1, <3>2 DEF settledEntry, Entry
    <3> QED BY <2>2, <3>3
  <2>3. CASE pc[g] # "failed"
    <3>1. (pc[g] = "failed") = FALSE BY <2>3
    <3>2. entry'[g] = settledEntry(entry[g], FALSE) BY <1>5, <3>1, Zenon
    <3> QED BY <2>1, <2>3, <3>2 DEF settledEntry, Entry
  <2> QED BY <2>2, <2>3
<1>7. /\ \A t \in Topics \ {topic(g)} : entries'[t] = entries[t]
      /\ entries'[topic(g)] = IF pc[g] = "failed" /\ ~entry[g].closing THEN None ELSE g
  BY <1>0, <1>4 DEF settle, TypeOK
<1>8. \A h \in Getters : Spent(h)' <=> Spent(h)
  BY <1>2 DEF Spent
<1>9. \A h \in Getters \ {g} : entries[topic(h)] = h => entries'[topic(h)] = h
  BY <1>4, <1>7, TopicType
<1>10. None \notin Getters BY Distinct
<1>11. Ownership'
  <2>1. \A t \in Topics : entries'[t] # None => entries'[t] = entries[t]
    BY <1>4, <1>7
  <2>2. (\A t \in Topics : entries[t] # None => topic(entries[t]) = t /\ Spent(entries[t]))'
    BY <1>2, <2>1 DEF Ownership, TypeOK, Spent
  <2>3. (\A y \in Getters \cup Cleaners :
            target[y] # None => topic(target[y]) = topic(y) /\ Spent(target[y]))'
    BY <1>2 DEF Ownership, TypeOK, Spent
  <2>4. pc'[g] \in Waiting \cup {"gotBox"} => target'[g] # None
    BY <1>2, <1>4, <1>10 DEF Spent
  <2> QED BY <1>2, <1>3, <1>4, <1>5, <1>8, <2>2, <2>3, <2>4 DEF Ownership, Waiting
<1>12. EntryShape'
  <2>1. ASSUME NEW h \in Getters \ {g} PROVE EntryShape!(h)'
    BY <1>2, <1>3, <1>5, <1>8, <1>9 DEF EntryShape
  <2>2. EntryShape!(g)'
    BY <1>3, <1>4, <1>6, <1>7, <1>8 DEF EntryShape
  <2> QED BY <2>1, <2>2 DEF EntryShape
<1>13. CleanShape'
  <2>1. ASSUME NEW x \in Cleaners, target[x] # g PROVE CleanShape!2!(x)'
    <3>1. cleanPC[x] \notin {"idle", "notFound"} => target[x] \in Getters \ {g}
      BY <2>1 DEF Ownership, TypeOK
    <3>2. cleanPC[x] \in Removing => entries'[topic(x)] = target[x]
      BY <1>4, <1>7, <2>1, TopicType DEF CleanShape
    <3> QED BY <1>2, <1>5, <3>1, <3>2 DEF CleanShape, Removing, Body
  <2>2. ASSUME NEW x \in Cleaners, target[x] = g PROVE CleanShape!2!(x)'
    <3>1. topic(x) = topic(g) BY <1>10, <2>2 DEF Ownership
    <3> QED BY <1>2, <1>4, <1>6, <1>7, <2>2, <3>1 DEF CleanShape, Removing, Body
  <2> QED BY <1>2, <2>1, <2>2 DEF CleanShape
<1>14. PubsubShape'
  BY <1>0, <1>2, <1>3, <1>7, <1>10 DEF PubsubShape
<1>15. ClosingShape'
  BY <1>2, <1>3, <1>5 DEF ClosingShape
<1>16. DeadShape'
  <2>1. \A h \in Getters : g \notin dead[h]
    BY <1>4 DEF DeadShape
  <2>2. \A h \in Getters : \A e \in dead'[h] : entry'[e].box = "closed"
    BY <1>2, <1>5, <2>1 DEF DeadShape, TypeOK
  <2>3. \A h \in Getters : pc'[h] = "checkDone" => entry'[target[h]].ready
    BY <1>2, <1>3, <1>5, <1>6 DEF DeadShape, Ownership, Waiting, TypeOK
  <2> QED BY <1>2, <1>3, <2>2, <2>3 DEF DeadShape
<1>17. FreshBox'
  <2>1. pc'[g] = "gotBox" => entry'[target[g]].box # "none" /\ target[g] \notin dead[g]
    BY <1>2, <1>4, <1>6 DEF Spent, DeadShape
  <2>2. \A h \in Getters \ {g} : pc[h] = "gotBox" => target[h] # g
    BY <1>4 DEF FreshBox
  <2> QED BY <1>2, <1>3, <1>5, <2>1, <2>2 DEF FreshBox, Ownership, TypeOK
<1> QED BY <1>1, <1>11, <1>12, <1>13, <1>14, <1>15, <1>16, <1>17

-----------------------------------------------------------------------------
\* LeaveBox takes the entry of its topic.
LEMMA LeaveInv == ASSUME CenterInv, NEW x \in Cleaners, LeaveBox(x) PROVE CenterInv'
<1> USE DEF CenterInv
<1>0. topic(x) \in Topics /\ x \notin Getters /\ x \notin Topics /\ None \notin Getters
  BY TopicType, Distinct DEF LeaveBox
<1>1. TypeOK' BY CleanerType
<1>2. /\ UNCHANGED <<entries, entry, validator, joined, closed, pc, cpc, closeOnce, backendDone, dead>>
      /\ cleanPC[x] = "idle" /\ cleanPC' = [cleanPC EXCEPT ![x] = cleanPC'[x]]
      /\ cleanPC'[x] \in {"notFound", "enter"}
      /\ target' = [target EXCEPT ![x] = target'[x]]
      /\ cleanPC'[x] = "enter" => target'[x] # None
      /\ target'[x] \in {target[x], entries[topic(x)]}
  BY DEF LeaveBox, cleanStep, TypeOK
<1>3. \A y \in (Getters \cup Cleaners) \ {x} : target'[y] = target[y]
  BY <1>2 DEF TypeOK
<1>4. \A y \in Cleaners \ {x} : cleanPC'[y] = cleanPC[y]
  BY <1>2 DEF TypeOK
<1>5. \A g \in Getters : target'[g] = target[g] /\ (Creating(g)' <=> Creating(g))
  BY <1>0, <1>2, <1>3 DEF Creating
<1>6. Ownership'
  <2>1. (\A y \in Getters \cup Cleaners :
            target[y] # None => topic(target[y]) = topic(y) /\ Spent(target[y]))'
    BY <1>0, <1>2, <1>3, <1>5 DEF Ownership, Spent, TypeOK
  <2>2. (\A t \in Topics : entries[t] # None => topic(entries[t]) = t /\ Spent(entries[t]))'
    BY <1>2, <1>5 DEF Ownership, Spent, TypeOK
  <2> QED BY <1>2, <1>4, <1>3, <1>5, <2>1, <2>2 DEF Ownership, Spent
<1>7. EntryShape' BY <1>2, <1>5 DEF EntryShape, Spent
<1>8. CleanShape' BY <1>2, <1>3, <1>4 DEF CleanShape, Body, Removing
<1>9. PubsubShape' BY <1>2 DEF PubsubShape
<1>10. ClosingShape'
  BY <1>0, <1>2, <1>3, <1>4, <1>5, Distinct, TopicType DEF ClosingShape
<1>11. DeadShape' /\ FreshBox' BY <1>2, <1>5 DEF DeadShape, FreshBox
<1> QED BY <1>1, <1>6, <1>7, <1>8, <1>9, <1>10, <1>11

\* What every step of cleanupEntry has in common.
LEMMA CleanerFrame ==
    ASSUME CenterInv, NEW x \in Cleaners, cleanerStep(x)
    PROVE  /\ target[x] \in Getters /\ topic(target[x]) = topic(x) /\ Spent(target[x])
           /\ topic(x) \in Topics
           /\ UNCHANGED <<target, closed, pc, cpc, closeOnce, backendDone, dead>>
           /\ \A y \in Cleaners \ {x} : cleanPC'[y] = cleanPC[y]
           /\ \A g \in Getters \ {target[x]} : entry'[g] = entry[g]
           /\ cleanPC[x] \notin {"idle", "notFound"} /\ cleanPC'[x] \notin {"idle", "notFound"}
           /\ cleanPC'[x] = "returned" => entry[target[x]].done
           /\ validator' \subseteq validator /\ joined' \subseteq joined
           /\ \A t \in Topics \ {topic(x)} : entries'[t] = entries[t]
<1> USE DEF CenterInv
<1>1. topic(x) \in Topics BY TopicType
<1>2. /\ UNCHANGED <<target, closed, pc, cpc, closeOnce, backendDone, dead>>
      /\ cleanPC' = [cleanPC EXCEPT ![x] = cleanPC'[x]]
      /\ cleanPC[x] \notin {"idle", "notFound"} /\ cleanPC'[x] \notin {"idle", "notFound"}
  BY DEF cleanerStep, enterCleanup, once, awaitCreation, closeBox, unregisterValidator,
         removeEntry, closeDone, cleanupReturns, cleanStep, TypeOK
<1>3. target[x] \in Getters /\ topic(target[x]) = topic(x) /\ Spent(target[x])
  BY <1>2, Distinct DEF Ownership, TypeOK
<1>4. \A g \in Getters \ {target[x]} : entry'[g] = entry[g]
  BY DEF cleanerStep, enterCleanup, markClosing, once, awaitCreation, closeBox,
         unregisterValidator, removeEntry, closeDone, cleanupReturns, TypeOK
<1>5. cleanPC'[x] = "returned" => entry[target[x]].done
  BY DEF cleanerStep, enterCleanup, once, awaitCreation, closeBox, unregisterValidator,
         removeEntry, closeDone, cleanupReturns, cleanStep, TypeOK
<1>6. validator' \subseteq validator /\ joined' \subseteq joined
  BY DEF cleanerStep, enterCleanup, once, awaitCreation, closeBox, unregisterValidator,
         removeEntry, closeDone, cleanupReturns, unregister
<1>7. \A t \in Topics \ {topic(x)} : entries'[t] = entries[t]
  BY DEF cleanerStep, enterCleanup, once, awaitCreation, closeBox, unregisterValidator,
         removeEntry, closeDone, cleanupReturns, TypeOK
<1> QED BY <1>1, <1>2, <1>3, <1>4, <1>5, <1>6, <1>7 DEF TypeOK

\* The parts of the invariant that only need to know what cannot be undone.
LEMMA CleanerRest ==
    ASSUME CenterInv, NEW x \in Cleaners, cleanerStep(x),
           LET e == entry[target[x]] IN
           /\ entry'[target[x]].ready = e.ready
           /\ entry'[target[x]].box = "open" => e.box = "open"
           /\ e.box # "none" => entry'[target[x]].box # "none"
           /\ e.box = "closed" => entry'[target[x]].box = "closed",
           \/ entries'[topic(x)] = entries[topic(x)]
           \/ /\ entries'[topic(x)] = None
              /\ ~backendDone => topic(x) \notin validator' \cup joined'
    PROVE  Ownership' /\ PubsubShape' /\ ClosingShape' /\ DeadShape' /\ FreshBox'
<1> USE DEF CenterInv
<1>1. PICK t \in Getters : t = target[x]
  BY CleanerFrame
<1>2. /\ topic(t) = topic(x) /\ target[t] = t /\ topic(x) \in Topics
      /\ UNCHANGED <<target, closed, pc, cpc, closeOnce, backendDone, dead>>
      /\ \A y \in Cleaners \ {x} : cleanPC'[y] = cleanPC[y]
      /\ \A g \in Getters \ {t} : entry'[g] = entry[g]
      /\ cleanPC[x] \notin {"idle", "notFound"} /\ cleanPC'[x] \notin {"idle", "notFound"}
      /\ cleanPC'[x] = "returned" => entry[t].done
      /\ validator' \subseteq validator /\ joined' \subseteq joined
      /\ \A u \in Topics \ {topic(x)} : entries'[u] = entries[u]
  BY <1>1, CleanerFrame DEF Spent
<1>3. /\ entry'[t].ready = entry[t].ready
      /\ entry'[t].box = "open" => entry[t].box = "open"
      /\ entry[t].box # "none" => entry'[t].box # "none"
      /\ entry[t].box = "closed" => entry'[t].box = "closed"
  BY <1>1
<1>4. \A g \in Getters : Creating(g)' <=> Creating(g)
  BY <1>2 DEF Creating
<1>5. Ownership'
  <2>1. (\A u \in Topics : entries[u] # None => topic(entries[u]) = u /\ Spent(entries[u]))'
    BY <1>2 DEF Ownership, Spent
  <2> QED BY <1>1, <1>2, <2>1 DEF Ownership, Spent
<1>6. PubsubShape' BY <1>2 DEF PubsubShape
<1>7. ClosingShape'
  <2>1. ASSUME NEW g \in Getters, closed, (Creating(g) \/ entry[g].box = "open")'
        PROVE  /\ target[topic(g)] = g /\ cleanPC'[topic(g)] \notin {"idle", "returned"}
               /\ closeOnce # "over"
    <3>1. Creating(g) \/ entry[g].box = "open"
      BY <1>2, <1>3, <1>4, <2>1
    <3>2. /\ target[topic(g)] = g /\ cleanPC[topic(g)] \notin {"idle", "returned"}
          /\ closeOnce # "over"
      BY <2>1, <3>1 DEF ClosingShape
    <3>3. ~entry[g].done BY <3>1 DEF EntryShape
    <3>4. topic(g) \in Cleaners BY TopicType, Distinct
    <3> QED BY <1>1, <1>2, <3>2, <3>3, <3>4
  <2> QED BY <1>2, <2>1 DEF ClosingShape
<1>8. DeadShape'
  <2>1. \A g \in Getters : \A e \in dead'[g] : entry'[e].box = "closed"
    BY <1>2, <1>3 DEF DeadShape, TypeOK
  <2>2. \A g \in Getters : pc[g] = "checkDone" => entry'[target[g]].ready
    BY <1>2, <1>3 DEF DeadShape, Ownership, Waiting, TypeOK
  <2> QED BY <1>2, <2>1, <2>2 DEF DeadShape
<1>9. FreshBox'
  BY <1>2, <1>3 DEF FreshBox, Ownership, TypeOK
<1> QED BY <1>5, <1>6, <1>7, <1>8, <1>9

\* The other cleanups: those of this entry are not in its body, or see no change.
LEMMA CleanerOthers ==
    ASSUME CenterInv, NEW x \in Cleaners, cleanerStep(x), NEW t \in Getters, t = target[x],
           entry[t].closing => entry'[t].closing,
           \/ cleanPC[x] \in Body
           \/ entry[t].once = "new"
           \/ /\ entry'[t].ready = entry[t].ready /\ entry'[t].done = entry[t].done
              /\ entry'[t].box = entry[t].box /\ entry'[t].once = entry[t].once
              /\ entry'[t].cleanupErr = entry[t].cleanupErr,
           entries' = entries \/ cleanPC[x] \in Removing,
           NEW y \in Cleaners, y # x
    PROVE  CleanShape!2!(y)'
<1> USE DEF CenterInv
<1>1. /\ UNCHANGED target /\ cleanPC'[y] = cleanPC[y] /\ topic(t) = topic(x)
      /\ \A g \in Getters \ {t} : entry'[g] = entry[g]
      /\ validator' \subseteq validator /\ joined' \subseteq joined
      /\ \A u \in Topics \ {topic(x)} : entries'[u] = entries[u]
  BY CleanerFrame
<1>2. cleanPC[y] \notin {"idle", "notFound"} => target[y] \in Getters
  BY DEF Ownership, TypeOK
<1>3. CASE target[y] # t
  <2>1. cleanPC[y] \in Removing => entries'[topic(y)] = entries[topic(y)]
    BY <1>1, <1>3, TopicType DEF CleanShape
  <2> QED BY <1>1, <1>2, <1>3, <2>1 DEF CleanShape, Body, Removing
<1>4. CASE target[y] = t
  <2>1. CASE cleanPC[x] \in Body \/ entry[t].once = "new"
    <3>1. cleanPC[y] \notin Body BY <1>4, <2>1 DEF CleanShape
    <3> QED BY <1>1, <1>4, <3>1 DEF CleanShape, Body, Removing
  <2>2. CASE ~(cleanPC[x] \in Body \/ entry[t].once = "new")
    BY <1>1, <1>4, <2>2 DEF CleanShape, Body, Removing
  <2> QED BY <2>1, <2>2
<1> QED BY <1>3, <1>4

\* One body per entry, kept by every step that does not start one.
LEMMA BodyUnique ==
    ASSUME CenterInv, NEW x \in Cleaners, cleanerStep(x),
           cleanPC'[x] \in Body => \/ cleanPC[x] \in Body
                                   \/ entry[target[x]].once = "new"
    PROVE  CleanShape!1'
<1>1. UNCHANGED target /\ \A y \in Cleaners \ {x} : cleanPC'[y] = cleanPC[y]
  BY CleanerFrame
<1> QED BY <1>1 DEF CenterInv, CleanShape

\* The steps of cleanupEntry keep the shape of the entry and of the cleanups.
LEMMA CleanerInv == ASSUME CenterInv, NEW x \in Cleaners, cleanerStep(x) PROVE CenterInv'
<1> USE DEF CenterInv
<1>0. TypeOK' BY CleanerType
<1>t. PICK t \in Getters : t = target[x] BY CleanerFrame
<1> USE <1>t
<1>1. /\ t \in Getters /\ topic(t) = topic(x) /\ Spent(t) /\ topic(x) \in Topics
      /\ UNCHANGED <<target, closed, pc, cpc, closeOnce, backendDone, dead>>
      /\ \A g \in Getters \ {t} : entry'[g] = entry[g]
  BY CleanerFrame
<1>2. \A g \in Getters : (Creating(g)' <=> Creating(g)) /\ (Spent(g)' <=> Spent(g))
  BY <1>1 DEF Creating, Spent
<1>3. entry[t] \in Entry BY <1>1 DEF TypeOK
\* Steps that change no entry.
<1>4. ASSUME UNCHANGED <<entries, entry>>, CleanShape!2!(x)',
             cleanPC'[x] \in Body => cleanPC[x] \in Body
      PROVE  CenterInv'
  <2>1. Ownership' /\ PubsubShape' /\ ClosingShape' /\ DeadShape' /\ FreshBox'
    BY <1>4, CleanerRest
  <2>2. EntryShape' BY <1>2, <1>4 DEF EntryShape
  <2>3. \A y \in Cleaners : CleanShape!2!(y)'
    BY <1>1, <1>4, CleanerOthers
  <2>4. CleanShape!1' BY <1>4, BodyUnique
  <2> QED BY <1>0, <2>1, <2>2, <2>3, <2>4 DEF CleanShape
<1>5. CASE enterCleanup(x)
  <2>1. CASE entry[t].done
    <3>1. UNCHANGED <<entries, entry>> /\ cleanPC'[x] = "returned"
      BY <1>5, <2>1 DEF enterCleanup, cleanStep, TypeOK
    <3>2. CleanShape!2!(x)' BY <3>1 DEF Body, Removing
    <3> QED BY <1>4, <3>1, <3>2 DEF Body, Removing
  <2>2. CASE ~entry[t].done
    <3>1. /\ UNCHANGED entries /\ cleanPC[x] = "enter" /\ cleanPC'[x] = "once"
          /\ entry' = [entry EXCEPT ![t].closing = TRUE]
      BY <1>5, <2>2 DEF enterCleanup, cleanStep, markClosing, TypeOK
    <3>2. /\ entry'[t].ready = entry[t].ready /\ entry'[t].done = entry[t].done
          /\ entry'[t].box = entry[t].box /\ entry'[t].once = entry[t].once
          /\ entry'[t].cleanupErr = entry[t].cleanupErr /\ entry'[t].err = entry[t].err
          /\ entry'[t].closing
      BY <1>1, <1>3, <3>1 DEF TypeOK, Entry
    <3>3. Ownership' /\ PubsubShape' /\ ClosingShape' /\ DeadShape' /\ FreshBox'
      BY <1>1, <3>1, <3>2, CleanerRest
    <3>4. EntryShape'
      BY <1>1, <1>2, <2>2, <3>1, <3>2 DEF EntryShape
    <3>5. CleanShape!2!(x)' BY <1>1, <3>1, <3>2 DEF Body, Removing
    <3>6. \A y \in Cleaners : CleanShape!2!(y)'
      BY <1>1, <3>1, <3>2, <3>5, CleanerOthers
    <3>7. CleanShape!1' BY <3>1, BodyUnique DEF Body, Removing
    <3> QED BY <1>0, <3>3, <3>4, <3>6, <3>7 DEF CleanShape
  <2> QED BY <2>1, <2>2
<1>6. CASE once(x)
  <2>1. CASE cleanPC'[x] = "wait"
    <3>1. UNCHANGED <<entries, entry>>
      BY <1>6, <2>1 DEF once, cleanStep, TypeOK
    <3>2. CleanShape!2!(x)' BY <2>1 DEF Body, Removing
    <3> QED BY <1>4, <2>1, <3>1, <3>2 DEF Body, Removing
  <2>2. CASE cleanPC'[x] # "wait"
    <3>1. /\ UNCHANGED entries /\ cleanPC[x] = "once" /\ cleanPC'[x] = "body"
          /\ entry[t].once = "new" /\ entry' = [entry EXCEPT ![t].once = "running"]
      BY <1>6, <2>2 DEF once, cleanStep, TypeOK
    <3>2. /\ entry'[t].ready = entry[t].ready /\ entry'[t].done = entry[t].done
          /\ entry'[t].box = entry[t].box /\ entry'[t].once = "running"
          /\ entry'[t].err = entry[t].err /\ entry'[t].closing = entry[t].closing
      BY <1>1, <1>3, <3>1 DEF TypeOK, Entry
    <3>3. Ownership' /\ PubsubShape' /\ ClosingShape' /\ DeadShape' /\ FreshBox'
      BY <1>1, <3>1, <3>2, CleanerRest
    <3>4. EntryShape'
      BY <1>1, <1>2, <3>1, <3>2 DEF EntryShape
    <3>5. CleanShape!2!(x)'
      <4>1. entry[t].closing BY <3>1 DEF CleanShape
      <4>2. ~entry[t].done /\ entry[t].box # "closed" /\ entries[topic(x)] = t
        BY <1>1, <3>1, <4>1 DEF EntryShape
      <4> QED BY <1>1, <3>1, <3>2, <4>1, <4>2 DEF Body, Removing
    <3>6. \A y \in Cleaners : CleanShape!2!(y)'
      BY <1>1, <3>1, <3>2, <3>5, CleanerOthers
    <3>7. CleanShape!1' BY <3>1, BodyUnique
    <3> QED BY <1>0, <3>3, <3>4, <3>6, <3>7 DEF CleanShape
  <2> QED BY <2>1, <2>2
<1>7. CASE awaitCreation(x)
  <2>1. /\ cleanPC[x] = "body" /\ entry[t].ready /\ entry[t].closing /\ ~entry[t].done
        /\ entry[t].once = "running" /\ entries[topic(x)] = t /\ entry[t].box # "closed"
    BY <1>7 DEF awaitCreation, CleanShape, Body, Removing
  <2>2. CASE cleanPC'[x] = "closeBox"
    <3>1. UNCHANGED <<entries, entry>> /\ entry[t].box # "none"
      BY <1>7, <2>2 DEF awaitCreation, cleanStep, TypeOK
    <3>2. entry[t].box = "open" BY <1>3, <2>1, <3>1 DEF Entry
    <3>3. CleanShape!2!(x)' BY <1>1, <2>1, <2>2, <3>1, <3>2 DEF Body, Removing
    <3> QED BY <1>4, <2>1, <2>2, <3>1, <3>3 DEF Body, Removing
  <2>3. CASE cleanPC'[x] # "closeBox"
    <3>1. /\ UNCHANGED <<entries, validator, joined>> /\ cleanPC'[x] = "remove" /\ entry[t].box = "none"
          /\ entry' = [entry EXCEPT ![t].cleanupErr = entry[t].err]
      BY <1>7, <2>3 DEF awaitCreation, cleanStep, TypeOK
    <3>2. /\ entry'[t].ready = entry[t].ready /\ entry'[t].done = entry[t].done
          /\ entry'[t].box = entry[t].box /\ entry'[t].once = entry[t].once
          /\ entry'[t].err = entry[t].err /\ entry'[t].closing = entry[t].closing
          /\ entry'[t].cleanupErr = entry[t].err
      BY <1>1, <1>3, <3>1 DEF TypeOK, Entry
    <3>3. Ownership' /\ PubsubShape' /\ ClosingShape' /\ DeadShape' /\ FreshBox'
      BY <1>1, <3>1, <3>2, CleanerRest
    <3>4. EntryShape'
      BY <1>1, <1>2, <3>1, <3>2 DEF EntryShape
    <3>5. CleanShape!2!(x)'
      <4>1. entry[t].err BY <1>1, <2>1, <3>1 DEF EntryShape
      <4> QED BY <1>1, <2>1, <3>1, <3>2, <4>1 DEF Body, Removing
    <3>6. \A y \in Cleaners : CleanShape!2!(y)'
      <4>1. /\ cleanPC[x] \in Body /\ (entry[t].closing => entry'[t].closing)
            /\ entries' = entries \/ cleanPC[x] \in Removing
        BY <1>1, <2>1, <3>1, <3>2 DEF Body, Removing
      <4>2. \A y \in Cleaners : y # x => CleanShape!2!(y)' BY <4>1, CleanerOthers
      <4> QED BY <3>5, <4>2
    <3>7. CleanShape!1' BY <2>1, BodyUnique DEF Body, Removing
    <3> QED BY <1>0, <3>3, <3>4, <3>6, <3>7 DEF CleanShape
  <2> QED BY <2>2, <2>3
<1>8. CASE closeBox(x)
  <2>1. /\ cleanPC[x] = "closeBox" /\ cleanPC'[x] = "unregister" /\ UNCHANGED entries
        /\ entry[t].closing /\ ~entry[t].done
        /\ entry[t].once = "running" /\ entries[topic(x)] = t /\ entry[t].box = "open"
    BY <1>8 DEF closeBox, cleanStep, CleanShape, Body, Removing, TypeOK
  <2>2. /\ entry'[t].ready = entry[t].ready /\ entry'[t].done = entry[t].done
        /\ entry'[t].box = "closed" /\ entry'[t].once = entry[t].once
        /\ entry'[t].err = entry[t].err /\ entry'[t].closing = entry[t].closing
        /\ entry'[t].cleanupErr \/ topic(x) \notin joined'
    <3>1. \/ entry' = [entry EXCEPT ![t].box = "closed"] /\ joined' = joined \ {topic(x)}
          \/ entry' = [entry EXCEPT ![t].box = "closed", ![t].cleanupErr = TRUE]
      BY <1>8 DEF closeBox
    <3>2. entry \in [Getters -> Entry] BY DEF TypeOK
    <3>3. CASE entry' = [entry EXCEPT ![t].box = "closed"] /\ joined' = joined \ {topic(x)}
      BY <1>3, <3>2, <3>3 DEF Entry
    <3>4. CASE entry' = [entry EXCEPT ![t].box = "closed", ![t].cleanupErr = TRUE]
      BY <1>3, <3>2, <3>4 DEF Entry
    <3> QED BY <3>1, <3>3, <3>4
  <2>3. Ownership' /\ PubsubShape' /\ ClosingShape' /\ DeadShape' /\ FreshBox'
    BY <1>1, <2>1, <2>2, CleanerRest
  <2>4. EntryShape'
    <3>1. ASSUME NEW g \in Getters, g # t PROVE EntryShape!(g)'
      BY <1>1, <1>2, <2>1, <3>1 DEF EntryShape
    <3>2. EntryShape!(t)'
      BY <1>1, <1>2, <2>1, <2>2 DEF EntryShape
    <3> QED BY <3>1, <3>2 DEF EntryShape
  <2>5. CleanShape!2!(x)' BY <1>1, <2>1, <2>2 DEF Body, Removing
  <2>6. \A y \in Cleaners : CleanShape!2!(y)'
    <3>1. /\ cleanPC[x] \in Body /\ (entry[t].closing => entry'[t].closing)
          /\ entries' = entries \/ cleanPC[x] \in Removing
      BY <1>1, <2>1, <2>2 DEF Body, Removing
    <3>2. \A y \in Cleaners : y # x => CleanShape!2!(y)' BY <3>1, CleanerOthers
    <3> QED BY <2>5, <3>2
  <2>7. CleanShape!1' BY <2>1, BodyUnique DEF Body, Removing
  <2> QED BY <1>0, <2>3, <2>4, <2>6, <2>7 DEF CleanShape
<1>9. CASE unregisterValidator(x)
  <2>1. /\ cleanPC[x] = "unregister" /\ cleanPC'[x] = "remove" /\ UNCHANGED <<entries, joined>>
        /\ entry[t].closing /\ ~entry[t].done /\ entry[t].box = "closed"
        /\ entry[t].once = "running" /\ entries[topic(x)] = t
        /\ entry[t].cleanupErr \/ topic(x) \notin joined
    BY <1>9 DEF unregisterValidator, cleanStep, CleanShape, Body, Removing, TypeOK
  <2>2. /\ entry'[t].ready = entry[t].ready /\ entry'[t].done = entry[t].done
        /\ entry'[t].box = entry[t].box /\ entry'[t].once = entry[t].once
        /\ entry'[t].err = entry[t].err /\ entry'[t].closing = entry[t].closing
        /\ entry'[t].cleanupErr <=> entry[t].cleanupErr \/ backendDone
    <3>1. entry' = [entry EXCEPT ![t].cleanupErr = entry[t].cleanupErr \/ backendDone]
      BY <1>9 DEF unregisterValidator
    <3> QED BY <1>1, <1>3, <3>1 DEF TypeOK, Entry
  <2>3. ~backendDone => topic(x) \notin validator'
    BY <1>9 DEF unregisterValidator, unregister
  <2>4. Ownership' /\ PubsubShape' /\ ClosingShape' /\ DeadShape' /\ FreshBox'
    BY <1>1, <2>1, <2>2, CleanerRest
  <2>5. EntryShape'
    <3>1. ASSUME NEW g \in Getters, g # t PROVE EntryShape!(g)'
      BY <1>1, <1>2, <2>1, <3>1 DEF EntryShape
    <3>2. EntryShape!(t)'
      BY <1>1, <1>2, <2>1, <2>2 DEF EntryShape
    <3> QED BY <3>1, <3>2 DEF EntryShape
  <2>6. CleanShape!2!(x)'
    <3>1. entry[t].ready BY <1>1, <2>1 DEF EntryShape
    <3> QED BY <1>1, <2>1, <2>2, <2>3, <3>1 DEF Body, Removing
  <2>7. \A y \in Cleaners : CleanShape!2!(y)'
    <3>1. /\ cleanPC[x] \in Body /\ (entry[t].closing => entry'[t].closing)
          /\ entries' = entries \/ cleanPC[x] \in Removing
      BY <1>1, <2>1, <2>2 DEF Body, Removing
    <3>2. \A y \in Cleaners : y # x => CleanShape!2!(y)' BY <3>1, CleanerOthers
    <3> QED BY <2>6, <3>2
  <2>8. CleanShape!1' BY <2>1, BodyUnique DEF Body, Removing
  <2> QED BY <1>0, <2>4, <2>5, <2>7, <2>8 DEF CleanShape
<1>10. CASE removeEntry(x)
  <2>1. /\ cleanPC[x] = "remove" /\ cleanPC'[x] = "closeDone"
        /\ UNCHANGED <<entry, validator, joined>>
        /\ entry[t].closing /\ ~entry[t].done /\ entry[t].box # "open" /\ entry[t].ready
        /\ entry[t].once = "running" /\ entries[topic(x)] = t
        /\ entry[t].cleanupErr \/ topic(x) \notin validator \cup joined
    BY <1>10 DEF removeEntry, cleanStep, CleanShape, Body, Removing, TypeOK
  <2>2. \/ entries' = entries
        \/ /\ entries' = [entries EXCEPT ![topic(x)] = None] /\ ~entry[t].cleanupErr
    BY <1>10 DEF removeEntry, removable
  <2>3. /\ entries'[topic(x)] = t
           \/ (entries'[topic(x)] = None /\ topic(x) \notin validator' \cup joined')
        /\ \A u \in Topics \ {topic(x)} : entries'[u] = entries[u]
    <3>1. CASE entries' = entries BY <2>1, <3>1
    <3>2. CASE entries' = [entries EXCEPT ![topic(x)] = None] /\ ~entry[t].cleanupErr
      <4>1. topic(x) \notin validator' \cup joined' BY <2>1, <3>2
      <4>2. entries \in [Topics -> Getters \cup {None}] BY DEF TypeOK
      <4> QED BY <1>1, <3>2, <4>1, <4>2
    <3> QED BY <2>2, <3>1, <3>2
  <2>4. Ownership' /\ PubsubShape' /\ ClosingShape' /\ DeadShape' /\ FreshBox'
    BY <1>1, <2>1, <2>3, CleanerRest
  <2>5. EntryShape'
    <3>1. \A g \in Getters \ {t} : entries[topic(g)] = g => entries'[topic(g)] = g
      BY <2>1, <2>3, TopicType
    <3>2. ~Creating(t) BY <1>1, <2>1 DEF EntryShape
    <3> QED BY <1>1, <1>2, <2>1, <3>1, <3>2 DEF EntryShape
  <2>6. CleanShape!2!(x)' BY <1>1, <2>1 DEF Body, Removing
  <2>7. \A y \in Cleaners : CleanShape!2!(y)'
    <3>1. /\ cleanPC[x] \in Body /\ (entry[t].closing => entry'[t].closing)
          /\ entries' = entries \/ cleanPC[x] \in Removing
      BY <1>1, <2>1 DEF Body, Removing
    <3>2. \A y \in Cleaners : y # x => CleanShape!2!(y)' BY <3>1, CleanerOthers
    <3> QED BY <2>6, <3>2
  <2>8. CleanShape!1' BY <2>1, BodyUnique DEF Body, Removing
  <2> QED BY <1>0, <2>4, <2>5, <2>7, <2>8 DEF CleanShape
<1>11. CASE closeDone(x)
  <2>1. /\ cleanPC[x] = "closeDone" /\ cleanPC'[x] = "wait" /\ UNCHANGED entries
        /\ entry[t].box # "open" /\ entry[t].ready
    BY <1>11 DEF closeDone, cleanStep, CleanShape, Body, Removing, TypeOK
  <2>2. /\ entry'[t].ready = entry[t].ready /\ entry'[t].done
        /\ entry'[t].box = entry[t].box /\ entry'[t].once = "over"
        /\ entry'[t].err = entry[t].err /\ entry'[t].closing = entry[t].closing
    BY <1>1, <1>3, <1>11 DEF closeDone, TypeOK, Entry
  <2>3. Ownership' /\ PubsubShape' /\ ClosingShape' /\ DeadShape' /\ FreshBox'
    BY <1>1, <2>1, <2>2, CleanerRest
  <2>4. EntryShape'
    <3>1. ~Creating(t) BY <1>1, <2>1 DEF EntryShape
    <3>2. ASSUME NEW g \in Getters, g # t PROVE EntryShape!(g)'
      BY <1>1, <1>2, <2>1, <3>2 DEF EntryShape
    <3>3. EntryShape!(t)'
      BY <1>1, <1>2, <2>1, <2>2, <3>1 DEF EntryShape
    <3> QED BY <3>2, <3>3 DEF EntryShape
  <2>5. CleanShape!2!(x)' BY <2>1 DEF Body, Removing
  <2>6. \A y \in Cleaners : CleanShape!2!(y)'
    <3>1. /\ cleanPC[x] \in Body /\ (entry[t].closing => entry'[t].closing)
          /\ entries' = entries \/ cleanPC[x] \in Removing
      BY <1>1, <2>1, <2>2 DEF Body, Removing
    <3>2. \A y \in Cleaners : y # x => CleanShape!2!(y)' BY <3>1, CleanerOthers
    <3> QED BY <2>5, <3>2
  <2>7. CleanShape!1' BY <2>1, BodyUnique DEF Body, Removing
  <2> QED BY <1>0, <2>3, <2>4, <2>6, <2>7 DEF CleanShape
<1>12. CASE cleanupReturns(x)
  <2>1. UNCHANGED <<entries, entry>> /\ cleanPC'[x] = "returned"
    BY <1>12 DEF cleanupReturns, cleanStep, TypeOK
  <2>2. CleanShape!2!(x)' BY <2>1 DEF Body, Removing
  <2> QED BY <1>4, <2>1, <2>2 DEF Body, Removing
<1> QED
  BY <1>5, <1>6, <1>7, <1>8, <1>9, <1>10, <1>11, <1>12 DEF cleanerStep

\* The snapshot of Close gives every live entry a cleanup of its own.
LEMMA CloseInv == ASSUME CenterInv, NEW k \in Closers, Close(k) PROVE CenterInv'
<1> USE DEF CenterInv
<1>0. TypeOK' BY CloserType
<1>1. /\ UNCHANGED <<entries, entry, pc, validator, joined, backendDone, dead>>
      /\ cpc[k] = "idle" /\ cpc' = [cpc EXCEPT ![k] = "wait"]
  BY DEF Close, closeFrame
<1>2. \A g \in Getters : Creating(g)' <=> Creating(g)
  BY <1>1 DEF Creating
<1>3. CASE closeOnce # "new"
  <2>1. UNCHANGED <<closeOnce, closed, cleanPC, target>>
    BY <1>3 DEF Close
  <2>2. Ownership' /\ EntryShape' BY <1>1, <1>2, <2>1 DEF Ownership, EntryShape, Spent
  <2>3. CleanShape' /\ PubsubShape' BY <1>1, <2>1 DEF CleanShape, PubsubShape
  <2>4. ClosingShape' BY <1>1, <1>2, <2>1 DEF ClosingShape, TypeOK
  <2>5. DeadShape' /\ FreshBox' BY <1>1, <2>1 DEF DeadShape, FreshBox
  <2> QED BY <1>0, <2>2, <2>3, <2>4, <2>5
<1>4. CASE closeOnce = "new"
  <2>1. /\ closeOnce' = "body" /\ closed' = TRUE
        /\ \A x \in Cleaners :
              cleanPC'[x] = IF x \in snapshot THEN "enter" ELSE cleanPC[x]
        /\ \A y \in Getters \cup Cleaners :
              target'[y] = IF y \in snapshot THEN entries[y] ELSE target[y]
    BY <1>4 DEF Close
  <2>2. snapshot \subseteq Topics /\ snapshot \cap Getters = {}
    BY Distinct DEF snapshot
  <2>3. \A g \in Getters : target'[g] = target[g] /\ (Spent(g)' <=> Spent(g))
    BY <2>1, <2>2 DEF Spent
  <2>4. \A x \in snapshot : entries[x] \in Getters /\ topic(x) = x /\ x \in Cleaners
    BY <2>2, Distinct DEF snapshot, TypeOK
  <2>5. Ownership'
    <3>1. (\A t \in Topics : entries[t] # None => topic(entries[t]) = t /\ Spent(entries[t]))'
      BY <1>1, <2>3 DEF Ownership, Spent, TypeOK
    <3>2. (\A y \in Getters \cup Cleaners :
              target[y] # None => topic(target[y]) = topic(y) /\ Spent(target[y]))'
      <4> SUFFICES ASSUME NEW y \in Getters \cup Cleaners, target'[y] # None
                   PROVE  topic(target'[y]) = topic(y) /\ target'[target'[y]] = target'[y]
        BY DEF Spent
      <4>1. CASE y \in snapshot
        BY <2>1, <2>2, <2>3, <2>4, <4>1 DEF Ownership, Spent
      <4>2. CASE y \notin snapshot
        BY <2>1, <2>3, <4>2 DEF Ownership, Spent, TypeOK
      <4> QED BY <4>1, <4>2
    <3>3. \A x \in Cleaners : cleanPC'[x] \notin {"idle", "notFound"} => target'[x] # None
      BY <2>1, <2>4, Distinct DEF Ownership
    <3> QED BY <1>1, <2>3, <3>1, <3>2, <3>3 DEF Ownership
  <2>6. EntryShape' BY <1>1, <1>2, <2>3 DEF EntryShape
  <2>7. CleanShape'
    <3>1. \A x \in Cleaners : cleanPC'[x] \in Body => /\ cleanPC'[x] = cleanPC[x]
                                                     /\ target'[x] = target[x]
      BY <2>1 DEF Body, Removing
    <3>2. CleanShape!1' BY <3>1 DEF CleanShape
    <3>3. ASSUME NEW x \in Cleaners PROVE CleanShape!2!(x)'
      <4>1. CASE x \in snapshot BY <2>1, <4>1 DEF Body, Removing
      <4>2. CASE x \notin snapshot BY <1>1, <2>1, <4>2 DEF CleanShape
      <4> QED BY <4>1, <4>2
    <3> QED BY <3>2, <3>3 DEF CleanShape
  <2>8. PubsubShape' BY <1>1 DEF PubsubShape
  <2>9. ClosingShape'
    <3>1. ASSUME NEW g \in Getters, (Creating(g) \/ entry[g].box = "open")'
          PROVE  target'[topic(g)] = g /\ cleanPC'[topic(g)] = "enter"
      <4>1. Creating(g) \/ entry[g].box = "open" BY <1>1, <1>2, <3>1
      <4>2. entries[topic(g)] = g BY <4>1 DEF EntryShape
      <4>3. topic(g) \in snapshot BY <4>2, TopicType, Distinct DEF snapshot
      <4> QED BY <2>1, <2>4, <4>2, <4>3
    <3>2. \A j \in Closers : cpc'[j] # "returned"
      BY <1>1, <1>4 DEF ClosingShape, TypeOK
    <3> QED BY <2>1, <3>1, <3>2 DEF ClosingShape
  <2>10. DeadShape' /\ FreshBox' BY <1>1, <2>3 DEF DeadShape, FreshBox
  <2> QED BY <1>0, <2>5, <2>6, <2>7, <2>8, <2>9, <2>10
<1> QED BY <1>3, <1>4

\* The end of Close, and of the backend.
LEMMA EndingInv ==
    ASSUME CenterInv, closeBodyEnds \/ CancelBackend \/ \E k \in Closers : closeReturns(k)
    PROVE  CenterInv'
<1> USE DEF CenterInv
<1>0. TypeOK' BY CloserType
<1>1. UNCHANGED <<entries, closed, entry, pc, cleanPC, target, validator, joined, dead>>
  BY DEF closeBodyEnds, CancelBackend, closeReturns, closeFrame
<1>2. \A g \in Getters : Creating(g)' <=> Creating(g)
  BY <1>1 DEF Creating
<1>3. Ownership' /\ EntryShape' BY <1>1, <1>2 DEF Ownership, EntryShape, Spent
<1>4. CleanShape' BY <1>1 DEF CleanShape
<1>5. PubsubShape'
  BY <1>1 DEF PubsubShape, closeBodyEnds, CancelBackend, closeReturns, closeFrame
<1>6. ClosingShape'
  <2>1. CASE closeBodyEnds
    <3>1. closeOnce = "body" /\ closeOnce' = "over" /\ UNCHANGED cpc
      BY <2>1 DEF closeBodyEnds
    <3>2. \A t \in Topics : cleanPC[t] \in {"idle", "returned"}
      BY <2>1 DEF closeBodyEnds
    <3>3. \A g \in Getters : ~(Creating(g) \/ entry[g].box = "open")
      BY <3>1, <3>2, TopicType DEF ClosingShape
    <3>4. \A g \in Getters : ~(Creating(g) \/ entry[g].box = "open")'
      BY <1>1, <1>2, <3>3
    <3> QED BY <1>1, <3>1, <3>4 DEF ClosingShape
  <2>2. CASE CancelBackend
    BY <1>1, <1>2, <2>2 DEF ClosingShape, CancelBackend
  <2>3. ASSUME NEW k \in Closers, closeReturns(k) PROVE ClosingShape'
    <3>1. UNCHANGED closeOnce /\ closeOnce = "over" BY <2>3 DEF closeReturns
    <3> QED BY <1>1, <1>2, <3>1 DEF ClosingShape
  <2> QED BY <2>1, <2>2, <2>3
<1>7. DeadShape' /\ FreshBox' BY <1>1 DEF DeadShape, FreshBox
<1> QED BY <1>0, <1>3, <1>4, <1>5, <1>6, <1>7

LEMMA CenterInvStep == ASSUME CenterInv, [Next]_vars PROVE CenterInv'
<1>1. CASE UNCHANGED vars
  BY <1>1 DEF vars, CenterInv, TypeOK, Ownership, EntryShape, CleanShape, PubsubShape,
              ClosingShape, DeadShape, FreshBox, Spent, Creating
<1>2. ASSUME NEW g \in Getters, getCall(g) \/ getterStep(g) PROVE CenterInv'
  BY <1>2, PlainGetterInv, LookupInv, SettleInv DEF getterStep
<1>3. ASSUME NEW x \in Cleaners, LeaveBox(x) \/ cleanerStep(x) PROVE CenterInv'
  BY <1>3, LeaveInv, CleanerInv
<1>4. ASSUME NEW k \in Closers, Close(k) \/ closeReturns(k) PROVE CenterInv'
  BY <1>4, CloseInv, EndingInv
<1>5. CASE closeBodyEnds \/ CancelBackend BY <1>5, EndingInv
<1> QED BY <1>1, <1>2, <1>3, <1>4, <1>5 DEF Next

LEMMA CenterInvariant == Spec => []CenterInv
  BY CenterInvInit, CenterInvStep, PTL DEF Spec

(***************************************************************************)
(* Two incarnations of a topic never overlap, whatever GetBox, LeaveBox    *)
(* and Close do at once: a box that is created or open has its topic's     *)
(* entry, and with a live backend a new creation finds nothing that an     *)
(* earlier box left in pubsub (center.go:57-81, 125-148).                  *)
(***************************************************************************)
THEOREM OneIncarnationHolds == Spec => []OneIncarnation
<1>1. CenterInv => OneIncarnation
  BY Distinct DEF CenterInv, OneIncarnation, EntryShape, PubsubShape, TypeOK
<1> QED BY <1>1, CenterInvariant, PTL

(***************************************************************************)
(* Once a Close call has returned no box is open and none is created or    *)
(* can be, also one that was still being created when Close took its       *)
(* snapshot (center.go:170-197).                                           *)
(***************************************************************************)
THEOREM ClosedForGoodHolds == Spec => []ClosedForGood
<1>1. CenterInv => ClosedForGood
  BY DEF CenterInv, ClosedForGood, ClosingShape
<1> QED BY <1>1, CenterInvariant, PTL

(***************************************************************************)
(* GetBox returns no box that was closed before the call began, and none   *)
(* that is nil (center.go:83-102).                                         *)
(***************************************************************************)
THEOREM FreshBoxHolds == Spec => []FreshBox
  BY CenterInvariant, PTL DEF CenterInv

-----------------------------------------------------------------------------
(***************************************************************************)
(* Refinement of Directory.                                                *)
(***************************************************************************)
LEMMA GetterTopic == \A g \in Getters : topic(g) = TopicOf[g]
BY CenterCallsAssumption DEF CenterCallsAssumption, topic

LEMMA DirectoryInit == Init => Dir!Init
<1> SUFFICES ASSUME Init PROVE Dir!Init OBVIOUS
<1>1. {g \in Getters : target[g] = g} = {} BY Distinct DEF Init
<1>2. [g \in Getters |-> entry[g].box] = [g \in Getters |-> "none"]
  BY DEF Init, newEntry
<1> QED BY <1>1, <1>2 DEF Init, Dir!Init

\* GetBox claims the topic, opens the box, or gives a failed entry back.
LEMMA DirectoryGetter ==
    ASSUME CenterInv, NEW g \in Getters, getCall(g) \/ getterStep(g)
    PROVE  [Dir!Next]_(Dir!vars)
<1> USE DEF CenterInv
<1>0. topic(g) = TopicOf[g] /\ topic(g) \in Topics BY GetterTopic, TopicType
<1>1. CASE lookup(g)
  <2>1. UNCHANGED <<entry, closed>> BY <1>1 DEF lookup, getterFrame
  <2>2. target[g] # g BY <1>1 DEF lookup, Ownership, Spent
  <2>3. CASE entries[topic(g)] = None /\ ~closed
    <3>1. /\ entries' = [entries EXCEPT ![topic(g)] = g]
          /\ target' = [target EXCEPT ![g] = g]
      BY <1>1, <2>3 DEF lookup
    <3>2. {h \in Getters : target'[h] = h} = {h \in Getters : target[h] = h} \cup {g}
      BY <3>1 DEF TypeOK
    <3>3. Dir!Claim(g) BY <1>0, <2>1, <2>2, <2>3, <3>1, <3>2 DEF Dir!Claim
    <3> QED BY <3>3 DEF Dir!Next
  <2>4. CASE ~(entries[topic(g)] = None /\ ~closed)
    <3>1. /\ UNCHANGED entries
          /\ \/ UNCHANGED target
             \/ target' = [target EXCEPT ![g] = entries[topic(g)]]
      BY <1>1, <2>4 DEF lookup
    <3>2. entries[topic(g)] # g
      BY <1>0, <2>2, Distinct DEF Ownership, Spent
    <3>3. {h \in Getters : target'[h] = h} = {h \in Getters : target[h] = h}
      BY <2>2, <3>1, <3>2 DEF TypeOK
    <3> QED BY <2>1, <3>1, <3>3 DEF Dir!vars
  <2> QED BY <2>3, <2>4
<1>2. CASE settle(g)
  <2>1. UNCHANGED <<target, closed>> BY <1>2 DEF settle, getterFrame
  <2>2. entries[topic(g)] = g /\ entry[g].box = "none"
    BY <1>2 DEF settle, EntryShape, Creating
  <2>3. /\ \A h \in Getters \ {g} : entry'[h] = entry[h]
        /\ entry'[g] = settledEntry(entry[g], pc[g] = "failed")
    BY <1>2 DEF settle, TypeOK
  <2>4. entry[g] \in Entry BY DEF TypeOK
  <2>5. CASE pc[g] = "failed"
    <3>1. (pc[g] = "failed") = TRUE BY <2>5
    <3>2. entry'[g] = settledEntry(entry[g], TRUE) BY <2>3, <3>1, Zenon
    <3>3. entry'[g].box = "none" BY <2>4, <3>2 DEF settledEntry, Entry
    <3>4. [h \in Getters |-> entry'[h].box] = [h \in Getters |-> entry[h].box]
      BY <2>2, <2>3, <3>3
    <3>5. entries' = entries \/ entries' = [entries EXCEPT ![topic(g)] = None]
      BY <1>2 DEF settle
    <3>6. CASE entries' = entries BY <2>1, <3>4, <3>6 DEF Dir!vars
    <3>7. CASE entries' = [entries EXCEPT ![topic(g)] = None]
      <4>1. Dir!Release(g)
        BY <1>0, <2>1, <2>2, <3>4, <3>7 DEF Dir!Release, Dir!Owns
      <4> QED BY <4>1 DEF Dir!Next
    <3> QED BY <3>5, <3>6, <3>7
  <2>6. CASE pc[g] # "failed"
    <3>1. (pc[g] = "failed") = FALSE BY <2>6
    <3>2. entry'[g] = settledEntry(entry[g], FALSE) BY <2>3, <3>1, Zenon
    <3>3. entry'[g].box = "open" BY <2>4, <3>2 DEF settledEntry, Entry
    <3>4. [h \in Getters |-> entry'[h].box] =
             [[h \in Getters |-> entry[h].box] EXCEPT ![g] = "open"]
      BY <2>3, <3>3
    <3>5. UNCHANGED entries BY <1>2, <2>6 DEF settle
    <3>6. Dir!Open(g)
      BY <1>0, <2>1, <2>2, <3>4, <3>5 DEF Dir!Open, Dir!Owns
    <3> QED BY <3>6 DEF Dir!Next
  <2> QED BY <2>5, <2>6
<1>3. CASE \/ getCall(g) \/ register(g) \/ joinTopic(g) \/ rollback(g)
           \/ waitReady(g) \/ waitDone(g) \/ checkDone(g)
  <2>1. UNCHANGED <<entries, entry, target, closed>>
    BY <1>3 DEF getCall, register, joinTopic, rollback, waitReady, waitDone, checkDone,
                getterFrame
  <2> QED BY <2>1 DEF Dir!vars
<1> QED BY <1>1, <1>2, <1>3 DEF getterStep

\* cleanupEntry closes the box, then releases the topic.
LEMMA DirectoryCleaner ==
    ASSUME CenterInv, NEW x \in Cleaners, LeaveBox(x) \/ cleanerStep(x)
    PROVE  [Dir!Next]_(Dir!vars)
<1> USE DEF CenterInv
<1>1. CASE LeaveBox(x)
  <2>1. UNCHANGED <<entries, entry, closed>> BY <1>1 DEF LeaveBox, cleanStep
  <2>2. \A g \in Getters : target'[g] = target[g]
    BY <1>1, Distinct DEF LeaveBox, TypeOK
  <2>3. {g \in Getters : target'[g] = g} = {g \in Getters : target[g] = g} BY <2>2
  <2> QED BY <2>1, <2>3 DEF Dir!vars
<1>2. CASE cleanerStep(x)
  <2>t. PICK t \in Getters : t = target[x] BY <1>2, CleanerFrame
  <2>1. /\ topic(t) = topic(x) /\ topic(t) \in Topics /\ topic(t) = TopicOf[t]
        /\ UNCHANGED <<target, closed>>
        /\ \A g \in Getters \ {t} : entry'[g] = entry[g]
    BY <1>2, <2>t, CleanerFrame, GetterTopic
  <2>2. entry \in [Getters -> Entry] /\ entry[t] \in Entry BY DEF TypeOK
  <2>3. CASE closeBox(x)
    <3>1. entries[topic(x)] = t /\ entry[t].box = "open" /\ UNCHANGED entries
      BY <2>3, <2>t DEF closeBox, cleanStep, CleanShape, Removing
    <3>2. entry'[t].box = "closed"
      <4>1. \/ entry' = [entry EXCEPT ![t].box = "closed"]
            \/ entry' = [entry EXCEPT ![t].box = "closed", ![t].cleanupErr = TRUE]
        BY <2>3, <2>t DEF closeBox
      <4>2. CASE entry' = [entry EXCEPT ![t].box = "closed"] BY <2>2, <4>2 DEF Entry
      <4>3. CASE entry' = [entry EXCEPT ![t].box = "closed", ![t].cleanupErr = TRUE]
        BY <2>2, <4>3 DEF Entry
      <4> QED BY <4>1, <4>2, <4>3
    <3>3. [g \in Getters |-> entry'[g].box] =
             [[g \in Getters |-> entry[g].box] EXCEPT ![t] = "closed"]
      BY <2>1, <3>2
    <3>4. Dir!CloseBox(t) BY <2>1, <3>1, <3>3 DEF Dir!CloseBox, Dir!Owns
    <3> QED BY <3>4 DEF Dir!Next
  <2>4. CASE removeEntry(x)
    <3>1. /\ entries[topic(x)] = t /\ entry[t].box # "open" /\ UNCHANGED entry
          /\ entries' = entries \/ entries' = [entries EXCEPT ![topic(x)] = None]
      BY <2>4, <2>t DEF removeEntry, cleanStep, CleanShape, Removing
    <3>2. CASE entries' = entries BY <2>1, <3>1, <3>2 DEF Dir!vars
    <3>3. CASE entries' = [entries EXCEPT ![topic(x)] = None]
      <4>1. Dir!Release(t) BY <2>1, <3>1, <3>3 DEF Dir!Release, Dir!Owns
      <4> QED BY <4>1 DEF Dir!Next
    <3> QED BY <3>1, <3>2, <3>3
  <2>5. CASE \/ enterCleanup(x) \/ once(x) \/ awaitCreation(x)
             \/ unregisterValidator(x) \/ closeDone(x) \/ cleanupReturns(x)
    <3>1. UNCHANGED entries
      BY <2>5 DEF enterCleanup, once, awaitCreation, unregisterValidator, closeDone,
                  cleanupReturns
    <3>2. entry'[t].box = entry[t].box
      <4>1. CASE enterCleanup(x) BY <4>1, <2>2, <2>t DEF enterCleanup, markClosing, Entry
      <4>2. CASE once(x) BY <4>2, <2>2, <2>t DEF once, Entry
      <4>3. CASE awaitCreation(x) BY <4>3, <2>2, <2>t DEF awaitCreation, Entry
      <4>4. CASE unregisterValidator(x)
        BY <4>4, <2>2, <2>t DEF unregisterValidator, Entry
      <4>5. CASE closeDone(x) BY <4>5, <2>2, <2>t DEF closeDone, Entry
      <4>6. CASE cleanupReturns(x) BY <4>6 DEF cleanupReturns
      <4> QED BY <2>5, <4>1, <4>2, <4>3, <4>4, <4>5, <4>6
    <3>3. [g \in Getters |-> entry'[g].box] = [g \in Getters |-> entry[g].box]
      BY <2>1, <3>2
    <3> QED BY <2>1, <3>1, <3>3 DEF Dir!vars
  <2> QED BY <1>2, <2>3, <2>4, <2>5 DEF cleanerStep
<1> QED BY <1>1, <1>2

\* Close closes the directory; the rest of it leaves the directory alone.
LEMMA DirectoryCloser ==
    ASSUME CenterInv,
           \/ \E k \in Closers : Close(k) \/ closeReturns(k)
           \/ closeBodyEnds \/ CancelBackend
    PROVE  [Dir!Next]_(Dir!vars)
<1> USE DEF CenterInv
<1>1. ASSUME NEW k \in Closers, Close(k), closeOnce = "new" PROVE Dir!Next
  <2>1. ~closed /\ closed' = TRUE /\ UNCHANGED <<entries, entry>>
    BY <1>1 DEF Close, closeFrame, ClosingShape
  <2>2. \A g \in Getters : target'[g] = target[g]
    BY <1>1, Distinct DEF Close, snapshot, TypeOK
  <2>3. {g \in Getters : target'[g] = g} = {g \in Getters : target[g] = g} BY <2>2
  <2>4. Dir!Close BY <2>1, <2>3 DEF Dir!Close
  <2> QED BY <2>4 DEF Dir!Next
<1>2. CASE UNCHANGED <<entries, entry, target, closed>> BY <1>2 DEF Dir!vars
<1> QED
  BY <1>1, <1>2 DEF Close, closeReturns, closeBodyEnds, CancelBackend, closeFrame

(***************************************************************************)
(* The center implements Directory for any calls and topics: every step    *)
(* claims, opens, closes or releases as Directory allows, or changes       *)
(* nothing Directory sees (center.go:57-81, 125-150).                      *)
(***************************************************************************)
THEOREM CenterImplementsDirectory == Spec => ImplementsDirectory
<1>1. CenterInv /\ [Next]_vars => [Dir!Next]_(Dir!vars)
  <2>1. CASE UNCHANGED vars BY <2>1 DEF vars, Dir!vars
  <2> QED BY <2>1, DirectoryGetter, DirectoryCleaner, DirectoryCloser DEF Next
<1> QED BY <1>1, DirectoryInit, CenterInvariant, PTL DEF Spec, ImplementsDirectory, Dir!Spec
=============================================================================
