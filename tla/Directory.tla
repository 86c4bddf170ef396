------------------------------ MODULE Directory ------------------------------
(***************************************************************************)
(* What the message center promises about boxes, without mutex, channels   *)
(* or pubsub: a topic has one owner at a time, an owner opens at most one  *)
(* box, which nobody opens again, and gives the topic up only when that    *)
(* box is closed or never was.  A closed directory takes no new owners.    *)
(***************************************************************************)
CONSTANTS Topics, Owners, None, TopicOf

VARIABLES
    owner,   \* owner[t] \in Owners \cup {None}
    box,     \* box[o] \in {"none", "open", "closed"}
    spent,   \* owners that have claimed their topic
    closed

vars == <<owner, box, spent, closed>>

Init ==
    /\ owner = [t \in Topics |-> None] /\ box = [o \in Owners |-> "none"]
    /\ spent = {} /\ closed = FALSE

Owns(o) == owner[TopicOf[o]] = o

Claim(o) ==
    /\ ~closed /\ owner[TopicOf[o]] = None /\ o \notin spent
    /\ owner' = [owner EXCEPT ![TopicOf[o]] = o] /\ spent' = spent \cup {o}
    /\ UNCHANGED <<box, closed>>

Open(o) ==
    /\ Owns(o) /\ box[o] = "none" /\ box' = [box EXCEPT ![o] = "open"]
    /\ UNCHANGED <<owner, spent, closed>>

CloseBox(o) ==
    /\ Owns(o) /\ box[o] = "open" /\ box' = [box EXCEPT ![o] = "closed"]
    /\ UNCHANGED <<owner, spent, closed>>

Release(o) ==
    /\ Owns(o) /\ box[o] # "open" /\ owner' = [owner EXCEPT ![TopicOf[o]] = None]
    /\ UNCHANGED <<box, spent, closed>>

Close == ~closed /\ closed' = TRUE /\ UNCHANGED <<owner, box, spent>>

Next ==
    \/ \E o \in Owners : Claim(o) \/ Open(o) \/ CloseBox(o) \/ Release(o)
    \/ Close

Spec == Init /\ [][Next]_vars
=============================================================================
