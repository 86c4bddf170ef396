----------------------------- MODULE TopicGroup -----------------------------
(***************************************************************************)
(* What a message box promises about one topic, without generations,       *)
(* workers or channels: callers ask to be members, are admitted or turned  *)
(* away, receive, and are gone for good.  A delivery reaches every member  *)
(* or ends its membership, and continues the run of each member it         *)
(* reaches.  A closed group has no members and admits none.                *)
(***************************************************************************)
EXTENDS Naturals, Sequences

CONSTANT Clients

VARIABLES
    phase,   \* phase[c] \in {"out", "asking", "member", "gone"}
    log,     \* log[c]: the messages c was given, each [gen, capsule]
    closed

vars == <<phase, log, closed>>

Members == {c \in Clients : phase[c] = "member"}

Init ==
    /\ phase = [c \in Clients |-> "out"]
    /\ log = [c \in Clients |-> <<>>]
    /\ closed = FALSE

\* Move every caller of S to the phase given.
Move(S, to) == phase' = [c \in Clients |-> IF c \in S THEN to ELSE phase[c]]

Ask(c) ==
    /\ phase[c] = "out" /\ ~closed
    /\ Move({c}, "asking")
    /\ UNCHANGED <<log, closed>>

\* A running topic admits at once; a starting one admits all that asked and
\* turns away the rest of them.
Admit(In, Away) ==
    /\ In # {} /\ ~closed
    /\ In \subseteq {c \in Clients : phase[c] \in {"out", "asking"}}
    /\ Away \subseteq {c \in Clients : phase[c] = "asking"}
    /\ phase' = [c \in Clients |-> IF c \in In THEN "member"
                                   ELSE IF c \in Away THEN "gone" ELSE phase[c]]
    /\ UNCHANGED <<log, closed>>

\* Callers are refused, withdraw, leave, or are cut off.
End(S) ==
    /\ S # {} /\ \A c \in S : phase[c] # "gone"
    /\ Move(S, "gone")
    /\ UNCHANGED <<log, closed>>

\* The message m continues the run of caller c.
Continues(m, c) ==
    log[c] # <<>> =>
        /\ m.gen = log[c][Len(log[c])].gen
        /\ m.capsule = log[c][Len(log[c])].capsule + 1

\* m goes to every member but the slow ones, who are members no longer.
Deliver(m, slow) ==
    /\ slow \subseteq Members /\ Members # {}
    /\ \A c \in Members \ slow : Continues(m, c)
    /\ log' = [c \in Clients |-> IF c \in Members \ slow THEN Append(log[c], m)
                                 ELSE log[c]]
    /\ Move(slow, "gone")
    /\ UNCHANGED closed

Close ==
    /\ ~closed /\ closed' = TRUE
    /\ Move({c \in Clients : phase[c] \in {"asking", "member"}}, "gone")
    /\ UNCHANGED log

\* The message given, read off the step (it is the same for every receiver).
Given == {log'[c][Len(log'[c])] : c \in {d \in Clients : log'[d] # log[d]}}

Next ==
    \/ \E c \in Clients : Ask(c)
    \/ \E In, Away \in SUBSET Clients : Admit(In, Away)
    \/ \E S \in SUBSET Clients : End(S)
    \/ \E m \in Given, slow \in SUBSET Clients : Deliver(m, slow)
    \/ Close

Spec == Init /\ [][Next]_vars
=============================================================================
