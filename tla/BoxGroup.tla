------------------------------ MODULE BoxGroup ------------------------------
(***************************************************************************)
(* The box of msg/box.go implements TopicGroup: its dispatcher's maps are  *)
(* the group's phases, and a subscriber's queue with what was taken from   *)
(* it is the group's log.                                                  *)
(***************************************************************************)
EXTENDS Box

phaseOf(c) ==
    IF c \in active THEN "member"
    ELSE IF c \in pending THEN "asking"
    ELSE IF stopped[c] # "no" \/ replies[c] # <<>> THEN "gone"
    ELSE "out"

Group == INSTANCE TopicGroup WITH
            phase  <- [c \in Clients |-> phaseOf(c)],
            log    <- [c \in Clients |-> Delivered(c)],
            closed <- boxCancelled

\* Every step of the box is a step of the group it stands for, or leaves the
\* group as it is (box.go:199-462).
ImplementsGroup == Group!Spec
=============================================================================
