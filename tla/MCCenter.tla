------------------------------ MODULE MCCenter ------------------------------
(***************************************************************************)
(* Center for TLC: every call is for the one topic, so that calls meet.    *)
(***************************************************************************)
EXTENDS CenterDirectory

\* All calls are for the same topic.
OneTopic == [x \in Getters \cup Leavers |-> CHOOSE t \in Topics : TRUE]
=============================================================================
