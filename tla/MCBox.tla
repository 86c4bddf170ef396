------------------------------- MODULE MCBox -------------------------------
(***************************************************************************)
(* Box for TLC: small sets of callers, and which of them share an ID.      *)
(***************************************************************************)
EXTENDS BoxGroup, TLC

\* Every call uses the same ID.
SharedID == [c \in Clients |-> "x"]

\* Every call has an ID of its own, as lake.Service generates them.
OwnID == [c \in Clients |-> c]

\* Both assignments of IDs treat all callers alike.
ClientSymmetry == Permutations(Clients)
=============================================================================
