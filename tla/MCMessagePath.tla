---------------------------- MODULE MCMessagePath ----------------------------
(***************************************************************************)
(* MessagePath for TLC, with a topic ID, t2, that happens to be the bytes  *)
(* of a capsule for t1.                                                    *)
(***************************************************************************)
EXTENDS MessagePath, TLC

CONSTANTS k1, k2, t1, t2, d1

encoding ==
    [c \in MsgCapsule |-> IF c = [topic |-> t1, data |-> d1] THEN t2
                          ELSE <<"capsule", c.topic, c.data>>]

keySymmetry == Permutations({k1, k2})
=============================================================================
