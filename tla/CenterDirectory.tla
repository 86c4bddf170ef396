--------------------------- MODULE CenterDirectory ---------------------------
(***************************************************************************)
(* The center of msg/center.go implements Directory: the owner of a topic  *)
(* is the GetBox call whose entry the map holds.                           *)
(***************************************************************************)
EXTENDS Center

Dir == INSTANCE Directory WITH
          Owners <- Getters,
          owner  <- entries,
          box    <- [g \in Getters |-> entry[g].box],
          spent  <- {g \in Getters : target[g] = g}

(***************************************************************************)
(* Every step of the center is a step of the directory, or leaves the      *)
(* directory as it is: whatever creations, cleanups and Close interleave,  *)
(* no box is opened for a topic whose entry is another's or gone, and no   *)
(* entry goes while its box is open (center.go:57-81, 125-150).            *)
(***************************************************************************)
ImplementsDirectory == Dir!Spec
=============================================================================
