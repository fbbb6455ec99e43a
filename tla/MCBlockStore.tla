---------------------------- MODULE MCBlockStore ----------------------------
(***************************************************************************)
(* BlockStore on small instances.  The stripe of b1 comes after the one of *)
(* b2, so a batch that received b1 first has to wait for b2 first.         *)
(***************************************************************************)
EXTENDS BlockStoreInvariant, TLC

CONSTANTS b1, b2

CrossedStripes == [b \in Block |-> IF b = b1 THEN 2 ELSE 1]

Symmetry == Permutations(Proc) \cup Permutations(Key)
=============================================================================
