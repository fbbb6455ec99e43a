----------------------------- MODULE MCBlockDisk -----------------------------
(***************************************************************************)
(* BlockDisk by itself, on one writer and one block.                       *)
(***************************************************************************)
EXTENDS BlockDisk

OneHash == [b \in Block |-> <<0, 0>>]

Spec == DiskInit /\ [][DiskNext]_diskVars
=============================================================================
