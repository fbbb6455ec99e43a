------------------------------- MODULE MCBuckets -------------------------------
(* One bucket, two keys in tree order, an inlined size and a block size. *)
EXTENDS Buckets, TLC

Sizes == 1..2
Keys == 1..2

Interchangeable == Permutations(Proc)
=============================================================================
