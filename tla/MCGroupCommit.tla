---------------------------- MODULE MCGroupCommit ----------------------------
(***************************************************************************)
(* GroupCommit on small instances.  The two blocks share a stripe, as      *)
(* blocks do when their hashes collide modulo the stripe count.            *)
(***************************************************************************)
EXTENDS GroupCommit, TLC

OneStripe == [b \in Block |-> 1]

=============================================================================
