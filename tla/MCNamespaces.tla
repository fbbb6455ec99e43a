---------------------------- MODULE MCNamespaces ----------------------------
(***************************************************************************)
(* Namespaces on small instances: two connections, the default namespace   *)
(* and one other, two values and three keys of which one is no value's     *)
(* address.                                                                *)
(***************************************************************************)
EXTENDS Namespaces, TLC

Addresses == [v \in Value |-> v]
Sizes == [v \in Value |-> IF v = "small" THEN 1 ELSE 2]

Guarded == [NewMeta EXCEPT !.guarded = TRUE]
Kinds == {[Guarded EXCEPT !.limit = Limit], [Guarded EXCEPT !.mode = "cas"],
          [NewMeta EXCEPT !.worm = TRUE]}
OnlyGuarded == {Guarded}

Instances == 1 .. 5

Symmetry == Permutations(Conn)
=============================================================================
