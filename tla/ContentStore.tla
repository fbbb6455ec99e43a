----------------------------- MODULE ContentStore -----------------------------
(***************************************************************************)
(* What a store of content-addressed blocks promises to its readers, with  *)
(* no refcounts, files, locks or requests.  Objects name blocks; a block is*)
(* readable, or known to be damaged, or not there.  An object is published *)
(* only over readable blocks, and a block an object names never goes away. *)
(***************************************************************************)
CONSTANTS Key, Block, Ref, BlocksOf(_)

VARIABLES obj,       \* key -> the references its record holds
          readable,  \* blocks whose bytes can be served
          damaged    \* blocks recorded as lost on the medium

vars == <<obj, readable, damaged>>

Init ==
    /\ obj = [k \in Key |-> {}]
    /\ readable = {}
    /\ damaged = {}

\* PUT, overwrite, DELETE and clone: one record changes, atomically.
Publish(k, refs) ==
    /\ BlocksOf(refs) \subseteq readable
    /\ obj' = [obj EXCEPT ![k] = refs]
    /\ UNCHANGED <<readable, damaged>>

\* A write brings bytes; damaged blocks among them are whole again.
Gain(S) ==
    /\ readable' = readable \cup S
    /\ damaged' = damaged \ S
    /\ UNCHANGED obj

\* A block no object names is freed.
Drop(b) ==
    /\ \A k \in Key : b \notin BlocksOf(obj[k])
    /\ readable' = readable \ {b}
    /\ damaged' = damaged \ {b}
    /\ UNCHANGED obj

\* The medium loses a block, and the store records it.
Damage(b) ==
    /\ b \in readable
    /\ readable' = readable \ {b}
    /\ damaged' = damaged \cup {b}
    /\ UNCHANGED obj

Next ==
    \/ \E k \in Key, refs \in SUBSET Ref : Publish(k, refs)
    \/ \E S \in SUBSET Block : Gain(S)
    \/ \E b \in Block : Drop(b) \/ Damage(b)

Spec == Init /\ [][Next]_vars

\* The contract in one line: a named block is readable or known damaged.
Whole == \A k \in Key : BlocksOf(obj[k]) \subseteq readable \cup damaged
=============================================================================
