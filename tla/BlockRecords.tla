----------------------------- MODULE BlockRecords -----------------------------
(***************************************************************************)
(* The block record of the _BLOCKS tree and the three read-modify-write    *)
(* primitives every holder of a reference goes through: bump, insert (or   *)
(* heal) and decrement.  Each is the transaction's effect on ONE record;   *)
(* the modules that use them decide which lock is held and when it commits.*)
(*                                                                         *)
(* A record that is not in the tree is represented by rc = 0: the protocol *)
(* removes a record at its last reference, so no stored record has rc = 0. *)
(***************************************************************************)
EXTENDS Naturals

CONSTANT Depth   \* fanout depths a block file can be placed at

ASSUME DepthAssumption == Depth \subseteq Nat \ {0}

\* Nothing has been placed: a file lies at least one directory deep.
NoDepth == 0

Record == [rc : Nat, depth : Depth \cup {NoDepth}, degraded : BOOLEAN]

NoRecord == [rc |-> 0, depth |-> NoDepth, degraded |-> FALSE]

Exists(r) == r.rc > 0

\* Mutant: dedup counts on a degraded record.
HasAnyRecord(r) == Exists(r)

\* A committed record that dedup may count on; a degraded one reads as absent.
HasLiveRecord(r) == Exists(r) /\ ~r.degraded

\* bump_block_rc on a live record.
Bump(r) == [r EXCEPT !.rc = @ + 1]

\* Mutant: a heal forgets the surviving holders.
InsertFresh(r, d) == [rc |-> 1, depth |-> d, degraded |-> FALSE]

\* insert_new_block at the depth the file landed at: a fresh record, or a heal
\* that keeps the surviving holders of a degraded one, follows the file and adds
\* its own reference.
InsertNewBlock(r, d) == [rc |-> r.rc + 1, depth |-> d, degraded |-> FALSE]

\* One batch entry: bump, or insert when there is nothing live to bump, then a
\* bump for each further occurrence.
RecordEntry(r, occurrences, d) ==
    LET first == IF HasLiveRecord(r) THEN Bump(r) ELSE InsertNewBlock(r, d)
    IN  [first EXCEPT !.rc = @ + (occurrences - 1)]

\* One reference dropped; the last one takes the record with it.
DecrementBlockRc(r) ==
    CASE r.rc = 0 -> r
      [] r.rc = 1 -> NoRecord
      [] OTHER    -> [r EXCEPT !.rc = @ - 1]
=============================================================================
