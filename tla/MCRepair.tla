------------------------------ MODULE MCRepair ------------------------------
(***************************************************************************)
(* Small instances of Repair: a half-deleted bucket with an object whose   *)
(* key the delete path can name and one it cannot, an orphan part, and a   *)
(* part of a live upload.                                                  *)
(***************************************************************************)
EXTENDS Repair

CONSTANTS live, stranded, left, raw, orphan, part

HomeOf == [h \in Holder |-> IF h \in {left, raw} THEN stranded ELSE Parts]
=============================================================================
