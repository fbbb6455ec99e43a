------------------------------ MODULE MCUploads ------------------------------
(***************************************************************************)
(* Uploads on a small instance: two clients and the sweep on one upload.   *)
(***************************************************************************)
EXTENDS Uploads, TLC

CONSTANTS k1

OneKey == [u \in Upload |-> k1]
=============================================================================
