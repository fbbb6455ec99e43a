------------------------------ MODULE MCMachines ------------------------------
(***************************************************************************)
(* Four machines that share nothing, one of them running in any behaviour: *)
(* the block files and a power cut, a read of one object, a walk over a    *)
(* tree of keys, a RESP connection.                                        *)
(*                                                                         *)
(* The two blocks on disk land in one directory, two levels down.          *)
(***************************************************************************)
EXTENDS BlockDisk, ReadPath, Listing, RespSession, TLC

VARIABLE machine

OneDirectory == [b \in Block |-> <<0, 0>>]

Array == [form |-> "array", len |-> 2, shown |-> 0, what |-> "other", name |-> "a", right |-> FALSE]
Sent == {Array,
         [Array EXCEPT !.len = 3, !.shown = 2],
         [Array EXCEPT !.form = "inline"],
         [Array EXCEPT !.form = "blank", !.len = 1],
         [Array EXCEPT !.form = "inline", !.len = 5],
         [Array EXCEPT !.form = "junk"],
         [Array EXCEPT !.what = "select"],
         [Array EXCEPT !.what = "select", !.right = TRUE],
         [Array EXCEPT !.what = "auth", !.right = TRUE]}
Scripts == UNION {[1 .. n -> Sent] : n \in 1 .. 3}

KeySet == 1 .. 5
Groups == [k \in KeySet |-> CASE k \in {2, 3} -> 1 [] k = 4 -> 2 [] OTHER -> 0]
PrefixSet == {<<2, 4>>}
PageSizes == 0 .. 2

\* The variables of the machines that do not run hold one value.
Init ==
    /\ machine \in {"disk", "read", "list", "session"}
    /\ DiskInit /\ ReadInit /\ ListInit /\ SessionInit
    /\ machine # "list" => keys = {}
    /\ machine # "session" => script = <<Array>>

Next ==
    /\ UNCHANGED machine
    /\ \/ machine = "disk" /\ DiskNext /\ UNCHANGED <<readVars, listVars, sessionVars>>
       \/ machine = "read" /\ ReadNext /\ UNCHANGED <<diskVars, listVars, sessionVars>>
       \/ machine = "list" /\ ListNext /\ UNCHANGED <<diskVars, readVars, sessionVars>>
       \/ machine = "session" /\ SessionNext /\ UNCHANGED <<diskVars, readVars, listVars>>

Spec == Init /\ [][Next]_<<machine, diskVars, readVars, listVars, sessionVars>>

Symmetry == Permutations(Writer)
================================================================================
