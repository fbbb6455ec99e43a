------------------------------- MODULE Repair -------------------------------
(***************************************************************************)
(* qss-storage-fsck --repair: the report, the two planning rounds and the  *)
(* repair actions, over a store that crashes, leaks and bit rot have left  *)
(* behind.  The daemon is stopped, so the tool is the only actor; what it  *)
(* has to survive is its own death at any point, actions that fail, and    *)
(* being run again.                                                        *)
(*                                                                         *)
(* A holder is an object record in a tree, or a part record.  The          *)
(* references are triples of holder, position and block: a block listed    *)
(* twice counts twice.  An action of the tool takes several steps where    *)
(* the code commits, renames and unlinks separately.                       *)
(***************************************************************************)
EXTENDS BlockRecords, FiniteSets

CONSTANTS
    Block,
    Holder,      \* object records and part records
    Tree,        \* object trees of the namespace database
    Parts,       \* the _MULTIPART_PARTS tree
    Home,        \* the tree a holder's record is in
    BucketRow,   \* the trees that have a row in _BUCKETS
    Owned,       \* part records whose upload record exists
    Unnamable,   \* object records whose key is not UTF-8
    Uploads,     \* the _UPLOADS tree, as something that may not decode
    MaxRefs,     \* bound: references of one holder
    MaxLeaks,    \* bound: references of a block no holder accounts for
    MaxFaults    \* bound: deaths of the tool and failing steps

ASSUME RepairAssumption ==
    /\ IsFiniteSet(Holder) /\ MaxRefs \in Nat /\ MaxLeaks \in Nat /\ MaxFaults \in Nat
    /\ Parts \notin Tree /\ Home \in [Holder -> Tree \cup {Parts}]
    /\ BucketRow \subseteq Tree /\ Owned \subseteq Holder /\ Unnamable \subseteq Holder
    /\ Holder \cap Block = {} /\ Uploads \notin Holder \cup Block

VARIABLES
    refs,        \* the references of the holder records
    trees,       \* the object trees that exist
    opaque,      \* the records that do not decode (a holder, a block, Uploads: one of _UPLOADS)
    rec,         \* _BLOCKS
    files,       \* what stands at each depth of a block: "none", "good" or "bad"
    aside,       \* how many files are in blocks/.quarantine
    scrub,       \* --scrub was given
    phase,       \* where the run is
    ran,         \* the gating passes that ran: "recount", "multipart"
    corrupt,     \* the files the report found corrupt
    todo,        \* trees, part records or actions not dealt with yet
    owed,        \* references of a removed record, not decremented yet
    doomed,      \* files the action in hand is about to unlink
    marking,     \* the block the action in hand is about to mark degraded
    failed,      \* some action of this run ended as Failed
    faults

store   == <<refs, trees, opaque, rec, files, aside>>
report  == <<scrub, ran, corrupt>>
inhand  == <<owed, doomed, marking>>
vars    == <<store, report, inhand, phase, todo, failed, faults>>

File == Block \X Depth

AllRefs == Holder \X (1..MaxRefs) \X Block

RefsOf(h) == {x \in refs : x[1] = h}

\* expected_counts: every reference of every holder, per occurrence.
Holders(b) == Cardinality({x \in refs : x[3] = b})

\* The actions of round two.  depths are the files an action is about, to is the
\* count set_rc sets, residue that adopt_orphan has quarantined a candidate.
Act(kind, b, ds, to) == [kind |-> kind, block |-> b, depths |-> ds, to |-> to, residue |-> FALSE]

ActionKind == {"quarantine_corrupt", "adopt_orphan", "set_rc", "mark_degraded", "delete"}

Action == [kind : ActionKind, block : Block, depths : SUBSET Depth, to : Nat, residue : BOOLEAN]

Phase == {"report", "teardown", "reap", "apply", "done"}

TypeOK ==
    /\ refs \subseteq AllRefs
    /\ trees \subseteq Tree
    /\ opaque \subseteq Holder \cup Block \cup {Uploads}
    /\ rec \in [Block -> Record]
    /\ \A b \in Block : rec[b].rc = 0 => rec[b] = NoRecord
    /\ files \in [Block -> [Depth -> {"none", "good", "bad"}]]
    /\ aside \in Nat
    /\ scrub \in BOOLEAN /\ ran \subseteq {"recount", "multipart"} /\ corrupt \subseteq File
    /\ phase \in Phase
    /\ phase = "teardown" => todo \subseteq Tree
    /\ phase = "reap" => todo \subseteq Holder
    /\ phase = "apply" => todo \subseteq Action
    /\ phase \in {"report", "done"} => todo = {}
    /\ owed \subseteq AllRefs /\ doomed \subseteq File /\ marking \subseteq Block
    /\ failed \in BOOLEAN /\ faults \in 0..MaxFaults

OnDisk(b) == {d \in Depth : files[b][d] # "none"}

\* What a store can have gone through: lost or misplaced files, files whose bytes
\* changed, counts that are too high (never too low), half-deleted buckets, orphan
\* parts, records that do not decode.
Init ==
    /\ refs \in SUBSET AllRefs
    /\ trees = Tree
    /\ \E leak \in [Block -> 0..MaxLeaks], d \in [Block -> Depth], g \in [Block -> BOOLEAN] :
          rec = [b \in Block |-> IF Holders(b) + leak[b] = 0 THEN NoRecord
                                 ELSE [rc |-> Holders(b) + leak[b], depth |-> d[b], degraded |-> g[b]]]
    /\ opaque \in {{}, {Uploads}} \cup {{h} : h \in {x \in Holder : RefsOf(x) # {}}}
                                 \cup {{b} : b \in {x \in Block : Exists(rec[x])}}
    /\ files \in [Block -> [Depth -> {"none", "good", "bad"}]]
    /\ aside = 0
    /\ scrub \in BOOLEAN
    /\ phase = "report" /\ ran = {} /\ corrupt = {} /\ todo = {}
    /\ owed = {} /\ doomed = {} /\ marking = {} /\ failed = FALSE /\ faults = 0

Idle == owed = {} /\ doomed = {} /\ marking = {}

-----------------------------------------------------------------------------
(* The report.                                                             *)

\* The holder walk closes only over records that all decode.
HoldersClose == opaque \cap Holder = {}

\* multipart_report needs every part record and every upload record.
PartsClose == Uploads \notin opaque /\ \A h \in opaque \cap Holder : Home[h] # Parts

\* The block records that get_block can decode.
Legible(b) == b \notin opaque

\* walk_records: the block records there are, without those that do not decode.
Recorded == {b \in Block : Exists(rec[b]) /\ Legible(b)}

\* Pass 1, recount.
Miscounted == {b \in Recorded : rec[b].rc # Holders(b)}

\* Mutant: every copy is a duplicate once the record has its own file.
AllCopies ==
    {f \in File : f[2] \in OnDisk(f[1]) /\ (f[1] \in Recorded => rec[f[1]].depth \in OnDisk(f[1]))}

\* Pass 2, disk_sweep: files without a record, and copies at a depth the record
\* does not name while its own file is there.
Unaccounted ==
    {f \in File :
        /\ f[2] \in OnDisk(f[1])
        /\ f[1] \in Recorded => rec[f[1]].depth # f[2] /\ rec[f[1]].depth \in OnDisk(f[1])}

\* Pass 3, dangling_sweep: live records whose own file is missing.
Fileless == {b \in Recorded : HasLiveRecord(rec[b]) /\ rec[b].depth \notin OnDisk(b)}

\* Pass 4, corruption_scrub: only with --scrub.
CorruptFiles == {f \in File : scrub /\ files[f[1]][f[2]] = "bad"}

\* Pass 5, multipart_report: part records without an upload record.
OrphanParts == {h \in Holder : Home[h] = Parts /\ h \notin Owned /\ RefsOf(h) # {}}

\* Pass 6, bucket_integrity: object trees with no bucket row.
StrandedTrees == trees \ BucketRow

\* engine::run, then plan_teardowns.
Report ==
    /\ phase = "report"
    /\ ran' = {p \in {"recount", "multipart"} :
                  \/ p = "recount" /\ HoldersClose
                  \/ p = "multipart" /\ PartsClose}
    /\ corrupt' = CorruptFiles
    /\ phase' = "teardown"
    /\ todo' = IF "recount" \in ran' THEN StrandedTrees ELSE {}
    /\ UNCHANGED <<store, inhand, scrub, failed, faults>>

-----------------------------------------------------------------------------
(* Round one: the actions that remove holders.                             *)

\* delete_object on an object of a stranded tree: the record goes first.
TakeObject(h) ==
    /\ phase = "teardown" /\ Idle
    /\ Home[h] \in todo /\ RefsOf(h) # {} /\ h \notin Unnamable
    /\ owed' = RefsOf(h)
    /\ refs' = refs \ RefsOf(h)
    /\ UNCHANGED <<trees, opaque, rec, files, aside, report, doomed, marking, phase, todo, failed, faults>>

\* The tree goes when the keys the delete path can name are done, with whatever
\* else is in it.
DropTree(t) ==
    /\ phase = "teardown" /\ Idle /\ t \in todo
    /\ \A h \in Holder \ Unnamable : Home[h] = t => RefsOf(h) = {}
    /\ trees' = trees \ {t}
    /\ refs' = {x \in refs : Home[x[1]] # t}
    /\ todo' = todo \ {t}
    /\ UNCHANGED <<opaque, rec, files, aside, report, inhand, phase, failed, faults>>

\* A delete or the drop fails and ends the teardown of this tree; a delete whose
\* commit was visible all the same has taken its record and releases nothing.
TeardownFails(t) ==
    /\ phase = "teardown" /\ Idle /\ t \in todo /\ faults < MaxFaults
    /\ \/ refs' = refs
       \/ \E h \in Holder \ Unnamable : Home[h] = t /\ RefsOf(h) # {} /\ refs' = refs \ RefsOf(h)
    /\ todo' = todo \ {t}
    /\ failed' = TRUE /\ faults' = faults + 1
    /\ UNCHANGED <<trees, opaque, rec, files, aside, report, inhand, phase>>

PlanOrphanParts ==
    /\ phase = "teardown" /\ Idle /\ todo = {}
    /\ phase' = "reap"
    /\ todo' = IF {"recount", "multipart"} \subseteq ran THEN OrphanParts ELSE {}
    /\ UNCHANGED <<store, report, inhand, failed, faults>>

\* reap_part: the record and its blocks leave in one transaction.
ReapPart(h) ==
    /\ phase = "reap" /\ Idle /\ h \in todo
    /\ owed' = RefsOf(h)
    /\ refs' = refs \ RefsOf(h)
    /\ todo' = todo \ {h}
    /\ UNCHANGED <<trees, opaque, rec, files, aside, report, doomed, marking, phase, failed, faults>>

ReapFails(h) ==
    /\ phase = "reap" /\ Idle /\ h \in todo /\ faults < MaxFaults
    /\ refs' \in {refs, refs \ RefsOf(h)}
    /\ todo' = todo \ {h}
    /\ failed' = TRUE /\ faults' = faults + 1
    /\ UNCHANGED <<trees, opaque, rec, files, aside, report, inhand, phase>>

\* release_blocks, one occurrence: the file goes after the last reference. A record
\* that does not decode cannot be counted down, which is logged.
Release(x) ==
    /\ x \in owed /\ doomed = {}
    /\ owed' = owed \ {x}
    /\ rec' = [rec EXCEPT ![x[3]] = IF Legible(x[3]) THEN DecrementBlockRc(@) ELSE @]
    /\ doomed' = IF Legible(x[3]) /\ rec[x[3]].rc = 1 THEN {<<x[3], rec[x[3]].depth>>} ELSE {}
    /\ UNCHANGED <<refs, trees, opaque, files, aside, report, marking, phase, todo, failed, faults>>

\* A decrement that fails is logged and the loop goes on; the file stays.
ReleaseFails(x) ==
    /\ x \in owed /\ Legible(x[3]) /\ doomed = {} /\ faults < MaxFaults
    /\ owed' = owed \ {x}
    /\ rec' \in {rec, [rec EXCEPT ![x[3]] = DecrementBlockRc(@)]}
    /\ faults' = faults + 1
    /\ UNCHANGED <<refs, trees, opaque, files, aside, report, doomed, marking, phase, todo, failed>>

-----------------------------------------------------------------------------
(* The steps that follow a commit or a rename inside one action.           *)

\* unlink_block and unlink_tolerant.
Unlink(f) ==
    /\ f \in doomed
    /\ files' = [files EXCEPT ![f[1]][f[2]] = "none"]
    /\ doomed' = doomed \ {f}
    /\ UNCHANGED <<refs, trees, opaque, rec, aside, report, owed, marking, phase, todo, failed, faults>>

\* A failing unlink ends the action; in release_blocks it is only logged.
UnlinkFails ==
    /\ doomed # {} /\ faults < MaxFaults
    /\ doomed' = {}
    /\ failed' = (failed \/ phase = "apply")
    /\ faults' = faults + 1
    /\ UNCHANGED <<store, report, owed, marking, phase, todo>>

Flagged(r) == IF Exists(r) THEN [r EXCEPT !.degraded = TRUE] ELSE r

\* mark_degraded; a record that does not decode cannot be flagged, and the action fails.
MarkDegraded(b) ==
    /\ b \in marking
    /\ rec' = [rec EXCEPT ![b] = IF Legible(b) THEN Flagged(@) ELSE @]
    /\ failed' = (failed \/ ~Legible(b))
    /\ marking' = {}
    /\ UNCHANGED <<refs, trees, opaque, files, aside, report, owed, doomed, phase, todo, faults>>

MarkDegradedFails(b) ==
    /\ b \in marking /\ Legible(b) /\ faults < MaxFaults
    /\ rec' \in {rec, [rec EXCEPT ![b] = Flagged(@)]}
    /\ marking' = {}
    /\ failed' = TRUE /\ faults' = faults + 1
    /\ UNCHANGED <<refs, trees, opaque, files, aside, report, owed, doomed, phase, todo>>

-----------------------------------------------------------------------------
(* Round two: planned against what round one left.                         *)

\* plan_corrupt: the report's verdicts on files that are still there.
Quarantines ==
    {Act("quarantine_corrupt", f[1], {f[2]}, 0) : f \in {g \in corrupt : g[2] \in OnDisk(g[1])}}

Adoptions == {Act("adopt_orphan", b, OnDisk(b), 0) : b \in {c \in Fileless : OnDisk(c) # {}}}

Degradings == {Act("mark_degraded", b, {}, 0) : b \in {c \in Fileless : OnDisk(c) = {}}}

\* Mutant: a count over the holders that decode is good enough to act on.
PartialRecounts ==
    LET Seen(b) == Cardinality({x \in refs : x[3] = b /\ x[1] \notin opaque})
    IN  {Act("set_rc", b, {}, Seen(b)) : b \in {c \in Recorded : rec[c].rc # Seen(c)}}

\* Without a closed holder set no count may move.
Recounts ==
    {Act("set_rc", b, {}, Holders(b)) : b \in {c \in Miscounted : "recount" \in ran}}

Deletions == {Act("delete", f[1], {f[2]}, 0) : f \in Unaccounted}

PlanRepairs ==
    /\ phase = "reap" /\ Idle /\ todo = {}
    /\ phase' = "apply"
    /\ todo' = Quarantines \cup Adoptions \cup Recounts \cup Degradings \cup Deletions
    /\ UNCHANGED <<store, report, inhand, failed, faults>>

\* The order in which the actions are declared, which is the order they are
\* applied in.  Actions of one kind go by block address, here any order.
Rank(kind) ==
    CASE kind = "quarantine_corrupt" -> 1
      [] kind = "adopt_orphan" -> 2
      [] kind = "set_rc" -> 3
      [] kind = "mark_degraded" -> 4
      [] kind = "delete" -> 5

\* The next action to apply.
Turn(a) ==
    /\ phase = "apply" /\ Idle /\ a \in todo
    /\ \A c \in todo : Rank(a.kind) <= Rank(c.kind)

\* Mutant: the corrupt file is moved and its record left alone.
QuarantineOnly(a) ==
    /\ Turn(a) /\ a.kind = "quarantine_corrupt"
    /\ aside' = aside + 1
    /\ files' = [files EXCEPT ![a.block] = [d \in Depth |-> IF d \in a.depths THEN "none" ELSE @[d]]]
    /\ todo' = todo \ {a}
    /\ UNCHANGED <<refs, trees, opaque, rec, report, inhand, phase, failed, faults>>

\* quarantine_corrupt: the file is moved, then the record is marked.
QuarantineCorrupt(a) ==
    /\ Turn(a) /\ a.kind = "quarantine_corrupt"
    /\ \E d \in a.depths :
          /\ aside' = IF d \in OnDisk(a.block) THEN aside + 1 ELSE aside
          /\ files' = [files EXCEPT ![a.block][d] = "none"]
    /\ marking' = {a.block}
    /\ todo' = todo \ {a}
    /\ UNCHANGED <<refs, trees, opaque, rec, report, owed, doomed, phase, failed, faults>>

\* adopt_orphan has no record to adopt for, or its own file is there after all.
AdoptSkipped(a) == ~Exists(rec[a.block]) \/ rec[a.block].depth \in OnDisk(a.block)

\* The shallowest candidate not looked at yet.
Candidate(a, d) == d \in a.depths /\ \A e \in a.depths : d <= e

\* The candidate is read and hashes to the address.
Verified(b, d) == files[b][d] = "good"

\* A verified candidate: the record follows the file and keeps its flags; the
\* copies not looked at are duplicates now.
AdoptOrphan(a) ==
    /\ Turn(a) /\ a.kind = "adopt_orphan" /\ ~AdoptSkipped(a)
    /\ \E d \in a.depths :
          /\ Candidate(a, d) /\ Verified(a.block, d)
          /\ rec' = [rec EXCEPT ![a.block].depth = d]
          /\ doomed' = {a.block} \X (a.depths \ {d})
    /\ todo' = todo \ {a}
    /\ UNCHANGED <<refs, trees, opaque, files, aside, report, owed, marking, phase, failed, faults>>

\* A candidate that is gone is passed over, one that does not hash is quarantined.
PassOverCandidate(a) ==
    /\ Turn(a) /\ a.kind = "adopt_orphan" /\ ~AdoptSkipped(a)
    /\ \E d \in a.depths :
          /\ Candidate(a, d) /\ ~Verified(a.block, d)
          /\ aside' = IF d \in OnDisk(a.block) THEN aside + 1 ELSE aside
          /\ files' = [files EXCEPT ![a.block][d] = "none"]
          /\ todo' = (todo \ {a}) \cup
                        {[a EXCEPT !.depths = @ \ {d}, !.residue = @ \/ d \in OnDisk(a.block)]}
    /\ UNCHANGED <<refs, trees, opaque, rec, report, inhand, phase, failed, faults>>

\* Nothing was adopted: a record whose candidates were all corrupt is marked.
NothingToAdopt(a) ==
    /\ Turn(a) /\ a.kind = "adopt_orphan" /\ (AdoptSkipped(a) \/ a.depths = {})
    /\ marking' = IF a.residue /\ ~AdoptSkipped(a) THEN {a.block} ELSE {}
    /\ todo' = todo \ {a}
    /\ UNCHANGED <<store, report, owed, doomed, phase, failed, faults>>

\* The record set_rc leaves behind.
WithRc(r, to) == IF to = 0 THEN NoRecord ELSE [r EXCEPT !.rc = to]

\* set_rc: zero frees the block, record first, file second.
SetRc(a) ==
    /\ Turn(a) /\ a.kind = "set_rc"
    /\ rec' = [rec EXCEPT ![a.block] = IF Exists(@) THEN WithRc(@, a.to) ELSE @]
    /\ doomed' = IF Exists(rec[a.block]) /\ a.to = 0 THEN {<<a.block, rec[a.block].depth>>} ELSE {}
    /\ todo' = todo \ {a}
    /\ UNCHANGED <<refs, trees, opaque, files, aside, report, owed, marking, phase, failed, faults>>

MarkDegradedAction(a) ==
    /\ Turn(a) /\ a.kind = "mark_degraded"
    /\ marking' = {a.block}
    /\ todo' = todo \ {a}
    /\ UNCHANGED <<store, report, owed, doomed, phase, failed, faults>>

DeleteUnreferenced(a) ==
    /\ Turn(a) /\ a.kind = "delete"
    /\ files' = [files EXCEPT ![a.block] = [d \in Depth |-> IF d \in a.depths THEN "none" ELSE @[d]]]
    /\ todo' = todo \ {a}
    /\ UNCHANGED <<refs, trees, opaque, rec, aside, report, inhand, phase, failed, faults>>

Apply(a) ==
    \/ QuarantineCorrupt(a) \/ AdoptOrphan(a) \/ PassOverCandidate(a) \/ NothingToAdopt(a)
    \/ SetRc(a) \/ MarkDegradedAction(a) \/ DeleteUnreferenced(a)

\* An action fails: before its first effect, or after it and before what follows.
ActionFails(a) ==
    /\ Turn(a) /\ faults < MaxFaults
    /\ todo' = todo \ {a}
    /\ \/ UNCHANGED <<rec, files, aside>>
       \/ /\ a.kind = "quarantine_corrupt"
          /\ \E d \in a.depths : d \in OnDisk(a.block) /\ files' = [files EXCEPT ![a.block][d] = "none"]
          /\ aside' = aside + 1 /\ rec' = rec
       \/ /\ a.kind = "adopt_orphan" /\ ~AdoptSkipped(a)
          /\ \E d \in a.depths : Candidate(a, d) /\ Verified(a.block, d)
                                    /\ rec' = [rec EXCEPT ![a.block].depth = d]
          /\ UNCHANGED <<files, aside>>
       \/ /\ a.kind = "set_rc" /\ Exists(rec[a.block])
          /\ rec' = [rec EXCEPT ![a.block] = WithRc(@, a.to)]
          /\ UNCHANGED <<files, aside>>
    /\ failed' = TRUE /\ faults' = faults + 1
    /\ UNCHANGED <<refs, trees, opaque, report, inhand, phase>>

-----------------------------------------------------------------------------
(* The end of a run, and the next one.                                     *)

\* flag_unfinished: the classes the tool repairs that the passes find again.
Unfinished ==
    {c \in {"count", "file", "dangling", "corrupt", "part", "bucket"} :
        \/ c = "count" /\ HoldersClose /\ Miscounted # {}
        \/ c = "file" /\ Unaccounted # {}
        \/ c = "dangling" /\ Fileless # {}
        \/ c = "corrupt" /\ CorruptFiles # {}
        \/ c = "part" /\ PartsClose /\ OrphanParts # {}
        \/ c = "bucket" /\ StrandedTrees # {}}

Finish ==
    /\ phase = "apply" /\ Idle /\ todo = {}
    /\ phase' = "done"
    /\ UNCHANGED <<store, report, inhand, todo, failed, faults>>

Restart ==
    /\ phase' = "report" /\ ran' = {} /\ corrupt' = {} /\ todo' = {}
    /\ owed' = {} /\ doomed' = {} /\ marking' = {} /\ failed' = FALSE
    /\ scrub' \in BOOLEAN
    /\ UNCHANGED store

\* The operator runs the tool again.
Rerun == phase = "done" /\ Restart /\ UNCHANGED faults

\* The tool dies; running it again is the recovery procedure.
Killed == phase \notin {"report", "done"} /\ faults < MaxFaults /\ Restart /\ faults' = faults + 1

RoundOne ==
    \/ \E h \in Holder : TakeObject(h) \/ ReapPart(h)
    \/ \E t \in Tree : DropTree(t)
    \/ PlanOrphanParts

InHand ==
    \/ \E x \in owed : Release(x)
    \/ \E f \in doomed : Unlink(f)
    \/ \E b \in marking : MarkDegraded(b)

Progress ==
    \/ Report \/ RoundOne \/ InHand \/ PlanRepairs \/ Finish
    \/ phase = "apply" /\ \E a \in todo : Apply(a)

Faults ==
    \/ \E t \in Tree : TeardownFails(t)
    \/ \E h \in Holder : ReapFails(h)
    \/ \E x \in owed : ReleaseFails(x)
    \/ UnlinkFails
    \/ \E b \in marking : MarkDegradedFails(b)
    \/ phase = "apply" /\ \E a \in todo : ActionFails(a)
    \/ Killed

Next == Progress \/ Faults \/ Rerun

Spec == Init /\ [][Next]_vars

-----------------------------------------------------------------------------
(* Properties.                                                             *)

\* Loss-never: whatever the tool has done and wherever it was killed, a count is
\* never below the holders there are and the references still to be released.
NeverUndercounts ==
    TypeOK /\ \A b \in Block : rec[b].rc >= Holders(b) + Cardinality({x \in owed : x[3] = b})

\* The good copies of a block.
GoodCopies(b) == {d \in Depth : files[b][d] = "good"}

Readable(b) == Exists(rec[b]) /\ Legible(b) /\ files[b][rec[b].depth] = "good"

\* The file a record names is corrupt, or the report found it so.
OwnFileRotten(b) == files[b][rec[b].depth] = "bad" \/ <<b, rec[b].depth>> \in corrupt

\* No step of a repair makes a block unreadable that something still holds, or points a
\* record at a copy that was not hashed and found good; and with --scrub, while no action
\* has failed, a corrupt copy of a block that something holds leaves the blocks root only
\* into quarantine. The plan is made once and its actions change what it was made from.
\* The last good copy of a held block, readable or not, goes in two cases only: the
\* record's own file is corrupt, so that the copy counts as a duplicate of it, or the
\* record does not decode, so that plan_repairs takes the file for an orphan.
HeldBlocksStayReadable ==
    [][\A b \in Block :
          /\ Readable(b) /\ Holders(b)' > 0 => Readable(b)'
          /\ rec'[b].depth # rec[b].depth /\ Exists(rec'[b]) => files[b][rec'[b].depth] = "good"
          /\ \A d \in Depth :
                scrub /\ ~failed /\ files[b][d] = "bad" /\ files'[b][d] # "bad" /\ Holders(b)' > 0
                   => aside' = aside + 1
          /\ GoodCopies(b) # {} /\ GoodCopies(b)' = {} /\ Holders(b)' > 0
                => OwnFileRotten(b) \/ ~Legible(b)]_vars

\* A run that closed the holder set and in which no action failed, also the run
\* after any number of killed ones, comes out clean (exact counts, no live record without
\* its file, no corrupt file if it looked, no half-deleted bucket, with the uploads
\* legible no orphan part), but for files of blocks that have no record and that nothing
\* holds: set_rc frees a degraded record and not the copies at other depths.
RepairSettles ==
    phase = "done" /\ ~failed /\ "recount" \in ran =>
        /\ Unfinished \subseteq {"file"}
        /\ \A f \in Unaccounted : f[1] \notin Recorded /\ Holders(f[1]) = 0

\* Deletions come last, "once nothing above can still want them": once the report
\* has found the file a record names corrupt, the copy that is next to be deleted
\* is not the only good one of a block that something holds.
DeletedCopiesAreUnwanted ==
    phase = "apply" =>
        \A a \in todo :
            Turn(a) /\ a.kind = "delete" /\ Holders(a.block) > 0
                    /\ <<a.block, rec[a.block].depth>> \in corrupt
                => GoodCopies(a.block) = {} \/ GoodCopies(a.block) \ a.depths # {}
=============================================================================
