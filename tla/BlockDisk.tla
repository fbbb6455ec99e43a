------------------------------ MODULE BlockDisk ------------------------------
(***************************************************************************)
(* AtomicBlockWriter at the fsync durability level, down to what a power   *)
(* cut keeps: block files reach their final path by temp write, fdatasync, *)
(* rename and directory fsync, and only then is the record committed.      *)
(*                                                                         *)
(* The filesystem is the one the code is written for: a rename or mkdir is *)
(* an entry in the parent directory, visible at once and durable when that *)
(* directory is fsynced; a file's bytes are durable when the file is       *)
(* synced.  A power cut keeps everything durable and any part of the rest, *)
(* a file whose name it keeps and whose bytes it does not included.        *)
(*                                                                         *)
(* A directory is the sequence of hash bytes that leads to it; <<>> is the *)
(* blocks root.  The stripes that keep two writers off one block are       *)
(* BlockStore's subject and appear here as a guard.                        *)
(***************************************************************************)
EXTENDS BlockRecords, Sequences, SequencesExt

CONSTANTS Writer,     \* concurrent batches
          Block,      \* block ids
          HashOf,     \* block id -> the leading bytes of its hash
          MaxLosses   \* bound: process deaths and power cuts

ASSUME BlockDiskAssumption ==
    /\ MaxLosses \in Nat
    /\ \A b \in Block : HashOf[b] \in Seq(Nat) /\ Depth \subseteq 1..Len(HashOf[b])

VARIABLES made,      \* directories that exist
          linked,    \* those whose entry in their parent is durable
          named,     \* block -> depths at which a final path exists
          safe,      \* block -> depths at which that entry is durable
          wet,       \* <<block, depth>> whose file has bytes that are not synced
          torn,      \* <<block, depth>> whose file lost bytes to a power cut
          gone,      \* directories a power cut took
          knownDurable,  \* AtomicBlockWriter.known_durable
          recorded,  \* block -> depth its committed record names, or NoDepth
          pc,        \* where each writer is
          stage,     \* writer -> block -> depth of its temp file, or NoDepth
          synced,    \* writer -> blocks whose temp file is fdatasynced
          todo,      \* writer -> blocks it still has to rename
          chain,     \* directories it still has to fsync
          planned,   \* directories it will add to known_durable
          losses     \* deaths and power cuts so far

entries == <<made, linked, named, safe>>
content == <<wet, torn, gone>>
writers == <<pc, stage, synced, todo, chain, planned>>
diskVars == <<entries, content, knownDurable, recorded, writers, losses>>

Root == <<>>
Parent(dir) == SubSeq(dir, 1, Len(dir) - 1)
FanoutDir(b, d) == SubSeq(HashOf[b], 1, d)
Slot == Block \X Depth

Staged(w) == {b \in Block : stage[w][b] # NoDepth}
Bare == [b \in Block |-> NoDepth]

\* Opened on an empty root: create_dir_all, fsync, known_durable seeded.
DiskInit ==
    /\ made = {Root} /\ linked = {Root}
    /\ named = [b \in Block |-> {}] /\ safe = [b \in Block |-> {}]
    /\ wet = {} /\ torn = {} /\ gone = {}
    /\ knownDurable = {Root}
    /\ recorded = Bare
    /\ pc = [w \in Writer |-> "stage"]
    /\ stage = [w \in Writer |-> Bare]
    /\ synced = [w \in Writer |-> {}] /\ todo = [w \in Writer |-> {}]
    /\ chain = [w \in Writer |-> {}]
    /\ planned = [w \in Writer |-> {}]
    /\ losses = 0

-----------------------------------------------------------------------------
(* The filesystem. *)

\* fsync of a directory: its entries on disk are its entries now.
FsyncDir(dir) ==
    /\ linked' = {c \in linked : c = Root \/ Parent(c) # dir}
                 \cup {c \in made : c # Root /\ Parent(c) = dir}
    /\ safe' = [b \in Block |->
                  {d \in Depth : IF FanoutDir(b, d) = dir THEN d \in named[b] ELSE d \in safe[b]}]

\* rename of w's temp file of b over the final path: the name refers to that file now.
RenameTemp(w, b) ==
    LET file == <<b, stage[w][b]>>
    IN  /\ named' = [named EXCEPT ![b] = @ \cup {stage[w][b]}]
        /\ wet' = IF b \in synced[w] THEN wet \ {file} ELSE wet \cup {file}
        /\ torn' = torn \ {file}

\* The walk from a directory up to the first ancestor already known durable, that one
\* left out.
ChainUp(dir) ==
    {SubSeq(dir, 1, n) : n \in {m \in 0..Len(dir) :
        \A i \in m..Len(dir) : SubSeq(dir, 1, i) \notin knownDurable}}

\* Mutant: a landing directory known durable is left out too.
BatchChainUnknown(w) == UNION {ChainUp(FanoutDir(b, stage[w][b])) : b \in Staged(w)}

\* A landing directory always; each ancestor only below one known durable.
BatchChain(w) ==
    UNION {LET dir == FanoutDir(b, stage[w][b])
           IN  {dir} \cup ChainUp(Parent(dir)) : b \in Staged(w)}

-----------------------------------------------------------------------------
(* stage_block, sync_batch, land_batch: a batch. *)

\* create_dir_all and the temp write; another writer may hold a temp of b too.
StageBlock(w, b, d) ==
    /\ pc[w] = "stage"
    /\ stage[w][b] = NoDepth
    /\ made' = made \cup Prefixes(FanoutDir(b, d))
    /\ stage' = [stage EXCEPT ![w][b] = d]
    /\ UNCHANGED <<linked, named, safe, content, knownDurable, recorded,
                   pc, synced, todo, chain, planned, losses>>

Busy(b) == \E v \in Writer : pc[v] \notin {"stage", "synced"} /\ stage[v][b] # NoDepth

\* Mutant: the syncs are started and none is awaited.
SyncBatchUnawaited(w) ==
    /\ pc[w] = "stage" /\ Staged(w) # {}
    /\ pc' = [pc EXCEPT ![w] = "synced"]
    /\ synced' \in {[synced EXCEPT ![w] = done] : done \in SUBSET Staged(w)}
    /\ UNCHANGED <<entries, content, knownDurable, recorded,
                   stage, todo, chain, planned, losses>>

\* Every temp file fdatasynced; one that fails is WriterFails.
SyncBatch(w) ==
    /\ pc[w] = "stage" /\ Staged(w) # {}
    /\ pc' = [pc EXCEPT ![w] = "synced"]
    /\ synced' = [synced EXCEPT ![w] = Staged(w)]
    /\ UNCHANGED <<entries, content, knownDurable, recorded,
                   stage, todo, chain, planned, losses>>

\* Under the stripes: blocks recorded meanwhile are surplus and dropped.
StartLanding(w) ==
    /\ pc[w] = "synced"
    /\ \A b \in Staged(w) : ~Busy(b)
    /\ stage' = [stage EXCEPT ![w] =
                    [b \in Block |-> IF recorded[b] # NoDepth THEN NoDepth ELSE @[b]]]
    /\ todo' = [todo EXCEPT ![w] = {b \in Staged(w) : recorded[b] = NoDepth}]
    /\ pc' = [pc EXCEPT ![w] = "rename"]
    /\ UNCHANGED <<entries, content, knownDurable, recorded, synced, chain, planned, losses>>

Rename(w, b) ==
    /\ pc[w] = "rename" /\ b \in todo[w]
    /\ RenameTemp(w, b)
    /\ todo' = [todo EXCEPT ![w] = @ \ {b}]
    /\ UNCHANGED <<made, linked, safe, gone, knownDurable, recorded,
                   pc, stage, synced, chain, planned, losses>>

PlanSyncs(w) ==
    /\ pc[w] = "rename" /\ todo[w] = {}
    /\ chain' = [chain EXCEPT ![w] = BatchChain(w)]
    /\ planned' = [planned EXCEPT ![w] = BatchChain(w)]
    /\ pc' = [pc EXCEPT ![w] = "fsync"]
    /\ UNCHANGED <<entries, content, knownDurable, recorded, stage, synced, todo, losses>>

\* The next directory of the chain, deepest first; all of them are remembered
\* once the last is synced.
SyncNext(w) ==
    /\ pc[w] \in {"fsync", "presync"}
    /\ \E dir \in chain[w] :
          /\ \A other \in chain[w] : Len(other) <= Len(dir)
          /\ FsyncDir(dir)
          /\ chain' = [chain EXCEPT ![w] = @ \ {dir}]
          /\ knownDurable' = IF chain[w] = {dir} THEN knownDurable \cup planned[w]
                             ELSE knownDurable
    /\ UNCHANGED <<made, named, content, recorded, pc, stage, synced, todo, planned, losses>>

Rested(w) ==
    /\ pc' = [pc EXCEPT ![w] = "stage"]
    /\ stage' = [stage EXCEPT ![w] = Bare]
    /\ synced' = [synced EXCEPT ![w] = {}]
    /\ todo' = [todo EXCEPT ![w] = {}]
    /\ chain' = [chain EXCEPT ![w] = {}]
    /\ planned' = [planned EXCEPT ![w] = {}]

\* Files in place and their directories synced: the records commit.
CommitRecords(w) ==
    /\ pc[w] = "fsync" /\ chain[w] = {}
    /\ recorded' = [b \in Block |-> IF b \in Staged(w) THEN stage[w][b] ELSE recorded[b]]
    /\ Rested(w)
    /\ UNCHANGED <<entries, content, knownDurable, losses>>

-----------------------------------------------------------------------------
(* write_block: one block whose dedup hit was overtaken by a delete. *)

\* create_dir_all and the temp write, under the block's stripe.
StartWriteBlock(w, b, d) ==
    /\ pc[w] = "stage" /\ Staged(w) = {}
    /\ recorded[b] = NoDepth /\ ~Busy(b)
    /\ made' = made \cup Prefixes(FanoutDir(b, d))
    /\ stage' = [stage EXCEPT ![w][b] = d]
    /\ todo' = [todo EXCEPT ![w] = {b}]
    /\ pc' = [pc EXCEPT ![w] = "written"]
    /\ UNCHANGED <<linked, named, safe, content, knownDurable, recorded,
                   synced, chain, planned, losses>>

\* The temp file fdatasynced; then the walk of fsync_chain_deepest_up.
SyncWritten(w) ==
    /\ pc[w] = "written"
    /\ synced' = [synced EXCEPT ![w] = Staged(w)]
    /\ LET up == UNION {ChainUp(FanoutDir(b, stage[w][b])) : b \in Staged(w)}
       IN  chain' = [chain EXCEPT ![w] = up] /\ planned' = [planned EXCEPT ![w] = up]
    /\ pc' = [pc EXCEPT ![w] = "presync"]
    /\ UNCHANGED <<entries, content, knownDurable, recorded, stage, todo, losses>>

\* The chain is synced: rename, then the landing directory.
RenameWritten(w, b) ==
    /\ pc[w] = "presync" /\ chain[w] = {} /\ b \in todo[w]
    /\ RenameTemp(w, b)
    /\ todo' = [todo EXCEPT ![w] = {}]
    /\ chain' = [chain EXCEPT ![w] = {FanoutDir(b, stage[w][b])}]
    /\ planned' = [planned EXCEPT ![w] = {}]
    /\ pc' = [pc EXCEPT ![w] = "fsync"]
    /\ UNCHANGED <<made, linked, safe, gone, knownDurable, recorded, stage, synced, losses>>

-----------------------------------------------------------------------------
(* unlink_block, and the ways everything in flight is lost. *)

\* The record is gone first; the unlink is never fsynced.
DeleteBlock(b) ==
    /\ recorded[b] # NoDepth /\ ~Busy(b)
    /\ recorded' = [recorded EXCEPT ![b] = NoDepth]
    /\ named' = [named EXCEPT ![b] = @ \ {recorded[b]}]
    /\ UNCHANGED <<made, linked, safe, content, knownDurable, writers, losses>>

\* An operation on the disk fails: the batch is abandoned where it stands and its
\* temp files are removed.
WriterFails(w) ==
    /\ Staged(w) # {}
    /\ Rested(w)
    /\ UNCHANGED <<entries, content, knownDurable, recorded, losses>>

\* open: temp files purged, the root synced, nothing else known durable.
Reopened ==
    /\ losses < MaxLosses /\ losses' = losses + 1
    /\ knownDurable' = {Root}
    /\ pc' = [w \in Writer |-> "stage"]
    /\ stage' = [w \in Writer |-> Bare]
    /\ synced' = [w \in Writer |-> {}] /\ todo' = [w \in Writer |-> {}]
    /\ chain' = [w \in Writer |-> {}] /\ planned' = [w \in Writer |-> {}]

\* Process death: the page cache survives, and open fsyncs the root.
Kill ==
    /\ Reopened
    /\ FsyncDir(Root)
    /\ UNCHANGED <<made, named, content, recorded>>

\* A power cut: what is durable stays, and any of what is not. A file unlinked since its
\* entry was last synced is there again.
PowerCut ==
    /\ Reopened
    /\ \E dirs \in SUBSET (made \ linked),
          kept \in SUBSET {s \in Slot : s[2] \in named[s[1]] \ safe[s[1]]},
          lost \in SUBSET wet :
          LET alive == {dir \in made : Prefixes(dir) \subseteq linked \cup dirs}
              left == [b \in Block |-> {d \in Depth : /\ d \in safe[b] \/ <<b, d>> \in kept
                                                     /\ FanoutDir(b, d) \in alive}]
          IN  /\ made' = alive /\ linked' = alive
              /\ gone' = gone \cup (made \ alive)
              /\ named' = left /\ safe' = left
              /\ torn' = {s \in torn \cup lost : s[2] \in left[s[1]]}
              /\ wet' = {}
    /\ UNCHANGED recorded

DiskNext ==
    \/ \E w \in Writer :
          \/ \E b \in Block, d \in Depth : StageBlock(w, b, d) \/ StartWriteBlock(w, b, d)
          \/ SyncBatch(w) \/ StartLanding(w) \/ PlanSyncs(w) \/ SyncNext(w)
          \/ \E b \in Block : Rename(w, b) \/ RenameWritten(w, b)
          \/ CommitRecords(w) \/ SyncWritten(w) \/ WriterFails(w)
    \/ \E b \in Block : DeleteBlock(b)
    \/ Kill
    \/ PowerCut

-----------------------------------------------------------------------------
(* Properties. *)

\* A power cut leaves no name without its bytes: a block file that is there, recorded,
\* orphaned by a batch that failed half way or back from an unlink, is whole (sync_batch
\* before land_batch, and the fdatasync of write_block before its rename).
NoTornBlock == \A b \in Block : \A d \in named[b] : <<b, d>> \notin torn

\* The entry of a committed record's file is durable in the directory the file landed in,
\* whoever synced that directory before and whatever was deleted, rewritten or abandoned
\* there in between; so the file is lost only together with a directory on its path
\* (land_batch syncs every landing directory, known durable or not).
LostOnlyWithADirectory ==
    \A b \in Block : recorded[b] # NoDepth =>
        \/ recorded[b] \in named[b] \cap safe[b]
        \/ Prefixes(FanoutDir(b, recorded[b])) \cap gone # {}

\* What land_batch says of a batch's directories: "a directory's own entry in its parent
\* is durable before the batch's records exist", so that a recorded block survives a
\* power cut.
RecordedBlockSurvives ==
    \A b \in Block : recorded[b] # NoDepth => recorded[b] \in named[b]
=============================================================================
