------------------------------ MODULE BlockStore ------------------------------
(***************************************************************************)
(* The block protocol of cas-storage: PUT in batches, overwrite, DELETE and*)
(* clone-by-reference over one shared set of reference-counted blocks.     *)
(*                                                                         *)
(* Two databases and a disk that no single transaction spans: object       *)
(* records (obj), block records (rec) and block files (files).  Requests   *)
(* run concurrently; the per-block stripes serialise block mutations.  A   *)
(* request can fail or be cancelled at every await, a commit can fail with *)
(* or without having become visible, and the process can die at any step.  *)
(*                                                                         *)
(* An object's block list is a set of references <<position, block>>.  A   *)
(* reference is counted in rec[b].rc while some holder keeps it: the object*)
(* record naming it, or the request that counted it and has not published  *)
(* it yet, or that took it out of a record and has not released it yet.    *)
(***************************************************************************)
EXTENDS BlockRecords, FiniteSets

CONSTANTS Proc,                \* concurrent requests
          Key,                 \* object keys
          Block,               \* block ids
          StripeOf,            \* Stripes::index_of, block id -> stripe index
          MaxBlocksPerCommit,  \* BlockBatch.cap
          MaxChunks,           \* bound: chunks of one request
          MaxFaults,           \* bound: failures, cancellations and crashes
          NoProc, NoKey

ASSUME BlockStoreAssumption ==
    /\ IsFiniteSet(Proc) /\ IsFiniteSet(Key) /\ IsFiniteSet(Block)
    /\ StripeOf \in [Block -> Nat]
    /\ MaxBlocksPerCommit \in Nat \ {0}
    /\ MaxChunks \in Nat /\ MaxFaults \in Nat
    /\ NoProc \notin Proc /\ NoKey \notin Key

VARIABLES rec,     \* _BLOCKS: block -> record
          files,   \* block -> depths at which a file stands at its final path
          obj,     \* object records: key -> references ({}: no record, or inline)
          stripe,  \* stripe index -> the request holding it, or NoProc
          pc,      \* where each request is
          key,     \* the key it writes
          len,     \* chunks received
          ended,   \* whether its stream has ended
          batch,   \* references received and not yet counted
          own,     \* references counted and in no object record
          depth,   \* depth of the file it holds in hand, per block
          todo,    \* blocks of the closing batch still to land
          faults   \* failures so far

shared == <<rec, files, obj, stripe>>
local == <<pc, key, len, ended, batch, own, depth, todo>>
vars == <<rec, files, obj, stripe, pc, key, len, ended, batch, own, depth, todo, faults>>

Pos == 1..MaxChunks
Ref == Pos \X Block
Stripe == {StripeOf[b] : b \in Block}
Bare == [b \in Block |-> NoDepth]

PC == {"idle", "stream", "lock", "land", "publish",
       "release", "decrement", "unlink", "acquire", "bump"}

BlocksOf(refs) == {x[2] : x \in refs}

Occurrences(refs, b) == Cardinality({x \in refs : x[2] = b})

\* x is next in list order.
IsFirst(x, refs) == x \in refs /\ \A y \in refs : x[1] <= y[1]

Init ==
    /\ rec = [b \in Block |-> NoRecord]
    /\ files = [b \in Block |-> {}]
    /\ obj = [k \in Key |-> {}]
    /\ stripe = [s \in Stripe |-> NoProc]
    /\ pc = [p \in Proc |-> "idle"]
    /\ key = [p \in Proc |-> NoKey]
    /\ len = [p \in Proc |-> 0]
    /\ ended = [p \in Proc |-> FALSE]
    /\ batch = [p \in Proc |-> {}]
    /\ own = [p \in Proc |-> {}]
    /\ depth = [p \in Proc |-> Bare]
    /\ todo = [p \in Proc |-> {}]
    /\ faults = 0

-----------------------------------------------------------------------------
(* Building blocks of the actions. *)

Goto(p, l) == pc' = [pc EXCEPT ![p] = l]

Fault == faults < MaxFaults /\ faults' = faults + 1

Take(p, s) == stripe[s] = NoProc /\ stripe' = [stripe EXCEPT ![s] = p]

\* A guard set drops: every stripe the request holds is free.
ReleaseStripes(p) ==
    stripe' = [s \in Stripe |-> IF stripe[s] = p THEN NoProc ELSE stripe[s]]

\* The request is over, whatever the outcome; what it still owned is leaked.
EndRequest(p) ==
    /\ Goto(p, "idle")
    /\ key' = [key EXCEPT ![p] = NoKey]
    /\ len' = [len EXCEPT ![p] = 0]
    /\ ended' = [ended EXCEPT ![p] = FALSE]
    /\ batch' = [batch EXCEPT ![p] = {}]
    /\ own' = [own EXCEPT ![p] = {}]
    /\ depth' = [depth EXCEPT ![p] = Bare]
    /\ todo' = [todo EXCEPT ![p] = {}]

\* choose_depth: the shallowest file already there, else wherever the
\* occupancy counters point.
ChooseDepth(b) ==
    IF files[b] = {} THEN Depth
    ELSE {d \in files[b] : \A e \in files[b] : d <= e}

-----------------------------------------------------------------------------
(* PUT: stream chunks into a batch, close the batch, publish the record. *)

StartPut(p, k) ==
    /\ pc[p] = "idle"
    /\ Goto(p, "stream")
    /\ key' = [key EXCEPT ![p] = k]
    /\ UNCHANGED <<shared, len, ended, batch, own, depth, todo, faults>>

\* One chunk.  The dedup lookup is an unlocked read; a miss stages a temp file
\* at a depth chosen now.  A full batch closes before the next chunk.
Accumulate(p, b) ==
    LET x == <<len[p] + 1, b>>
    IN  /\ pc[p] = "stream"
        /\ len[p] < MaxChunks
        /\ len' = [len EXCEPT ![p] = @ + 1]
        /\ batch' = [batch EXCEPT ![p] = @ \cup {x}]
        /\ IF b \in BlocksOf(batch[p]) \/ HasLiveRecord(rec[b])
           THEN UNCHANGED depth
           ELSE \E d \in ChooseDepth(b) : depth' = [depth EXCEPT ![p][b] = d]
        /\ Goto(p, IF Cardinality(BlocksOf(batch[p] \cup {x})) >= MaxBlocksPerCommit
                   THEN "lock" ELSE "stream")
        /\ UNCHANGED <<shared, key, ended, own, todo, faults>>

\* The stream ends: the last batch closes, or there is nothing to close.
EndStream(p) ==
    /\ pc[p] = "stream"
    /\ ended' = [ended EXCEPT ![p] = TRUE]
    /\ Goto(p, IF batch[p] = {} THEN "publish" ELSE "lock")
    /\ UNCHANGED <<shared, key, len, batch, own, depth, todo, faults>>

Wanted(p) == {StripeOf[b] : b \in BlocksOf(batch[p])}
Held(p) == {s \in Stripe : stripe[s] = p}

\* Mutant: stripes in any order.
LockBatchUnsorted(p) ==
    /\ pc[p] = "lock"
    /\ \E s \in Wanted(p) \ Held(p) :
          /\ Take(p, s)
          /\ IF Wanted(p) \ Held(p) = {s}
             THEN Goto(p, "land") /\ todo' = [todo EXCEPT ![p] = BlocksOf(batch[p])]
             ELSE UNCHANGED <<pc, todo>>
    /\ UNCHANGED <<rec, files, obj, key, len, ended, batch, own, depth, faults>>

\* Mutant: one stripe for the whole batch.
LockBatchFirst(p) ==
    /\ pc[p] = "lock"
    /\ \E s \in Wanted(p) \ Held(p) :
          /\ \A t \in Wanted(p) \ Held(p) : s <= t
          /\ Take(p, s)
          /\ Goto(p, "land") /\ todo' = [todo EXCEPT ![p] = BlocksOf(batch[p])]
    /\ UNCHANGED <<rec, files, obj, key, len, ended, batch, own, depth, faults>>

\* lock_batch: the batch's stripes one at a time, lowest index first.
LockBatch(p) ==
    /\ pc[p] = "lock"
    /\ \E s \in Wanted(p) \ Held(p) :
          /\ \A t \in Wanted(p) \ Held(p) : s <= t
          /\ Take(p, s)
          /\ IF Wanted(p) \ Held(p) = {s}
             THEN Goto(p, "land") /\ todo' = [todo EXCEPT ![p] = BlocksOf(batch[p])]
             ELSE UNCHANGED <<pc, todo>>
    /\ UNCHANGED <<rec, files, obj, key, len, ended, batch, own, depth, faults>>

\* Mutant: a staged file is renamed although a live record came first.
LandBlockSurplus(p, b) ==
    /\ pc[p] = "land"
    /\ b \in todo[p]
    /\ todo' = [todo EXCEPT ![p] = @ \ {b}]
    /\ IF HasLiveRecord(rec[b]) /\ depth[p][b] = NoDepth
       THEN UNCHANGED <<depth, files>>
       ELSE \E d \in IF depth[p][b] # NoDepth THEN {depth[p][b]} ELSE ChooseDepth(b) :
               /\ depth' = [depth EXCEPT ![p][b] = d]
               /\ files' = [files EXCEPT ![b] = @ \cup {d}]
    /\ UNCHANGED <<rec, obj, stripe, pc, key, len, ended, batch, own, faults>>

\* commit_batch, one block: under the stripes the record is read again.  Live:
\* the staged file is surplus.  Gone: the staged file is renamed into place, or
\* the bytes a dedup hit kept are written after all.
LandBlock(p, b) ==
    /\ pc[p] = "land"
    /\ b \in todo[p]
    /\ todo' = [todo EXCEPT ![p] = @ \ {b}]
    /\ IF HasLiveRecord(rec[b])
       THEN depth' = [depth EXCEPT ![p][b] = NoDepth] /\ UNCHANGED files
       ELSE \E d \in IF depth[p][b] # NoDepth THEN {depth[p][b]} ELSE ChooseDepth(b) :
               /\ depth' = [depth EXCEPT ![p][b] = d]
               /\ files' = [files EXCEPT ![b] = @ \cup {d}]
    /\ UNCHANGED <<rec, obj, stripe, pc, key, len, ended, batch, own, faults>>

\* The one transaction of the batch: every entry recorded, or none.
Recorded(p) ==
    [b \in Block |-> IF b \in BlocksOf(batch[p])
                     THEN RecordEntry(rec[b], Occurrences(batch[p], b), depth[p][b])
                     ELSE rec[b]]

CommitBatch(p) ==
    /\ pc[p] = "land"
    /\ todo[p] = {}
    /\ rec' = Recorded(p)
    /\ own' = [own EXCEPT ![p] = @ \cup batch[p]]
    /\ batch' = [batch EXCEPT ![p] = {}]
    /\ depth' = [depth EXCEPT ![p] = Bare]
    /\ ReleaseStripes(p)
    /\ Goto(p, IF ended[p] THEN "publish" ELSE "stream")
    /\ UNCHANGED <<files, obj, key, len, ended, todo, faults>>

\* commit() answered an error.  It may have failed before the records became
\* visible, or in the persist that follows once they are; the request fails
\* either way and its references have no holder.
CommitBatchFails(p) ==
    /\ pc[p] = "land"
    /\ todo[p] = {}
    /\ Fault
    /\ rec' \in {rec, Recorded(p)}
    /\ ReleaseStripes(p)
    /\ EndRequest(p)
    /\ UNCHANGED <<files, obj>>

\* create_object_meta: the record is replaced in one transaction, and what it
\* displaced becomes this request's to release.
CreateObjectMeta(p) ==
    /\ pc[p] = "publish"
    /\ obj' = [obj EXCEPT ![key[p]] = own[p]]
    /\ own' = [own EXCEPT ![p] = obj[key[p]]]
    /\ Goto(p, "release")
    /\ UNCHANGED <<rec, files, stripe, key, len, ended, batch, depth, todo, faults>>

\* The replace failed, visibly or not: nothing is released.
CreateObjectMetaFails(p) ==
    /\ pc[p] = "publish"
    /\ Fault
    /\ obj' \in {obj, [obj EXCEPT ![key[p]] = own[p]]}
    /\ EndRequest(p)
    /\ UNCHANGED <<rec, files, stripe>>

-----------------------------------------------------------------------------
(* DELETE, and the release every ended object goes through. *)

DeleteObject(p, k) ==
    /\ pc[p] = "idle"
    /\ obj[k] # {}
    /\ obj' = [obj EXCEPT ![k] = {}]
    /\ own' = [own EXCEPT ![p] = obj[k]]
    /\ Goto(p, "release")
    /\ UNCHANGED <<rec, files, stripe, key, len, ended, batch, depth, todo, faults>>

\* take_object became visible and its persist failed: the request ends with an
\* error and releases nothing.
DeleteObjectFails(p, k) ==
    /\ pc[p] = "idle"
    /\ obj[k] # {}
    /\ Fault
    /\ obj' = [obj EXCEPT ![k] = {}]
    /\ UNCHANGED <<rec, files, stripe, local>>

\* Mutant: the decrement runs outside the stripe.
LockReleaseFree(p) ==
    /\ pc[p] = "release"
    /\ own[p] # {}
    /\ Goto(p, "decrement")
    /\ UNCHANGED <<shared, key, len, ended, batch, own, depth, todo, faults>>

\* release_blocks, next occurrence: wait for the block's stripe.
LockRelease(p) ==
    /\ pc[p] = "release"
    /\ \E x \in own[p] : IsFirst(x, own[p]) /\ Take(p, StripeOf[x[2]])
    /\ Goto(p, "decrement")
    /\ UNCHANGED <<rec, files, obj, key, len, ended, batch, own, depth, todo, faults>>

\* Mutant: the stripe is dropped between the last decrement and its unlink.
DecrementThenUnlock(p) ==
    /\ pc[p] = "decrement"
    /\ \E x \in own[p] :
          LET b == x[2]
          IN  /\ IsFirst(x, own[p])
              /\ rec' = [rec EXCEPT ![b] = DecrementBlockRc(@)]
              /\ own' = [own EXCEPT ![p] = @ \ {x}]
              /\ IF rec[b].rc = 1
                 THEN depth' = [depth EXCEPT ![p][b] = rec[b].depth] /\ Goto(p, "unlink")
                 ELSE UNCHANGED depth /\ Goto(p, "release")
    /\ ReleaseStripes(p)
    /\ UNCHANGED <<files, obj, key, len, ended, batch, todo, faults>>

\* decrement_one_block: the record commits first; the last reference leaves the
\* file to unlink under the same stripe hold.
DecrementOneBlock(p) ==
    /\ pc[p] = "decrement"
    /\ \E x \in own[p] :
          LET b == x[2]
          IN  /\ IsFirst(x, own[p])
              /\ rec' = [rec EXCEPT ![b] = DecrementBlockRc(@)]
              /\ own' = [own EXCEPT ![p] = @ \ {x}]
              /\ IF rec[b].rc = 1
                 THEN /\ depth' = [depth EXCEPT ![p][b] = rec[b].depth]
                      /\ Goto(p, "unlink")
                      /\ UNCHANGED stripe
                 ELSE /\ ReleaseStripes(p)
                      /\ Goto(p, "release")
                      /\ UNCHANGED depth
    /\ UNCHANGED <<files, obj, key, len, ended, batch, todo, faults>>

\* The decrement failed, visibly or not: logged, nothing unlinked, on to the
\* next occurrence.
DecrementFails(p) ==
    /\ pc[p] = "decrement"
    /\ Fault
    /\ \E x \in own[p] :
          /\ IsFirst(x, own[p])
          /\ rec' \in {rec, [rec EXCEPT ![x[2]] = DecrementBlockRc(@)]}
          /\ own' = [own EXCEPT ![p] = @ \ {x}]
    /\ ReleaseStripes(p)
    /\ Goto(p, "release")
    /\ UNCHANGED <<files, obj, key, len, ended, batch, depth, todo>>

\* unlink_block: done, or failed and the file is an orphan.
UnlinkBlock(p) ==
    /\ pc[p] = "unlink"
    /\ \/ files' = [b \in Block |-> files[b] \ {depth[p][b]}] /\ UNCHANGED faults
       \/ UNCHANGED files /\ Fault
    /\ depth' = [depth EXCEPT ![p] = Bare]
    /\ ReleaseStripes(p)
    /\ Goto(p, "release")
    /\ UNCHANGED <<rec, obj, key, len, ended, batch, own, todo>>

\* Everything is released: the request answers.
Respond(p) ==
    /\ pc[p] = "release"
    /\ own[p] = {}
    /\ EndRequest(p)
    /\ UNCHANGED <<shared, faults>>

-----------------------------------------------------------------------------
(* clone_object_by_reference. *)

\* Mutant: the clone shares the source's references instead of acquiring its own.
StartCloneUncounted(p, src, dst) ==
    /\ pc[p] = "idle"
    /\ obj[src] # {}
    /\ Goto(p, "publish")
    /\ key' = [key EXCEPT ![p] = dst]
    /\ own' = [own EXCEPT ![p] = obj[src]]
    /\ UNCHANGED <<shared, len, ended, batch, depth, todo, faults>>

\* The source record is read once, outside any lock.
StartClone(p, src, dst) ==
    /\ pc[p] = "idle"
    /\ obj[src] # {}
    /\ Goto(p, "acquire")
    /\ key' = [key EXCEPT ![p] = dst]
    /\ batch' = [batch EXCEPT ![p] = obj[src]]
    /\ UNCHANGED <<shared, len, ended, own, depth, todo, faults>>

LockAcquire(p) ==
    /\ pc[p] = "acquire"
    /\ \E x \in batch[p] : IsFirst(x, batch[p]) /\ Take(p, StripeOf[x[2]])
    /\ Goto(p, "bump")
    /\ UNCHANGED <<rec, files, obj, key, len, ended, batch, own, depth, todo, faults>>

\* acquire_references, one occurrence: a reference is taken, or the block is
\* gone (or degraded), the clone is refused and what was taken goes back.
AcquireReference(p) ==
    /\ pc[p] = "bump"
    /\ \E x \in batch[p] :
          /\ IsFirst(x, batch[p])
          /\ IF HasLiveRecord(rec[x[2]])
             THEN /\ rec' = [rec EXCEPT ![x[2]] = Bump(@)]
                  /\ own' = [own EXCEPT ![p] = @ \cup {x}]
                  /\ batch' = [batch EXCEPT ![p] = @ \ {x}]
                  /\ Goto(p, IF batch[p] = {x} THEN "publish" ELSE "acquire")
             ELSE /\ batch' = [batch EXCEPT ![p] = {}]
                  /\ Goto(p, "release")
                  /\ UNCHANGED <<rec, own>>
    /\ ReleaseStripes(p)
    /\ UNCHANGED <<files, obj, key, len, ended, depth, todo, faults>>

\* The bump's commit failed, visibly or not: the error returns at once.
AcquireFails(p) ==
    /\ pc[p] = "bump"
    /\ Fault
    /\ \E x \in batch[p] :
          /\ IsFirst(x, batch[p])
          /\ \/ UNCHANGED rec
             \/ HasLiveRecord(rec[x[2]]) /\ rec' = [rec EXCEPT ![x[2]] = Bump(@)]
    /\ ReleaseStripes(p)
    /\ EndRequest(p)
    /\ UNCHANGED <<files, obj>>

-----------------------------------------------------------------------------
(* Failures outside a transaction, process death, and repaired damage. *)

\* A stream, staging, sync or rename error, or a client that hung up: possible
\* wherever the request is not inside a blocking closure, and in the landing
\* loop of one.  Stripes drop; temp files are garbage.
RequestFails(p) ==
    /\ pc[p] \in {"stream", "lock", "land", "publish", "release", "acquire"}
    /\ Fault
    /\ ReleaseStripes(p)
    /\ EndRequest(p)
    /\ UNCHANGED <<rec, files, obj>>

\* kill -9 and reopen: what was committed or renamed stands, every request and
\* every lock is gone, .tmp is purged.
Crash ==
    /\ \E p \in Proc : pc[p] # "idle"
    /\ Fault
    /\ stripe' = [s \in Stripe |-> NoProc]
    /\ pc' = [p \in Proc |-> "idle"]
    /\ key' = [p \in Proc |-> NoKey]
    /\ len' = [p \in Proc |-> 0]
    /\ ended' = [p \in Proc |-> FALSE]
    /\ batch' = [p \in Proc |-> {}]
    /\ own' = [p \in Proc |-> {}]
    /\ depth' = [p \in Proc |-> Bare]
    /\ todo' = [p \in Proc |-> {}]
    /\ UNCHANGED <<rec, files, obj>>

\* A block's bytes are lost on the medium and fsck, with the daemon stopped,
\* flags the record.
MarkDegraded(b) ==
    /\ \A p \in Proc : pc[p] = "idle"
    /\ HasLiveRecord(rec[b])
    /\ rec' = [rec EXCEPT ![b].degraded = TRUE]
    /\ files' = [files EXCEPT ![b] = {}]
    /\ UNCHANGED <<obj, stripe, local, faults>>

-----------------------------------------------------------------------------
\* A step the store takes by itself once the client has said what it wants.
Step(p) ==
    \/ LockBatch(p)
    \/ \E b \in Block : LandBlock(p, b)
    \/ CommitBatch(p)
    \/ CreateObjectMeta(p)
    \/ LockRelease(p)
    \/ DecrementOneBlock(p)
    \/ UnlinkBlock(p)
    \/ Respond(p)
    \/ LockAcquire(p)
    \/ AcquireReference(p)

Client(p) ==
    \/ \E k \in Key : StartPut(p, k) \/ DeleteObject(p, k)
    \/ \E b \in Block : Accumulate(p, b)
    \/ EndStream(p)
    \/ \E src, dst \in Key : StartClone(p, src, dst)

Failure(p) ==
    \/ CommitBatchFails(p)
    \/ CreateObjectMetaFails(p)
    \/ \E k \in Key : DeleteObjectFails(p, k)
    \/ DecrementFails(p)
    \/ AcquireFails(p)
    \/ RequestFails(p)

Next ==
    \/ \E p \in Proc : Step(p) \/ Client(p) \/ Failure(p)
    \/ Crash
    \/ \E b \in Block : MarkDegraded(b)

Spec == Init /\ [][Next]_vars

\* tokio runs every ready task, its mutexes are handed over in FIFO order, and a
\* blocking closure runs to completion: a request waiting for a stripe gets it
\* even when others come and go.  Nothing is assumed of clients or of failures.
Fairness ==
    \A p \in Proc : /\ WF_vars(Step(p))
                   /\ SF_vars(LockBatch(p) \/ LockRelease(p) \/ LockAcquire(p))

FairSpec == Spec /\ Fairness

-----------------------------------------------------------------------------
(* Properties. *)

TypeOK ==
    /\ rec \in [Block -> Record]
    /\ files \in [Block -> SUBSET Depth]
    /\ obj \in [Key -> SUBSET Ref]
    /\ stripe \in [Stripe -> Proc \cup {NoProc}]
    /\ pc \in [Proc -> PC]
    /\ key \in [Proc -> Key \cup {NoKey}]
    /\ len \in [Proc -> 0..MaxChunks]
    /\ ended \in [Proc -> BOOLEAN]
    /\ batch \in [Proc -> SUBSET Ref]
    /\ own \in [Proc -> SUBSET Ref]
    /\ depth \in [Proc -> [Block -> Depth \cup {NoDepth}]]
    /\ todo \in [Proc -> SUBSET Block]
    /\ faults \in 0..MaxFaults

\* The references to b that some holder keeps: one per occurrence.
ObjRefs(b) == {h \in Key \X Pos : <<h[2], b>> \in obj[h[1]]}
OwnRefs(b) == {h \in Proc \X Pos : <<h[2], b>> \in own[h[1]]}
Holders(b) == Cardinality(ObjRefs(b)) + Cardinality(OwnRefs(b))

\* "Leakage, but never loss": through every interleaving of PUT, overwrite,
\* DELETE and clone, and every failure, ambiguous commit, cancellation and
\* crash, a block's refcount never falls below the references held to it.
NeverUndercounts == \A b \in Block : Holders(b) <= rec[b].rc

\* As long as nothing has failed the count is exact, in flight included, and when no
\* request is running there is no residue: every file is the file of a record, at its
\* depth and only there, whoever staged, adopted or unlinked it.
ExactUntilFault ==
    faults = 0 =>
        /\ \A b \in Block : Holders(b) = rec[b].rc
        /\ (\A p \in Proc : pc[p] = "idle") =>
              \A b \in Block : files[b] = IF HasLiveRecord(rec[b]) THEN {rec[b].depth} ELSE {}

\* File-first: whenever a live record is readable, a file stands at the depth
\* it names.  The landing, the overtaken rewrite, the heal and the unlink of a
\* racing DELETE all have to agree on it.
FileFirst == \A b \in Block : HasLiveRecord(rec[b]) => rec[b].depth \in files[b]

\* What a reader of any published object finds for each of its blocks: a live
\* record with its file, or the record of known damage.
NoLoss ==
    \A k \in Key : \A b \in BlocksOf(obj[k]) :
        Exists(rec[b]) /\ (rec[b].degraded \/ rec[b].depth \in files[b])

\* Damage does not spread: no dedup hit and no clone ever adds a reference to a
\* degraded record; only a write that brings the bytes back does.
DegradedNeverGains ==
    [][\A b \in Block : rec[b].degraded /\ rec'[b].degraded => rec'[b].rc <= rec[b].rc]_vars

\* Nobody waits for a stripe for ever, sorted acquisition cannot deadlock: a batch that
\* is ready to close gets its stripes and leaves the lock loop, and an object that was
\* deleted or displaced is released to its last occurrence.
BatchesClose ==
    \A p \in Proc :
        /\ pc[p] = "lock" ~> pc[p] # "lock"
        /\ pc[p] = "release" ~> pc[p] = "idle"

\* What a reader sees of the protocol's state.
Readable == {b \in Block : HasLiveRecord(rec[b]) /\ rec[b].depth \in files[b]}
Damaged == {b \in Block : Exists(rec[b]) /\ rec[b].degraded}

CS == INSTANCE ContentStore WITH readable <- Readable, damaged <- Damaged

\* The block protocol implements the reader's contract: PUT, overwrite and
\* clone publish only readable blocks, every step changes at most one record,
\* and decrements free only blocks no object names.
ImplementsContentStore == CS!Spec
=============================================================================
