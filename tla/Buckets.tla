-------------------------------- MODULE Buckets --------------------------------
(***************************************************************************)
(* Buckets as the S3 front end drives them.  A bucket is three things that *)
(* no transaction spans: a row in _BUCKETS, a keyspace of its own (the     *)
(* object tree) and a counter in _USAGE.  Creating and deleting a bucket   *)
(* write them one by one; object requests check that the keyspace exists   *)
(* and then work by name, and every use of a name opens the keyspace,      *)
(* creating it when it is missing.  Requests run on as many threads as     *)
(* there are, so any step of one can fall between two steps of another, and*)
(* the process can die between any two.                                    *)
(*                                                                         *)
(* An object is its size; one above MaxInlined bytes holds one reference to*)
(* the block of that size (the block protocol itself is BlockStore).       *)
(***************************************************************************)
EXTENDS Integers, FiniteSets, FiniteSetsExt

CONSTANTS Proc,        \* requests in flight
          Bucket, Key, \* names; keys are naturals, in tree order
          Size,        \* object sizes
          MaxInlined,  \* max_inlined_data_length
          MaxJobs,     \* bound: requests in all
          MaxCrashes   \* bound: process deaths

ASSUME BucketsAssumption ==
    /\ Key \subseteq Nat \ {0} /\ Size \subseteq Nat \ {0}
    /\ MaxInlined \in Nat /\ MaxJobs \in Nat /\ MaxCrashes \in Nat

VARIABLES row,      \* _BUCKETS: the names that have a row
          tree,     \* the keyspaces the database knows
          gen,      \* bucket -> which keyspace of that name it is
          cached,   \* partition_cache: bucket -> the keyspace cached, or 0
          obj,      \* bucket -> key -> size of its object, or 0
          usage,    \* _USAGE: bucket -> counter, or NoCounter
          rc,       \* references counted per block (named by its size)
          job,      \* what each request is doing
          jobs,     \* requests so far
          crashes,  \* process deaths so far
          taint     \* bucket -> what a recorded overlap has spoilt

store == <<row, tree, gen, cached, obj, usage, rc>>
vars == <<row, tree, gen, cached, obj, usage, rc, job, jobs, crashes, taint>>

NoCounter == -1
NoKey == 0
Empty == [k \in Key |-> 0]
Block == {s \in Size : s > MaxInlined}

Idle == [op |-> "none", b |-> CHOOSE b \in Bucket : TRUE, pc |-> "idle",
         k |-> NoKey, v |-> 0, bad |-> FALSE, hold |-> 0, h |-> 0]

Init ==
    /\ row = {}
    /\ tree = {}
    /\ gen = [b \in Bucket |-> 0]
    /\ cached = [b \in Bucket |-> 0]
    /\ obj = [b \in Bucket |-> Empty]
    /\ usage = [b \in Bucket |-> NoCounter]
    /\ rc = [s \in Block |-> 0]
    /\ job = [p \in Proc |-> Idle]
    /\ jobs = 0
    /\ crashes = 0
    /\ taint = [b \in Bucket |-> {}]

-----------------------------------------------------------------------------
(* The pieces the requests are made of. *)

At(p, op, pc) == job[p].op = op /\ job[p].pc = pc

Become(p, j) == job' = [job EXCEPT ![p] = j]

Go(p, pc) == Become(p, [job[p] EXCEPT !.pc = pc])

Done(p) == Become(p, Idle)

Taints(b, what) == taint' = [taint EXCEPT ![b] = @ \cup what]

BucketExists(b) == b \in tree

\* The keyspace get_partition answers with: the cached one, else the one the
\* database has, else a new one.
Partition(b) ==
    IF cached[b] # 0 THEN cached[b] ELSE IF b \in tree THEN gen[b] ELSE gen[b] + 1

\* get_partition.  Nothing is looked up when a handle is cached, and nobody asks
\* whether the bucket exists.
OpenTree(b) ==
    /\ cached' = [cached EXCEPT ![b] = Partition(b)]
    /\ tree' = IF cached[b] = 0 THEN tree \cup {b} ELSE tree
    /\ gen' = IF cached[b] = 0 /\ b \notin tree THEN [gen EXCEPT ![b] = @ + 1] ELSE gen

\* The handle a request gets by name is to a keyspace that has been deleted.
Severed(b) == cached[b] # 0 /\ (b \notin tree \/ cached[b] # gen[b])

\* Opening b brings a keyspace into being.
Wills(b) == cached[b] = 0 /\ b \notin tree

Counter(b) == IF usage[b] = NoCounter THEN 0 ELSE usage[b]

\* Mutant: the displaced size is not given back.
AddBucketUsageGross(b, new, old) == [usage EXCEPT ![b] = Counter(b) + new]

\* add_bucket_usage by new - old, clamped at zero.
AddBucketUsage(b, new, old) ==
    [usage EXCEPT ![b] = Max({0, Counter(b) + new - old})]

Counts(s, n) == IF s \in Block THEN [rc EXCEPT ![s] = @ + n] ELSE rc

Creating(b) == \E q \in Proc : job[q].op = "create" /\ job[q].b = b

Deleting(b) == \E q \in Proc : job[q].op = "drop" /\ job[q].b = b

\* A deletion has forgotten the handle and not yet deleted the keyspace.
Doomed(b) == \E q \in Proc : At(q, "drop", "delete") /\ job[q].b = b

\* What a record committed now can be spoilt by: a creation that has yet to
\* write its zero, a deletion whose sweep may be past the key.
Overlap(b) ==
    (IF Creating(b) \/ Deleting(b) THEN {"usage"} ELSE {})
    \cup (IF Deleting(b) THEN {"refs"} ELSE {})

\* A request other than a creation opens b; `what` is what it spoils besides.
Use(b, what) ==
    /\ OpenTree(b)
    /\ Taints(b, what \cup (IF Wills(b) THEN {"listing"} ELSE {})
                     \cup (IF Doomed(b) THEN {"handle"} ELSE {}))

-----------------------------------------------------------------------------
Start(p, op, b, k, v, bad, pc) ==
    /\ job[p] = Idle
    /\ jobs < MaxJobs
    /\ jobs' = jobs + 1
    /\ Become(p, [op |-> op, b |-> b, pc |-> pc, k |-> k, v |-> v, bad |-> bad,
                  hold |-> 0, h |-> 0])

(* CreateBucket: exists?, row, keyspace, counter. *)

CreateBucket(p, b) ==
    /\ ~BucketExists(b)
    /\ Start(p, "create", b, NoKey, 0, FALSE, "row")
    /\ IF Deleting(b) THEN Taints(b, {"listing"}) ELSE UNCHANGED taint
    /\ UNCHANGED <<store, crashes>>

InsertRow(p) ==
    /\ At(p, "create", "row")
    /\ row' = row \cup {job[p].b}
    /\ Go(p, "tree")
    /\ UNCHANGED <<tree, gen, cached, obj, usage, rc, jobs, crashes, taint>>

InsertTree(p) ==
    /\ At(p, "create", "tree")
    /\ OpenTree(job[p].b)
    /\ Taints(job[p].b, IF Doomed(job[p].b) THEN {"handle"} ELSE {})
    /\ Go(p, "usage")
    /\ UNCHANGED <<row, obj, usage, rc, jobs, crashes>>

InsertUsage(p) ==
    /\ At(p, "create", "usage")
    /\ usage' = [usage EXCEPT ![job[p].b] = 0]
    /\ Done(p)
    /\ UNCHANGED <<row, tree, gen, cached, obj, rc, jobs, crashes, taint>>

-----------------------------------------------------------------------------
(* PutObject: exists?, store the blocks, replace the record, release what was *)
(* displaced, and delete the object again on a Content-MD5 mismatch.  A small *)
(* body is checked before it is stored.                                       *)

Put(p, b, k, v, bad) ==
    /\ BucketExists(b)
    /\ ~(bad /\ v <= MaxInlined)
    /\ Start(p, "put", b, k, v, bad, IF v <= MaxInlined THEN "commit" ELSE "store")
    /\ UNCHANGED <<store, crashes, taint>>

\* store_object: the block is counted before any record names it.
StoreBlocks(p) ==
    /\ At(p, "put", "store")
    /\ rc' = Counts(job[p].v, 1)
    /\ Go(p, "commit")
    /\ UNCHANGED <<row, tree, gen, cached, obj, usage, jobs, crashes, taint>>

AfterCommit(p, displaced) ==
    LET j == job[p]
    IN  IF displaced \in Block THEN Become(p, [j EXCEPT !.pc = "release", !.hold = displaced])
        ELSE IF j.bad THEN Go(p, "rollback")
        ELSE Done(p)

\* replace_object_record: record and counter move together.
CommitObject(p) ==
    LET b == job[p].b  k == job[p].k  v == job[p].v
    IN  /\ At(p, "put", "commit")
        /\ ~Severed(b)
        /\ Use(b, Overlap(b))
        /\ obj' = [obj EXCEPT ![b][k] = v]
        /\ usage' = AddBucketUsage(b, v, obj[b][k])
        /\ AfterCommit(p, obj[b][k])
        /\ UNCHANGED <<row, rc, jobs, crashes>>

\* The same through a handle whose keyspace is gone: the transaction fails (the
\* request dies with its references), or only the counter is written.
CommitSevered(p) ==
    LET b == job[p].b  v == job[p].v
    IN  /\ At(p, "put", "commit")
        /\ Severed(b)
        /\ \/ UNCHANGED usage /\ Done(p)
           \/ usage' = AddBucketUsage(b, v, 0) /\ AfterCommit(p, 0)
        /\ UNCHANGED <<row, tree, gen, cached, obj, rc, jobs, crashes, taint>>

\* release_blocks: the record that named the block is gone already.
ReleaseDisplaced(p) ==
    /\ At(p, "put", "release")
    /\ rc' = Counts(job[p].hold, -1)
    /\ IF job[p].bad THEN Become(p, [job[p] EXCEPT !.pc = "rollback", !.hold = 0]) ELSE Done(p)
    /\ UNCHANGED <<row, tree, gen, cached, obj, usage, jobs, crashes, taint>>

-----------------------------------------------------------------------------
(* delete_object, for DeleteObject, DeleteObjects, the rollback of a PUT and   *)
(* the sweep of a bucket deletion.                                             *)

\* take_object and the counter in one transaction; `next` is where the request
\* goes once its references are released.
TakeObject(p, b, k, next) ==
    IF Severed(b)
    THEN /\ Become(p, next)
         /\ UNCHANGED <<tree, gen, cached, obj, usage, taint>>
    ELSE /\ Use(b, {})
         /\ obj' = [obj EXCEPT ![b][k] = 0]
         /\ usage' = IF obj[b][k] # 0 THEN AddBucketUsage(b, 0, obj[b][k]) ELSE usage
         /\ IF obj[b][k] \in Block
            THEN Become(p, [next EXCEPT !.hold = obj[b][k]])
            ELSE Become(p, next)

\* The reference that a taken record held; then the request is where it goes on.
ReleaseTaken(p) ==
    /\ job[p].hold # 0
    /\ ~At(p, "put", "release")
    /\ rc' = Counts(job[p].hold, -1)
    /\ Become(p, IF job[p].pc = "done" THEN Idle ELSE [job[p] EXCEPT !.hold = 0])
    /\ UNCHANGED <<row, tree, gen, cached, obj, usage, jobs, crashes, taint>>

Free(p) == job[p].hold = 0

Finished(p) == [job[p] EXCEPT !.pc = "done"]

\* The request ends when there is nothing left to release.
Finish(p) ==
    /\ job[p].pc = "done" /\ Free(p)
    /\ Done(p)
    /\ UNCHANGED <<store, jobs, crashes, taint>>

\* The bad digest of a PUT: whatever is at the key now is deleted.
Rollback(p) ==
    /\ At(p, "put", "rollback") /\ Free(p)
    /\ TakeObject(p, job[p].b, job[p].k, Finished(p))
    /\ UNCHANGED <<row, rc, jobs, crashes>>

\* DeleteObject asks for the key and not for the bucket, so it can bring the
\* keyspace of an absent bucket into being.
Delete(p, b, k) ==
    /\ Start(p, "delete", b, k, 0, FALSE, IF Severed(b) \/ obj[b][k] = 0 THEN "done" ELSE "take")
    /\ Use(b, {})
    /\ UNCHANGED <<row, obj, usage, rc, crashes>>

DeleteTake(p) ==
    /\ At(p, "delete", "take")
    /\ TakeObject(p, job[p].b, job[p].k, Finished(p))
    /\ UNCHANGED <<row, rc, jobs, crashes>>

\* DeleteObjects asks for the bucket, then deletes each key it was given.
DeleteMany(p, b) ==
    /\ BucketExists(b)
    /\ Start(p, "many", b, Min(Key), 0, FALSE, "take")
    /\ UNCHANGED <<store, crashes, taint>>

DeleteNext(p) ==
    LET rest == {k \in Key : k > job[p].k}
    IN  /\ At(p, "many", "take") /\ Free(p)
        /\ TakeObject(p, job[p].b, job[p].k,
              IF rest = {} THEN Finished(p) ELSE [job[p] EXCEPT !.k = Min(rest)])
        /\ UNCHANGED <<row, rc, jobs, crashes>>

\* GetObject, HeadObject and the listings: the bucket is asked for, then the
\* record is read by name.
Read(p, b, k) ==
    /\ BucketExists(b)
    /\ Start(p, "read", b, k, 0, FALSE, "get")
    /\ UNCHANGED <<store, crashes, taint>>

GetMeta(p) ==
    LET b == job[p].b
    IN  /\ At(p, "read", "get")
        /\ Use(b, {})
        /\ Done(p)
        /\ UNCHANGED <<row, obj, usage, rc, jobs, crashes>>

-----------------------------------------------------------------------------
(* DeleteBucket: the row first, then every object the cursor meets, then the  *)
(* row again, the counter, and the keyspace.                                  *)

DeleteBucket(p, b) ==
    /\ Start(p, "drop", b, NoKey, 0, FALSE, "open")
    /\ row' = row \ {b}
    /\ IF Creating(b) THEN Taints(b, {"listing"}) ELSE UNCHANGED taint
    /\ UNCHANGED <<tree, gen, cached, obj, usage, rc, crashes>>

DropOpen(p) ==
    LET b == job[p].b
    IN  /\ At(p, "drop", "open")
        /\ OpenTree(b)
        /\ Taints(b, IF Doomed(b) THEN {"handle"} ELSE {})
        /\ Become(p, [job[p] EXCEPT !.pc = "sweep", !.h = Partition(b)])
        /\ UNCHANGED <<row, obj, usage, rc, jobs, crashes>>

\* iter_all re-reads from its cursor on each step, through the handle it opened.
Ahead(p) ==
    LET b == job[p].b
    IN  IF b \in tree /\ gen[b] = job[p].h
        THEN {k \in Key : k > job[p].k /\ obj[b][k] # 0} ELSE {}

Sweep(p) ==
    /\ At(p, "drop", "sweep") /\ Free(p)
    /\ Ahead(p) # {}
    /\ TakeObject(p, job[p].b, Min(Ahead(p)), [job[p] EXCEPT !.k = Min(Ahead(p))])
    /\ UNCHANGED <<row, rc, jobs, crashes>>

\* A key or a record cannot be read through a handle to a deleted keyspace: the
\* request ends there.
SweepFails(p) ==
    /\ At(p, "drop", "sweep") /\ Free(p)
    /\ Severed(job[p].b) \/ job[p].b \notin tree \/ gen[job[p].b] # job[p].h
    /\ Done(p)
    /\ Taints(job[p].b, {"listing"})
    /\ UNCHANGED <<store, jobs, crashes>>

\* Mutant: the sweep stops at the first object.
SweptEarly(p) ==
    /\ At(p, "drop", "sweep") /\ Free(p)
    /\ row' = row \ {job[p].b}
    /\ Go(p, "usage")
    /\ UNCHANGED <<tree, gen, cached, obj, usage, rc, jobs, crashes, taint>>

\* Nothing ahead of the cursor: drop_bucket.
Swept(p) ==
    /\ At(p, "drop", "sweep") /\ Free(p)
    /\ Ahead(p) = {}
    /\ row' = row \ {job[p].b}
    /\ Go(p, "usage")
    /\ UNCHANGED <<tree, gen, cached, obj, usage, rc, jobs, crashes, taint>>

DropUsage(p) ==
    /\ At(p, "drop", "usage")
    /\ usage' = [usage EXCEPT ![job[p].b] = NoCounter]
    /\ Go(p, "exists")
    /\ UNCHANGED <<row, tree, gen, cached, obj, rc, jobs, crashes, taint>>

\* Mutant: the keyspace is left to the next creation.
DropExistsKept(p) ==
    /\ At(p, "drop", "exists")
    /\ Done(p)
    /\ UNCHANGED <<store, jobs, crashes, taint>>

DropExists(p) ==
    /\ At(p, "drop", "exists")
    /\ IF BucketExists(job[p].b) THEN Go(p, "handle") ELSE Done(p)
    /\ UNCHANGED <<store, jobs, crashes, taint>>

\* tree_delete takes the handle, under the cache's lock...
TakeHandle(p) ==
    LET b == job[p].b
    IN  /\ At(p, "drop", "handle")
        /\ OpenTree(b)
        /\ Taints(b, IF Doomed(b) THEN {"handle"} ELSE {})
        /\ Become(p, [job[p] EXCEPT !.pc = "uncache", !.h = Partition(b)])
        /\ UNCHANGED <<row, obj, usage, rc, jobs, crashes>>

\* ...takes the lock again to forget whatever handle is there by then...
Uncache(p) ==
    /\ At(p, "drop", "uncache")
    /\ cached' = [cached EXCEPT ![job[p].b] = 0]
    /\ Go(p, "delete")
    /\ UNCHANGED <<row, tree, gen, obj, usage, rc, jobs, crashes, taint>>

\* ...and only then deletes the keyspace behind it: a request that opened the
\* name in between has put the doomed handle back into the cache.
DeleteKeyspace(p) ==
    LET b == job[p].b
        live == b \in tree /\ gen[b] = job[p].h
    IN  /\ At(p, "drop", "delete")
        /\ tree' = IF live THEN tree \ {b} ELSE tree
        /\ obj' = IF live THEN [obj EXCEPT ![b] = Empty] ELSE obj
        /\ Done(p)
        /\ UNCHANGED <<row, gen, cached, usage, rc, jobs, crashes, taint>>

\* The process dies; what it held in memory is gone, handles included.
Crash ==
    /\ crashes < MaxCrashes
    /\ crashes' = crashes + 1
    /\ job' = [p \in Proc |-> Idle]
    /\ cached' = [b \in Bucket |-> 0]
    /\ taint' = [b \in Bucket |->
                   taint[b] \cup IF Creating(b) \/ Deleting(b) THEN {"listing"} ELSE {}]
    /\ UNCHANGED <<row, tree, gen, obj, usage, rc, jobs>>

-----------------------------------------------------------------------------
Next ==
    \/ \E p \in Proc, b \in Bucket :
          \/ CreateBucket(p, b) \/ DeleteBucket(p, b) \/ DeleteMany(p, b)
          \/ \E k \in Key : Delete(p, b, k) \/ Read(p, b, k)
          \/ \E k \in Key, v \in Size, bad \in BOOLEAN : Put(p, b, k, v, bad)
    \/ \E p \in Proc :
          \/ InsertRow(p) \/ InsertTree(p) \/ InsertUsage(p)
          \/ StoreBlocks(p) \/ CommitObject(p) \/ CommitSevered(p) \/ ReleaseDisplaced(p)
          \/ Rollback(p) \/ DeleteTake(p) \/ DeleteNext(p) \/ ReleaseTaken(p) \/ Finish(p)
          \/ GetMeta(p)
          \/ DropOpen(p) \/ Sweep(p) \/ SweepFails(p) \/ Swept(p) \/ DropUsage(p) \/ DropExists(p)
          \/ TakeHandle(p) \/ Uncache(p) \/ DeleteKeyspace(p)
    \/ Crash

Spec == Init /\ [][Next]_vars

-----------------------------------------------------------------------------
(* Properties. *)

SumSizes(b) == MapThenSumSet(LAMBDA k : obj[b][k], Key)

Quiet(b) == ~Creating(b) /\ ~Deleting(b)

Spoilt(b, what) == taint[b] \cap {what, "handle"} # {}

\* References somebody keeps: records, PUTs that have counted a block and not yet
\* published it, requests with a taken or displaced record in hand.
Holders(s) ==
    Cardinality({x \in Bucket \X Key : obj[x[1]][x[2]] = s})
    + Cardinality({p \in Proc : At(p, "put", "commit") /\ job[p].v = s})
    + Cardinality({p \in Proc : job[p].hold = s})

\* The counter of _USAGE is the sum of the sizes of the bucket's records, an
\* absent counter being zero, through overwrites, deletes, rolled back PUTs,
\* deletions of whole buckets and process deaths in the middle of each; unless a
\* record was committed while a CreateBucket had yet to write its zero, or while
\* a DeleteBucket was sweeping (replace_object_record, delete_object,
\* insert_bucket, drop_bucket).
UsageExact ==
    \A b \in Bucket : Quiet(b) /\ ~Spoilt(b, "usage") => Counter(b) = SumSizes(b)

\* A block is never counted below its holders, whatever bucket requests overlap and
\* whenever the process dies, and references are left behind only by a process death or
\* by a record committed under a DeleteBucket: every record the sweep can meet is
\* released (take_object, bucket_delete, release_blocks, tree_delete).
NothingLeaks ==
    \A s \in Block :
        /\ rc[s] >= Holders(s)
        /\ crashes = 0 /\ (\A b \in Bucket : ~Spoilt(b, "refs")) => rc[s] = Holders(s)

\* ListBuckets and HeadBucket agree, the row being there exactly when the
\* keyspace is; unless a creation met a deletion or died, or an object request
\* brought the keyspace of an absent bucket into being (list_buckets,
\* bucket_exists, key_exists, get_meta).
ListedIffThere ==
    \A b \in Bucket : Quiet(b) /\ ~Spoilt(b, "listing") => (b \in row <=> b \in tree)
=============================================================================
