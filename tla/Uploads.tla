------------------------------- MODULE Uploads -------------------------------
(***************************************************************************)
(* Multipart uploads: upload records and part records in the shared store, *)
(* the claim that decides complete against abort, and the garbage collector*)
(* that reaps stale uploads and orphan parts.                              *)
(*                                                                         *)
(* A part record holds references to its blocks.  Complete does not count  *)
(* new ones: the object inherits the references of the parts it claimed.   *)
(* Abort and the collector release them.  What a count-up or a count-down  *)
(* does to one block is BlockStore's subject; here each is one step on rc. *)
(*                                                                         *)
(* Upload ids are fresh UUIDs: an id is created at most once.              *)
(***************************************************************************)
EXTENDS Integers, Sequences, FiniteSetsExt

CONSTANTS Client,     \* concurrent requests
          GC,         \* the sweeper task
          Upload,     \* upload ids
          Key, KeyOf, \* object keys; the key an upload is for
          Block,
          MaxPart,    \* part numbers are 1..MaxPart
          Ttl,        \* age past which an upload is stale
          MaxClock,   \* bound: clock ticks
          MaxStores,  \* bound: parts stored in all
          MaxFaults,  \* bound: failures, hang-ups and crashes
          NoUpload, NoPart

ASSUME UploadsAssumption ==
    /\ IsFiniteSet(Client) /\ IsFiniteSet(Upload) /\ IsFiniteSet(Key) /\ IsFiniteSet(Block)
    /\ GC \notin Client /\ NoUpload \notin Upload /\ NoPart \notin Seq(Block)
    /\ KeyOf \in [Upload -> Key]
    /\ {MaxPart, Ttl, MaxClock, MaxStores, MaxFaults} \subseteq Nat

VARIABLES rc,        \* block -> refcount
          obj,       \* key -> block list of its record
          live,      \* ids that have an upload record
          created,   \* id -> creation time in its record, -1 before that
          parts,     \* id -> part number -> block list of the record, or NoPart
          now,       \* wall clock
          pc,        \* where each process is
          up,        \* the upload it works on
          num,       \* part number it stores, or number of parts it completes
          own,       \* block list it holds and has to hand on or release
          plan,      \* part keys it has still to reap
          phase,     \* the sweep's phase
          cutoff,    \* the sweep's cutoff
          aged,      \* uploads the sweep has still to abort
          seen,      \* part keys the sweep has walked and not yet checked
          displaced, \* block -> references of replaced part records
          stores, faults

records == <<rc, obj, live, created, parts>>
sweep == <<phase, cutoff, aged, seen>>
bounds == <<displaced, stores, faults>>
vars == <<rc, obj, live, created, parts, now, pc, up, num, own, plan, phase, cutoff, aged,
          seen, displaced, stores, faults>>

Process == Client \cup {GC}
PartNo == 1..MaxPart
PartKey == Upload \X PartNo
Count(list, b) == Cardinality({i \in DOMAIN list : list[i] = b})
Present == {x \in PartKey : parts[x[1]][x[2]] # NoPart}

Init ==
    /\ rc = [b \in Block |-> 0]
    /\ obj = [k \in Key |-> <<>>]
    /\ live = {}
    /\ created = [u \in Upload |-> -1]
    /\ parts = [u \in Upload |-> [n \in PartNo |-> NoPart]]
    /\ now = 0
    /\ pc = [p \in Process |-> "idle"]
    /\ up = [p \in Process |-> NoUpload]
    /\ num = [p \in Process |-> 0]
    /\ own = [p \in Process |-> <<>>]
    /\ plan = [p \in Process |-> {}]
    /\ phase = "rest" /\ cutoff = 0 /\ aged = {} /\ seen = {}
    /\ displaced = [b \in Block |-> 0]
    /\ stores = 0 /\ faults = 0

Fault == faults < MaxFaults /\ faults' = faults + 1

\* The request is over; what it still held is leaked.
EndRequest(p) ==
    /\ pc' = [pc EXCEPT ![p] = "idle"]
    /\ up' = [up EXCEPT ![p] = NoUpload]
    /\ num' = [num EXCEPT ![p] = 0]
    /\ own' = [own EXCEPT ![p] = <<>>]
    /\ plan' = [plan EXCEPT ![p] = {}]

-----------------------------------------------------------------------------
(* CreateMultipartUpload and UploadPart. *)

\* The clock bound leaves every upload time to grow stale.
CreateUpload(u) ==
    /\ created[u] = -1
    /\ now + Ttl < MaxClock
    /\ live' = live \cup {u}
    /\ created' = [created EXCEPT ![u] = now]
    /\ UNCHANGED <<rc, obj, parts, now, pc, up, num, own, plan, sweep, bounds>>

\* A plain existence read at entry: it excludes nobody.
StartPart(p, u, n) ==
    /\ pc[p] = "idle"
    /\ u \in live
    /\ pc' = [pc EXCEPT ![p] = "store"]
    /\ up' = [up EXCEPT ![p] = u]
    /\ num' = [num EXCEPT ![p] = n]
    /\ UNCHANGED <<records, now, own, plan, sweep, bounds>>

\* store_object: the part's references are counted.
StorePart(p, b) ==
    /\ pc[p] = "store"
    /\ stores < MaxStores
    /\ stores' = stores + 1
    /\ rc' = [rc EXCEPT ![b] = @ + 1]
    /\ own' = [own EXCEPT ![p] = <<b>>]
    /\ pc' = [pc EXCEPT ![p] = "register"]
    /\ UNCHANGED <<obj, live, created, parts, now, up, num, plan, sweep, displaced, faults>>

\* insert_multipart_part: a bare overwrite, the upload record not looked at again.
RegisterPart(p) ==
    LET old == parts[up[p]][num[p]]
    IN  /\ pc[p] = "register"
        /\ parts' = [parts EXCEPT ![up[p]][num[p]] = own[p]]
        /\ displaced' = IF old = NoPart THEN displaced
                        ELSE [b \in Block |-> displaced[b] + Count(old, b)]
        /\ EndRequest(p)
        /\ UNCHANGED <<rc, obj, live, created, now, sweep, stores, faults>>

-----------------------------------------------------------------------------
(* CompleteMultipartUpload. *)

\* Validation: the upload exists and so do the parts 1..n, at this point.
StartComplete(p, u, n) ==
    /\ pc[p] = "idle"
    /\ u \in live
    /\ \A i \in 1..n : parts[u][i] # NoPart
    /\ pc' = [pc EXCEPT ![p] = "claim"]
    /\ up' = [up EXCEPT ![p] = u]
    /\ num' = [num EXCEPT ![p] = n]
    /\ UNCHANGED <<records, now, own, plan, sweep, bounds>>

Claimable(p) == up[p] \in live /\ \A i \in 1..num[p] : parts[up[p]][i] # NoPart

\* Mutant: complete takes the upload record and leaves the parts.
TakeUploadOnly(p) == live' = live \ {up[p]} /\ UNCHANGED parts

TakeUploadAndParts(p) ==
    /\ live' = live \ {up[p]}
    /\ parts' = [parts EXCEPT ![up[p]] = [i \in PartNo |-> IF i <= num[p] THEN NoPart ELSE @[i]]]

\* The named parts' block lists, in part order.
Inherited(p) ==
    LET upto[n \in 0..num[p]] == IF n = 0 THEN <<>> ELSE upto[n - 1] \o parts[up[p]][n]
    IN  upto[num[p]]

\* One transaction takes the upload record and every named part, or nothing.
ClaimUploadWithParts(p) ==
    /\ pc[p] = "claim"
    /\ IF Claimable(p)
       THEN /\ TakeUploadAndParts(p)
            /\ own' = [own EXCEPT ![p] = Inherited(p)]
            /\ pc' = [pc EXCEPT ![p] = "publish"]
            /\ UNCHANGED <<up, num, plan>>
       ELSE EndRequest(p) /\ UNCHANGED <<live, parts>>
    /\ UNCHANGED <<rc, obj, created, now, sweep, bounds>>

\* The claim became visible and its persist failed: the request ends in error.
ClaimWithPartsFails(p) ==
    /\ pc[p] = "claim"
    /\ Claimable(p)
    /\ Fault
    /\ TakeUploadAndParts(p)
    /\ EndRequest(p)
    /\ UNCHANGED <<rc, obj, created, now, sweep, displaced, stores>>

\* create_object_meta: the object inherits; what it displaced is to be released.
CreateObjectMeta(p) ==
    /\ pc[p] = "publish"
    /\ obj' = [obj EXCEPT ![KeyOf[up[p]]] = own[p]]
    /\ own' = [own EXCEPT ![p] = obj[KeyOf[up[p]]]]
    /\ pc' = [pc EXCEPT ![p] = "release"]
    /\ UNCHANGED <<rc, live, created, parts, now, up, num, plan, sweep, bounds>>

\* The replace became visible and its persist failed: nothing is released.
CreateObjectMetaFails(p) ==
    /\ pc[p] = "publish"
    /\ Fault
    /\ obj' = [obj EXCEPT ![KeyOf[up[p]]] = own[p]]
    /\ EndRequest(p)
    /\ UNCHANGED <<rc, live, created, parts, now, sweep, displaced, stores>>

-----------------------------------------------------------------------------
(* abort_upload, called by a client and by the sweep. *)

\* Who wins the claim goes on to scan the parts; who loses has nothing to do.
ClaimUpload(p, u) ==
    /\ live' = live \ {u}
    /\ IF u \in live
       THEN pc' = [pc EXCEPT ![p] = "scan"] /\ up' = [up EXCEPT ![p] = u]
       ELSE UNCHANGED <<pc, up>>

Abort(p, u) ==
    /\ pc[p] = "idle"
    /\ created[u] # -1
    /\ ClaimUpload(p, u)
    /\ UNCHANGED <<rc, obj, created, parts, now, num, own, plan, sweep, bounds>>

\* The claim became visible and its persist failed: the parts are orphans.
AbortFails(p, u) ==
    /\ pc[p] = "idle"
    /\ u \in live
    /\ Fault
    /\ live' = live \ {u}
    /\ UNCHANGED <<rc, obj, created, parts, now, pc, up, num, own, plan, sweep, displaced, stores>>

\* The part keys are collected before the first removal.
ScanParts(p) ==
    /\ pc[p] = "scan"
    /\ plan' = [plan EXCEPT ![p] = {x \in Present : x[1] = up[p]}]
    /\ pc' = [pc EXCEPT ![p] = "reap"]
    /\ UNCHANGED <<records, now, up, num, own, sweep, bounds>>

\* reap_part: take the record as it is now; its blocks are released next.  The
\* commit may fail visibly, or the record stay: either way nothing is released.
ReapPart(p) ==
    /\ pc[p] = "reap"
    /\ \E x \in plan[p] :
          /\ plan' = [plan EXCEPT ![p] = @ \ {x}]
          /\ IF x \notin Present THEN UNCHANGED <<parts, own, pc, faults>>
             ELSE \/ /\ parts' = [parts EXCEPT ![x[1]][x[2]] = NoPart]
                     /\ own' = [own EXCEPT ![p] = parts[x[1]][x[2]]]
                     /\ pc' = [pc EXCEPT ![p] = "release"]
                     /\ UNCHANGED faults
                  \/ /\ Fault
                     /\ parts' \in {parts, [parts EXCEPT ![x[1]][x[2]] = NoPart]}
                     /\ UNCHANGED <<own, pc>>
    /\ UNCHANGED <<rc, obj, live, created, now, up, num, sweep, displaced, stores>>

\* release_blocks: one occurrence; after the last one back to the reaping loop.
ReleaseOne(p) ==
    /\ pc[p] = "release"
    /\ IF own[p] = <<>>
       THEN pc' = [pc EXCEPT ![p] = "reap"] /\ UNCHANGED <<rc, own>>
       ELSE /\ rc' = [rc EXCEPT ![Head(own[p])] = IF @ = 0 THEN 0 ELSE @ - 1]
            /\ own' = [own EXCEPT ![p] = Tail(@)]
            /\ UNCHANGED pc
    /\ UNCHANGED <<obj, live, created, parts, now, up, num, plan, sweep, bounds>>

\* Nothing left to reap: the client is answered.
Respond(p) ==
    /\ p # GC
    /\ pc[p] = "reap"
    /\ plan[p] = {}
    /\ EndRequest(p)
    /\ UNCHANGED <<records, now, sweep, bounds>>

-----------------------------------------------------------------------------
(* sweep_stale_uploads. *)

\* The cutoff is fixed and the uploads listed; a listing that fails costs the sweep its
\* age phase.
StartSweep ==
    /\ phase = "rest"
    /\ phase' = "aged"
    /\ cutoff' = now - Ttl
    /\ \/ aged' = {u \in live : created[u] < now - Ttl} /\ UNCHANGED faults
       \/ aged' = {} /\ Fault
    /\ UNCHANGED <<records, now, pc, up, num, own, plan, seen, displaced, stores>>

\* Each aged upload is aborted like any client would, or its claim fails, visibly
\* or not, and the sweep goes on.
AbortAged ==
    /\ phase = "aged" /\ pc[GC] = "idle"
    /\ \E u \in aged :
          /\ aged' = aged \ {u}
          /\ \/ ClaimUpload(GC, u) /\ UNCHANGED faults
             \/ Fault /\ live' \in {live, live \ {u}} /\ UNCHANGED <<pc, up>>
    /\ UNCHANGED <<rc, obj, created, parts, now, num, own, plan, phase, cutoff, seen, displaced, stores>>

\* Mutant: only the parts of live uploads are walked.
WalkLiveParts ==
    /\ phase = "aged" /\ pc[GC] = "idle" /\ aged = {}
    /\ phase' = "orphans"
    /\ seen' = {x \in Present : x[1] \in live}
    /\ pc' = [pc EXCEPT ![GC] = "check"]
    /\ UNCHANGED <<records, now, up, num, own, plan, cutoff, aged, bounds>>

\* The parts tree is walked, and then each part's upload record looked up; a tree that
\* does not open ends the sweep.
WalkParts ==
    /\ phase = "aged" /\ pc[GC] = "idle" /\ aged = {}
    /\ \/ /\ phase' = "orphans" /\ seen' = Present
          /\ pc' = [pc EXCEPT ![GC] = "check"]
          /\ UNCHANGED <<cutoff, faults>>
       \/ phase' = "rest" /\ cutoff' = 0 /\ Fault /\ UNCHANGED <<seen, pc>>
    /\ UNCHANGED <<records, now, up, num, own, plan, aged, displaced, stores>>

\* Mutant: the upload record is not looked up.
CheckNothing ==
    /\ pc[GC] = "check"
    /\ \E x \in seen :
          /\ seen' = seen \ {x}
          /\ plan' = [plan EXCEPT ![GC] = @ \cup {x}]
    /\ UNCHANGED <<records, now, pc, up, num, own, phase, cutoff, aged, bounds>>

\* A part that cannot be read, or whose upload cannot be looked up, is skipped.
CheckOrphan ==
    /\ pc[GC] = "check"
    /\ \E x \in seen :
          /\ seen' = seen \ {x}
          /\ \/ /\ plan' = [plan EXCEPT ![GC] = IF x[1] \in live THEN @ ELSE @ \cup {x}]
                /\ UNCHANGED faults
             \/ Fault /\ UNCHANGED plan
    /\ UNCHANGED <<records, now, pc, up, num, own, phase, cutoff, aged, displaced, stores>>

ReapOrphans ==
    /\ pc[GC] = "check" /\ seen = {}
    /\ pc' = [pc EXCEPT ![GC] = "reap"]
    /\ UNCHANGED <<records, now, up, num, own, plan, sweep, bounds>>

\* The reaping loop is through: the next aged upload, or the end of the sweep.
SweepOn ==
    /\ pc[GC] = "reap" /\ plan[GC] = {}
    /\ EndRequest(GC)
    /\ phase' = IF phase = "orphans" THEN "rest" ELSE phase
    /\ cutoff' = IF phase = "orphans" THEN 0 ELSE cutoff
    /\ UNCHANGED <<records, now, aged, seen, bounds>>

-----------------------------------------------------------------------------
(* Failures, death, time. *)

\* A client hangs up, or an operation outside a transaction fails.
RequestFails(p) ==
    /\ pc[p] # "idle"
    /\ Fault
    /\ EndRequest(p)
    /\ UNCHANGED <<records, now, sweep, displaced, stores>>

Crash ==
    /\ Fault
    /\ pc' = [p \in Process |-> "idle"]
    /\ up' = [p \in Process |-> NoUpload]
    /\ num' = [p \in Process |-> 0]
    /\ own' = [p \in Process |-> <<>>]
    /\ plan' = [p \in Process |-> {}]
    /\ phase' = "rest" /\ cutoff' = 0 /\ aged' = {} /\ seen' = {}
    /\ UNCHANGED <<records, now, displaced, stores>>

Tick ==
    /\ now < MaxClock
    /\ now' = now + 1
    /\ UNCHANGED <<records, pc, up, num, own, plan, sweep, bounds>>

-----------------------------------------------------------------------------
Work(p) == ScanParts(p) \/ ReapPart(p) \/ ReleaseOne(p)

Sweep == StartSweep \/ AbortAged \/ WalkParts \/ CheckOrphan \/ ReapOrphans \/ SweepOn \/ Work(GC)

Serve(p) ==
    \/ RegisterPart(p) \/ ClaimUploadWithParts(p) \/ CreateObjectMeta(p)
    \/ Work(p) \/ Respond(p)

Ask(p) ==
    \/ \E u \in Upload, n \in PartNo : StartPart(p, u, n) \/ StartComplete(p, u, n)
    \/ \E u \in Upload : Abort(p, u)
    \/ \E b \in Block : StorePart(p, b)

Fail(p) ==
    \/ ClaimWithPartsFails(p) \/ CreateObjectMetaFails(p) \/ RequestFails(p)
    \/ \E u \in Upload : AbortFails(p, u)

Next ==
    \/ \E u \in Upload : CreateUpload(u)
    \/ \E p \in Client : Ask(p) \/ Serve(p) \/ Fail(p)
    \/ Sweep
    \/ Crash
    \/ Tick

Spec == Init /\ [][Next]_vars

\* The daemon starts a sweep at every interval and tokio runs it to its end;
\* time passes.  Nothing is assumed of the clients.
FairSpec == Spec /\ WF_vars(Sweep) /\ WF_vars(Tick)

-----------------------------------------------------------------------------
(* Properties. *)

TypeOK ==
    /\ rc \in [Block -> Nat]
    /\ obj \in [Key -> Seq(Block)]
    /\ live \subseteq Upload
    /\ created \in [Upload -> -1..MaxClock]
    /\ parts \in [Upload -> [PartNo -> Seq(Block) \cup {NoPart}]]
    /\ now \in 0..MaxClock
    /\ pc \in [Process -> {"idle", "store", "register", "claim", "publish", "scan", "reap",
                          "release", "check"}]
    /\ up \in [Process -> Upload \cup {NoUpload}]
    /\ num \in [Process -> 0..MaxPart]
    /\ own \in [Process -> Seq(Block)]
    /\ plan \in [Process -> SUBSET PartKey]
    /\ phase \in {"rest", "aged", "orphans"}
    /\ cutoff \in Int /\ aged \subseteq Upload /\ seen \subseteq PartKey
    /\ displaced \in [Block -> Nat]
    /\ stores \in 0..MaxStores /\ faults \in 0..MaxFaults

Holders(b) ==
      MapThenSumSet(LAMBDA k : Count(obj[k], b), Key)
    + MapThenSumSet(LAMBDA x : Count(parts[x[1]][x[2]], b), Present)
    + MapThenSumSet(LAMBDA p : Count(own[p], b), Process)

\* No part is both inherited and reaped: through every race of complete, abort, the age
\* sweep, the orphan sweep and late parts, and every failure, a block's count never falls
\* below the references objects, parts and requests hold; and as long as nothing failed,
\* the only references without a holder are those of part records that a re-upload
\* replaced.
OnlyReuploadsLeak ==
    /\ TypeOK
    /\ \A b \in Block : Holders(b) <= rc[b]
    /\ faults = 0 => \A b \in Block : rc[b] = Holders(b) + displaced[b]

\* Parts go only after their upload: while an upload record exists its part
\* records are not removed, by any reaper working from any stale list.
LiveUploadsKeepTheirParts ==
    [][\A u \in live \cap live', n \in PartNo : parts[u][n] # NoPart => parts'[u][n] # NoPart]_vars

\* No upload outlives its time for good, and no orphan part stays: what abort, a
\* late part, an unnamed part or a crash leaves behind is collected.
UploadsEnd ==
    /\ \A u \in Upload : u \in live ~> u \notin live
    /\ \A x \in PartKey : (x \in Present /\ x[1] \notin live) ~> x \notin Present
=============================================================================
