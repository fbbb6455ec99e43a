----------------------------- MODULE GroupCommit -----------------------------
(***************************************************************************)
(* The commit station: an opt-in stage that closes the batches of several  *)
(* requests as one group, under one set of stripes and in one transaction. *)
(*                                                                         *)
(* A request seals its batch, parks it in the station's queue and waits for*)
(* a reply.  The committer takes a group no larger than the cap, lands one *)
(* file per new block whoever brought it, records every member, and when   *)
(* the shared transaction fails replays each member on its own.            *)
(*                                                                         *)
(* Here a batch is a count of occurrences per block.  What happens to a    *)
(* member's references afterwards is BlockStore's subject; a member simply *)
(* holds them until it releases them, one at a time, under the stripe.     *)
(***************************************************************************)
EXTENDS BlockRecords, Sequences, FiniteSetsExt

CONSTANTS Proc,            \* concurrent requests
          Block,           \* block ids
          StripeOf,        \* Stripes::index_of
          Cap,             \* max_blocks_per_commit, of a batch and of a group
          MaxOccurrences,  \* bound: occurrences of one block in one batch
          MaxFaults,       \* bound: failures
          NoProc

ASSUME GroupCommitAssumption ==
    /\ IsFiniteSet(Proc) /\ IsFiniteSet(Block)
    /\ StripeOf \in [Block -> Nat]
    /\ Cap \in Nat \ {0} /\ MaxOccurrences \in Nat \ {0} /\ MaxFaults \in Nat
    /\ NoProc \notin Proc

VARIABLES rec,      \* _BLOCKS
          files,    \* block -> depths at which a file stands
          st,       \* request -> idle, filling, parked, acked or failed
          batch,    \* request -> block -> occurrences in its batch
          staged,   \* request -> block -> depth of its temp file, or NoDepth
          own,      \* request -> block -> references counted for it
          deaf,     \* parked requests whose client hung up
          queue,    \* batches sent and not yet received
          carried,  \* the batch held over to lead the next group, or NoProc
          group,    \* members of the group being closed
          cpc,      \* where the committer is
          todo,     \* blocks of the group not yet looked at
          placed,   \* block -> depth this group put a file at, or NoDepth
          outcome,  \* request -> none, ok or err
          faults    \* kinds of the failures so far

requests == <<st, batch, staged, deaf>>
vars == <<rec, files, st, batch, staged, own, deaf, queue, carried, group, cpc, todo,
          placed, outcome, faults>>

Bare == [b \in Block |-> NoDepth]
Nothing == [b \in Block |-> 0]
FaultKind == {"transaction", "replay", "landing", "rewrite", "read", "hangup"}

Entries(p) == {b \in Block : batch[p][b] > 0}
Members == {group[i] : i \in 1..Len(group)}
GroupBlocks == UNION {Entries(p) : p \in Members}
Size(members) == MapThenSumSet(LAMBDA p : Cardinality(Entries(p)), members)
Locked == IF cpc \in {"land", "replay"} THEN {StripeOf[b] : b \in GroupBlocks} ELSE {}

Init ==
    /\ rec = [b \in Block |-> NoRecord]
    /\ files = [b \in Block |-> {}]
    /\ st = [p \in Proc |-> "idle"]
    /\ batch = [p \in Proc |-> Nothing]
    /\ staged = [p \in Proc |-> Bare]
    /\ own = [p \in Proc |-> Nothing]
    /\ deaf = {}
    /\ queue = <<>>
    /\ carried = NoProc
    /\ group = <<>>
    /\ cpc = "gather"
    /\ todo = {}
    /\ placed = Bare
    /\ outcome = [p \in Proc |-> "none"]
    /\ faults = <<>>

Fault(kind) == Len(faults) < MaxFaults /\ faults' = Append(faults, kind)

ChooseDepth(b) ==
    IF files[b] = {} THEN Depth
    ELSE {d \in files[b] : \A e \in files[b] : d <= e}

-----------------------------------------------------------------------------
(* The requests. *)

\* accumulate: an unlocked dedup lookup, a temp file on a miss.
Accumulate(p, b, n) ==
    /\ st[p] \in {"idle", "filling"}
    /\ own[p] = Nothing
    /\ batch[p][b] = 0
    /\ Cardinality(Entries(p)) < Cap
    /\ st' = [st EXCEPT ![p] = "filling"]
    /\ batch' = [batch EXCEPT ![p][b] = n]
    /\ IF HasLiveRecord(rec[b]) THEN UNCHANGED staged
       ELSE \E d \in ChooseDepth(b) : staged' = [staged EXCEPT ![p][b] = d]
    /\ UNCHANGED <<rec, files, own, deaf, queue, carried, group, cpc, todo, placed, outcome, faults>>

\* CommitStation::close: send the sealed batch and wait.
Close(p) ==
    /\ st[p] = "filling"
    /\ st' = [st EXCEPT ![p] = "parked"]
    /\ queue' = Append(queue, p)
    /\ UNCHANGED <<rec, files, batch, staged, own, deaf, carried, group, cpc, todo, placed, outcome, faults>>

\* The waiting client hangs up: its batch commits all the same.
HangUp(p) ==
    /\ st[p] = "parked" /\ p \notin deaf
    /\ Fault("hangup")
    /\ deaf' = deaf \cup {p}
    /\ UNCHANGED <<rec, files, st, batch, staged, own, queue, carried, group, cpc, todo, placed, outcome>>

\* A member drops one of its references, and the file with the last one.
Release(p, b) ==
    /\ st[p] = "acked"
    /\ own[p][b] > 0
    /\ StripeOf[b] \notin Locked
    /\ own' = [own EXCEPT ![p][b] = @ - 1]
    /\ rec' = [rec EXCEPT ![b] = DecrementBlockRc(@)]
    /\ files' = [files EXCEPT ![b] = IF rec[b].rc = 1 THEN @ \ {rec[b].depth} ELSE @]
    /\ st' = [st EXCEPT ![p] = IF own'[p] = Nothing THEN "idle" ELSE @]
    /\ UNCHANGED <<batch, staged, deaf, queue, carried, group, cpc, todo, placed, outcome, faults>>

\* The failed request returns its error.
GiveUp(p) ==
    /\ st[p] = "failed"
    /\ st' = [st EXCEPT ![p] = "idle"]
    /\ UNCHANGED <<rec, files, batch, staged, own, deaf, queue, carried, group, cpc, todo, placed, outcome, faults>>

-----------------------------------------------------------------------------
(* Committer::run. *)

\* Mutant: the batch held over waits for the queue.
FirstFromQueue ==
    /\ cpc = "gather" /\ group = <<>>
    /\ queue # <<>>
    /\ group' = <<Head(queue)>> /\ queue' = Tail(queue)
    /\ UNCHANGED <<rec, files, requests, own, carried, cpc, todo, placed, outcome, faults>>

\* The batch held over leads; then the queue's head.
First ==
    /\ cpc = "gather" /\ group = <<>>
    /\ \/ /\ carried # NoProc
          /\ group' = <<carried>> /\ carried' = NoProc
          /\ UNCHANGED queue
       \/ /\ carried = NoProc /\ queue # <<>>
          /\ group' = <<Head(queue)>> /\ queue' = Tail(queue)
          /\ UNCHANGED carried
    /\ UNCHANGED <<rec, files, requests, own, cpc, todo, placed, outcome, faults>>

MayGrow == group # <<>> /\ carried = NoProc /\ Size(Members) < Cap /\ queue # <<>>

\* Mutant: the batch that does not fit is dropped.
GatherDrops ==
    /\ cpc = "gather" /\ MayGrow
    /\ queue' = Tail(queue)
    /\ IF Size(Members \cup {Head(queue)}) > Cap
       THEN UNCHANGED group
       ELSE group' = Append(group, Head(queue))
    /\ UNCHANGED <<rec, files, requests, own, carried, cpc, todo, placed, outcome, faults>>

\* The next batch joins, or is carried because it would pass the cap.
Gather ==
    /\ cpc = "gather" /\ MayGrow
    /\ queue' = Tail(queue)
    /\ IF Size(Members \cup {Head(queue)}) > Cap
       THEN carried' = Head(queue) /\ UNCHANGED group
       ELSE group' = Append(group, Head(queue)) /\ UNCHANGED carried
    /\ UNCHANGED <<rec, files, requests, own, cpc, todo, placed, outcome, faults>>

\* Nothing more fits or waits (a window only waits longer): the union of the
\* members' stripes is taken and the blocking closure starts.
LockGroup ==
    /\ cpc = "gather" /\ group # <<>> /\ ~MayGrow
    /\ cpc' = "land"
    /\ todo' = GroupBlocks
    /\ placed' = Bare
    /\ UNCHANGED <<rec, files, requests, own, queue, carried, group, outcome, faults>>

-----------------------------------------------------------------------------
(* close_group. *)

Deduped(b) == \E p \in Members : b \in Entries(p) /\ staged[p][b] = NoDepth

\* The staged copy that lands: the first member's.
FirstStaged(b) ==
    LET holders == {i \in 1..Len(group) : b \in Entries(group[i]) /\ staged[group[i]][b] # NoDepth}
    IN  {staged[group[i]][b] : i \in {j \in holders : \A k \in holders : j <= k}}

Place(b, d) ==
    /\ placed' = [placed EXCEPT ![b] = d]
    /\ files' = [files EXCEPT ![b] = @ \cup {d}]

\* The file work for one block.  A live record makes every copy surplus; else an
\* overtaken dedup hit is written out, or the first staged copy is renamed.  A
\* record that cannot be read counts as not live.  A failed rewrite leaves the
\* block to a staged copy, if there is one.
LandBlock(b) ==
    /\ cpc = "land" /\ b \in todo
    /\ todo' = todo \ {b}
    /\ \/ /\ HasLiveRecord(rec[b])
          /\ UNCHANGED <<files, placed, faults>>
       \/ /\ IF HasLiveRecord(rec[b]) THEN Fault("read") ELSE UNCHANGED faults
          /\ \E d \in IF Deduped(b) THEN ChooseDepth(b) ELSE FirstStaged(b) : Place(b, d)
       \/ /\ ~HasLiveRecord(rec[b]) /\ Deduped(b)
          /\ Fault("rewrite")
          /\ IF FirstStaged(b) = {} THEN UNCHANGED <<files, placed>>
             ELSE \E d \in FirstStaged(b) : Place(b, d)
    /\ UNCHANGED <<rec, requests, own, queue, carried, group, cpc, outcome>>

\* Mutant: a member whose block has no file is recorded all the same.
RefusedNever(p) == FALSE

\* A member naming a block with neither a record nor a file is refused.
Refused(p) == \E b \in Entries(p) : ~HasLiveRecord(rec[b]) /\ placed[b] = NoDepth

\* record_entry for every entry of one member.
RecordMember(r, p) ==
    [b \in Block |-> IF b \in Entries(p) THEN RecordEntry(r[b], batch[p][b], placed[b]) ELSE r[b]]

\* The records after the first n members, in group order.
RecordGroup ==
    LET recorded[n \in 0..Len(group)] ==
            IF n = 0 THEN rec
            ELSE IF Refused(group[n]) THEN recorded[n - 1]
            ELSE RecordMember(recorded[n - 1], group[n])
    IN  recorded[Len(group)]

\* The replies go out after the closure returns; the stripes are free again.
Reply(result, counted) ==
    /\ st' = [p \in Proc |-> IF p \notin Members THEN st[p]
                            ELSE IF p \in deaf THEN "idle"
                            ELSE IF result[p] = "ok" THEN "acked" ELSE "failed"]
    /\ own' = [p \in Proc |-> IF p \in Members /\ p \in deaf THEN Nothing ELSE counted[p]]
    /\ batch' = [p \in Proc |-> IF p \in Members THEN Nothing ELSE batch[p]]
    /\ staged' = [p \in Proc |-> IF p \in Members THEN Bare ELSE staged[p]]
    /\ deaf' = deaf \ Members
    /\ group' = <<>>
    /\ cpc' = "gather"
    /\ placed' = Bare
    /\ outcome' = [p \in Proc |-> "none"]

\* The shared transaction commits: every member is recorded, refused ones fail.
CommitGroup ==
    /\ cpc = "land" /\ todo = {}
    /\ rec' = RecordGroup
    /\ Reply([p \in Members |-> IF Refused(p) THEN "err" ELSE "ok"],
             [p \in Proc |-> IF p \in Members /\ ~Refused(p) THEN batch[p] ELSE own[p]])
    /\ UNCHANGED <<files, queue, carried, todo, faults>>

\* A rename or directory sync failed, some files in place: no member is
\* recorded, all of them fail.
LandingFails ==
    /\ cpc = "land"
    /\ Fault("landing")
    /\ todo' = {}
    /\ Reply([p \in Members |-> "err"], own)
    /\ UNCHANGED <<rec, files, queue, carried>>

\* Mutant: a failed shared transaction fails every member.
CommitGroupFailsAll ==
    /\ cpc = "land" /\ todo = {}
    /\ Fault("transaction")
    /\ rec' \in {rec, RecordGroup}
    /\ Reply([p \in Members |-> "err"], own)
    /\ UNCHANGED <<files, queue, carried, todo>>

\* The shared transaction failed and rolled back, or its commit failed visibly
\* or not: degrade to one transaction per member.
CommitGroupFails ==
    /\ cpc = "land" /\ todo = {}
    /\ Fault("transaction")
    /\ rec' \in {rec, RecordGroup}
    /\ cpc' = "replay"
    /\ outcome' = [p \in Proc |-> IF p \in Members /\ Refused(p) THEN "err" ELSE "none"]
    /\ UNCHANGED <<files, requests, own, queue, carried, group, todo, placed>>

NextToReplay == {i \in 1..Len(group) : /\ outcome[group[i]] = "none"
                                /\ \A j \in 1..(i - 1) : outcome[group[j]] # "none"}

\* replay_alone: the next member in its own transaction, under the same stripes.
ReplayAlone ==
    /\ cpc = "replay"
    /\ \E i \in NextToReplay :
          LET p == group[i]
          IN  \/ /\ rec' = RecordMember(rec, p)
                 /\ own' = [own EXCEPT ![p] = batch[p]]
                 /\ outcome' = [outcome EXCEPT ![p] = "ok"]
                 /\ UNCHANGED faults
              \/ /\ Fault("replay")
                 /\ rec' \in {rec, RecordMember(rec, p)}
                 /\ outcome' = [outcome EXCEPT ![p] = "err"]
                 /\ UNCHANGED own
    /\ UNCHANGED <<files, requests, queue, carried, group, cpc, todo, placed>>

ReplayDone ==
    /\ cpc = "replay" /\ NextToReplay = {}
    /\ Reply(outcome, own)
    /\ UNCHANGED <<rec, files, queue, carried, todo, faults>>

-----------------------------------------------------------------------------
Committer ==
    \/ First \/ Gather \/ LockGroup
    \/ \E b \in Block : LandBlock(b)
    \/ CommitGroup \/ LandingFails \/ CommitGroupFails
    \/ ReplayAlone \/ ReplayDone

Request(p) ==
    \/ \E b \in Block, n \in 1..MaxOccurrences : Accumulate(p, b, n)
    \/ \E b \in Block : Release(p, b)
    \/ Close(p) \/ HangUp(p) \/ GiveUp(p)

Next == Committer \/ \E p \in Proc : Request(p)

Spec == Init /\ [][Next]_vars

\* The committer is a task of its own that tokio always runs again, and its
\* blocking closure runs to the end.  Nothing is assumed of the requests.
FairSpec == Spec /\ WF_vars(Committer)

-----------------------------------------------------------------------------
(* Properties. *)

TypeOK ==
    /\ rec \in [Block -> Record]
    /\ files \in [Block -> SUBSET Depth]
    /\ st \in [Proc -> {"idle", "filling", "parked", "acked", "failed"}]
    /\ batch \in [Proc -> [Block -> 0..MaxOccurrences]]
    /\ staged \in [Proc -> [Block -> Depth \cup {NoDepth}]]
    /\ own \in [Proc -> [Block -> 0..MaxOccurrences]]
    /\ deaf \subseteq Proc
    /\ queue \in Seq(Proc) /\ group \in Seq(Proc)
    /\ carried \in Proc \cup {NoProc}
    /\ cpc \in {"gather", "land", "replay"}
    /\ todo \subseteq Block
    /\ placed \in [Block -> Depth \cup {NoDepth}]
    /\ outcome \in [Proc -> {"none", "ok", "err"}]
    /\ faults \in Seq(FaultKind)

Holders(b) == MapThenSumSet(LAMBDA p : own[p][b], Proc)

\* Acknowledged members hold what they were promised: whatever the grouping, the
\* shared transaction, its failure and the replays, no block's refcount is below the
\* references its members hold, and no record is readable without its file at the depth
\* it names, across members that staged it at different depths or deduped against a
\* record that has gone since. As long as nothing failed the count is exact, two members
\* staging one new block becoming one insert and one bump, and their surplus copies are
\* discarded: no block has a file at a second depth.
RecordsSound ==
    /\ TypeOK
    /\ \A b \in Block : /\ Holders(b) <= rec[b].rc
                        /\ HasLiveRecord(rec[b]) => rec[b].depth \in files[b]
    /\ faults = <<>> => \A b \in Block : /\ Holders(b) = rec[b].rc
                                         /\ Cardinality(files[b]) <= 1

\* Nobody is lost between the queue, the batch held over and the group: a
\* request that waits for its reply is in exactly one of them, once.
EveryoneAccountedFor ==
    LET at(p) == {<<"queue", i>> : i \in {j \in 1..Len(queue) : queue[j] = p}}
                 \cup {<<"group", i>> : i \in {j \in 1..Len(group) : group[j] = p}}
                 \cup {<<"carried", 0>> : c \in {c \in {carried} : c = p}}
    IN  \A p \in Proc : Cardinality(at(p)) = IF st[p] = "parked" THEN 1 ELSE 0

\* A stranger's failing entry costs a member nothing but the shared transaction:
\* when the shared transactions are all that failed, nobody's request fails.
StrangersAreIsolated ==
    (\A i \in 1..Len(faults) : faults[i] \in {"transaction", "read", "hangup"}) =>
        \A p \in Proc : st[p] # "failed"

\* Every batch handed to the station is answered, carried or not.
EveryoneIsAnswered == \A p \in Proc : st[p] = "parked" ~> st[p] # "parked"
=============================================================================
