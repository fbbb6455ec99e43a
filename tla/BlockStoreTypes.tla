--------------------------- MODULE BlockStoreTypes ---------------------------
(***************************************************************************)
(* Type correctness of BlockStore, and the facts about records and block   *)
(* lists that every later proof uses.                                      *)
(***************************************************************************)
EXTENDS BlockStoreInvariant, FiniteSetTheorems, TLAPS

\* The three record primitives keep records well formed, a recorded entry is live,
\* adds its occurrences and never sets the degraded flag (bump_block_rc,
\* insert_new_block).
LEMMA RecordEntryIs ==
    ASSUME NEW r \in Record, NEW n \in Nat \ {0}, NEW d \in Depth \cup {NoDepth}
    PROVE  RecordEntry(r, n, d)
           = [rc |-> r.rc + n, depth |-> IF HasLiveRecord(r) THEN r.depth ELSE d,
              degraded |-> FALSE]
<1> DEFINE first == IF HasLiveRecord(r) THEN Bump(r) ELSE InsertNewBlock(r, d)
           at == IF HasLiveRecord(r) THEN r.depth ELSE d
<1>1. first = [rc |-> r.rc + 1, depth |-> at, degraded |-> FALSE]
  <2>1. CASE HasLiveRecord(r)
    BY <2>1 DEF Bump, Record, HasLiveRecord
  <2>2. CASE ~HasLiveRecord(r)
    BY <2>2 DEF InsertNewBlock
  <2> QED
    BY <2>1, <2>2
<1>2. RecordEntry(r, n, d) = [first EXCEPT !.rc = first.rc + (n - 1)]
  BY DEF RecordEntry
<1>3. at \in Depth \cup {NoDepth} /\ r.rc \in Nat
  BY DEF Record
<1> HIDE DEF first, at
<1>4. first.rc + (n - 1) = r.rc + n
  BY <1>1, <1>3
<1>5. RecordEntry(r, n, d) = [rc |-> r.rc + n, depth |-> at, degraded |-> FALSE]
  BY <1>1, <1>2, <1>4
<1> QED
  BY <1>5 DEF at

LEMMA RecordEntryFacts ==
    ASSUME NEW r \in Record, NEW n \in Nat \ {0}, NEW d \in Depth \cup {NoDepth}
    PROVE  /\ RecordEntry(r, n, d) \in Record
           /\ RecordEntry(r, n, d).rc = r.rc + n
           /\ HasLiveRecord(RecordEntry(r, n, d))
           /\ RecordEntry(r, n, d).degraded = FALSE
           /\ RecordEntry(r, n, d).depth = IF HasLiveRecord(r) THEN r.depth ELSE d
<1> DEFINE at == IF HasLiveRecord(r) THEN r.depth ELSE d
<1>1. RecordEntry(r, n, d) = [rc |-> r.rc + n, depth |-> at, degraded |-> FALSE]
  BY RecordEntryIs
<1>2. at \in Depth \cup {NoDepth} /\ r.rc \in Nat
  BY DEF Record
<1> HIDE DEF at
<1> QED
  BY <1>1, <1>2 DEF Record, HasLiveRecord, Exists, at

\* bump_block_rc: one more reference, nothing else.
LEMMA BumpFacts ==
    ASSUME NEW r \in Record
    PROVE  /\ Bump(r) \in Record
           /\ Bump(r).rc = r.rc + 1
           /\ Bump(r).degraded = r.degraded
           /\ Bump(r).depth = r.depth
BY DEF Bump, Record

\* decrement_block_rc: one reference fewer, and the last one takes the record.
LEMMA DecrementFacts ==
    ASSUME NEW r \in Record
    PROVE  /\ DecrementBlockRc(r) \in Record
           /\ r.rc > 0 => DecrementBlockRc(r).rc = r.rc - 1
           /\ r.rc = 0 => DecrementBlockRc(r) = r
           /\ r.rc > 1 => DecrementBlockRc(r) = [r EXCEPT !.rc = r.rc - 1]
           /\ r.rc = 1 => DecrementBlockRc(r) = NoRecord
           /\ r.rc # 1 => /\ DecrementBlockRc(r).depth = r.depth
                          /\ DecrementBlockRc(r).degraded = r.degraded
           /\ ~r.degraded => ~DecrementBlockRc(r).degraded
<1>1. CASE r.rc = 0
  BY <1>1 DEF DecrementBlockRc, Record
<1>2. CASE r.rc = 1
  BY <1>2 DEF DecrementBlockRc, Record, NoRecord
<1>3. CASE r.rc > 1
  BY <1>3 DEF DecrementBlockRc, Record
<1> QED
  BY <1>1, <1>2, <1>3 DEF Record

LEMMA NoRecordType == NoRecord \in Record
BY DEF NoRecord, Record

\* A list's blocks are blocks.
LEMMA BlocksOfType ==
    ASSUME NEW refs \in SUBSET Ref
    PROVE  BlocksOf(refs) \subseteq Block
BY DEF BlocksOf, Ref

\* choose_depth answers a depth a file can be placed at.
LEMMA ChooseDepthType ==
    ASSUME TypeOK, NEW b \in Block
    PROVE  ChooseDepth(b) \subseteq Depth
BY DEF TypeOK, ChooseDepth

\* There are finitely many references to count.
LEMMA RefFinite == IsFiniteSet(Pos) /\ IsFiniteSet(Ref)
<1>1. IsFiniteSet(Pos)
  BY FS_Interval, BlockStoreAssumption DEF Pos
<1> QED
  BY <1>1, FS_Product, BlockStoreAssumption DEF Ref

\* Every entry of a closing batch has an occurrence to count.
LEMMA OccurrencesType ==
    ASSUME NEW refs \in SUBSET Ref, NEW b \in BlocksOf(refs)
    PROVE  Occurrences(refs, b) \in Nat \ {0}
<1> DEFINE S == {x \in refs : x[2] = b}
<1>1. S \in SUBSET Ref /\ S # {}
  BY DEF BlocksOf
<1>2. IsFiniteSet(S)
  BY <1>1, FS_Subset, RefFinite
<1> QED
  BY <1>1, <1>2, FS_EmptySet, FS_CardinalityType DEF Occurrences

\* The batch's transaction yields well-formed records.
LEMMA RecordedType ==
    ASSUME TypeOK, NEW p \in Proc
    PROVE  Recorded(p) \in [Block -> Record]
<1> SUFFICES ASSUME NEW b \in Block, b \in BlocksOf(batch[p])
             PROVE  RecordEntry(rec[b], Occurrences(batch[p], b), depth[p][b]) \in Record
  BY DEF Recorded, TypeOK
<1>1. Occurrences(batch[p], b) \in Nat \ {0}
  BY OccurrencesType DEF TypeOK
<1>2. rec[b] \in Record /\ depth[p][b] \in Depth \cup {NoDepth}
  BY DEF TypeOK
<1> QED
  BY <1>1, <1>2, RecordEntryFacts

LEMMA TypeInit == Init => TypeOK
BY NoRecordType, BlockStoreAssumption DEF Init, TypeOK, PC, Bare

\* Taking note of a depth.
LEMMA DepthType ==
    ASSUME TypeOK, NEW p \in Proc, NEW b \in Block, NEW d \in Depth \cup {NoDepth}
    PROVE  [depth EXCEPT ![p][b] = d] \in [Proc -> [Block -> Depth \cup {NoDepth}]]
<1>1. [depth[p] EXCEPT ![b] = d] \in [Block -> Depth \cup {NoDepth}]
  BY DEF TypeOK
<1> QED
  BY <1>1 DEF TypeOK

\* However a request ends, its local state is reset.
LEMMA TypeEnd ==
    ASSUME TypeOK, NEW p \in Proc, EndRequest(p)
    PROVE  /\ pc' \in [Proc -> PC]
           /\ key' \in [Proc -> Key \cup {NoKey}]
           /\ len' \in [Proc -> 0..MaxChunks]
           /\ ended' \in [Proc -> BOOLEAN]
           /\ batch' \in [Proc -> SUBSET Ref]
           /\ own' \in [Proc -> SUBSET Ref]
           /\ depth' \in [Proc -> [Block -> Depth \cup {NoDepth}]]
           /\ todo' \in [Proc -> SUBSET Block]
BY BlockStoreAssumption DEF EndRequest, Goto, TypeOK, PC, Bare

\* Dropping a guard set leaves every stripe free or with its holder.
LEMMA TypeRelease ==
    ASSUME TypeOK, NEW p \in Proc, ReleaseStripes(p)
    PROVE  stripe' \in [Stripe -> Proc \cup {NoProc}]
BY DEF ReleaseStripes, TypeOK

\* A failure is counted up to its bound.
LEMMA TypeFault ==
    ASSUME TypeOK, Fault
    PROVE  faults' \in 0..MaxFaults
<1>1. faults \in 0..MaxFaults
  BY DEF TypeOK
<1> QED
  BY <1>1, BlockStoreAssumption DEF Fault

\* Going to a program point is a move to a program point.
LEMMA TypeGoto ==
    ASSUME TypeOK, NEW p \in Proc, NEW l \in PC, Goto(p, l)
    PROVE  pc' \in [Proc -> PC]
BY DEF TypeOK, Goto

\* Every step keeps every variable in its type.
LEMMA TypeNext == TypeOK /\ KeyKnown /\ [Next]_vars => TypeOK'
<1> SUFFICES ASSUME TypeOK, KeyKnown, [Next]_vars PROVE TypeOK'
  OBVIOUS
<1> USE BlockStoreAssumption
<1>1. ASSUME NEW p \in Proc, Step(p) PROVE TypeOK'
  <2>1. CASE LockBatch(p)
    <3>1. PICK s \in Wanted(p) \ Held(p) :
             /\ Take(p, s)
             /\ IF Wanted(p) \ Held(p) = {s}
                THEN Goto(p, "land") /\ todo' = [todo EXCEPT ![p] = BlocksOf(batch[p])]
                ELSE UNCHANGED <<pc, todo>>
      BY <2>1 DEF LockBatch
    <3>2. s \in Stripe
      BY <3>1, BlocksOfType DEF Wanted, Stripe, TypeOK
    <3>3. stripe' \in [Stripe -> Proc \cup {NoProc}]
      BY <3>1, <3>2 DEF Take, TypeOK
    <3>4. pc' \in [Proc -> PC] /\ todo' \in [Proc -> SUBSET Block]
      <4>1. CASE Wanted(p) \ Held(p) = {s}
        <5>1. Goto(p, "land") /\ todo' = [todo EXCEPT ![p] = BlocksOf(batch[p])]
          BY <3>1, <4>1
        <5>2. BlocksOf(batch[p]) \subseteq Block
          BY BlocksOfType DEF TypeOK
        <5> QED
          BY <5>1, <5>2 DEF Goto, TypeOK, PC
      <4>2. CASE Wanted(p) \ Held(p) # {s}
        BY <2>1, <3>1, <4>2 DEF LockBatch, TypeOK
      <4> QED
        BY <4>1, <4>2
    <3> QED
      BY <2>1, <3>3, <3>4 DEF LockBatch, TypeOK
  <2>2. ASSUME NEW b \in Block, LandBlock(p, b) PROVE TypeOK'
    <3>1. todo' \in [Proc -> SUBSET Block]
      BY <2>2 DEF LandBlock, TypeOK
    <3>2. CASE HasLiveRecord(rec[b])
      <4>1. depth' = [depth EXCEPT ![p][b] = NoDepth] /\ files' = files
        BY <2>2, <3>2 DEF LandBlock
      <4>2. depth' \in [Proc -> [Block -> Depth \cup {NoDepth}]]
        BY <4>1, DepthType
      <4> QED
        BY <2>2, <3>1, <4>1, <4>2 DEF LandBlock, TypeOK
    <3>3. CASE ~HasLiveRecord(rec[b])
      <4>1. PICK d \in IF depth[p][b] # NoDepth THEN {depth[p][b]} ELSE ChooseDepth(b) :
               /\ depth' = [depth EXCEPT ![p][b] = d]
               /\ files' = [files EXCEPT ![b] = @ \cup {d}]
        BY <2>2, <3>3 DEF LandBlock
      <4>2. d \in Depth
        BY <4>1, ChooseDepthType DEF TypeOK
      <4>3. depth' \in [Proc -> [Block -> Depth \cup {NoDepth}]] /\ files' \in [Block -> SUBSET Depth]
        BY <4>1, <4>2, DepthType DEF TypeOK
      <4> QED
        BY <2>2, <3>1, <4>3 DEF LandBlock, TypeOK
    <3> QED
      BY <3>2, <3>3
  <2>3. CASE CommitBatch(p)
    BY <2>3, RecordedType, TypeRelease DEF CommitBatch, Goto, TypeOK, PC, Bare
  <2>4. CASE CreateObjectMeta(p)
    <3>1. obj' \in [Key -> SUBSET Ref]
      BY <2>4 DEF CreateObjectMeta, TypeOK
    <3>2. own' \in [Proc -> SUBSET Ref]
      <4>1. obj[key[p]] \in SUBSET Ref
        BY <2>4 DEF CreateObjectMeta, TypeOK, KeyKnown, Building
      <4> QED
        BY <2>4, <4>1 DEF CreateObjectMeta, TypeOK
    <3> QED
      BY <2>4, <3>1, <3>2 DEF CreateObjectMeta, Goto, TypeOK, PC
  <2>5. CASE LockRelease(p)
    <3>1. stripe' \in [Stripe -> Proc \cup {NoProc}]
      BY <2>5 DEF LockRelease, Take, TypeOK
    <3>2. pc' \in [Proc -> PC]
      BY <2>5, TypeGoto DEF LockRelease, PC
    <3> QED
      BY <2>5, <3>1, <3>2 DEF LockRelease, TypeOK
  <2>6. CASE DecrementOneBlock(p)
    <3>1. PICK x \in own[p] :
             /\ rec' = [rec EXCEPT ![x[2]] = DecrementBlockRc(@)]
             /\ own' = [own EXCEPT ![p] = @ \ {x}]
             /\ IF rec[x[2]].rc = 1
                THEN /\ depth' = [depth EXCEPT ![p][x[2]] = rec[x[2]].depth]
                     /\ Goto(p, "unlink")
                     /\ UNCHANGED stripe
                ELSE /\ ReleaseStripes(p)
                     /\ Goto(p, "release")
                     /\ UNCHANGED depth
      BY <2>6 DEF DecrementOneBlock
    <3>2. x[2] \in Block /\ rec[x[2]] \in Record
      BY DEF TypeOK, Ref
    <3>3. rec' \in [Block -> Record] /\ own' \in [Proc -> SUBSET Ref]
      BY <3>1, <3>2, DecrementFacts DEF TypeOK
    <3>4. depth' \in [Proc -> [Block -> Depth \cup {NoDepth}]] /\ pc' \in [Proc -> PC]
      <4>1. CASE rec[x[2]].rc = 1
        <5>1. rec[x[2]].depth \in Depth \cup {NoDepth}
          BY <3>2 DEF Record
        <5>2. depth' = [depth EXCEPT ![p][x[2]] = rec[x[2]].depth]
          BY <3>1, <4>1
        <5>3. [depth EXCEPT ![p][x[2]] = rec[x[2]].depth] \in [Proc -> [Block -> Depth \cup {NoDepth}]]
          BY <3>2, <5>1, DepthType
        <5> QED
          BY <3>1, <4>1, <5>2, <5>3 DEF Goto, TypeOK, PC
      <4>2. CASE rec[x[2]].rc # 1
        BY <3>1, <4>2 DEF Goto, TypeOK, PC
      <4> QED
        BY <4>1, <4>2
    <3>5. stripe' \in [Stripe -> Proc \cup {NoProc}]
      BY <3>1, TypeRelease DEF TypeOK
    <3> QED
      BY <2>6, <3>3, <3>4, <3>5 DEF DecrementOneBlock, TypeOK
  <2>7. CASE UnlinkBlock(p)
    BY <2>7, TypeRelease DEF UnlinkBlock, Goto, Fault, TypeOK, PC, Bare
  <2>8. CASE Respond(p)
    BY <2>8, TypeEnd DEF Respond, shared, TypeOK
  <2>9. CASE LockAcquire(p)
    BY <2>9 DEF LockAcquire, Take, Goto, TypeOK, PC
  <2>10. CASE AcquireReference(p)
    <3>1. PICK x \in batch[p] :
             IF HasLiveRecord(rec[x[2]])
             THEN /\ rec' = [rec EXCEPT ![x[2]] = Bump(@)]
                  /\ own' = [own EXCEPT ![p] = @ \cup {x}]
                  /\ batch' = [batch EXCEPT ![p] = @ \ {x}]
                  /\ Goto(p, IF batch[p] = {x} THEN "publish" ELSE "acquire")
             ELSE /\ batch' = [batch EXCEPT ![p] = {}]
                  /\ Goto(p, "release")
                  /\ UNCHANGED <<rec, own>>
      BY <2>10 DEF AcquireReference
    <3>2. x[2] \in Block /\ rec[x[2]] \in Record /\ x \in Ref
      BY DEF TypeOK, Ref
    <3>3. rec' \in [Block -> Record]
      <4>1. rec \in [Block -> Record]
        BY DEF TypeOK
      <4>2. Bump(rec[x[2]]) \in Record
        BY <3>2, BumpFacts
      <4>3. UNCHANGED rec \/ rec' = [rec EXCEPT ![x[2]] = Bump(@)]
        BY <3>1
      <4> QED
        BY <4>1, <4>2, <4>3
    <3>4. own' \in [Proc -> SUBSET Ref] /\ batch' \in [Proc -> SUBSET Ref] /\ pc' \in [Proc -> PC]
      <4>1. CASE HasLiveRecord(rec[x[2]])
        <5>1. PICK l \in PC : Goto(p, l)
          BY <3>1, <4>1 DEF PC
        <5>2. pc' \in [Proc -> PC]
          BY <5>1 DEF Goto, TypeOK
        <5>3. own' = [own EXCEPT ![p] = @ \cup {x}] /\ batch' = [batch EXCEPT ![p] = @ \ {x}]
          BY <3>1, <4>1
        <5> QED
          BY <3>2, <5>2, <5>3 DEF TypeOK
      <4>2. CASE ~HasLiveRecord(rec[x[2]])
        BY <3>1, <4>2 DEF Goto, TypeOK, PC
      <4> QED
        BY <4>1, <4>2
    <3> QED
      BY <2>10, <3>3, <3>4, TypeRelease DEF AcquireReference, TypeOK
  <2> QED
    BY <1>1, <2>1, <2>2, <2>3, <2>4, <2>5, <2>6, <2>7, <2>8, <2>9, <2>10 DEF Step
<1>2. ASSUME NEW p \in Proc, Client(p) PROVE TypeOK'
  <2>1. ASSUME NEW k \in Key, StartPut(p, k) PROVE TypeOK'
    BY <2>1 DEF StartPut, Goto, shared, TypeOK, PC
  <2>2. ASSUME NEW k \in Key, DeleteObject(p, k) PROVE TypeOK'
    BY <2>2 DEF DeleteObject, Goto, TypeOK, PC
  <2>3. ASSUME NEW b \in Block, Accumulate(p, b) PROVE TypeOK'
    <3>1. <<len[p] + 1, b>> \in Ref
      <4>1. len[p] \in 0..MaxChunks
        BY DEF TypeOK
      <4>2. len[p] < MaxChunks
        BY <2>3 DEF Accumulate
      <4> QED
        BY <4>1, <4>2 DEF Ref, Pos
    <3>2. len' \in [Proc -> 0..MaxChunks] /\ batch' \in [Proc -> SUBSET Ref] /\ pc' \in [Proc -> PC]
      <4>1. PICK l \in PC : Goto(p, l)
        BY <2>3 DEF Accumulate, PC
      <4> QED
        <5>1. pc' \in [Proc -> PC]
          BY <4>1 DEF Goto, TypeOK
        <5>2. len' \in [Proc -> 0..MaxChunks]
          BY <2>3 DEF Accumulate, TypeOK
        <5>3. batch' = [batch EXCEPT ![p] = @ \cup {<<len[p] + 1, b>>}]
          BY <2>3 DEF Accumulate
        <5>4. batch' \in [Proc -> SUBSET Ref]
          BY <3>1, <5>3 DEF TypeOK
        <5> QED
          BY <5>1, <5>2, <5>4
    <3>3. depth' \in [Proc -> [Block -> Depth \cup {NoDepth}]]
      <4>1. CASE UNCHANGED depth
        BY <4>1 DEF TypeOK
      <4>2. ASSUME NEW d \in ChooseDepth(b), depth' = [depth EXCEPT ![p][b] = d]
            PROVE  depth' \in [Proc -> [Block -> Depth \cup {NoDepth}]]
        BY <4>2, ChooseDepthType, DepthType
      <4> QED
        BY <2>3, <4>1, <4>2 DEF Accumulate
    <3> QED
      BY <2>3, <3>2, <3>3 DEF Accumulate, shared, TypeOK
  <2>4. CASE EndStream(p)
    BY <2>4 DEF EndStream, Goto, shared, TypeOK, PC
  <2>5. ASSUME NEW src \in Key, NEW dst \in Key, StartClone(p, src, dst) PROVE TypeOK'
    BY <2>5 DEF StartClone, Goto, shared, TypeOK, PC
  <2> QED
    BY <1>2, <2>1, <2>2, <2>3, <2>4, <2>5 DEF Client
<1>3. ASSUME NEW p \in Proc, Failure(p) PROVE TypeOK'
  <2>1. CASE CommitBatchFails(p)
    <3>1. faults' \in 0..MaxFaults
      BY <2>1, TypeFault DEF CommitBatchFails
    <3>2. stripe' \in [Stripe -> Proc \cup {NoProc}]
      BY <2>1, TypeRelease DEF CommitBatchFails
    <3>3. rec' \in [Block -> Record]
      BY <2>1, RecordedType DEF CommitBatchFails, TypeOK
    <3>4. EndRequest(p) /\ UNCHANGED <<files, obj>>
      BY <2>1 DEF CommitBatchFails
    <3> QED
      BY <3>1, <3>2, <3>3, <3>4, TypeEnd DEF TypeOK
  <2>2. CASE CreateObjectMetaFails(p)
    <3>1. obj' \in [Key -> SUBSET Ref]
      BY <2>2 DEF CreateObjectMetaFails, TypeOK
    <3>2. faults' \in 0..MaxFaults
      BY <2>2, TypeFault DEF CreateObjectMetaFails
    <3> QED
      BY <2>2, <3>1, <3>2, TypeEnd DEF CreateObjectMetaFails, TypeOK
  <2>3. ASSUME NEW k \in Key, DeleteObjectFails(p, k) PROVE TypeOK'
    BY <2>3 DEF DeleteObjectFails, Fault, local, TypeOK
  <2>4. CASE DecrementFails(p)
    <3>1. PICK x \in own[p] :
             /\ rec' \in {rec, [rec EXCEPT ![x[2]] = DecrementBlockRc(@)]}
             /\ own' = [own EXCEPT ![p] = @ \ {x}]
      BY <2>4 DEF DecrementFails
    <3>2. x[2] \in Block /\ rec[x[2]] \in Record
      BY DEF TypeOK, Ref
    <3>3. rec' \in [Block -> Record] /\ own' \in [Proc -> SUBSET Ref]
      <4>1. DecrementBlockRc(rec[x[2]]) \in Record
        BY <3>2, DecrementFacts
      <4>2. own' \in [Proc -> SUBSET Ref]
        BY <3>1 DEF TypeOK
      <4>3. [rec EXCEPT ![x[2]] = DecrementBlockRc(@)] \in [Block -> Record]
        BY <3>2, <4>1 DEF TypeOK
      <4> QED
        BY <3>1, <4>2, <4>3 DEF TypeOK
    <3>4. pc' \in [Proc -> PC] /\ faults' \in 0..MaxFaults
      <4>1. Goto(p, "release") /\ Fault
        BY <2>4 DEF DecrementFails
      <4>2. "release" \in PC
        BY DEF PC
      <4> QED
        BY <4>1, <4>2, TypeGoto, TypeFault
    <3> QED
      BY <2>4, <3>3, <3>4, TypeRelease DEF DecrementFails, TypeOK
  <2>5. CASE AcquireFails(p)
    <3>1. PICK x \in batch[p] : UNCHANGED rec \/ rec' = [rec EXCEPT ![x[2]] = Bump(@)]
      BY <2>5 DEF AcquireFails
    <3>2. x[2] \in Block /\ rec[x[2]] \in Record
      BY DEF TypeOK, Ref
    <3>3. rec' \in [Block -> Record]
      <4>1. rec \in [Block -> Record]
        BY DEF TypeOK
      <4>2. Bump(rec[x[2]]) \in Record
        BY <3>2, BumpFacts
      <4>3. UNCHANGED rec \/ rec' = [rec EXCEPT ![x[2]] = Bump(@)]
        BY <3>1
      <4> QED
        BY <4>1, <4>2, <4>3
    <3>4. faults' \in 0..MaxFaults
      BY <2>5, TypeFault DEF AcquireFails
    <3> QED
      BY <2>5, <3>3, <3>4, TypeEnd, TypeRelease DEF AcquireFails, TypeOK
  <2>6. CASE RequestFails(p)
    <3>1. faults' \in 0..MaxFaults
      BY <2>6, TypeFault DEF RequestFails
    <3>2. stripe' \in [Stripe -> Proc \cup {NoProc}]
      BY <2>6, TypeRelease DEF RequestFails
    <3>3. EndRequest(p) /\ UNCHANGED <<rec, files, obj>>
      BY <2>6 DEF RequestFails
    <3> QED
      BY <3>1, <3>2, <3>3, TypeEnd DEF TypeOK
  <2> QED
    BY <1>3, <2>1, <2>2, <2>3, <2>4, <2>5, <2>6 DEF Failure
<1>4. CASE Crash
  BY <1>4 DEF Crash, Fault, TypeOK, PC, Bare
<1>5. ASSUME NEW b \in Block, MarkDegraded(b) PROVE TypeOK'
  <2>1. rec' \in [Block -> Record]
    <3>1. rec \in [Block -> Record]
      BY DEF TypeOK
    <3>2. rec' = [rec EXCEPT ![b].degraded = TRUE]
      BY <1>5 DEF MarkDegraded
    <3> QED
      BY <3>1, <3>2 DEF Record
  <2> QED
    BY <1>5, <2>1 DEF MarkDegraded, local, TypeOK
<1>6. CASE UNCHANGED vars
  BY <1>6 DEF vars, TypeOK
<1> QED
  BY <1>1, <1>2, <1>3, <1>4, <1>5, <1>6 DEF Next

LEMMA KeyInit == Init => KeyKnown
BY DEF Init, KeyKnown, Building, Writing

\* A key is set when a PUT or a clone starts and kept until the request ends.
LEMMA KeyNext == TypeOK /\ KeyKnown /\ [Next]_vars => KeyKnown'
<1> SUFFICES ASSUME TypeOK, KeyKnown, [Next]_vars, NEW q \in Proc, pc'[q] \in Building
             PROVE  key'[q] \in Key
  BY DEF KeyKnown
<1> USE DEF KeyKnown, Building, Writing, TypeOK, PC
<1>1. ASSUME NEW p \in Proc, Step(p) PROVE key'[q] \in Key
  <2>1. CASE LockBatch(p)
    BY <2>1 DEF LockBatch, Goto
  <2>2. CASE CommitBatch(p)
    BY <2>2 DEF CommitBatch, Goto
  <2>3. CASE CreateObjectMeta(p)
    BY <2>3 DEF CreateObjectMeta, Goto
  <2>4. CASE LockRelease(p)
    BY <2>4 DEF LockRelease, Goto
  <2>5. CASE DecrementOneBlock(p)
    BY <2>5 DEF DecrementOneBlock, Goto
  <2>6. CASE UnlinkBlock(p)
    BY <2>6 DEF UnlinkBlock, Goto
  <2>7. CASE Respond(p)
    BY <2>7 DEF Respond, EndRequest, Goto
  <2>8. CASE LockAcquire(p)
    BY <2>8 DEF LockAcquire, Goto
  <2>9. CASE AcquireReference(p)
    BY <2>9 DEF AcquireReference, Goto
  <2>10. ASSUME NEW b \in Block, LandBlock(p, b) PROVE key'[q] \in Key
    BY <2>10 DEF LandBlock
  <2> QED
    BY <1>1, <2>1, <2>2, <2>3, <2>4, <2>5, <2>6, <2>7, <2>8, <2>9, <2>10 DEF Step
<1>2. ASSUME NEW p \in Proc, Client(p) PROVE key'[q] \in Key
  <2>1. ASSUME NEW k \in Key, StartPut(p, k) PROVE key'[q] \in Key
    BY <2>1 DEF StartPut, Goto
  <2>2. ASSUME NEW k \in Key, DeleteObject(p, k) PROVE key'[q] \in Key
    BY <2>2 DEF DeleteObject, Goto
  <2>3. ASSUME NEW b \in Block, Accumulate(p, b) PROVE key'[q] \in Key
    BY <2>3 DEF Accumulate, Goto
  <2>4. CASE EndStream(p)
    BY <2>4 DEF EndStream, Goto
  <2>5. ASSUME NEW src \in Key, NEW dst \in Key, StartClone(p, src, dst) PROVE key'[q] \in Key
    BY <2>5 DEF StartClone, Goto
  <2> QED
    BY <1>2, <2>1, <2>2, <2>3, <2>4, <2>5 DEF Client
<1>3. ASSUME NEW p \in Proc, Failure(p) PROVE key'[q] \in Key
  BY <1>3 DEF Failure, CommitBatchFails, CreateObjectMetaFails, DeleteObjectFails, local,
     DecrementFails, AcquireFails, RequestFails, EndRequest, Goto
<1>4. CASE Crash
  BY <1>4 DEF Crash
<1>5. ASSUME NEW b \in Block, MarkDegraded(b) PROVE key'[q] \in Key
  BY <1>5 DEF MarkDegraded, local
<1>6. CASE UNCHANGED vars
  BY <1>6 DEF vars
<1> QED
  BY <1>1, <1>2, <1>3, <1>4, <1>5, <1>6 DEF Next

\* The variables of the block protocol keep their types in every behaviour, for
\* any number of requests, keys, blocks, stripes and faults.
THEOREM TypeCorrect == Spec => []TypeOK
<1>1. Init => TypeOK /\ KeyKnown
  BY TypeInit, KeyInit
<1>2. TypeOK /\ KeyKnown /\ [Next]_vars => TypeOK' /\ KeyKnown'
  BY TypeNext, KeyNext
<1> QED
  BY <1>1, <1>2, PTL DEF Spec
=============================================================================
