-------------------------- MODULE BlockStoreCounting --------------------------
(***************************************************************************)
(* The refcount never falls below the references held.  The arithmetic is  *)
(* about sets of holders <<holder, position>>: replacing one holder's list *)
(* moves the count by the difference of the two lists' occurrences, so an  *)
(* overwrite, a delete and a release only move references between holders. *)
(***************************************************************************)
EXTENDS BlockStoreTypes

\* The references to b in the lists of the holders X.
RefsIn(f, X, b) == {h \in X \X Pos : <<h[2], b>> \in f[h[1]]}

\* The part of them one holder x with that list has.
Share(x, refs, b) == {h \in {x} \X Pos : <<h[2], b>> \in refs}

LEMMA DisjointUnion ==
    ASSUME NEW S, IsFiniteSet(S), NEW T, IsFiniteSet(T), S \cap T = {}
    PROVE  Cardinality(S \cup T) = Cardinality(S) + Cardinality(T)
<1>1. Cardinality(S \cup T) = Cardinality(S) + Cardinality(T) - Cardinality(S \cap T)
  BY FS_Union
<1>2. Cardinality(S \cap T) = 0 /\ Cardinality(S) \in Nat /\ Cardinality(T) \in Nat
  BY FS_EmptySet, FS_CardinalityType
<1> QED
  BY <1>1, <1>2

LEMMA HoldersAreRefs ==
    \A b \in Block : ObjRefs(b) = RefsIn(obj, Key, b) /\ OwnRefs(b) = RefsIn(own, Proc, b)
BY DEF ObjRefs, OwnRefs, RefsIn

LEMMA RefsInFinite ==
    ASSUME NEW X, IsFiniteSet(X), NEW f, NEW b
    PROVE  /\ IsFiniteSet(RefsIn(f, X, b))
           /\ Cardinality(RefsIn(f, X, b)) \in Nat
<1>1. IsFiniteSet(X \X Pos)
  BY FS_Product, RefFinite
<1>2. RefsIn(f, X, b) \in SUBSET (X \X Pos)
  BY DEF RefsIn
<1>3. IsFiniteSet(RefsIn(f, X, b))
  BY <1>1, <1>2, FS_Subset
<1> QED
  BY <1>3, FS_CardinalityType

LEMMA OccurrencesNat ==
    ASSUME NEW refs \in SUBSET Ref, NEW b
    PROVE  /\ IsFiniteSet({x \in refs : x[2] = b})
           /\ Occurrences(refs, b) \in Nat
<1>1. {x \in refs : x[2] = b} \in SUBSET Ref
  OBVIOUS
<1>2. IsFiniteSet({x \in refs : x[2] = b})
  BY <1>1, FS_Subset, RefFinite
<1> QED
  BY <1>2, FS_CardinalityType DEF Occurrences

\* One holder's share of the references is its list's occurrences.
LEMMA ShareIsOccurrences ==
    ASSUME NEW x, NEW refs \in SUBSET Ref, NEW b \in Block
    PROVE  IsFiniteSet(Share(x, refs, b)) /\ Cardinality(Share(x, refs, b)) = Occurrences(refs, b)
<1> DEFINE share == {h \in {x} \X Pos : <<h[2], b>> \in refs}
           S == {y \in refs : y[2] = b}
           g == [y \in S |-> <<x, y[1]>>]
<1>1. IsFiniteSet(S)
  BY OccurrencesNat
<1>2. g \in [S -> share]
  BY DEF Ref
<1>3. \A y, z \in S : g[y] = g[z] => y = z
  BY DEF Ref
<1>4. \A h \in share : \E y \in S : g[y] = h
  <2> SUFFICES ASSUME NEW h \in share PROVE \E y \in S : g[y] = h
    OBVIOUS
  <2>1. <<h[2], b>> \in S /\ h = <<x, h[2]>>
    OBVIOUS
  <2> QED
    BY <2>1
<1>5. ExistsBijection(S, share)
  <2>1. g \in Bijection(S, share)
    BY <1>2, <1>3, <1>4 DEF Bijection, Injection, Surjection, IsInjective
  <2> QED
    BY <2>1 DEF ExistsBijection
<1> QED
  BY <1>1, <1>5, FS_Bijection DEF Occurrences, Share

\* Replacing one holder's list.
LEMMA CountUpdate ==
    ASSUME NEW X, IsFiniteSet(X), NEW f \in [X -> SUBSET Ref], NEW g \in [X -> SUBSET Ref],
           NEW x \in X, \A y \in X : y # x => g[y] = f[y], NEW b \in Block
    PROVE  Cardinality(RefsIn(g, X, b)) + Occurrences(f[x], b)
           = Cardinality(RefsIn(f, X, b)) + Occurrences(g[x], b)
<1> DEFINE rest == {h \in RefsIn(f, X, b) : h[1] # x}
           old == Share(x, f[x], b)
           new == Share(x, g[x], b)
<1>1. IsFiniteSet(rest) /\ Cardinality(rest) \in Nat
  <2>1. rest \in SUBSET RefsIn(f, X, b)
    OBVIOUS
  <2> QED
    BY <2>1, RefsInFinite, FS_Subset, FS_CardinalityType
<1>2. IsFiniteSet(old) /\ Cardinality(old) = Occurrences(f[x], b) /\ Cardinality(old) \in Nat
  <2>1. f[x] \in SUBSET Ref
    OBVIOUS
  <2>2. Occurrences(f[x], b) \in Nat
    BY <2>1, OccurrencesNat
  <2> QED
    BY <2>1, <2>2, ShareIsOccurrences
<1>3. IsFiniteSet(new) /\ Cardinality(new) = Occurrences(g[x], b) /\ Cardinality(new) \in Nat
  <2>1. g[x] \in SUBSET Ref
    OBVIOUS
  <2>2. Occurrences(g[x], b) \in Nat
    BY <2>1, OccurrencesNat
  <2> QED
    BY <2>1, <2>2, ShareIsOccurrences
<1>4. RefsIn(f, X, b) = rest \cup old /\ rest \cap old = {}
  BY DEF RefsIn, Share
<1>5. RefsIn(g, X, b) = rest \cup new /\ rest \cap new = {}
  BY DEF RefsIn, Share
<1> HIDE DEF rest, old, new
<1>6. Cardinality(RefsIn(f, X, b)) = Cardinality(rest) + Cardinality(old)
  BY <1>1, <1>2, <1>4, DisjointUnion
<1>7. Cardinality(RefsIn(g, X, b)) = Cardinality(rest) + Cardinality(new)
  BY <1>1, <1>3, <1>5, DisjointUnion
<1> QED
  BY <1>1, <1>2, <1>3, <1>6, <1>7

-----------------------------------------------------------------------------
(* How occurrences change with the list. *)

LEMMA OccurrencesEmpty ==
    ASSUME NEW refs, NEW b, b \notin BlocksOf(refs)
    PROVE  Occurrences(refs, b) = 0
<1>1. {x \in refs : x[2] = b} = {}
  BY DEF BlocksOf
<1> QED
  BY <1>1, FS_EmptySet DEF Occurrences

LEMMA OccurrencesUnion ==
    ASSUME NEW U \in SUBSET Ref, NEW V \in SUBSET Ref, NEW b
    PROVE  Occurrences(U \cup V, b) <= Occurrences(U, b) + Occurrences(V, b)
<1> DEFINE S == {x \in U : x[2] = b}
           T == {x \in V : x[2] = b}
<1>1. IsFiniteSet(S) /\ IsFiniteSet(T)
  BY OccurrencesNat
<1>2. {x \in U \cup V : x[2] = b} = S \cup T
  OBVIOUS
<1>3. Cardinality(S \cup T) = Cardinality(S) + Cardinality(T) - Cardinality(S \cap T)
  BY <1>1, FS_Union
<1>4. Cardinality(S) \in Nat /\ Cardinality(T) \in Nat
  BY <1>1, FS_CardinalityType
<1>5. Cardinality(S \cap T) \in Nat
  <2>1. S \cap T \in SUBSET S
    OBVIOUS
  <2> QED
    BY <1>1, <2>1, FS_Subset, FS_CardinalityType
<1>6. Cardinality(S \cup T) <= Cardinality(S) + Cardinality(T)
  BY <1>3, <1>4, <1>5
<1> QED
  BY <1>2, <1>6 DEF Occurrences

LEMMA OccurrencesRemove ==
    ASSUME NEW U \in SUBSET Ref, NEW x \in U, NEW b
    PROVE  Occurrences(U, b) = Occurrences(U \ {x}, b) + (IF x[2] = b THEN 1 ELSE 0)
<1> DEFINE S == {y \in U : y[2] = b}
<1>1. IsFiniteSet(S) /\ Cardinality(S) \in Nat
  BY OccurrencesNat, FS_CardinalityType
<1>2. {y \in U \ {x} : y[2] = b} = S \ {x}
  OBVIOUS
<1>3. Cardinality(S \ {x}) = IF x \in S THEN Cardinality(S) - 1 ELSE Cardinality(S)
  BY <1>1, FS_RemoveElement
<1>4. x \in S <=> x[2] = b
  OBVIOUS
<1>5. Cardinality(S) = Cardinality(S \ {x}) + (IF x[2] = b THEN 1 ELSE 0)
  BY <1>1, <1>3, <1>4
<1> QED
  BY <1>2, <1>5 DEF Occurrences

LEMMA OccurrencesAdd ==
    ASSUME NEW U \in SUBSET Ref, NEW x \in Ref, NEW b
    PROVE  Occurrences(U \cup {x}, b) <= Occurrences(U, b) + (IF x[2] = b THEN 1 ELSE 0)
<1>1. Occurrences(U, b) \in Nat
  BY OccurrencesNat
<1>2. CASE x \in U
  <2>1. U \cup {x} = U
    BY <1>2
  <2>2. Occurrences(U \cup {x}, b) = Occurrences(U, b)
    BY <2>1, Zenon
  <2> QED
    BY <1>1, <2>2
<1>3. CASE x \notin U
  <2>1. U \cup {x} \in SUBSET Ref /\ x \in U \cup {x} /\ (U \cup {x}) \ {x} = U
    BY <1>3
  <2>2. Occurrences(U \cup {x}, b) =
        Occurrences((U \cup {x}) \ {x}, b) + (IF x[2] = b THEN 1 ELSE 0)
    BY <2>1, OccurrencesRemove
  <2>3. Occurrences((U \cup {x}) \ {x}, b) = Occurrences(U, b)
    BY <2>1, Zenon
  <2> QED
    BY <1>1, <2>2, <2>3
<1> QED
  BY <1>2, <1>3

-----------------------------------------------------------------------------
(* How holders change when lists do. *)

LEMMA HoldersNat ==
    \A b \in Block : /\ Cardinality(ObjRefs(b)) \in Nat
                     /\ Cardinality(OwnRefs(b)) \in Nat
                     /\ Holders(b) \in Nat
BY HoldersAreRefs, RefsInFinite, BlockStoreAssumption DEF Holders

LEMMA HoldersNatPrime == \A b \in Block : Holders(b)' \in Nat
<1> SUFFICES ASSUME NEW b \in Block PROVE Holders(b)' \in Nat
  OBVIOUS
<1>1. OwnRefs(b)' = RefsIn(own', Proc, b) /\ ObjRefs(b)' = RefsIn(obj', Key, b)
  BY DEF OwnRefs, ObjRefs, RefsIn
<1> QED
  BY <1>1, RefsInFinite, BlockStoreAssumption DEF Holders

\* A request's list changes: accumulation, release, the end of a request.
LEMMA OwnChanges ==
    ASSUME TypeOK, TypeOK', NEW p \in Proc, NEW b \in Block,
           \A q \in Proc : q # p => own'[q] = own[q], ObjRefs(b)' = ObjRefs(b)
    PROVE  Holders(b)' + Occurrences(own[p], b) = Holders(b) + Occurrences(own'[p], b)
<1>1. OwnRefs(b)' = RefsIn(own', Proc, b)
  BY DEF OwnRefs, RefsIn
<1>2. OwnRefs(b) = RefsIn(own, Proc, b)
  BY HoldersAreRefs
<1>3. /\ own \in [Proc -> SUBSET Ref] /\ own[p] \in SUBSET Ref
      /\ own' \in [Proc -> SUBSET Ref] /\ own'[p] \in SUBSET Ref
  BY DEF TypeOK
<1>4. Cardinality(RefsIn(own', Proc, b)) + Occurrences(own[p], b)
      = Cardinality(RefsIn(own, Proc, b)) + Occurrences(own'[p], b)
  BY <1>3, CountUpdate, BlockStoreAssumption
<1>5. /\ Cardinality(RefsIn(own', Proc, b)) \in Nat
      /\ Occurrences(own[p], b) \in Nat /\ Occurrences(own'[p], b) \in Nat
  BY <1>3, RefsInFinite, OccurrencesNat, BlockStoreAssumption
<1> QED
  BY <1>1, <1>2, <1>4, <1>5, HoldersNat DEF Holders

\* An object record and a request's list change together: publish, take.
LEMMA BothChange ==
    ASSUME TypeOK, TypeOK', NEW p \in Proc, NEW k \in Key,
           \A q \in Proc : q # p => own'[q] = own[q],
           \A j \in Key : j # k => obj'[j] = obj[j], NEW b \in Block
    PROVE  Holders(b)' + Occurrences(own[p], b) + Occurrences(obj[k], b)
           = Holders(b) + Occurrences(own'[p], b) + Occurrences(obj'[k], b)
<1>1. OwnRefs(b)' = RefsIn(own', Proc, b) /\ ObjRefs(b)' = RefsIn(obj', Key, b)
  BY DEF OwnRefs, ObjRefs, RefsIn
<1>2. OwnRefs(b) = RefsIn(own, Proc, b) /\ ObjRefs(b) = RefsIn(obj, Key, b)
  BY HoldersAreRefs
<1>3. /\ own \in [Proc -> SUBSET Ref] /\ own[p] \in SUBSET Ref
      /\ own' \in [Proc -> SUBSET Ref] /\ own'[p] \in SUBSET Ref
      /\ obj \in [Key -> SUBSET Ref] /\ obj[k] \in SUBSET Ref
      /\ obj' \in [Key -> SUBSET Ref] /\ obj'[k] \in SUBSET Ref
  BY DEF TypeOK
<1>4. Cardinality(RefsIn(own', Proc, b)) + Occurrences(own[p], b)
      = Cardinality(RefsIn(own, Proc, b)) + Occurrences(own'[p], b)
  BY <1>3, CountUpdate, BlockStoreAssumption
<1>5. Cardinality(RefsIn(obj', Key, b)) + Occurrences(obj[k], b)
      = Cardinality(RefsIn(obj, Key, b)) + Occurrences(obj'[k], b)
  BY <1>3, CountUpdate, BlockStoreAssumption
<1>6. /\ Cardinality(RefsIn(own', Proc, b)) \in Nat /\ Cardinality(RefsIn(obj', Key, b)) \in Nat
      /\ Occurrences(own[p], b) \in Nat /\ Occurrences(obj[k], b) \in Nat
      /\ Occurrences(own'[p], b) \in Nat /\ Occurrences(obj'[k], b) \in Nat
  BY <1>3, RefsInFinite, OccurrencesNat, BlockStoreAssumption
<1> QED
  BY <1>1, <1>2, <1>4, <1>5, <1>6, HoldersNat DEF Holders

\* No list changes.
LEMMA NoneChange ==
    ASSUME UNCHANGED <<own, obj>>, NEW b \in Block
    PROVE  Holders(b)' = Holders(b)
BY DEF Holders, ObjRefs, OwnRefs

\* A request that ends gives up what it still owned.
LEMMA EndingOnlyLeaks ==
    ASSUME TypeOK, TypeOK', NEW p \in Proc, EndRequest(p), UNCHANGED obj, NEW b \in Block
    PROVE  Holders(b)' <= Holders(b)
<1>1. own' = [own EXCEPT ![p] = {}]
  BY DEF EndRequest
<1>2. own'[p] = {} /\ \A q \in Proc : q # p => own'[q] = own[q]
  BY <1>1 DEF TypeOK
<1>3. ObjRefs(b)' = ObjRefs(b)
  BY DEF ObjRefs
<1>4. Holders(b)' + Occurrences(own[p], b) = Holders(b) + Occurrences(own'[p], b)
  BY <1>2, <1>3, OwnChanges
<1>5. Occurrences(own'[p], b) = 0
  BY <1>2, OccurrencesEmpty DEF BlocksOf
<1>6. Occurrences(own[p], b) \in Nat /\ Holders(b) \in Nat /\ Holders(b)' \in Nat
  BY OccurrencesNat, HoldersNat, HoldersNatPrime DEF TypeOK
<1> QED
  BY <1>4, <1>5, <1>6

\* The batch's transaction adds one reference per occurrence, and only those.
LEMMA RecordedCounts ==
    ASSUME TypeOK, NEW p \in Proc, NEW b \in Block
    PROVE  Recorded(p)[b].rc = rec[b].rc + Occurrences(batch[p], b)
<1>1. rec[b] \in Record /\ rec[b].rc \in Nat /\ batch[p] \in SUBSET Ref
      /\ depth[p][b] \in Depth \cup {NoDepth}
  BY DEF TypeOK, Record
<1>2. CASE b \in BlocksOf(batch[p])
  <2>1. Occurrences(batch[p], b) \in Nat \ {0}
    BY <1>1, <1>2, OccurrencesType
  <2>2. Recorded(p)[b] = RecordEntry(rec[b], Occurrences(batch[p], b), depth[p][b])
    BY <1>2 DEF Recorded
  <2>3. RecordEntry(rec[b], Occurrences(batch[p], b), depth[p][b]).rc
        = rec[b].rc + Occurrences(batch[p], b)
    <3> DEFINE n == Occurrences(batch[p], b)
               d == depth[p][b]
    <3>1. RecordEntry(rec[b], n, d)
          = [rc |-> rec[b].rc + n, depth |-> IF HasLiveRecord(rec[b]) THEN rec[b].depth ELSE d,
             degraded |-> FALSE]
      BY <1>1, <2>1, RecordEntryIs
    <3> HIDE DEF n, d
    <3> QED
      BY <3>1 DEF n, d
  <2> QED
    BY <2>2, <2>3
<1>3. CASE b \notin BlocksOf(batch[p])
  <2>1. Occurrences(batch[p], b) = 0
    BY <1>3, OccurrencesEmpty
  <2>2. Recorded(p)[b] = rec[b]
    BY <1>3 DEF Recorded
  <2> QED
    BY <1>1, <2>1, <2>2
<1> QED
  BY <1>2, <1>3

\* One reference leaves a request's list and its block loses at most one count.
LEMMA Dropping ==
    ASSUME TypeOK, TypeOK', NEW p \in Proc, NEW x \in own[p], NEW b \in Block,
           own' = [own EXCEPT ![p] = own[p] \ {x}], UNCHANGED obj,
           rec' = rec \/ rec' = [rec EXCEPT ![x[2]] = DecrementBlockRc(rec[x[2]])],
           Holders(b) <= rec[b].rc
    PROVE  Holders(b)' <= rec'[b].rc
<1> DEFINE H == Holders(b)
           G == Holders(b)'
           O(refs) == Occurrences(refs, b)
<1>1. own'[p] = own[p] \ {x} /\ \A q \in Proc : q # p => own'[q] = own[q]
  BY DEF TypeOK
<1>2. ObjRefs(b)' = ObjRefs(b)
  BY DEF ObjRefs
<1>3. G + O(own[p]) = H + O(own'[p])
  BY <1>1, <1>2, OwnChanges
<1>4. own[p] \in SUBSET Ref /\ x \in Ref /\ x[2] \in Block /\ rec[x[2]] \in Record
  BY DEF TypeOK, Ref
<1>5. O(own[p]) = O(own'[p]) + (IF x[2] = b THEN 1 ELSE 0)
  BY <1>1, <1>4, OccurrencesRemove
<1>6. O(own[p]) \in Nat /\ O(own'[p]) \in Nat /\ H \in Nat /\ G \in Nat
  BY OccurrencesNat, HoldersNat, HoldersNatPrime DEF TypeOK
<1>7. G = IF x[2] = b THEN H - 1 ELSE H
  <2> HIDE DEF H, G, O
  <2> QED
    BY <1>3, <1>5, <1>6
<1>8. rec[b].rc \in Nat
  BY DEF TypeOK, Record
<1>9. CASE rec' = rec
  BY <1>6, <1>7, <1>8, <1>9
<1>10. CASE rec' = [rec EXCEPT ![x[2]] = DecrementBlockRc(rec[x[2]])]
  <2>1. rec'[b] = IF b = x[2] THEN DecrementBlockRc(rec[b]) ELSE rec[b]
    BY <1>4, <1>10 DEF TypeOK
  <2>2. DecrementBlockRc(rec[b]).rc = IF rec[b].rc = 0 THEN 0 ELSE rec[b].rc - 1
    <3>1. rec[b] \in Record
      BY DEF TypeOK
    <3>2. CASE rec[b].rc = 0
      BY <3>1, <3>2, DecrementFacts
    <3>3. CASE rec[b].rc > 0
      BY <3>1, <3>3, DecrementFacts
    <3> QED
      BY <1>8, <3>2, <3>3
  <2> QED
    BY <1>6, <1>7, <1>8, <2>1, <2>2
<1> QED
  BY <1>9, <1>10

\* One reference joins a request's list and its block gains one count.
LEMMA Adding ==
    ASSUME TypeOK, TypeOK', NEW p \in Proc, NEW x \in batch[p], NEW b \in Block,
           own' = [own EXCEPT ![p] = own[p] \cup {x}], UNCHANGED obj,
           rec' = [rec EXCEPT ![x[2]] = Bump(rec[x[2]])],
           Holders(b) <= rec[b].rc
    PROVE  Holders(b)' <= rec'[b].rc
<1> DEFINE H == Holders(b)
           G == Holders(b)'
           O(refs) == Occurrences(refs, b)
<1>1. own'[p] = own[p] \cup {x} /\ \A q \in Proc : q # p => own'[q] = own[q]
  BY DEF TypeOK
<1>2. ObjRefs(b)' = ObjRefs(b)
  BY DEF ObjRefs
<1>3. G + O(own[p]) = H + O(own'[p])
  BY <1>1, <1>2, OwnChanges
<1>4. own[p] \in SUBSET Ref /\ x \in Ref /\ x[2] \in Block /\ rec[x[2]] \in Record
  BY DEF TypeOK, Ref
<1>5. O(own'[p]) <= O(own[p]) + (IF x[2] = b THEN 1 ELSE 0)
  BY <1>1, <1>4, OccurrencesAdd
<1>6. O(own[p]) \in Nat /\ O(own'[p]) \in Nat /\ H \in Nat /\ G \in Nat
  BY OccurrencesNat, HoldersNat, HoldersNatPrime DEF TypeOK
<1>7. G <= IF x[2] = b THEN H + 1 ELSE H
  <2> HIDE DEF H, G, O
  <2> QED
    BY <1>3, <1>5, <1>6
<1>8. rec[b].rc \in Nat
  BY DEF TypeOK, Record
<1>9. rec'[b] = IF b = x[2] THEN Bump(rec[b]) ELSE rec[b]
  BY <1>4 DEF TypeOK
<1>10. Bump(rec[b]).rc = rec[b].rc + 1
  BY BumpFacts DEF TypeOK
<1> QED
  BY <1>6, <1>7, <1>8, <1>9, <1>10

LEMMA CountInit == Init => NeverUndercounts
<1> SUFFICES ASSUME Init, NEW b \in Block PROVE Holders(b) <= rec[b].rc
  BY DEF NeverUndercounts
<1>1. ObjRefs(b) = {} /\ OwnRefs(b) = {}
  BY DEF Init, ObjRefs, OwnRefs
<1>2. Holders(b) = 0
  BY <1>1, FS_EmptySet DEF Holders
<1> QED
  BY <1>2 DEF Init, NoRecord

\* No step leaves a block with more holders than its refcount.
LEMMA CountNext ==
    TypeOK /\ KeyKnown /\ TypeOK' /\ NeverUndercounts /\ [Next]_vars => NeverUndercounts'
<1> SUFFICES ASSUME TypeOK, KeyKnown, TypeOK', NeverUndercounts, [Next]_vars, NEW b \in Block
             PROVE  Holders(b)' <= rec'[b].rc
  BY DEF NeverUndercounts
<1> DEFINE H == Holders(b)
           G == Holders(b)'
           O(refs) == Occurrences(refs, b)
<1>n. H <= rec[b].rc /\ H \in Nat /\ G \in Nat /\ rec[b].rc \in Nat
  BY HoldersNat, HoldersNatPrime DEF NeverUndercounts, TypeOK, Record
<1>o. \A p \in Proc : O(own[p]) \in Nat /\ O(batch[p]) \in Nat /\ O(own'[p]) \in Nat
  BY OccurrencesNat DEF TypeOK
<1>k. \A k \in Key : O(obj[k]) \in Nat /\ O(obj'[k]) \in Nat
  BY OccurrencesNat DEF TypeOK
<1>e. O({}) = 0
  BY OccurrencesEmpty DEF BlocksOf
<1>q. CASE rec' = rec /\ UNCHANGED <<own, obj>>
  BY <1>q, <1>n, NoneChange
<1>l. ASSUME rec'[b].rc >= rec[b].rc, rec'[b].rc \in Nat, NEW p \in Proc, EndRequest(p), UNCHANGED obj
      PROVE  Holders(b)' <= rec'[b].rc
  <2>1. G <= H
    BY <1>l, EndingOnlyLeaks
  <2> QED
    BY <1>l, <2>1, <1>n
<1>r. rec'[b].rc \in Nat
  BY DEF TypeOK, Record
<1>1. ASSUME NEW p \in Proc, Step(p)
      PROVE  Holders(b)' <= rec'[b].rc
  <2>1. CASE LockBatch(p)
    BY <2>1, <1>q DEF LockBatch
  <2>2. ASSUME NEW c \in Block, LandBlock(p, c) PROVE Holders(b)' <= rec'[b].rc
    BY <2>2, <1>q DEF LandBlock
  <2>3. CASE CommitBatch(p)
    <3>1. own' = [own EXCEPT ![p] = own[p] \cup batch[p]] /\ UNCHANGED obj /\ rec' = Recorded(p)
      BY <2>3 DEF CommitBatch
    <3>2. own'[p] = own[p] \cup batch[p] /\ \A q \in Proc : q # p => own'[q] = own[q]
      BY <3>1 DEF TypeOK
    <3>3. ObjRefs(b)' = ObjRefs(b)
      BY <3>1 DEF ObjRefs
    <3>4. G + O(own[p]) = H + O(own'[p])
      BY <3>2, <3>3, OwnChanges
    <3>5. O(own[p] \cup batch[p]) <= O(own[p]) + O(batch[p])
      BY OccurrencesUnion DEF TypeOK
    <3>6. rec'[b].rc = rec[b].rc + O(batch[p])
      BY <3>1, RecordedCounts
    <3>7. O(own'[p]) <= O(own[p]) + O(batch[p])
      BY <3>2, <3>5
    <3> HIDE DEF H, G, O
    <3> QED
      BY <3>4, <3>6, <3>7, <1>n, <1>o DEF G
  <2>4. CASE CreateObjectMeta(p)
    <3>1. key[p] \in Key
      BY <2>4 DEF CreateObjectMeta, KeyKnown, Building
    <3>2. obj' = [obj EXCEPT ![key[p]] = own[p]] /\ own' = [own EXCEPT ![p] = obj[key[p]]]
          /\ rec' = rec
      BY <2>4 DEF CreateObjectMeta
    <3>3. /\ own'[p] = obj[key[p]] /\ \A q \in Proc : q # p => own'[q] = own[q]
          /\ obj'[key[p]] = own[p] /\ \A k \in Key : k # key[p] => obj'[k] = obj[k]
      BY <3>1, <3>2 DEF TypeOK
    <3>4. G + O(own[p]) + O(obj[key[p]]) = H + O(own'[p]) + O(obj'[key[p]])
      BY <3>1, <3>3, BothChange
    <3>5. G + O(own[p]) + O(obj[key[p]]) = H + O(obj[key[p]]) + O(own[p])
      BY <3>3, <3>4
    <3> HIDE DEF H, G, O
    <3> QED
      BY <3>1, <3>2, <3>5, <1>n, <1>o, <1>k DEF G
  <2>5. CASE LockRelease(p)
    BY <2>5, <1>q DEF LockRelease
  <2>6. CASE DecrementOneBlock(p)
    <3>1. PICK x \in own[p] : /\ rec' = [rec EXCEPT ![x[2]] = DecrementBlockRc(rec[x[2]])]
                              /\ own' = [own EXCEPT ![p] = own[p] \ {x}]
      BY <2>6 DEF DecrementOneBlock
    <3>2. UNCHANGED obj
      BY <2>6 DEF DecrementOneBlock
    <3> QED
      BY <3>1, <3>2, Dropping, <1>n, <1>r DEF NeverUndercounts
  <2>7. CASE UnlinkBlock(p)
    BY <2>7, <1>q DEF UnlinkBlock
  <2>8. CASE Respond(p)
    <3>1. EndRequest(p) /\ UNCHANGED obj /\ rec' = rec
      BY <2>8 DEF Respond, shared
    <3> QED
      BY <3>1, <1>l, <1>n
  <2>9. CASE LockAcquire(p)
    BY <2>9, <1>q DEF LockAcquire
  <2>10. CASE AcquireReference(p)
    <3>1. PICK x \in batch[p] :
            \/ /\ rec' = [rec EXCEPT ![x[2]] = Bump(rec[x[2]])]
               /\ own' = [own EXCEPT ![p] = own[p] \cup {x}]
            \/ UNCHANGED <<rec, own>>
      BY <2>10 DEF AcquireReference
    <3>2. UNCHANGED obj
      BY <2>10 DEF AcquireReference
    <3>3. CASE UNCHANGED <<rec, own>>
      BY <3>2, <3>3, <1>q
    <3>4. CASE /\ rec' = [rec EXCEPT ![x[2]] = Bump(rec[x[2]])]
               /\ own' = [own EXCEPT ![p] = own[p] \cup {x}]
      BY <3>2, <3>4, Adding, <1>n DEF NeverUndercounts
    <3> QED
      BY <3>1, <3>3, <3>4
  <2> QED
    BY <1>1, <2>1, <2>2, <2>3, <2>4, <2>5, <2>6, <2>7, <2>8, <2>9, <2>10 DEF Step
<1>2. ASSUME NEW p \in Proc, Client(p)
      PROVE  Holders(b)' <= rec'[b].rc
  <2>1. ASSUME NEW k \in Key, StartPut(p, k) PROVE Holders(b)' <= rec'[b].rc
    BY <2>1, <1>q DEF StartPut, shared
  <2>2. ASSUME NEW k \in Key, DeleteObject(p, k) PROVE Holders(b)' <= rec'[b].rc
    <3>1. /\ obj' = [obj EXCEPT ![k] = {}] /\ own' = [own EXCEPT ![p] = obj[k]]
          /\ rec' = rec
      BY <2>2 DEF DeleteObject
    <3>2. /\ own'[p] = obj[k] /\ \A q \in Proc : q # p => own'[q] = own[q]
          /\ obj'[k] = {} /\ \A l \in Key : l # k => obj'[l] = obj[l]
      BY <3>1 DEF TypeOK
    <3>3. G + O(own[p]) + O(obj[k]) = H + O(own'[p]) + O(obj'[k])
      BY <3>2, BothChange
    <3>4. G + O(own[p]) + O(obj[k]) = H + O(obj[k]) + 0
      BY <3>2, <3>3, <1>e
    <3> HIDE DEF H, G, O
    <3> QED
      BY <3>1, <3>4, <1>n, <1>o, <1>k DEF G
  <2>3. ASSUME NEW c \in Block, Accumulate(p, c) PROVE Holders(b)' <= rec'[b].rc
    BY <2>3, <1>q DEF Accumulate, shared
  <2>4. CASE EndStream(p)
    BY <2>4, <1>q DEF EndStream, shared
  <2>5. ASSUME NEW src \in Key, NEW dst \in Key, StartClone(p, src, dst)
        PROVE  Holders(b)' <= rec'[b].rc
    BY <2>5, <1>q DEF StartClone, shared
  <2> QED
    BY <1>2, <2>1, <2>2, <2>3, <2>4, <2>5 DEF Client
<1>3. ASSUME NEW p \in Proc, Failure(p)
      PROVE  Holders(b)' <= rec'[b].rc
  <2>1. CASE CommitBatchFails(p)
    <3>1. EndRequest(p) /\ UNCHANGED obj /\ (rec' = rec \/ rec' = Recorded(p))
      BY <2>1 DEF CommitBatchFails
    <3>2. rec'[b].rc >= rec[b].rc
      <4>1. CASE rec' = rec
        BY <4>1, <1>n
      <4>2. CASE rec' = Recorded(p)
        <5>1. rec'[b].rc = rec[b].rc + O(batch[p])
          BY <4>2, RecordedCounts
        <5> HIDE DEF O
        <5> QED
          BY <5>1, <1>o, <1>n
      <4> QED
        BY <3>1, <4>1, <4>2
    <3> QED
      BY <3>1, <3>2, <1>l, <1>r
  <2>2. CASE CreateObjectMetaFails(p)
    <3>1. key[p] \in Key
      BY <2>2 DEF CreateObjectMetaFails, KeyKnown, Building
    <3>2. (obj' = obj \/ obj' = [obj EXCEPT ![key[p]] = own[p]]) /\ EndRequest(p) /\ rec' = rec
      BY <2>2 DEF CreateObjectMetaFails
    <3>3. CASE obj' = obj
      BY <3>2, <3>3, <1>l, <1>n
    <3>4. CASE obj' = [obj EXCEPT ![key[p]] = own[p]]
      <4>1. own' = [own EXCEPT ![p] = {}]
        BY <3>2 DEF EndRequest
      <4>2. /\ own'[p] = {} /\ \A q \in Proc : q # p => own'[q] = own[q]
            /\ obj'[key[p]] = own[p] /\ \A k \in Key : k # key[p] => obj'[k] = obj[k]
        BY <3>1, <3>4, <4>1 DEF TypeOK
      <4>3. G + O(own[p]) + O(obj[key[p]]) = H + O(own'[p]) + O(obj'[key[p]])
        BY <3>1, <4>2, BothChange
      <4>4. G + O(own[p]) + O(obj[key[p]]) = H + 0 + O(own[p])
        BY <4>2, <4>3, <1>e
      <4> HIDE DEF H, G, O
      <4> QED
        BY <3>1, <3>2, <4>4, <1>n, <1>o, <1>k DEF G
    <3> QED
      BY <3>2, <3>3, <3>4
  <2>3. ASSUME NEW k \in Key, DeleteObjectFails(p, k) PROVE Holders(b)' <= rec'[b].rc
    <3>1. obj' = [obj EXCEPT ![k] = {}] /\ own' = own /\ rec' = rec
      BY <2>3 DEF DeleteObjectFails, local
    <3>2. obj'[k] = {} /\ \A l \in Key : l # k => obj'[l] = obj[l]
      BY <3>1 DEF TypeOK
    <3>3. G + O(own[p]) + O(obj[k]) = H + O(own'[p]) + O(obj'[k])
      BY <3>1, <3>2, BothChange
    <3>4. G + O(own[p]) + O(obj[k]) = H + O(own[p]) + 0
      BY <3>1, <3>2, <3>3, <1>e
    <3> HIDE DEF H, G, O
    <3> QED
      BY <3>1, <3>4, <1>n, <1>o, <1>k DEF G
  <2>4. CASE DecrementFails(p)
    <3>1. PICK x \in own[p] :
            /\ rec' = rec \/ rec' = [rec EXCEPT ![x[2]] = DecrementBlockRc(rec[x[2]])]
            /\ own' = [own EXCEPT ![p] = own[p] \ {x}]
      BY <2>4 DEF DecrementFails
    <3>2. UNCHANGED obj
      BY <2>4 DEF DecrementFails
    <3> QED
      BY <3>1, <3>2, Dropping, <1>n, <1>r DEF NeverUndercounts
  <2>5. CASE AcquireFails(p)
    <3>1. EndRequest(p) /\ UNCHANGED obj
      BY <2>5 DEF AcquireFails
    <3>2. PICK x \in batch[p] :
            rec' = rec \/ rec' = [rec EXCEPT ![x[2]] = Bump(rec[x[2]])]
      BY <2>5 DEF AcquireFails
    <3>3. rec'[b].rc >= rec[b].rc
      <4>1. CASE rec' = rec
        BY <4>1, <1>n
      <4>2. CASE rec' = [rec EXCEPT ![x[2]] = Bump(rec[x[2]])]
        <5>1. x[2] \in Block /\ Bump(rec[x[2]]).rc = rec[x[2]].rc + 1
          BY BumpFacts DEF TypeOK, Ref
        <5>2. rec'[b] = IF b = x[2] THEN Bump(rec[x[2]]) ELSE rec[b]
          BY <4>2 DEF TypeOK
        <5> QED
          BY <5>1, <5>2, <1>n
      <4> QED
        BY <3>2, <4>1, <4>2
    <3> QED
      BY <3>1, <3>3, <1>l, <1>r
  <2>6. CASE RequestFails(p)
    <3>1. EndRequest(p) /\ UNCHANGED obj /\ rec' = rec
      BY <2>6 DEF RequestFails
    <3> QED
      BY <3>1, <1>l, <1>n
  <2> QED
    BY <1>3, <2>1, <2>2, <2>3, <2>4, <2>5, <2>6 DEF Failure
<1>4. CASE Crash
  <2>1. own' = [p \in Proc |-> {}] /\ UNCHANGED obj /\ rec' = rec
    BY <1>4 DEF Crash
  <2>2. OwnRefs(b)' = {} /\ ObjRefs(b)' = ObjRefs(b)
    BY <2>1 DEF OwnRefs, ObjRefs
  <2>3. Cardinality(ObjRefs(b)) \in Nat /\ Cardinality(OwnRefs(b)) \in Nat
    BY HoldersAreRefs, RefsInFinite, BlockStoreAssumption
  <2>4. G = Cardinality(ObjRefs(b))
    BY <2>2, <2>3, FS_EmptySet DEF Holders
  <2> QED
    BY <2>1, <2>3, <2>4, <1>n DEF Holders
<1>5. ASSUME NEW c \in Block, MarkDegraded(c) PROVE Holders(b)' <= rec'[b].rc
  <2>1. UNCHANGED <<own, obj>> /\ rec' = [rec EXCEPT ![c].degraded = TRUE]
    BY <1>5 DEF MarkDegraded, local
  <2>2. rec'[b].rc = rec[b].rc
    BY <2>1 DEF TypeOK, Record
  <2> QED
    BY <2>1, <2>2, <1>n, NoneChange
<1>6. CASE UNCHANGED vars
  BY <1>6, <1>q DEF vars
<1> QED
  BY <1>1, <1>2, <1>3, <1>4, <1>5, <1>6 DEF Next

\* The refcount of a block never falls below the references held to it by object
\* records and by requests in flight, for any number of requests, keys, blocks and
\* faults and any stripe map: cas-storage may leak references, never lose one.
THEOREM CountsHold == Spec => []NeverUndercounts
<1>1. TypeOK /\ KeyKnown /\ NeverUndercounts /\ [Next]_vars
      => (TypeOK /\ KeyKnown /\ NeverUndercounts)'
  BY TypeNext, KeyNext, CountNext
<1>2. Init => TypeOK /\ KeyKnown /\ NeverUndercounts
  BY TypeInit, KeyInit, CountInit
<1> QED
  BY <1>1, <1>2, PTL DEF Spec
=============================================================================
