---------------------------- MODULE StoreOpening ----------------------------
\* How a process opens a store: SharedBlockStore::new and pair_the_roots
\* (cas/shared_block_store.rs), AtomicBlockWriter::open and the blocks root's
\* marker (cas/block_disk.rs, cas/block_disk/store_id.rs),
\* MetaStore::open_or_create (metastore/meta_store/ops.rs), the header record and
\* its sidecar (metastore/store_header), the constructors over them (CasFS in
\* cas/fs.rs, Storage::new in respcas), the guard of the offline tools, and
\* fsck's --re-pair (scrub/pairing.rs).
\*
\* A store is two halves that may sit on two disks: the databases under a meta
\* root (Db) and the block files under a data root (Root). Nothing but the ids
\* they carry says which belong together, and an operator may name any two. A
\* database directory is locked by fjall; a data root is locked by nobody.
EXTENDS Naturals, FiniteSets

CONSTANTS
    Proc,        \* processes: daemons, offline tools, fsck --re-pair
    Db,          \* meta roots, each with a blocks and a namespace database
    Root,        \* blocks roots
    Invocations, \* the <<kind, meta root, blocks root>> an operator may start
    Damaged,     \* the blocks roots whose marker file is not an id
    Missing,     \* the blocks roots that are not there yet
    Stores,      \* initial state of the blocks database of each meta root
    MaxOpens,    \* processes started altogether
    MaxCrashes,  \* processes killed
    NoProc,      \* nobody holds a lock
    Legacy,      \* a blocks database at its old place and none at .db
    Absent,      \* no file, or an empty database directory
    Bare,        \* fjall's files without a header record
    NoId,        \* a header without an id, from before ids
    Junk,        \* a marker that does not parse
    NoRoot,      \* in place of a marker: there is no such directory
    Residue      \* a block left in .tmp by a killed process

ASSUME OpeningAssumption ==
    /\ MaxOpens \in Nat
    /\ MaxCrashes \in Nat
    /\ NoProc \notin Proc
    /\ Damaged \subseteq Root /\ Missing \subseteq Root \ Damaged
    /\ Invocations \subseteq {"s3", "resp", "tool", "repair"} \X Db \X Root

\* StoreId: minted ids are numbers; an id stands for the whole header record it
\* was written in (hash, width, creation time), since one insert writes them all.
Id == 1..MaxOpens

\* What a database directory holds is Legacy, Absent, Bare or a header. NoId also
\* stands for the header of a namespace database, whose id nothing compares.
Header == {NoId} \cup Id
Half == {"blocks", "ns"}

\* A file in .tmp is a process (the block it is writing), Residue, or an id: the
\* contents of the marker's temp file, which every process names alike because its
\* nonce starts at 0.

VARIABLES
    hdr,       \* [Db -> [Half -> directory contents]]
    side,      \* [Db -> Absent, or the header the blocks database's sidecar copies]
    marker,    \* [Root -> NoRoot, Absent, Junk or an id]
    temps,     \* [Root -> files in .tmp]
    lock,      \* [Db -> [Half -> Proc or NoProc]] fjall's directory lock
    proc,      \* [Proc -> what the process is doing]
    minted,    \* ids minted so far
    opens,     \* processes started so far
    crashes,   \* processes killed so far
    met,       \* the <<meta root, blocks root>> ever named together
    served,    \* the <<meta root, blocks root>> ever served together
    copied,    \* meta roots that took their id from a marker
    recreated, \* <<meta root, half>> created over an existing header
    replaced   \* blocks roots whose marker went from one id to another

vars == <<hdr, side, marker, temps, lock, proc, minted, opens, crashes, met, served,
          copied, recreated, replaced>>

history == <<minted, met, served, copied, recreated, replaced>>

Idle == [at |-> "idle"]

\* A process that has just been started.
Fresh(kind, d, r) ==
    [at     |-> CASE kind = "tool" -> "exists" [] kind = "repair" -> "inspect"
                  [] kind = "s3" -> "legacy" [] kind = "resp" -> "classify",
     kind   |-> kind, db |-> d, root |-> r,
     half   |-> IF kind = "resp" THEN "ns" ELSE "blocks",
     create |-> FALSE,      \* StoreInit
     listed |-> {},         \* .tmp as list_dir saw it
     seen   |-> Absent,     \* store_id_marker, as read at open
     id     |-> NoId,       \* the header's store id
     why    |-> "none",     \* what a refused process answered
     old    |-> \E m \in served : m[1] = d] \* the databases were served before

Init ==
    /\ hdr = [d \in Db |-> [h \in Half |->
                 IF h = "ns" /\ Stores[d] # Absent THEN NoId ELSE Stores[d]]]
    /\ side = [d \in Db |-> IF Stores[d] = Absent THEN Absent ELSE NoId]
    /\ marker = [r \in Root |-> IF r \in Damaged THEN Junk ELSE
                                IF r \in Missing THEN NoRoot ELSE Absent]
    /\ temps = [r \in Root |-> {}]
    /\ lock = [d \in Db |-> [h \in Half |-> NoProc]]
    /\ proc = [p \in Proc |-> Idle]
    /\ minted = 0 /\ opens = 0 /\ crashes = 0
    /\ met = {} /\ served = {} /\ copied = {} /\ recreated = {} /\ replaced = {}

-----------------------------------------------------------------------------
At(p, at) == proc[p].at = at

Become(p, me) == proc' = [proc EXCEPT ![p] = me]

Go(p, at) == Become(p, [proc[p] EXCEPT !.at = at])

\* Dropping a store closes its databases.
Unlock(p) == lock' = [d \in Db |-> [h \in Half |->
                         IF lock[d][h] = p THEN NoProc ELSE lock[d][h]]]

\* The process returns an error and exits; what it locked is dropped with it.
Refuse(p, why) ==
    /\ Become(p, [proc[p] EXCEPT !.at = "refused", !.why = why])
    /\ Unlock(p)

\* A process is started on the two roots its command line names.
Start(p, kind, d, r) ==
    /\ At(p, "idle") /\ opens < MaxOpens
    /\ Become(p, Fresh(kind, d, r))
    /\ opens' = opens + 1
    /\ met' = met \cup {<<d, r>>}
    /\ UNCHANGED <<hdr, side, marker, temps, lock, minted, crashes, served, copied,
                   recreated, replaced>>

\* A process that stopped serving, or that was refused, exits.
Exit(p) ==
    /\ At(p, "refused") \/ At(p, "serve")
    /\ Become(p, Idle)
    /\ Unlock(p)
    /\ UNCHANGED <<hdr, side, marker, temps, opens, crashes, history>>

\* A process is killed. Its locks go, the block it was writing stays in .tmp.
Crash(p) ==
    /\ ~At(p, "idle") /\ ~At(p, "refused") /\ crashes < MaxCrashes
    /\ crashes' = crashes + 1
    /\ Become(p, Idle)
    /\ Unlock(p)
    /\ temps' = [r \in Root |-> IF p \in temps[r] THEN (temps[r] \ {p}) \cup {Residue}
                                                  ELSE temps[r]]
    /\ UNCHANGED <<hdr, side, marker, opens, history>>

\* refuse_unless_store_exists: a tool will not create either database.
Exists(p) ==
    /\ At(p, "exists")
    /\ IF \E h \in Half : hdr[proc[p].db][h] \in {Absent, Legacy}
       THEN Refuse(p, "no store")
       ELSE Go(p, "legacy") /\ UNCHANGED lock
    /\ UNCHANGED <<hdr, side, marker, temps, opens, crashes, history>>

\* SharedBlockStore::new refuses a blocks database at its old place.
RefuseLegacy(p) ==
    /\ At(p, "legacy") /\ hdr[proc[p].db]["blocks"] = Legacy
    /\ Refuse(p, "legacy")
    /\ UNCHANGED <<hdr, side, marker, temps, opens, crashes, history>>

\* AtomicBlockWriter::open creates the blocks root and .tmp, and lists .tmp.
ListTemps(p) ==
    LET r == proc[p].root
    IN /\ At(p, "legacy") /\ hdr[proc[p].db]["blocks"] # Legacy
       /\ marker' = [marker EXCEPT ![r] = IF @ = NoRoot THEN Absent ELSE @]
       /\ Become(p, [proc[p] EXCEPT !.at = "purge", !.listed = temps[r]])
       /\ UNCHANGED <<hdr, side, temps, lock, opens, crashes, history>>

\* The purge removes every file that was listed; one that is gone by then is an
\* error of the open, with some of the others removed.
PurgeTemps(p) ==
    LET r == proc[p].root
        listed == proc[p].listed
    IN /\ At(p, "purge")
       /\ IF listed \subseteq temps[r]
          THEN /\ temps' = [temps EXCEPT ![r] = @ \ listed]
               /\ Become(p, [proc[p] EXCEPT !.at = "marker", !.listed = {}])
               /\ UNCHANGED lock
          ELSE /\ \E gone \in SUBSET (listed \cap temps[r]) :
                     temps' = [temps EXCEPT ![r] = @ \ gone]
               /\ Refuse(p, "io")
       /\ UNCHANGED <<hdr, side, marker, opens, crashes, history>>

\* read_store_id_marker at the end of AtomicBlockWriter::open.
ReadMarker(p) ==
    /\ At(p, "marker")
    /\ Become(p, [proc[p] EXCEPT !.at = "classify", !.seen = marker[proc[p].root]])
    /\ UNCHANGED <<hdr, side, marker, temps, lock, opens, crashes, history>>

\* classify_db_dir, before fjall touches the directory.
Classify(p) ==
    /\ At(p, "classify")
    /\ Become(p, [proc[p] EXCEPT !.at = "build",
                                 !.create = hdr[proc[p].db][proc[p].half] = Absent])
    /\ UNCHANGED <<hdr, side, marker, temps, lock, opens, crashes, history>>

\* FjallStore::new takes the directory's lock, or answers StoreLocked, and creates
\* fjall's own files.
Build(p) ==
    LET d == proc[p].db
        h == proc[p].half
    IN /\ At(p, "build")
       /\ IF lock[d][h] # NoProc
          THEN Refuse(p, "locked") /\ UNCHANGED hdr
          ELSE /\ lock' = [lock EXCEPT ![d][h] = p]
               /\ hdr' = [hdr EXCEPT ![d][h] = IF @ = Absent THEN Bare ELSE @]
               /\ Go(p, "header")
       /\ UNCHANGED <<side, marker, temps, opens, crashes, history>>

\* What follows the header of the database just opened: the pairing of the blocks
\* database, then the next database or service. CasFS::single_namespace opens the
\* blocks database first, respcas the namespace database.
AfterHeader(p) == IF proc[p].half = "blocks" THEN "pair" ELSE
                  IF proc[p].kind = "resp" THEN "legacy" ELSE "serve"

\* Reaching the end of one database's open.
Proceed(p, me, at) ==
    LET next == CASE at = "paired" /\ me.kind = "resp" -> [me EXCEPT !.at = "serve"]
                  [] at = "paired" -> [me EXCEPT !.at = "classify", !.half = "ns"]
                  [] at = "legacy" -> [me EXCEPT !.at = "legacy", !.half = "blocks"]
                  [] OTHER -> [me EXCEPT !.at = at]
    IN /\ Become(p, next)
       /\ served' = IF next.at = "serve" THEN served \cup {<<next.db, next.root>>} ELSE served

\* open_or_create with the directory's lock held: a directory that was empty when
\* it was classified gets a new header, the first write of the store; any other
\* must have one.
ReadOrWriteHeader(p) ==
    LET d == proc[p].db
        h == proc[p].half
        new == IF h = "blocks" THEN minted + 1 ELSE NoId
    IN /\ At(p, "header")
       /\ \/ /\ proc[p].create
             /\ hdr' = [hdr EXCEPT ![d][h] = new]
             /\ minted' = IF h = "blocks" THEN new ELSE minted
             /\ recreated' = IF hdr[d][h] \in Header THEN recreated \cup {<<d, h>>} ELSE recreated
             /\ Become(p, [proc[p] EXCEPT !.at = "sidecar", !.id = new])
             /\ UNCHANGED <<lock, served>>
          \/ /\ ~proc[p].create /\ hdr[d][h] \in Header
             /\ Proceed(p, [proc[p] EXCEPT !.id = hdr[d][h]], AfterHeader(p))
             /\ UNCHANGED <<hdr, minted, recreated, lock>>
          \/ /\ ~proc[p].create /\ hdr[d][h] \notin Header
             /\ Refuse(p, "missing")
             /\ UNCHANGED <<hdr, minted, recreated, served>>
       /\ UNCHANGED <<side, marker, temps, opens, crashes, met, copied, replaced>>

\* write_sidecar: a plain write of a second copy, whose failure is only logged. The
\* sidecar of a namespace database names an id nothing compares.
PutSidecar(p) ==
    IF proc[p].half = "ns" THEN side' = side
    ELSE \E now \in {side[proc[p].db], proc[p].id} : side' = [side EXCEPT ![proc[p].db] = now]

WriteSidecar(p) ==
    /\ At(p, "sidecar")
    /\ PutSidecar(p)
    /\ Proceed(p, proc[p], AfterHeader(p))
    /\ UNCHANGED <<hdr, marker, temps, lock, opens, crashes, minted, met, copied,
                   recreated, replaced>>

\* Verdict, were a root without a marker refused as another store's.
VerdictAbsentIsOther(id, seen) ==
    CASE id \in Id /\ seen = id  -> "paired"
      [] id \in Id /\ seen # id  -> "refuse"
      [] id = NoId /\ seen \in Id -> "take"
      [] OTHER -> "mint"

\* Verdict, were a mismatch not looked for.
VerdictUnchecked(id, seen) ==
    CASE id \in Id /\ seen \in Id -> "paired"
      [] id \in Id /\ seen \notin Id -> "mark"
      [] id = NoId /\ seen \in Id -> "take"
      [] OTHER -> "mint"

\* Verdict, were a half-adopted store adopted again.
VerdictMintsAgain(id, seen) ==
    CASE id \in Id /\ seen = id -> "paired"
      [] id \in Id /\ seen \in Id /\ seen # id -> "refuse"
      [] id = NoId /\ seen \in Id -> "take"
      [] OTHER -> "mint"

\* pair_the_roots: what the header's id and the marker, as it was read when the
\* blocks root was opened, have to say to each other.
Verdict(id, seen) ==
    CASE id \in Id /\ seen = id                      -> "paired"
      [] id \in Id /\ seen \in Id /\ seen # id       -> "refuse"
      [] id \in Id /\ seen \notin Id                 -> "mark"
      [] id = NoId /\ seen \in Id                    -> "take"
      [] id = NoId /\ seen \notin Id                 -> "mint"

\* The verdict's first step: nothing, a refusal, the marker, or an adoption.
PairTheRoots(p) ==
    LET verdict == Verdict(proc[p].id, proc[p].seen)
        new == IF verdict = "mint" THEN minted + 1 ELSE proc[p].seen
    IN /\ At(p, "pair")
       /\ \/ verdict = "paired" /\ Proceed(p, proc[p], "paired") /\ UNCHANGED <<lock, minted>>
          \/ verdict = "refuse" /\ Refuse(p, "pairing") /\ UNCHANGED <<served, minted>>
          \/ verdict = "mark" /\ Go(p, "temp") /\ UNCHANGED <<lock, served, minted>>
          \/ /\ verdict \in {"take", "mint"}
             /\ Become(p, [proc[p] EXCEPT !.at = "adopt", !.id = new])
             /\ minted' = IF verdict = "mint" THEN new ELSE minted
             /\ UNCHANGED <<lock, served>>
       /\ UNCHANGED <<hdr, side, marker, temps, opens, crashes, met, copied, recreated,
                      replaced>>

\* adopt_store_id: the header side of an adoption, which comes first.
AdoptHeader(p) ==
    LET d == proc[p].db
    IN /\ At(p, "adopt")
       /\ hdr' = [hdr EXCEPT ![d]["blocks"] = proc[p].id]
       /\ copied' = IF proc[p].seen = proc[p].id THEN copied \cup {d} ELSE copied
       /\ Go(p, "adoptside")
       /\ UNCHANGED <<side, marker, temps, lock, opens, crashes, minted, met, served,
                      recreated, replaced>>

\* The sidecar of an adopted header; then the marker, unless the id came from it.
AdoptSidecar(p) ==
    /\ At(p, "adoptside")
    /\ PutSidecar(p)
    /\ Proceed(p, proc[p], IF proc[p].seen = proc[p].id THEN "paired" ELSE "temp")
    /\ UNCHANGED <<hdr, marker, temps, lock, opens, crashes, minted, met, copied,
                   recreated, replaced>>

\* write_marker: exclusive create in .tmp. A failed attempt removes the temp file it
\* could not create, which is somebody else's.
CreateMarkerTemp(p) ==
    LET r == proc[p].root
    IN /\ At(p, "temp")
       /\ IF temps[r] \cap Id = {}
          THEN /\ temps' = [temps EXCEPT ![r] = @ \cup {proc[p].id}]
               /\ Go(p, "rename") /\ UNCHANGED lock
          ELSE /\ temps' = [temps EXCEPT ![r] = @ \ Id]
               /\ Refuse(p, "io")
       /\ UNCHANGED <<hdr, side, marker, opens, crashes, history>>

\* The rename over the marker. It installs whatever the temp file holds, and fails
\* when the temp file is gone.
RenameMarker(p) ==
    LET r == proc[p].root
        tmp == temps[r] \cap Id
    IN /\ At(p, "rename")
       /\ temps' = [temps EXCEPT ![r] = @ \ Id]
       /\ IF tmp = {}
          THEN Refuse(p, "io") /\ UNCHANGED <<marker, served, replaced>>
          ELSE /\ marker' = [marker EXCEPT ![r] = CHOOSE i \in tmp : TRUE]
               /\ replaced' = IF marker[r] \in Id /\ marker'[r] # marker[r]
                              THEN replaced \cup {r} ELSE replaced
               /\ IF proc[p].kind = "repair"
                  THEN Refuse(p, "done") /\ UNCHANGED served
                  ELSE Proceed(p, proc[p], "paired") /\ UNCHANGED lock
       /\ UNCHANGED <<hdr, side, opens, crashes, minted, met, copied, recreated>>

-----------------------------------------------------------------------------
\* read_pairing, first half: classify, lock and open the blocks database. Nothing is
\* created: a blocks root that is not there is refused.
RePairOpen(p) ==
    LET d == proc[p].db
    IN /\ At(p, "inspect")
       /\ IF hdr[d]["blocks"] \in {Absent, Legacy} THEN Refuse(p, "no store")
          ELSE IF marker[proc[p].root] = NoRoot THEN Refuse(p, "no root")
          ELSE IF lock[d]["blocks"] # NoProc THEN Refuse(p, "locked")
          ELSE Go(p, "reread") /\ lock' = [lock EXCEPT ![d]["blocks"] = p]
       /\ UNCHANGED <<hdr, side, marker, temps, opens, crashes, history>>

\* The header is read and the database closed again; a store without an id has
\* nothing to pair to.
RePairHeader(p) ==
    LET id == hdr[proc[p].db]["blocks"]
    IN /\ At(p, "reread")
       /\ IF id \in Id
          THEN /\ Become(p, [proc[p] EXCEPT !.at = "remark", !.id = id])
               /\ Unlock(p)
          ELSE Refuse(p, IF id = NoId THEN "no id" ELSE "no store")
       /\ UNCHANGED <<hdr, side, marker, temps, opens, crashes, history>>

\* The marker is read, and rewritten unless it already agrees.
RePairMarker(p) ==
    /\ At(p, "remark")
    /\ IF marker[proc[p].root] = proc[p].id
       THEN Refuse(p, "done")
       ELSE Go(p, "temp") /\ UNCHANGED lock
    /\ UNCHANGED <<hdr, side, marker, temps, opens, crashes, history>>

\* What a serving process does with .tmp: write_block creates a temp file there and
\* renames it over the block's path, or fails if the file is gone.
CreateBlockTemp(p) ==
    LET r == proc[p].root
    IN /\ At(p, "serve") /\ p \notin temps[r]
       /\ temps' = [temps EXCEPT ![r] = @ \cup {p}]
       /\ Go(p, "write")
       /\ UNCHANGED <<hdr, side, marker, lock, opens, crashes, history>>

RenameBlock(p) ==
    LET r == proc[p].root
    IN /\ At(p, "write")
       /\ temps' = [temps EXCEPT ![r] = @ \ {p}]
       /\ Go(p, "serve")
       /\ UNCHANGED <<hdr, side, marker, lock, opens, crashes, history>>

Open(p) ==
    \/ Exists(p) \/ RefuseLegacy(p) \/ ListTemps(p) \/ PurgeTemps(p) \/ ReadMarker(p)
    \/ Classify(p) \/ Build(p) \/ ReadOrWriteHeader(p) \/ WriteSidecar(p)
    \/ PairTheRoots(p) \/ AdoptHeader(p) \/ AdoptSidecar(p)
    \/ CreateMarkerTemp(p) \/ RenameMarker(p)

RePair(p) == RePairOpen(p) \/ RePairHeader(p) \/ RePairMarker(p)

Next ==
    \E p \in Proc :
        \/ \E i \in Invocations : Start(p, i[1], i[2], i[3])
        \/ Open(p) \/ RePair(p)
        \/ CreateBlockTemp(p) \/ RenameBlock(p)
        \/ Exit(p) \/ Crash(p)

Spec == Init /\ [][Next]_vars

-----------------------------------------------------------------------------
Serving(p) == proc[p].at \in {"serve", "write"}

\* The two halves were never named with any other half.
Exclusive(d, r) == \A m \in met : m[1] = d \/ m[2] = r => m = <<d, r>>

\* Crashes never cost a store: an open is refused over the pairing of the roots
\* only when one of them has been named with another half or was created twice,
\* and as no store at all only when no process served those databases before it
\* started, as the header-first order of adoption and creation promises.
RefusalsAreDeserved ==
    \A p \in Proc :
        At(p, "refused") =>
            LET d == proc[p].db
                r == proc[p].root
            IN /\ proc[p].why = "pairing" =>
                     ~Exclusive(d, r) \/ <<d, "blocks">> \in recreated
               /\ proc[p].why \in {"missing", "no store", "legacy"} => ~proc[p].old

\* Two processes that serve one blocks root serve one database, which its lock
\* forbids; the exceptions are a root whose marker went from one id to another
\* (IdentityKept says by whose doing), an identity copied from the root by a database
\* that had none, and an open that read the root before it carried an id.
OneServicePerRoot ==
    \A p, q \in Proc :
        p # q /\ Serving(p) /\ Serving(q) /\ proc[p].root = proc[q].root =>
            \/ proc[p].root \in replaced
            \/ {proc[p].db, proc[q].db} \cap copied # {}
            \/ proc[p].seen \notin Id \/ proc[q].seen \notin Id

\* The sidecar is missing, from before the store had an id, or equal to the record it
\* copies, unless the database was created twice.
SidecarAgrees ==
    \A d \in Db : side[d] \in Id =>
        side[d] = hdr[d]["blocks"] \/ <<d, "blocks">> \in recreated

\* An identity, once written, stays: a header keeps its id except under an open that
\* found the directory empty before another process filled it, and a marker keeps
\* its id except under --re-pair and an open that read the root before it had one. The
\* sidecar "never claims a different identity than the record it copies".
IdentityKept ==
    [][/\ \A d \in Db : hdr[d]["blocks"] \in Id /\ hdr'[d]["blocks"] # hdr[d]["blocks"] =>
              \E p \in Proc : At(p, "header") /\ proc[p].create
       /\ \A r \in Root : marker[r] \in Id /\ marker'[r] # marker[r] =>
              \E p \in Proc : /\ At(p, "rename") /\ proc[p].root = r
                              /\ proc[p].kind = "repair" \/ proc[p].seen \notin Id
       /\ SidecarAgrees']_vars
=============================================================================
