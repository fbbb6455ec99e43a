------------------------------ MODULE Namespaces ------------------------------
(***************************************************************************)
(* respcas: namespaces, the instances of them that connections share, the  *)
(* commands that change them, and the usage ledger their quotas are spent  *)
(* from. A step is one database operation or one lock acquisition.         *)
(*                                                                         *)
(* A namespace is a row of _BUCKETS (its metadata), a keyspace (its        *)
(* records) and a usage counter. Dropping a namespace deletes its keyspace,*)
(* and the next open of the name makes a new one, so a keyspace is named by*)
(* the namespace and a generation.                                         *)
(***************************************************************************)
EXTENDS Naturals, FiniteSets, FiniteSetsExt

CONSTANTS
    Conn,           \* connections
    NS, Default,    \* namespace names, and the one that is always there
    Key, Value,     \* keys and values; a key of a cas namespace is an address
    Address,        \* Value -> Key: the BLAKE3 of a value
    Size,           \* Value -> 1.. : its length
    Limit,          \* the max_size a namespace may be given
    Stored,         \* the metadata namespaces may have when the server starts
    Settable,       \* the properties NSSET is used on
    Inst,           \* names for Arc<Namespace> instances
    MaxFlushes,     \* bound: FLUSH commands on one namespace
    MaxCommands,    \* bound: commands begun, by all connections
    MaxCrashes,     \* bound: restarts
    NoRow, NoUsage, NoValue, NoInst, NoLimit

ASSUME NamespaceConstants ==
    /\ Default \in NS
    /\ Address \in [Value -> Key] /\ Size \in [Value -> Nat \ {0}]
    /\ Limit \in Nat /\ NoLimit \notin Nat
    /\ Cardinality(Inst) > Cardinality(NS) + Cardinality(Conn)

VARIABLES
    row,        \* _BUCKETS: the persisted metadata of each namespace
    live, gen,  \* whether the keyspace of a name exists, and which one it is
    tree,       \* the records of every keyspace there has been
    usage,      \* _USAGE: logical bytes per namespace
    raised,     \* the store header says this store holds cas namespaces
    cache,      \* NamespaceCache: the shared instance of each name
    inst,       \* Arc<Namespace>: its name, its tree handle, its properties
    bound,      \* the instance each connection is on
    job,        \* what each connection is doing, with its locals
    flushes,    \* FLUSH commands begun, per name
    begun,      \* commands begun
    crashes     \* restarts

vars == <<row, live, gen, tree, usage, raised, cache, inst, bound, job, flushes, begun, crashes>>
disk == <<row, live, gen, tree, usage, raised>>
session == <<cache, inst, bound>>
history == <<flushes, crashes>>

-----------------------------------------------------------------------------
(* Values *)

\* guarded: private and password protected, which is what FLUSH asks for.
Meta == [worm: BOOLEAN, locked: BOOLEAN, guarded: BOOLEAN,
         mode: {"user", "cas"}, limit: {NoLimit, Limit}]

NewMeta == [worm |-> FALSE, locked |-> FALSE, guarded |-> FALSE,
            mode |-> "user", limit |-> NoLimit]

Domain(p) == CASE p = "mode" -> {"user", "cas"}
               [] p = "limit" -> {NoLimit, Limit}
               [] OTHER -> BOOLEAN

Keyspace == NS \X (0 .. MaxFlushes)
Empty == [k \in Key |-> NoValue]
SizeOf(v) == IF v = NoValue THEN 0 ELSE Size[v]
Total(records) == MapThenSumSet(LAMBDA k : SizeOf(records[k]), Key)
Current(n) == <<n, gen[n]>>

\* add_bucket_usage: an absent counter counts as zero, and a decrement below zero
\* is clamped there.
AddUsage(u, plus, minus) ==
    LET from == IF u = NoUsage THEN 0 ELSE u
    IN  IF from + plus < minus THEN 0 ELSE from + plus - minus

Idle == [at |-> "idle"]

-----------------------------------------------------------------------------
(* Locks. std::sync::RwLock on Linux lets no reader in while a writer waits.  *)

At(c, s) == job[c].at = s
Go(c, j) == job' = [job EXCEPT ![c] = j]
Props(c) == inst[bound[c]].props
Name(c) == inst[bound[c]].ns

Flushing == {"flushCache", "placeholder", "drop", "dropUsage", "dropTree", "claim",
             "reopen", "assign", "restore"}

\* handle_flush keeps its read guard on the connection's own properties throughout.
PropsReaders(i) == {c \in Conn : job[c].at \in Flushing \cup {"flush"} /\ bound[c] = i}
PropsWriters(i) == {c \in Conn : At(c, "updating") /\ cache[job[c].ns] = i}
PropsReadable(i) == PropsWriters(i) = {}

\* update_all_instances and flush_namespace hold the cache's read lock.
CacheReaders == {c \in Conn : At(c, "updating") \/ job[c].at \in Flushing \ {"flushCache"}}
CacheReadable == \A c \in Conn : ~At(c, "publish")

\* Mutant: the lock under which the placeholder was put in is not dropped first.
TreeFreeScoped(i) ==
    \A c \in Conn : job[c].at \in Flushing \ {"flushCache", "placeholder"} => cache[Name(c)] # i

\* The flush ends holding the write lock of the tree it has just replaced.
TreeFree(i) == \A c \in Conn : At(c, "restore") => cache[Name(c)] # i

\* What a read through the connection's instance sees.
Records(c) == tree[inst[bound[c]].tree]

-----------------------------------------------------------------------------
(* The database *)

\* Mutant: an overwrite does not give back what it displaced.
PutBlind(n, k, v) ==
    /\ live' = [live EXCEPT ![n] = TRUE]
    /\ tree' = [tree EXCEPT ![Current(n)][k] = v]
    /\ usage' = [usage EXCEPT ![n] = AddUsage(@, Size[v], 0)]
    /\ UNCHANGED <<row, gen, raised>>

\* One transaction: the record and the counter together. Opening a keyspace by name
\* creates it when it is not there.
Put(n, k, v) ==
    /\ live' = [live EXCEPT ![n] = TRUE]
    /\ tree' = [tree EXCEPT ![Current(n)][k] = v]
    /\ usage' = [usage EXCEPT ![n] = AddUsage(@, Size[v], SizeOf(tree[Current(n)][k]))]
    /\ UNCHANGED <<row, gen, raised>>

Take(n, k) ==
    /\ live' = [live EXCEPT ![n] = TRUE]
    /\ tree' = [tree EXCEPT ![Current(n)][k] = NoValue]
    /\ usage' = IF tree[Current(n)][k] = NoValue THEN usage
                ELSE [usage EXCEPT ![n] = AddUsage(@, 0, SizeOf(tree[Current(n)][k]))]
    /\ UNCHANGED <<row, gen, raised>>

\* insert_bucket_if_absent: the name and its counter in one transaction.
Claim(n) ==
    /\ row' = [row EXCEPT ![n] = NewMeta]
    /\ usage' = [usage EXCEPT ![n] = 0]
    /\ UNCHANGED <<live, gen, tree, raised>>

Open(n) ==
    /\ live' = [live EXCEPT ![n] = TRUE]
    /\ UNCHANGED <<row, gen, tree, usage, raised>>

WriteRow(n, meta) ==
    /\ row' = [row EXCEPT ![n] = meta]
    /\ UNCHANGED <<live, gen, tree, usage, raised>>

\* get_namespace_meta
Known(n) == live[n] /\ row[n] # NoRow

-----------------------------------------------------------------------------
(* SET in a user-keyed namespace, and DEL, GET *)

\* Mutant: the key is not looked for.
WritableUnasked(c, k) == ~Props(c).locked

\* refuse_unless_writable
Writable(c, k) ==
    /\ ~Props(c).locked
    /\ Props(c).worm => TreeFree(bound[c]) /\ Records(c)[k] = NoValue

SetUser(c, k, v) ==
    /\ At(c, "idle") /\ PropsReadable(bound[c])
    /\ Props(c).mode = "user" /\ Writable(c, k)
    /\ Go(c, [at |-> "length", key |-> k, val |-> v])
    /\ UNCHANGED <<disk, session, history>>

\* Mutant: the quota is not asked.
LengthUnasked(c) ==
    /\ At(c, "length") /\ PropsReadable(bound[c])
    /\ Go(c, [job[c] EXCEPT !.at = "write"])
    /\ UNCHANGED <<disk, session, history>>

\* refuse_unless_within_quota: no limit, nothing is read.
Length(c) ==
    /\ At(c, "length") /\ PropsReadable(bound[c])
    /\ LET j == job[c]  limit == Props(c).limit IN
       IF limit = NoLimit
       THEN Go(c, [at |-> "write", key |-> j.key, val |-> j.val])
       ELSE /\ TreeFree(bound[c])
            /\ Go(c, [at |-> "usage", key |-> j.key, val |-> j.val, limit |-> limit,
                      replacing |-> SizeOf(Records(c)[j.key])])
    /\ UNCHANGED <<disk, session, history>>

\* refuse_over_quota
Usage(c) ==
    /\ At(c, "usage") /\ PropsReadable(bound[c])
    /\ LET j == job[c] IN
       Go(c, IF AddUsage(usage[Name(c)], 0, j.replacing) + Size[j.val] > j.limit THEN Idle
             ELSE [at |-> "write", key |-> j.key, val |-> j.val])
    /\ UNCHANGED <<disk, session, history>>

Write(c) ==
    /\ At(c, "write") /\ PropsReadable(bound[c])
    /\ Put(Name(c), job[c].key, job[c].val)
    /\ Go(c, Idle)
    /\ UNCHANGED <<session, history>>

Del(c, k) ==
    /\ At(c, "idle") /\ PropsReadable(bound[c])
    /\ ~Props(c).locked /\ ~Props(c).worm
    /\ Go(c, [at |-> "take", key |-> k])
    /\ UNCHANGED <<disk, session, history>>

DelTake(c) ==
    /\ At(c, "take") /\ PropsReadable(bound[c])
    /\ Take(Name(c), job[c].key)
    /\ Go(c, Idle)
    /\ UNCHANGED <<session, history>>

Get(c, k) ==
    /\ At(c, "idle") /\ PropsReadable(bound[c]) /\ TreeFree(bound[c])
    /\ Records(c)[k] # NoValue
    /\ Go(c, [at |-> "reply", from |-> inst[bound[c]].tree])
    /\ UNCHANGED <<disk, session, history>>

Reply(c) ==
    /\ At(c, "reply")
    /\ Go(c, Idle)
    /\ UNCHANGED <<disk, session, history>>

-----------------------------------------------------------------------------
(* SET in a content-addressed namespace: content::ingest *)

\* The client claims an address, or the server computes it (k = Address[v]). A key
\* already here is acknowledged and nothing changes.
SetCas(c, k, v) ==
    /\ At(c, "idle") /\ PropsReadable(bound[c]) /\ TreeFree(bound[c])
    /\ Props(c).mode = "cas" /\ Records(c)[k] = NoValue
    /\ Go(c, [at |-> "presence", key |-> k, val |-> v])
    /\ UNCHANGED <<disk, session, history>>

CasNamespaces == {n \in NS : row[n] # NoRow /\ row[n].mode = "cas"}

Presence(c) ==
    /\ At(c, "presence") /\ PropsReadable(bound[c])
    /\ Go(c, [at |-> "probe", key |-> job[c].key, val |-> job[c].val,
              todo |-> CasNamespaces \ {Name(c)}])
    /\ UNCHANGED <<disk, session, history>>

\* One source: looked up, and charged to the quota before it is cloned. A source
\* whose keyspace is gone fails the command.
Probe(c, n) ==
    /\ At(c, "probe") /\ n \in job[c].todo /\ PropsReadable(bound[c])
    /\ LET j == job[c]
           held == tree[Current(n)][j.key]
           limit == Props(c).limit
       IN Go(c, CASE ~live[n] -> Idle
                  [] live[n] /\ held = NoValue -> [j EXCEPT !.todo = @ \ {n}]
                  [] live[n] /\ held # NoValue /\ limit # NoLimit
                        /\ AddUsage(usage[Name(c)], 0, 0) + Size[held] > limit -> Idle
                  [] OTHER -> [at |-> "clone", key |-> j.key, val |-> j.val,
                               todo |-> j.todo \ {n}, source |-> n])
    /\ UNCHANGED <<disk, session, history>>

\* clone_object_by_reference up to its record: nothing to clone when the source's
\* record, or a block it names, has gone in between.
Clone(c) ==
    /\ At(c, "clone")
    /\ LET j == job[c]
           held == tree[Current(j.source)][j.key]
           next == [at |-> "probe", key |-> j.key, val |-> j.val, todo |-> j.todo]
       IN /\ Open(j.source)
          /\ \/ Go(c, next)
             \/ held # NoValue /\ Go(c, [at |-> "write", key |-> j.key, val |-> held])
    /\ UNCHANGED <<session, history>>

\* Mutant: the claimed address is believed.
VerifyBelieving(c) ==
    /\ At(c, "probe") /\ job[c].todo = {}
    /\ Go(c, [at |-> "store", key |-> job[c].key, val |-> job[c].val])
    /\ UNCHANGED <<disk, session, history>>

\* A miss everywhere: the value is checked against the address claimed for it.
Verify(c) ==
    /\ At(c, "probe") /\ job[c].todo = {}
    /\ LET j == job[c] IN
       Go(c, IF Address[j.val] # j.key THEN Idle
             ELSE [at |-> "store", key |-> j.key, val |-> j.val])
    /\ UNCHANGED <<disk, session, history>>

\* store_verified up to its transaction
Store(c) ==
    /\ At(c, "store") /\ PropsReadable(bound[c])
    /\ LET j == job[c]  limit == Props(c).limit IN
       Go(c, CASE Props(c).locked -> Idle
               [] ~Props(c).locked /\ limit = NoLimit ->
                     [at |-> "write", key |-> j.key, val |-> j.val]
               [] OTHER -> [at |-> "usage", key |-> j.key, val |-> j.val,
                            limit |-> limit, replacing |-> 0])
    /\ UNCHANGED <<disk, session, history>>

-----------------------------------------------------------------------------
(* SELECT, NSNEW, NSINFO *)

\* Instances nobody refers to are dropped.
Rebind(c, i, shared, table) ==
    /\ bound' = [bound EXCEPT ![c] = i]
    /\ cache' = shared
    /\ inst' = [x \in Inst |-> IF \/ \E d \in Conn : bound'[d] = x
                                  \/ \E n \in NS : shared[n] = x
                               THEN table[x] ELSE NoInst]

SelectCached(c, n) ==
    /\ At(c, "idle") /\ CacheReadable /\ cache[n] # NoInst /\ PropsReadable(cache[n])
    /\ Rebind(c, cache[n], cache, inst)
    /\ UNCHANGED <<disk, job, history>>

SelectMiss(c, n) ==
    /\ At(c, "idle") /\ CacheReadable /\ cache[n] = NoInst /\ live[n]
    /\ Go(c, [at |-> "select", ns |-> n, tree |-> Current(n), meta |-> NewMeta])
    /\ UNCHANGED <<disk, session, history>>

\* insert_new reads the metadata, default properties standing when there is none,
\* and only then asks for the cache's write lock.
SelectLoad(c) ==
    /\ At(c, "select")
    /\ Go(c, [job[c] EXCEPT !.at = "loaded",
                            !.meta = IF Known(job[c].ns) THEN row[job[c].ns] ELSE @])
    /\ UNCHANGED <<disk, session, history>>

SelectWait(c) ==
    /\ At(c, "loaded")
    /\ Go(c, [job[c] EXCEPT !.at = "publish"])
    /\ UNCHANGED <<disk, session, history>>

SelectPublish(c) ==
    /\ At(c, "publish") /\ CacheReaders = {}
    /\ LET j == job[c]
           i == CHOOSE x \in Inst : inst[x] = NoInst
       IN Rebind(c, i, [cache EXCEPT ![j.ns] = i],
                 [inst EXCEPT ![i] = [ns |-> j.ns, tree |-> j.tree, props |-> j.meta]])
    /\ Go(c, Idle)
    /\ UNCHANGED <<disk, history>>

\* create_namespace refuses a name that is taken.
NsNew(c, n) ==
    /\ At(c, "idle") /\ row[n] = NoRow
    /\ Claim(n)
    /\ Go(c, [at |-> "open", ns |-> n])
    /\ UNCHANGED <<session, history>>

NsOpen(c) ==
    /\ At(c, "open")
    /\ Open(job[c].ns)
    /\ Go(c, Idle)
    /\ UNCHANGED <<session, history>>

\* namespace_usage sums the records of a namespace that has no counter.
NsInfo(c, n) ==
    /\ At(c, "idle") /\ Known(n) /\ usage[n] = NoUsage
    /\ Go(c, [at |-> "adopt", ns |-> n, total |-> Total(tree[Current(n)])])
    /\ UNCHANGED <<disk, session, history>>

NsAdopt(c) ==
    /\ At(c, "adopt")
    /\ usage' = [usage EXCEPT ![job[c].ns] = job[c].total]
    /\ Go(c, Idle)
    /\ UNCHANGED <<row, live, gen, tree, raised, session, history>>

-----------------------------------------------------------------------------
(* NSSET *)

\* The whole record is read, changed and written back. key_mode goes its own way:
\* a mode that is already so skips to the instances, any other is for an empty
\* namespace only.
NsSet(c, n, p, x) ==
    /\ At(c, "idle") /\ Known(n) /\ x \in Domain(p)
    /\ Go(c, [at |-> CASE p # "mode" -> "persist"
                       [] p = "mode" /\ row[n].mode = x -> "update"
                       [] OTHER -> "empty",
              ns |-> n, prop |-> p, meta |-> [row[n] EXCEPT ![p] = x]])
    /\ UNCHANGED <<disk, session, history>>

\* Mutant: the header is left as it is.
ModeEmptyUnraised(c) ==
    /\ At(c, "empty")
    /\ LET j == job[c] IN
       Go(c, IF ~live[j.ns] \/ tree[Current(j.ns)] # Empty THEN Idle
             ELSE [j EXCEPT !.at = "persist"])
    /\ UNCHANGED <<disk, session, history>>

ModeEmpty(c) ==
    /\ At(c, "empty")
    /\ LET j == job[c] IN
       Go(c, CASE ~live[j.ns] \/ tree[Current(j.ns)] # Empty -> Idle
               [] live[j.ns] /\ tree[Current(j.ns)] = Empty /\ j.meta.mode = "cas" ->
                     [j EXCEPT !.at = "raise"]
               [] OTHER -> [j EXCEPT !.at = "persist"])
    /\ UNCHANGED <<disk, session, history>>

\* declare_cas_namespaces
Raise(c) ==
    /\ At(c, "raise")
    /\ raised' = TRUE
    /\ Go(c, [job[c] EXCEPT !.at = "persist"])
    /\ UNCHANGED <<row, live, gen, tree, usage, session, history>>

\* update_namespace_meta
Persist(c) ==
    /\ At(c, "persist")
    /\ IF live[job[c].ns]
       THEN WriteRow(job[c].ns, job[c].meta) /\ Go(c, [job[c] EXCEPT !.at = "update"])
       ELSE UNCHANGED disk /\ Go(c, Idle)
    /\ UNCHANGED <<session, history>>

\* update_all_instances: the instance in the cache, under its properties' write lock.
Update(c) ==
    /\ At(c, "update") /\ CacheReadable
    /\ Go(c, IF cache[job[c].ns] = NoInst THEN Idle ELSE [job[c] EXCEPT !.at = "updating"])
    /\ UNCHANGED <<disk, session, history>>

UpdateProps(c) ==
    /\ At(c, "updating")
    /\ LET j == job[c]  i == cache[j.ns] IN
       /\ PropsReaders(i) = {}
       /\ inst' = [inst EXCEPT ![i].props[j.prop] = j.meta[j.prop]]
    /\ Go(c, Idle)
    /\ UNCHANGED <<disk, cache, bound, history>>

-----------------------------------------------------------------------------
(* FLUSH *)

\* handle_flush: private and password protected, by the properties and by the record.
Flush(c) ==
    /\ At(c, "idle") /\ PropsReadable(bound[c])
    /\ Name(c) # Default /\ Props(c).guarded
    /\ Known(Name(c)) /\ row[Name(c)].guarded
    /\ flushes[Name(c)] < MaxFlushes
    /\ flushes' = [flushes EXCEPT ![Name(c)] = @ + 1]
    /\ Go(c, [at |-> "flush"])
    /\ UNCHANGED <<disk, session, crashes>>

\* Namespace::flush reads the properties again, the first guard still held.
FlushName(c) ==
    /\ At(c, "flush") /\ PropsReadable(bound[c])
    /\ Go(c, [at |-> "flushCache"])
    /\ UNCHANGED <<disk, session, history>>

FlushMeta(c) ==
    /\ At(c, "flushCache") /\ CacheReadable
    /\ LET n == Name(c) IN
       Go(c, IF cache[n] = NoInst \/ ~Known(n) THEN Idle
             ELSE [at |-> "placeholder", meta |-> row[n]])
    /\ UNCHANGED <<disk, session, history>>

FlushPlaceholder(c) ==
    /\ At(c, "placeholder") /\ TreeFree(cache[Name(c)])
    /\ inst' = [inst EXCEPT ![cache[Name(c)]].tree = Current(Default)]
    /\ Go(c, [job[c] EXCEPT !.at = "drop"])
    /\ UNCHANGED <<disk, cache, bound, history>>

\* drop_bucket: the row, the counter and the keyspace, each on its own.
FlushDrop(c) ==
    /\ At(c, "drop")
    /\ LET n == Name(c) IN
       IF live[n]
       THEN WriteRow(n, NoRow) /\ Go(c, [job[c] EXCEPT !.at = "dropUsage"])
       ELSE UNCHANGED disk /\ Go(c, Idle)
    /\ UNCHANGED <<session, history>>

FlushDropUsage(c) ==
    /\ At(c, "dropUsage")
    /\ usage' = [usage EXCEPT ![Name(c)] = NoUsage]
    /\ Go(c, [job[c] EXCEPT !.at = "dropTree"])
    /\ UNCHANGED <<row, live, gen, tree, raised, session, history>>

FlushDropTree(c) ==
    /\ At(c, "dropTree")
    /\ LET n == Name(c) IN
       /\ live' = [live EXCEPT ![n] = FALSE]
       /\ gen' = [gen EXCEPT ![n] = IF live[n] THEN @ + 1 ELSE @]
    /\ Go(c, [job[c] EXCEPT !.at = "claim"])
    /\ UNCHANGED <<row, tree, usage, raised, session, history>>

FlushClaim(c) ==
    /\ At(c, "claim")
    /\ IF row[Name(c)] = NoRow
       THEN Claim(Name(c)) /\ Go(c, [job[c] EXCEPT !.at = "reopen"])
       ELSE UNCHANGED disk /\ Go(c, Idle)
    /\ UNCHANGED <<session, history>>

FlushOpen(c) ==
    /\ At(c, "reopen")
    /\ Open(Name(c))
    /\ Go(c, [at |-> "assign", meta |-> job[c].meta, tree |-> Current(Name(c))])
    /\ UNCHANGED <<session, history>>

FlushAssign(c) ==
    /\ At(c, "assign") /\ TreeFree(cache[Name(c)])
    /\ inst' = [inst EXCEPT ![cache[Name(c)]].tree = job[c].tree]
    /\ Go(c, [at |-> "restore", meta |-> job[c].meta])
    /\ UNCHANGED <<disk, cache, bound, history>>

FlushRestore(c) ==
    /\ At(c, "restore")
    /\ IF live[Name(c)] THEN WriteRow(Name(c), job[c].meta) ELSE UNCHANGED disk
    /\ Go(c, Idle)
    /\ UNCHANGED <<session, history>>

-----------------------------------------------------------------------------
(* Errors and restarts *)

\* A database error at any step that makes a database call: the command answers with
\* an error and its guards are released.
Fail(c) ==
    /\ job[c].at \notin {"idle", "reply", "loaded", "publish", "update", "updating",
                         "flush", "flushCache"}
    /\ Go(c, Idle)
    /\ UNCHANGED <<disk, session, history, begun>>

\* The server as it starts: every connection on the default namespace.
Fresh(rows, gens) ==
    LET first == CHOOSE i \in Inst : TRUE IN
    [cache |-> [n \in NS |-> IF n = Default THEN first ELSE NoInst],
     inst |-> [i \in Inst |-> IF i # first THEN NoInst
                 ELSE [ns |-> Default, tree |-> <<Default, gens[Default]>>,
                       props |-> rows[Default]]],
     bound |-> [c \in Conn |-> first],
     job |-> [c \in Conn |-> Idle]]

\* adopt_usage_ledger needs the keyspace of every namespace it has to count.
Reopens == \A n \in NS : row[n] # NoRow /\ usage[n] = NoUsage => live[n]

\* The process dies at any point and is started again.
Restart ==
    /\ crashes < MaxCrashes /\ Reopens
    /\ crashes' = crashes + 1
    /\ usage' = [n \in NS |-> IF row[n] # NoRow /\ usage[n] = NoUsage
                              THEN Total(tree[Current(n)]) ELSE usage[n]]
    /\ LET up == Fresh(row, gen) IN
       cache' = up.cache /\ inst' = up.inst /\ bound' = up.bound /\ job' = up.job
    /\ UNCHANGED <<row, live, gen, tree, raised, flushes, begun>>

\* A store as an earlier run left it: some namespaces, all empty.
Init ==
    /\ \E here \in SUBSET (NS \ {Default}) : \E metas \in [here -> Stored] :
          /\ row = [n \in NS |-> IF n \in here THEN metas[n]
                                 ELSE IF n = Default THEN NewMeta ELSE NoRow]
          /\ live = [n \in NS |-> n \in here \cup {Default}]
          /\ usage = [n \in NS |-> IF n \in here \cup {Default} THEN 0 ELSE NoUsage]
          /\ raised = \E n \in here : metas[n].mode = "cas"
    /\ gen = [n \in NS |-> 0]
    /\ tree = [s \in Keyspace |-> Empty]
    /\ LET up == Fresh(row, gen) IN
       cache = up.cache /\ inst = up.inst /\ bound = up.bound /\ job = up.job
    /\ flushes = [n \in NS |-> 0] /\ begun = 0 /\ crashes = 0

\* A connection takes up its next command.
Command(c) ==
    /\ begun < MaxCommands /\ begun' = begun + 1
    /\ \/ \E k \in Key : Del(c, k) \/ Get(c, k)
       \/ \E k \in Key, v \in Value : SetUser(c, k, v) \/ SetCas(c, k, v)
       \/ \E n \in NS : SelectCached(c, n) \/ SelectMiss(c, n) \/ NsNew(c, n) \/ NsInfo(c, n)
       \/ \E n \in NS, p \in Settable : \E x \in Domain(p) : NsSet(c, n, p, x)
       \/ Flush(c)

\* The command it is on takes its next step.
Step(c) ==
    /\ UNCHANGED begun
    /\ \/ Length(c) \/ Usage(c) \/ Write(c) \/ DelTake(c) \/ Reply(c)
       \/ Presence(c) \/ (\E n \in NS : Probe(c, n)) \/ Clone(c) \/ Verify(c) \/ Store(c)
       \/ SelectLoad(c) \/ SelectWait(c) \/ SelectPublish(c) \/ NsOpen(c) \/ NsAdopt(c)
       \/ ModeEmpty(c) \/ Raise(c) \/ Persist(c) \/ Update(c) \/ UpdateProps(c)
       \/ FlushName(c) \/ FlushMeta(c) \/ FlushPlaceholder(c) \/ FlushDrop(c)
       \/ FlushDropUsage(c) \/ FlushDropTree(c) \/ FlushClaim(c) \/ FlushOpen(c)
       \/ FlushAssign(c) \/ FlushRestore(c)

Next == Restart \/ \E c \in Conn : Command(c) \/ Step(c) \/ Fail(c)

Spec == Init /\ [][Next]_vars

-----------------------------------------------------------------------------
(* Properties *)

\* No namespace is recorded as content-addressed in a store whose header does not
\* say so yet (set_key_mode raises the header first), whatever else writes
\* metadata in the meantime and wherever the process dies.
HeaderRaisedFirst == \A n \in NS : row[n] # NoRow /\ row[n].mode = "cas" => raised

\* The usage counter of a namespace that was never flushed is what its records add
\* up to: every SET, overwrite, clone, DEL, restart and adoption moves the two
\* together.
LedgerExact ==
    \A n \in NS : row[n] # NoRow /\ flushes[n] = 0 => usage[n] = Total(tree[Current(n)])

\* refuse_over_quota: a namespace that has had its limit from the start goes over it
\* by no more than the other writes that were in flight.
QuotaBounded ==
    \A n \in NS : row[n] # NoRow /\ row[n].limit = Limit /\ flushes[n] = 0 =>
        usage[n] <= Limit + (Cardinality(Conn) - 1) * Max({Size[v] : v \in Value})

\* "Write lock the cache to prevent concurrent access during flush", says flush_namespace:
\* while a FLUSH is at work on a namespace, no GET on it is answered out of another one.
NoAccessDuringFlush ==
    \A c, d \in Conn : At(c, "reply") /\ job[d].at \in Flushing /\ Name(d) = Name(c)
                          => job[c].from[1] = Name(c)

\* Commands wait for each other's locks for ever in one case only: a FLUSH holds its read
\* guard on the properties of an instance that an NSSET waits to write. Then the FLUSH asks
\* for a second guard behind that writer (handle_flush and Namespace::flush), or for the
\* cache's lock behind a SELECT that waits for the NSSET to let go of it (insert_new,
\* update_all_instances). In any other state some command can go on.
OnlyFlushSticks ==
    \/ \A c \in Conn : At(c, "idle")
    \/ \E c \in Conn : ENABLED Step(c)
    \/ \E i \in Inst : PropsReaders(i) # {} /\ PropsWriters(i) # {}

\* Commands that have passed their checks on a key of a namespace and have yet to write.
InFlight(n) == {c \in Conn : Name(c) = n /\ job[c].at \in {"length", "usage", "write", "take"}}

\* A command on the key is under way, a SET that may still clone or store it included.
Overtaken(n, k) ==
    \E c \in Conn : /\ Name(c) = n
                    /\ c \in InFlight(n) \/ job[c].at \in {"presence", "probe", "clone", "store"}
                    /\ job[c].key = k

\* Write once, read many: in a namespace that has been so from the start, a record on which
\* no command was already under way is there for good, whatever the key mode is switched
\* to, and no later SET or DEL gets past its checks (refuse_unless_writable, ingest and
\* Namespace::del look first and write later, so two SETs of a free key can both pass).
WormSettles ==
    [][\A n \in NS, k \in Key :
          LET held == tree[Current(n)][k] IN
          row[n] # NoRow /\ row[n].worm /\ "worm" \notin Settable /\ flushes'[n] = 0
             /\ held # NoValue /\ ~Overtaken(n, k)
             => tree'[Current(n)][k] = held /\ ~Overtaken(n, k)']_vars

\* A record, or a write in flight, under a key that is not its value's address.
Misfit(n) ==
    \/ \E k \in Key : LET v == tree[Current(n)][k] IN v # NoValue /\ Address[v] # k
    \/ \E c \in InFlight(n) : ~At(c, "take") /\ Address[job[c].val] # job[c].key

\* A content-addressed namespace that everybody knows to be one.
Settled(n) ==
    /\ \A i \in Inst : inst[i] # NoInst /\ inst[i].ns = n => inst[i].props.mode = "cas"
    /\ \A c \in Conn : job[c].at \in {"select", "loaded", "publish"} /\ job[c].ns = n
                          => job[c].at # "select" /\ job[c].meta.mode = "cas"
    /\ ~Misfit(n)

\* No namespace on the list of sources of a SET under way has been switched or flushed.
SourcesStand ==
    \A c \in Conn : /\ job[c].at \in {"probe", "clone"} => job[c].todo \subseteq CasNamespaces
                    /\ At(c, "clone") => job[c].source \in CasNamespaces

\* Once every content-addressed namespace is settled, no SET and no clone brings a record
\* under a key that is not its address into one of them (ingest checks the address last,
\* and never for a clone). A SET that overlaps a switch of key mode is what can: set_key_mode
\* counts the keys, then writes the row, and reaches the instances after that; and ingest
\* reads the list of sources once, and clones later from one that takes any key by then.
CasKeysAreAddresses ==
    [][(\A n \in CasNamespaces : Settled(n)) /\ SourcesStand
          => \A n \in CasNamespaces : ~Misfit(n)']_vars
=============================================================================
