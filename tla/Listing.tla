-------------------------------- MODULE Listing --------------------------------
(***************************************************************************)
(* A client walks a tree of keys page by page while keys come and go:      *)
(* ListObjects and ListObjectsV2 of the S3 front end, and SCAN and RSCAN of*)
(* the RESP one.  An S3 page is cut from one snapshot; a page of SCAN looks*)
(* up one key after the other.                                             *)
(*                                                                         *)
(* Keys are naturals in the order of the tree.  Keys that a delimiter rolls*)
(* up share a number in GroupOf (0: rolled up into nothing); they are      *)
(* neighbours, as keys with a common prefix are.  A prefix is the interval *)
(* of keys that start with it.                                             *)
(***************************************************************************)
EXTENDS Integers, Sequences, SequencesExt, FiniteSets, FiniteSetsExt

CONSTANTS Keys,         \* 1 .. some number
          GroupOf,      \* key -> the group it is rolled up into, or 0
          PrefixRanges,     \* <<first key, last key>> of the prefixes asked for
          Everything,   \* stands for no prefix
          ZeroKey,      \* the key whose bytes are "0"
          Sizes,        \* page sizes an S3 client asks for
          ScanPage,     \* SCAN_PAGE
          MaxChanges    \* bound: keys inserted or removed during the walk

ASSUME ListingAssumption ==
    /\ Keys \subseteq Nat \ {0} /\ GroupOf \in [Keys -> Nat] /\ ZeroKey \in Keys
    /\ Sizes \subseteq Nat /\ ScanPage \in Nat \ {0} /\ MaxChanges \in Nat

VARIABLES keys,     \* the keys in the tree
          walk,     \* what the client asked for, and where it is
          page,     \* keys a SCAN has put on the page it is filling
          items,    \* what the client was given: keys, and groups as negatives
          always,   \* keys that have been there since the walk began
          fresh,    \* keys inserted since
          changes

listVars == <<keys, walk, page, items, always, fresh, changes>>

NoKey == 0

NoWalk == [at |-> "idle", op |-> "none", delimiter |-> FALSE, prefix |-> Everything,
           size |-> ScanPage, start |-> NoKey, cursor |-> NoKey]

ListInit ==
    /\ keys \in SUBSET Keys
    /\ walk = NoWalk
    /\ page = <<>> /\ items = <<>>
    /\ always = {} /\ fresh = {} /\ changes = 0

\* What the walk is meant to go through.
Asked(w) ==
    {k \in Keys : /\ w.prefix # Everything => k \in w.prefix[1] .. w.prefix[2]
                  /\ k > w.start}

Begins == walk.at = "idle" /\ always' = keys /\ UNCHANGED <<keys, page, items, fresh, changes>>

\* start: v1's first marker, v2's start_after.
BeginList(op, delimiter, prefix, size, start) ==
    /\ Begins
    /\ walk' = [NoWalk EXCEPT !.at = "page", !.op = op, !.delimiter = delimiter,
                              !.prefix = prefix, !.size = size, !.start = start]

BeginScan(op) ==
    /\ Begins
    /\ walk' = [NoWalk EXCEPT !.at = "page", !.op = op]

-----------------------------------------------------------------------------
(* Other clients *)

Changing == walk.at \in {"page", "scanning"} /\ changes < MaxChanges /\ changes' = changes + 1

Insert(k) ==
    /\ Changing /\ k \notin keys
    /\ keys' = keys \cup {k} /\ fresh' = fresh \cup {k}
    /\ UNCHANGED <<walk, page, items, always>>

Erase(k) ==
    /\ Changing /\ k \in keys
    /\ keys' = keys \ {k} /\ always' = always \ {k}
    /\ UNCHANGED <<walk, page, items, fresh>>

-----------------------------------------------------------------------------
(* ListObjects *)

\* range_filter, by its cases: a cursor beyond the prefix leaves nothing, one before it
\* is ignored, one inside it is skipped to.
RangeFilter(prefix, ctsa) ==
    CASE prefix = Everything -> {k \in keys : k > ctsa}
      [] prefix # Everything /\ ctsa > prefix[2] -> {}
      [] prefix # Everything /\ ctsa < prefix[1] -> keys \cap (prefix[1] .. prefix[2])
      [] OTHER -> {k \in keys \cap (prefix[1] .. prefix[2]) : k > ctsa}

Ascending(S) == SetToSortSeq(S, <)

FirstN(s, n) == SubSeq(s, 1, IF n < Len(s) THEN n ELSE Len(s))

\* Without a delimiter: one key more is fetched than the page holds, to see whether
\* the page is the last, and the last one delivered is the marker.
PlainPage(from, size) ==
    LET all == Ascending(from)
        cut == Len(all) > size
    IN  [items |-> FirstN(all, size), truncated |-> cut,
         resume |-> IF cut /\ size > 0 THEN all[size] ELSE NoKey]

Item(k) == IF GroupOf[k] = 0 THEN k ELSE -GroupOf[k]

\* The keys that open an item: those that are not inside a group already rolled up.
Leads(from) ==
    {k \in from : GroupOf[k] = 0 \/ \A j \in from : j < k => GroupOf[j] # GroupOf[k]}

\* Mutant: the page closes inside a group, at the key that opened it.
DelimitedPageInside(from, size) ==
    LET leads == Ascending(Leads(from))
        cut == Len(leads) > size
    IN  [items |-> [i \in 1 .. Len(FirstN(leads, size)) |-> Item(leads[i])],
         truncated |-> cut,
         resume |-> IF cut /\ size > 0 THEN leads[size] ELSE NoKey]

\* collect_delimited_page: a page never ends inside a group, so it resumes after the
\* last key before the item that did not fit.
DelimitedPage(from, size) ==
    LET leads == Ascending(Leads(from))
        cut == Len(leads) > size
    IN  [items |-> [i \in 1 .. Len(FirstN(leads, size)) |-> Item(leads[i])],
         truncated |-> cut,
         resume |-> IF cut /\ size > 0 THEN Max({k \in from : k < leads[size + 1]}) ELSE NoKey]

\* ctsa: v1 has the marker of the last page, or the one the client began with; v2 the
\* larger of its token and the start_after that the client repeats.
Ctsa(w) == IF w.op = "v1" /\ w.cursor # NoKey THEN w.cursor ELSE Max({w.cursor, w.start})

\* One request. The client goes on from NextMarker or, where ListObjects gives none,
\* from the last key it was given, and from NextContinuationToken; a truncated page
\* that names nothing to go on from leaves it where it is.
Page ==
    /\ walk.at = "page" /\ walk.op \in {"v1", "v2"}
    /\ LET from == RangeFilter(walk.prefix, Ctsa(walk))
           p == IF walk.delimiter THEN DelimitedPage(from, walk.size)
                ELSE PlainPage(from, walk.size)
       IN  /\ items' = items \o p.items
           /\ walk' = CASE ~p.truncated -> [walk EXCEPT !.at = "over"]
                        [] p.truncated /\ p.resume = NoKey -> [walk EXCEPT !.at = "stalled"]
                        [] OTHER -> [walk EXCEPT !.cursor = p.resume]
    /\ UNCHANGED <<keys, page, always, fresh, changes>>

-----------------------------------------------------------------------------
(* SCAN and RSCAN *)

\* iter_kv and iter_kv_backward: strictly beyond the last key, from one end at first.
Ahead(last) ==
    IF walk.op = "scan" THEN {k \in keys : k > last}
    ELSE {k \in keys : last = NoKey \/ k < last}

LastKey == IF page = <<>> THEN walk.cursor ELSE page[Len(page)]

\* The command, at the client's cursor; the page is filled key by key.
Scan ==
    /\ walk.at = "page" /\ walk.op \in {"scan", "rscan"}
    /\ walk' = [walk EXCEPT !.at = "scanning"]
    /\ UNCHANGED <<keys, page, items, always, fresh, changes>>

ScanKey ==
    /\ walk.at = "scanning" /\ Len(page) < walk.size /\ Ahead(LastKey) # {}
    /\ page' = Append(page, IF walk.op = "scan" THEN Min(Ahead(LastKey)) ELSE Max(Ahead(LastKey)))
    /\ UNCHANGED <<keys, walk, items, always, fresh, changes>>

\* scan_reply: "0" for a page that is not full, else its last key. A client that is
\* told "0" stops, and so it does when the last key is "0".
ScanReply ==
    /\ walk.at = "scanning"
    /\ Len(page) = walk.size \/ Ahead(LastKey) = {}
    /\ items' = items \o page
    /\ page' = <<>>
    /\ walk' = CASE Len(page) < walk.size -> [walk EXCEPT !.at = "over"]
                 [] Len(page) = walk.size /\ page[Len(page)] = ZeroKey ->
                       [walk EXCEPT !.at = "zero"]
                 [] OTHER -> [walk EXCEPT !.at = "page", !.cursor = page[Len(page)]]
    /\ UNCHANGED <<keys, always, fresh, changes>>

ListNext ==
    \/ \E op \in {"v1", "v2"}, delimiter \in BOOLEAN, prefix \in PrefixRanges \cup {Everything},
          size \in Sizes, start \in Keys \cup {NoKey} :
             BeginList(op, delimiter, prefix, size, start)
    \/ \E op \in {"scan", "rscan"} : BeginScan(op)
    \/ \E k \in Keys : Insert(k) \/ Erase(k)
    \/ Page \/ Scan \/ ScanKey \/ ScanReply

-----------------------------------------------------------------------------
(* Properties *)

Given == {items[i] : i \in DOMAIN items}

Delivered(k) == k \in Given \/ (walk.delimiter /\ Item(k) \in Given)

\* A walk that ran to its end was given every key that it asked for and that was there
\* from its beginning to its end, itself or rolled up, whatever came and went around
\* it (the probe row, the markers and tokens, range_filter, iter_kv). Only a page size
\* of zero leaves a client without a way on, and only a full page of SCAN that ends in
\* the key "0" tells it to stop early. No key is given twice, and a rolled-up prefix only
\* if a key was inserted under it during the walk (a page never ends inside a group, and
\* markers are exclusive).
ListedOnce ==
    /\ walk.at = "over" => \A k \in always \cap Asked(walk) : Delivered(k)
    /\ walk.at = "stalled" => walk.size = 0
    /\ \A i, j \in DOMAIN items :
          i # j /\ items[i] = items[j] => \E k \in fresh : items[i] < 0 /\ Item(k) = items[i]

================================================================================
