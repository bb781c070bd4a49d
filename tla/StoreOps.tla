------------------------------- MODULE StoreOps -------------------------------
(***************************************************************************)
(* The persistent store of one node as a value, and the operations of       *)
(* crates/scone-storage on it: the redb tables (redb.rs), the bridge        *)
(* between chain and store (integration.rs) and the verified snapshots      *)
(* that bootstrap a new node (verified_snapshot.rs).                        *)
(*                                                                         *)
(* Every operation is one redb write transaction: it returns the store      *)
(* after the commit, or None when it fails, and then nothing was written.   *)
(* A block is its hash (a stored block is decoded and its hash recomputed), *)
(* and an id is the derivation of its name, so that an index entry is the   *)
(* id it binds.  Ids are numbers, compared as the code compares bytes.      *)
(***************************************************************************)
EXTENDS ChainOps

CONSTANTS
  SNAPSHOT_INTERVAL,
  PAGE,                            \* DOMAIN_PAGE, TLD_PAGE
  VERIFIED_SNAPSHOT_PAGE_ENTRIES,
  MAX_VERIFIED_SNAPSHOT_PAGE_ENTRIES,
  Network                          \* the network the relay is configured for

Ids     == Domains \cup Tlds
Heights == {BlockOf[h].height : h \in Hashes}

ASSUME StoreConstants ==
  /\ Ids \subseteq Nat /\ Domains \cap Tlds = {}
  /\ IsFiniteSet(Heights) /\ Heights = 1..Cardinality(Heights)
  /\ SNAPSHOT_INTERVAL \in Nat \ {0} /\ PAGE \in Nat \ {0}
  /\ VERIFIED_SNAPSHOT_PAGE_ENTRIES \in Nat \ {0}
  /\ MAX_VERIFIED_SNAPSHOT_PAGE_ENTRIES \in Nat
  /\ Network \in {"testnet", "mainnet"}
  /\ \A h \in Hashes : /\ BlockOf[h].txs \in Seq(Range(BlockOf[h].txs))
                       /\ \A tx \in Range(BlockOf[h].txs) : IsTx(tx)

(* RedbStore::open on a new file.                                           *)
NewStore ==
  [byHeight    |-> [k \in Heights |-> None],
   byHash      |-> {},
   domains     |-> [d \in Domains |-> None],
   tlds        |-> [t \in Tlds |-> None],
   domainCount |-> 0,
   tldCount    |-> 0,
   names       |-> {},        \* name -> id
   reverse     |-> {},        \* id -> name
   tip         |-> [height |-> 0, hash |-> 0],
   snapshot    |-> None,
   marker      |-> None]

(* A step on a result that may be an error, and a fallback for one.         *)
Then(x, F(_)) == IF x = None THEN None ELSE F(x)
OrElse(x, y)  == IF x # None THEN x ELSE y

Stored(table)          == {k \in DOMAIN table : table[k] # None}
Overwrite(table, upd)  == [k \in DOMAIN table |-> IF k \in DOMAIN upd THEN upd[k] ELSE table[k]]
Without(table, ks)     == [k \in DOMAIN table |-> IF k \in ks THEN None ELSE table[k]]

-----------------------------------------------------------------------------
(* The name index.                                                          *)

(* Binds first, then removals, which find the name through the reverse row. *)
apply_name_deltas(st, upserts, removals) ==
  LET reverse == st.reverse \cup upserts
      gone    == removals \cap reverse
  IN [st EXCEPT !.names = (@ \cup upserts) \ gone, !.reverse = reverse \ gone]

remove_name_entry(st, id) == apply_name_deltas(st, {}, {id})

(* The ids that resolve_name and resolve_tld may answer, "corrupted" when   *)
(* the reverse row that carries the namespace is missing.                   *)
resolve(st, id, namespace) ==
  IF id \notin st.names THEN None
  ELSE IF id \notin st.reverse THEN "corrupted"
  ELSE IF id \in namespace THEN id ELSE None

(* The bindings that a block carries.                                       *)
Binds(h) ==
  {BlockOf[h].txs[i].domain : i \in {j \in DOMAIN BlockOf[h].txs :
                               BlockOf[h].txs[j].op \in {"RegisterDomain", "AssignDomain"}}}
  \cup {BlockOf[h].txs[i].tld : i \in {j \in DOMAIN BlockOf[h].txs :
                               BlockOf[h].txs[j].op = "RegisterTld"}}

(* Every bind of the history whose target still lives; it needs all of it.  *)
rebuild_name_index(st) ==
  LET live == Stored(st.domains) \cup Stored(st.tlds)
  IN IF \E k \in 1..st.tip.height : st.byHeight[k] = None THEN None
     ELSE apply_name_deltas([st EXCEPT !.names = {}, !.reverse = {}],
                            live \cap UNION {Binds(st.byHeight[k]) : k \in 1..st.tip.height},
                            {})

-----------------------------------------------------------------------------
(* Appending a block.                                                       *)

(* Mutant: the snapshot is stamped with the height of the new block.        *)
snapshot_core_mut(st, height) ==
  [st EXCEPT !.snapshot = [height  |-> height + 1, hash |-> st.byHeight[height],
                           domains |-> st.domains, tlds |-> st.tlds]]

(* The live tables, frozen under the block they are the state of.           *)
snapshot_core(st, height) ==
  [st EXCEPT !.snapshot = [height  |-> height, hash |-> st.byHeight[height],
                           domains |-> st.domains, tlds |-> st.tlds]]

(* Mutant: removals are not counted.                                        *)
append_deltas_mut(st, h, delta) ==
  LET domains == Overwrite(st.domains, delta.domains)
      tlds    == Overwrite(st.tlds, delta.tlds)
  IN apply_name_deltas(
       [st EXCEPT !.byHeight    = [@ EXCEPT ![BlockOf[h].height] = h],
                  !.byHash      = @ \cup {h},
                  !.domains     = Without(domains, delta.removedDomains),
                  !.tlds        = Without(tlds, delta.removedTlds),
                  !.domainCount = @ + Cardinality(DOMAIN delta.domains \ Stored(st.domains)),
                  !.tldCount    = @ + Cardinality(DOMAIN delta.tlds \ Stored(st.tlds)),
                  !.tip         = [height |-> BlockOf[h].height, hash |-> h]],
       delta.nameUpserts, delta.removedDomains \cup delta.removedTlds)

(* Upserts, then removals, each with its counter; then names and tip.  An   *)
(* equal block at this height is a no-op and another one a conflict.        *)
append_deltas(st, h, delta) ==
  LET height  == BlockOf[h].height
      domains == Overwrite(st.domains, delta.domains)
      tlds    == Overwrite(st.tlds, delta.tlds)
  IN IF st.byHeight[height] # None
       THEN IF st.byHeight[height] = h THEN st ELSE None
       ELSE apply_name_deltas(
         [st EXCEPT
            !.byHeight    = [@ EXCEPT ![height] = h],
            !.byHash      = @ \cup {h},
            !.domains     = Without(domains, delta.removedDomains),
            !.tlds        = Without(tlds, delta.removedTlds),
            !.domainCount = @ + Cardinality(DOMAIN delta.domains \ Stored(st.domains))
                              - Cardinality(Stored(domains) \cap delta.removedDomains),
            !.tldCount    = @ + Cardinality(DOMAIN delta.tlds \ Stored(st.tlds))
                              - Cardinality(Stored(tlds) \cap delta.removedTlds),
            !.tip         = [height |-> height, hash |-> h]],
         delta.nameUpserts, delta.removedDomains \cup delta.removedTlds)

(* On a boundary the state of the parent is frozen first.                   *)
append_core(st, h, delta) ==
  LET parent == BlockOf[h].height - 1
  IN IF parent >= 1 /\ parent % SNAPSHOT_INTERVAL = 0
       THEN IF st.byHeight[parent] = None THEN None
            ELSE append_deltas(snapshot_core(st, parent), h, delta)
       ELSE append_deltas(st, h, delta)

(* The tip again is a no-op; otherwise only its successor is taken.         *)
append_block_with_state(st, h, delta) ==
  IF st.tip = [height |-> BlockOf[h].height, hash |-> h] THEN st
  ELSE IF BlockOf[h].height # st.tip.height + 1 THEN None
  ELSE append_core(st, h, delta)

-----------------------------------------------------------------------------
(* Single-entry writes of the repair tools.                                 *)

put_domain_state(st, d, v) ==
  [st EXCEPT !.domains     = [@ EXCEPT ![d] = v],
             !.domainCount = IF st.domains[d] = None THEN @ + 1 ELSE @]

put_domain_state_with_name(st, d, v) == apply_name_deltas(put_domain_state(st, d, v), {d}, {})

put_tld_state(st, t, v) ==
  [st EXCEPT !.tlds     = [@ EXCEPT ![t] = v],
             !.tldCount = IF st.tlds[t] = None THEN @ + 1 ELSE @]

put_tld_state_with_name(st, t, v) == apply_name_deltas(put_tld_state(st, t, v), {t}, {})

(* Mutant: the counter goes down for an absent domain too.                  *)
remove_domain_state_mut(st, d) ==
  remove_name_entry([st EXCEPT !.domains = [@ EXCEPT ![d] = None], !.domainCount = @ - 1], d)

remove_domain_state(st, d) ==
  remove_name_entry([st EXCEPT !.domains     = [@ EXCEPT ![d] = None],
                               !.domainCount = IF st.domains[d] = None THEN @ ELSE @ - 1], d)

-----------------------------------------------------------------------------
(* From the chain to the store.                                             *)

Touched(h, ops, key(_)) ==
  {key(BlockOf[h].txs[i]) : i \in {j \in DOMAIN BlockOf[h].txs : BlockOf[h].txs[j].op \in ops}}

touched_tlds(h)    == Touched(h, TldOps, LAMBDA tx : tx.tld)
touched_domains(h) == Touched(h, DomainOps, LAMBDA tx : tx.domain)

(* Mutant: a domain that the block expired stays in the store.              *)
block_delta_mut(s, h, removed) ==
  LET tlds == touched_tlds(h)
  IN [domains        |-> [d \in touched_domains(h) \cap Stored(s.domains) |-> s.domains[d]],
      tlds           |-> [t \in tlds \cap Stored(s.tlds) |-> s.tlds[t]],
      removedDomains |-> {},
      removedTlds    |-> tlds \ Stored(s.tlds),
      nameUpserts    |-> Binds(h)]

(* The StateDelta of block h, read from the registry s after the block.     *)
block_delta(s, h, removed) ==
  LET tlds == touched_tlds(h)
  IN [domains        |-> [d \in touched_domains(h) \cap Stored(s.domains) |-> s.domains[d]],
      tlds           |-> [t \in tlds \cap Stored(s.tlds) |-> s.tlds[t]],
      removedDomains |-> removed,
      removedTlds    |-> tlds \ Stored(s.tlds),
      nameUpserts    |-> Binds(h)]

store_block_with_removals(st, s, h, removed) ==
  append_block_with_state(st, h, block_delta(s, h, removed))

(* AppliedBlock::gc_removed_domains: what expired at the parent's timestamp. *)
gc_removed_domains(s, parentTs) ==
  Stored(s.domains) \ Stored(gc_expired(s, parentTs).domains)

-----------------------------------------------------------------------------
(* From the store to the chain.                                             *)

Ascending(S) ==
  CHOOSE f \in [1..Cardinality(S) -> S] : \A i, j \in DOMAIN f : i < j => f[i] < f[j]

(* iterate_domains, iterate_tlds, snapshot_domains, snapshot_tlds: at most  *)
(* max keys above the exclusive cursor, ascending.                          *)
page(table, after, max) ==
  LET keys == Ascending({k \in Stored(table) : k > after})
  IN SubSeq(keys, 1, IF Len(keys) < max THEN Len(keys) ELSE max)

(* The walk: a short page is the last one, a full one moves the cursor.     *)
ReadPages(table, max) ==
  LET walk[cursor \in {0} \cup DOMAIN table] ==
        LET p == page(table, cursor, max)
        IN IF Len(p) < max THEN p ELSE p \o walk[Last(p)]
  IN walk[0]

(* Mutant: the expiration queue is not rebuilt.                             *)
restore_entries_mut(domains, tlds, ds, ts) ==
  [EmptyState EXCEPT
     !.domains     = [d \in Domains |-> IF d \in ds THEN domains[d] ELSE None],
     !.tlds        = [t \in Tlds |-> IF t \in ts THEN tlds[t] ELSE None],
     !.domainCount = Cardinality(ds),
     !.tldCount    = Cardinality(ts),
     !.ownerRefs   = [o \in Owners |-> Cardinality({d \in ds : domains[d].owner = o})
                                         + Cardinality({t \in ts : tlds[t].owner = o})],
     !.smt         = {DomainLeaf(d, domains[d]) : d \in ds}
                       \cup {TldLeaf(t, tlds[t]) : t \in ts}]

(* restore_domain and restore_tld on an empty state, for the ids ds and ts: *)
(* the queue, the reference counts and the tree come back; the grace        *)
(* entries, the learned keys and the bans are not in the store and do not.  *)
restore_entries(domains, tlds, ds, ts) ==
  [EmptyState EXCEPT
     !.domains     = [d \in Domains |-> IF d \in ds THEN domains[d] ELSE None],
     !.tlds        = [t \in Tlds |-> IF t \in ts THEN tlds[t] ELSE None],
     !.domainCount = Cardinality(ds),
     !.tldCount    = Cardinality(ts),
     !.ownerRefs   = [o \in Owners |-> Cardinality({d \in ds : domains[d].owner = o})
                                         + Cardinality({t \in ts : tlds[t].owner = o})],
     !.expirations = {<<domains[d].validUntil, d>> : d \in ds},
     !.smt         = {DomainLeaf(d, domains[d]) : d \in ds}
                       \cup {TldLeaf(t, tlds[t]) : t \in ts}]

RestoredState(domains, tlds) ==
  restore_entries(domains, tlds, Range(ReadPages(domains, PAGE)), Range(ReadPages(tlds, PAGE)))

(* Blockchain::restore: genesis and one block, no finality.                 *)
restore(height, hash, state) ==
  [NewNode EXCEPT !.base      = height,
                  !.canonical = <<0, hash>>,
                  !.known     = [k \in {0, height} |-> IF k = 0 THEN 0 ELSE hash],
                  !.tip       = hash,
                  !.state     = state]

(* Usable only below the tip and on our own chain; any failure on the way   *)
(* falls back to the full tables.                                           *)
try_load_from_snapshot(st) ==
  Then(st.snapshot, LAMBDA s :
    IF \/ s.height = 0 \/ s.height >= st.tip.height
       \/ st.byHeight[s.height] # s.hash
       \/ \E k \in (s.height + 1)..st.tip.height : st.byHeight[k] = None
      THEN None
      ELSE Then(push_all(restore(s.height, s.hash, RestoredState(s.domains, s.tlds)),
                         SubSeq(st.byHeight, s.height + 1, st.tip.height)),
                LAMBDA c : IF c.tip # st.tip.hash \/ Network # "testnet" THEN None ELSE c))

(* The restored state is one of ChainState::new(), a testnet state.         *)
load_from_full_state(st) ==
  IF Network # "testnet" THEN None
  ELSE restore(st.tip.height, st.tip.hash, RestoredState(st.domains, st.tlds))

(* Mutant: the window is not cut at the marker of an imported store.        *)
rebuild_replay_index_from_store_mut(st, c) ==
  LET tip   == st.tip.height
      start == IF tip <= REPLAY_WINDOW_BLOCKS THEN 1 ELSE tip - REPLAY_WINDOW_BLOCKS + 1
      At(i) == {k \in start..tip :
                  \E j \in DOMAIN BlockOf[st.byHeight[k]].txs :
                    BlockOf[st.byHeight[k]].txs[j].id = i}
  IN IF \E k \in start..tip : st.byHeight[k] = None THEN None
     ELSE [c EXCEPT !.included = [i \in TxIds |-> IF At(i) = {} THEN @[i] ELSE Max(At(i))]]

(* The ids of the last REPLAY_WINDOW_BLOCKS blocks; the history of an       *)
(* imported store starts at its marker.  A hole is an error.                *)
rebuild_replay_index_from_store(st, c) ==
  LET tip   == st.tip.height
      first == IF tip <= REPLAY_WINDOW_BLOCKS THEN 1 ELSE tip - REPLAY_WINDOW_BLOCKS + 1
      start == IF st.marker # None /\ st.marker.height > first THEN st.marker.height ELSE first
      At(i) == {k \in start..tip :
                  \E j \in DOMAIN BlockOf[st.byHeight[k]].txs :
                    BlockOf[st.byHeight[k]].txs[j].id = i}
  IN IF \E k \in start..tip : st.byHeight[k] = None THEN None
     ELSE [c EXCEPT !.included = [i \in TxIds |-> IF At(i) = {} THEN @[i] ELSE Max(At(i))]]

(* The chain that a process starts with, None when it refuses to start.     *)
load_chain(st) ==
  IF st.tip.height = 0 THEN NewNode
  ELSE IF st.byHeight[st.tip.height] # st.tip.hash THEN None
  ELSE Then(OrElse(try_load_from_snapshot(st), load_from_full_state(st)),
            LAMBDA c : rebuild_replay_index_from_store(st, c))

(* The audit path: every block from genesis.                                *)
load_chain_replay(st) ==
  IF \E k \in 1..st.tip.height : st.byHeight[k] = None THEN None
  ELSE Then(push_all(NewNode, SubSeq(st.byHeight, 1, st.tip.height)),
            LAMBDA c : IF c.tip # st.tip.hash THEN None ELSE c)

-----------------------------------------------------------------------------
(* Verified snapshots.  A page hash is injective, so it is the page.        *)

(* The entries in the order of the export, cut into pages.                  *)
page_entry_slot(entries, root, height) ==
  LET n == VERIFIED_SNAPSHOT_PAGE_ENTRIES
  IN [p \in 1..((Len(entries) + n - 1) \div n) |->
        [index |-> p - 1, height |-> height, root |-> root,
         entries |-> SubSeq(entries, (p - 1) * n + 1,
                            IF p * n < Len(entries) THEN p * n ELSE Len(entries))]]

(* An entry carries the whole state: a record that is absent and one whose  *)
(* hash is zero are encoded apart.                                          *)
Entry(kind, id, val) == [kind |-> kind, id |-> id, val |-> val]

ExportEntries(s, ds, ts) ==
  [i \in DOMAIN ds |-> Entry("DOM", ds[i], s.domains[ds[i]])]
    \o [i \in DOMAIN ts |-> Entry("TLD", ts[i], s.tlds[ts[i]])]

ExportOf(s, root, pages) ==
  [manifest |-> [height |-> s.height, hash |-> s.hash, root |-> root,
                 pageCount   |-> Len(pages),
                 domainCount |-> Cardinality(Stored(s.domains)),
                 tldCount    |-> Cardinality(Stored(s.tlds)),
                 pageHashes  |-> pages],
   pages    |-> pages]

(* What a store can serve for a finalized checkpoint, None if it cannot.    *)
export_verified_snapshot(st, cp) ==
  Then(st.snapshot, LAMBDA s :
    IF \/ s.height = 0 \/ s.height # cp.height \/ s.hash # cp.block_hash
       \/ st.byHeight[s.height] # s.hash
      THEN None
      ELSE ExportOf(s, cp.state_root,
             page_entry_slot(
               ExportEntries(s, ReadPages(s.domains, VERIFIED_SNAPSHOT_PAGE_ENTRIES),
                                ReadPages(s.tlds, VERIFIED_SNAPSHOT_PAGE_ENTRIES)),
               cp.state_root, s.height)))

(* The entries that arrived, by page and position, and those of one kind.   *)
Slots(pages)        == UNION {{p} \X DOMAIN pages[p].entries : p \in DOMAIN pages}
EntryAt(pages, s)   == pages[s[1]].entries[s[2]]
OfKind(pages, kind) == {s \in Slots(pages) : EntryAt(pages, s).kind = kind}
Before(r, s)        == r[1] < s[1] \/ (r[1] = s[1] /\ r[2] < s[2])

(* The root over the leaves of the entries, which does not tell those two   *)
(* apart.                                                                   *)
LeafOf(e) == IF e.kind = "DOM" THEN DomainLeaf(e.id, e.val) ELSE TldLeaf(e.id, e.val)
recompute_state_root(pages) == {LeafOf(EntryAt(pages, s)) : s \in Slots(pages)}

StrictlyAscending(pages, kind) ==
  \A r, s \in OfKind(pages, kind) :
    Before(r, s) => EntryAt(pages, r).id < EntryAt(pages, s).id

PagesMatch(m, pages) ==
  \A p \in DOMAIN pages : /\ pages[p].index = p - 1
                           /\ pages[p].height = m.height
                           /\ pages[p].root = m.root
                           /\ pages[p] = m.pageHashes[p]

EntriesMatch(m, pages) ==
  /\ StrictlyAscending(pages, "DOM") /\ StrictlyAscending(pages, "TLD")
  /\ Cardinality(OfKind(pages, "DOM")) = m.domainCount
  /\ Cardinality(OfKind(pages, "TLD")) = m.tldCount
  /\ recompute_state_root(pages) = m.root

(* Mutant: the target store may hold blocks.                                *)
ImportOk_mut(st, cp, m, pages) ==
  /\ m.pageCount = Len(pages) /\ Len(m.pageHashes) = Len(pages)
  /\ m.height = cp.height /\ m.hash = cp.block_hash /\ m.root = cp.state_root
  /\ PagesMatch(m, pages)
  /\ EntriesMatch(m, pages)

(* Everything import_verified_snapshot checks before it writes.             *)
ImportOk(st, cp, m, pages) ==
  /\ m.pageCount = Len(pages) /\ Len(m.pageHashes) = Len(pages)
  /\ m.domainCount + m.tldCount <= MAX_VERIFIED_SNAPSHOT_PAGE_ENTRIES * Len(pages)
  /\ m.height = cp.height /\ m.hash = cp.block_hash /\ m.root = cp.state_root
  /\ m.height # 0
  /\ st.tip.height = 0
  /\ PagesMatch(m, pages)
  /\ EntriesMatch(m, pages)

ValuesOf(pages, kind) ==
  [i \in {EntryAt(pages, s).id : s \in OfKind(pages, kind)} |->
     EntryAt(pages, CHOOSE s \in OfKind(pages, kind) : EntryAt(pages, s).id = i).val]

(* Tables, snapshot, counters, tip and marker; no block and no name.        *)
write_verified_snapshot(st, m, domains, tlds) ==
  [st EXCEPT !.domains = domains, !.tlds = tlds,
             !.domainCount = m.domainCount, !.tldCount = m.tldCount,
             !.snapshot = [height |-> m.height, hash |-> m.hash,
                           domains |-> domains, tlds |-> tlds],
             !.tip    = [height |-> m.height, hash |-> m.hash],
             !.marker = [height |-> m.height, hash |-> m.hash]]

import_verified_snapshot(st, cp, m, pages) ==
  IF ~ImportOk(st, cp, m, pages) THEN None
  ELSE write_verified_snapshot(st, m,
         Overwrite(st.domains, ValuesOf(pages, "DOM")),
         Overwrite(st.tlds, ValuesOf(pages, "TLD")))

(* The block the snapshot is the state of, fetched later.                   *)
append_bootstrap_anchor(st, h) ==
  IF \/ st.marker = None
     \/ st.marker # [height |-> BlockOf[h].height, hash |-> h]
     \/ st.tip.height # st.marker.height
    THEN None
  ELSE IF st.byHeight[BlockOf[h].height] # None
    THEN IF st.byHeight[BlockOf[h].height] = h THEN st ELSE None
  ELSE [st EXCEPT !.byHeight = [@ EXCEPT ![BlockOf[h].height] = h], !.byHash = @ \cup {h}]
=============================================================================
