------------------------------ MODULE NodeStore ------------------------------
(***************************************************************************)
(* Nodes that keep a chain in memory and its store on disk, with crashes    *)
(* and restarts between any two steps.  A node accepts blocks as the relay  *)
(* does (attach in RAM, then one store transaction), loses its RAM in a     *)
(* crash and reloads it with load_chain; the repair tools rewrite entries   *)
(* and the name index of a stopped node; an empty store is bootstrapped     *)
(* from the verified snapshot that another node exports, over a channel     *)
(* that may alter it.                                                       *)
(***************************************************************************)
EXTENDS StoreOps

CONSTANT Nodes

VARIABLES
  chain,   \* per node: the chain in RAM, None while the process is down
  store    \* per node: what is on disk

vars == <<chain, store>>

Init ==
  /\ chain = [n \in Nodes |-> NewNode]
  /\ store = [n \in Nodes |-> NewStore]

-----------------------------------------------------------------------------
(* The relay's use of the store.                                            *)

Canonical(c, h) == block(c, BlockOf[h].height) = h

(* What the attached block expired, as AppliedBlock reports it.             *)
Removed(c, h) ==
  IF BlockOf[h].prev = c.tip THEN gc_removed_domains(c.state, TipBlock(c).ts) ELSE {}

(* accept_block up to the broadcast.  The RAM has switched when the store   *)
(* refuses (a sister block is not above the stored tip): the error is       *)
(* reported and nothing is undone.                                          *)
AcceptBlock(n, h) ==
  /\ chain[n] # None
  /\ ~Canonical(chain[n], h)
  /\ \E c \in {try_attach(chain[n], h)} :
       /\ c # None
       /\ chain' = [chain EXCEPT ![n] = c]
       /\ store' = [store EXCEPT ![n] =
                      OrElse(store_block_with_removals(@, c.state, h, Removed(chain[n], h)), @)]

Crash(n) ==
  /\ chain[n] # None
  /\ chain' = [chain EXCEPT ![n] = None]
  /\ UNCHANGED store

Restart(n) ==
  /\ chain[n] = None
  /\ \E c \in {load_chain(store[n])} : c # None /\ chain' = [chain EXCEPT ![n] = c]
  /\ UNCHANGED store

-----------------------------------------------------------------------------
(* Repair tools, on a stopped node: an entry is rewritten as the audit      *)
(* replay finds it.                                                         *)

Write(n, st) ==
  /\ chain[n] = None
  /\ st # None
  /\ store' = [store EXCEPT ![n] = st]
  /\ UNCHANGED chain

RepairDomain(n, d) ==
  \E c \in {load_chain_replay(store[n])} :
    /\ c # None
    /\ IF c.state.domains[d] = None
         THEN Write(n, remove_domain_state(store[n], d))
         ELSE \/ Write(n, put_domain_state(store[n], d, c.state.domains[d]))
              \/ Write(n, put_domain_state_with_name(store[n], d, c.state.domains[d]))

RepairTld(n, t) ==
  \E c \in {load_chain_replay(store[n])} :
    /\ c # None
    /\ c.state.tlds[t] # None
    /\ \/ Write(n, put_tld_state(store[n], t, c.state.tlds[t]))
       \/ Write(n, put_tld_state_with_name(store[n], t, c.state.tlds[t]))

RebuildNames(n) == Write(n, rebuild_name_index(store[n]))

-----------------------------------------------------------------------------
(* Bootstrap.                                                               *)

(* The state after h on its own branch, by replay.                          *)
Replay == [h \in Hashes \cup {0} |-> push_all(NewNode, Path[h])]
StateAt(h) == Replay[h].state

(* The finalized checkpoint of block h, which the importer trusts.          *)
CheckpointOf(h) ==
  [height |-> BlockOf[h].height, block_hash |-> h, state_root |-> StateAt(h).smt]

(* The entry with its absent record replaced by the hash of zeros.          *)
Zeroed(e) ==
  IF e.kind = "DOM" /\ e.val.record = None THEN [e EXCEPT !.val.record = ZERO_HASH] ELSE e

(* An export as it may arrive: intact, without its last page, with two      *)
(* pages exchanged, with a page twice, with a page that lost its first      *)
(* entry, or with records that nobody published; the manifest of the last   *)
(* two is recomputed to match.  An empty registry has no page to alter.     *)
Arrivals(x) ==
  LET m == x.manifest
      p == x.pages
      n == Len(p)
      short  == [p EXCEPT ![1].entries = Tail(@)]
      zeroed == [i \in 1..n |-> [p[i] EXCEPT !.entries = [j \in DOMAIN @ |-> Zeroed(@[j])]]]
  IN IF n = 0 THEN {x}
     ELSE {x,
           [manifest |-> m, pages |-> SubSeq(p, 1, n - 1)],
           [manifest |-> m, pages |-> <<p[n]>> \o SubSeq(p, 1, n - 1)],
           [manifest |-> m, pages |-> Append(p, p[n])],
           [manifest |-> [m EXCEPT !.pageHashes = short,
                            !.domainCount = IF p[1].entries[1].kind = "DOM" THEN @ - 1 ELSE @,
                            !.tldCount    = IF p[1].entries[1].kind = "TLD" THEN @ - 1 ELSE @],
            pages    |-> short],
           [manifest |-> [m EXCEPT !.pageHashes = zeroed], pages |-> zeroed]}

Import(n, from, h) ==
  \E x \in {export_verified_snapshot(store[from], CheckpointOf(h))} :
    /\ from # n /\ x # None
    /\ \E arrival \in Arrivals(x) :
         Write(n, import_verified_snapshot(store[n], CheckpointOf(h),
                                           arrival.manifest, arrival.pages))

FetchAnchor(n, h) == Write(n, append_bootstrap_anchor(store[n], h))

Next ==
  \E n \in Nodes :
    \/ \E h \in Hashes : AcceptBlock(n, h) \/ FetchAnchor(n, h)
    \/ Crash(n) \/ Restart(n) \/ RebuildNames(n)
    \/ \E d \in Domains : RepairDomain(n, d)
    \/ \E t \in Tlds : RepairTld(n, t)
    \/ \E from \in Nodes, h \in Hashes : Import(n, from, h)

Spec == Init /\ [][Next]_vars

-----------------------------------------------------------------------------
(* Properties.                                                              *)

(* Every node's store and chain have the shape of the code's tables.        *)
TypeOK ==
  \A n \in Nodes :
    /\ store[n].byHeight \in [Heights -> Hashes \cup {None}]
    /\ store[n].byHash \subseteq Hashes
    /\ store[n].domains \in [Domains -> DomainState \cup {None}]
    /\ store[n].tlds \in [Tlds -> TldState \cup {None}]
    /\ store[n].domainCount \in Nat /\ store[n].tldCount \in Nat
    /\ store[n].names \subseteq Ids /\ store[n].reverse \subseteq Ids
    /\ store[n].tip.height \in Heights \cup {0}
    /\ store[n].tip.hash \in Hashes \cup {0}
    /\ chain[n] # None => chain[n].tip \in Hashes \cup {0}

(* A store that was never written across a tie-break: its blocks are linked *)
(* by their parent hashes.                                                  *)
Linked(st) ==
  \A k \in Heights :
    (k + 1 \in Heights /\ st.byHeight[k] # None /\ st.byHeight[k + 1] # None)
      => BlockOf[st.byHeight[k + 1]].prev = st.byHeight[k]

(* Domains that a stored block both expired and registered again.           *)
Reborn(st) ==
  UNION {gc_removed_domains(StateAt(BlockOf[h].prev), BlockOf[BlockOf[h].prev].ts)
           \cap touched_domains(h) : h \in st.byHash}

(* One entry, or, in an imported store, two with the same leaf: the root of *)
(* the checkpoint does not tell a domain without a record from one with the *)
(* hash of zeros, and a page may say either.                                *)
Alike(st, d, v, w) ==
  \/ v = w
  \/ st.marker # None /\ None \notin {v, w} /\ DomainLeaf(d, v) = DomainLeaf(d, w)

(* On disk the registry is what a replay of the branch of the stored tip    *)
(* gives, for the incremental deltas of every block and after any crash,    *)
(* repair or import of pages altered in the ways of Arrivals                *)
(* (store_block_with_removals, import_verified_snapshot); an import fixes   *)
(* every entry up to its leaf.                                              *)
(* It holds for a linked store and for the domains that were not reborn in  *)
(* the block that expired them: append_deltas removes those.  A store that  *)
(* holds its whole history resolves all these names.                        *)
TablesAreReplay ==
  \A n \in Nodes :
    LET st == store[n]
        s  == StateAt(st.tip.hash)
    IN Linked(st) =>
         /\ st.tlds = s.tlds
         /\ \A d \in Domains \ Reborn(st) : Alike(st, d, st.domains[d], s.domains[d])
         /\ st.marker = None =>
              (Stored(st.domains) \cup Stored(st.tlds)) \ Reborn(st) \subseteq st.names

(* Whatever was appended, across whichever fork, repaired, rebuilt or       *)
(* imported: the maintained counters count the tables, and the name index   *)
(* answers for live names only and never "corrupted".                       *)
BookkeepingExact ==
  \A n \in Nodes :
    LET st == store[n]
    IN /\ st.domainCount = Cardinality(Stored(st.domains))
       /\ st.tldCount = Cardinality(Stored(st.tlds))
       /\ \A i \in Ids : /\ resolve(st, i, Domains) \in {None, i}
                         /\ resolve(st, i, Tlds) \in {None, i}
       /\ st.names \subseteq Stored(st.domains) \cup Stored(st.tlds)

(* The persisted snapshot is the registry as it was after its own block,    *)
(* although it is taken while the next one is appended (append_core); an    *)
(* imported one up to the leaves.                                           *)
SnapshotIsBoundary ==
  \A n \in Nodes :
    LET st == store[n]
    IN (Linked(st) /\ st.snapshot # None) =>
         /\ st.snapshot.hash \in Range(Path[st.tip.hash])
         /\ st.snapshot.height = BlockOf[st.snapshot.hash].height
         /\ st.snapshot.tlds = StateAt(st.snapshot.hash).tlds
         /\ \A d \in Domains \ Reborn(st) :
              Alike(st, d, st.snapshot.domains[d], StateAt(st.snapshot.hash).domains[d])

(* Both ways to boot give one chain: the snapshot with its replayed suffix  *)
(* and the full tables agree on the tip, the registry, the counters, the    *)
(* expiration queue and the reference counts; and the process that comes up *)
(* refuses the same transactions as replays as one that never stopped.      *)
BootPathsAgree ==
  \A n \in Nodes :
    LET Rules(c) == [c.state EXCEPT !.grace = None, !.ownerKeys = None, !.banned = None]
        st == store[n]
    IN Linked(st) =>
         /\ Reborn(st) = {} =>
              \A s \in {try_load_from_snapshot(st)}, f \in {load_from_full_state(st)} :
                s # None => s.tip = f.tip /\ Rules(s) = Rules(f)
         /\ (st.marker = None /\ st.tip.height > 0) =>
              load_chain(st).included = Replay[st.tip.hash].included

(* A node that stored its tip block starts again, after any crash: only an  *)
(* import whose anchor block is still missing keeps it down.                *)
AlwaysBoots ==
  \A n \in Nodes :
    LET st == store[n]
    IN load_chain(st) = None =>
         st.marker # None /\ st.byHeight[st.tip.height] = None

(* integration.rs load_chain: after any crash a node that stored its tip    *)
(* comes up, and it comes up the same whichever way it boots.               *)
BootSafe == AlwaysBoots /\ BootPathsAgree

(* scone-storage/src/lib.rs:184, block_at_height: "Encoded canonical block at `height`, if    *)
(* stored": the blocks on disk are those of the running chain.              *)
StoredAreCanonical ==
  \A n \in Nodes :
    chain[n] # None =>
      \A k \in Heights :
        (store[n].byHeight[k] # None /\ block(chain[n], k) # None)
          => store[n].byHeight[k] = block(chain[n], k)

(* The store implements the durable log.                                    *)
Durable ==
  INSTANCE DurableLog WITH
    Blocks <- Hashes, LogHeights <- Heights, Absent <- None,
    height <- [n \in Nodes |-> store[n].tip.height],
    at     <- [n \in Nodes |-> store[n].byHeight]

(* No step of a node, a crash, a repair or an import replaces or loses a    *)
(* stored block, and the stored tip moves up one block at a time.           *)
DurableSpec == Durable!LogSpec
=============================================================================
