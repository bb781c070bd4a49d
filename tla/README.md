# Formal model of scone

scone is a naming chain: peer-to-peer relays keep a block chain whose state is a
registry of top-level domains, names and their owners, and serve DNS records
signed by those owners. This directory holds TLA+ modules that model it, the TLC
configurations that check them on small instances, and proofs, checked by TLAPS,
that hold for every instance.

## 1. Inventory

| Component (crate / file) | State | Operations | Interacts with | What makes it correct |
|---|---|---|---|---|
| Registry (`scone-blockchain/state.rs`) | domains, TLDs, learned owner keys, owner reference counts, expiration queue, grace entries, sparse Merkle tree, bans, counters | ten transaction kinds, garbage collection, rollback of an undo log | called by the chain for every block | every derived index is exact; a refused block leaves no trace; no lapsed name is visible |
| Chain (`chain.rs`) | canonical blocks in a bounded RAM window, hash index, tip, registry, anti-replay index, checkpoints, finalized base | `push_block_with_gc`, eviction, lookups, `restore` | registry, fork choice, finality; driven by the relay | window and index agree with the chain |
| Fork choice (`fork_choice.rs`) | none of its own | `try_attach`, `adopt_branch`, `reorg_to_height` | rebuilds a chain and swaps it in | the tip only improves; state = replay |
| Finality (`finality.rs`, `scone-core/checkpoint.rs`) | checkpoints, frozen pool, seed | committee draw, content rules, acceptance, allowed producers | reads registry and chain; decides who may produce | checkpoints chain |
| Signer guard (`signer.rs`) | last vote per key in RAM and in a file | `load`, `may_sign`, `authorize` | anchor loop, file system | one vote per key and epoch across crashes |
| Anchor loop (`scone-network/relay/anchor.rs`) | pending signatures per content | propose, merge, aggregate, finalize, gossip | signer guard, chain, peers | one committee never finalizes two contents of an epoch; only what a quorum signed is finalized; a common vote finalizes everywhere |
| Relay (`relay/chain.rs`, `mempool.rs`, `builder.rs`) | chain, store, mempool, peers | accept block, accept transaction, produce | all of the above | mempool and stored blocks agree; one history once a key is staked |
| Sync and messages (`relay/swarm.rs`, `sync.rs`) | per-peer sync state | block requests, peer messages, connections | relay | a node behind catches up |
| RPC and DHT (`relay/rpc_dispatch.rs`, `rpc.rs`) | waiters with deadlines, record cache, connection slots | lookups, publication, record verification | relay, Kademlia | every caller is answered; only the committed record is served |
| DNS server (`dns.rs`) | answer cache, slots | queries over UDP and TCP, upstream fallback | RPC | answers are fresh and whole |
| Node store (`scone-storage`) | redb tables, snapshots, name index | append, snapshot, boot, repair, export, import | relay | tables = replay of the blocks; every boot path agrees |
| Sparse Merkle tree, Merkle root (`smt.rs`, `merkle.rs`) | tree | insert, remove, root | registry, blocks | the root is a function of the content only |
| Codecs and core types (`scone-protocol`, `scone-core`) | none | encode, decode, validate, sign | every message and stored entry | round trip, one encoding per value, signatures cover everything |
| Keystore and command line (`scone-keystore`, `scone`) | keyfiles | generate, restore, sign, submit, register, update | file system, RPC | no key is lost; success is reported only when it is so |

The relay is one event loop: handlers run to completion, so there is no
interleaving inside a handler. The hard parts are elsewhere: the order in which
blocks, branches, transactions, checkpoints and answers arrive and at which
nodes; handlers that fail half way (undo log, RAM against disk); crashes between
the steps of a write; derived state that is maintained by hand in every arm of
every operation; tasks that share caches and slots; windows, caps, deadlines and
timestamps at their boundaries. PROJECT.json lists each of these at its line
under "hazards".

## 2. Plan

Modelled, in the order in which the modules build on each other: registry,
signer guard, chain (composes registry, window, fork choice, finality), anchor
loop (composes chain rules and signer rule for several relays), node store
(composes chain and store; implements `DurableLog`), codecs, trees, relay
network, resolution, client. Proofs exist for the registry, the signer, the
chain, the anchor loop, the store, resolution and the client (section 6). What
could follow:

1. an anchor loop of two epochs, where two aggregates of one content matter;
2. an abstract specification of name ownership implemented by `ChainState`;
3. a proof of `TablesAreReplay` for trees whose blocks do not depend on what a
   restart forgets.

## 3. Modules

**ChainStateOps** is the registry as a value: a record with one field per field
of `ChainState`, one rule (`...Ok`) and one effect per transaction kind, the
expiry of one registration, and the inverse of each undo entry. Maps are total
functions with `None` for an absent key. The tree is the set of its leaves, a
leaf being an id with its whole entry: hashing is taken as injective. What is
hashed is not: a domain without a record has the leaf of one whose record hash is
zero (`ZERO_HASH`, finality.rs:341-345). An owner
and its key are one value, because `validate` refuses a transaction whose owner
is not derived from its key. `registered_at` is left out: no rule reads it.
**Registry** applies the transactions of a block to it.

**ChainState** drives it through blocks: `BeginBlock` (the parent's timestamp,
any value of `Times`: the code does not require timestamps to increase),
`GcOne`/`GcDone` (`gc_expired_journaled`), one action per transaction kind,
`Commit`, `Reject`/`RejectUpdate`, `RollbackOne`/`RollbackDone`. Steps inside a
block are separate actions so that invariants are checked between them.
`RejectUpdate` is the one refusal that has already changed something.
`saved` and `trail` are history variables that no action reads.

**SignerGuard** splits `authorize` at every point where the process or the
machine may stop: vote in RAM, temporary file written and synced, rename, sync
of the directory, signature handed out. `file` is what a read returns, `disk`
what is left after a power loss. `Crash`, `PowerLoss`, `WriteBack` and `Damage`
are the environment. `DirSyncMayFail` says whether the directory sync, whose
result the code ignores, may fail.

**ChainOps** is a node's `Blockchain` as a record, with one operator per method,
and `None` for a refused call. That a refused block leaves the registry alone is
not an assumption but the theorem `RollbackIsExact`. Hashes are numbers, compared
as the code compares their bytes; `BlockOf` is the tree of all blocks any peer
may send; `Rank` is the order of a committee draw. Everything that depends on the
bytes of a block alone (version, Merkle root, signatures, proofs of work) is the
flag `sound`. `Path` and `BranchState` are the branch that ends in a block and its
replay, the reference that the properties compare a node with.

**Chain** feeds one node with the tree in any order, any number of times:
`Extend`, `TieBreak`, `AdoptBranch`, `AcceptCheckpoint`. Checkpoints are those
that anchors on any branch could have built (`CheckpointOn`), signed by any of
`SignerSets`. `RelaySpec` leaves `AdoptBranch` out: a deployed relay never calls
it, so the counterexamples below do without it.

**AnchorLoop** runs several relays, each a `ChainOps` node with its pending
signatures and last vote. A handler is one step and computes the messages it
sends; `Produce`, `ReceiveBlock` and `ReceiveCheckpoint` are the handlers, `Lose`
and `Overtake` the transport, which opens a stream per request. Signatures are
merged unverified (anchor.rs:124-136, 331), so a set of signatures holds keys whose
bytes verify (`signers`) and keys whose bytes do not (`void`), and the last one
that arrives replaces the other. `Outsider` is a peer that is none of the relays: it
has the signatures that were cast and puts what it likes under the other keys.
They are verified when a quorum of keys is there: if too few verify, the whole
content is dropped. A sister block that wins the tie only changes the chain in
RAM: the store refuses it, so it is neither relayed nor followed by the loop.

**StoreOps** is the store of a node as a value (one field per redb table) with
one operator per operation, each one write transaction that either commits or
changes nothing; **NodeStore** runs nodes with RAM and disk: `AcceptBlock`,
`Crash`, `Restart`, the repair tools, and the bootstrap from a snapshot that may
arrive damaged or altered (`Import`, `FetchAnchor`; `Zeroed` is the alteration that
keeps the root, a zero hash in the place of no record). **DurableLog** is what the store promises
about blocks: written once, never replaced, the tip moves up one at a time, and
only an empty store may jump. `DurableSpec` instantiates it with `height` and `at`
mapped to the tip and the height table: the refinement.

**Codec**, **TxCodec** and **Wire** are the byte formats. A format is a layout (the
sequence of its field names); the signed and the unsigned view of a transaction
have layouts of their own, because the code writes them in two places. Ids,
signatures and integers have small widths, which no operator depends on; `U16_MAX`
is far below `U64_MAX`, so that the range check of a u16 is a check. `Wire`
sends one value, lets the channel replace, insert or cut once, and decodes.

**Smt** is the compact tree with slots, branch points and buckets, next to the
full tree as reference; hashes are terms. The recursion makes it a module for TLC
only.

**Relay** is a network of relays: connections, sync per peer, block and
transaction gossip, mempool, production with its shrinking candidate list.
Messages arrive in any order. A block is the chain that ends in it, since its
hash commits to its history. `stored` is what the store holds: a sister that wins
the tie moves `chain` and nothing else (`ReceiveRefusedBlock`). Expiry and
checkpoints are left to the modules above.

**Dns** holds the decisions of the DNS surface as operators, **Resolve** runs them:
RPC clients and the DNS tasks compete for connection slots; the relay task
dispatches one command at a time and parks lookups; the DHT is external and may
answer anything it holds, or nothing; DNS tasks share the answer cache behind a
lock that they hold while they wait. Meanwhile the chain moves on. What an upstream
answers is passed on as it is, its AA bit included (`Relayed`).

**Wallet** holds what a user's machine computes (keyfiles, record files,
transactions built, rebound and signed), **Client** runs commands of the CLI side
by side: one system call or one round trip per step, killed between any two,
against a relay whose registry is a map. The rules on TLDs are satisfied
throughout here; they are in `ChainState`.

`MC...` modules hold the constants of the runs. Operators whose name ends in
`_mut` are faulty variants of the definition that follows them; each breaks one
of the properties, which shows that the property depends on that code.

## 4. Runs

| Run | States | Instance | What it shows |
|---|---|---|---|
| `ChainState` | 183,000 | one name, two owners, one TLD, timestamps 0..3 in any order, terms and horizons of 2 and 3, so that renewal, lapse, grace and re-registration happen | the tree commits exactly the registry; transactions see no lapsed name; the pool is the live stake |
| `ChainStateTwo` | 1.5 million | two names that share TLD, owner and slot; two undo entries per block, enough for entries to overlap on one name | queue, reference counts and counters are exact; rollback is exact |
| `SignerGuard` | 157,000 | two keys, three epochs, two contents each | one vote per key and epoch; what was sent is durable; votes advance |
| `Chain` | 22,000 | fourteen blocks in two branches, four anchors, a replayable transaction, a lapsing name, a slash, a wrong height, an unsound block; windows of two blocks, two checkpoints kept | `WindowSound`, `CheckpointsChained`, `StateIsReplay`, `ReplayIndexOfGrowth`, `TipImproves`, `AdoptionKeepsFinalized` |
| `AnchorLoop` | 260,000 | two anchors, both needed for a quorum, and a passive relay; a fork at the second height, one epoch, the same committee on both sides, the floor of a committee lowered from 4 to 2; one pending content at most; one request that fails or is overtaken, on one link, or one checkpoint of an outsider, with any valid and invalid signatures | `FinalizedAgree`, `CountsOnlyVotes`, `CommonVoteFinalizes` |
| `NodeStore` | 2,700 | two nodes over one branch on which a TLD is revoked and a domain lapses and returns, and a sister that wins a tie; pages cut, reordered, altered or zeroed | tables, name index and snapshot match the replay, a zero hash counting as no record (`TablesAreReplay`, `SnapshotIsBoundary`); the counters count and the index answers for live names (`BookkeepingExact`); every boot path agrees and works (`BootSafe`); the refinement `DurableSpec` |
| `Wire` | 41,000 | valid values of every type; values just past the checks of names, lists, versions, bindings, signer orders, sequences and of u16; pages and manifests one item too long, manifests that miscount; each damaged once, and all short varints | `RoundTrip`, `Canonical`, `SignatureCovers` |
| `Smt` | 4,200 | depth 3, all eight keys, buckets up to three; lists of up to four transactions | `RootCommits`, `ShapeOfKeys`, `TxRootCommitsDistinct` |
| `Relay` | 141,000 | three relays in a line, one staked producer; one relay without a block, where two TLDs are claimed, so that it may start a chain of its own and lose a tie-break; connections opened twice, one at a time, one fault | `PoolReconciled`, `OneHistory`, `CatchUp` |
| `Resolve` | 103,000 | two domains, one below the other, over three registries; loads of three callers on slots and caches of one or two entries | `AnswersVerified`, `AnswersFresh`, `NoSilentCut`, `EveryoneAnswered` |
| `Client` | 66,000 | up to four commands on one keystore and one relay, in seven combinations; one lapse, eviction or replaced block | `KeysKept`, `SuccessIsTrue`, `CommandsEnd` |
| `ChainFinal` | | the tree of `Chain`, without `AdoptBranch` | the counterexample of section 5 |

Bounds are as small as lets every branch of the code happen: windows, caps and
caches of one or two entries, so that eviction, pruning, refusal and truncation
occur within a few steps. TLC's coverage shows every action and every disjunct of
the next-state relations taken, in `Relay` the tie-break too.

Deadlock is checked in the registry and signer runs. The others switch it off:
their blocks, commands or queries are finite, so the system may really stop.

Fairness. `AnchorLoop`: a link that holds messages is served; nobody has to
produce. `Relay`: messages on an open connection arrive, and the production timer
fires (the event loop selects among ready sources). `Resolve`: the relay task
serves its queue and its timers, connections progress or time out, DNS tasks run;
nothing is assumed of the DHT. `Client`: commands that are not killed go on,
because every round trip ends in an answer or in the client's timeout; nothing is
assumed of the relay.

What is conditional. `FinalizedAgree` is about relays that drew the same committee
for an epoch: forks whose registries differ may draw different ones, and then
nothing keeps them from finalizing different blocks. `CommonVoteFinalizes` excludes
behaviours with a fault: a signature that overtakes its block is refused and never
sent again, and an outsider's bytes take valid signatures with them. After a split
vote nothing is finalized in that epoch, ever. `PoolReconciled` is about stored
blocks: the transactions of a block taken by a tie-break stay pooled, because
`accept_block` leaves through its `?` before it removes them (`PoolFollowsChain` is
the sentence without the exception, and fails). `OneHistory` is about blocks above
a registry with a staked key: with an empty pool anyone may produce
(producer.rs:23-24), and a TLD claimed at a relay without blocks starts a chain of
its own. `CatchUp` is for pairs whose sync survives and relays that started no such
chain: the sync stops at a tie-break. `RoundTrip` says of pages and manifests, whose
encoders check nothing, that those beyond the limits are refused. `TablesAreReplay`
and `SnapshotIsBoundary` take a zero record hash for no record (`Alike`).
`AnswersFresh` is about names that the relay resolves itself; forwarded answers
carry the AA bit of their upstream. `Reborn` excludes from the store's
properties names that expire and return in one block, and `Linked` stores that
were written across a tie-break. `AnswersVerified` starts from a DHT that holds
records under their own key only. `Canonical` excludes snapshot pages.

Symmetry under permutation of owners (registry) and of keys and contents
(signer) is used for invariants, and for one action property of the signer that
treats all keys and contents alike; none of the constants distinguishes them.

## 5. Where the code and its comments disagree

Each configuration below checks a sentence of the repository that the code
does not keep; `tlc -config <name>.cfg <module>` prints the counterexample.
`ChainComments` holds several, each in brackets: leave one, or run with
`-continue`. `ChainFinal` is also a run of PROJECT.json.

| Configuration, module | Sentence | What TLC shows |
|---|---|---|
| `ChainFinal`, MCChain | finality.rs:10 "A finalized checkpoint is immutable: no reorg, no recovery, no external procedure can produce a branch contradicting a finalized checkpoint"; fork_choice.rs:41 | `try_attach` (fork_choice.rs:80) goes back to the parent of a lower-hash sister without looking at the checkpoints: a finalized tip leaves the chain |
| `ChainStateSlash`, MCChainState | state.rs:973 "idempotent — an already-banned key changes nothing, the tx is still valid" | the pool excludes banned keys and the offender must be in it (state.rs:981): a second slash is refused |
| `SignerGuardDirSync`, MCSignerGuard | signer.rs:5, the context is persisted durably "(write + fsync + rename + fsync dir)" before the signature is handed out | the result of the directory sync is discarded (signer.rs:235): if it fails, a power loss allows a second vote |
| `ChainComments` (`ReplayIndexIsPure`), MCChain | chain.rs:17 the anti-replay rule "is a pure function of the canonical chain" | `swap_with` (fork_choice.rs:228) does not swap `included` |
| `ChainComments` (`NoTransactionTwice`), MCChain | chain.rs:103 "a transaction never enters the chain twice" | ids enter the index after the whole block (chain.rs:522): one block may carry `SetTldOpen` twice |
| `ChainComments` (`CheckpointIsOurs`), MCChain | finality.rs:133 "the referenced block must be in OUR chain" | the block hash is never compared (finality.rs:140) |
| `ChainComments` (`PoolFrozenAtBlock`), MCChain | finality.rs:66 "Eligibility pool frozen at the finalized block" | it is the pool of the tip at acceptance (finality.rs:261) |
| `ChainComments` (`OwnChainReplays`), MCChain | fork_choice.rs:174 "The state replays from genesis — exact and deterministic" | the replay runs under today's finalized base (fork_choice.rs:206), which refuses the bootstrap blocks |
| `NodeStoreFork`, MCNodeStore | scone-storage/lib.rs:184 "Encoded canonical block at `height`, if stored." | after a tie-break the store refuses the sister (relay/chain.rs:52): disk and RAM hold different blocks |
| `WirePage`, MCWire | verified_snapshot.rs:278-280, a page has no excess byte | a domain entry without hash may declare the longer length and carry any filler (verified_snapshot.rs:287) |
| `Smt` with the invariant `TxRootCommits`, MCSmt | block_hash.rs:18 "the header's `tx_root` already commits to the ordered transaction list" | the last leaf of an odd level is repeated, so lists with repetitions share roots |
| `RelaySync`, MCRelay | relay.rs:20 "when a peer connects, ask GetBlocks(from = height + 1)"; "repeat until the peer has nothing more" | one failed request drops the sync state (swarm.rs:112-115) and nothing restarts it while the connection stays open |
| `ResolveForeign`, MCResolve | rpc_dispatch.rs:267-269, a record of domain B under A's key lands "in the `else` branches" | only the DHT key is compared: B's record is returned for A, and cached |
| `ResolveCut`, MCResolve | dns.rs:22-24, a client "retries over TCP", which serves the full set | an answer that an upstream cut is served over TCP as it is |
| `ResolveCut` (`AaIsOurs`), MCResolve | dns.rs:283-287 "the AA bit is set **only** on answers produced by the authoritative path"; "fallback answers ... are never marked authoritative" | a reply that fits is forwarded as it came (dns.rs:352-353), with the AA bit of the upstream |
| `AnchorLoop` with the property `GossipEnds`, MCAnchorLoop | anchor.rs:121-123 "callers relay the message only then, cutting gossip loops" | a content that is dropped as soon as it is merged (a quorum that does not verify) or evicted is new again when it comes round, and is relayed for ever |
| `Relay` with the invariant `PoolFollowsChain`, MCRelay | relay/chain.rs:28-29 "Full acceptance path of a block (P2P or self-produced): validate → store → broadcast → reconcile mempool" | on a tie-break won the store's error ends it (relay/chain.rs:52-58): the block is in the chain, its transactions in the mempool |
| `ClientRebind`, MCClient | scone/tx.rs:465 "rebind keeps every carried field, only the signer identity is recomputed" | all kinds but Slash are rebound to the test network |

Smaller disagreements met while modelling, without a configuration:

- registry: an update refused for its sequence number has already learned the
  owner's key (state.rs:743 against 740-742; the callers' rollback repairs it); a
  ban does not change the root that checkpoints commit to (state.rs:546 against
  finality.rs:403-408); a duplicate of the last checkpoint is an error, because
  `check_checkpoint_data` runs before the duplicate test (finality.rs:226 against
  222-224); `committee`, `allowed_producers` and `accept_checkpoint` read the pool
  before expired names are collected (chain.rs:553 against finality.rs:371-375);
- store: a domain that expires and returns in one block is removed from the store
  (redb.rs:987); the boot path rebuilds the registry without grace entries, keys
  and bans, although state.rs:566 calls it rule-identical, and with the test
  network, so that a mainnet directory does not reload; an import writes no name
  index and `rebuild_name_index` fails on an imported store; the leaf of a domain
  maps no record and a zero record hash to the same bytes (finality.rs:341-345), so
  an imported page may turn one into the other under a root that a checkpoint
  signed, and `TablesAreReplay` with plain equality fails; the encoders of pages and
  manifests do not know the limits of their decoders (verified_snapshot.rs:134-147
  and 258-276 against 178-182 and 303), which only matters beyond 2^20 pages, since
  the export cuts pages at 256 entries;
- anchors: the checkpoint hash covers its signer set (checkpoint.rs:123), so two
  aggregates of one content have two hashes;
- relay: the shrinking candidate list also drops transactions that would have
  applied (relay/chain.rs:355), and a relay that may not produce drops pooled
  transactions at every tick; the per-domain cap is tested before duplicates are
  noticed, so a duplicate may be an error; transactions of an abandoned sister are
  not pooled again; closing one of several connections forgets the peer;
- resolution: a label with `_` always gives SERVFAIL; a refused QCLASS is silence,
  not REFUSED (dns.rs:26); an upstream's set gets the largest of its TTLs and
  cached TTLs do not count down; the cache lock is held across RPC and upstream
  waits; RPC connections above the limit are shed, though config.rs:22-27 says
  they wait; `MAX_DHT_WAITERS` (256) cannot be reached with 64 connections;
- client: a killed `generate` leaves an empty keyfile that neither opens nor can
  be created again without `--force`, and `--force` truncates before it writes;
  `create_with_phrase` does not create the keystore directory, `create` does; the
  `height` that `register` prints is always null; an `update` that is killed or
  cut off may leave a committed hash without a published record.

## 6. Proofs

Each theorem below holds for every value of the constants that satisfies the
named assumptions; TLC evaluates those assumptions in the runs. `None` is assumed
to differ from whatever it is absent from (`NoneIsNoEntry`, `NoneIsNoBase` and
parts of other assumptions): it is a model value in the runs.

**Registry.** `ChainState_proofs` proves, for all finite sets of owners, TLDs and
domains, all terms and all timestamps, the type invariant and every invariant of
the two registry runs, and two more that the runs leave out (`GraceOnlyLapsed`,
`UndoLogInverts`). The assumptions are `RegistryConstants`, `NoneIsNoEntry` and
`BlockConstants`.

Rollback exactness is not inductive: to undo an expiry by deleting a grace entry
is only exact if none was there before, to undo a registration exactly needs the
queue to have held no other slot, and so on; and it speaks of states that are
gone. The inductive invariant `IInv` therefore says: the current registry and
every registry on the trail is good (typed, tree, queue, counts and grace exact);
each undo entry turns the state after it into the state before it (`History`);
outside `idle` the bottom of the trail is `saved`; and during `apply` nothing live
has lapsed. For each transaction kind one lemma shows that the effect keeps a good
registry good and that its undo entry inverts it; cardinality facts about the
reference counts come from `FiniteSetTheorems`. `RollbackIsExact` follows because
an empty log makes the current state the bottom of the trail.

**Signer.** `SignerGuard_proofs` proves the type invariant outright, and, assuming
`~DirSyncMayFail`, that no key votes twice, that a vote handed out is on disk,
and that votes advance. The inductive invariant adds to these that RAM covers
everything that was handed out while the guard is loaded and unsealed, and that
between the record in RAM and the handing out the job is what RAM records. The
assumption is necessary: `SignerGuardDirSync` is the counterexample without it.
`AnchorLoop` uses the proved rule as a single step.

**Chain.** `Chain_proofs` proves everything that the run `Chain` checks, for every
tree of blocks, window size and delivery of blocks, branches and checkpoints: the
window answers for the canonical chain (`WindowIsSound`), checkpoints in RAM link
up (`CheckpointsAreChained`), the registry is the replay of the branch of the tip
(`StateIsAlwaysReplay`), the tip changes only for a taller branch or, at the same
height, for a smaller hash (`TipAlwaysImproves`), an adopted branch keeps what is finalized
(`AdoptionAlwaysKeepsFinalized`), and while no branch was abandoned the
anti-replay index is that of the branch (`ReplayIndexFollowsGrowth`). None is
inductive. `IInv` describes the whole node by its tip alone: `canonical`, `known`,
`base` are the end of `Path[tip]` (`NodeOK`), `state` is `BranchState[tip]`, the
finalized base is that of the last checkpoint and its height is on the chain.
`ChainOps_proofs` shows what each method does to such a node: one block pushed is
one step along the tree, a list pushed (the replay of a branch) is as many, going
back to a height gives a node of the ancestor. For the index the invariant adds
that an id is in it exactly if the replay window of the branch includes it, at
the last such height.
Besides types, `ChainConstants` says that the parents of blocks are well-founded:
a block commits to its parent's hash.

**Anchor loop.** `AnchorLoop_proofs` proves the two invariants of the run: whatever
bytes peers put under whatever keys, a quorum of the committee signed every content
that a relay finalizes (`OnlyVotesCount`), and relays that drew the same committee
for an epoch finalize the same content (`QuorumsOfOneCommitteeAgree`, for
`FinalizedAgree`): two quorums share a signer, and a key signs one content per epoch
(`AnchorsVoteOnce`). The invariant follows a signature through its whole way: those
that verify, in pending sets, checkpoints of a chain and messages under way, are
real votes; of the others nothing is said but that acceptance does not count them;
what was ever finalized had its quorum of votes; and the last vote of a relay is its
vote of the highest epoch. It is stated relative to a set of votes, because a handler
signs and merges in one step. That an outsider cannot sign with a key that is not
its own is the guard of `Outsider`, an assumption on Ed25519. `LoopConstants` requires that each anchor has a key of its
own (two processes with one key are beyond a guard that is one file) and that the
common blocks are valid. Agreement between forks that draw different committees is
not true for all constants, and `FinalizedAgree` does not claim it.

**Store.** `NodeStore_proofs` proves the refinement `Spec => DurableSpec`
(`StoreIsDurable`): initial stores map to initial logs, and each of append,
snapshot, the repair tools, import of a page, anchor, crash and restart is a step of
`DurableLog` or leaves its view alone. Every operation of `StoreOps` has a lemma
that classifies it: it leaves heights and tip alone, appends one block above the
tip, jumps from an empty store, or fills the height of its tip.

The same module proves that the maintained counters always count the tables and
that the name index answers for live names only (`BookkeepingAlwaysExact`), and
the type invariant (`StoreTyped`). The code never recounts: it adds and subtracts
one per row, and erases a name in three places. Exactness is therefore not
inductive. `StoreInv` says that every store is `Good`: besides exact counters, the
two rows of a name come and go together, no name is without its entry, and a store
without a tip is empty; and that every chain in RAM has a well-shaped registry,
which is what the deltas of its next block are read from. The empty store is what
an import needs, since it overwrites counters without reading them; that its
pages have strictly ascending ids is what makes their number the number of rows,
whatever a peer altered in them. An append counts right because every row it
writes is a live entry and it compares with the tables as it finds them; the index
stays right because a name that a block binds is live after that block or is
removed with it. One lemma per operation shows that a good store stays good.
`StoreConstants` says that ids are numbers, that a domain's is never a TLD's, that
the heights of the tree are an initial segment, and that a transaction carries the
fields of its kind.

**Resolution.** `Resolve_proofs` proves the three safety properties of the run
`Resolve`, for every history of the registry, all names, records, queries and
loads, and all sizes of caches and pools: an authoritative answer for a name that the
relay resolves itself is what the suffix search gives for views of the registry that were all current after the
search began, and it is served for less than its TTL (`Fresh`); a response without
the TC bit is whole (`Uncut`); an answer with a record carries what the domain
commits to (`Verified`). The last two have a hypothesis each: `WholeReplies`, that
upstreams send whole replies, and `WellFiled`, that the DHT starts with records
under their own keys. They are necessary, `ResolveCut` and `ResolveForeign` being
the counterexamples without them, and the run's instance satisfies both.

A response is a promise about states that are gone, so the model keeps in `last`
when each view of a domain was last current. The inductive invariant follows an
answer through the system: caches hold records under their domains (`RecordsOK`);
parked lookups are for the name their client asked for (`SlotsOK`); the resolver
is queued at most once (`QueueOK`); the current view was current now (`GhostOK`);
the task that holds the lock has seen every longer suffix unregistered since its
search began (`WalkOK`), and the answer under way to it is a view of the next
suffix since then (`AskOK`); cached entries and responses come from such a search
(`CacheOK`, `ResponsesOK`). The lock is what makes this hold: the search and the
resolver's one request belong to one task at a time.

**Client.** `Client_proofs` proves that generated keys are private and stay
(`KeysAreKept`) and that a command that reports success is right
(`SuccessesAreTrue`). The invariant says who holds which file between `open` and
the end of the command: only one creator gets past `create_new` per name, key
material is only in files of mode 0600, and a key that was written is there
unless a command that replaces has opened its file. `KeystoreConstants` says that
files found at the start are private.

Recursion and folds. A replay is a fold over a sequence, and `Path` and
`Checkpoints` are recursive functions. `ChainOps_proofs` proves induction over the
naturals for a set (no operator parameter is needed) and the two equations of a
left fold, for the operators the model folds with. `Path` is justified by the
well-founded parents. Where the code sorts, the model picks the order with CHOOSE,
since the library's sort has no proof theory, and speaks of the entries of pages
by their position instead of concatenating the pages.

Only model-checked:

- all liveness (`CommonVoteFinalizes`, `CatchUp`, `EveryoneAnswered`,
  `CommandsEnd`): the prover handles neither fairness nor ENABLED;
- `Wire`, `Smt`, `Relay`: they use RECURSIVE operators, with which the prover loses
  its SMT backend;
- `TablesAreReplay`, `SnapshotIsBoundary` and `BootSafe` of `NodeStore`: a restarted
  node has forgotten grace entries, keys and bans, so that its registry equals the
  replay only as far as the blocks of the tree do not depend on them, and a boot
  works only on the test network; these are facts about an instance, not about all
  constants. That the index is complete is part of `TablesAreReplay`.

## 7. Not modelled

- Cryptographic primitives: hashes are injective in the bytes they are given, a
  signature is its key with what it signs or does not verify, a proof of work is the pair it was mined for.
- libp2p: connections, streams and Kademlia appear as what the code sees of them.
- Argument parsing, output, logging, metrics, `dig`, the start of a relay.
- The simulator (`sim/mod.rs`), a test harness; `groups.rs` and the group cipher,
  which nothing in the node calls; the table of ICANN names, a parameter here.
- u64 arithmetic is unbounded outside `Codec`: the one unchecked addition on a
  timestamp is listed as a hazard.
