------------------------------- MODULE Relay -------------------------------
(***************************************************************************)
(* A network of relays (crates/scone-network): transaction and block       *)
(* gossip, block production, and the block sync that a new connection      *)
(* starts.  Every relay is one task that handles one event at a time, so   *)
(* an action is one event handler; messages travel on streams of their own *)
(* and arrive in any order.                                                *)
(*                                                                         *)
(* A block is [producer, txs], txs the ids of its transactions.  The hash  *)
(* of a block commits to its whole history, so a block in a message is the *)
(* chain that ends in it, without genesis.  Registrations do not lapse     *)
(* here (ChainState models expiry); checkpoints are left to AnchorLoop.    *)
(* Equal messages in flight are one: handling the second changes nothing.  *)
(***************************************************************************)
EXTENDS Registry

CONSTANTS
  Nodes,
  TxOf,         \* the transaction of each id
  KeyOf,        \* the key a relay produces with: its anchor key or the devnet key
  Lower(_, _),  \* the order of block hashes
  Links,        \* sets of two nodes that may connect
  InitLinks,    \* the links of equal chains that are connected at the start
  InitChain,    \* the chain each relay starts with
  Submissions,  \* pairs <<node, transaction id>>: what clients submit
  MaxConns,     \* connections between two relays (MAX_PER_PEER_CONNECTIONS)
  MaxOpens, MaxFaults,                \* bounds on connections opened, and on faults
  MAX_PENDING_PER_DOMAIN, CAPACITY,   \* mempool caps
  MAX_TXS_PER_BLOCK, MAX_SYNC_ROUNDS

ASSUME RelayConstants ==
  /\ IsFiniteSet(Nodes) /\ DOMAIN KeyOf = Nodes /\ DOMAIN InitChain = Nodes
  /\ \A l \in Links : l \subseteq Nodes /\ Cardinality(l) = 2
  /\ InitLinks \subseteq Links
  /\ \A l \in InitLinks : \A n, p \in l : InitChain[n] = InitChain[p]
  /\ MaxConns \in Nat /\ MaxOpens \in Nat /\ MaxFaults \in Nat
  /\ MAX_PENDING_PER_DOMAIN \in Nat \ {0} /\ CAPACITY \in Nat \ {0}
  /\ MAX_TXS_PER_BLOCK \in Nat \ {0} /\ MAX_SYNC_ROUNDS \in Nat \ {0}

VARIABLES
  chain,     \* the canonical chain of each relay
  state,     \* its registry
  included,  \* its anti-replay index
  stored,    \* the blocks of its store, by height
  mempool,   \* its pending transactions, in insertion order
  peers,     \* the peers it gossips to
  sync,      \* its sync driver per peer: [next, rounds] or None
  conns,     \* open connections of each link
  msgs,      \* messages in flight
  todo,      \* submissions to come
  opens, faults

vars == <<chain, state, included, stored, mempool, peers, sync, conns, msgs, todo, opens, faults>>

-----------------------------------------------------------------------------
(* The chain of one relay.                                                  *)

NOW == 0
ApplyIds(s, ids) == ApplyTxs(s, [i \in DOMAIN ids |-> TxOf[ids[i]]], NOW)
StateOf(c) == FoldLeft(LAMBDA s, b : ApplyIds(s, b.txs), EmptyState, c)
IdsOf(c) == UNION {ToSet(c[i].txs) : i \in DOMAIN c}

(* validate_transaction, and the proof of work that apply_journaled_at adds *)
(* to ApplyTx.                                                              *)
ValidTx(tx) == tx.sound /\ (tx.op \in {"RegisterDomain", "RegisterTld"} => tx.pow)

(* Mutant: any key may produce.                                             *)
MayProduce_mut(s, key) == TRUE

(* Before the first checkpoint: the staked keys, or anyone while there are  *)
(* none (a pool no larger than the committee is drawn whole).               *)
MayProduce(s, key) == eligible_validators(s) = {} \/ key \in eligible_validators(s)

(* push_block of block b on a chain with registry s and anti-replay index   *)
(* inc.                                                                     *)
PushOk(s, inc, b) ==
  /\ Len(b.txs) <= MAX_TXS_PER_BLOCK
  /\ ToSet(b.txs) \cap inc = {}
  /\ MayProduce(s, b.producer)
  /\ \A i \in DOMAIN b.txs : ValidTx(TxOf[b.txs[i]])
  /\ ApplyIds(s, b.txs) # None

(* A sister of the tip with a lower hash; its prefix is ours, replayed.     *)
WinsTie(c, b) ==
  /\ Len(b) = Len(c) /\ b # c /\ Front(b) = Front(c)
  /\ Lower(b, c)
  /\ PushOk(StateOf(Front(c)), IdsOf(Front(c)), Last(b))

IsDuplicate(c, b) == IsPrefix(b, c)
Extends(n, b) == Front(b) = chain[n] /\ PushOk(state[n], included[n], Last(b))

-----------------------------------------------------------------------------
(* The mempool.                                                             *)

(* The namespace a transaction counts against; a slash has none.            *)
domain_key(tx) ==
  IF tx.op \in {"RegisterDomain", "UpdateDomain", "AssignDomain", "RenewDomain",
                "TransferDomain"} THEN {tx.domain}
  ELSE IF tx.op = "Slash" THEN {} ELSE {tx.tld}

count_for_domain(pool, key) ==
  Len(SelectSeq(pool, LAMBDA i : domain_key(TxOf[i]) = key))

(* The cheap check of admission and production: no proof of work, no grace, *)
(* no renewal horizon, no reserved TLD, no stake of a slashed key.          *)
precheck_state(s, tx) ==
  CASE tx.op = "RegisterDomain" ->
         /\ s.tlds[TldOf[tx.domain]] # None /\ s.tlds[TldOf[tx.domain]].open
         /\ s.domains[tx.domain] = None
    [] tx.op = "UpdateDomain" ->
         OwnsDomain(s, tx.domain, tx.owner) /\ s.domains[tx.domain].sequence + 1 = tx.seq
    [] tx.op = "RegisterTld" -> s.tlds[tx.tld] = None
    [] tx.op \in {"TransferTld", "RevokeTld", "SetTldOpen"} -> OwnsTld(s, tx.tld, tx.owner)
    [] tx.op = "AssignDomain" ->
         OwnsTld(s, TldOf[tx.domain], tx.owner) /\ s.domains[tx.domain] = None
    [] tx.op \in {"RenewDomain", "TransferDomain"} -> OwnsDomain(s, tx.domain, tx.owner)
    [] tx.op = "Slash" -> TRUE

Admissible(n, i) ==
  LET tx == TxOf[i]
  IN /\ tx.sound
     /\ precheck_state(state[n], tx)
     /\ i \notin included[n]
     /\ domain_key(tx) # {} =>
          count_for_domain(mempool[n], domain_key(tx)) < MAX_PENDING_PER_DOMAIN

IsPooled(n, i) == i \in ToSet(mempool[n])

(* Mutant: an accepted block leaves the mempool alone.                      *)
Reconciled_mut(pool, b) == pool

(* What a block leaves of the mempool.                                      *)
Reconciled(pool, b) == SelectSeq(pool, LAMBDA i : i \notin ToSet(b.txs))

-----------------------------------------------------------------------------
(* Messages.                                                                *)

Request(n, p, kind, body) == [from |-> n, to |-> p, kind |-> kind, body |-> body]
Broadcast(n, except, kind, body) == {Request(n, p, kind, body) : p \in peers[n] \ except}

(* A request whose handler fails is never answered: its sender is told.     *)
Failed(m) == Request(m.to, m.from, "failure", 0)

Deliver(m, new) == msgs' = (msgs \ {m}) \cup new

(* Mutant: a block beyond the expected height is taken for the next one.    *)
Continue_mut(n, p, height) ==
  LET s == sync[n][p]
  IN IF s = None \/ height < s.next THEN [sync |-> s, msgs |-> {}]
     ELSE [sync |-> [next |-> s.next + 1, rounds |-> s.rounds + 1], msgs |-> {}]

(* serve_blocks with a budget of one block; the chain that ends in it.      *)
serve_blocks(c, start) == IF start <= Len(c) THEN {SubSeq(c, 1, start)} ELSE {}

(* SyncState of a new connection: the height after our tip.                 *)
SyncState(c) == [next |-> Len(c) + 1, rounds |-> 0]

(* The sync driver after a block of this height from p was accepted.        *)
Continue(n, p, height) ==
  LET s == sync[n][p]
      t == [next |-> s.next + 1, rounds |-> s.rounds + 1]
  IN IF s = None \/ height # s.next THEN [sync |-> s, msgs |-> {}]
     ELSE [sync |-> t,
           msgs |-> IF t.rounds < MAX_SYNC_ROUNDS
                      THEN {Request(n, p, "GetBlocks", t.next)} ELSE {}]

-----------------------------------------------------------------------------
(* Actions.                                                                 *)

Init ==
  /\ chain = InitChain
  /\ state = [n \in Nodes |-> StateOf(InitChain[n])]
  /\ included = [n \in Nodes |-> IdsOf(InitChain[n])]
  /\ stored = InitChain
  /\ mempool = [n \in Nodes |-> <<>>]
  /\ peers = [n \in Nodes |-> {p \in Nodes \ {n} : {n, p} \in InitLinks}]
  /\ sync = [n \in Nodes |-> [p \in Nodes |->
              IF p \in peers[n] THEN SyncState(chain[n]) ELSE None]]
  /\ conns = [l \in Links |-> IF l \in InitLinks THEN 1 ELSE 0]
  /\ msgs = {}
  /\ todo = Submissions
  /\ opens = 0 /\ faults = 0

(* ConnectionEstablished at both ends.  One step is enough: an end learns   *)
(* of the connection before any request that arrives on it.                 *)
Connect(l) ==
  /\ opens < MaxOpens /\ conns[l] < MaxConns
  /\ opens' = opens + 1
  /\ conns' = [conns EXCEPT ![l] = @ + 1]
  /\ peers' = [n \in Nodes |-> IF n \in l THEN peers[n] \cup (l \ {n}) ELSE peers[n]]
  /\ sync' = [n \in Nodes |-> [p \in Nodes |->
                IF n # p /\ {n, p} = l THEN SyncState(chain[n])
                ELSE sync[n][p]]]
  /\ msgs' = msgs \cup {Request(n, p, "GetBlocks", Len(chain[n]) + 1) :
                          <<n, p>> \in {x \in l \X l : x[1] # x[2]}}
  /\ UNCHANGED <<chain, state, included, stored, mempool, todo, faults>>

(* ConnectionClosed at both ends: the peer is forgotten, even when another  *)
(* connection to it stays open; what was in flight on this one is lost.     *)
Close(l) ==
  /\ conns[l] > 0 /\ faults < MaxFaults
  /\ faults' = faults + 1
  /\ conns' = [conns EXCEPT ![l] = @ - 1]
  /\ peers' = [n \in Nodes |-> IF n \in l THEN peers[n] \ l ELSE peers[n]]
  /\ sync' = [n \in Nodes |-> [p \in Nodes |-> IF {n, p} = l THEN None ELSE sync[n][p]]]
  /\ LET flying == {m \in msgs : {m.from, m.to} = l}
     IN \E lost \in IF conns[l] = 1 THEN {flying} ELSE {{}, flying} : msgs' = msgs \ lost
  /\ UNCHANGED <<chain, state, included, stored, mempool, todo, opens>>

(* A request times out: it is lost and its sender gets an OutboundFailure.  *)
Timeout(m) ==
  /\ faults < MaxFaults
  /\ m.kind \in {"Transaction", "Block", "GetBlocks"}
  /\ faults' = faults + 1
  /\ Deliver(m, {Failed(m)})
  /\ UNCHANGED <<chain, state, included, stored, mempool, peers, sync, conns, todo, opens>>

(* OutboundFailure: the sync with that peer is given up.                    *)
ReceiveFailure(m) ==
  /\ m.kind = "failure"
  /\ sync' = [sync EXCEPT ![m.to][m.from] = None]
  /\ Deliver(m, {})
  /\ UNCHANGED <<chain, state, included, stored, mempool, peers, conns, todo, opens, faults>>

(* GetBlocks: the block at that height is the response, if there is one.    *)
ReceiveGetBlocks(m) ==
  /\ m.kind = "GetBlocks"
  /\ Deliver(m, {Request(m.to, m.from, "Response", b) : b \in serve_blocks(chain[m.to], m.body)})
  /\ UNCHANGED <<chain, state, included, stored, mempool, peers, sync, conns, todo, opens, faults>>

IsBlock(m) == m.kind \in {"Block", "Response"}

(* accept_block: already canonical.                                         *)
ReceiveKnownBlock(m) ==
  /\ IsBlock(m) /\ IsDuplicate(chain[m.to], m.body)
  /\ LET k == Continue(m.to, m.from, Len(m.body))
     IN /\ sync' = [sync EXCEPT ![m.to][m.from] = k.sync]
        /\ Deliver(m, k.msgs)
  /\ UNCHANGED <<chain, state, included, stored, mempool, peers, conns, todo, opens, faults>>

(* accept_block: the block extends the tip; it is stored and passed on.     *)
ReceiveNextBlock(m) ==
  /\ IsBlock(m) /\ Extends(m.to, m.body)
  /\ LET n == m.to
         k == Continue(n, m.from, Len(m.body))
     IN /\ chain' = [chain EXCEPT ![n] = m.body]
        /\ state' = [state EXCEPT ![n] = ApplyIds(@, Last(m.body).txs)]
        /\ included' = [included EXCEPT ![n] = @ \cup ToSet(Last(m.body).txs)]
        /\ stored' = [stored EXCEPT ![n] = Append(@, Last(m.body))]
        /\ mempool' = [mempool EXCEPT ![n] = Reconciled(@, Last(m.body))]
        /\ sync' = [sync EXCEPT ![n][m.from] = k.sync]
        /\ Deliver(m, k.msgs \cup Broadcast(n, {m.from}, "Block", m.body))
  /\ UNCHANGED <<peers, conns, todo, opens, faults>>

(* accept_block fails.  A sister that wins the tie has replaced the tip in  *)
(* RAM by then; the store refuses its height (later blocks it takes, since  *)
(* it compares no parent), so it is not passed on and the mempool, the      *)
(* anti-replay index and the sync stay as they were.                        *)
ReceiveRefusedBlock(m) ==
  /\ IsBlock(m)
  /\ ~IsDuplicate(chain[m.to], m.body)
  /\ ~Extends(m.to, m.body)
  /\ IF WinsTie(chain[m.to], m.body)
       THEN /\ chain' = [chain EXCEPT ![m.to] = m.body]
            /\ state' = [state EXCEPT ![m.to] = StateOf(m.body)]
       ELSE UNCHANGED <<chain, state>>
  /\ Deliver(m, IF m.kind = "Block" THEN {Failed(m)} ELSE {})
  /\ UNCHANGED <<included, stored, mempool, peers, sync, conns, todo, opens, faults>>

(* accept_transaction, for a client (no sender) or a peer.                  *)
(* Mempool::insert of a transaction that is not pooled yet.                 *)
insert(n, tx) ==
  /\ ~IsPooled(n, tx) /\ Len(mempool[n]) < CAPACITY
  /\ mempool' = [mempool EXCEPT ![n] = Append(@, tx)]

AcceptTx(n, tx) == Admissible(n, tx) /\ insert(n, tx)

RefusedTx(n, tx) ==
  ~Admissible(n, tx) \/ (~IsPooled(n, tx) /\ Len(mempool[n]) >= CAPACITY)

Submit(n, tx) ==
  /\ <<n, tx>> \in todo
  /\ todo' = todo \ {<<n, tx>>}
  /\ \/ /\ AcceptTx(n, tx)
        /\ msgs' = msgs \cup Broadcast(n, {}, "Transaction", tx)
     \/ /\ RefusedTx(n, tx) \/ IsPooled(n, tx)
        /\ UNCHANGED <<mempool, msgs>>
  /\ UNCHANGED <<chain, state, included, stored, peers, sync, conns, opens, faults>>

ReceiveTx(m) ==
  /\ m.kind = "Transaction"
  /\ \/ /\ AcceptTx(m.to, m.body)
        /\ Deliver(m, Broadcast(m.to, {m.from}, "Transaction", m.body))
     \/ /\ RefusedTx(m.to, m.body)
        /\ Deliver(m, {Failed(m)}) /\ UNCHANGED mempool
     \/ /\ Admissible(m.to, m.body) /\ IsPooled(m.to, m.body)
        /\ Deliver(m, {}) /\ UNCHANGED mempool
  /\ UNCHANGED <<chain, state, included, stored, peers, sync, conns, todo, opens, faults>>

drain_up_to(pool, max) ==
  LET take == IF Len(pool) < max THEN Len(pool) ELSE max
  IN [drained |-> SubSeq(pool, 1, take), rest |-> SubSeq(pool, take + 1, Len(pool))]

(* The drained transactions that are neither replayed nor stale.            *)
Candidates(n, drained) ==
  SelectSeq(drained, LAMBDA i : i \notin included[n] /\ precheck_state(state[n], TxOf[i]))

(* BlockBuilder: the block on our tip, signed with our key.                 *)
NewBlock(n, txs) == [producer |-> KeyOf[n], txs |-> txs]

(* produce_if_ready on a pool: batches are drained until one yields a       *)
(* block.  A batch loses what the cheap check refuses, then is shortened    *)
(* from its end until the chain accepts it; what was cut off is gone.       *)
RECURSIVE Assemble(_, _)
Assemble(n, pool) ==
  IF pool = <<>> THEN [txs |-> <<>>, rest |-> <<>>]
  ELSE LET d     == drain_up_to(pool, MAX_TXS_PER_BLOCK)
           cands == Candidates(n, d.drained)
           fits  == {k \in DOMAIN cands :
                       PushOk(state[n], included[n], NewBlock(n, SubSeq(cands, 1, k)))}
       IN IF fits = {} THEN Assemble(n, d.rest)
          ELSE [txs |-> SubSeq(cands, 1, Max(fits)), rest |-> d.rest]

Produce(n) ==
  /\ mempool[n] # <<>>
  /\ \E a \in {Assemble(n, mempool[n])} :
       LET c == Append(chain[n], NewBlock(n, a.txs))
       IN /\ mempool' = [mempool EXCEPT ![n] = a.rest]
          /\ IF a.txs = <<>> THEN UNCHANGED <<chain, state, included, stored, msgs>>
             ELSE /\ chain' = [chain EXCEPT ![n] = c]
                  /\ state' = [state EXCEPT ![n] = ApplyIds(@, a.txs)]
                  /\ included' = [included EXCEPT ![n] = @ \cup ToSet(a.txs)]
                  /\ stored' = [stored EXCEPT ![n] = Append(@, NewBlock(n, a.txs))]
                  /\ msgs' = msgs \cup Broadcast(n, {}, "Block", c)
  /\ UNCHANGED <<peers, sync, conns, todo, opens, faults>>

Receive(m) ==
  \/ ReceiveFailure(m)
  \/ ReceiveGetBlocks(m)
  \/ ReceiveKnownBlock(m)
  \/ ReceiveNextBlock(m)
  \/ ReceiveRefusedBlock(m)
  \/ ReceiveTx(m)

Next ==
  \/ \E l \in Links : Connect(l)
  \/ \E l \in Links : Close(l)
  \/ \E m \in msgs : Timeout(m)
  \/ \E m \in msgs : ReceiveFailure(m)
  \/ \E m \in msgs : ReceiveGetBlocks(m)
  \/ \E m \in msgs : ReceiveKnownBlock(m)
  \/ \E m \in msgs : ReceiveNextBlock(m)
  \/ \E m \in msgs : ReceiveRefusedBlock(m)
  \/ \E m \in msgs : ReceiveTx(m)
  \/ \E x \in todo : Submit(x[1], x[2])
  \/ \E n \in Nodes : Produce(n)

Spec == Init /\ [][Next]_vars

(* A message on an open connection arrives, and the production timer fires: *)
(* the event loop serves every ready source.                                *)
FairSpec ==
  /\ Spec
  /\ \A n \in Nodes : WF_vars(Produce(n))
  /\ WF_vars(\E m \in msgs : Receive(m))

-----------------------------------------------------------------------------

(* chain.rs accept_block and produce_if_ready: no relay keeps a transaction *)
(* pending that a block it accepted or produced already holds.  A block     *)
(* that replaced the tip by a tie-break is not among these: accept_block    *)
(* leaves by its `?` between the switch and the removal, so that nothing    *)
(* takes its transactions out of the mempool, nor into the anti-replay      *)
(* index.                                                                   *)
PoolReconciled == \A n \in Nodes : ToSet(mempool[n]) \cap IdsOf(stored[n]) = {}

(* chain.rs accept_block, without that exception: nothing pending is in the *)
(* relay's own chain.  It fails, on a tie-break won.                        *)
PoolFollowsChain == \A n \in Nodes : ToSet(mempool[n]) \cap IdsOf(chain[n]) = {}

Compete(c, d) == ~IsPrefix(c, d) /\ ~IsPrefix(d, c)

(* The chains of two relays part at a block anyone could produce: no key is *)
(* staked below it.                                                         *)
Forked(n, p) ==
  /\ Compete(chain[n], chain[p])
  /\ eligible_validators(StateOf(LongestCommonPrefix({chain[n], chain[p]}))) = {}

(* chain.rs push_block and relay/chain.rs: relays (which all produce) never *)
(* hold competing blocks above a registry where one key is staked, whatever *)
(* arrives in which order, tie-breaks won and lost included.  Below it they *)
(* may: an empty pool lets anyone produce (producer.rs:23-24), so a TLD     *)
(* claimed at a relay that has no block yet starts a chain of its own.      *)
OneHistory == \A n, p \in Nodes : Compete(chain[n], chain[p]) => Forked(n, p)

(* swarm.rs, the sync driver and block gossip: as long as a relay and a     *)
(* peer nearer to the producer both keep their sync (neither end saw a      *)
(* request fail) and the relay started no chain of its own (which would     *)
(* compete with the peer's, or have lost a tie-break to it and be in the    *)
(* store still), the relay ends up with the peer's chain, through races of  *)
(* gossip with sync, blocks out of order, and reconnections.                *)
Toward(n, p) == {n, p} \in Links /\ Len(InitChain[n]) <= Len(InitChain[p]) /\ n > p
InSync(n, p) ==
  sync[n][p] # None /\ sync[p][n] # None /\ stored[n] = chain[n] /\ ~Forked(n, p)
CatchUp ==
  \A n, p \in Nodes : Toward(n, p) => (<>[]InSync(n, p) => <>[](chain[n] = chain[p]))

(* relay.rs:20 "when a peer connects, ask GetBlocks(from = height + 1); ... *)
(* repeat until the peer has nothing more": a connection that stays open is *)
(* enough to end up with the peer's chain.                                  *)
SyncCompletes ==
  \A n, p \in Nodes :
    Toward(n, p) => (<>[](conns[{n, p}] > 0) => <>[](chain[n] = chain[p]))
=============================================================================
