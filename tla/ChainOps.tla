------------------------------- MODULE ChainOps -------------------------------
(***************************************************************************)
(* One node's in-memory chain as a value, and the operations of             *)
(* crates/scone-blockchain on it: push_block (chain.rs), the fork choice    *)
(* (fork_choice.rs) and checkpoint finality (finality.rs).                  *)
(*                                                                         *)
(* Hashes are natural numbers, compared as the code compares their bytes;   *)
(* a hash determines its block, so BlockOf, a parameter, is the tree of all *)
(* the blocks that any peer may ever send.  An operation that the code      *)
(* refuses returns None: it leaves the chain as it was (that a refused      *)
(* block leaves the registry as it was is the theorem RollbackIsExact of    *)
(* ChainState_proofs).                                                      *)
(***************************************************************************)
EXTENDS Registry

CONSTANTS
  Hashes,            \* block hashes, without the genesis hash 0
  BlockOf,           \* the block of each hash, genesis included
  TxIds,             \* transaction ids
  Rank(_, _),        \* rank of a key in the draw of a seed
  CommitteeSize, EpochSecs, RecoveryMax,    \* ConsensusParams
  MIN_FINALITY_COMMITTEE_SIZE,
  REPLAY_WINDOW_BLOCKS, RAM_WINDOW_BLOCKS, CHECKPOINT_KEEP

(* `sound` stands for what depends on the bytes of a block alone: version,  *)
(* transaction count, recomputed Merkle root, the producer's signature and  *)
(* the signature and proof of work of every transaction.  A block names its *)
(* parent by hash, so that no set of blocks is closed under parents.        *)
ASSUME ChainConstants ==
  /\ Hashes \subseteq Nat \ {0}
  /\ DOMAIN BlockOf = Hashes \cup {0}
  /\ \A h \in Hashes : /\ BlockOf[h].prev \in Hashes \cup {0}
                       /\ BlockOf[h].height \in Nat /\ BlockOf[h].ts \in Nat
                       /\ BlockOf[h].producer \in Owners
                       /\ BlockOf[h].sound \in BOOLEAN
                       /\ \A i \in DOMAIN BlockOf[h].txs : BlockOf[h].txs[i].id \in TxIds
  /\ BlockOf[0].height = 0 /\ BlockOf[0].ts \in Nat /\ BlockOf[0].txs = <<>>
  /\ \A S \in SUBSET Hashes : S # {} => \E h \in S : BlockOf[h].prev \notin S
  /\ None # EmptyState /\ None \notin Hashes \cup {0}
  /\ CommitteeSize \in Nat /\ EpochSecs \in Nat /\ RecoveryMax \in Nat
  /\ MIN_FINALITY_COMMITTEE_SIZE \in Nat
  /\ REPLAY_WINDOW_BLOCKS \in Nat \ {0}
  /\ RAM_WINDOW_BLOCKS \in Nat \ {0}
  /\ CHECKPOINT_KEEP \in Nat \ {0}

(* The blocks from genesis, excluded, to h, included.                       *)
Path[h \in Hashes \cup {0}] ==
  IF h = 0 THEN <<>> ELSE Append(Path[BlockOf[h].prev], h)

(* A block on state s: expiry at the parent's timestamp, then its txs.      *)
ApplyBlock(s, h, parentTs) == ApplyTxs(gc_expired(s, parentTs), BlockOf[h].txs, parentTs)

(* The registry after the branch of h, by its definition: a function of the *)
(* blocks alone.                                                            *)
ApplyNext(s, k) == IF s = None THEN None ELSE ApplyBlock(s, k, BlockOf[BlockOf[k].prev].ts)
BranchState == [h \in Hashes \cup {0} |-> FoldLeft(ApplyNext, EmptyState, Path[h])]

-----------------------------------------------------------------------------
(* The Blockchain struct.                                                   *)

(* finality.rs: hashing is injective, so a checkpoint is its own hash and   *)
(* a seed is what it is derived from.                                       *)
NoSeed == [of |-> None, recovery |-> 0]

NewNode ==
  [base        |-> 0,
   canonical   |-> <<0>>,
   known       |-> [k \in {0} |-> 0],
   tip         |-> 0,
   state       |-> EmptyState,
   included    |-> [i \in TxIds |-> 0],   \* 0: not in the index
   checkpoints |-> <<>>,
   finalized   |-> None]

TipBlock(n) == BlockOf[Last(n.canonical)]
Height(n)   == TipBlock(n).height

(* Mutant: the genesis slot is forgotten once the window has slid.          *)
block_mut(n, height) ==
  IF height = 0 THEN n.canonical[1]
  ELSE IF height < n.base THEN None
  ELSE LET i == 1 + (height - n.base)
       IN IF i \in 1..Len(n.canonical) /\ BlockOf[n.canonical[i]].height = height
            THEN n.canonical[i] ELSE None

(* The canonical block at a height, None when it is not in RAM: genesis is  *)
(* always the first entry, the window follows it.                           *)
block(n, height) ==
  IF height = 0 THEN n.canonical[1]
  ELSE IF height < n.base THEN None
  ELSE LET i == 1 + (height - n.base) + (IF n.base = 0 THEN 0 ELSE 1)
       IN IF i \in 1..Len(n.canonical) /\ BlockOf[n.canonical[i]].height = height
            THEN n.canonical[i] ELSE None

(* Mutant: the window alone decides, whatever finality still needs.         *)
NewBase_mut(n) ==
  IF Height(n) < RAM_WINDOW_BLOCKS THEN 0 ELSE Height(n) - (RAM_WINDOW_BLOCKS - 1)

(* min(window start, floor): both must allow the eviction.                  *)
NewBase(n) ==
  LET start == IF Height(n) < RAM_WINDOW_BLOCKS THEN 0
               ELSE Height(n) - (RAM_WINDOW_BLOCKS - 1)
      floor == Last(n.checkpoints).data.height
  IN IF start < floor THEN start ELSE floor

evict_below_window(n) ==
  IF n.checkpoints = <<>> THEN n
  ELSE IF NewBase(n) <= n.base THEN n
  ELSE LET b == NewBase(n)
           k == IF n.base = 0 THEN b - 1 ELSE b - n.base
       IN [n EXCEPT !.canonical = <<@[1]>> \o SubSeq(@, 2 + k, Len(@)),
                    !.known = [j \in {i \in DOMAIN @ : i = 0 \/ i >= b} |-> @[j]],
                    !.base = b]

(* Mutant: the prune drops an id one block early.                           *)
IndexTxs_mut(included, h) ==
  LET b == BlockOf[h]
      now == [i \in TxIds |-> IF \E j \in DOMAIN b.txs : b.txs[j].id = i
                                THEN b.height ELSE included[i]]
  IN [i \in TxIds |-> IF b.height > REPLAY_WINDOW_BLOCKS
                         /\ now[i] <= b.height - REPLAY_WINDOW_BLOCKS + 1
                        THEN 0 ELSE now[i]]

(* The anti-replay index after block h: its ids enter, old ones leave.      *)
IndexTxs(included, h) ==
  LET b == BlockOf[h]
      now == [i \in TxIds |-> IF \E j \in DOMAIN b.txs : b.txs[j].id = i
                                THEN b.height ELSE included[i]]
  IN [i \in TxIds |-> IF b.height > REPLAY_WINDOW_BLOCKS
                         /\ now[i] <= b.height - REPLAY_WINDOW_BLOCKS
                        THEN 0 ELSE now[i]]

-----------------------------------------------------------------------------
(* Committees and producers.                                                *)

(* The CommitteeSize best ranked keys of the pool.                          *)
select_committee(seed, pool) ==
  {o \in pool : Cardinality({p \in pool : Rank(seed, p) < Rank(seed, o)})
                  < CommitteeSize}

(* Mutant: exactly two thirds are enough.                                   *)
quorum_for_mut(k) == (2 * k) \div 3

quorum_for(k) == (2 * k) \div 3 + 1

committee(n, recovery) ==
  IF n.finalized = None
    THEN IF recovery # 0 THEN {}
         ELSE select_committee(NoSeed, eligible_validators(n.state))
    ELSE select_committee([of |-> n.finalized.checkpoint, recovery |-> recovery],
                          n.finalized.pool)

(* The draws whose consensus delay has elapsed; draw 0 is the committee.    *)
OpenDraws(n, ts) ==
  {k \in 0..RecoveryMax :
     k = 0 \/ (IF ts < n.finalized.block_ts THEN 0 ELSE ts - n.finalized.block_ts)
                >= k * EpochSecs}

allowed_producers(n, ts) ==
  IF n.finalized = None THEN committee(n, 0)
  ELSE UNION {committee(n, k) : k \in OpenDraws(n, ts)}

(* An empty set of producers means that production is open.                 *)
MayProduce(n, h) ==
  LET allowed == allowed_producers(n, BlockOf[h].ts)
  IN allowed = {} \/ BlockOf[h].producer \in allowed

-----------------------------------------------------------------------------
(* push_block_with_gc: the node after the block, None when it is refused.   *)
push_block(n, h) ==
  LET b == BlockOf[h]
      s == ApplyBlock(n.state, h, TipBlock(n).ts)
  IN IF \/ b.prev # n.tip
        \/ b.height # Height(n) + 1
        \/ ~b.sound
        \/ \E j \in DOMAIN b.txs : n.included[b.txs[j].id] # 0
        \/ ~MayProduce(n, h)
        \/ s = None
       THEN None
       ELSE LET m == evict_below_window(
                       [n EXCEPT !.known = [k \in DOMAIN @ \cup {b.height} |->
                                              IF k = b.height THEN h ELSE @[k]],
                                 !.canonical = Append(@, h),
                                 !.tip = h,
                                 !.state = s])
            IN [m EXCEPT !.included = IndexTxs(@, h)]

(* Fork choice.                                                             *)

PushNext(m, h) == IF m = None THEN None ELSE push_block(m, h)
push_all(n, hs) == FoldLeft(PushNext, n, hs)

(* Mutant: the registry of the abandoned branch stays.                      *)
swap_with_mut(n, m) == [m EXCEPT !.included = n.included, !.state = n.state]

(* Every field of the rebuilt chain replaces ours, except the anti-replay   *)
(* index, which the code does not swap.                                     *)
swap_with(n, m) == [m EXCEPT !.included = n.included]

(* The prefix is replayed from genesis, under the finalized base of today.  *)
reorg_to_height(n, height, extension) ==
  LET prefix == [k \in 1..height |-> block(n, k)]
      fresh  == [NewNode EXCEPT !.checkpoints = n.checkpoints,
                                !.finalized   = n.finalized]
      m      == IF \E k \in 1..height : prefix[k] = None THEN None
                ELSE push_all(fresh, prefix \o extension)
  IN IF m = None THEN None ELSE swap_with(n, m)

KnownHash(n, h) == \E k \in DOMAIN n.known : n.known[k] = h

(* Mutant: the higher hash wins the tie.                                    *)
WinsTie_mut(n, h) == BlockOf[h].height = Height(n) /\ h > n.tip

(* A single sister block wins at equal height with a lower hash.            *)
WinsTie(n, h) == BlockOf[h].height = Height(n) /\ h < n.tip

try_attach(n, h) ==
  IF BlockOf[h].prev = n.tip THEN push_block(n, h)
  ELSE IF ~KnownHash(n, BlockOf[h].prev) \/ ~WinsTie(n, h) THEN None
  ELSE reorg_to_height(n, BlockOf[h].height - 1, <<h>>)

(* Mutant: the finality floor is not looked at.                             *)
KeepsCheckpoints_mut(n, base, branch) == TRUE

(* Rule 1: every finalized checkpoint at or above the fork point has its    *)
(* block on the branch.                                                     *)
KeepsCheckpoints(n, base, branch) ==
  \A i \in DOMAIN n.checkpoints :
    LET d == n.checkpoints[i].data
    IN \/ d.height < base
       \/ d.height = base /\ block(n, base) = d.block_hash
       \/ d.height > base /\ /\ d.height - base \in DOMAIN branch
                             /\ branch[d.height - base] = d.block_hash

(* A branch of blocks; the genesis block starts none (its height would      *)
(* underflow).                                                              *)
adopt_branch(n, branch) ==
  LET base == BlockOf[branch[1]].height - 1
      top  == base + Len(branch)
  IN IF \/ \E i \in 2..Len(branch) : BlockOf[branch[i]].prev # branch[i - 1]
        \/ block(n, base) = None
        \/ BlockOf[branch[1]].prev # block(n, base)
        \/ ~KeepsCheckpoints(n, base, branch)
        \/ ~(top > Height(n) \/ (top = Height(n) /\ Last(branch) < n.tip))
       THEN None
       ELSE reorg_to_height(n, base, branch)

-----------------------------------------------------------------------------
(* Checkpoints.                                                             *)

(* Consensus time since the last checkpoint; a block that is not in RAM     *)
(* counts as timestamp 0.                                                   *)
tip_ts_since_last_checkpoint(n) ==
  LET b  == block(n, Last(n.checkpoints).data.height)
      ts == IF b = None THEN 0 ELSE BlockOf[b].ts
  IN IF TipBlock(n).ts < ts THEN 0 ELSE TipBlock(n).ts - ts

(* Mutant: a checkpoint may name the height of the last one again.          *)
check_checkpoint_data_mut(n, d) ==
  /\ d.height # 0 /\ d.height <= Height(n)
  /\ IF n.checkpoints = <<>>
       THEN d.epoch = 0 /\ d.prev = None
       ELSE LET last == Last(n.checkpoints)
            IN /\ d.epoch = last.data.epoch + 1
               /\ d.prev = last
               /\ d.height >= last.data.height
               /\ d.recovery <= RecoveryMax

(* The height is looked up in our chain, the block hash is not.             *)
check_checkpoint_data(n, d) ==
  /\ d.height # 0 /\ d.height <= Height(n)
  /\ IF n.checkpoints = <<>>
       THEN d.epoch = 0 /\ d.prev = None
       ELSE LET last == Last(n.checkpoints)
            IN /\ d.epoch = last.data.epoch + 1
               /\ d.prev = last
               /\ d.height > last.data.height
               /\ d.recovery <= RecoveryMax
               /\ d.recovery >= 1 =>
                    tip_ts_since_last_checkpoint(n) >= d.recovery * EpochSecs

CheckpointOk(n, cp) ==
  /\ check_checkpoint_data(n, cp.data)
  /\ LET c == committee(n, cp.data.recovery)
     IN /\ Cardinality(c) >= MIN_FINALITY_COMMITTEE_SIZE
        /\ Cardinality(cp.signers \cap c) >= quorum_for(Cardinality(c))
  /\ cp.data.height = Height(n) => cp.data.state_root = n.state.smt

(* accept_checkpoint: the pool that is frozen is the one of the tip.        *)
accept_checkpoint(n, cp) ==
  IF ~CheckpointOk(n, cp) THEN None
  ELSE IF n.checkpoints # <<>> /\ Last(n.checkpoints) = cp THEN n
  ELSE LET b   == block(n, cp.data.height)
           cps == Append(n.checkpoints, cp)
           cut == IF Len(cps) > CHECKPOINT_KEEP THEN Len(cps) - CHECKPOINT_KEEP ELSE 0
       IN [n EXCEPT !.finalized   = [checkpoint |-> cp,
                                     pool       |-> eligible_validators(n.state),
                                     block_ts   |-> IF b = None THEN 0 ELSE BlockOf[b].ts],
                    !.checkpoints = SubSeq(cps, cut + 1, Len(cps))]
=============================================================================
