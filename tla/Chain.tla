-------------------------------- MODULE Chain --------------------------------
(***************************************************************************)
(* One node of the network: it receives blocks, branches and checkpoints    *)
(* in any order, any number of times, and applies the operations of         *)
(* ChainOps to them.  An action is enabled when the code accepts the input; *)
(* a refused input changes nothing.                                         *)
(***************************************************************************)
EXTENDS ChainOps

CONSTANTS
  SignerSets,   \* the sets of anchors that may have signed a checkpoint
  MaxEpoch      \* bound on the epochs of a run

ASSUME NodeConstants == /\ SignerSets \subseteq SUBSET Owners
                        /\ MaxEpoch \in Nat

VARIABLES
  node,      \* the Blockchain struct
  reorged    \* history: some branch was abandoned

vars == <<node, reorged>>

Init == node = NewNode /\ reorged = FALSE

-----------------------------------------------------------------------------
(* The tree of blocks.                                                      *)

(* A peer offers any suffix of any branch, and any two blocks.              *)
Offers ==
  (Hashes \X Hashes)
    \cup UNION {{SubSeq(Path[h], i, Len(Path[h])) : i \in 1..Len(Path[h])} : h \in Hashes}

(* A checkpoint on block h, as anchors that applied its branch build it.    *)
CheckpointOn(h, prev, recovery, signers) ==
  [data |-> [epoch      |-> IF prev = None THEN 0 ELSE prev.data.epoch + 1,
             height     |-> BlockOf[h].height,
             block_hash |-> h,
             prev       |-> prev,
             state_root |-> BranchState[h].smt,
             recovery   |-> recovery],
   signers |-> signers]

(* The checkpoints of each epoch that can be built so.                      *)
Roots == {BranchState[h].smt : h \in {x \in Hashes : BranchState[x] # None}}
Checkpoints[e \in 0..MaxEpoch] ==
  [data : [epoch      : {e},
           height     : Nat,
           block_hash : Hashes,
           prev       : IF e = 0 THEN {None} ELSE Checkpoints[e - 1],
           state_root : Roots,
           recovery   : 0..RecoveryMax],
   signers : SignerSets]

ASSUME NoneIsNoBase ==
  \A e \in 0..MaxEpoch :
    None \notin [checkpoint : Checkpoints[e], pool : SUBSET Owners, block_ts : Nat]

-----------------------------------------------------------------------------
(* Actions.                                                                 *)

(* A block that extends the tip.                                            *)
Extend(h) ==
  /\ BlockOf[h].prev = node.tip
  /\ try_attach(node, h) # None
  /\ node' = try_attach(node, h)
  /\ UNCHANGED reorged

(* A sister of the tip that wins the tie.                                   *)
TieBreak(h) ==
  /\ BlockOf[h].prev # node.tip
  /\ try_attach(node, h) # None
  /\ node' = try_attach(node, h)
  /\ reorged' = TRUE

AdoptBranch(branch) ==
  /\ adopt_branch(node, branch) # None
  /\ node' = adopt_branch(node, branch)
  /\ reorged' = TRUE

AcceptCheckpoint(cp) ==
  /\ cp.data.epoch <= MaxEpoch
  /\ accept_checkpoint(node, cp) # None
  /\ node' = accept_checkpoint(node, cp)
  /\ UNCHANGED reorged

(* What the relay's handlers do.                                            *)
RelayNext ==
  \/ \E h \in Hashes : Extend(h)
  \/ \E h \in Hashes : TieBreak(h)
  \/ \E h \in Hashes, prev \in Range(node.checkpoints) \cup {None},
        k \in 0..RecoveryMax, signers \in SignerSets :
       /\ BranchState[h] # None
       /\ AcceptCheckpoint(CheckpointOn(h, prev, k, signers))

Next == RelayNext \/ \E branch \in Offers : AdoptBranch(branch)

Spec == Init /\ [][Next]_vars

(* A deployed relay never calls adopt_branch: only the simulator does.      *)
RelaySpec == Init /\ [][RelayNext]_vars

-----------------------------------------------------------------------------
(* Properties.                                                              *)

Canon == Path[node.tip]
Floor == Last(node.checkpoints).data.height

(* Types.                                                                   *)
TypeOK ==
  /\ node.base \in Nat
  /\ node.canonical \in Seq(Hashes \cup {0})
  /\ node.tip \in Hashes \cup {0}
  /\ DOMAIN node.known \subseteq Nat
  /\ \A k \in DOMAIN node.known : node.known[k] \in Hashes \cup {0}
  /\ node.state \in State
  /\ node.included \in [TxIds -> Nat]
  /\ \A i \in DOMAIN node.checkpoints : node.checkpoints[i].data.block_hash \in Hashes
  /\ reorged \in BOOLEAN

(* The RAM window: `block` answers every height of the canonical chain that *)
(* is genesis or at least base_height with the right block, and no other,   *)
(* and known_hashes indexes exactly those, through evictions and reorgs.    *)
WindowIndexed ==
  /\ node.tip = Last(node.canonical)
  /\ Height(node) = Len(Canon)
  /\ \A k \in 0..(Height(node) + 1) :
       block(node, k) = IF k = 0 THEN 0
                        ELSE IF k \in node.base..Height(node) THEN Canon[k]
                        ELSE None
  /\ DOMAIN node.known =
       {k \in 0..Height(node) : k = 0 \/ k >= node.base}
  /\ \A k \in DOMAIN node.known : node.known[k] = block(node, k)

(* The block of the last checkpoint never leaves RAM, so the recovery clock *)
(* never falls back on timestamp 0.                                         *)
FloorInWindow ==
  node.checkpoints # <<>> => Floor <= Height(node) /\ block(node, Floor) # None

(* chain.rs evict_below_window and block: the RAM window answers for the    *)
(* canonical chain and for nothing else, and always holds the finalized     *)
(* block, however evictions, reorgs and checkpoints alternate.              *)
WindowSound == WindowIndexed /\ FloorInWindow

(* The checkpoints in RAM are a chain: one epoch each, strictly rising      *)
(* heights, each the hash link of the next, and the last is the PoS base.   *)
CheckpointsChained ==
  LET cps == node.checkpoints
  IN /\ Len(cps) <= CHECKPOINT_KEEP
     /\ \A i \in 2..Len(cps) : /\ cps[i].data.prev = cps[i - 1]
                               /\ cps[i].data.epoch = cps[i - 1].data.epoch + 1
                               /\ cps[i].data.height > cps[i - 1].data.height
     /\ cps = <<>> <=> node.finalized = None
     /\ cps # <<>> => node.finalized.checkpoint = Last(cps)

(* The registry is the replay of the canonical blocks, whatever branches    *)
(* were applied and abandoned on the way.                                   *)
StateIsReplay == node.state = BranchState[node.tip]

(* The heights at which the canonical chain includes transaction i.         *)
InclusionsOf(i) ==
  {k \in DOMAIN Canon : \E j \in DOMAIN BlockOf[Canon[k]].txs :
                          BlockOf[Canon[k]].txs[j].id = i}

(* The index as a function of the canonical chain.                          *)
PureIndex ==
  [i \in TxIds |->
     LET recent == {k \in InclusionsOf(i) : k + REPLAY_WINDOW_BLOCKS > Height(node)}
     IN IF recent = {} THEN 0 ELSE Max(recent)]

(* On a chain that only ever grew, the anti-replay index holds exactly the  *)
(* transactions of the last REPLAY_WINDOW_BLOCKS blocks.                    *)
ReplayIndexOfGrowth == ~reorged => node.included = PureIndex

(* The canonical chain only ever changes for a longer one, or for one of    *)
(* the same height with a lower tip hash: no sequence of deliveries makes a *)
(* node oscillate.                                                          *)
TipImproves ==
  [][node'.tip # node.tip =>
       \/ Height(node') > Height(node)
       \/ Height(node') = Height(node) /\ node'.tip < node.tip]_vars

(* A branch that is adopted keeps every finalized block that was canonical. *)
AdoptionKeepsFinalized ==
  [][(\E branch \in Offers : AdoptBranch(branch)) =>
       \A i \in DOMAIN node.checkpoints :
         LET d == node.checkpoints[i].data
         IN (d.height \in DOMAIN Canon /\ Canon[d.height] = d.block_hash) =>
              (d.height \in DOMAIN Canon' /\ Canon'[d.height] = d.block_hash)]_vars

-----------------------------------------------------------------------------
(* What the comments of the repository say.                                 *)

(* "A finalized checkpoint is immutable: no reorg ... the fork choice       *)
(* enforces it": a finalized canonical block stays canonical.               *)
FinalizedIsImmutable ==
  [][\A i \in DOMAIN node.checkpoints :
       LET d == node.checkpoints[i].data
       IN (d.height \in DOMAIN Canon /\ Canon[d.height] = d.block_hash) =>
            (d.height \in DOMAIN Canon' /\ Canon'[d.height] = d.block_hash)]_vars

(* "A pure function of the canonical chain": the anti-replay index.         *)
ReplayIndexIsPure == node.included = PureIndex

(* "A transaction never enters the chain twice", within the window.         *)
NoTransactionTwice ==
  \A k \in DOMAIN Canon :
    \A i, j \in DOMAIN BlockOf[Canon[k]].txs :
      i # j => BlockOf[Canon[k]].txs[i].id # BlockOf[Canon[k]].txs[j].id

(* "The referenced block must be in OUR chain": when it is accepted.        *)
CheckpointIsOurs ==
  [][node'.checkpoints # node.checkpoints =>
       LET d == Last(node'.checkpoints).data
       IN d.height \in DOMAIN Canon /\ Canon[d.height] = d.block_hash]_vars

(* "Eligibility pool frozen at the finalized block."                        *)
PoolFrozenAtBlock ==
  node.finalized # None =>
    LET h == node.finalized.checkpoint.data.block_hash
    IN node.finalized.pool = eligible_validators(BranchState[h])

(* "Two nodes replaying the same branch decide identically": our own chain  *)
(* passes a replay under our own finalized base.                            *)
OwnChainReplays ==
  node.base = 0 =>
    push_all([NewNode EXCEPT !.checkpoints = node.checkpoints,
                             !.finalized   = node.finalized], Canon) # None
=============================================================================
