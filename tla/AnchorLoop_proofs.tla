--------------------------- MODULE AnchorLoop_proofs ---------------------------
(***************************************************************************)
(* What the anchor loop guarantees about signatures, for every tree of      *)
(* blocks, number of relays and order of messages, and for every peer that  *)
(* sends signatures that do not verify: what is finalized was signed by a   *)
(* quorum, a key signs one content per epoch, and so two quorums of one     *)
(* committee never finalize two contents of one epoch.                      *)
(***************************************************************************)
EXTENDS AnchorLoop, ChainOps_proofs, FiniteSetTheorems

-----------------------------------------------------------------------------
(* The invariant.  Its parts are relative to a set V of votes, because the  *)
(* handlers of one step work on the votes of after the step.                *)

Contents(V)   == {v.data : v \in V} \cup ForeignData
Signers(V, d) == {k \in Owners : [key |-> k, data |-> d] \in V}

(* The signatures of d that verify are votes; the others may be anybody's.  *)
SigsOK(V, d, sigs) == sigs.signers \subseteq Signers(V, d) /\ sigs.void \subseteq Owners

(* The checkpoints, partial or aggregated, with such signatures.            *)
Cps(V) ==
  {cp \in [data : Contents(V), signers : SUBSET Owners, void : SUBSET Owners] :
     cp.signers \subseteq Signers(V, cp.data)}

(* The messages that carry blocks or such checkpoints.                      *)
Messages(V) == [type : {"block"}, body : Hashes] \cup [type : {"checkpoint"}, body : Cps(V)]

(* The frozen pool is one of owners.                                        *)
HasPool(c) == c.finalized # None => c.finalized.pool \subseteq Owners

ChainOK(V, c) == NodeOK(c) /\ HasPool(c) /\ c.checkpoints \in Seq(Cps(V))

PendingOK(V, p) ==
  /\ p = [d \in DOMAIN p |-> p[d]]
  /\ IsFiniteSet(DOMAIN p)
  /\ \A d \in DOMAIN p : d \in Contents(V) /\ SigsOK(V, d, p[d])

(* A quorum of the committee of f, which is large enough, voted for f.      *)
FinalOK(V, f) ==
  /\ f.committee \subseteq Owners
  /\ Cardinality(f.committee) >= MIN_FINALITY_COMMITTEE_SIZE
  /\ Cardinality(f.committee \cap Signers(V, f.data)) >= quorum_for(Cardinality(f.committee))

IsRelay(r) ==
  r = [chain |-> r.chain, pending |-> r.pending, vote |-> r.vote, finals |-> r.finals]

RelayOK(V, r) ==
  /\ IsRelay(r)
  /\ ChainOK(V, r.chain)
  /\ PendingOK(V, r.pending)
  /\ \A f \in r.finals : FinalOK(V, f)

(* The votes are numbered by epochs, and each is of one of the relays.      *)
VotesOK(V) ==
  \A v \in V : /\ v = [key |-> v.key, data |-> v.data]
               /\ v.key \in Owners
               /\ v.data.epoch \in Nat /\ v.data.height \in Nat

(* The last vote of a relay is its vote of the highest epoch.               *)
LastVote(V, n, r) ==
  /\ r.vote # None => [key |-> KeyOf[n], data |-> r.vote] \in V
  /\ \A v \in V : v.key = KeyOf[n] =>
       /\ r.vote # None
       /\ v.data.epoch <= r.vote.epoch
       /\ v.data.epoch = r.vote.epoch => v.data = r.vote

(* A key signs one content per epoch.                                       *)
OneVote(V) ==
  \A v, w \in V : v.key = w.key /\ v.data.epoch = w.data.epoch => v.data = w.data

IInv ==
  /\ VotesOK(votes) /\ OneVote(votes)
  /\ DOMAIN relay = Nodes
  /\ \A n \in Nodes : RelayOK(votes, relay[n]) /\ LastVote(votes, n, relay[n])
  /\ link \in [Nodes \X Nodes -> Seq(Messages(votes))]

-----------------------------------------------------------------------------
(* More votes make more of everything.                                      *)

(* What is real stays real when votes are added.                            *)
LEMMA MoreVotes ==
  ASSUME NEW V, NEW W, V \subseteq W
  PROVE  /\ Contents(V) \subseteq Contents(W)
         /\ \A d : Signers(V, d) \subseteq Signers(W, d)
         /\ Cps(V) \subseteq Cps(W) /\ Messages(V) \subseteq Messages(W)
<1>1. Contents(V) \subseteq Contents(W)
  BY DEF Contents
<1>2. \A d : Signers(V, d) \subseteq Signers(W, d)
  BY DEF Signers
<1>3. ASSUME NEW cp \in Cps(V) PROVE cp \in Cps(W)
  <2>1. /\ cp \in [data : Contents(V), signers : SUBSET Owners, void : SUBSET Owners]
        /\ cp.signers \subseteq Signers(V, cp.data)
    BY DEF Cps
  <2>2. cp \in [data : Contents(W), signers : SUBSET Owners, void : SUBSET Owners]
    BY <1>1, <2>1
  <2>3. cp.signers \subseteq Signers(W, cp.data)
    BY <1>2, <2>1
  <2> QED
    BY <2>2, <2>3 DEF Cps
<1>4. Messages(V) \subseteq Messages(W)
  BY <1>3 DEF Messages
<1> QED
  BY <1>1, <1>2, <1>3, <1>4

(* A longer list of kinds of elements is still a sequence.                  *)
LEMMA MoreSeq == ASSUME NEW S, NEW T, S \subseteq T PROVE Seq(S) \subseteq Seq(T)
<1> SUFFICES ASSUME NEW s \in Seq(S) PROVE s \in Seq(T)
  OBVIOUS
<1>1. Len(s) \in Nat /\ s \in [1..Len(s) -> S]
  OBVIOUS
<1>2. s \in [1..Len(s) -> T]
  BY <1>1
<1> QED
  BY <1>1, <1>2

(* More votes make no smaller a part of the committee.                      *)
LEMMA MoreFinal ==
  ASSUME NEW V, NEW W, V \subseteq W, NEW f, FinalOK(V, f) PROVE FinalOK(W, f)
<1> DEFINE a == f.committee \cap Signers(V, f.data)
<1> DEFINE b == f.committee \cap Signers(W, f.data)
<1>1. a \subseteq b /\ b \subseteq Owners
  BY DEF Signers
<1>2. IsFiniteSet(b) /\ IsFiniteSet(f.committee)
  BY <1>1, RegistryConstants, FS_Subset DEF FinalOK
<1>3. Cardinality(a) <= Cardinality(b) /\ Cardinality(a) \in Nat /\ Cardinality(b) \in Nat
  BY <1>1, <1>2, FS_Subset, FS_CardinalityType
<1>4. Cardinality(f.committee) \in Nat
  BY <1>2, FS_CardinalityType
<1>5. quorum_for(Cardinality(f.committee)) \in Int
  BY <1>4 DEF quorum_for
<1>6. Cardinality(a) >= quorum_for(Cardinality(f.committee))
  BY DEF FinalOK
<1> HIDE DEF a, b
<1>7. Cardinality(b) >= quorum_for(Cardinality(f.committee))
  BY <1>3, <1>5, <1>6
<1> QED
  BY <1>7 DEF FinalOK, b

(* So does a relay stay well-formed.                                        *)
LEMMA MoreRelay ==
  ASSUME NEW V, NEW W, V \subseteq W, NEW r, RelayOK(V, r)
  PROVE  RelayOK(W, r)
<1>1. Seq(Cps(V)) \subseteq Seq(Cps(W))
  BY MoreVotes, MoreSeq
<1>2. ChainOK(W, r.chain)
  BY <1>1 DEF RelayOK, ChainOK
<1>3. PendingOK(W, r.pending)
  <2>1. ASSUME NEW d \in DOMAIN r.pending
        PROVE  d \in Contents(W) /\ SigsOK(W, d, r.pending[d])
    <3>1. d \in Contents(V) /\ SigsOK(V, d, r.pending[d])
      BY DEF RelayOK, PendingOK
    <3> QED
      BY <3>1, MoreVotes DEF SigsOK
  <2> QED
    BY <2>1 DEF RelayOK, PendingOK
<1>4. \A f \in r.finals : FinalOK(W, f)
  BY MoreFinal DEF RelayOK
<1> QED
  BY <1>2, <1>3, <1>4 DEF RelayOK

(* A real checkpoint has a content with an epoch and a height.              *)
LEMMA CpData ==
  ASSUME NEW V, VotesOK(V), NEW cp \in Cps(V)
  PROVE  /\ cp.data \in Contents(V) /\ SigsOK(V, cp.data, cp)
         /\ cp.data.epoch \in Nat /\ cp.data.height \in Nat
<1>1. /\ cp \in [data : Contents(V), signers : SUBSET Owners, void : SUBSET Owners]
      /\ cp.signers \subseteq Signers(V, cp.data)
  BY DEF Cps
<1>2. cp.data \in Contents(V) /\ cp.void \subseteq Owners
  BY <1>1
<1>3. cp.data.epoch \in Nat /\ cp.data.height \in Nat
  <2>1. CASE cp.data \in ForeignData
    BY <2>1, LoopConstants
  <2>2. CASE cp.data \notin ForeignData
    <3>1. PICK v \in V : cp.data = v.data
      BY <1>2, <2>2 DEF Contents
    <3> QED
      BY <3>1 DEF VotesOK
  <2> QED
    BY <2>1, <2>2
<1> QED
  BY <1>1, <1>2, <1>3 DEF SigsOK

(* The committee that a relay draws is one of owners.                       *)
LEMMA CommitteeOK ==
  ASSUME NEW c, HasPool(c), NEW k
  PROVE  committee(c, k) \subseteq Owners
<1>1. \A seed : \A pool : select_committee(seed, pool) \subseteq pool
  BY DEF select_committee
<1>2. \A x : eligible_validators(x) \subseteq Owners
  BY DEF eligible_validators
<1>3. CASE c.finalized = None
  BY <1>1, <1>2, <1>3 DEF committee
<1>4. CASE c.finalized # None
  <2>1. c.finalized.pool \subseteq Owners
    BY <1>4 DEF HasPool
  <2>2. committee(c, k) \subseteq c.finalized.pool
    BY <1>1, <1>4 DEF committee
  <2> QED
    BY <2>1, <2>2
<1> QED
  BY <1>3, <1>4

-----------------------------------------------------------------------------
(* Blocks leave the checkpoints alone, and a checkpoint joins them.         *)

(* push_block.                                                              *)
LEMMA PushKeeps ==
  ASSUME NEW V, NEW c, ChainOK(V, c), NEW h \in Hashes, push_block(c, h) # None
  PROVE  ChainOK(V, push_block(c, h))
<1>1. Pushed(c, h, push_block(c, h))
  BY PushOK DEF ChainOK
<1> QED
  BY <1>1 DEF Pushed, ChainOK, HasPool

(* try_attach: an extension or a won tie.                                   *)
LEMMA AttachKeeps ==
  ASSUME NEW V, NEW c, ChainOK(V, c), NEW h \in Hashes, try_attach(c, h) # None
  PROVE  ChainOK(V, try_attach(c, h))
<1> DEFINE k == BlockOf[h].height - 1
<1>1. CASE BlockOf[h].prev = c.tip
  BY <1>1, PushKeeps DEF try_attach
<1>2. CASE BlockOf[h].prev # c.tip
  <2>1. WinsTie(c, h) /\ try_attach(c, h) = reorg_to_height(c, k, <<h>>)
    BY <1>2 DEF try_attach
  <2>2. k \in Nat
    <3>1. h \in Nat \ {0} /\ BlockOf[h].height \in Nat
      BY ChainConstants
    <3>2. BlockOf[h].height = Height(c) /\ h < c.tip
      BY <2>1 DEF WinsTie
    <3>3. c.tip # 0
      BY <3>1, <3>2
    <3>4. Height(c) = Len(Path[c.tip]) /\ Path[c.tip] \in Seq(Hashes) /\ c.tip \in Tree
      BY TipIs DEF ChainOK, NodeOK, Leveled
    <3>5. Path[c.tip] # <<>>
      BY <3>3, <3>4, PathIs DEF IsPath
    <3>6. Len(Path[c.tip]) # 0
      BY <3>4, <3>5, EmptySeq
    <3> QED
      BY <3>1, <3>2, <3>4, <3>6
  <2>3. <<h>> \in Seq(Hashes)
    OBVIOUS
  <2>4. Reorged(c, k, <<h>>, try_attach(c, h))
    BY <2>1, <2>2, <2>3, ReorgOK DEF ChainOK
  <2> QED
    BY <2>4 DEF Reorged, ChainOK, HasPool
<1> QED
  BY <1>1, <1>2

(* accept_checkpoint, with the cut to CHECKPOINT_KEEP.                      *)
LEMMA AcceptKeeps ==
  ASSUME NEW V, VotesOK(V), NEW c, ChainOK(V, c), NEW cp \in Cps(V),
         accept_checkpoint(c, cp) # None
  PROVE  ChainOK(V, accept_checkpoint(c, cp))
<1> DEFINE m == accept_checkpoint(c, cp)
<1>1. CASE m = c
  BY <1>1
<1>2. CASE m # c
  <2> DEFINE b == block(c, cp.data.height)
  <2> DEFINE all == Append(c.checkpoints, cp)
  <2> DEFINE cut == IF Len(all) > CHECKPOINT_KEEP THEN Len(all) - CHECKPOINT_KEEP ELSE 0
  <2> DEFINE new == SubSeq(all, cut + 1, Len(all))
  <2> DEFINE fin == [checkpoint |-> cp, pool |-> eligible_validators(c.state),
                     block_ts |-> IF b = None THEN 0 ELSE BlockOf[b].ts]
  <2>1. m = [c EXCEPT !.finalized = fin, !.checkpoints = new]
    BY <1>2 DEF accept_checkpoint
  <2>2. all \in Seq(Cps(V)) /\ Len(all) \in Nat \ {0} /\ all[Len(all)] = cp
    BY DEF ChainOK
  <2>3. cut \in 0..(Len(all) - 1)
    BY <2>2, ChainConstants
  <2> HIDE DEF all, cut
  <2>4. new \in Seq(Cps(V)) /\ Len(new) = Len(all) - cut
        /\ \A i \in 1..(Len(all) - cut) : new[i] = all[cut + i]
    <3>1. cut + 1 \in 1..(Len(all) + 1) /\ Len(all) \in (cut + 1 - 1)..Len(all)
      BY <2>2, <2>3
    <3>2. /\ new \in Seq(Cps(V)) /\ Len(new) = Len(all) - (cut + 1) + 1
          /\ \A i \in 1..(Len(all) - (cut + 1) + 1) : new[i] = all[(cut + 1) + i - 1]
      BY <2>2, <3>1, Slice
    <3> HIDE DEF new
    <3> QED
      BY <2>2, <2>3, <3>2
  <2> HIDE DEF new, fin, m
  <2>5. Last(new) = cp
    <3>1. Len(all) - cut \in 1..(Len(all) - cut) /\ cut + (Len(all) - cut) = Len(all)
      BY <2>2, <2>3
    <3> QED
      BY <2>2, <2>4, <3>1 DEF Last
  <2>6. m = [base |-> c.base, canonical |-> c.canonical, known |-> c.known, tip |-> c.tip,
             state |-> c.state, included |-> c.included,
             checkpoints |-> new, finalized |-> fin]
    BY <2>1 DEF ChainOK, NodeOK, IsNode
  <2>7. IsNode(m) /\ HasFloor(m)
    BY <2>5, <2>6, CpData DEF IsNode, HasFloor
  <2>8. NodeOK(m)
    BY <2>6, <2>7 DEF ChainOK, NodeOK
  <2>9. HasPool(m)
    <3>1. m.finalized.pool = eligible_validators(c.state)
      BY <2>6 DEF fin
    <3> QED
      BY <3>1 DEF HasPool, eligible_validators
  <2> QED
    BY <2>4, <2>6, <2>8, <2>9 DEF ChainOK, m
<1> QED
  BY <1>1, <1>2
-----------------------------------------------------------------------------
(* The pending signatures.                                                  *)

(* Merged signatures verify where they did.                                 *)
LEMMA MergeOK ==
  ASSUME NEW V, NEW p, PendingOK(V, p), NEW d \in Contents(V),
         NEW sigs, SigsOK(V, d, sigs)
  PROVE  PendingOK(V, merge(p, d, sigs))
<1> DEFINE old == SigsOf(p, d)
<1> DEFINE all == [signers |-> (old.signers \ sigs.void) \cup sigs.signers,
                   void    |-> (old.void \ sigs.signers) \cup sigs.void]
<1> DEFINE m == merge(p, d, sigs)
<1>0. SigsOK(V, d, old)
  <2>1. CASE d \in DOMAIN p
    BY <2>1 DEF SigsOf, PendingOK
  <2>2. CASE d \notin DOMAIN p
    BY <2>2 DEF SigsOf, NoSigs, SigsOK
  <2> QED
    BY <2>1, <2>2
<1>1. /\ DOMAIN m = DOMAIN p \cup {d}
      /\ m = [x \in DOMAIN m |-> m[x]]
      /\ \A x \in DOMAIN m : m[x] = IF x = d THEN all ELSE p[x]
  BY DEF merge
<1> HIDE DEF old
<1>2. SigsOK(V, d, all)
  BY <1>0 DEF SigsOK
<1> HIDE DEF m, all
<1>3. IsFiniteSet(DOMAIN m)
  BY <1>1, FS_AddElement DEF PendingOK
<1>4. ASSUME NEW x \in DOMAIN m PROVE x \in Contents(V) /\ SigsOK(V, x, m[x])
  <2>1. x \in DOMAIN p => x \in Contents(V) /\ SigsOK(V, x, p[x])
    BY DEF PendingOK
  <2> QED
    BY <1>1, <1>2, <2>1
<1> QED
  BY <1>1, <1>3, <1>4 DEF PendingOK, m

(* Fewer contents.                                                          *)
LEMMA FewerOK ==
  ASSUME NEW V, NEW p, PendingOK(V, p), NEW S \in SUBSET DOMAIN p
  PROVE  PendingOK(V, [d \in S |-> p[d]])
<1>1. IsFiniteSet(S)
  BY FS_Subset DEF PendingOK
<1> QED
  BY <1>1 DEF PendingOK

(* drop_pending.                                                            *)
LEMMA WithoutOK ==
  ASSUME NEW V, NEW p, PendingOK(V, p), NEW d PROVE PendingOK(V, Without(p, d))
BY FewerOK DEF Without

(* enforce_cap.                                                             *)
LEMMA CapOK ==
  ASSUME NEW V, NEW p, PendingOK(V, p) PROVE PendingOK(V, enforce_cap(p))
BY FewerOK DEF enforce_cap

-----------------------------------------------------------------------------
(* try_finalize_all.                                                        *)

(* A relay with vote v, and what it has to send.                            *)
OutOK(V, v, s) ==
  /\ s = [relay |-> s.relay, out |-> s.out]
  /\ RelayOK(V, s.relay) /\ s.relay.vote = v
  /\ s.out \in Seq(Cps(V))

(* What of the aggregate of a pending content verifies are votes.           *)
LEMMA AggregateOK ==
  ASSUME NEW V, NEW r, RelayOK(V, r), NEW d \in DOMAIN r.pending,
         aggregate_if_quorum(r, d) # None
  PROVE  aggregate_if_quorum(r, d) \in Cps(V) /\ aggregate_if_quorum(r, d).data = d
<1> DEFINE c == committee(r.chain, d.recovery)
<1> DEFINE good == r.pending[d].signers \cap c
<1> DEFINE bad == r.pending[d].void \cap c
<1>1. aggregate_if_quorum(r, d) = [data |-> d, signers |-> good, void |-> bad]
  BY DEF aggregate_if_quorum, Signed
<1>2. d \in Contents(V) /\ good \subseteq Signers(V, d) /\ bad \subseteq Owners
  BY DEF RelayOK, PendingOK, SigsOK
<1>3. good \subseteq Owners
  BY <1>2 DEF Signers
<1> HIDE DEF good, bad
<1> QED
  BY <1>1, <1>2, <1>3 DEF Cps

(* verify_quorum: what the chain accepts was signed by a quorum.            *)
LEMMA AcceptedOK ==
  ASSUME NEW V, NEW c, HasPool(c), NEW cp \in Cps(V), accept_checkpoint(c, cp) # None
  PROVE  FinalOK(V, Final(c, cp.data))
<1> DEFINE k == committee(c, cp.data.recovery)
<1> DEFINE a == cp.signers \cap k
<1> DEFINE b == k \cap Signers(V, cp.data)
<1>1. /\ Cardinality(k) >= MIN_FINALITY_COMMITTEE_SIZE
      /\ Cardinality(a) >= quorum_for(Cardinality(k))
  BY DEF accept_checkpoint, CheckpointOk
<1>2. k \subseteq Owners /\ IsFiniteSet(k) /\ Cardinality(k) \in Nat
  BY CommitteeOK, RegistryConstants, FS_Subset, FS_CardinalityType
<1>3. a \subseteq b /\ IsFiniteSet(b)
  BY <1>2, FS_Subset DEF Cps
<1>4. Cardinality(a) <= Cardinality(b) /\ Cardinality(a) \in Nat /\ Cardinality(b) \in Nat
  BY <1>3, FS_Subset, FS_CardinalityType
<1>5. quorum_for(Cardinality(k)) \in Int
  BY <1>2 DEF quorum_for
<1> HIDE DEF k, a, b
<1>6. Cardinality(b) >= quorum_for(Cardinality(k))
  BY <1>1, <1>4, <1>5
<1>7. Final(c, cp.data).data = cp.data /\ Final(c, cp.data).committee = k
  BY DEF Final, k
<1> QED
  BY <1>1, <1>2, <1>6, <1>7 DEF FinalOK, b

(* One content of the loop, by its outcomes.                                *)
LEMMA FinalizeOneOK ==
  ASSUME NEW V, VotesOK(V), NEW v, NEW s, OutOK(V, v, s), NEW d
  PROVE  OutOK(V, v, TryFinalizeOne(s, d))
<1> DEFINE r == s.relay
<1> DEFINE cp == aggregate_if_quorum(r, d)
<1> DEFINE dropped == [r EXCEPT !.pending = Without(@, d)]
<1> DEFINE new == TryFinalizeOne(s, d)
<1> DEFINE q == Without(r.pending, d)
<1>0. RelayOK(V, r) /\ r.vote = v /\ s.out \in Seq(Cps(V))
  BY DEF OutOK
<1>1. /\ dropped = [chain |-> r.chain, pending |-> q, vote |-> v, finals |-> r.finals]
      /\ RelayOK(V, dropped) /\ PendingOK(V, q)
  <2>1. PendingOK(V, q)
    BY <1>0, WithoutOK DEF RelayOK
  <2>2. dropped = [r EXCEPT !.pending = q]
    OBVIOUS
  <2> HIDE DEF q, dropped
  <2>3. dropped = [chain |-> r.chain, pending |-> q, vote |-> v, finals |-> r.finals]
    BY <1>0, <2>2 DEF RelayOK, IsRelay
  <2>4. RelayOK(V, dropped)
    BY <1>0, <2>1, <2>3 DEF RelayOK, IsRelay
  <2> QED
    BY <2>1, <2>3, <2>4
<1>2. CASE new = s
  BY <1>2
<1>3. CASE new = Sends(dropped, s.out)
  <2> HIDE DEF dropped, new
  <2> QED
    BY <1>0, <1>1, <1>3 DEF Sends, OutOK, new
<1> DEFINE t == [dropped EXCEPT !.chain = accept_checkpoint(@, cp),
                                !.finals = @ \cup {Final(r.chain, d)}]
<1>4. CASE /\ d \in DOMAIN r.pending /\ cp # None
           /\ accept_checkpoint(r.chain, cp) # None
           /\ new = Sends(t, Append(s.out, cp))
  <2> DEFINE c == accept_checkpoint(r.chain, cp)
  <2> DEFINE fs == r.finals \cup {Final(r.chain, d)}
  <2>1. cp \in Cps(V) /\ cp.data = d
    BY <1>0, <1>4, AggregateOK
  <2>2. ChainOK(V, c)
    BY <1>0, <1>4, <2>1, AcceptKeeps DEF RelayOK
  <2>3. FinalOK(V, Final(r.chain, d))
    <3> HIDE DEF cp
    <3> QED
      BY <1>0, <1>4, <2>1, AcceptedOK DEF RelayOK, ChainOK
  <2>4. \A f \in fs : FinalOK(V, f)
    BY <1>0, <2>3 DEF RelayOK
  <2>5. t = [chain |-> c, pending |-> q, vote |-> v, finals |-> fs]
    <3> HIDE DEF cp, q, dropped
    <3>1. dropped.chain = r.chain /\ dropped.finals = r.finals
      BY <1>1
    <3>2. t = [dropped EXCEPT !.chain = c, !.finals = fs]
      BY <3>1
    <3> HIDE DEF t, c, fs
    <3> QED
      BY <1>1, <3>2
  <2> HIDE DEF c, q, t, cp, new, fs
  <2>6. RelayOK(V, t) /\ t.vote = v
    BY <1>1, <2>2, <2>4, <2>5 DEF RelayOK, IsRelay
  <2>7. Append(s.out, cp) \in Seq(Cps(V))
    BY <1>0, <2>1
  <2>8. new = [relay |-> t, out |-> Append(s.out, cp)]
    BY <1>4 DEF Sends
  <2>9. OutOK(V, v, new)
    BY <2>6, <2>7, <2>8 DEF OutOK
  <2> QED
    BY <2>9 DEF new
<1> QED
  <2> HIDE DEF dropped
  <2> QED
    BY <1>2, <1>3, <1>4 DEF TryFinalizeOne, dropped

(* The table of the fold over the contents, for the sets of positions       *)
(* below k.                                                                 *)
IsVisit(g, base, seq, k) ==
  g = [s \in SUBSET (1..k) |->
         IF s = {} THEN base ELSE TryFinalizeOne(g[s \ {Max(s)}], seq[Max(s)])]

(* There is such a table for every k.                                       *)
LEMMA VisitExists ==
  ASSUME NEW base, NEW seq
  PROVE  \A k \in Nat : \E g : IsVisit(g, base, seq, k)
<1> DEFINE S == {k \in Nat : \E g : IsVisit(g, base, seq, k)}
<1>1. 0 \in S
  <2>1. IsVisit([s \in SUBSET (1..0) |-> base], base, seq, 0)
    BY DEF IsVisit
  <2> QED BY <2>1
<1>2. ASSUME NEW k \in Nat, k \in S PROVE k + 1 \in S
  <2>1. PICK g : IsVisit(g, base, seq, k)
    BY <1>2
  <2> DEFINE f == [s \in SUBSET (1..(k+1)) |->
                     IF k + 1 \in s THEN TryFinalizeOne(g[s \ {k+1}], seq[k+1]) ELSE g[s]]
  <2>2. ASSUME NEW s \in SUBSET (1..(k+1))
        PROVE f[s] = IF s = {} THEN base ELSE TryFinalizeOne(f[s \ {Max(s)}], seq[Max(s)])
    <3>1. CASE s = {}
      BY <3>1, <2>1 DEF IsVisit
    <3>2. CASE k + 1 \in s
      <4>1. Max(s) = k + 1
        <5>1. k + 1 \in Nat
          OBVIOUS
        <5>2. Max(s) \in s /\ Max(s) >= k + 1
          BY <3>2, <5>1, MaxMember
        <5>3. Max(s) \in 1..(k + 1)
          BY <5>2
        <5> QED BY <5>2, <5>3
      <4>2. f[s \ {k+1}] = g[s \ {k+1}]
        OBVIOUS
      <4> QED BY <3>2, <4>1, <4>2
    <3>3. CASE s # {} /\ k + 1 \notin s
      <4>1. s \in SUBSET (1..k)
        BY <3>3
      <4>2. Max(s) \in s
        BY <4>1, <3>3, MaxMember
      <4>3. f[s \ {Max(s)}] = g[s \ {Max(s)}] /\ f[s] = g[s]
        BY <3>3
      <4> QED BY <3>3, <4>1, <4>2, <4>3, <2>1 DEF IsVisit
    <3> QED BY <3>1, <3>2, <3>3
  <2>3. IsVisit(f, base, seq, k + 1)
    BY <2>2 DEF IsVisit
  <2> HIDE DEF f
  <2> QED BY <2>3
<1> HIDE DEF S
<1>3. Nat \subseteq S
  BY <1>1, <1>2, SetInduction
<1> QED BY <1>3 DEF S

(* The whole loop, by induction on the contents it has visited.             *)
LEMMA FinalizeAllOK ==
  ASSUME NEW V, VotesOK(V), NEW r, RelayOK(V, r)
  PROVE  OutOK(V, r.vote, try_finalize_all(r))
<1> DEFINE s0 == Sends(r, <<>>)
<1> DEFINE order == HashOrder(r.pending)
<1> DEFINE n == Cardinality(DOMAIN r.pending)
<1> DEFINE g == CHOOSE g : IsVisit(g, s0, order, n)
<1>1. n \in Nat
  BY FS_CardinalityType DEF RelayOK, PendingOK
<1>2. DOMAIN order = 1..n
  BY DEF HashOrder
<1>3. IsVisit(g, s0, order, n)
  BY <1>1, VisitExists
<1>4. try_finalize_all(r) = g[1..n]
  BY <1>2 DEF try_finalize_all, FoldLeft, MapThenFoldSet, IsVisit
<1>5. OutOK(V, r.vote, s0)
  <2>1. <<>> \in Seq(Cps(V))
    OBVIOUS
  <2> QED
    BY <2>1 DEF OutOK, Sends
<1> HIDE DEF s0, order, n, g
<1> DEFINE S == {k \in Nat : k <= n => OutOK(V, r.vote, g[1..k])}
<1>6. 0 \in S
  <2>1. 1..0 = {}
    OBVIOUS
  <2>2. g[{}] = s0
    BY <1>3 DEF IsVisit
  <2> QED
    BY <1>5, <2>1, <2>2
<1>7. ASSUME NEW k \in Nat, k \in S PROVE k + 1 \in S
  <2> SUFFICES ASSUME k + 1 <= n PROVE OutOK(V, r.vote, g[1..(k + 1)])
    OBVIOUS
  <2>1. 1..(k + 1) \in SUBSET (1..n) /\ 1..(k + 1) # {} /\ k + 1 \in 1..(k + 1)
    BY <1>1
  <2>2. Max(1..(k + 1)) = k + 1
    <3>1. Max(1..(k + 1)) \in 1..(k + 1) /\ Max(1..(k + 1)) >= k + 1
      BY <2>1, <1>1, MaxMember
    <3> QED BY <3>1
  <2>3. (1..(k + 1)) \ {k + 1} = 1..k
    OBVIOUS
  <2>4. g[1..(k + 1)] = TryFinalizeOne(g[1..k], order[k + 1])
    BY <1>3, <2>1, <2>2, <2>3 DEF IsVisit
  <2>5. OutOK(V, r.vote, g[1..k])
    BY <1>1, <1>7
  <2> QED
    BY <2>4, <2>5, FinalizeOneOK
<1>8. Nat \subseteq S
  <2> HIDE DEF S
  <2> QED
    BY <1>6, <1>7, SetInduction
<1> QED
  BY <1>1, <1>4, <1>8

-----------------------------------------------------------------------------
(* try_propose_checkpoint.                                                  *)

(* What a relay proposes has an epoch and a height.                         *)
LEMMA ProposalOK ==
  ASSUME NEW V, VotesOK(V), NEW c, ChainOK(V, c), propose_checkpoint(c) # None
  PROVE  propose_checkpoint(c).epoch \in Nat /\ propose_checkpoint(c).height \in Nat
<1>1. propose_checkpoint(c) = checkpoint_data(c, 0)
  BY DEF propose_checkpoint
<1>2. Height(c) \in Nat
  BY TipIs DEF ChainOK
<1>3. c.checkpoints # <<>> => Last(c.checkpoints).data.epoch \in Nat
  <2>1. c.checkpoints # <<>> => Last(c.checkpoints) \in Cps(V)
    BY EmptySeq DEF ChainOK, Last
  <2> QED
    BY <2>1, CpData
<1> QED
  BY <1>1, <1>2, <1>3 DEF checkpoint_data

(* What is new in W are votes of relay n.                                   *)
Casts(n, V, W) ==
  /\ VotesOK(W) /\ OneVote(W) /\ V \subseteq W
  /\ \A v \in W \ V : v.key = KeyOf[n] /\ KeyOf[n] # None

(* The guard lets a relay cast one vote per epoch.                          *)
LEMMA CastOK ==
  ASSUME NEW n \in Nodes, NEW V, VotesOK(V), OneVote(V), NEW r, LastVote(V, n, r),
         NEW k, k = KeyOf[n], k # None,
         NEW d, d # None, d.epoch \in Nat, d.height \in Nat, GuardAllows(r, d),
         NEW new, new.vote = d
  PROVE  LET W == V \cup {[key |-> k, data |-> d]}
         IN Casts(n, V, W) /\ LastVote(W, n, new)
<1> DEFINE x == [key |-> k, data |-> d]
<1> DEFINE W == V \cup {x}
<1>0. x.key = k /\ x.data = d /\ k \in Owners /\ x = [key |-> x.key, data |-> x.data]
  BY LoopConstants
<1> HIDE DEF x
<1>1. VotesOK(W)
  BY <1>0 DEF VotesOK
<1>2. ASSUME NEW v \in V, v.key = k
      PROVE  v.data.epoch <= d.epoch /\ (v.data.epoch = d.epoch => v.data = d)
  <2>1. /\ r.vote # None
        /\ v.data.epoch <= r.vote.epoch
        /\ v.data.epoch = r.vote.epoch => v.data = r.vote
    BY <1>2 DEF LastVote
  <2>2. v.data.epoch \in Nat /\ r.vote.epoch \in Nat
    <3>1. [key |-> KeyOf[n], data |-> r.vote] \in V
      BY <2>1 DEF LastVote
    <3> QED
      BY <3>1 DEF VotesOK
  <2>3. d.epoch > r.vote.epoch \/ d = r.vote
    BY <2>1 DEF GuardAllows
  <2> QED
    BY <2>1, <2>2, <2>3
<1>3. OneVote(W)
  <2> SUFFICES ASSUME NEW v \in W, NEW w \in W, v.key = w.key, v.data.epoch = w.data.epoch
               PROVE  v.data = w.data
    BY DEF OneVote
  <2>1. CASE v \in V /\ w \in V
    BY <2>1 DEF OneVote
  <2>2. CASE v \in V /\ w = x
    BY <1>0, <1>2, <2>2
  <2>3. CASE v = x /\ w \in V
    BY <1>0, <1>2, <2>3
  <2>4. CASE v = x /\ w = x
    BY <2>4
  <2> QED
    BY <2>1, <2>2, <2>3, <2>4
<1>4. Casts(n, V, W)
  BY <1>0, <1>1, <1>3 DEF Casts
<1>5. LastVote(W, n, new)
  <2>1. [key |-> KeyOf[n], data |-> new.vote] \in W
    BY DEF x
  <2>2. ASSUME NEW v \in W, v.key = KeyOf[n]
        PROVE  /\ v.data.epoch <= new.vote.epoch
               /\ v.data.epoch = new.vote.epoch => v.data = new.vote
    BY <1>0, <1>2, <2>2
  <2> QED
    BY <2>1, <2>2 DEF LastVote
<1> QED
  BY <1>4, <1>5 DEF x

(* A relay that refuses to sign changes nothing; one that signs votes once. *)
LEMMA ProposeOK ==
  ASSUME NEW n \in Nodes, NEW V, VotesOK(V), OneVote(V), NEW r, RelayOK(V, r),
         LastVote(V, n, r)
  PROVE  LET p == try_propose_checkpoint(n, r)
             W == V \cup Voted(n, p.relay)
         IN Casts(n, V, W) /\ LastVote(W, n, p.relay) /\ OutOK(W, p.relay.vote, p)
<1> DEFINE k == KeyOf[n]
<1> DEFINE d == propose_checkpoint(r.chain)
<1> DEFINE p == try_propose_checkpoint(n, r)
<1> DEFINE W == V \cup Voted(n, p.relay)
<1>1. CASE p = Sends(r, <<>>)
  <2>1. p.relay = r /\ p.out = <<>> /\ p = [relay |-> p.relay, out |-> p.out]
    BY <1>1 DEF Sends
  <2> HIDE DEF p
  <2>2. Voted(n, p.relay) \subseteq V
    BY <2>1 DEF Voted, LastVote
  <2>3. W = V
    BY <2>2
  <2> HIDE DEF W
  <2>4. OutOK(W, p.relay.vote, p)
    BY <2>1, <2>3 DEF OutOK
  <2>5. Casts(n, V, W) /\ LastVote(W, n, p.relay)
    BY <2>1, <2>3 DEF Casts
  <2> QED
    BY <2>4, <2>5 DEF p, W
<1>2. CASE p # Sends(r, <<>>)
  <2> DEFINE own == [signers |-> {k}, void |-> {}]
  <2> DEFINE q == merge(r.pending, d, own)
  <2> DEFINE new == [r EXCEPT !.vote = d, !.pending = merge(@, d, own)]
  <2> DEFINE out == IF IsNew(r.pending, d, own) THEN <<Signed(d, own)>> ELSE <<>>
  <2>1. k # None /\ d # None /\ GuardAllows(r, d) /\ p = Sends(new, out)
    BY <1>2 DEF try_propose_checkpoint
  <2>2. d.epoch \in Nat /\ d.height \in Nat
    BY <2>1, ProposalOK DEF RelayOK
  <2>3. new = [r EXCEPT !.vote = d, !.pending = q]
    OBVIOUS
  <2> HIDE DEF d, q, new
  <2>4. new = [chain |-> r.chain, pending |-> q, vote |-> d, finals |-> r.finals]
    BY <2>3 DEF RelayOK, IsRelay
  <2>5. p.relay = new /\ p.out = out /\ p = [relay |-> p.relay, out |-> p.out]
    BY <2>1 DEF Sends
  <2> HIDE DEF p, out
  <2>6. W = V \cup {[key |-> k, data |-> d]}
    BY <2>1, <2>4, <2>5 DEF Voted
  <2>7. Casts(n, V, W) /\ LastVote(W, n, p.relay)
    <3>1. p.relay.vote = d
      BY <2>4, <2>5
    <3> QED
      BY <2>1, <2>2, <2>6, <3>1, CastOK
  <2> HIDE DEF W
  <2>8. d \in Contents(W) /\ k \in Signers(W, d) /\ k \in Owners
    <3>1. k \in Owners
      BY <2>1, LoopConstants
    <3>2. [key |-> k, data |-> d] \in W
      BY <2>6
    <3> QED
      BY <3>1, <3>2 DEF Contents, Signers
  <2>9. RelayOK(W, r)
    BY <2>7, MoreRelay DEF Casts
  <2>10. PendingOK(W, q)
    <3>1. SigsOK(W, d, own)
      BY <2>8 DEF SigsOK
    <3> HIDE DEF own
    <3> QED
      BY <2>8, <2>9, <3>1, MergeOK DEF RelayOK, q
  <2>11. RelayOK(W, p.relay)
    BY <2>4, <2>5, <2>9, <2>10 DEF RelayOK, IsRelay
  <2>12. p.out \in Seq(Cps(W))
    <3>1. Signed(d, own) \in Cps(W)
      BY <2>8 DEF Cps, Signed
    <3> QED
      BY <2>5, <3>1 DEF out
  <2> QED
    BY <2>5, <2>7, <2>11, <2>12 DEF OutOK, p, W
<1> QED
  BY <1>1, <1>2

-----------------------------------------------------------------------------
(* The two handlers.                                                        *)

(* anchor_after_block: propose, finalize, cut to the cap.                   *)
LEMMA AfterBlockOK ==
  ASSUME NEW n \in Nodes, NEW V, VotesOK(V), OneVote(V), NEW r, RelayOK(V, r),
         LastVote(V, n, r)
  PROVE  LET a == anchor_after_block(n, r)
             W == V \cup Voted(n, a.relay)
         IN /\ Casts(n, V, W) /\ LastVote(W, n, a.relay)
            /\ RelayOK(W, a.relay) /\ a.out \in Seq(Cps(W))
<1> DEFINE p == try_propose_checkpoint(n, r)
<1> DEFINE f == try_finalize_all(p.relay)
<1> DEFINE a == anchor_after_block(n, r)
<1> DEFINE W == V \cup Voted(n, p.relay)
<1> DEFINE q == enforce_cap(f.relay.pending)
<1> DEFINE new == [f.relay EXCEPT !.pending = enforce_cap(@)]
<1>1. a = [relay |-> new, out |-> p.out \o f.out]
  BY DEF anchor_after_block, Sends
<1>2. Casts(n, V, W) /\ LastVote(W, n, p.relay) /\ OutOK(W, p.relay.vote, p)
  BY ProposeOK
<1>3. new = [f.relay EXCEPT !.pending = q]
  OBVIOUS
<1> HIDE DEF p, W, q, new, a
<1>4. OutOK(W, p.relay.vote, f)
  BY <1>2, FinalizeAllOK DEF OutOK, Casts
<1> HIDE DEF f
<1>5. new = [chain |-> f.relay.chain, pending |-> q, vote |-> p.relay.vote,
             finals |-> f.relay.finals]
  BY <1>3, <1>4 DEF OutOK, RelayOK, IsRelay
<1>6. RelayOK(W, new)
  <2>1. PendingOK(W, q)
    BY <1>4, CapOK DEF OutOK, RelayOK, q
  <2> QED
    BY <1>4, <1>5, <2>1 DEF OutOK, RelayOK, IsRelay
<1>7. a.relay = new /\ a.out \in Seq(Cps(W)) /\ a.relay.vote = p.relay.vote
  BY <1>1, <1>2, <1>4, <1>5 DEF OutOK
<1>8. W = V \cup Voted(n, a.relay) /\ LastVote(W, n, a.relay)
  BY <1>2, <1>7 DEF Voted, LastVote, W
<1> QED
  BY <1>2, <1>6, <1>7, <1>8 DEF a

(* accept_checkpoint_message: merge, cut to the cap, finalize.              *)
LEMMA MessageOK ==
  ASSUME NEW V, VotesOK(V), NEW r, RelayOK(V, r), NEW cp \in Cps(V)
  PROVE  LET a == accept_checkpoint_message(r, cp)
         IN /\ RelayOK(V, a.relay) /\ a.relay.vote = r.vote
            /\ a.out \in Seq(Cps(V)) /\ a.relayed \in Seq(Cps(V))
<1> DEFINE a == accept_checkpoint_message(r, cp)
<1> DEFINE fresh == IsNew(r.pending, cp.data, cp)
<1>1. CASE a = [relay |-> r, out |-> <<>>, relayed |-> <<>>]
  BY <1>1
<1>2. CASE a # [relay |-> r, out |-> <<>>, relayed |-> <<>>]
  <2> DEFINE q == enforce_cap(merge(r.pending, cp.data, cp))
  <2> DEFINE m == [r EXCEPT !.pending = enforce_cap(merge(@, cp.data, cp))]
  <2> DEFINE f == try_finalize_all(m)
  <2>1. a = [relay |-> f.relay, out |-> f.out, relayed |-> IF fresh THEN <<cp>> ELSE <<>>]
    BY <1>2 DEF accept_checkpoint_message
  <2>2. m = [r EXCEPT !.pending = q]
    OBVIOUS
  <2>3. PendingOK(V, q)
    BY CpData, MergeOK, CapOK DEF RelayOK
  <2> HIDE DEF q, m, f, a, fresh
  <2>4. m = [chain |-> r.chain, pending |-> q, vote |-> r.vote, finals |-> r.finals]
    BY <2>2 DEF RelayOK, IsRelay
  <2>5. RelayOK(V, m) /\ m.vote = r.vote
    BY <2>3, <2>4 DEF RelayOK, IsRelay
  <2>6. OutOK(V, r.vote, f)
    BY <2>5, FinalizeAllOK DEF f
  <2> QED
    BY <2>1, <2>6 DEF OutOK, a
<1> QED
  BY <1>1, <1>2
-----------------------------------------------------------------------------
(* Links.                                                                   *)

(* What is sent is what was aggregated.                                     *)
LEMMA CheckpointMsgsOK ==
  ASSUME NEW V, NEW cps \in Seq(Cps(V)) PROVE CheckpointMsgs(cps) \in Seq(Messages(V))
<1>1. \A i \in DOMAIN cps : CheckpointMsg(cps[i]) \in Messages(V)
  <2> SUFFICES ASSUME NEW i \in DOMAIN cps PROVE CheckpointMsg(cps[i]) \in Messages(V)
    OBVIOUS
  <2>1. cps[i] \in Cps(V)
    OBVIOUS
  <2> QED
    BY <2>1 DEF CheckpointMsg, Messages
<1>2. DOMAIN cps = 1..Len(cps) /\ Len(cps) \in Nat
  OBVIOUS
<1>3. CheckpointMsgs(cps) \in [1..Len(cps) -> Messages(V)]
  BY <1>1, <1>2 DEF CheckpointMsgs
<1> QED
  BY <1>2, <1>3

(* A block is a message.                                                    *)
LEMMA BlockMsgOK == \A V : \A h \in Hashes : <<BlockMsg(h)>> \in Seq(Messages(V))
<1> SUFFICES ASSUME NEW V, NEW h \in Hashes PROVE BlockMsg(h) \in Messages(V)
  OBVIOUS
<1> QED
  BY DEF BlockMsg, Messages

(* The links after a handler.                                               *)
LEMMA DeliverOK ==
  ASSUME NEW V, NEW W, V \subseteq W, link \in [Nodes \X Nodes -> Seq(Messages(V))],
         NEW n \in Nodes, NEW src \in Nodes, src = n \/ link[<<src, n>>] # <<>>,
         NEW first \in Seq(Messages(W)), NEW all \in Seq(Messages(W)),
         NEW rest \in Seq(Messages(W))
  PROVE  Deliver(n, src, first, all, rest) \in [Nodes \X Nodes -> Seq(Messages(W))]
<1> DEFINE M == Seq(Messages(W))
<1> DEFINE D(p) == IF p[1] = p[2] THEN <<>>
                   ELSE IF p = <<src, n>> THEN Tail(link[p])
                   ELSE IF p[1] # n THEN link[p]
                   ELSE link[p] \o (IF p[2] = src THEN all ELSE first \o all \o rest)
<1>1. Seq(Messages(V)) \subseteq M
  BY MoreVotes, MoreSeq
<1>2. ASSUME NEW p \in Nodes \X Nodes PROVE D(p) \in M
  <2>1. link[p] \in M
    BY <1>1
  <2>2. first \o all \o rest \in M
    OBVIOUS
  <2>3. CASE p[1] = p[2]
    BY <2>3
  <2>4. CASE p[1] # p[2] /\ p = <<src, n>>
    <3>1. link[p] # <<>>
      BY <2>4
    <3>2. Tail(link[p]) \in M
      BY <2>1, <3>1
    <3> QED
      BY <2>4, <3>2
  <2>5. CASE p[1] # p[2] /\ p # <<src, n>>
    <3>1. link[p] \o all \in M /\ link[p] \o (first \o all \o rest) \in M
      BY <2>1, <2>2
    <3> HIDE DEF M
    <3> QED
      BY <2>1, <2>5, <3>1
  <2> QED
    BY <2>3, <2>4, <2>5
<1> HIDE DEF M
<1>3. Deliver(n, src, first, all, rest) = [p \in Nodes \X Nodes |-> D(p)]
  BY DEF Deliver
<1> QED
  BY <1>2, <1>3 DEF M

(* A sequence without one of its elements.                                  *)
LEMMA RemoveOK ==
  ASSUME NEW T, NEW s \in Seq(T), NEW i \in 1..Len(s) PROVE RemoveAt(s, i) \in Seq(T)
<1>0. Len(s) \in Nat
  OBVIOUS
<1>1. SubSeq(s, 1, i - 1) \in Seq(T)
  <2>1. 1 \in 1..(Len(s) + 1) /\ i - 1 \in (1 - 1)..Len(s)
    BY <1>0
  <2> QED
    BY <2>1, Slice
<1>2. SubSeq(s, i + 1, Len(s)) \in Seq(T)
  <2>1. i + 1 \in 1..(Len(s) + 1) /\ Len(s) \in ((i + 1) - 1)..Len(s)
    BY <1>0
  <2> QED
    BY <2>1, Slice
<1> QED
  BY <1>1, <1>2 DEF RemoveAt

-----------------------------------------------------------------------------
(* The specification.                                                       *)

(* Nobody has voted.                                                        *)
LEMMA InitInv == Init => IInv
<1> SUFFICES ASSUME Init PROVE IInv
  OBVIOUS
<1> DEFINE c == push_all(NewNode, Common)
<1> DEFINE e == [d \in {} |-> NoSigs]
<1>1. NodeOK(NewNode) /\ NewNode.checkpoints = <<>> /\ NewNode.finalized = None
  BY NewIsFresh, FreshOK
<1>2. Replayed(NewNode, Common, c)
  BY <1>1, LoopConstants, PushAllOK
<1>3. ChainOK({}, c)
  BY <1>1, <1>2 DEF Replayed, ChainOK, HasPool
<1>4. PendingOK({}, e)
  <2>1. DOMAIN e = {}
    OBVIOUS
  <2> QED
    BY <2>1, FS_EmptySet DEF PendingOK
<1>5. NewRelay = [chain |-> c, pending |-> e, vote |-> None, finals |-> {}]
  BY DEF NewRelay
<1> HIDE DEF c, e
<1>6. RelayOK({}, NewRelay)
  BY <1>3, <1>4, <1>5 DEF RelayOK, IsRelay
<1>7. \A n \in Nodes : LastVote({}, n, NewRelay)
  BY <1>5 DEF LastVote
<1>8. VotesOK({}) /\ OneVote({})
  BY DEF VotesOK, OneVote
<1> QED
  BY <1>6, <1>7, <1>8 DEF Init, IInv

(* A step of relay n that casts at most its own votes.                      *)
LEMMA RelayStep ==
  ASSUME IInv, NEW n \in Nodes, NEW new, NEW W, Casts(n, votes, W),
         RelayOK(W, new), LastVote(W, n, new),
         relay' = [relay EXCEPT ![n] = new], votes' = W,
         link' \in [Nodes \X Nodes -> Seq(Messages(W))]
  PROVE  IInv'
<1>1. ASSUME NEW m \in Nodes PROVE RelayOK(W, relay'[m]) /\ LastVote(W, m, relay'[m])
  <2>1. CASE m = n
    BY <2>1 DEF IInv
  <2>2. CASE m # n
    <3>1. relay'[m] = relay[m]
      BY <2>2 DEF IInv
    <3>2. RelayOK(W, relay[m])
      BY MoreRelay DEF IInv, Casts
    <3>3. LastVote(votes, m, relay[m]) /\ votes \subseteq W
      BY DEF IInv, Casts
    <3>4. ASSUME NEW v \in W, v.key = KeyOf[m] PROVE v \in votes
      BY <2>2, <3>4, LoopConstants DEF Casts
    <3>5. LastVote(W, m, relay[m])
      BY <3>3, <3>4 DEF LastVote
    <3> QED
      BY <3>1, <3>2, <3>5
  <2> QED
    BY <2>1, <2>2
<1>2. VotesOK(W) /\ OneVote(W)
  BY DEF Casts
<1>3. DOMAIN relay' = Nodes
  BY DEF IInv
<1> QED
  BY <1>1, <1>2, <1>3 DEF IInv

(* A relay on another chain.                                                *)
LEMMA NewChain ==
  ASSUME IInv, NEW n \in Nodes, NEW c, ChainOK(votes, c), NEW r,
         r = [relay[n] EXCEPT !.chain = c]
  PROVE  RelayOK(votes, r) /\ LastVote(votes, n, r)
<1>1. RelayOK(votes, relay[n]) /\ LastVote(votes, n, relay[n])
  BY DEF IInv
<1>2. r = [chain |-> c, pending |-> relay[n].pending, vote |-> relay[n].vote,
           finals |-> relay[n].finals]
  BY <1>1 DEF RelayOK, IsRelay
<1>3. RelayOK(votes, r)
  BY <1>1, <1>2 DEF RelayOK, IsRelay
<1>4. LastVote(votes, n, r)
  BY <1>1, <1>2 DEF LastVote
<1> QED
  BY <1>3, <1>4

(* A block that extends the tip wakes the anchor loop.                      *)
LEMMA BlockStep ==
  ASSUME IInv, NEW n \in Nodes, NEW c, ChainOK(votes, c), NEW a,
         a = anchor_after_block(n, [relay[n] EXCEPT !.chain = c])
  PROVE  LET W == votes \cup Voted(n, a.relay)
         IN /\ Casts(n, votes, W) /\ LastVote(W, n, a.relay)
            /\ RelayOK(W, a.relay) /\ a.out \in Seq(Cps(W))
<1> DEFINE r == [relay[n] EXCEPT !.chain = c]
<1>1. RelayOK(votes, r) /\ LastVote(votes, n, r)
  BY NewChain
<1> HIDE DEF r
<1> QED
  BY <1>1, AfterBlockOK DEF IInv, r

(* Produce.                                                                 *)
LEMMA ProduceStep ==
  ASSUME IInv, NEW n \in Nodes, NEW h \in Hashes, Produce(n, h) PROVE IInv'
<1> DEFINE c == push_block(relay[n].chain, h)
<1> DEFINE a == anchor_after_block(n, [relay[n] EXCEPT !.chain = push_block(@, h)])
<1> DEFINE W == votes \cup Voted(n, a.relay)
<1>1. /\ c # None /\ relay' = [relay EXCEPT ![n] = a.relay] /\ votes' = W
      /\ link' = Deliver(n, n, <<>>, <<>>, <<BlockMsg(h)>> \o CheckpointMsgs(a.out))
  BY DEF Produce
<1>2. ChainOK(votes, c)
  BY <1>1, PushKeeps DEF IInv, RelayOK
<1>3. a = anchor_after_block(n, [relay[n] EXCEPT !.chain = c])
  OBVIOUS
<1> HIDE DEF a, c
<1>4. /\ Casts(n, votes, W) /\ LastVote(W, n, a.relay)
      /\ RelayOK(W, a.relay) /\ a.out \in Seq(Cps(W))
  BY <1>2, <1>3, BlockStep
<1> HIDE DEF W
<1>5. link' \in [Nodes \X Nodes -> Seq(Messages(W))]
  <2>1. <<>> \in Seq(Messages(W)) /\ votes \subseteq W
    BY <1>4 DEF Casts
  <2>2. <<BlockMsg(h)>> \o CheckpointMsgs(a.out) \in Seq(Messages(W))
    BY <1>4, BlockMsgOK, CheckpointMsgsOK
  <2> QED
    BY <1>1, <2>1, <2>2, DeliverOK DEF IInv
<1> QED
  BY <1>1, <1>4, <1>5, RelayStep

(* A block from a peer.                                                     *)
LEMMA ReceiveBlockStep ==
  ASSUME IInv, NEW n \in Nodes, NEW src \in Nodes, link[<<src, n>>] # <<>>,
         ReceiveBlock(n, src)
  PROVE  IInv'
<1> DEFINE m == Head(link[<<src, n>>])
<1> DEFINE old == relay[n].chain
<1> DEFINE c == IF KnownHash(old, m.body) THEN None ELSE try_attach(old, m.body)
<1> DEFINE a == anchor_after_block(n, [relay[n] EXCEPT !.chain = c])
<1> DEFINE W == votes \cup Voted(n, a.relay)
<1>0. /\ link \in [Nodes \X Nodes -> Seq(Messages(votes))]
      /\ RelayOK(votes, relay[n]) /\ LastVote(votes, n, relay[n])
      /\ DOMAIN relay = Nodes /\ VotesOK(votes) /\ OneVote(votes)
  BY DEF IInv
<1>1. m.type = "block" /\ m.body \in Hashes
  <2>1. link[<<src, n>>] \in Seq(Messages(votes))
    BY <1>0
  <2>2. m \in Messages(votes)
    BY <2>1
  <2>3. m.type = "block"
    BY DEF ReceiveBlock
  <2> HIDE DEF m
  <2> QED
    BY <2>2, <2>3 DEF Messages
<1>2. CASE c = None
  <2>1. /\ link' = Deliver(n, src, <<>>, <<>>, <<>>)
        /\ relay' = relay /\ votes' = votes
    BY <1>2 DEF ReceiveBlock
  <2>2. <<>> \in Seq(Messages(votes))
    OBVIOUS
  <2>3. link' \in [Nodes \X Nodes -> Seq(Messages(votes))]
    BY <1>0, <2>1, <2>2, DeliverOK
  <2> QED
    BY <2>1, <2>3 DEF IInv
<1>4. CASE c # None /\ BlockOf[m.body].prev # old.tip
  <2> DEFINE r == [relay[n] EXCEPT !.chain = c]
  <2>1. /\ relay' = [relay EXCEPT ![n] = r] /\ votes' = votes
        /\ link' = Deliver(n, src, <<>>, <<>>, <<>>)
    BY <1>0, <1>4 DEF ReceiveBlock
  <2>2. ChainOK(votes, c)
    BY <1>0, <1>1, <1>4, AttachKeeps DEF RelayOK
  <2> HIDE DEF c
  <2>3. RelayOK(votes, r) /\ LastVote(votes, n, r)
    BY <2>2, NewChain
  <2>4. <<>> \in Seq(Messages(votes))
    OBVIOUS
  <2>5. link' \in [Nodes \X Nodes -> Seq(Messages(votes))]
    BY <1>0, <2>1, <2>4, DeliverOK
  <2>6. Casts(n, votes, votes)
    BY <1>0 DEF Casts
  <2> HIDE DEF r
  <2> QED
    BY <2>1, <2>3, <2>5, <2>6, RelayStep
<1>3. CASE c # None /\ BlockOf[m.body].prev = old.tip
  <2>1. /\ relay' = [relay EXCEPT ![n] = a.relay] /\ votes' = W
        /\ link' = Deliver(n, src, <<BlockMsg(m.body)>>, CheckpointMsgs(a.out), <<>>)
    BY <1>3 DEF ReceiveBlock
  <2>2. ChainOK(votes, c)
    BY <1>0, <1>1, <1>3, AttachKeeps DEF RelayOK
  <2> HIDE DEF a, c, m
  <2>3. /\ Casts(n, votes, W) /\ LastVote(W, n, a.relay)
        /\ RelayOK(W, a.relay) /\ a.out \in Seq(Cps(W))
    BY <2>2, BlockStep DEF a
  <2> HIDE DEF W
  <2>4. link' \in [Nodes \X Nodes -> Seq(Messages(W))]
    <3>1. <<>> \in Seq(Messages(W)) /\ votes \subseteq W
      BY <2>3 DEF Casts
    <3>2. <<BlockMsg(m.body)>> \in Seq(Messages(W)) /\ CheckpointMsgs(a.out) \in Seq(Messages(W))
      BY <1>1, <2>3, BlockMsgOK, CheckpointMsgsOK
    <3> QED
      BY <1>0, <2>1, <3>1, <3>2, DeliverOK
  <2> QED
    BY <2>1, <2>3, <2>4, RelayStep
<1> QED
  BY <1>2, <1>3, <1>4

(* A checkpoint from anywhere: only the receiver changes, no vote is cast.  *)
LEMMA CheckpointStep ==
  ASSUME IInv, NEW n \in Nodes, NEW src \in Nodes, src = n \/ link[<<src, n>>] # <<>>,
         NEW cp \in Cps(votes), NEW a, a = accept_checkpoint_message(relay[n], cp),
         relay' = [relay EXCEPT ![n] = a.relay], votes' = votes,
         link' = Deliver(n, src, <<>>, CheckpointMsgs(a.out), CheckpointMsgs(a.relayed))
  PROVE  IInv'
<1>0. /\ link \in [Nodes \X Nodes -> Seq(Messages(votes))]
      /\ RelayOK(votes, relay[n]) /\ LastVote(votes, n, relay[n])
      /\ VotesOK(votes) /\ OneVote(votes)
  BY DEF IInv
<1>1. /\ RelayOK(votes, a.relay) /\ a.relay.vote = relay[n].vote
      /\ a.out \in Seq(Cps(votes)) /\ a.relayed \in Seq(Cps(votes))
  BY <1>0, MessageOK
<1>2. LastVote(votes, n, a.relay)
  BY <1>0, <1>1 DEF LastVote
<1>3. Casts(n, votes, votes)
  BY <1>0 DEF Casts
<1>4. link' \in [Nodes \X Nodes -> Seq(Messages(votes))]
  <2>1. <<>> \in Seq(Messages(votes))
    OBVIOUS
  <2>2. /\ CheckpointMsgs(a.out) \in Seq(Messages(votes))
        /\ CheckpointMsgs(a.relayed) \in Seq(Messages(votes))
    BY <1>1, CheckpointMsgsOK
  <2> QED
    BY <1>0, <2>1, <2>2, DeliverOK
<1> QED
  BY <1>1, <1>2, <1>3, <1>4, RelayStep

(* A checkpoint from a relay.                                               *)
LEMMA ReceiveCheckpointStep ==
  ASSUME IInv, NEW n \in Nodes, NEW src \in Nodes, link[<<src, n>>] # <<>>,
         ReceiveCheckpoint(n, src)
  PROVE  IInv'
<1> DEFINE m == Head(link[<<src, n>>])
<1> DEFINE a == accept_checkpoint_message(relay[n], m.body)
<1>1. m.type = "checkpoint" /\ m.body \in Cps(votes)
  <2>1. link[<<src, n>>] \in Seq(Messages(votes))
    BY DEF IInv
  <2>2. m \in Messages(votes)
    BY <2>1
  <2>3. m.type = "checkpoint"
    BY DEF ReceiveCheckpoint
  <2> HIDE DEF m
  <2> QED
    BY <2>2, <2>3 DEF Messages
<1>2. /\ relay' = [relay EXCEPT ![n] = a.relay] /\ votes' = votes
      /\ link' = Deliver(n, src, <<>>, CheckpointMsgs(a.out), CheckpointMsgs(a.relayed))
  BY DEF ReceiveCheckpoint
<1> HIDE DEF m
<1> QED
  BY <1>1, <1>2, CheckpointStep

(* A checkpoint from an outsider, whose signatures that verify are votes.   *)
LEMMA OutsiderStep ==
  ASSUME IInv, NEW n \in Exposed, NEW d \in ForeignData,
         NEW signers \in SUBSET Owners, NEW void \in SUBSET Owners,
         Outsider(n, d, signers, void)
  PROVE  IInv'
<1> DEFINE cp == [data |-> d, signers |-> signers, void |-> void \ signers]
<1> DEFINE a == accept_checkpoint_message(relay[n], cp)
<1>1. n \in Nodes
  BY LoopConstants
<1>2. cp \in Cps(votes)
  <2>1. signers \subseteq Signers(votes, d)
    BY DEF Outsider, Signers
  <2>2. d \in Contents(votes)
    BY DEF Contents
  <2> QED
    BY <2>1, <2>2 DEF Cps
<1>3. /\ relay' = [relay EXCEPT ![n] = a.relay] /\ votes' = votes
      /\ link' = Deliver(n, n, <<>>, CheckpointMsgs(a.out), CheckpointMsgs(a.relayed))
  BY DEF Outsider
<1> HIDE DEF cp
<1> QED
  BY <1>1, <1>2, <1>3, CheckpointStep

(* A fault takes a message away or moves it back.                           *)
LEMMA FaultStep ==
  ASSUME IInv, NEW p \in FaultyLinks, Lose(p) \/ Overtake(p) PROVE IInv'
<1> DEFINE M == Messages(votes)
<1>0. p \in Nodes \X Nodes /\ link \in [Nodes \X Nodes -> Seq(M)] /\ link[p] \in Seq(M)
  BY LoopConstants DEF IInv
<1> HIDE DEF M
<1>1. PICK messages : /\ messages \in Seq(M) /\ link' = [link EXCEPT ![p] = messages]
                      /\ relay' = relay /\ votes' = votes
  <2>1. CASE Lose(p)
    <3>1. PICK i \in DOMAIN link[p] : Fault(p, RemoveAt(link[p], i))
      BY <2>1 DEF Lose
    <3>2. RemoveAt(link[p], i) \in Seq(M)
      BY <1>0, RemoveOK
    <3> QED
      BY <3>1, <3>2 DEF Fault
  <2>2. CASE Overtake(p)
    <3>1. PICK i \in 1..(Len(link[p]) - 1) :
            Fault(p, Append(RemoveAt(link[p], i), link[p][i]))
      BY <2>2 DEF Overtake
    <3>2. Len(link[p]) \in Nat
      BY <1>0
    <3>3. i \in 1..Len(link[p])
      BY <3>2
    <3>4. RemoveAt(link[p], i) \in Seq(M) /\ link[p][i] \in M
      BY <1>0, <3>3, RemoveOK
    <3>5. Append(RemoveAt(link[p], i), link[p][i]) \in Seq(M)
      BY <3>4
    <3> QED
      BY <3>1, <3>5 DEF Fault
  <2> QED
    BY <2>1, <2>2
<1>2. link' \in [Nodes \X Nodes -> Seq(M)]
  BY <1>0, <1>1
<1> QED
  BY <1>1, <1>2 DEF IInv, M

(* Every step keeps the invariant.                                          *)
LEMMA NextInv == IInv /\ [Next]_vars => IInv'
<1> SUFFICES ASSUME IInv, [Next]_vars PROVE IInv'
  OBVIOUS
<1>1. CASE UNCHANGED vars
  BY <1>1 DEF vars, IInv
<1>2. ASSUME NEW n \in Nodes, NEW src \in Nodes, Receive(n, src) PROVE IInv'
  BY <1>2, ReceiveBlockStep, ReceiveCheckpointStep DEF Receive
<1> QED
  BY <1>1, <1>2, ProduceStep, FaultStep, OutsiderStep DEF Next

(* The invariant always holds.                                              *)
LEMMA InvHolds == Spec => []IInv
BY InitInv, NextInv, PTL DEF Spec

(* checkpoint.rs verify_quorum, anchor.rs merge: whatever signatures a      *)
(* relay was sent, valid or not, and whatever they overwrote, evicted or    *)
(* made it drop, what it finalizes was signed by a quorum of the committee  *)
(* that it drew; and no merge, aggregate or message has a signature count   *)
(* for a content that its key did not sign.                                 *)
THEOREM OnlyVotesCount == Spec => []CountsOnlyVotes
<1>1. IInv => CountsOnlyVotes
  <2> SUFFICES ASSUME IInv PROVE CountsOnlyVotes
    OBVIOUS
  <2> DEFINE Voters(d) == {k \in Owners : [key |-> k, data |-> d] \in votes}
  <2>1. \A d : Voters(d) = Signers(votes, d)
    BY DEF Signers
  <2> HIDE DEF Voters
  <2>2. ASSUME NEW n \in Nodes
        PROVE  /\ \A f \in relay[n].finals :
                    /\ Cardinality(f.committee) >= MIN_FINALITY_COMMITTEE_SIZE
                    /\ Cardinality(f.committee \cap Voters(f.data))
                         >= quorum_for(Cardinality(f.committee))
               /\ \A d \in DOMAIN relay[n].pending :
                    relay[n].pending[d].signers \subseteq Voters(d)
    <3>1. PendingOK(votes, relay[n].pending) /\ \A f \in relay[n].finals : FinalOK(votes, f)
      BY DEF IInv, RelayOK
    <3>2. \A d \in DOMAIN relay[n].pending :
            relay[n].pending[d].signers \subseteq Signers(votes, d)
      BY <3>1 DEF PendingOK, SigsOK
    <3> QED
      BY <2>1, <3>1, <3>2 DEF FinalOK
  <2>3. ASSUME NEW p \in Nodes \X Nodes, NEW i \in DOMAIN link[p], link[p][i].type = "checkpoint"
        PROVE  link[p][i].body.signers \subseteq Voters(link[p][i].body.data)
    <3>1. link[p] \in Seq(Messages(votes))
      BY DEF IInv
    <3>2. link[p][i] \in Messages(votes)
      BY <3>1
    <3>3. link[p][i].body \in Cps(votes)
      BY <2>3, <3>2 DEF Messages
    <3> QED
      BY <2>1, <3>3 DEF Cps
  <2> QED
    BY <2>2, <2>3 DEF CountsOnlyVotes, Voters
<1> QED
  BY <1>1, InvHolds, PTL

(* No key has signed two contents of one epoch.                             *)
OneVotePerEpoch ==
  \A v, w \in votes : v.key = w.key /\ v.data.epoch = w.data.epoch => v.data = w.data

(* signer_guard.rs authorize, as the anchor loop uses it: an anchor never   *)
(* signs two contents of one epoch, over all its forks and proposals.       *)
THEOREM AnchorsVoteOnce == Spec => []OneVotePerEpoch
<1>1. IInv => OneVotePerEpoch
  BY DEF IInv, OneVote, OneVotePerEpoch
<1> QED
  BY <1>1, InvHolds, PTL

(* Two quorums of one committee share a key.                                *)
LEMMA QuorumsMeet ==
  ASSUME NEW C, IsFiniteSet(C), NEW A \in SUBSET C, NEW B \in SUBSET C,
         Cardinality(A) >= quorum_for(Cardinality(C)),
         Cardinality(B) >= quorum_for(Cardinality(C))
  PROVE  A \cap B # {}
<1>1. IsFiniteSet(A) /\ IsFiniteSet(B)
  BY FS_Subset
<1>2. Cardinality(A \cup B) = Cardinality(A) + Cardinality(B) - Cardinality(A \cap B)
  BY <1>1, FS_Union
<1>3. Cardinality(A \cup B) <= Cardinality(C)
  <2>1. A \cup B \in SUBSET C
    OBVIOUS
  <2> QED
    BY <2>1, FS_Subset
<1>4. /\ Cardinality(A) \in Nat /\ Cardinality(B) \in Nat /\ Cardinality(C) \in Nat
  BY <1>1, FS_CardinalityType
<1> DEFINE a == Cardinality(A)
<1> DEFINE b == Cardinality(B)
<1> DEFINE c == Cardinality(C)
<1>5. 2 * ((2 * c) \div 3 + 1) > c
  <2> HIDE DEF c
  <2> QED
    BY <1>4 DEF c
<1>6. a + b > c
  <2>1. a >= (2 * c) \div 3 + 1 /\ b >= (2 * c) \div 3 + 1 /\ (2 * c) \div 3 \in Int
    BY <1>4 DEF quorum_for
  <2> DEFINE q == (2 * c) \div 3
  <2> HIDE DEF a, b, c, q
  <2> QED
    BY <1>4, <1>5, <2>1 DEF a, b, c, q
<1>7. ASSUME A \cap B = {} PROVE FALSE
  <2>1. Cardinality(A \cap B) = 0
    BY <1>7, FS_EmptySet
  <2> QED
    BY <1>2, <1>3, <1>4, <1>6, <2>1
<1> QED
  BY <1>7

(* finality.rs quorum_for, accept_checkpoint and anchor.rs: whatever the    *)
(* relays received, valid or not, and in which order, they finalize one     *)
(* content per epoch and committee: two contents of one epoch need two      *)
(* committees.                                                              *)
THEOREM QuorumsOfOneCommitteeAgree == Spec => []FinalizedAgree
<1>1. IInv => FinalizedAgree
  <2> SUFFICES ASSUME IInv, NEW m \in Nodes, NEW n \in Nodes,
                      NEW a \in relay[m].finals, NEW b \in relay[n].finals,
                      a.data.epoch = b.data.epoch, a.committee = b.committee
               PROVE  a.data = b.data
    BY DEF FinalizedAgree
  <2> DEFINE C == a.committee
  <2> DEFINE A == C \cap Signers(votes, a.data)
  <2> DEFINE B == C \cap Signers(votes, b.data)
  <2>1. FinalOK(votes, a) /\ FinalOK(votes, b)
    BY DEF IInv, RelayOK
  <2>2. IsFiniteSet(C)
    BY <2>1, RegistryConstants, FS_Subset DEF FinalOK
  <2>3. Cardinality(A) >= quorum_for(Cardinality(C)) /\ Cardinality(B) >= quorum_for(Cardinality(C))
    BY <2>1 DEF FinalOK
  <2>4. A \cap B # {}
    BY <2>2, <2>3, QuorumsMeet
  <2>5. PICK k : k \in Signers(votes, a.data) /\ k \in Signers(votes, b.data)
    BY <2>4
  <2>6. [key |-> k, data |-> a.data] \in votes /\ [key |-> k, data |-> b.data] \in votes
    BY <2>5 DEF Signers
  <2>7. OneVote(votes)
    BY DEF IInv
  <2> QED
    BY <2>6, <2>7 DEF OneVote
<1> QED
  BY <1>1, InvHolds, PTL
=============================================================================
