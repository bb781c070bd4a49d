------------------------------ MODULE AnchorLoop ------------------------------
(***************************************************************************)
(* Several relays that run the anchor loop                                  *)
(* (crates/scone-network/src/relay/anchor.rs) over the chain rules of       *)
(* ChainOps: after every block an anchor of the committee signs the content *)
(* its tip determines and gossips it; every relay merges signatures per     *)
(* content, finalizes on a quorum and broadcasts the aggregate.             *)
(*                                                                         *)
(* A relay is one event loop, so a handler is one step: it computes the     *)
(* relay's next value and the messages it sends.  Signatures travel as a    *)
(* map from keys to bytes that nobody verifies before a quorum is counted:  *)
(* here the keys whose bytes verify (signers) and those whose bytes do not  *)
(* (void), two different invalid signatures of a key being one.  The signer *)
(* guard is the rule that SignerGuard proves to survive crashes: one        *)
(* content per epoch.                                                       *)
(***************************************************************************)
EXTENDS ChainOps

CONSTANTS
  Nodes,                     \* relays, all connected to each other
  KeyOf,                     \* the anchor key of each relay, None if passive
  EpochMinBlocks,            \* ConsensusParams::epoch_min_blocks
  MAX_PENDING_CHECKPOINTS,
  Common,                    \* the blocks that every relay starts with
  MaxEpoch,                  \* bound on the epochs of a run
  FaultyLinks,               \* the pairs of relays whose link has faults, and
  MaxFaults,                 \* bound on the requests that fail, are overtaken or foreign
  Exposed,                   \* the relays that a peer outside Nodes sends
  ForeignData                \* checkpoints of these contents to

(* Every anchor has a key of its own: two processes that sign with one key  *)
(* are out of the reach of the signer guard, which is one file.             *)
ASSUME LoopConstants ==
  /\ KeyOf \in [Nodes -> Owners \cup {None}] /\ None \notin Owners
  /\ \A m, n \in Nodes : KeyOf[m] = KeyOf[n] /\ KeyOf[m] # None => m = n
  /\ EpochMinBlocks \in Nat
  /\ Common \in Seq(Hashes) /\ Len(Common) < EpochMinBlocks
  /\ push_all(NewNode, Common) # None
  /\ MAX_PENDING_CHECKPOINTS \in Nat \ {0}
  /\ MaxEpoch \in Nat /\ MaxFaults \in Nat /\ FaultyLinks \subseteq Nodes \X Nodes
  /\ Exposed \subseteq Nodes
  /\ \A d \in ForeignData : d.epoch \in Nat /\ d.height \in Nat

VARIABLES
  relay,   \* per node: its chain, pending signatures, last vote and, as history,
           \* every content it finalized with the committee that it drew for it
  link,    \* messages under way, per ordered pair of nodes
  votes,   \* history: every (key, content) ever signed
  faults   \* history: how many requests failed, were overtaken or foreign

vars == <<relay, link, votes, faults>>

NoSigs == [signers |-> {}, void |-> {}]

(* The contents being aggregated are a function from content to signatures. *)
(* A relay that has synchronized Common, too short for a first checkpoint.  *)
NewRelay ==
  [chain |-> push_all(NewNode, Common), pending |-> [d \in {} |-> NoSigs],
   vote |-> None, finals |-> {}]

Init ==
  /\ relay = [n \in Nodes |-> NewRelay]
  /\ link = [p \in Nodes \X Nodes |-> <<>>]
  /\ votes = {}
  /\ faults = 0

-----------------------------------------------------------------------------
(* Contents.                                                                *)

LastHeight(c) == IF c.checkpoints = <<>> THEN 0 ELSE Last(c.checkpoints).data.height

(* The content that the tip determines.                                     *)
checkpoint_data(c, recovery) ==
  [epoch      |-> IF c.checkpoints = <<>> THEN 0 ELSE Last(c.checkpoints).data.epoch + 1,
   height     |-> Height(c),
   block_hash |-> c.tip,
   prev       |-> IF c.checkpoints = <<>> THEN None ELSE Last(c.checkpoints),
   state_root |-> c.state.smt,
   recovery   |-> recovery]

(* None before the minimum number of blocks; a relay only proposes draw 0.  *)
propose_checkpoint(c) ==
  IF Height(c) <= LastHeight(c) \/ Height(c) - LastHeight(c) < EpochMinBlocks
    THEN None ELSE checkpoint_data(c, 0)

(* SignerGuard::authorize.                                                  *)
GuardAllows(r, d) ==
  \/ r.vote = None
  \/ d.epoch > r.vote.epoch
  \/ d = r.vote

-----------------------------------------------------------------------------
(* The loop on one relay r: results are a relay and the messages it sends.  *)

Sends(r, out) == [relay |-> r, out |-> out]
Keys(sigs)    == sigs.signers \cup sigs.void
SigsOf(p, d)  == IF d \in DOMAIN p THEN p[d] ELSE NoSigs

(* A checkpoint on its way: the signatures sigs of content d.               *)
Signed(d, sigs) == [data |-> d, signers |-> sigs.signers, void |-> sigs.void]

(* Whether merging would bring a key that the content does not have yet.    *)
IsNew(p, d, sigs) == ~(Keys(sigs) \subseteq Keys(SigsOf(p, d)))

(* The signature of a key that comes last replaces the one before, valid or *)
(* not.                                                                     *)
merge(p, d, sigs) ==
  LET old == SigsOf(p, d)
      all == [signers |-> (old.signers \ sigs.void) \cup sigs.signers,
              void    |-> (old.void \ sigs.signers) \cup sigs.void]
  IN [x \in DOMAIN p \cup {d} |-> IF x = d THEN all ELSE p[x]]

Without(p, d) == [x \in DOMAIN p \ {d} |-> p[x]]

(* The order of the signing hashes, which no one chooses: by block hash and *)
(* then by epoch; what is left, any order of the pending contents.          *)
HashBelow(a, b) ==
  a.block_hash < b.block_hash \/ (a.block_hash = b.block_hash /\ a.epoch < b.epoch)

HashOrder(p) ==
  LET n == Cardinality(DOMAIN p)
      o == CHOOSE s \in [1..n -> DOMAIN p] :
             \A i, j \in 1..n : i < j => s[i] # s[j] /\ ~HashBelow(s[j], s[i])
  IN [i \in 1..n |-> o[i]]

(* Above the cap, the smallest hashes leave.                                *)
enforce_cap(p) ==
  LET o == HashOrder(p)
      kept == {i \in DOMAIN o : i > Len(o) - MAX_PENDING_CHECKPOINTS}
  IN [d \in {x \in DOMAIN p : \E i \in kept : x = o[i]} |-> p[d]]

(* Mutant: the signatures of a quorum of keys are taken for verified.       *)
aggregate_if_quorum_mut(r, d) ==
  LET c    == committee(r.chain, d.recovery)
      keys == Keys(r.pending[d]) \cap c
  IN IF Cardinality(keys) < quorum_for(Cardinality(c)) THEN None
     ELSE Signed(d, [signers |-> keys, void |-> {}])

(* The checkpoint with every committee signature of d, None below a quorum  *)
(* of keys: the signatures themselves are verified by accept_checkpoint.    *)
aggregate_if_quorum(r, d) ==
  LET c    == committee(r.chain, d.recovery)
      sigs == [signers |-> r.pending[d].signers \cap c, void |-> r.pending[d].void \cap c]
  IN IF Cardinality(Keys(sigs)) < quorum_for(Cardinality(c)) THEN None
     ELSE Signed(d, sigs)

(* An armed anchor of a committee that is large enough to finalize signs    *)
(* the content of its tip, once; the first time, it gossips its signature.  *)
try_propose_checkpoint(n, r) ==
  LET k == KeyOf[n]
      c == committee(r.chain, 0)
      d == propose_checkpoint(r.chain)
      own == [signers |-> {k}, void |-> {}]
  IN IF \/ k = None
        \/ Cardinality(c) < MIN_FINALITY_COMMITTEE_SIZE
        \/ k \notin c
        \/ d = None
        \/ ~GuardAllows(r, d)
        \/ d.epoch > MaxEpoch
       THEN Sends(r, <<>>)
       ELSE Sends([r EXCEPT !.vote = d, !.pending = merge(@, d, own)],
                  IF IsNew(r.pending, d, own) THEN <<Signed(d, own)>> ELSE <<>>)

(* One pending content: skipped when it has gone, dropped when stale, kept  *)
(* below quorum, accepted and broadcast, or dropped, with its valid         *)
(* signatures, when the chain refuses it after all (too few signatures      *)
(* verify, a committee below the floor, another state).                     *)
Final(c, d) == [data |-> d, committee |-> committee(c, d.recovery)]
TryFinalizeOne(s, d) ==
  LET r  == s.relay
      cp == aggregate_if_quorum(r, d)
      dropped == [r EXCEPT !.pending = Without(@, d)]
  IN IF d \notin DOMAIN r.pending THEN s
     ELSE IF ~check_checkpoint_data(r.chain, d) THEN Sends(dropped, s.out)
     ELSE IF cp = None THEN s
     ELSE IF accept_checkpoint(r.chain, cp) \in {None, r.chain}
       THEN Sends(dropped, s.out)
     ELSE Sends([dropped EXCEPT !.chain = accept_checkpoint(@, cp),
                                !.finals = @ \cup {Final(r.chain, d)}],
                Append(s.out, cp))

try_finalize_all(r) ==
  FoldLeft(TryFinalizeOne, Sends(r, <<>>), HashOrder(r.pending))

anchor_after_block(n, r) ==
  LET p == try_propose_checkpoint(n, r)
      f == try_finalize_all(p.relay)
  IN Sends([f.relay EXCEPT !.pending = enforce_cap(@)], p.out \o f.out)

(* Mutant: a merged signature waits for the next block to be counted.       *)
accept_checkpoint_message_mut(r, cp) ==
  IF \/ \E i \in DOMAIN r.chain.checkpoints : r.chain.checkpoints[i].data = cp.data
     \/ ~check_checkpoint_data(r.chain, cp.data)
    THEN [relay |-> r, out |-> <<>>, relayed |-> <<>>]
    ELSE [relay |-> [r EXCEPT !.pending = enforce_cap(merge(@, cp.data, cp))],
          out |-> <<>>,
          relayed |-> IF IsNew(r.pending, cp.data, cp) THEN <<cp>> ELSE <<>>]

(* A gossiped checkpoint: absorbed when finalized here, refused when its    *)
(* content breaks a rule, else merged, its signatures unseen; relayed while *)
(* it brings keys.  (The test that it is not finalized by now compares a    *)
(* checkpoint hash with a content hash, so it never stops the relaying.)    *)
accept_checkpoint_message(r, cp) ==
  IF \/ \E i \in DOMAIN r.chain.checkpoints : r.chain.checkpoints[i].data = cp.data
     \/ ~check_checkpoint_data(r.chain, cp.data)
    THEN [relay |-> r, out |-> <<>>, relayed |-> <<>>]
    ELSE LET m == [r EXCEPT !.pending = enforce_cap(merge(@, cp.data, cp))]
             f == try_finalize_all(m)
         IN [relay |-> f.relay, out |-> f.out,
             relayed |-> IF IsNew(r.pending, cp.data, cp) THEN <<cp>> ELSE <<>>]

-----------------------------------------------------------------------------
(* Links.                                                                   *)

Peers(n) == Nodes \ {n}
BlockMsg(h)       == [type |-> "block", body |-> h]
CheckpointMsg(cp) == [type |-> "checkpoint", body |-> cp]
CheckpointMsgs(cps) == [i \in DOMAIN cps |-> CheckpointMsg(cps[i])]

(* The links after node n has consumed the first message of src (itself:    *)
(* none) and sent `all` to its peers, with `first` before it and `last`     *)
(* after it for the peers other than src.                                   *)
Deliver(n, src, first, all, last) ==
  [p \in Nodes \X Nodes |->
     IF p[1] = p[2] THEN <<>>
     ELSE IF p = <<src, n>> THEN Tail(link[p])
     ELSE IF p[1] # n THEN link[p]
     ELSE link[p] \o (IF p[2] = src THEN all ELSE first \o all \o last)]

Voted(n, r) == IF r.vote = None THEN {} ELSE {[key |-> KeyOf[n], data |-> r.vote]}

-----------------------------------------------------------------------------
(* Actions.                                                                 *)

(* A relay produces a block on its tip, sends it and runs the anchor loop.  *)
Produce(n, h) ==
  /\ BlockOf[h].producer = KeyOf[n]
  /\ BlockOf[h].prev = relay[n].chain.tip
  /\ push_block(relay[n].chain, h) # None
  /\ LET a == anchor_after_block(n, [relay[n] EXCEPT !.chain = push_block(@, h)])
     IN /\ relay' = [relay EXCEPT ![n] = a.relay]
        /\ link' = Deliver(n, n, <<>>, <<>>, <<BlockMsg(h)>> \o CheckpointMsgs(a.out))
        /\ votes' = votes \cup Voted(n, a.relay)
        /\ UNCHANGED faults

(* A block: a duplicate is a no-op, a refused one an error; one that        *)
(* extends the tip is relayed and wakes the anchor loop.  A sister that     *)
(* wins the tie replaces the tip in RAM, but the store refuses its height   *)
(* and the handler ends there: it is not relayed and wakes nobody.          *)
ReceiveBlock(n, src) ==
  LET m == Head(link[<<src, n>>])
      c == relay[n].chain
      next == IF KnownHash(c, m.body) THEN None ELSE try_attach(c, m.body)
  IN /\ m.type = "block"
     /\ \/ /\ next = None
           /\ link' = Deliver(n, src, <<>>, <<>>, <<>>)
           /\ UNCHANGED <<relay, votes>>
        \/ /\ next # None /\ BlockOf[m.body].prev # c.tip
           /\ relay' = [relay EXCEPT ![n].chain = next]
           /\ link' = Deliver(n, src, <<>>, <<>>, <<>>)
           /\ UNCHANGED votes
        \/ /\ next # None /\ BlockOf[m.body].prev = c.tip
           /\ LET a == anchor_after_block(n, [relay[n] EXCEPT !.chain = next])
              IN /\ relay' = [relay EXCEPT ![n] = a.relay]
                 /\ link' = Deliver(n, src, <<BlockMsg(m.body)>>,
                                    CheckpointMsgs(a.out), <<>>)
                 /\ votes' = votes \cup Voted(n, a.relay)

ReceiveCheckpoint(n, src) ==
  LET m == Head(link[<<src, n>>])
  IN /\ m.type = "checkpoint"
     /\ LET a == accept_checkpoint_message(relay[n], m.body)
        IN /\ relay' = [relay EXCEPT ![n] = a.relay]
           /\ link' = Deliver(n, src, <<>>, CheckpointMsgs(a.out),
                              CheckpointMsgs(a.relayed))
     /\ UNCHANGED votes

(* Requests between two relays arrive in the order they were sent in, ...   *)
Receive(n, src) ==
  /\ link[<<src, n>>] # <<>>
  /\ ReceiveBlock(n, src) \/ ReceiveCheckpoint(n, src)
  /\ UNCHANGED faults

(* ... but for faults: each travels on a stream of its own, so the next one *)
(* may overtake it, and one that fails is never sent again.                 *)
Fault(p, messages) ==
  /\ faults < MaxFaults
  /\ link' = [link EXCEPT ![p] = messages]
  /\ faults' = faults + 1
  /\ UNCHANGED <<relay, votes>>
Lose(p) == \E i \in DOMAIN link[p] : Fault(p, RemoveAt(link[p], i))
Overtake(p) ==
  \E i \in 1..(Len(link[p]) - 1) : Fault(p, Append(RemoveAt(link[p], i), link[p][i]))

(* A peer that is none of the relays sends one of them a checkpoint of      *)
(* content d: it holds the signatures that were cast, under other keys it   *)
(* puts bytes of its own.  The handler is the one of any peer.              *)
Outsider(n, d, signers, void) ==
  /\ faults < MaxFaults
  /\ \A k \in signers : [key |-> k, data |-> d] \in votes
  /\ LET a == accept_checkpoint_message(relay[n],
                 [data |-> d, signers |-> signers, void |-> void \ signers])
     IN /\ relay' = [relay EXCEPT ![n] = a.relay]
        /\ link' = Deliver(n, n, <<>>, CheckpointMsgs(a.out), CheckpointMsgs(a.relayed))
  /\ faults' = faults + 1
  /\ UNCHANGED votes

Next ==
  \/ \E n \in Nodes, h \in Hashes : Produce(n, h)
  \/ \E n, src \in Nodes : Receive(n, src)
  \/ \E p \in FaultyLinks : Lose(p)
  \/ \E p \in FaultyLinks : Overtake(p)
  \/ \E n \in Exposed, d \in ForeignData, signers, void \in SUBSET Owners :
       Outsider(n, d, signers, void)

(* The transport delivers what it was given while the connection stands,    *)
(* and the event loop handles what was delivered: WF_vars(Receive(n, src)), *)
(* whose ENABLED is a link that is not empty.  Nobody has to produce.       *)
Taken(n, src) == Len(link'[<<src, n>>]) < Len(link[<<src, n>>])
Fairness ==
  \A n \in Nodes : \A src \in Peers(n) :
    \/ []<>(link[<<src, n>>] = <<>>)
    \/ []<><<Taken(n, src)>>_link

Spec == Init /\ [][Next]_vars /\ Fairness

-----------------------------------------------------------------------------
(* Properties.                                                              *)

Armed == {n \in Nodes : KeyOf[n] # None}

FinalizedAt(n) == Range(relay[n].chain.checkpoints)

(* Types of the relays, their pending signatures and the links.             *)
TypeOK ==
  /\ \A n \in Nodes :
       LET r == relay[n]
       IN /\ r.chain.tip \in Hashes \cup {0}
          /\ \A d \in DOMAIN r.pending :
               /\ r.pending[d] \in [signers : SUBSET Owners, void : SUBSET Owners]
               /\ r.pending[d].signers \cap r.pending[d].void = {}
          /\ Cardinality(DOMAIN r.pending) <= MAX_PENDING_CHECKPOINTS
          /\ r.vote # None => r.vote.epoch \in 0..MaxEpoch
  /\ \A p \in Nodes \X Nodes : \A i \in DOMAIN link[p] :
       link[p][i].type \in {"block", "checkpoint"}

(* anchor.rs try_finalize_all, finality.rs accept_checkpoint: two relays    *)
(* that drew the same committee for an epoch never finalize two contents of *)
(* it, whatever forks they are on and whatever signatures they were sent:   *)
(* quorums of one committee meet, and a key votes once per epoch.  (Relays  *)
(* on forks that draw different committees may disagree.)                   *)
FinalizedAgree ==
  \A m, n \in Nodes : \A a \in relay[m].finals, b \in relay[n].finals :
    a.data.epoch = b.data.epoch /\ a.committee = b.committee => a.data = b.data

(* checkpoint.rs verify_quorum: although any peer may put unverified bytes  *)
(* under any key into the aggregates of a relay, also over a valid          *)
(* signature, what a relay finalizes was signed by a quorum of the          *)
(* committee it drew, large enough; and no merge makes a signature count    *)
(* for a content that its key did not sign.                                 *)
CountsOnlyVotes ==
  LET Voters(d) == {k \in Owners : [key |-> k, data |-> d] \in votes}
  IN /\ \A n \in Nodes :
          /\ \A f \in relay[n].finals :
               /\ Cardinality(f.committee) >= MIN_FINALITY_COMMITTEE_SIZE
               /\ Cardinality(f.committee \cap Voters(f.data))
                    >= quorum_for(Cardinality(f.committee))
          /\ \A d \in DOMAIN relay[n].pending : relay[n].pending[d].signers \subseteq Voters(d)
     /\ \A p \in Nodes \X Nodes : \A i \in DOMAIN link[p] :
          link[p][i].type = "checkpoint" =>
            link[p][i].body.signers \subseteq Voters(link[p][i].body.data)

(* The anchors voted, all of them, for one content of epoch e on block h.   *)
CommonVote(e, h) ==
  \E d \in {v.data : v \in votes} :
    /\ d.epoch = e /\ d.block_hash = h
    /\ \A n \in Armed : [key |-> KeyOf[n], data |-> d] \in votes

(* anchor.rs anchor_after_block, accept_checkpoint_message: when all the    *)
(* anchors vote for one content, every relay, anchor or not, finalizes it,  *)
(* although each signature is sent only once; unless a request fails, comes *)
(* out of order or is an outsider's.                                        *)
CommonVoteFinalizes ==
  \A e \in 0..MaxEpoch, h \in Hashes :
    CommonVote(e, h) ~>
      \/ faults > 0
      \/ \A n \in Nodes : \E cp \in FinalizedAt(n) :
           cp.data.epoch = e /\ cp.data.block_hash = h

(* anchor.rs:121-123 merge: "callers relay the message only then, cutting   *)
(* gossip loops".  It does not hold: a content that is dropped or evicted   *)
(* as soon as it is merged is new to the relay each time it comes round.    *)
GossipEnds == <>[](\A p \in Nodes \X Nodes : link[p] = <<>>)
=============================================================================
