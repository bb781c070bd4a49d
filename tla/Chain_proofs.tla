----------------------------- MODULE Chain_proofs -----------------------------
(***************************************************************************)
(* One node, for every tree of blocks and every delivery of blocks,         *)
(* branches and checkpoints: its RAM window, its checkpoints, its registry  *)
(* and its anti-replay index.                                               *)
(***************************************************************************)
EXTENDS Chain, ChainOps_proofs

-----------------------------------------------------------------------------
(* The inductive invariant.                                                 *)

(* The checkpoints in RAM: a sequence of checkpoints, linked as              *)
(* CheckpointsChained says.                                                 *)
Chained(cps) ==
  /\ \E T : cps \in Seq(T)
  /\ Len(cps) <= CHECKPOINT_KEEP
  /\ \A i \in 1..Len(cps) : /\ cps[i].data.epoch \in 0..MaxEpoch
                            /\ cps[i] \in Checkpoints[cps[i].data.epoch]
                            /\ cps[i].data.height \in Nat
  /\ \A i \in 2..Len(cps) : /\ cps[i].data.prev = cps[i - 1]
                            /\ cps[i].data.epoch = cps[i - 1].data.epoch + 1
                            /\ cps[i].data.height > cps[i - 1].data.height

(* The finalized base is that of the last checkpoint.                       *)
Based(n) ==
  IF n.checkpoints = <<>> THEN n.finalized = None
  ELSE n.finalized # None /\ n.finalized.checkpoint = Last(n.checkpoints)

(* The last finalized height is on the chain.                               *)
FloorReached(n) ==
  n.checkpoints # <<>> => Last(n.checkpoints).data.height <= Len(Path[n.tip])

Holds(n) ==
  /\ NodeOK(n) /\ StateOK(n) /\ BaseOK(n)
  /\ Chained(n.checkpoints) /\ Based(n) /\ FloorReached(n)

IInv == Holds(node)

-----------------------------------------------------------------------------
(* What the invariant says of the code's answers.                           *)

(* The window answers for the canonical chain.                              *)
LEMMA InvWindow == IInv => WindowSound
<1> SUFFICES ASSUME IInv PROVE WindowSound
  OBVIOUS
<1> DEFINE p == Path[node.tip]
<1>1. NodeOK(node) /\ BaseOK(node) /\ Chained(node.checkpoints) /\ FloorReached(node)
  BY DEF IInv, Holds
<1>2. /\ Last(node.canonical) = node.tip /\ Height(node) = Len(p) /\ Len(p) \in Nat
  BY <1>1, TipIs
<1>3. node.base \in 0..Len(p) /\ p \in Seq(Hashes)
  BY <1>1 DEF NodeOK, Window, Leveled
<1>4. ASSUME NEW k \in Nat
      PROVE  block(node, k) = IF k = 0 THEN 0
                              ELSE IF k \in node.base..Height(node) THEN p[k] ELSE None
  BY <1>1, <1>2, BlockIs
<1>5. node.known = [k \in {k \in 0..Len(p) : k = 0 \/ k >= node.base} |->
                      IF k = 0 THEN 0 ELSE p[k]]
  BY <1>1 DEF NodeOK, Window
<1> HIDE DEF p
<1>6. WindowIndexed
  <2>1. \A k \in 0..(Height(node) + 1) :
          block(node, k) = IF k = 0 THEN 0
                           ELSE IF k \in node.base..Height(node) THEN p[k] ELSE None
    BY <1>2, <1>4
  <2>2. DOMAIN node.known = {k \in 0..Height(node) : k = 0 \/ k >= node.base}
    BY <1>2, <1>5
  <2>3. ASSUME NEW k \in DOMAIN node.known PROVE node.known[k] = block(node, k)
    <3>1. k \in 0..Len(p) /\ (k = 0 \/ k >= node.base)
      BY <1>2, <2>2
    <3>2. node.known[k] = IF k = 0 THEN 0 ELSE p[k]
      BY <1>5, <3>1
    <3>3. k \in Nat /\ (k # 0 => k \in node.base..Height(node))
      BY <1>2, <1>3, <3>1
    <3> QED
      BY <1>4, <3>2, <3>3
  <2> QED
    BY <1>2, <2>1, <2>2, <2>3 DEF WindowIndexed, Canon, p
<1>7. FloorInWindow
  <2> SUFFICES ASSUME node.checkpoints # <<>>
               PROVE  Floor <= Height(node) /\ block(node, Floor) # None
    BY DEF FloorInWindow
  <2>1. Floor \in Nat /\ Floor <= Len(p) /\ node.base <= Floor
    BY <1>1 DEF Floor, NodeOK, HasFloor, BaseOK, FloorReached, p
  <2>2. Floor # 0 => Floor \in node.base..Height(node) /\ Floor \in 1..Len(p)
    BY <1>2, <1>3, <2>1
  <2>3. block(node, Floor) = IF Floor = 0 THEN 0
                             ELSE IF Floor \in node.base..Height(node) THEN p[Floor] ELSE None
    BY <1>4, <2>1
  <2>4. block(node, Floor) \in Hashes \cup {0}
    BY <1>3, <2>2, <2>3
  <2> QED
    BY <1>2, <2>1, <2>4, ChainConstants
<1> QED
  BY <1>6, <1>7 DEF WindowSound

(* The checkpoints are a chain.                                             *)
LEMMA InvChained == IInv => CheckpointsChained
BY DEF IInv, Holds, Chained, Based, CheckpointsChained

-----------------------------------------------------------------------------
(* The steps.                                                               *)

(* A node that keeps the checkpoints of n and is no lower.                  *)
LEMMA CarryCheckpoints ==
  ASSUME NEW n, Holds(n), NEW m, NodeOK(m), StateOK(m), BaseOK(m),
         m.checkpoints = n.checkpoints, m.finalized = n.finalized,
         Len(Path[m.tip]) >= Len(Path[n.tip])
  PROVE  Holds(m)
<1>1. Len(Path[m.tip]) \in Nat /\ Len(Path[n.tip]) \in Nat
  BY TipIs DEF Holds
<1>2. n.checkpoints # <<>> => Last(n.checkpoints).data.height \in Nat
  BY DEF Holds, NodeOK, HasFloor
<1>3. FloorReached(m)
  BY <1>1, <1>2 DEF Holds, FloorReached
<1> QED
  BY <1>3 DEF Holds, Based

(* A block on the tip.                                                      *)
LEMMA ExtendHolds ==
  ASSUME NEW n, Holds(n), NEW h \in Hashes, push_block(n, h) # None
  PROVE  /\ Holds(push_block(n, h))
         /\ Height(push_block(n, h)) = Height(n) + 1
<1> DEFINE m == push_block(n, h)
<1>1. Pushed(n, h, m)
  BY PushOK DEF Holds
<1> HIDE DEF m
<1>2. NodeOK(m) /\ StateOK(m)
  BY <1>1, PushState DEF Pushed, Holds
<1>3. BaseOK(m)
  BY <1>1 DEF Pushed, Holds, BaseMoves, BaseOK
<1>4. Height(m) = Len(Path[m.tip]) /\ Height(n) = Len(Path[n.tip]) /\ Height(n) \in Nat
  BY <1>2, TipIs DEF Holds
<1>5. Len(Path[m.tip]) = Len(Path[n.tip]) + 1
  <2>1. Path[m.tip] = Append(Path[n.tip], h) /\ Path[n.tip] \in Seq(Hashes)
    BY <1>1 DEF Pushed, Holds, NodeOK, Leveled
  <2> QED
    BY <2>1, AppendProperties
<1>6. Holds(m)
  BY <1>1, <1>2, <1>3, <1>4, <1>5, CarryCheckpoints DEF Pushed
<1> QED
  BY <1>4, <1>5, <1>6 DEF m

(* The last block of a branch is its tip.                                   *)
LEMMA TipOfPath ==
  ASSUME NEW n, NodeOK(n), Len(Path[n.tip]) > 0
  PROVE  n.tip = Path[n.tip][Len(Path[n.tip])]
<1>1. IsPath(Path[n.tip], n.tip)
  BY PathIs DEF NodeOK
<1>2. Path[n.tip] # <<>>
  BY EmptySeq
<1> QED
  BY <1>1, <1>2 DEF IsPath

(* A reorganisation that is no lower.                                       *)
LEMMA ReorgHolds ==
  ASSUME NEW n, Holds(n), NEW k \in Nat, NEW ext \in Seq(Hashes), ext # <<>>,
         NEW r, Reorged(n, k, ext, r), k + Len(ext) >= Height(n)
  PROVE  Holds(r) /\ Height(r) = k + Len(ext) /\ r.tip = Last(ext)
<1>1. /\ NodeOK(r) /\ StateOK(r) /\ BaseOK(r)
      /\ r.checkpoints = n.checkpoints /\ r.finalized = n.finalized
      /\ Len(Path[r.tip]) = k + Len(ext)
      /\ \A i \in 1..Len(ext) : Path[r.tip][k + i] = ext[i]
  BY DEF Reorged
<1>2. Height(n) = Len(Path[n.tip]) /\ Height(r) = Len(Path[r.tip])
  BY <1>1, TipIs DEF Holds
<1>3. Len(ext) \in Nat /\ Len(ext) >= 1 /\ Len(ext) \in 1..Len(ext)
  BY EmptySeq
<1>4. Holds(r)
  BY <1>1, <1>2, CarryCheckpoints
<1>5. r.tip = Path[r.tip][k + Len(ext)]
  BY <1>1, <1>3, TipOfPath
<1> QED
  BY <1>1, <1>2, <1>3, <1>4, <1>5 DEF Last

(* A sister of the tip that wins the tie.                                   *)
LEMMA TieBreakHolds ==
  ASSUME NEW n, Holds(n), NEW h \in Hashes, BlockOf[h].prev # n.tip,
         try_attach(n, h) # None
  PROVE  LET r == try_attach(n, h)
         IN Holds(r) /\ Height(r) = Height(n) /\ r.tip = h /\ h < n.tip
<1> DEFINE r == try_attach(n, h)
<1> DEFINE k == BlockOf[h].height - 1
<1>1. WinsTie(n, h) /\ r = reorg_to_height(n, k, <<h>>)
  BY DEF try_attach
<1>2. BlockOf[h].height = Height(n) /\ h < n.tip
  BY <1>1 DEF WinsTie
<1>3. k \in Nat /\ Height(n) \in Nat
  <2>1. h \in Nat /\ h > 0 /\ n.tip \in Tree /\ Tree \subseteq Nat
    BY ChainConstants DEF Holds, NodeOK, Tree
  <2>2. n.tip # 0
    BY <1>2, <2>1
  <2>3. Height(n) = Len(Path[n.tip]) /\ Len(Path[n.tip]) \in Nat
    BY TipIs DEF Holds
  <2>4. Path[n.tip] # <<>>
    BY <2>1, <2>2, PathIs DEF IsPath
  <2>5. Len(Path[n.tip]) # 0
    BY <2>4, EmptySeq DEF Holds, NodeOK, Leveled
  <2> QED
    BY <1>2, <2>3, <2>5
<1>4. <<h>> \in Seq(Hashes) /\ <<h>> # <<>> /\ Len(<<h>>) = 1 /\ Last(<<h>>) = h
  BY DEF Last
<1> HIDE DEF r, k
<1>5. r # None
  BY DEF r
<1>6. Reorged(n, k, <<h>>, r)
  BY <1>1, <1>3, <1>4, <1>5, ReorgOK DEF Holds
<1>7. k + 1 = Height(n)
  BY <1>2, <1>3 DEF k
<1>8. Holds(r) /\ Height(r) = k + 1 /\ r.tip = h
  <2>1. k + Len(<<h>>) >= Height(n)
    BY <1>3, <1>4, <1>7
  <2>2. Holds(r) /\ Height(r) = k + Len(<<h>>) /\ r.tip = Last(<<h>>)
    BY <1>3, <1>4, <1>6, <2>1, ReorgHolds
  <2> QED
    BY <1>4, <2>2
<1> QED
  BY <1>2, <1>7, <1>8 DEF r

(* A peer offers sequences of blocks that are not empty.                    *)
LEMMA OffersAre == \A b \in Offers : b \in Seq(Hashes) /\ b # <<>>
<1> TAKE b \in Offers
<1>1. CASE b \in Hashes \X Hashes
  <2>1. PICK x \in Hashes, y \in Hashes : b = <<x, y>>
    BY <1>1
  <2> QED
    BY <2>1
<1>2. CASE b \in UNION {{SubSeq(Path[h], i, Len(Path[h])) : i \in 1..Len(Path[h])} :
                         h \in Hashes}
  <2>0. PICK h \in Hashes :
          b \in {SubSeq(Path[h], i, Len(Path[h])) : i \in 1..Len(Path[h])}
    BY <1>2
  <2>1. PICK i \in 1..Len(Path[h]) : b = SubSeq(Path[h], i, Len(Path[h]))
    BY <2>0
  <2>2. Path[h] \in Seq(Hashes)
    BY PathIs DEF Tree, IsPath
  <2> DEFINE p == Path[h]
  <2>3. Len(p) \in Nat /\ i \in 1..(Len(p) + 1) /\ Len(p) \in (i - 1)..Len(p)
    BY <2>2
  <2> HIDE DEF p
  <2>4. SubSeq(p, i, Len(p)) \in Seq(Hashes) /\ Len(SubSeq(p, i, Len(p))) = Len(p) - i + 1
    BY <2>2, <2>3, Slice DEF p
  <2>5. Len(SubSeq(p, i, Len(p))) # 0
    BY <2>3, <2>4 DEF p
  <2> QED
    BY <2>1, <2>4, <2>5, EmptySeq DEF p
<1>3. \/ b \in Hashes \X Hashes
      \/ b \in UNION {{SubSeq(Path[h], i, Len(Path[h])) : i \in 1..Len(Path[h])} :
                      h \in Hashes}
  BY DEF Offers
<1> QED
  BY <1>1, <1>2, <1>3

(* A branch that is adopted: where it starts, and what it leaves.           *)
LEMMA AdoptHolds ==
  ASSUME NEW n, Holds(n), NEW branch \in Offers, adopt_branch(n, branch) # None
  PROVE  LET r == adopt_branch(n, branch)
             k == BlockOf[branch[1]].height - 1
         IN /\ k \in Nat /\ Reorged(n, k, branch, r)
            /\ KeepsCheckpoints(n, k, branch)
            /\ Holds(r)
            /\ \/ Height(r) > Height(n)
               \/ Height(r) = Height(n) /\ r.tip < n.tip
<1> DEFINE r == adopt_branch(n, branch)
<1> DEFINE k == BlockOf[branch[1]].height - 1
<1>1. branch \in Seq(Hashes) /\ branch # <<>>
  BY OffersAre
<1>2. branch[1] \in Hashes /\ BlockOf[branch[1]].height \in Nat /\ Len(branch) \in Nat
  <2>1. Len(branch) \in Nat \ {0}
    BY <1>1, EmptySeq
  <2> QED
    <3>1. 1 \in 1..Len(branch)
      BY <2>1
    <3>2. branch[1] \in Hashes
      BY <1>1, <3>1
    <3> QED
      BY <2>1, <3>2, ChainConstants
<1>3. /\ block(n, k) # None /\ KeepsCheckpoints(n, k, branch)
      /\ \/ k + Len(branch) > Height(n)
         \/ k + Len(branch) = Height(n) /\ Last(branch) < n.tip
      /\ r = reorg_to_height(n, k, branch)
  BY DEF adopt_branch
<1>4. k \in Nat
  <2>1. n.base \in Nat
    <3>1. n.base \in 0..Len(Path[n.tip])
      BY DEF Holds, NodeOK, Window
    <3> QED
      BY <3>1
  <2>2. k \in Int /\ k >= -1
    BY <1>2
  <2>3. k # -1
    BY <1>3, <2>1 DEF block
  <2> HIDE DEF k
  <2> QED
    BY <2>2, <2>3
<1> HIDE DEF r, k
<1>5. r # None
  BY DEF r
<1>6. Reorged(n, k, branch, r)
  BY <1>1, <1>3, <1>4, <1>5, ReorgOK DEF Holds
<1>7. k + Len(branch) >= Height(n)
  <2>1. Height(n) \in Nat
    BY TipIs DEF Holds
  <2> QED
    BY <1>2, <1>3, <1>4, <2>1
<1>8. Holds(r) /\ Height(r) = k + Len(branch) /\ r.tip = Last(branch)
  BY <1>1, <1>4, <1>6, <1>7, ReorgHolds
<1> QED
  BY <1>3, <1>4, <1>6, <1>8 DEF r, k

-----------------------------------------------------------------------------
(* Checkpoints.                                                             *)

(* The recursive definition of Checkpoints is one.                          *)
LEMMA CheckpointsAre ==
  \A e \in 0..MaxEpoch :
    Checkpoints[e] =
      [data : [epoch : {e}, height : Nat, block_hash : Hashes,
               prev : IF e = 0 THEN {None} ELSE Checkpoints[e - 1],
               state_root : Roots, recovery : 0..RecoveryMax],
       signers : SignerSets]
<1> DEFINE Of(e, before) ==
      [data : [epoch : {e}, height : Nat, block_hash : Hashes,
               prev : before, state_root : Roots, recovery : 0..RecoveryMax],
       signers : SignerSets]
<1> DEFINE Table(g, k) == g = [e \in 0..k |-> Of(e, IF e = 0 THEN {None} ELSE g[e - 1])]
<1> HIDE DEF Of
<1> DEFINE S == {k \in Nat : \E g : Table(g, k)}
<1>1. 0 \in S
  <2> DEFINE g == [e \in 0..0 |-> Of(e, {None})]
  <2>1. Table(g, 0)
    OBVIOUS
  <2> HIDE DEF g
  <2> QED
    BY <2>1
<1>2. ASSUME NEW k \in Nat, k \in S PROVE k + 1 \in S
  <2>1. PICK g : Table(g, k)
    BY <1>2
  <2> DEFINE f == [e \in 0..(k + 1) |-> IF e = k + 1 THEN Of(e, g[k]) ELSE g[e]]
  <2>2. ASSUME NEW e \in 0..(k + 1)
        PROVE  f[e] = Of(e, IF e = 0 THEN {None} ELSE f[e - 1])
    <3>1. CASE e = k + 1
      <4>1. e # 0 /\ e - 1 = k /\ k \in 0..(k + 1) /\ k # k + 1
        BY <3>1
      <4>2. f[k] = g[k]
        BY <4>1
      <4> QED
        BY <3>1, <4>1, <4>2
    <3>2. CASE e # k + 1
      <4>1. e \in 0..k /\ (e # 0 => e - 1 \in 0..(k + 1) /\ e - 1 # k + 1)
        BY <3>2
      <4>2. f[e] = g[e] /\ (e # 0 => f[e - 1] = g[e - 1])
        BY <3>2, <4>1
      <4>3. g[e] = Of(e, IF e = 0 THEN {None} ELSE g[e - 1])
        BY <2>1, <4>1
      <4> QED
        BY <4>2, <4>3
    <3> QED
      BY <3>1, <3>2
  <2>3. f = [e \in 0..(k + 1) |-> f[e]]
    OBVIOUS
  <2> HIDE DEF f
  <2>4. Table(f, k + 1)
    BY <2>2, <2>3, Zenon
  <2> HIDE DEF Table
  <2> QED
    BY <2>4
<1>3. Nat \subseteq S
  <2> HIDE DEF S
  <2> QED
    BY <1>1, <1>2, SetInduction
<1>4. \E g : Table(g, MaxEpoch)
  BY <1>3, NodeConstants
<1>5. Checkpoints = [e \in 0..MaxEpoch |-> Of(e, IF e = 0 THEN {None} ELSE Checkpoints[e - 1])]
  BY <1>4, Zenon DEF Checkpoints, Of
<1>6. \A e \in 0..MaxEpoch :
        Checkpoints[e] = Of(e, IF e = 0 THEN {None} ELSE Checkpoints[e - 1])
  BY <1>5
<1> QED
  BY <1>6, Zenon DEF Of

(* A checkpoint that continues a chain of them, and what the cap leaves.    *)
LEMMA ChainedAppend ==
  ASSUME NEW cps, Chained(cps), NEW cp,
         cp.data.epoch \in 0..MaxEpoch, cp \in Checkpoints[cp.data.epoch],
         cp.data.height \in Nat,
         cps # <<>> => /\ cp.data.prev = Last(cps)
                       /\ cp.data.epoch = Last(cps).data.epoch + 1
                       /\ cp.data.height > Last(cps).data.height
  PROVE  LET all == Append(cps, cp)
             cut == IF Len(all) > CHECKPOINT_KEEP THEN Len(all) - CHECKPOINT_KEEP ELSE 0
             new == SubSeq(all, cut + 1, Len(all))
         IN Chained(new) /\ new # <<>> /\ Last(new) = cp
<1> DEFINE all == Append(cps, cp)
<1> DEFINE cut == IF Len(all) > CHECKPOINT_KEEP THEN Len(all) - CHECKPOINT_KEEP ELSE 0
<1> DEFINE new == SubSeq(all, cut + 1, Len(all))
<1>1. PICK T : cps \in Seq(T)
  BY DEF Chained
<1> DEFINE U == T \cup {cp}
<1>2. cps \in Seq(U) /\ cp \in U
  BY <1>1, SeqMonotonic
<1> HIDE DEF U
<1>3. /\ all \in Seq(U) /\ Len(all) = Len(cps) + 1 /\ all[Len(cps) + 1] = cp
      /\ \A i \in 1..Len(cps) : all[i] = cps[i]
  BY <1>2, AppendProperties
<1>4. Len(cps) \in Nat /\ (cps # <<>> => Len(cps) >= 1) /\ Last(cps) = cps[Len(cps)]
  BY <1>1, EmptySeq DEF Last
<1> HIDE DEF all
<1> DEFINE Good(i) == /\ all[i].data.epoch \in 0..MaxEpoch
                      /\ all[i] \in Checkpoints[all[i].data.epoch]
                      /\ all[i].data.height \in Nat
<1> DEFINE Link(i) == /\ all[i].data.prev = all[i - 1]
                      /\ all[i].data.epoch = all[i - 1].data.epoch + 1
                      /\ all[i].data.height > all[i - 1].data.height
<1>5. ASSUME NEW i \in 1..Len(all) PROVE Good(i)
  <2>1. i \in 1..Len(cps) \/ i = Len(cps) + 1
    BY <1>3, <1>4
  <2> QED
    BY <1>3, <2>1 DEF Chained
<1>6. ASSUME NEW i \in 2..Len(all) PROVE Link(i)
  <2>1. CASE i \in 2..Len(cps)
    <3>1. i \in 1..Len(cps) /\ i - 1 \in 1..Len(cps)
      BY <1>4, <2>1
    <3> QED
      BY <1>3, <2>1, <3>1 DEF Chained
  <2>2. CASE i = Len(cps) + 1
    <3>1. Len(cps) >= 1 /\ i - 1 = Len(cps) /\ Len(cps) \in 1..Len(cps)
      BY <1>3, <1>4, <2>2
    <3>2. cps # <<>>
      BY <1>1, <3>1
    <3> QED
      BY <1>3, <1>4, <2>2, <3>1, <3>2
  <2> QED
    BY <1>3, <1>4, <2>1, <2>2
<1> HIDE DEF Good, Link
<1>7. /\ cut \in 0..(Len(all) - 1) /\ Len(all) - cut <= CHECKPOINT_KEEP
      /\ Len(all) \in Nat
  BY <1>3, <1>4, ChainConstants
<1> HIDE DEF cut
<1>8. cut + 1 \in 1..(Len(all) + 1) /\ Len(all) \in ((cut + 1) - 1)..Len(all)
  BY <1>7
<1>9. /\ new \in Seq(U) /\ Len(new) = Len(all) - (cut + 1) + 1
      /\ \A i \in 1..(Len(all) - (cut + 1) + 1) : new[i] = all[(cut + 1) + i - 1]
  BY <1>3, <1>8, Slice
<1> HIDE DEF new
<1>10. Len(new) = Len(all) - cut /\ Len(new) \in Nat /\ Len(new) >= 1
  BY <1>7, <1>9
<1>11. \A i \in 1..Len(new) : new[i] = all[cut + i] /\ cut + i \in 1..Len(all)
  <2> TAKE i \in 1..Len(new)
  <2>1. /\ i \in 1..(Len(all) - (cut + 1) + 1) /\ (cut + 1) + i - 1 = cut + i
        /\ cut + i \in 1..Len(all)
    BY <1>7, <1>10
  <2> QED
    BY <1>9, <2>1
<1>12. \A i \in 2..Len(new) :
         /\ new[i] = all[cut + i] /\ new[i - 1] = all[(cut + i) - 1]
         /\ cut + i \in 2..Len(all)
  <2> TAKE i \in 2..Len(new)
  <2>1. /\ i \in 1..Len(new) /\ i - 1 \in 1..Len(new) /\ cut + (i - 1) = (cut + i) - 1
        /\ cut + i \in 2..Len(all)
    BY <1>7, <1>10
  <2> QED
    BY <1>11, <2>1
<1>13. Last(new) = cp /\ new # <<>>
  <2>1. Len(new) \in 1..Len(new) /\ cut + Len(new) = Len(all)
    BY <1>7, <1>10
  <2>2. new[Len(new)] = all[Len(all)]
    BY <1>11, <2>1
  <2> QED
    BY <1>3, <1>9, <1>10, <2>2, EmptySeq DEF Last
<1>14. \A i \in 1..Len(new) : /\ new[i].data.epoch \in 0..MaxEpoch
                              /\ new[i] \in Checkpoints[new[i].data.epoch]
                              /\ new[i].data.height \in Nat
  BY <1>5, <1>11 DEF Good
<1>15. \A i \in 2..Len(new) : /\ new[i].data.prev = new[i - 1]
                              /\ new[i].data.epoch = new[i - 1].data.epoch + 1
                              /\ new[i].data.height > new[i - 1].data.height
  BY <1>6, <1>12 DEF Link
<1>16. Chained(new)
  BY <1>7, <1>9, <1>10, <1>14, <1>15 DEF Chained
<1> QED
  BY <1>13, <1>16 DEF all, cut, new

(* A checkpoint as CheckpointOn builds it is one of its epoch.              *)
LEMMA BuiltCheckpoint ==
  ASSUME NEW cps, Chained(cps), NEW h \in Hashes, NEW prev \in Range(cps) \cup {None},
         NEW k \in 0..RecoveryMax, NEW signers \in SignerSets, BranchState[h] # None,
         CheckpointOn(h, prev, k, signers).data.epoch <= MaxEpoch
  PROVE  LET cp == CheckpointOn(h, prev, k, signers)
         IN /\ cp.data.epoch \in 0..MaxEpoch /\ cp \in Checkpoints[cp.data.epoch]
            /\ cp.data.height \in Nat
<1> DEFINE e == IF prev = None THEN 0 ELSE prev.data.epoch + 1
<1> DEFINE d == [epoch |-> e, height |-> BlockOf[h].height, block_hash |-> h, prev |-> prev,
                 state_root |-> BranchState[h].smt, recovery |-> k]
<1> DEFINE cp == CheckpointOn(h, prev, k, signers)
<1>1. cp = [data |-> d, signers |-> signers] /\ cp.data.epoch = e
  BY DEF CheckpointOn
<1>2. prev # None => prev.data.epoch \in 0..MaxEpoch /\ prev \in Checkpoints[prev.data.epoch]
  <2> SUFFICES ASSUME prev # None
               PROVE  prev.data.epoch \in 0..MaxEpoch /\ prev \in Checkpoints[prev.data.epoch]
    OBVIOUS
  <2>1. PICK T : cps \in Seq(T)
    BY DEF Chained
  <2>2. DOMAIN cps = 1..Len(cps)
    BY <2>1
  <2>3. PICK i \in 1..Len(cps) : prev = cps[i]
    BY <2>2 DEF Range
  <2> QED
    BY <2>3 DEF Chained
<1>3. e \in 0..MaxEpoch
  <2>1. e <= MaxEpoch
    BY <1>1
  <2>2. e \in Nat
    BY <1>2
  <2> HIDE DEF e
  <2> QED
    BY <2>1, <2>2, NodeConstants
<1>4. prev \in (IF e = 0 THEN {None} ELSE Checkpoints[e - 1])
  <2>1. CASE prev = None
    BY <2>1
  <2>2. CASE prev # None
    <3>1. e # 0 /\ e - 1 = prev.data.epoch
      BY <1>2, <2>2
    <3> HIDE DEF e
    <3> QED
      BY <1>2, <2>2, <3>1
  <2> QED
    BY <2>1, <2>2
<1>5. BlockOf[h].height \in Nat /\ BranchState[h].smt \in Roots
  BY ChainConstants DEF Roots
<1> HIDE DEF e
<1>6. cp \in Checkpoints[e]
  <2> DEFINE Before == IF e = 0 THEN {None} ELSE Checkpoints[e - 1]
  <2>1. prev \in Before
    BY <1>4
  <2>2. Checkpoints[e] = [data : [epoch : {e}, height : Nat, block_hash : Hashes,
                                  prev : Before, state_root : Roots,
                                  recovery : 0..RecoveryMax], signers : SignerSets]
    BY <1>3, CheckpointsAre, Zenon
  <2> HIDE DEF Before, cp
  <2>3. d \in [epoch : {e}, height : Nat, block_hash : Hashes, prev : Before,
               state_root : Roots, recovery : 0..RecoveryMax]
    BY <1>5, <2>1
  <2> HIDE DEF d
  <2> QED
    BY <1>1, <2>2, <2>3
<1>7. cp.data.height = BlockOf[h].height
  BY DEF CheckpointOn
<1> QED
  BY <1>1, <1>3, <1>5, <1>6, <1>7

(* accept_checkpoint.                                                       *)
LEMMA AcceptHolds ==
  ASSUME NEW n, Holds(n), NEW cp,
         cp.data.epoch \in 0..MaxEpoch, cp \in Checkpoints[cp.data.epoch],
         cp.data.height \in Nat, accept_checkpoint(n, cp) # None
  PROVE  LET m == accept_checkpoint(n, cp)
         IN Holds(m) /\ m.tip = n.tip /\ m.included = n.included
<1> DEFINE m == accept_checkpoint(n, cp)
<1>1. CASE m = n
  BY <1>1
<1>2. CASE m # n
  <2> DEFINE b == block(n, cp.data.height)
  <2> DEFINE all == Append(n.checkpoints, cp)
  <2> DEFINE cut == IF Len(all) > CHECKPOINT_KEEP THEN Len(all) - CHECKPOINT_KEEP ELSE 0
  <2> DEFINE new == SubSeq(all, cut + 1, Len(all))
  <2> DEFINE ts == IF b = None THEN 0 ELSE BlockOf[b].ts
  <2> DEFINE fin == [checkpoint |-> cp, pool |-> eligible_validators(n.state), block_ts |-> ts]
  <2>1. CheckpointOk(n, cp) /\ m = [n EXCEPT !.finalized = fin, !.checkpoints = new]
    BY <1>2 DEF accept_checkpoint
  <2>2. /\ cp.data.height <= Height(n)
        /\ n.checkpoints # <<>> =>
             /\ cp.data.prev = Last(n.checkpoints)
             /\ cp.data.epoch = Last(n.checkpoints).data.epoch + 1
             /\ cp.data.height > Last(n.checkpoints).data.height
    BY <2>1 DEF CheckpointOk, check_checkpoint_data
  <2>3. Chained(new) /\ new # <<>> /\ Last(new) = cp
    BY <2>2, ChainedAppend DEF Holds
  <2>4. fin # None
    <3>1. b = None \/ b \in Tree
      <4> DEFINE p == Path[n.tip]
      <4>1. p \in Seq(Hashes) /\ n.base \in 0..Len(p) /\ Len(p) \in Nat
        BY TipIs DEF Holds, NodeOK, Leveled, Window
      <4>2. b = IF cp.data.height = 0 THEN 0
                ELSE IF cp.data.height \in n.base..Len(p) THEN p[cp.data.height] ELSE None
        BY BlockIs DEF Holds
      <4> HIDE DEF p, b
      <4>3. CASE cp.data.height # 0 /\ cp.data.height \in n.base..Len(p)
        <5>1. cp.data.height \in 1..Len(p)
          BY <4>1, <4>3
        <5>2. p[cp.data.height] \in Hashes
          BY <4>1, <5>1
        <5> QED
          BY <4>2, <4>3, <5>2 DEF Tree
      <4> QED
        BY <4>2, <4>3 DEF Tree
    <3>2. ts \in Nat
      <4> HIDE DEF b
      <4> QED
        BY <3>1, ChainConstants DEF Tree
    <3>3. eligible_validators(n.state) \in SUBSET Owners
      BY DEF eligible_validators
    <3> HIDE DEF ts
    <3>4. fin \in [checkpoint : Checkpoints[cp.data.epoch], pool : SUBSET Owners,
                   block_ts : Nat]
      BY <3>2, <3>3
    <3> QED
      BY <3>4, NoneIsNoBase
  <2>5. fin.checkpoint = cp
    OBVIOUS
  <2> HIDE DEF fin, new, m
  <2>6. m = [base |-> n.base, canonical |-> n.canonical, known |-> n.known, tip |-> n.tip,
             state |-> n.state, included |-> n.included,
             checkpoints |-> new, finalized |-> fin]
    BY <2>1 DEF Holds, NodeOK, IsNode
  <2>7. NodeOK(m)
    BY <2>3, <2>6 DEF Holds, NodeOK, IsNode, HasFloor
  <2>8. StateOK(m)
    BY <2>6 DEF Holds, StateOK
  <2>9. BaseOK(m)
    <3>1. n.base \in Nat
      <4>1. n.base \in 0..Len(Path[n.tip])
        BY DEF Holds, NodeOK, Window
      <4> QED
        BY <4>1
    <3>2. n.base <= cp.data.height
      <4>1. CASE n.checkpoints = <<>>
        BY <4>1 DEF Holds, BaseOK
      <4>2. CASE n.checkpoints # <<>>
        <5>1. /\ n.base <= Last(n.checkpoints).data.height
              /\ Last(n.checkpoints).data.height \in Nat
              /\ cp.data.height > Last(n.checkpoints).data.height
          BY <2>2, <4>2 DEF Holds, BaseOK, NodeOK, HasFloor
        <5> QED
          BY <3>1, <5>1
      <4> QED
        BY <4>1, <4>2
    <3> QED
      BY <2>3, <2>6, <3>2 DEF BaseOK
  <2>10. FloorReached(m)
    <3>1. Height(n) = Len(Path[n.tip])
      BY TipIs DEF Holds
    <3> QED
      BY <2>2, <2>3, <2>6, <3>1 DEF FloorReached
  <2>11. Based(m)
    BY <2>3, <2>4, <2>5, <2>6 DEF Based
  <2>12. Holds(m)
    BY <2>3, <2>6, <2>7, <2>8, <2>9, <2>10, <2>11 DEF Holds
  <2> QED
    BY <2>6, <2>12 DEF m
<1> QED
  BY <1>1, <1>2

-----------------------------------------------------------------------------
(* The specification.                                                       *)

(* A new node.                                                              *)
LEMMA InitInv == Init => IInv
<1> SUFFICES ASSUME Init PROVE Holds(NewNode)
  BY DEF Init, IInv
<1>2. /\ NodeOK(NewNode) /\ StateOK(NewNode) /\ NewNode.base = 0
      /\ NewNode.checkpoints = <<>> /\ NewNode.finalized = None
  BY NewIsFresh, FreshOK
<1>3. Chained(<<>>)
  <2>1. <<>> \in Seq({}) /\ Len(<<>>) = 0 /\ 1..0 = {} /\ 2..0 = {}
    OBVIOUS
  <2> QED
    BY <2>1, ChainConstants DEF Chained
<1> QED
  BY <1>2, <1>3 DEF Holds, BaseOK, Based, FloorReached

(* What each kind of step does.                                             *)
LEMMA ExtendStep ==
  ASSUME IInv, NEW h \in Hashes, Extend(h)
  PROVE  /\ IInv' /\ Height(node)' = Height(node) + 1 /\ Pushed(node, h, node')
         /\ reorged' = reorged
<1>1. try_attach(node, h) = push_block(node, h)
  BY DEF Extend, try_attach
<1>2. push_block(node, h) # None /\ node' = push_block(node, h) /\ reorged' = reorged
  BY <1>1 DEF Extend
<1>3. Holds(node') /\ Height(node') = Height(node) + 1
  BY <1>2, ExtendHolds DEF IInv
<1>4. Pushed(node, h, node')
  BY <1>2, PushOK DEF IInv, Holds
<1> QED
  BY <1>2, <1>3, <1>4 DEF IInv

(* A sister block that wins the tie.                                        *)
LEMMA TieBreakStep ==
  ASSUME IInv, NEW h \in Hashes, TieBreak(h)
  PROVE  /\ IInv' /\ Height(node)' = Height(node) /\ node'.tip < node.tip
         /\ reorged' = TRUE
<1>1. Holds(node') /\ Height(node') = Height(node) /\ node'.tip = h /\ h < node.tip
  BY TieBreakHolds DEF TieBreak, IInv
<1> QED
  BY <1>1 DEF IInv, TieBreak

(* A branch of a peer that is adopted.                                      *)
LEMMA AdoptStep ==
  ASSUME IInv, NEW branch \in Offers, AdoptBranch(branch)
  PROVE  LET k == BlockOf[branch[1]].height - 1
         IN /\ IInv' /\ reorged' = TRUE
            /\ k \in Nat /\ Reorged(node, k, branch, node')
            /\ KeepsCheckpoints(node, k, branch)
            /\ \/ Height(node)' > Height(node)
               \/ Height(node)' = Height(node) /\ node'.tip < node.tip
<1> DEFINE k == BlockOf[branch[1]].height - 1
<1>1. /\ Holds(node') /\ k \in Nat /\ Reorged(node, k, branch, node')
      /\ KeepsCheckpoints(node, k, branch)
      /\ \/ Height(node') > Height(node)
         \/ Height(node') = Height(node) /\ node'.tip < node.tip
  BY AdoptHolds DEF AdoptBranch, IInv
<1> QED
  BY <1>1 DEF IInv, AdoptBranch

(* A step that takes a checkpoint.                                          *)
TakesCheckpoint ==
  \E h \in Hashes, prev \in Range(node.checkpoints) \cup {None},
     k \in 0..RecoveryMax, signers \in SignerSets :
    BranchState[h] # None /\ AcceptCheckpoint(CheckpointOn(h, prev, k, signers))

(* A checkpoint that is accepted.                                           *)
LEMMA AcceptStep ==
  ASSUME IInv, TakesCheckpoint
  PROVE  IInv' /\ node'.tip = node.tip /\ node'.included = node.included /\ reorged' = reorged
<1>1. PICK h \in Hashes, prev \in Range(node.checkpoints) \cup {None},
           k \in 0..RecoveryMax, signers \in SignerSets :
        BranchState[h] # None /\ AcceptCheckpoint(CheckpointOn(h, prev, k, signers))
  BY DEF TakesCheckpoint
<1> DEFINE cp == CheckpointOn(h, prev, k, signers)
<1>2. /\ cp.data.epoch <= MaxEpoch /\ accept_checkpoint(node, cp) # None
      /\ node' = accept_checkpoint(node, cp) /\ reorged' = reorged
  BY <1>1 DEF AcceptCheckpoint
<1>3. /\ cp.data.epoch \in 0..MaxEpoch /\ cp \in Checkpoints[cp.data.epoch]
      /\ cp.data.height \in Nat
  BY <1>1, <1>2, BuiltCheckpoint DEF IInv, Holds
<1> HIDE DEF cp
<1>4. Holds(node') /\ node'.tip = node.tip /\ node'.included = node.included
  BY <1>2, <1>3, AcceptHolds DEF IInv
<1> QED
  BY <1>2, <1>4 DEF IInv

(* The four kinds of steps.                                                 *)
LEMMA NextCases ==
  Next => \/ \E h \in Hashes : Extend(h)
          \/ \E h \in Hashes : TieBreak(h)
          \/ TakesCheckpoint
          \/ \E branch \in Offers : AdoptBranch(branch)
BY DEF Next, RelayNext, TakesCheckpoint

(* Every step keeps the invariant.                                          *)
LEMMA NextInv == IInv /\ [Next]_vars => IInv'
<1> SUFFICES ASSUME IInv, [Next]_vars PROVE IInv'
  OBVIOUS
<1>1. CASE UNCHANGED vars
  BY <1>1 DEF vars, IInv
<1>2. CASE Next
  BY <1>2, NextCases, ExtendStep, TieBreakStep, AcceptStep, AdoptStep
<1> QED
  BY <1>1, <1>2

(* The invariant always holds.                                              *)
LEMMA InvHolds == Spec => []IInv
BY InitInv, NextInv, PTL DEF Spec

(* chain.rs evict_below_window and block: through every order of blocks,     *)
(* reorganisations, evictions and checkpoints, the RAM window answers for   *)
(* the canonical chain and for nothing else, and holds the finalized block. *)
THEOREM WindowIsSound == Spec => []WindowSound
BY InvHolds, InvWindow, PTL

(* finality.rs accept_checkpoint: the checkpoints in RAM are a hash-linked  *)
(* chain of consecutive epochs and rising heights, never more than          *)
(* CHECKPOINT_KEEP, and the last of them is the base that committees and    *)
(* producers are drawn from.                                                *)
THEOREM CheckpointsAreChained == Spec => []CheckpointsChained
BY InvHolds, InvChained, PTL

(* chain.rs push_block_with_gc, fork_choice.rs swap_with: after any number  *)
(* of reorganisations the registry is the one that the canonical blocks,    *)
(* applied from genesis, give.                                              *)
THEOREM StateIsAlwaysReplay == Spec => []StateIsReplay
<1>1. IInv => StateIsReplay
  BY DEF IInv, Holds, StateOK, StateIsReplay
<1> QED
  BY <1>1, InvHolds, PTL

-----------------------------------------------------------------------------
(* Action properties.                                                       *)

(* fork_choice.rs try_attach and adopt_branch: the tip only changes for a   *)
(* higher one, or for a lower hash at the same height, so that no sequence  *)
(* of deliveries makes a node oscillate.                                    *)
THEOREM TipAlwaysImproves == Spec => TipImproves
<1> DEFINE Improves == node'.tip # node.tip =>
                         \/ Height(node') > Height(node)
                         \/ Height(node') = Height(node) /\ node'.tip < node.tip
<1>1. ASSUME IInv, [Next]_vars PROVE [Improves]_vars
  <2>1. CASE UNCHANGED vars
    BY <2>1
  <2>2. ASSUME NEW h \in Hashes, Extend(h) PROVE Improves
    <3>1. Height(node)' = Height(node) + 1
      BY <1>1, <2>2, ExtendStep
    <3>2. Height(node) \in Nat
      BY <1>1, TipIs DEF IInv, Holds
    <3> QED
      BY <3>1, <3>2
  <2>3. ASSUME NEW h \in Hashes, TieBreak(h) PROVE Improves
    BY <1>1, <2>3, TieBreakStep
  <2>4. CASE TakesCheckpoint
    BY <1>1, <2>4, AcceptStep
  <2>5. ASSUME NEW branch \in Offers, AdoptBranch(branch) PROVE Improves
    BY <1>1, <2>5, AdoptStep
  <2> QED
    BY <1>1, <2>1, <2>2, <2>3, <2>4, <2>5, NextCases
<1> QED
  BY <1>1, InvHolds, PTL DEF Spec, TipImproves

(* fork_choice.rs adopt_branch, rule 1: a branch that is adopted keeps      *)
(* every finalized block that was canonical.                                *)
THEOREM AdoptionAlwaysKeepsFinalized == Spec => AdoptionKeepsFinalized
<1> DEFINE Keeps(d) == (d.height \in DOMAIN Canon /\ Canon[d.height] = d.block_hash) =>
                         (d.height \in DOMAIN Canon' /\ Canon'[d.height] = d.block_hash)
<1> DEFINE A == (\E branch \in Offers : AdoptBranch(branch)) =>
                  \A i \in DOMAIN node.checkpoints : Keeps(node.checkpoints[i].data)
<1>1. ASSUME IInv, [Next]_vars PROVE [A]_vars
  <2> SUFFICES ASSUME NEW branch \in Offers, AdoptBranch(branch),
                      NEW i \in DOMAIN node.checkpoints
               PROVE  Keeps(node.checkpoints[i].data)
    OBVIOUS
  <2> DEFINE k == BlockOf[branch[1]].height - 1
  <2> DEFINE d == node.checkpoints[i].data
  <2>1. /\ IInv' /\ k \in Nat /\ Reorged(node, k, branch, node')
        /\ KeepsCheckpoints(node, k, branch)
    BY <1>1, AdoptStep
  <2>2. branch \in Seq(Hashes)
    BY OffersAre
  <2> HIDE DEF k
  <2>3. /\ Canon \in Seq(Hashes) /\ Canon' \in Seq(Hashes)
        /\ k <= Len(Canon) /\ Len(Canon') = k + Len(branch)
        /\ \A j \in 1..k : Canon'[j] = Canon[j]
        /\ \A j \in 1..Len(branch) : Canon'[k + j] = branch[j]
    BY <1>1, <2>1 DEF Reorged, Canon, IInv, Holds, NodeOK, Leveled
  <2>4. /\ DOMAIN Canon = 1..Len(Canon) /\ DOMAIN Canon' = 1..Len(Canon')
        /\ DOMAIN branch = 1..Len(branch) /\ Len(branch) \in Nat /\ Len(Canon) \in Nat
    BY <2>2, <2>3
  <2>5. \/ d.height < k
        \/ d.height = k
        \/ /\ d.height > k /\ d.height - k \in DOMAIN branch
           /\ branch[d.height - k] = d.block_hash
    BY <2>1 DEF KeepsCheckpoints
  <2> SUFFICES ASSUME d.height \in 1..Len(Canon), Canon[d.height] = d.block_hash
               PROVE  d.height \in 1..Len(Canon') /\ Canon'[d.height] = d.block_hash
    BY <2>4
  <2> HIDE DEF d
  <2>6. CASE d.height <= k
    <3>1. d.height \in 1..k /\ d.height \in 1..Len(Canon')
      BY <2>1, <2>3, <2>4, <2>6
    <3> QED
      BY <2>3, <3>1
  <2>7. CASE /\ d.height > k /\ d.height - k \in DOMAIN branch
             /\ branch[d.height - k] = d.block_hash
    <3>1. d.height - k \in 1..Len(branch) /\ k + (d.height - k) = d.height
      BY <2>1, <2>4, <2>7
    <3>2. d.height \in 1..Len(Canon')
      BY <2>1, <2>3, <2>4, <3>1
    <3> QED
      BY <2>3, <2>7, <3>1, <3>2
  <2> QED
    BY <2>1, <2>5, <2>6, <2>7
<1> QED
  BY <1>1, InvHolds, PTL DEF Spec, AdoptionKeepsFinalized

-----------------------------------------------------------------------------
(* The anti-replay index of a chain that only grew.                         *)

(* The transactions of a block, and the heights of a branch that include i. *)
Carries(h, i) == \E j \in DOMAIN BlockOf[h].txs : BlockOf[h].txs[j].id = i
At(p, i)      == {k \in DOMAIN p : Carries(p[k], i)}
Recent(p, i)  == {k \in At(p, i) : k + REPLAY_WINDOW_BLOCKS > Len(p)}
Index(p)      == [i \in TxIds |-> IF Recent(p, i) = {} THEN 0 ELSE Max(Recent(p, i))]

(* The index that the canonical blocks alone give.                          *)
LEMMA PureIndexIs == IInv => PureIndex = Index(Canon)
<1> SUFFICES ASSUME IInv PROVE PureIndex = Index(Canon)
  OBVIOUS
<1>1. Height(node) = Len(Canon)
  BY TipIs DEF IInv, Holds, Canon
<1>2. \A i \in TxIds : {k \in InclusionsOf(i) : k + REPLAY_WINDOW_BLOCKS > Height(node)}
                        = Recent(Canon, i)
  BY <1>1 DEF InclusionsOf, Recent, At, Carries
<1> QED
  BY <1>2, Zenon DEF PureIndex, Index

(* The maximum of a set is the member above all others.                     *)
LEMMA MaxOnly ==
  ASSUME NEW k \in Nat, NEW s \in SUBSET (1..k), NEW x \in s, \A y \in s : x >= y
  PROVE  Max(s) = x
<1>1. Max(s) \in s /\ Max(s) >= x /\ x >= Max(s)
  BY MaxMember
<1>2. Max(s) \in 1..k /\ x \in 1..k
  BY <1>1
<1> HIDE DEF Max
<1> QED
  BY <1>1, <1>2

(* IndexTxs keeps it.                                                       *)
LEMMA IndexGrows ==
  ASSUME NEW p \in Seq(Hashes), NEW h \in Hashes, BlockOf[h].height = Len(p) + 1
  PROVE  IndexTxs(Index(p), h) = Index(Append(p, h))
<1> DEFINE q == Append(p, h)
<1> DEFINE W == REPLAY_WINDOW_BLOCKS
<1> DEFINE n == Len(p)
<1>1. /\ n \in Nat /\ W \in Nat /\ W >= 1 /\ Len(q) = n + 1 /\ q[n + 1] = h
      /\ DOMAIN p = 1..n /\ DOMAIN q = 1..(n + 1) /\ \A k \in 1..n : q[k] = p[k]
  BY ChainConstants, AppendProperties
<1> HIDE DEF q, W, n
<1>2. ASSUME NEW i \in TxIds
      PROVE  /\ Recent(p, i) \subseteq 1..n
             /\ Recent(q, i) = {k \in Recent(p, i) : k + W > n + 1}
                                 \cup (IF Carries(h, i) THEN {n + 1} ELSE {})
  <2>1. At(p, i) \subseteq 1..n /\ At(q, i) = At(p, i) \cup (IF Carries(h, i) THEN {n + 1} ELSE {})
    BY <1>1 DEF At
  <2>2. Recent(p, i) = {k \in At(p, i) : k + W > n}
    BY DEF Recent, W, n
  <2>3. Recent(q, i) = {k \in At(q, i) : k + W > n + 1}
    BY <1>1 DEF Recent, W
  <2> QED
    BY <1>1, <2>1, <2>2, <2>3
<1> DEFINE Old(i) == IF Recent(p, i) = {} THEN 0 ELSE Max(Recent(p, i))
<1> DEFINE Now(i) == IF Carries(h, i) THEN n + 1 ELSE Old(i)
<1> DEFINE New(i) == IF Recent(q, i) = {} THEN 0 ELSE Max(Recent(q, i))
<1>3. IndexTxs(Index(p), h) =
        [i \in TxIds |-> IF n + 1 > W /\ Now(i) <= (n + 1) - W THEN 0 ELSE Now(i)]
  <2> DEFINE now == [i \in TxIds |-> IF Carries(h, i) THEN n + 1 ELSE Index(p)[i]]
  <2>1. \A i \in TxIds : now[i] = Now(i)
    BY DEF Index
  <2>2. IndexTxs(Index(p), h) =
          [i \in TxIds |-> IF n + 1 > W /\ now[i] <= (n + 1) - W THEN 0 ELSE now[i]]
    BY Zenon DEF IndexTxs, Carries, n, W
  <2> HIDE DEF now, Now
  <2> QED
    BY <2>1, <2>2
<1>4. Index(q) = [i \in TxIds |-> New(i)]
  BY DEF Index
<1>5. ASSUME NEW i \in TxIds
      PROVE  (IF n + 1 > W /\ Now(i) <= (n + 1) - W THEN 0 ELSE Now(i)) = New(i)
  <2> DEFINE R == Recent(p, i)
  <2> DEFINE Q == Recent(q, i)
  <2>1. R \subseteq 1..n /\ Q = {k \in R : k + W > n + 1} \cup (IF Carries(h, i) THEN {n + 1} ELSE {})
    BY <1>2
  <2> HIDE DEF R, Q
  <2>2. Old(i) = (IF R = {} THEN 0 ELSE Max(R)) /\ New(i) = IF Q = {} THEN 0 ELSE Max(Q)
    BY DEF R, Q
  <2>3. n + 1 \in Nat /\ Q \in SUBSET (1..(n + 1)) /\ R \in SUBSET (1..n)
    <3>1. n + 1 \in Nat /\ 1..n \subseteq 1..(n + 1) /\ n + 1 \in 1..(n + 1)
      BY <1>1
    <3>2. \A k \in Q : k \in R \/ k = n + 1
      BY <2>1
    <3> QED
      BY <2>1, <3>1, <3>2
  <2> HIDE DEF Old, New
  <2>4. CASE Carries(h, i)
    <3>1. n + 1 \in Q /\ \A y \in Q : n + 1 >= y
      BY <1>1, <2>1, <2>3, <2>4
    <3>2. Max(Q) = n + 1
      BY <2>3, <3>1, MaxOnly
    <3>3. New(i) = n + 1 /\ Now(i) = n + 1
      BY <2>2, <2>4, <3>1, <3>2
    <3> HIDE DEF Now
    <3> QED
      BY <1>1, <3>3
  <2>5. CASE ~Carries(h, i) /\ R = {}
    <3>1. New(i) = 0 /\ Now(i) = 0
      BY <2>1, <2>2, <2>5
    <3> HIDE DEF Now
    <3> QED
      BY <3>1
  <2>6. CASE ~Carries(h, i) /\ R # {}
    <3> DEFINE x == Max(R)
    <3>1. x \in R /\ \A y \in R : x >= y
      BY <1>1, <2>3, <2>6, MaxMember
    <3> HIDE DEF x
    <3>2. x \in 1..n /\ Now(i) = x /\ Q = {k \in R : k + W > n + 1}
      BY <2>1, <2>2, <2>6, <3>1 DEF x
    <3> HIDE DEF Now
    <3>3. CASE x + W > n + 1
      <4>1. x \in Q /\ \A y \in Q : x >= y
        BY <3>1, <3>2, <3>3
      <4>2. New(i) = x
        BY <2>2, <2>3, <4>1, MaxOnly
      <4>3. ~(n + 1 > W /\ x <= (n + 1) - W)
        BY <1>1, <3>2, <3>3
      <4> QED
        BY <3>2, <4>2, <4>3
    <3>4. CASE ~(x + W > n + 1)
      <4>1. Q = {}
        <5> SUFFICES ASSUME NEW y \in Q PROVE FALSE
          OBVIOUS
        <5>1. y \in R /\ y + W > n + 1 /\ x >= y /\ y \in 1..n
          BY <2>1, <3>1, <3>2
        <5> QED
          BY <1>1, <3>2, <3>4, <5>1
      <4>2. New(i) = 0
        BY <2>2, <4>1
      <4>3. n + 1 > W /\ x <= (n + 1) - W
        BY <1>1, <3>2, <3>4
      <4> QED
        BY <3>2, <4>2, <4>3
    <3> QED
      BY <3>3, <3>4
  <2> QED
    BY <2>4, <2>5, <2>6
<1> HIDE DEF Now, New
<1>6. IndexTxs(Index(p), h) = Index(q)
  BY <1>3, <1>4, <1>5
<1> QED
  BY <1>6 DEF q

(* chain.rs push_block_with_gc: on a chain that only ever grew the          *)
(* anti-replay index holds exactly the transactions of the last             *)
(* REPLAY_WINDOW_BLOCKS blocks.                                             *)
THEOREM ReplayIndexFollowsGrowth == Spec => []ReplayIndexOfGrowth
<1>1. Init => ReplayIndexOfGrowth
  <2> SUFFICES ASSUME Init PROVE node.included = PureIndex
    BY DEF ReplayIndexOfGrowth
  <2>1. Canon = <<>>
    BY PathIs DEF Init, NewNode, Canon, Tree
  <2>2. PureIndex = Index(<<>>)
    BY <2>1, InitInv, PureIndexIs
  <2>3. \A i \in TxIds : Recent(<<>>, i) = {}
    BY DEF Recent, At
  <2>4. Index(<<>>) = [i \in TxIds |-> 0]
    BY <2>3 DEF Index
  <2>5. node.included = [i \in TxIds |-> 0]
    BY DEF Init, NewNode
  <2> QED
    BY <2>2, <2>4, <2>5
<1>2. ASSUME IInv, ReplayIndexOfGrowth, [Next]_vars PROVE ReplayIndexOfGrowth'
  <2>1. IInv'
    BY <1>2, NextInv
  <2>2. PureIndex = Index(Canon) /\ PureIndex' = Index(Canon')
    <3>1. PureIndex = Index(Canon)
      BY <1>2, PureIndexIs
    <3>2. (IInv => PureIndex = Index(Canon))'
      BY PureIndexIs, PTL
    <3> QED
      BY <2>1, <3>1, <3>2 DEF Index, Recent, At, Carries
  <2>3. CASE UNCHANGED vars
    BY <1>2, <2>2, <2>3 DEF vars, ReplayIndexOfGrowth, Canon
  <2>4. ASSUME NEW h \in Hashes, Extend(h) PROVE ReplayIndexOfGrowth'
    <3>1. Pushed(node, h, node') /\ reorged' = reorged
      BY <1>2, <2>4, ExtendStep
    <3>2. Canon \in Seq(Hashes) /\ Height(node) = Len(Canon)
      BY <1>2, TipIs DEF IInv, Holds, NodeOK, Leveled, Canon
    <3>3. /\ Canon' = Append(Canon, h) /\ BlockOf[h].height = Len(Canon) + 1
          /\ node'.included = IndexTxs(node.included, h)
      BY <3>1, <3>2 DEF Pushed, Canon
    <3>4. IndexTxs(Index(Canon), h) = Index(Append(Canon, h))
      BY <3>2, <3>3, IndexGrows
    <3> QED
      BY <1>2, <2>2, <3>1, <3>3, <3>4 DEF ReplayIndexOfGrowth
  <2>5. ASSUME NEW h \in Hashes, TieBreak(h) PROVE ReplayIndexOfGrowth'
    BY <2>5 DEF TieBreak, ReplayIndexOfGrowth
  <2>6. CASE TakesCheckpoint
    <3>1. node'.tip = node.tip /\ node'.included = node.included /\ reorged' = reorged
      BY <1>2, <2>6, AcceptStep
    <3> QED
      BY <1>2, <2>2, <3>1 DEF ReplayIndexOfGrowth, Canon
  <2>7. ASSUME NEW branch \in Offers, AdoptBranch(branch) PROVE ReplayIndexOfGrowth'
    BY <2>7 DEF AdoptBranch, ReplayIndexOfGrowth
  <2> QED
    BY <1>2, <2>3, <2>4, <2>5, <2>6, <2>7, NextCases
<1> QED
  BY <1>1, <1>2, InvHolds, PTL DEF Spec
=============================================================================
