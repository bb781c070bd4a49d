---------------------------- MODULE ChainOps_proofs ----------------------------
(***************************************************************************)
(* What the operations of ChainOps do to one chain, for every tree of       *)
(* blocks: the branch of a block, push_block with its eviction, and the     *)
(* replay of a branch; and that blocks keep the shape of the registry.      *)
(***************************************************************************)
EXTENDS ChainOps, FiniteSetTheorems, SequenceTheorems, WellFoundedInduction, TLAPS

Tree == Hashes \cup {0}

-----------------------------------------------------------------------------
(* Induction, and what a left fold computes.                                *)

(* Induction, for a set of numbers.                                         *)
LEMMA SetInduction ==
  ASSUME NEW S, 0 \in S, \A n \in Nat : n \in S => n + 1 \in S
  PROVE  Nat \subseteq S
<1> DEFINE T == Nat \ S
<1> DEFINE R == OpToRel(<, Nat)
<1> SUFFICES ASSUME T # {} PROVE FALSE
  OBVIOUS
<1>1. IsWellFoundedOn(R, Nat)
  BY NatLessThanWellFounded DEF OpToRel
<1>2. T \subseteq Nat
  OBVIOUS
<1>3. PICK x \in T : \A y \in T : ~ (<<y, x>> \in R)
  <2> HIDE DEF T, R
  <2> QED BY <1>1, <1>2, WFMin
<1>4. x # 0
  OBVIOUS
<1>5. x - 1 \in Nat /\ x - 1 < x
  BY <1>4
<1>6. x - 1 \in T
  BY <1>5
<1>7. <<x - 1, x>> \in R
  BY <1>5 DEF OpToRel
<1> QED
  BY <1>3, <1>6, <1>7

(* A bounded set of numbers has a greatest element, ...                     *)
LEMMA MaxExists ==
  \A k \in Nat : \A s \in SUBSET (1..k) : s # {} => \E x \in s : \A y \in s : x >= y
<1> DEFINE S == {k \in Nat : \A s \in SUBSET (1..k) : s # {} => \E x \in s : \A y \in s : x >= y}
<1>1. 0 \in S
  <2>1. 1..0 = {}
    OBVIOUS
  <2> QED BY <2>1
<1>2. ASSUME NEW k \in Nat, k \in S PROVE k + 1 \in S
  <2> SUFFICES ASSUME NEW s \in SUBSET (1..(k+1)), s # {}
               PROVE  \E x \in s : \A y \in s : x >= y
    OBVIOUS
  <2>1. CASE k + 1 \in s
    BY <2>1
  <2>2. CASE k + 1 \notin s
    BY <1>2, <2>2
  <2> QED BY <2>1, <2>2
<1> HIDE DEF S
<1>3. Nat \subseteq S
  BY <1>1, <1>2, SetInduction
<1> QED BY <1>3 DEF S

(* ... which is the one that Max names.                                     *)
LEMMA MaxMember ==
  ASSUME NEW k \in Nat, NEW s \in SUBSET (1..k), s # {}
  PROVE  Max(s) \in s /\ \A y \in s : Max(s) >= y
BY MaxExists DEF Max

(* The operators that ChainOps and Registry fold, under one name.           *)
StepOf(kind, x, y) ==
  IF kind[1] = "push" THEN PushNext(x, y)
  ELSE IF kind[1] = "apply" THEN ApplyNext(x, y)
  ELSE IF x = None THEN None ELSE ApplyTx(x, y, kind[2])
Fold(kind, base, seq) == FoldLeft(LAMBDA x, y : StepOf(kind, x, y), base, seq)

(* The table of MapThenFoldSet for the sets below k.                        *)
IsIter(kind, g, base, seq, k) ==
  g = [s \in SUBSET (1..k) |-> IF s = {} THEN base ELSE StepOf(kind, g[s \ {Max(s)}], seq[Max(s)])]

(* There is such a table for every k.                                       *)
LEMMA IterExists ==
  ASSUME NEW kind, NEW base, NEW seq
  PROVE  \A k \in Nat : \E g : IsIter(kind, g, base, seq, k)
<1> DEFINE S == {k \in Nat : \E g : IsIter(kind, g, base, seq, k)}
<1>1. 0 \in S
  <2>1. IsIter(kind, [s \in SUBSET (1..0) |-> base], base, seq, 0)
    BY DEF IsIter
  <2> QED BY <2>1
<1>2. ASSUME NEW k \in Nat, k \in S PROVE k + 1 \in S
  <2>1. PICK g : IsIter(kind, g, base, seq, k)
    BY <1>2
  <2> DEFINE f == [s \in SUBSET (1..(k+1)) |->
                     IF k + 1 \in s THEN StepOf(kind, g[s \ {k+1}], seq[k+1]) ELSE g[s]]
  <2>2. ASSUME NEW s \in SUBSET (1..(k+1))
        PROVE f[s] = IF s = {} THEN base ELSE StepOf(kind, f[s \ {Max(s)}], seq[Max(s)])
    <3>1. CASE s = {}
      BY <3>1, <2>1 DEF IsIter
    <3>2. CASE k + 1 \in s
      <4>1. Max(s) = k + 1
        <5>1. k + 1 \in Nat
          OBVIOUS
        <5>2. Max(s) \in s /\ Max(s) >= k + 1
          BY <3>2, <5>1, MaxMember
        <5>3. Max(s) \in 1..(k + 1)
          BY <5>2
        <5> HIDE DEF Max
        <5> QED BY <5>2, <5>3
      <4>2. f[s \ {k+1}] = g[s \ {k+1}]
        OBVIOUS
      <4> QED BY <3>2, <4>1, <4>2
    <3>3. CASE s # {} /\ k + 1 \notin s
      <4>1. s \in SUBSET (1..k)
        BY <3>3
      <4>2. Max(s) \in s
        BY <4>1, <3>3, MaxMember
      <4>3. f[s \ {Max(s)}] = g[s \ {Max(s)}] /\ f[s] = g[s]
        BY <3>3
      <4> QED BY <3>3, <4>1, <4>2, <4>3, <2>1 DEF IsIter
    <3> QED BY <3>1, <3>2, <3>3
  <2>3. IsIter(kind, f, base, seq, k + 1)
    BY <2>2 DEF IsIter
  <2> HIDE DEF f
  <2> QED BY <2>3
<1> HIDE DEF S
<1>3. Nat \subseteq S
  BY <1>1, <1>2, SetInduction
<1> QED BY <1>3 DEF S

(* Along the intervals it applies Op to one element after the other.        *)
Stepwise(kind, g, base, seq, k) ==
  g[{}] = base /\ \A j \in 1..k : g[1..j] = StepOf(kind, g[1..(j-1)], seq[j])

(* The table grows one element at a time.                                   *)
LEMMA IterChain ==
  ASSUME NEW kind, NEW base, NEW seq, NEW k \in Nat, NEW g, IsIter(kind, g, base, seq, k)
  PROVE  Stepwise(kind, g, base, seq, k)
<1>1. g[{}] = base
  BY DEF IsIter
<1>2. ASSUME NEW j \in 1..k PROVE g[1..j] = StepOf(kind, g[1..(j-1)], seq[j])
  <2>1. 1..j \in SUBSET (1..k) /\ 1..j # {}
    OBVIOUS
  <2>2. Max(1..j) = j
    <3>1. Max(1..j) \in 1..j /\ \A y \in 1..j : Max(1..j) >= y
      BY <2>1, MaxMember
    <3>2. Max(1..j) >= j
      BY <3>1
    <3> HIDE DEF Max
    <3> QED BY <3>1, <3>2
  <2>3. (1..j) \ {j} = 1..(j-1)
    OBVIOUS
  <2> QED BY <2>1, <2>2, <2>3 DEF IsIter
<1> QED BY <1>1, <1>2 DEF Stepwise

(* A fold is the entry of its whole domain.                                 *)
LEMMA FoldIter ==
  ASSUME NEW kind, NEW base, NEW seq, NEW k \in Nat, DOMAIN seq = 1..k
  PROVE  \E g : IsIter(kind, g, base, seq, k) /\ Fold(kind, base, seq) = g[1..k]
<1> DEFINE g == CHOOSE g : IsIter(kind, g, base, seq, k)
<1>1. IsIter(kind, g, base, seq, k)
  BY IterExists
<1>2. Fold(kind, base, seq) = g[1..k]
  BY DEF Fold, FoldLeft, MapThenFoldSet, IsIter
<1> QED BY <1>1, <1>2

(* Folding nothing.                                                         *)
LEMMA FoldEmpty == \A kind, base : Fold(kind, base, <<>>) = base
<1> TAKE kind, base
<1>1. PICK g : IsIter(kind, g, base, <<>>, 0) /\ Fold(kind, base, <<>>) = g[1..0]
  <2>1. DOMAIN <<>> = 1..0
    OBVIOUS
  <2> QED BY <2>1, FoldIter
<1>2. 1..0 = {}
  OBVIOUS
<1>3. Stepwise(kind, g, base, <<>>, 0)
  BY <1>1, IterChain
<1> QED BY <1>1, <1>2, <1>3 DEF Stepwise

(* Folding one element more.                                                *)
LEMMA FoldAppend ==
  ASSUME NEW kind, NEW T, NEW base, NEW seq \in Seq(T), NEW x \in T
  PROVE  Fold(kind, base, Append(seq, x)) = StepOf(kind, Fold(kind, base, seq), x)
<1> DEFINE k == Len(seq)
<1> DEFINE long == Append(seq, x)
<1>0. /\ k \in Nat /\ DOMAIN seq = 1..k /\ DOMAIN long = 1..(k + 1)
      /\ long[k + 1] = x /\ \A j \in 1..k : long[j] = seq[j]
  OBVIOUS
<1>1. PICK g : IsIter(kind, g, base, seq, k) /\ Fold(kind, base, seq) = g[1..k]
  BY <1>0, FoldIter
<1> HIDE DEF k, long
<1>2. PICK f : IsIter(kind, f, base, long, k + 1) /\ Fold(kind, base, long) = f[1..(k + 1)]
  <2>1. k + 1 \in Nat
    BY <1>0
  <2> QED BY <1>0, <2>1, FoldIter
<1>3. /\ g[{}] = base /\ \A j \in 1..k : g[1..j] = StepOf(kind, g[1..(j-1)], seq[j])
  <2>1. Stepwise(kind, g, base, seq, k)
    BY <1>0, <1>1, IterChain
  <2> QED BY <2>1 DEF Stepwise
<1>4. /\ f[{}] = base /\ \A j \in 1..(k+1) : f[1..j] = StepOf(kind, f[1..(j-1)], long[j])
  <2>1. k + 1 \in Nat
    BY <1>0
  <2>2. Stepwise(kind, f, base, long, k + 1)
    BY <2>1, <1>2, IterChain
  <2> QED BY <2>2 DEF Stepwise
<1> DEFINE S == {j \in Nat : j <= k => g[1..j] = f[1..j]}
<1>5. 0 \in S
  <2>1. 1..0 = {}
    OBVIOUS
  <2> QED BY <2>1, <1>3, <1>4
<1>6. ASSUME NEW j \in Nat, j \in S PROVE j + 1 \in S
  <2> SUFFICES ASSUME j + 1 <= k PROVE g[1..(j+1)] = f[1..(j+1)]
    OBVIOUS
  <2>1. j + 1 \in 1..k /\ j + 1 \in 1..(k+1) /\ (j + 1) - 1 = j
    BY <1>0
  <2>2. g[1..j] = f[1..j]
    BY <1>6, <1>0
  <2> QED BY <2>1, <2>2, <1>3, <1>4, <1>0
<1> HIDE DEF S
<1>7. Nat \subseteq S
  BY <1>5, <1>6, SetInduction
<1>8. g[1..k] = f[1..k]
  BY <1>7, <1>0 DEF S
<1>9. k + 1 \in 1..(k+1) /\ (k + 1) - 1 = k
  BY <1>0
<1> QED BY <1>0, <1>1, <1>2, <1>4, <1>8, <1>9 DEF long

-----------------------------------------------------------------------------
(* The branch of a block.                                                   *)

(* p lists the blocks from genesis, excluded, to h.                         *)
IsPath(p, h) ==
  /\ p \in Seq(Hashes)
  /\ \A i \in 1..Len(p) : BlockOf[p[i]].prev = IF i = 1 THEN 0 ELSE p[i - 1]
  /\ h = IF p = <<>> THEN 0 ELSE p[Len(p)]

(* Part of a sequence.                                                      *)
LEMMA Slice ==
  ASSUME NEW T, NEW s \in Seq(T), NEW m \in 1..(Len(s) + 1), NEW n \in (m - 1)..Len(s)
  PROVE  /\ SubSeq(s, m, n) \in Seq(T)
         /\ Len(SubSeq(s, m, n)) = n - m + 1
         /\ \A i \in 1..(n - m + 1) : SubSeq(s, m, n)[i] = s[m + i - 1]
<1>0. Len(s) \in Nat
  OBVIOUS
<1>1. m \in Int /\ n \in Int
  BY <1>0
<1>2. \A i \in m..n : s[i] \in T
  BY <1>0, <1>1
<1>3. /\ SubSeq(s, m, n) \in Seq(T)
      /\ Len(SubSeq(s, m, n)) = IF m <= n THEN n - m + 1 ELSE 0
      /\ \A i \in 1..(n - m + 1) : SubSeq(s, m, n)[i] = s[m + i - 1]
  BY <1>1, <1>2, SubSeqProperties
<1>4. (IF m <= n THEN n - m + 1 ELSE 0) = n - m + 1
  BY <1>0, <1>1
<1> QED
  BY <1>3, <1>4

(* One element more after a concatenation.                                  *)
LEMMA ConcatAppend ==
  ASSUME NEW T, NEW a \in Seq(T), NEW s \in Seq(T), NEW x \in T
  PROVE  a \o Append(s, x) = Append(a \o s, x)
<1>1. <<x>> \in Seq(T) /\ a \o s \in Seq(T)
  BY ConcatProperties
<1>2. Append(s, x) = s \o <<x>> /\ Append(a \o s, x) = (a \o s) \o <<x>>
  BY <1>1, AppendIsConcat
<1>3. (a \o s) \o <<x>> = a \o (s \o <<x>>)
  BY <1>1, ConcatAssociative
<1> QED
  BY <1>2, <1>3

(* The branch of a child.                                                   *)
LEMMA PathAppend ==
  ASSUME NEW h \in Hashes, NEW p, IsPath(p, BlockOf[h].prev)
  PROVE  IsPath(Append(p, h), h)
<1> DEFINE q == Append(p, h)
<1>1. /\ q \in Seq(Hashes) /\ Len(q) = Len(p) + 1 /\ q # <<>> /\ Len(p) \in Nat
      /\ q[Len(p) + 1] = h /\ \A i \in 1..Len(p) : q[i] = p[i]
  <2>1. p \in Seq(Hashes)
    BY DEF IsPath
  <2>2. Len(p) \in Nat
    BY <2>1
  <2> QED
    BY <2>1, <2>2, AppendProperties
<1>2. ASSUME NEW i \in 1..Len(q)
      PROVE  BlockOf[q[i]].prev = IF i = 1 THEN 0 ELSE q[i - 1]
  <2>1. CASE i \in 1..Len(p)
    <3>1. i # 1 => i - 1 \in 1..Len(p)
      BY <1>1, <2>1
    <3> QED
      BY <1>1, <2>1, <3>1 DEF IsPath
  <2>2. CASE i = Len(p) + 1
    <3>1. CASE p = <<>>
      BY <1>1, <2>2, <3>1 DEF IsPath
    <3>2. CASE p # <<>>
      <4>1. Len(p) >= 1 /\ i - 1 = Len(p) /\ i # 1 /\ Len(p) \in 1..Len(p)
        BY <1>1, <2>2, <3>2 DEF IsPath
      <4> QED
        BY <1>1, <2>2, <3>2, <4>1 DEF IsPath
    <3> QED
      BY <3>1, <3>2
  <2> QED
    BY <1>1, <2>1, <2>2
<1> QED
  BY <1>1, <1>2 DEF IsPath

(* The branch of a parent.                                                  *)
LEMMA PathFront ==
  ASSUME NEW h \in Hashes, NEW p, IsPath(p, h)
  PROVE  \E q : IsPath(q, BlockOf[h].prev) /\ p = Append(q, h)
<1>0. 0 \notin Hashes
  BY ChainConstants
<1>1. p # <<>> /\ p \in Seq(Hashes) /\ Len(p) \in Nat /\ Len(p) >= 1 /\ p[Len(p)] = h
  BY <1>0 DEF IsPath
<1> DEFINE q == SubSeq(p, 1, Len(p) - 1)
<1>2. q \in Seq(Hashes) /\ Len(q) = Len(p) - 1 /\ \A i \in 1..Len(q) : q[i] = p[i]
  <2>1. 1 \in 1..(Len(p) + 1) /\ Len(p) - 1 \in (1 - 1)..Len(p)
    BY <1>1
  <2>2. /\ q \in Seq(Hashes) /\ Len(q) = (Len(p) - 1) - 1 + 1
        /\ \A i \in 1..((Len(p) - 1) - 1 + 1) : q[i] = p[1 + i - 1]
    BY <1>1, <2>1, Slice
  <2> HIDE DEF q
  <2>3. Len(q) = Len(p) - 1 /\ \A i \in 1..Len(q) : 1 + i - 1 = i
    BY <1>1, <2>2
  <2> QED
    BY <1>1, <2>2, <2>3
<1>3. p = Append(q, h)
  <2> HIDE DEF q
  <2>1. /\ Append(q, h) \in Seq(Hashes) /\ Len(Append(q, h)) = Len(p)
        /\ Append(q, h)[Len(q) + 1] = h
        /\ \A i \in 1..Len(q) : Append(q, h)[i] = q[i]
    BY <1>1, <1>2, AppendProperties
  <2>2. \A i \in 1..Len(p) : p[i] = Append(q, h)[i]
    BY <1>1, <1>2, <2>1
  <2> QED
    BY <1>1, <2>1, <2>2, SeqEqual
<1>4. \A i \in 1..Len(q) : BlockOf[q[i]].prev = IF i = 1 THEN 0 ELSE q[i - 1]
  BY <1>1, <1>2 DEF IsPath
<1>5. BlockOf[h].prev = IF q = <<>> THEN 0 ELSE q[Len(q)]
  <2>1. BlockOf[h].prev = IF Len(p) = 1 THEN 0 ELSE p[Len(p) - 1]
    <3>1. Len(p) \in 1..Len(p)
      BY <1>1
    <3> QED
      BY <1>1, <3>1 DEF IsPath
  <2> HIDE DEF q
  <2>2. q = <<>> <=> Len(p) = 1
    BY <1>1, <1>2, EmptySeq
  <2>3. q # <<>> => q[Len(q)] = p[Len(p) - 1]
    BY <1>1, <1>2, <2>2
  <2> QED
    BY <2>1, <2>2, <2>3
<1> QED
  BY <1>2, <1>3, <1>4, <1>5 DEF IsPath

(* Only genesis has an empty branch.                                        *)
LEMMA PathEmpty == \A p : IsPath(p, 0) <=> p = <<>>
<1>0. 0 \notin Hashes
  BY ChainConstants
<1>1. IsPath(<<>>, 0)
  BY DEF IsPath
<1>2. ASSUME NEW p, IsPath(p, 0), p # <<>> PROVE FALSE
  <2>1. p[Len(p)] \in Hashes
    BY <1>2 DEF IsPath
  <2> QED
    BY <1>0, <1>2, <2>1 DEF IsPath
<1> QED
  BY <1>1, <1>2

(* Every block has one branch: no block descends from itself.               *)
LEMMA PathUnique ==
  ASSUME NEW h \in Tree
  PROVE  /\ \E p : IsPath(p, h)
         /\ \A p, q : IsPath(p, h) /\ IsPath(q, h) => p = q
<1> DEFINE One(x) == /\ \E p : IsPath(p, x)
                     /\ \A p, q : IsPath(p, x) /\ IsPath(q, x) => p = q
<1> DEFINE S == {x \in Hashes : ~One(x)}
<1>1. One(0)
  BY PathEmpty
<1>2. ASSUME NEW x \in S, BlockOf[x].prev \notin S PROVE FALSE
  <2>1. BlockOf[x].prev \in Tree
    BY ChainConstants DEF Tree
  <2>2. One(BlockOf[x].prev)
    BY <1>1, <1>2, <2>1 DEF Tree
  <2>3. \E p : IsPath(p, x)
    BY <2>2, PathAppend
  <2>4. ASSUME NEW p, NEW q, IsPath(p, x), IsPath(q, x) PROVE p = q
    <3>1. PICK a : IsPath(a, BlockOf[x].prev) /\ p = Append(a, x)
      BY <2>4, PathFront
    <3>2. PICK b : IsPath(b, BlockOf[x].prev) /\ q = Append(b, x)
      BY <2>4, PathFront
    <3>3. a = b
      BY <2>2, <3>1, <3>2
    <3> QED
      BY <3>1, <3>2, <3>3
  <2> QED
    BY <2>3, <2>4
<1>3. S = {}
  <2> HIDE DEF S
  <2>1. S \in SUBSET Hashes
    BY DEF S
  <2> QED
    BY <1>2, <2>1, ChainConstants
<1> QED
  BY <1>1, <1>3 DEF Tree

(* Path is that branch, as its recursive definition says.                   *)
LEMMA PathIs ==
  ASSUME NEW h \in Tree
  PROVE  /\ IsPath(Path[h], h)
         /\ Path[h] = IF h = 0 THEN <<>> ELSE Append(Path[BlockOf[h].prev], h)
<1> DEFINE g == [x \in Tree |-> CHOOSE p : IsPath(p, x)]
<1>1. \A x \in Tree : IsPath(g[x], x)
  BY PathUnique
<1>2. ASSUME NEW x \in Tree
      PROVE  g[x] = IF x = 0 THEN <<>> ELSE Append(g[BlockOf[x].prev], x)
  <2>1. CASE x = 0
    BY <1>1, <2>1, PathEmpty
  <2>2. CASE x # 0
    <3>1. x \in Hashes /\ BlockOf[x].prev \in Tree
      BY <2>2, ChainConstants DEF Tree
    <3>2. IsPath(Append(g[BlockOf[x].prev], x), x)
      BY <1>1, <3>1, PathAppend
    <3> HIDE DEF g
    <3> QED
      BY <1>1, <2>2, <3>2, PathUnique
  <2> QED
    BY <2>1, <2>2
<1>g. g = [x \in Tree |-> g[x]]
  OBVIOUS
<1> HIDE DEF g
<1>3. g = [x \in Tree |-> IF x = 0 THEN <<>> ELSE Append(g[BlockOf[x].prev], x)]
  BY <1>2, <1>g, Zenon
<1>4. Path = [x \in Tree |-> IF x = 0 THEN <<>> ELSE Append(Path[BlockOf[x].prev], x)]
  <2>1. \E f : f = [x \in Hashes \cup {0} |->
                     IF x = 0 THEN <<>> ELSE Append(f[BlockOf[x].prev], x)]
    BY <1>3, Zenon DEF Tree
  <2> QED
    BY <2>1, Zenon DEF Path, Tree
<1> DEFINE Q == {x \in Hashes : ~IsPath(Path[x], x)}
<1>5. IsPath(Path[0], 0)
  BY <1>4, PathEmpty DEF Tree
<1>6. ASSUME NEW x \in Q, BlockOf[x].prev \notin Q PROVE FALSE
  <2>1. BlockOf[x].prev \in Tree /\ x # 0
    BY ChainConstants DEF Tree
  <2>2. IsPath(Path[BlockOf[x].prev], BlockOf[x].prev)
    BY <1>5, <1>6, <2>1 DEF Tree
  <2>3. Path[x] = Append(Path[BlockOf[x].prev], x)
    BY <1>4, <2>1 DEF Tree
  <2> QED
    BY <2>2, <2>3, PathAppend
<1>7. Q = {}
  <2> HIDE DEF Q
  <2>1. Q \in SUBSET Hashes
    BY DEF Q
  <2> QED
    BY <1>6, <2>1, ChainConstants
<1> QED
  BY <1>4, <1>5, <1>7 DEF Tree

-----------------------------------------------------------------------------
(* The RAM window.                                                          *)

(* The Blockchain struct has these fields.                                  *)
IsNode(n) ==
  n = [base |-> n.base, canonical |-> n.canonical, known |-> n.known, tip |-> n.tip,
       state |-> n.state, included |-> n.included,
       checkpoints |-> n.checkpoints, finalized |-> n.finalized]

(* The height of the oldest block, genesis apart, of a window.              *)
Lo(b) == IF b = 0 THEN 1 ELSE b

(* Block i of the branch is at height i.                                    *)
Leveled(p) == p \in Seq(Hashes) /\ \A k \in 1..Len(p) : BlockOf[p[k]].height = k

(* canonical and known_hashes hold genesis and the blocks of p from base on. *)
Window(base, canonical, known, p) ==
  /\ base \in 0..Len(p)
  /\ canonical \in Seq(Tree)
  /\ Len(canonical) = Len(p) - Lo(base) + 2
  /\ canonical[1] = 0
  /\ \A i \in 2..Len(canonical) : canonical[i] = p[Lo(base) + i - 2]
  /\ known = [k \in {k \in 0..Len(p) : k = 0 \/ k >= base} |-> IF k = 0 THEN 0 ELSE p[k]]

(* The finality floor is a height.                                          *)
HasFloor(n) == n.checkpoints = <<>> \/ Last(n.checkpoints).data.height \in Nat

NodeOK(n) ==
  /\ IsNode(n)
  /\ n.tip \in Tree
  /\ Leveled(Path[n.tip])
  /\ Window(n.base, n.canonical, n.known, Path[n.tip])
  /\ HasFloor(n)

(* The tip of the window is the tip of the branch.                          *)
LEMMA WindowTip ==
  ASSUME NEW p, NEW h, IsPath(p, h), Leveled(p),
         NEW base, NEW canonical, NEW known, Window(base, canonical, known, p)
  PROVE  Last(canonical) = h /\ BlockOf[h].height = Len(p) /\ Len(p) \in Nat
<1>1. p \in Seq(Hashes) /\ Len(p) \in Nat
  BY DEF Leveled
<1>2. CASE p = <<>>
  <2>1. Len(p) = 0 /\ base = 0 /\ h = 0
    BY <1>2 DEF Window, IsPath
  <2>2. Len(canonical) = 1
    BY <2>1 DEF Window, Lo
  <2>3. canonical[1] = 0 /\ BlockOf[0].height = 0
    BY ChainConstants DEF Window
  <2> QED
    BY <1>1, <2>1, <2>2, <2>3 DEF Last
<1>3. CASE p # <<>>
  <2>1. Len(p) >= 1 /\ h = p[Len(p)] /\ Len(p) \in 1..Len(p)
    BY <1>1, <1>3, EmptySeq DEF IsPath
  <2>2. Lo(base) \in 1..Len(p)
    BY <1>1, <2>1 DEF Window, Lo
  <2>3. Len(canonical) = Len(p) - Lo(base) + 2
    BY DEF Window
  <2>4. Len(canonical) \in 2..Len(canonical) /\ Lo(base) + Len(canonical) - 2 = Len(p)
    BY <1>1, <2>2, <2>3
  <2>5. canonical[Len(canonical)] = p[Len(p)]
    BY <2>4 DEF Window
  <2> QED
    BY <1>1, <2>1, <2>5 DEF Last, Leveled
<1> QED
  BY <1>2, <1>3

(* ... so that TipBlock and Height are those of the branch.                 *)
LEMMA TipIs ==
  ASSUME NEW n, NodeOK(n)
  PROVE  /\ Last(n.canonical) = n.tip
         /\ TipBlock(n) = BlockOf[n.tip]
         /\ Height(n) = Len(Path[n.tip])
         /\ Len(Path[n.tip]) \in Nat
<1>1. IsPath(Path[n.tip], n.tip)
  BY PathIs DEF NodeOK
<1>2. /\ Last(n.canonical) = n.tip /\ BlockOf[n.tip].height = Len(Path[n.tip])
      /\ Len(Path[n.tip]) \in Nat
  BY <1>1, WindowTip DEF NodeOK
<1> QED
  BY <1>2 DEF TipBlock, Height

(* `block` answers for the branch: genesis, and every height from base on.  *)
LEMMA BlockIs ==
  ASSUME NEW n, NodeOK(n), NEW k \in Nat
  PROVE  block(n, k) = IF k = 0 THEN 0
                       ELSE IF k \in n.base..Len(Path[n.tip]) THEN Path[n.tip][k]
                       ELSE None
<1> DEFINE p == Path[n.tip]
<1> DEFINE c == n.canonical
<1>1. Leveled(p) /\ Window(n.base, c, n.known, p) /\ Len(p) \in Nat
  BY TipIs DEF NodeOK
<1> HIDE DEF p, c
<1>2. CASE k = 0
  BY <1>1, <1>2 DEF block, Window, c
<1>3. CASE k # 0 /\ k < n.base
  BY <1>1, <1>3 DEF block, Window, p
<1>4. CASE k # 0 /\ k >= n.base
  <2> DEFINE i == 1 + (k - n.base) + (IF n.base = 0 THEN 0 ELSE 1)
  <2>1. n.base \in 0..Len(p) /\ Len(c) = Len(p) - Lo(n.base) + 2
    BY <1>1 DEF Window
  <2>2. i = k - Lo(n.base) + 2 /\ i \in Nat /\ i >= 2 /\ Lo(n.base) + i - 2 = k
    BY <2>1, <1>1, <1>4 DEF Lo
  <2>3. i \in 1..Len(c) <=> k <= Len(p)
    BY <2>1, <2>2, <1>1 DEF Lo
  <2>4. block(n, k) = IF i \in 1..Len(c) /\ BlockOf[c[i]].height = k THEN c[i] ELSE None
    BY <2>1, <1>1, <1>4 DEF block, c
  <2> HIDE DEF i
  <2>5. CASE k <= Len(p)
    <3>1. i \in 2..Len(c) /\ k \in 1..Len(p) /\ k \in n.base..Len(p)
      BY <1>1, <1>4, <2>1, <2>2, <2>3, <2>5
    <3>2. c[i] = p[k]
      BY <1>1, <2>2, <3>1 DEF Window
    <3> QED
      BY <1>1, <1>4, <2>4, <3>1, <3>2 DEF Leveled, p
  <2>6. CASE ~(k <= Len(p))
    <3>1. k \notin n.base..Len(p)
      BY <2>6
    <3> QED
      BY <1>4, <2>3, <2>4, <2>6, <3>1 DEF p
  <2> QED
    BY <2>5, <2>6
<1> QED
  BY <1>1, <1>2, <1>3, <1>4 DEF Window

(* A block on the tip enters the window.                                    *)
LEMMA WindowGrows ==
  ASSUME NEW p \in Seq(Hashes), NEW h \in Hashes,
         NEW base, NEW canonical, NEW known, Window(base, canonical, known, p)
  PROVE  Window(base, Append(canonical, h),
                [k \in DOMAIN known \cup {Len(p) + 1} |->
                   IF k = Len(p) + 1 THEN h ELSE known[k]],
                Append(p, h))
<1> DEFINE q == Append(p, h)
<1> DEFINE c == Append(canonical, h)
<1> DEFINE f == [k \in DOMAIN known \cup {Len(p) + 1} |->
                   IF k = Len(p) + 1 THEN h ELSE known[k]]
<1>1. Len(p) \in Nat /\ base \in 0..Len(p)
  BY DEF Window
<1>2. /\ q \in Seq(Hashes) /\ Len(q) = Len(p) + 1 /\ q[Len(p) + 1] = h
      /\ \A i \in 1..Len(p) : q[i] = p[i]
  BY AppendProperties
<1>3. h \in Tree /\ canonical \in Seq(Tree)
  BY DEF Window, Tree
<1>4. /\ c \in Seq(Tree) /\ Len(c) = Len(canonical) + 1 /\ c[Len(canonical) + 1] = h
      /\ \A i \in 1..Len(canonical) : c[i] = canonical[i]
  BY <1>3, AppendProperties
<1>5. /\ Len(canonical) = Len(p) - Lo(base) + 2 /\ Lo(base) \in 1..(Len(p) + 1)
      /\ Len(canonical) \in Nat /\ Len(canonical) >= 1
  BY <1>1 DEF Window, Lo
<1> HIDE DEF q, c
<1>6. ASSUME NEW i \in 2..Len(c)
      PROVE  c[i] = q[Lo(base) + i - 2]
  <2>1. CASE i = Len(canonical) + 1
    <3>1. Lo(base) + i - 2 = Len(p) + 1
      BY <1>1, <1>5, <2>1
    <3> QED
      BY <1>2, <1>4, <2>1, <3>1
  <2>2. CASE i # Len(canonical) + 1
    <3>1. /\ i \in 2..Len(canonical) /\ i \in 1..Len(canonical)
          /\ Lo(base) + i - 2 \in 1..Len(p)
      BY <1>1, <1>4, <1>5, <2>2
    <3> QED
      BY <1>2, <1>4, <3>1 DEF Window
  <2> QED
    BY <2>1, <2>2
<1>7. f = [k \in {k \in 0..Len(q) : k = 0 \/ k >= base} |-> IF k = 0 THEN 0 ELSE q[k]]
  <2> DEFINE D == {k \in 0..Len(p) : k = 0 \/ k >= base}
  <2> DEFINE E == {k \in 0..Len(q) : k = 0 \/ k >= base}
  <2>1. DOMAIN known = D /\ \A k \in D : known[k] = IF k = 0 THEN 0 ELSE p[k]
    BY DEF Window
  <2>2. D \cup {Len(p) + 1} = E
    BY <1>1, <1>2
  <2>3. ASSUME NEW k \in E PROVE f[k] = IF k = 0 THEN 0 ELSE q[k]
    <3>1. CASE k = Len(p) + 1
      BY <1>1, <1>2, <2>1, <2>2, <3>1
    <3>2. CASE k # Len(p) + 1
      <4>1. k \in D /\ (k = 0 \/ k \in 1..Len(p))
        BY <1>1, <1>2, <2>2, <3>2
      <4> QED
        BY <1>2, <2>1, <2>2, <3>2, <4>1
    <3> QED
      BY <3>1, <3>2
  <2>4. f = [k \in E |-> f[k]]
    BY <2>1, <2>2
  <2> HIDE DEF f, E
  <2>5. f = [k \in E |-> IF k = 0 THEN 0 ELSE q[k]]
    BY <2>3, <2>4
  <2> QED
    BY <2>5 DEF E
<1>8. /\ base \in 0..Len(q) /\ c[1] = 0 /\ Len(c) = Len(q) - Lo(base) + 2
  <2>1. canonical[1] = 0
    BY DEF Window
  <2> QED
    BY <1>1, <1>2, <1>4, <1>5, <2>1
<1>9. Window(base, c, f, q)
  <2> HIDE DEF f
  <2> QED
    BY <1>4, <1>6, <1>7, <1>8 DEF Window
<1> QED
  BY <1>9 DEF c, q

(* Moving base up drops the blocks below it, whatever the base was.         *)
LEMMA WindowSlides ==
  ASSUME NEW p \in Seq(Hashes),
         NEW base, NEW canonical, NEW known, Window(base, canonical, known, p),
         NEW b \in 1..Len(p), b > base
  PROVE  LET k == IF base = 0 THEN b - 1 ELSE b - base
         IN Window(b, <<canonical[1]>> \o SubSeq(canonical, 2 + k, Len(canonical)),
                   [j \in {i \in DOMAIN known : i = 0 \/ i >= b} |-> known[j]], p)
<1> DEFINE k == IF base = 0 THEN b - 1 ELSE b - base
<1> DEFINE rest == SubSeq(canonical, 2 + k, Len(canonical))
<1> DEFINE c == <<canonical[1]>> \o rest
<1> DEFINE f == [j \in {i \in DOMAIN known : i = 0 \/ i >= b} |-> known[j]]
<1>1. Len(p) \in Nat /\ base \in 0..Len(p) /\ canonical \in Seq(Tree)
  BY DEF Window
<1>2. /\ Len(canonical) = Len(p) - Lo(base) + 2 /\ Lo(base) \in 1..Len(p)
      /\ k = b - Lo(base) /\ k \in 0..(Len(p) - Lo(base)) /\ Len(canonical) \in Nat
  BY <1>1 DEF Window, Lo
<1> HIDE DEF k
<1>3. /\ 2 + k \in 1..(Len(canonical) + 1)
      /\ Len(canonical) \in ((2 + k) - 1)..Len(canonical)
  BY <1>1, <1>2
<1>4. /\ rest \in Seq(Tree) /\ Len(rest) = Len(canonical) - (2 + k) + 1
      /\ \A i \in 1..(Len(canonical) - (2 + k) + 1) : rest[i] = canonical[(2 + k) + i - 1]
  BY <1>1, <1>3, Slice
<1>5. canonical[1] = 0 /\ 0 \in Tree
  BY DEF Window, Tree
<1> HIDE DEF rest
<1>6. <<0>> \in Seq(Tree) /\ Len(<<0>>) = 1 /\ <<0>>[1] = 0
  BY <1>5
<1>7. /\ c \in Seq(Tree) /\ Len(c) = 1 + Len(rest)
      /\ \A i \in 1..(1 + Len(rest)) : c[i] = IF i <= 1 THEN <<0>>[i] ELSE rest[i - 1]
  BY <1>4, <1>5, <1>6, ConcatProperties
<1> HIDE DEF c
<1>8. Len(c) = Len(p) - Lo(b) + 2 /\ Lo(b) = b
  BY <1>1, <1>2, <1>4, <1>7 DEF Lo
<1>9. c[1] = 0
  <2>1. 1 \in 1..(1 + Len(rest)) /\ 1 <= 1
    BY <1>1, <1>2, <1>4
  <2> QED
    BY <1>6, <1>7, <2>1
<1>10. ASSUME NEW i \in 2..Len(c)
       PROVE  c[i] = p[Lo(b) + i - 2]
  <2>1. i \in 1..(1 + Len(rest)) /\ ~(i <= 1)
    BY <1>7, <1>8
  <2>2. c[i] = rest[i - 1]
    BY <1>7, <2>1
  <2>0. /\ k \in Nat /\ Lo(base) \in Nat /\ Len(canonical) \in Nat /\ i \in Nat
        /\ Len(p) \in Nat /\ Len(c) = Len(canonical) - k /\ k = b - Lo(base)
        /\ i >= 2 /\ i <= Len(c) /\ Lo(b) = b /\ b \in Nat
    <3>1. Len(rest) = Len(canonical) - (2 + k) + 1 /\ Len(c) = 1 + Len(rest) /\ Lo(b) = b
      BY <1>4, <1>7, <1>8
    <3>2. /\ k \in Nat /\ Lo(base) \in Nat /\ Len(canonical) \in Nat /\ k = b - Lo(base)
          /\ Len(p) \in Nat /\ b \in Nat
      BY <1>1, <1>2
    <3>3. Len(c) = Len(canonical) - k
      <4>1. Len(c) = 1 + (Len(canonical) - (2 + k) + 1)
        BY <3>1, Zenon
      <4> QED
        BY <3>2, <4>1
    <3>4. i \in Nat /\ i >= 2 /\ i <= Len(c)
      <4>1. Len(c) \in Int
        BY <3>2, <3>3
      <4> QED
        BY <4>1
    <3> QED
      BY <3>1, <3>2, <3>3, <3>4
  <2>3. i - 1 \in 1..(Len(canonical) - (2 + k) + 1) /\ (2 + k) + (i - 1) - 1 = k + i
    BY <2>0
  <2>4. rest[i - 1] = canonical[k + i]
    BY <1>4, <2>3
  <2>5. k + i \in 2..Len(canonical) /\ Lo(base) + (k + i) - 2 = Lo(b) + i - 2
    BY <2>0
  <2>6. canonical[k + i] = p[Lo(base) + (k + i) - 2]
    BY <2>5 DEF Window
  <2> QED
    BY <2>2, <2>4, <2>5, <2>6
<1>11. f = [j \in {j \in 0..Len(p) : j = 0 \/ j >= b} |-> IF j = 0 THEN 0 ELSE p[j]]
  <2> DEFINE D == {j \in 0..Len(p) : j = 0 \/ j >= base}
  <2> DEFINE E == {j \in 0..Len(p) : j = 0 \/ j >= b}
  <2>1. DOMAIN known = D /\ \A j \in D : known[j] = IF j = 0 THEN 0 ELSE p[j]
    BY DEF Window
  <2>2. {i \in D : i = 0 \/ i >= b} = E /\ E \subseteq D
    BY <1>1
  <2> HIDE DEF D, E
  <2>3. f = [j \in E |-> known[j]]
    BY <2>1, <2>2, Zenon
  <2>5. \A j \in E : known[j] = IF j = 0 THEN 0 ELSE p[j]
    BY <2>1, <2>2, Zenon
  <2> HIDE DEF f
  <2>4. f = [j \in E |-> IF j = 0 THEN 0 ELSE p[j]]
    BY <2>5, <2>3
  <2> QED
    BY <2>4 DEF E
<1>12. Window(b, c, f, p)
  <2>1. b \in 0..Len(p)
    BY <1>1
  <2> HIDE DEF f
  <2> QED
    BY <1>7, <1>8, <1>9, <1>10, <1>11, <2>1 DEF Window
<1> QED
  BY <1>12 DEF c, rest, k

-----------------------------------------------------------------------------
(* push_block.                                                              *)

(* The base height moves up only, and never past the finality floor.        *)
BaseMoves(n, m) ==
  /\ n.checkpoints = <<>> => m.base = n.base
  /\ n.checkpoints # <<>> /\ n.base <= Last(n.checkpoints).data.height =>
       m.base <= Last(n.checkpoints).data.height

(* The fields that an eviction leaves alone.                                *)
LEMMA EvictOK ==
  ASSUME NEW n, NodeOK(n)
  PROVE  LET m == evict_below_window(n)
         IN /\ NodeOK(m) /\ BaseMoves(n, m)
            /\ m.tip = n.tip /\ m.state = n.state /\ m.included = n.included
            /\ m.checkpoints = n.checkpoints /\ m.finalized = n.finalized
<1> DEFINE m == evict_below_window(n)
<1> DEFINE p == Path[n.tip]
<1>1. CASE m = n
  BY <1>1 DEF BaseMoves
<1>2. CASE m # n
  <2>1. n.checkpoints # <<>> /\ ~(NewBase(n) <= n.base)
    BY <1>2 DEF evict_below_window
  <2> DEFINE b == NewBase(n)
  <2> DEFINE k == IF n.base = 0 THEN b - 1 ELSE b - n.base
  <2> DEFINE c == <<n.canonical[1]>> \o SubSeq(n.canonical, 2 + k, Len(n.canonical))
  <2> DEFINE f == [j \in {i \in DOMAIN n.known : i = 0 \/ i >= b} |-> n.known[j]]
  <2>2. m = [n EXCEPT !.canonical = c, !.known = f, !.base = b]
    BY <2>1 DEF evict_below_window
  <2>3. /\ b \in 1..Len(p) /\ b > n.base /\ b <= Last(n.checkpoints).data.height
        /\ p \in Seq(Hashes)
    <3>1. Last(n.checkpoints).data.height \in Nat /\ RAM_WINDOW_BLOCKS \in Nat \ {0}
      BY <2>1, ChainConstants DEF NodeOK, HasFloor
    <3>2. Height(n) = Len(p) /\ Len(p) \in Nat /\ p \in Seq(Hashes)
      BY TipIs DEF NodeOK, Leveled
    <3>3. n.base \in 0..Len(p)
      BY DEF NodeOK, Window
    <3> HIDE DEF p
    <3>4. b \in Nat /\ b <= Len(p) /\ b <= Last(n.checkpoints).data.height
      BY <3>1, <3>2 DEF NewBase
    <3> HIDE DEF b
    <3> QED
      BY <2>1, <3>2, <3>3, <3>4 DEF b
  <2>4. Window(n.base, n.canonical, n.known, p)
    BY DEF NodeOK
  <2>5. Window(b, c, f, p)
    <3> HIDE DEF b, p
    <3> QED
      BY <2>3, <2>4, WindowSlides
  <2> HIDE DEF m, b, c, f, k
  <2>6. m = [base |-> b, canonical |-> c, known |-> f, tip |-> n.tip,
             state |-> n.state, included |-> n.included,
             checkpoints |-> n.checkpoints, finalized |-> n.finalized]
    BY <2>2 DEF NodeOK, IsNode
  <2>7. NodeOK(m)
    BY <2>5, <2>6 DEF NodeOK, IsNode, HasFloor
  <2>8. BaseMoves(n, m)
    BY <2>1, <2>3, <2>6 DEF BaseMoves
  <2> QED
    BY <2>6, <2>7, <2>8 DEF m
<1> QED
  BY <1>1, <1>2

(* The node that push_block hands to the eviction.                          *)
Grown(n, h, s) ==
  [n EXCEPT !.known = [k \in DOMAIN @ \cup {BlockOf[h].height} |->
                         IF k = BlockOf[h].height THEN h ELSE @[k]],
            !.canonical = Append(@, h), !.tip = h, !.state = s]

(* The window with one more block, before the eviction.                     *)
LEMMA GrownOK ==
  ASSUME NEW n, NodeOK(n), NEW h \in Hashes, NEW s,
         BlockOf[h].prev = n.tip, BlockOf[h].height = Height(n) + 1
  PROVE  /\ NodeOK(Grown(n, h, s))
         /\ Path[h] = Append(Path[n.tip], h)
         /\ Grown(n, h, s).tip = h /\ Grown(n, h, s).state = s
         /\ Grown(n, h, s).base = n.base
         /\ Grown(n, h, s).included = n.included
         /\ Grown(n, h, s).checkpoints = n.checkpoints
         /\ Grown(n, h, s).finalized = n.finalized
<1> DEFINE m == Grown(n, h, s)
<1> DEFINE p == Path[n.tip]
<1> DEFINE f == [k \in DOMAIN n.known \cup {BlockOf[h].height} |->
                   IF k = BlockOf[h].height THEN h ELSE n.known[k]]
<1>1. m = [base |-> n.base, canonical |-> Append(n.canonical, h), known |-> f,
           tip |-> h, state |-> s, included |-> n.included,
           checkpoints |-> n.checkpoints, finalized |-> n.finalized]
  <2>1. m = [n EXCEPT !.known = f, !.canonical = Append(n.canonical, h),
                      !.tip = h, !.state = s]
    BY DEF Grown
  <2> HIDE DEF m, f
  <2>2. IsNode(n)
    BY DEF NodeOK
  <2> QED
    BY <2>1, <2>2 DEF IsNode
<1>2. h # 0 /\ h \in Tree
  BY ChainConstants DEF Tree
<1>3. Path[h] = Append(p, h)
  BY <1>2, PathIs
<1>4. BlockOf[h].height = Len(p) + 1 /\ Len(p) \in Nat /\ p \in Seq(Hashes)
  BY TipIs DEF NodeOK, Leveled
<1>5. Leveled(Path[h])
  <2>1. /\ Path[h] \in Seq(Hashes) /\ Len(Path[h]) = Len(p) + 1 /\ Path[h][Len(p) + 1] = h
        /\ \A i \in 1..Len(p) : Path[h][i] = p[i]
    BY <1>3, <1>4, AppendProperties
  <2>2. \A k \in 1..Len(p) : BlockOf[p[k]].height = k
    BY DEF NodeOK, Leveled
  <2> HIDE DEF p
  <2>3. ASSUME NEW k \in 1..Len(Path[h]) PROVE BlockOf[Path[h][k]].height = k
    <3>1. k = Len(p) + 1 \/ k \in 1..Len(p)
      BY <1>4, <2>1
    <3> QED
      BY <1>4, <2>1, <2>2, <3>1
  <2> QED
    BY <2>1, <2>3 DEF Leveled
<1>6. Window(n.base, Append(n.canonical, h), f, Path[h])
  <2>1. Window(n.base, n.canonical, n.known, p)
    BY DEF NodeOK
  <2> HIDE DEF p
  <2> QED
    BY <1>3, <1>4, <2>1, WindowGrows
<1> HIDE DEF m, f
<1>7. HasFloor(m)
  BY <1>1 DEF NodeOK, HasFloor
<1>8. NodeOK(m)
  BY <1>1, <1>2, <1>5, <1>6, <1>7 DEF NodeOK, IsNode
<1> QED
  BY <1>1, <1>3, <1>8 DEF m

(* An accepted block: what it had to satisfy, and what it leaves.           *)
Pushed(n, h, m) ==
  /\ NodeOK(m) /\ BaseMoves(n, m)
  /\ BlockOf[h].prev = n.tip /\ BlockOf[h].height = Height(n) + 1
  /\ Path[h] = Append(Path[n.tip], h) /\ m.tip = h
  /\ m.state = ApplyBlock(n.state, h, BlockOf[n.tip].ts) /\ m.state # None
  /\ \A j \in DOMAIN BlockOf[h].txs : n.included[BlockOf[h].txs[j].id] = 0
  /\ m.included = IndexTxs(n.included, h)
  /\ m.checkpoints = n.checkpoints /\ m.finalized = n.finalized

(* push_block, with its eviction and its index.                             *)
LEMMA PushOK ==
  ASSUME NEW n, NodeOK(n), NEW h \in Hashes, push_block(n, h) # None
  PROVE  Pushed(n, h, push_block(n, h))
<1> DEFINE s == ApplyBlock(n.state, h, TipBlock(n).ts)
<1> DEFINE g == Grown(n, h, s)
<1> DEFINE e == evict_below_window(g)
<1> DEFINE m == push_block(n, h)
<1>1. /\ BlockOf[h].prev = n.tip /\ BlockOf[h].height = Height(n) + 1 /\ s # None
      /\ \A j \in DOMAIN BlockOf[h].txs : n.included[BlockOf[h].txs[j].id] = 0
      /\ m = [e EXCEPT !.included = IndexTxs(@, h)]
  BY DEF push_block, Grown
<1> HIDE DEF m
<1>2. /\ NodeOK(g) /\ Path[h] = Append(Path[n.tip], h) /\ g.tip = h /\ g.state = s
      /\ g.base = n.base /\ g.included = n.included
      /\ g.checkpoints = n.checkpoints /\ g.finalized = n.finalized
  BY <1>1, GrownOK
<1> HIDE DEF g
<1>3. /\ NodeOK(e) /\ BaseMoves(g, e)
      /\ e.tip = g.tip /\ e.state = g.state /\ e.included = g.included
      /\ e.checkpoints = g.checkpoints /\ e.finalized = g.finalized
  BY <1>2, EvictOK
<1> HIDE DEF e
<1>4. m = [base |-> e.base, canonical |-> e.canonical, known |-> e.known, tip |-> e.tip,
           state |-> e.state, included |-> IndexTxs(e.included, h),
           checkpoints |-> e.checkpoints, finalized |-> e.finalized]
  BY <1>1, <1>3 DEF NodeOK, IsNode
<1>5. NodeOK(m)
  BY <1>3, <1>4 DEF NodeOK, IsNode, HasFloor
<1>6. BaseMoves(n, m)
  BY <1>2, <1>3, <1>4 DEF BaseMoves
<1>7. TipBlock(n) = BlockOf[n.tip]
  BY TipIs
<1> QED
  BY <1>1, <1>2, <1>3, <1>4, <1>5, <1>6, <1>7 DEF Pushed, m

-----------------------------------------------------------------------------
(* Replays.                                                                 *)

(* push_all takes one block after the other.                                *)
LEMMA PushAllIs ==
  /\ \A n : push_all(n, <<>>) = n
  /\ \A n, hs, h : hs \in Seq(Hashes) /\ h \in Hashes =>
       push_all(n, Append(hs, h)) = PushNext(push_all(n, hs), h)
<1>1. \A n, hs : push_all(n, hs) = Fold(<<"push">>, n, hs)
  BY DEF push_all, Fold, StepOf, FoldLeft, MapThenFoldSet
<1>2. \A n, h : PushNext(n, h) = StepOf(<<"push">>, n, h)
  BY DEF StepOf
<1> QED
  BY <1>1, <1>2, FoldEmpty, FoldAppend

(* The registry of a branch, from that of the parent.                       *)
LEMMA BranchStateIs ==
  ASSUME NEW h \in Tree
  PROVE  BranchState[h] = IF h = 0 THEN EmptyState
                          ELSE ApplyNext(BranchState[BlockOf[h].prev], h)
<1>1. \A x \in Tree : BranchState[x] = Fold(<<"apply">>, EmptyState, Path[x])
  BY DEF BranchState, Tree, Fold, StepOf, FoldLeft, MapThenFoldSet
<1>2. CASE h = 0
  BY <1>1, <1>2, PathIs, FoldEmpty
<1>3. CASE h # 0
  <2>1. h \in Hashes /\ BlockOf[h].prev \in Tree
    BY <1>3, ChainConstants DEF Tree
  <2>2. Path[h] = Append(Path[BlockOf[h].prev], h) /\ Path[BlockOf[h].prev] \in Seq(Hashes)
    BY <1>3, <2>1, PathIs DEF IsPath
  <2>3. Fold(<<"apply">>, EmptyState, Append(Path[BlockOf[h].prev], h))
          = ApplyNext(Fold(<<"apply">>, EmptyState, Path[BlockOf[h].prev]), h)
    <3>1. \A s : ApplyNext(s, h) = StepOf(<<"apply">>, s, h)
      BY DEF StepOf
    <3> QED
      BY <2>1, <2>2, <3>1, FoldAppend
  <2> QED
    BY <1>1, <1>3, <2>1, <2>2, <2>3
<1> QED
  BY <1>2, <1>3

(* The registry of a node is that of its branch.                            *)
StateOK(n) == n.state = BranchState[n.tip] /\ n.state # None

(* The registry follows the branch.                                         *)
LEMMA PushState ==
  ASSUME NEW n, NodeOK(n), StateOK(n), NEW h \in Hashes, NEW m, Pushed(n, h, m)
  PROVE  StateOK(m)
<1>1. h \in Tree /\ h # 0
  BY ChainConstants DEF Tree
<1>2. BranchState[h] = ApplyNext(BranchState[BlockOf[h].prev], h)
  BY <1>1, BranchStateIs
<1> QED
  BY <1>2 DEF StateOK, Pushed, ApplyNext

(* m is n with the blocks of hs pushed on it.                               *)
Replayed(n, hs, m) ==
  /\ NodeOK(m) /\ BaseMoves(n, m)
  /\ Path[m.tip] = Path[n.tip] \o hs
  /\ m.checkpoints = n.checkpoints /\ m.finalized = n.finalized
  /\ StateOK(n) => StateOK(m)

(* A replay of any length, by induction.                                    *)
LEMMA PushAllOK ==
  ASSUME NEW n, NodeOK(n), NEW hs \in Seq(Hashes), push_all(n, hs) # None
  PROVE  Replayed(n, hs, push_all(n, hs))
<1> DEFINE Good(l) == push_all(n, l) # None => Replayed(n, l, push_all(n, l))
<1> DEFINE S == {k \in Nat : \A l \in Seq(Hashes) : Len(l) = k => Good(l)}
<1>0. Path[n.tip] \in Seq(Hashes)
  BY DEF NodeOK, Leveled
<1>c. \A l \in Seq(Hashes), h \in Hashes :
        Path[n.tip] \o Append(l, h) = Append(Path[n.tip] \o l, h)
  <2>1. \A a, l \in Seq(Hashes) : \A h \in Hashes : a \o Append(l, h) = Append(a \o l, h)
    BY ConcatAppend
  <2> QED
    BY <1>0, <2>1, Zenon
<1>1. 0 \in S
  <2> SUFFICES ASSUME NEW l \in Seq(Hashes), Len(l) = 0 PROVE Good(l)
    OBVIOUS
  <2>1. l = <<>>
    BY EmptySeq
  <2>2. push_all(n, l) = n
    BY <2>1, PushAllIs
  <2>3. Path[n.tip] \o <<>> = Path[n.tip]
    BY <1>0, ConcatEmptySeq
  <2> QED
    BY <2>1, <2>2, <2>3 DEF Replayed, BaseMoves
<1>2. ASSUME NEW k \in Nat, k \in S PROVE k + 1 \in S
  <2> SUFFICES ASSUME NEW l \in Seq(Hashes), Len(l) = k + 1, push_all(n, l) # None
               PROVE  Replayed(n, l, push_all(n, l))
    OBVIOUS
  <2>1. PICK front \in Seq(Hashes), h \in Hashes : l = Append(front, h)
    <3>1. l # <<>>
      BY EmptySeq
    <3> QED
      BY <3>1, SequenceEmptyOrAppend
  <2>2. Len(front) = k
    BY <2>1, AppendProperties
  <2> DEFINE p == push_all(n, front)
  <2> DEFINE m == push_all(n, l)
  <2>3. m = PushNext(p, h)
    BY <2>1, PushAllIs
  <2>4. p # None /\ m = push_block(p, h)
    BY <2>3 DEF PushNext
  <2>5. Replayed(n, front, p)
    BY <1>2, <2>2, <2>4
  <2> HIDE DEF p, m
  <2>6. Pushed(p, h, m)
    BY <2>4, <2>5, PushOK DEF Replayed, m
  <2>7. Path[m.tip] = Path[n.tip] \o l
    <3>1. Path[m.tip] = Append(Path[n.tip] \o front, h)
      BY <2>5, <2>6 DEF Replayed, Pushed
    <3>2. Path[n.tip] \o Append(front, h) = Append(Path[n.tip] \o front, h)
      BY <1>c
    <3> QED
      BY <2>1, <3>1, <3>2
  <2>8. StateOK(n) => StateOK(m)
    BY <2>5, <2>6, PushState DEF Replayed
  <2>9. BaseMoves(n, m)
    BY <2>5, <2>6 DEF Replayed, Pushed, BaseMoves
  <2>10. Replayed(n, l, m)
    BY <2>5, <2>6, <2>7, <2>8, <2>9 DEF Replayed, Pushed
  <2> QED
    BY <2>10 DEF m
<1>3. Nat \subseteq S
  <2> HIDE DEF S
  <2> QED
    BY <1>1, <1>2, SetInduction
<1> QED
  BY <1>3

-----------------------------------------------------------------------------
(* Reorganisations.                                                         *)

(* An empty chain under the finality of another one.                        *)
Fresh(cps, fin) == [NewNode EXCEPT !.checkpoints = cps, !.finalized = fin]

(* The empty chain is a chain.                                              *)
LEMMA FreshOK ==
  ASSUME NEW cps, NEW fin, cps = <<>> \/ Last(cps).data.height \in Nat
  PROVE  /\ NodeOK(Fresh(cps, fin)) /\ StateOK(Fresh(cps, fin))
         /\ Fresh(cps, fin).base = 0 /\ Fresh(cps, fin).tip = 0
         /\ Fresh(cps, fin).checkpoints = cps /\ Fresh(cps, fin).finalized = fin
<1> DEFINE n == Fresh(cps, fin)
<1>1. n = [base |-> 0, canonical |-> <<0>>, known |-> [k \in {0} |-> 0], tip |-> 0,
           state |-> EmptyState, included |-> [i \in TxIds |-> 0],
           checkpoints |-> cps, finalized |-> fin]
  <2> DEFINE f == [k \in {0} |-> 0]
  <2> DEFINE g == [i \in TxIds |-> 0]
  <2> DEFINE c == <<0>>
  <2>1. NewNode = [base |-> 0, canonical |-> c, known |-> f, tip |-> 0,
                   state |-> EmptyState, included |-> g,
                   checkpoints |-> <<>>, finalized |-> None]
    BY DEF NewNode
  <2>2. n = [NewNode EXCEPT !.checkpoints = cps, !.finalized = fin]
    BY DEF Fresh
  <2> HIDE DEF n, c, f, g
  <2>3. n = [base |-> 0, canonical |-> c, known |-> f, tip |-> 0,
             state |-> EmptyState, included |-> g, checkpoints |-> cps, finalized |-> fin]
    BY <2>1, <2>2
  <2> QED
    BY <2>3 DEF c, f, g
<1> HIDE DEF n
<1>2. 0 \in Tree /\ Path[0] = <<>>
  BY PathIs DEF Tree
<1>3. Leveled(<<>>)
  BY DEF Leveled
<1>4. Window(0, <<0>>, [k \in {0} |-> 0], <<>>)
  <2>1. 0 \in 0..Len(<<>>) /\ <<0>> \in Seq(Tree) /\ Len(<<0>>) = 1 /\ Len(<<>>) = 0
        /\ <<0>>[1] = 0 /\ Lo(0) = 1 /\ 2..1 = {}
    BY <1>2 DEF Lo
  <2>2. {k \in 0..0 : k = 0 \/ k >= 0} = {0}
    OBVIOUS
  <2>3. [k \in {0} |-> 0] = [k \in {0} |-> IF k = 0 THEN 0 ELSE <<>>[k]]
    OBVIOUS
  <2> QED
    BY <2>1, <2>2, <2>3 DEF Window
<1>5. BranchState[0] = EmptyState
  BY <1>2, BranchStateIs
<1>6. NodeOK(n)
  <2>1. IsNode(n)
    BY <1>1 DEF IsNode
  <2>2. HasFloor(n)
    BY <1>1 DEF HasFloor
  <2> QED
    BY <1>1, <1>2, <1>3, <1>4, <2>1, <2>2 DEF NodeOK
<1>7. StateOK(n)
  BY <1>1, <1>5, ChainConstants DEF StateOK
<1> QED
  BY <1>1, <1>6, <1>7 DEF n

(* A new node is the empty chain without finality.                           *)
LEMMA NewIsFresh == Fresh(<<>>, None) = NewNode
<1> DEFINE f == [k \in {0} |-> 0]
<1> DEFINE g == [i \in TxIds |-> 0]
<1> DEFINE c == <<0>>
<1>1. NewNode = [base |-> 0, canonical |-> c, known |-> f, tip |-> 0,
                 state |-> EmptyState, included |-> g,
                 checkpoints |-> <<>>, finalized |-> None]
  BY DEF NewNode
<1> DEFINE e == <<>>
<1>2. Fresh(e, None) = [NewNode EXCEPT !.checkpoints = e, !.finalized = None]
  BY DEF Fresh
<1> HIDE DEF c, f, g, e
<1>3. Fresh(e, None) = [base |-> 0, canonical |-> c, known |-> f, tip |-> 0,
                        state |-> EmptyState, included |-> g,
                        checkpoints |-> e, finalized |-> None]
  BY <1>1, <1>2
<1> QED
  BY <1>1, <1>3 DEF e

(* The base height is 0 without finality, and at most the floor with it.    *)
BaseOK(n) ==
  IF n.checkpoints = <<>> THEN n.base = 0 ELSE n.base <= Last(n.checkpoints).data.height

(* r is n after a reorganisation: k blocks of its branch, then those of ext. *)
Reorged(n, k, ext, r) ==
  /\ NodeOK(r) /\ StateOK(r) /\ BaseOK(r)
  /\ r.checkpoints = n.checkpoints /\ r.finalized = n.finalized /\ r.included = n.included
  /\ k <= Len(Path[n.tip])
  /\ Len(Path[r.tip]) = k + Len(ext)
  /\ \A i \in 1..k : Path[r.tip][i] = Path[n.tip][i]
  /\ \A i \in 1..Len(ext) : Path[r.tip][k + i] = ext[i]

(* reorg_to_height: the prefix and the extension, replayed.                 *)
LEMMA ReorgOK ==
  ASSUME NEW n, NodeOK(n), NEW k \in Nat, NEW ext \in Seq(Hashes),
         reorg_to_height(n, k, ext) # None
  PROVE  Reorged(n, k, ext, reorg_to_height(n, k, ext))
<1> DEFINE prefix == [i \in 1..k |-> block(n, i)]
<1> DEFINE fresh == Fresh(n.checkpoints, n.finalized)
<1> DEFINE m == push_all(fresh, prefix \o ext)
<1> DEFINE r == reorg_to_height(n, k, ext)
<1> DEFINE p == Path[n.tip]
<1>1. /\ \A i \in 1..k : prefix[i] # None
      /\ m # None /\ r = [m EXCEPT !.included = n.included]
  BY DEF reorg_to_height, swap_with, Fresh
<1> HIDE DEF r, m
<1>2. /\ p \in Seq(Hashes) /\ Len(p) \in Nat /\ n.base \in 0..Len(p)
      /\ HasFloor(n)
  BY TipIs DEF NodeOK, Leveled, Window
<1>3. ASSUME NEW i \in 1..k PROVE i \in 1..Len(p) /\ prefix[i] = p[i]
  <2>1. block(n, i) # None /\ i \in Nat /\ i # 0 /\ prefix[i] = block(n, i)
    BY <1>1
  <2>2. i \in n.base..Len(p) /\ block(n, i) = p[i]
    BY <2>1, BlockIs
  <2> QED
    BY <1>2, <2>1, <2>2
<1> HIDE DEF p
<1>4. k <= Len(p)
  BY <1>2, <1>3
<1>5. prefix \in Seq(Hashes) /\ Len(prefix) = k
  <2>1. \A i \in 1..k : prefix[i] \in Hashes
    BY <1>2, <1>3
  <2>2. prefix = [i \in 1..k |-> prefix[i]]
    OBVIOUS
  <2> HIDE DEF prefix
  <2>3. prefix \in [1..k -> Hashes]
    BY <2>1, <2>2
  <2> QED
    BY <2>3, SeqDef
<1> HIDE DEF prefix
<1> DEFINE all == prefix \o ext
<1>6. /\ all \in Seq(Hashes) /\ Len(all) = k + Len(ext) /\ Len(ext) \in Nat
      /\ \A i \in 1..(k + Len(ext)) : all[i] = IF i <= k THEN prefix[i] ELSE ext[i - k]
  <2>1. /\ prefix \o ext \in Seq(Hashes)
        /\ Len(prefix \o ext) = Len(prefix) + Len(ext)
        /\ \A i \in 1..(Len(prefix) + Len(ext)) : (prefix \o ext)[i] =
             IF i <= Len(prefix) THEN prefix[i] ELSE ext[i - Len(prefix)]
    BY <1>5, ConcatProperties
  <2>2. Len(prefix) = k /\ Len(ext) \in Nat
    BY <1>5
  <2> QED
    BY <2>1, <2>2, Zenon
<1>7. m = push_all(fresh, all)
  BY DEF m
<1> HIDE DEF all
<1>8. /\ NodeOK(fresh) /\ StateOK(fresh) /\ fresh.base = 0 /\ fresh.tip = 0
      /\ fresh.checkpoints = n.checkpoints /\ fresh.finalized = n.finalized
  BY <1>2, FreshOK DEF HasFloor
<1> HIDE DEF fresh
<1>9. Replayed(fresh, all, m)
  BY <1>1, <1>6, <1>7, <1>8, PushAllOK
<1>10. Path[m.tip] = all
  <2>1. Path[0] = <<>>
    BY PathIs DEF Tree
  <2>2. <<>> \o all = all
    BY <1>6, ConcatEmptySeq
  <2> QED
    BY <1>8, <1>9, <2>1, <2>2 DEF Replayed
<1>11. r = [base |-> m.base, canonical |-> m.canonical, known |-> m.known, tip |-> m.tip,
            state |-> m.state, included |-> n.included,
            checkpoints |-> m.checkpoints, finalized |-> m.finalized]
  BY <1>1, <1>9 DEF Replayed, NodeOK, IsNode
<1>12. NodeOK(m) /\ StateOK(m)
  BY <1>8, <1>9 DEF Replayed
<1>13. NodeOK(r)
  BY <1>11, <1>12 DEF NodeOK, IsNode, HasFloor
<1>14. StateOK(r)
  BY <1>11, <1>12 DEF StateOK
<1>15. r.checkpoints = n.checkpoints /\ r.finalized = n.finalized
  BY <1>8, <1>9, <1>11 DEF Replayed
<1>16. BaseOK(r)
  <2>1. r.base = m.base /\ BaseMoves(fresh, m)
    BY <1>9, <1>11 DEF Replayed
  <2>2. n.checkpoints # <<>> => 0 <= Last(n.checkpoints).data.height
    BY <1>2 DEF HasFloor
  <2> QED
    BY <1>8, <1>15, <2>1, <2>2 DEF BaseMoves, BaseOK
<1>17. \A i \in 1..k : all[i] = p[i]
  BY <1>3, <1>6
<1>18. \A i \in 1..Len(ext) : all[k + i] = ext[i]
  <2> TAKE i \in 1..Len(ext)
  <2>1. k + i \in 1..(k + Len(ext)) /\ ~(k + i <= k) /\ (k + i) - k = i
    BY <1>6
  <2> QED
    BY <1>6, <2>1
<1>19. Path[r.tip] = all /\ r.included = n.included
  BY <1>10, <1>11
<1> QED
  BY <1>4, <1>6, <1>13, <1>14, <1>15, <1>16, <1>17, <1>18, <1>19 DEF Reorged, r, p

-----------------------------------------------------------------------------
(* The shape of a registry: all that the store relies on.                   *)

IsRegistry(s) ==
  /\ {"domains", "tlds", "expirations"} \subseteq DOMAIN s
  /\ s.domains \in [Domains -> DomainState \cup {None}]
  /\ s.tlds \in [Tlds -> TldState \cup {None}]
  /\ IsFiniteSet(s.expirations)

(* z follows s: no domain of s is lost.                                     *)
Follows(s, z) == IsRegistry(z) /\ \A d \in Domains : s.domains[d] # None => z.domains[d] # None

(* An effect is known by the three fields that it writes.                   *)
Writes3(s, z, domains, tlds, queue) ==
  DOMAIN z = DOMAIN s /\ z.domains = domains /\ z.tlds = tlds /\ z.expirations = queue

(* One domain is set.                                                       *)
LEMMA SetsDomain ==
  ASSUME NEW s, IsRegistry(s), NEW d \in Domains, NEW new \in DomainState, NEW z, NEW q,
         IsFiniteSet(q), Writes3(s, z, [s.domains EXCEPT ![d] = new], s.tlds, q)
  PROVE  Follows(s, z) /\ z.domains[d] # None
  BY NoneIsNoEntry DEF IsRegistry, Follows, Writes3

(* One TLD is set or removed.                                               *)
LEMMA SetsTld ==
  ASSUME NEW s, IsRegistry(s), NEW t \in Tlds, NEW new \in TldState \cup {None}, NEW z,
         Writes3(s, z, s.domains, [s.tlds EXCEPT ![t] = new], s.expirations)
  PROVE  Follows(s, z)
  BY DEF IsRegistry, Follows, Writes3

(* The owner's key is learned.                                              *)
LEMMA LearnShape ==
  ASSUME NEW s, IsRegistry(s), NEW o
  PROVE  LET l == LearnOwnerKey(s, o)
         IN IsRegistry(l) /\ l.domains = s.domains /\ l.tlds = s.tlds
  BY DEF IsRegistry, LearnOwnerKey

(* RegisterDomain and AssignDomain.                                         *)
LEMMA CreateDomainShape ==
  ASSUME NEW s, IsRegistry(s), NEW d \in Domains, NEW o \in Owners, NEW now \in Nat
  PROVE  LET z == CreateDomain(s, d, o, now) IN Follows(s, z) /\ z.domains[d] # None
<1> DEFINE new == [owner |-> o, sequence |-> 0, record |-> None, validUntil |-> now + TERM]
<1> DEFINE q == s.expirations \cup {<<new.validUntil, d>>}
<1> DEFINE z == CreateDomain(s, d, o, now)
<1>1. new \in DomainState
  BY RegistryConstants DEF DomainState
<1>2. IsFiniteSet(q)
  BY FS_AddElement DEF IsRegistry
<1>3. z = [s EXCEPT !.grace       = [s.grace EXCEPT ![d] = None],
                    !.smt         = smt_put_domain(@, d, None, new),
                    !.domains     = [s.domains EXCEPT ![d] = new],
                    !.domainCount = @ + 1,
                    !.expirations = q,
                    !.ownerRefs   = owner_acquire(@, o)]
  BY DEF CreateDomain, expiration_enqueue
<1> HIDE DEF new, q, z
<1>4. Writes3(s, z, [s.domains EXCEPT ![d] = new], s.tlds, q)
  BY <1>3 DEF IsRegistry, Writes3
<1> QED
  BY <1>1, <1>2, <1>4, SetsDomain DEF z

(* UpdateDomain.                                                            *)
LEMMA UpdateDomainShape ==
  ASSUME NEW s, IsRegistry(s), NEW d \in Domains, NEW o, NEW seq, NEW r \in Records,
         UpdateDomainOk(s, d, o, seq), NEW l, IsRegistry(l), l.domains = s.domains
  PROVE  Follows(l, UpdateDomainTo(l, d, seq, r))
<1> DEFINE new == [l.domains[d] EXCEPT !.sequence = seq, !.record = r]
<1> DEFINE z == UpdateDomainTo(l, d, seq, r)
<1>0. l.domains[d] \in DomainState /\ seq \in 0..MaxSequence
  <2>1. l.domains[d] \in DomainState /\ l.domains[d].sequence < MaxSequence
        /\ seq = l.domains[d].sequence + 1
    BY DEF IsRegistry, UpdateDomainOk, OwnsDomain
  <2>2. l.domains[d].sequence \in 0..MaxSequence
    BY <2>1 DEF DomainState
  <2> QED
    BY <2>1, <2>2, RegistryConstants
<1>1. new \in DomainState
  <2> DEFINE v == l.domains[d]
  <2> HIDE DEF v
  <2>1. v \in DomainState /\ new = [v EXCEPT !.sequence = seq, !.record = r]
    BY <1>0 DEF v
  <2> HIDE DEF new
  <2> QED
    BY <1>0, <2>1 DEF DomainState
<1>3. z = [l EXCEPT !.smt     = smt_put_domain(@, d, l.domains[d], new),
                    !.domains = [l.domains EXCEPT ![d] = new]]
  BY DEF UpdateDomainTo
<1> HIDE DEF new, z
<1>4. Writes3(l, z, [l.domains EXCEPT ![d] = new], l.tlds, l.expirations)
  BY <1>3 DEF IsRegistry, Writes3
<1> QED
  BY <1>1, <1>4, SetsDomain DEF z, IsRegistry

(* RenewDomain.                                                             *)
LEMMA RenewDomainShape ==
  ASSUME NEW s, IsRegistry(s), NEW d \in Domains, s.domains[d] # None, NEW until \in Nat
  PROVE  Follows(s, RenewDomainTo(s, d, until))
<1> DEFINE prior == s.domains[d]
<1> DEFINE new == [prior EXCEPT !.validUntil = until]
<1> DEFINE q == (s.expirations \ {<<prior.validUntil, d>>}) \cup {<<until, d>>}
<1> DEFINE z == RenewDomainTo(s, d, until)
<1>0. prior \in DomainState
  BY DEF IsRegistry
<1>2. IsFiniteSet(q)
  BY FS_AddElement, FS_RemoveElement DEF IsRegistry
<1>3. z = [s EXCEPT !.expirations = q,
                    !.smt         = smt_put_domain(@, d, prior, new),
                    !.domains     = [s.domains EXCEPT ![d] = new]]
  BY DEF RenewDomainTo, expiration_enqueue, expiration_dequeue
<1> HIDE DEF prior, q, z
<1>1. new \in DomainState
  BY <1>0 DEF DomainState
<1> HIDE DEF new
<1>4. Writes3(s, z, [s.domains EXCEPT ![d] = new], s.tlds, q)
  BY <1>3 DEF IsRegistry, Writes3
<1> QED
  BY <1>1, <1>2, <1>4, SetsDomain DEF z

(* TransferDomain.                                                          *)
LEMMA TransferDomainShape ==
  ASSUME NEW s, IsRegistry(s), NEW d \in Domains, s.domains[d] # None, NEW o \in Owners
  PROVE  Follows(s, TransferDomainTo(s, d, o))
<1> DEFINE prior == s.domains[d]
<1> DEFINE new == [prior EXCEPT !.owner = o]
<1> DEFINE z == TransferDomainTo(s, d, o)
<1>0. prior \in DomainState
  BY DEF IsRegistry
<1>3. z = [s EXCEPT !.smt       = smt_put_domain(@, d, prior, new),
                    !.domains   = [s.domains EXCEPT ![d] = new],
                    !.ownerRefs = owner_acquire(owner_release(@, prior.owner), o)]
  BY DEF TransferDomainTo
<1> HIDE DEF prior, z
<1>1. new \in DomainState
  BY <1>0 DEF DomainState
<1> HIDE DEF new
<1>4. Writes3(s, z, [s.domains EXCEPT ![d] = new], s.tlds, s.expirations)
  BY <1>3 DEF IsRegistry, Writes3
<1> QED
  BY <1>1, <1>4, SetsDomain DEF z, IsRegistry

(* The four transactions on a TLD.                                          *)
LEMMA TldShape ==
  ASSUME NEW s, IsRegistry(s), NEW t \in Tlds, NEW o \in Owners
  PROVE  /\ Follows(s, CreateTld(s, t, o))
         /\ s.tlds[t] # None => /\ Follows(s, TransferTldTo(s, t, o))
                                /\ \A open \in BOOLEAN : Follows(s, SetTldOpenTo(s, t, open))
                                /\ Follows(s, RemoveTld(s, t))
<1>1. Follows(s, CreateTld(s, t, o))
  <2> DEFINE new == [owner |-> o, open |-> FALSE]
  <2> DEFINE z == CreateTld(s, t, o)
  <2>1. new \in TldState
    BY DEF TldState
  <2>2. z = [s EXCEPT !.smt       = smt_insert_tld(@, t, new),
                      !.tlds      = [s.tlds EXCEPT ![t] = new],
                      !.tldCount  = @ + 1,
                      !.ownerRefs = owner_acquire(@, o)]
    BY DEF CreateTld
  <2> HIDE DEF new, z
  <2>3. Writes3(s, z, s.domains, [s.tlds EXCEPT ![t] = new], s.expirations)
    BY <2>2 DEF IsRegistry, Writes3
  <2> QED
    BY <2>1, <2>3, SetsTld DEF z
<1>2. ASSUME s.tlds[t] # None PROVE Follows(s, TransferTldTo(s, t, o))
  <2> DEFINE prior == s.tlds[t]
  <2> DEFINE new == [prior EXCEPT !.owner = o]
  <2> DEFINE z == TransferTldTo(s, t, o)
  <2>0. prior \in TldState
    BY <1>2 DEF IsRegistry
  <2>2. z = [s EXCEPT !.smt       = smt_put_tld(@, t, prior, new),
                      !.tlds      = [s.tlds EXCEPT ![t] = new],
                      !.ownerRefs = owner_acquire(owner_release(@, prior.owner), o)]
    BY DEF TransferTldTo
  <2> HIDE DEF prior, z
  <2>1. new \in TldState
    BY <2>0 DEF TldState
  <2> HIDE DEF new
  <2>3. Writes3(s, z, s.domains, [s.tlds EXCEPT ![t] = new], s.expirations)
    BY <2>2 DEF IsRegistry, Writes3
  <2> QED
    BY <2>1, <2>3, SetsTld DEF z
<1>3. ASSUME s.tlds[t] # None, NEW open \in BOOLEAN PROVE Follows(s, SetTldOpenTo(s, t, open))
  <2> DEFINE prior == s.tlds[t]
  <2> DEFINE new == [prior EXCEPT !.open = open]
  <2> DEFINE z == SetTldOpenTo(s, t, open)
  <2>0. prior \in TldState
    BY <1>3 DEF IsRegistry
  <2>2. z = [s EXCEPT !.smt  = smt_put_tld(@, t, prior, new),
                      !.tlds = [s.tlds EXCEPT ![t] = new]]
    BY DEF SetTldOpenTo
  <2> HIDE DEF prior, z
  <2>1. new \in TldState
    BY <2>0 DEF TldState
  <2> HIDE DEF new
  <2>3. Writes3(s, z, s.domains, [s.tlds EXCEPT ![t] = new], s.expirations)
    BY <2>2 DEF IsRegistry, Writes3
  <2> QED
    BY <2>1, <2>3, SetsTld DEF z
<1>4. Follows(s, RemoveTld(s, t))
  <2> DEFINE z == RemoveTld(s, t)
  <2>2. z = [s EXCEPT !.smt       = smt_remove_tld(@, t, s.tlds[t]),
                      !.tlds      = [s.tlds EXCEPT ![t] = None],
                      !.tldCount  = @ - 1,
                      !.ownerRefs = owner_release(@, s.tlds[t].owner)]
    BY DEF RemoveTld
  <2> HIDE DEF z
  <2>3. Writes3(s, z, s.domains, [s.tlds EXCEPT ![t] = None], s.expirations)
    BY <2>2 DEF IsRegistry, Writes3
  <2> QED
    BY <2>3, SetsTld DEF z
<1> QED
  BY <1>1, <1>2, <1>3, <1>4

(* What a transaction registers.                                            *)
Registers(tx) == tx.op \in {"RegisterDomain", "AssignDomain"}

(* A transaction that is taken loses no domain and registers its own.       *)
LEMMA ApplyTxShape ==
  ASSUME NEW s, IsRegistry(s), NEW tx, IsTx(tx), NEW now \in Nat, ApplyTx(s, tx, now) # None
  PROVE  LET z == ApplyTx(s, tx, now)
         IN Follows(s, z) /\ (Registers(tx) => z.domains[tx.domain] # None)
<1> DEFINE l == LearnOwnerKey(s, tx.owner)
<1> DEFINE z == ApplyTx(s, tx, now)
<1>l. IsRegistry(l) /\ l.domains = s.domains /\ l.tlds = s.tlds
  BY LearnShape
<1>o. tx.owner \in Owners
  BY DEF IsTx
<1>f. ASSUME NEW y, Follows(l, y) PROVE Follows(s, y)
  BY <1>l, <1>f DEF Follows
<1>1. CASE tx.op = "RegisterDomain"
  <2>1. tx.domain \in Domains
    BY <1>1 DEF IsTx, DomainOps
  <2>2. z = CreateDomain(l, tx.domain, tx.owner, now)
    BY <1>1 DEF ApplyTx
  <2> HIDE DEF l, z
  <2> QED
    BY <2>1, <2>2, <1>l, <1>o, <1>f, CreateDomainShape DEF z
<1>2. CASE tx.op = "UpdateDomain"
  <2>1. tx.domain \in Domains /\ tx.record \in Records
    BY <1>2 DEF IsTx, DomainOps
  <2>2. /\ z = UpdateDomainTo(l, tx.domain, tx.seq, tx.record)
        /\ UpdateDomainOk(s, tx.domain, tx.owner, tx.seq)
    BY <1>2 DEF ApplyTx
  <2>3. ~Registers(tx)
    BY <1>2 DEF Registers
  <2> HIDE DEF l, z
  <2> QED
    BY <2>1, <2>2, <2>3, <1>l, <1>f, UpdateDomainShape DEF z
<1>3. CASE tx.op \in TldOps
  <2>1. tx.tld \in Tlds
    BY <1>3 DEF IsTx
  <2>3. ~Registers(tx)
    BY <1>3 DEF Registers, TldOps
  <2>4. CASE tx.op = "RegisterTld"
    <3>1. z = CreateTld(l, tx.tld, tx.owner)
      BY <2>4 DEF ApplyTx
    <3> HIDE DEF l, z
    <3> QED
      BY <2>1, <2>3, <3>1, <1>l, <1>o, <1>f, TldShape DEF z
  <2>5. CASE tx.op = "TransferTld"
    <3>1. z = TransferTldTo(s, tx.tld, tx.to) /\ OwnsTld(s, tx.tld, tx.owner)
      BY <2>5 DEF ApplyTx
    <3>2. tx.to \in Owners
      BY <2>5 DEF IsTx
    <3> HIDE DEF z
    <3> QED
      BY <2>1, <2>3, <3>1, <3>2, TldShape DEF z, OwnsTld
  <2>6. CASE tx.op = "RevokeTld"
    <3>1. z = RemoveTld(s, tx.tld) /\ OwnsTld(s, tx.tld, tx.owner)
      BY <2>6 DEF ApplyTx
    <3> HIDE DEF z
    <3> QED
      BY <2>1, <2>3, <3>1, <1>o, TldShape DEF z, OwnsTld
  <2>7. CASE tx.op = "SetTldOpen"
    <3>1. z = SetTldOpenTo(s, tx.tld, tx.open) /\ OwnsTld(s, tx.tld, tx.owner)
      BY <2>7 DEF ApplyTx
    <3>2. tx.open \in BOOLEAN
      BY <2>7 DEF IsTx
    <3> HIDE DEF z
    <3> QED
      BY <2>1, <2>3, <3>1, <3>2, <1>o, TldShape DEF z, OwnsTld
  <2> QED
    BY <1>3, <2>4, <2>5, <2>6, <2>7 DEF TldOps
<1>4. CASE tx.op = "AssignDomain"
  <2>1. tx.domain \in Domains /\ tx.to \in Owners
    BY <1>4 DEF IsTx, DomainOps
  <2>2. z = CreateDomain(s, tx.domain, tx.to, now)
    BY <1>4 DEF ApplyTx
  <2> HIDE DEF z
  <2> QED
    BY <2>1, <2>2, CreateDomainShape DEF z
<1>5. CASE tx.op = "RenewDomain"
  <2>1. tx.domain \in Domains /\ tx.until \in Nat
    BY <1>5 DEF IsTx, DomainOps
  <2>2. z = RenewDomainTo(s, tx.domain, tx.until) /\ s.domains[tx.domain] # None
    BY <1>5 DEF ApplyTx, RenewDomainOk, OwnsDomain
  <2>3. ~Registers(tx)
    BY <1>5 DEF Registers
  <2> HIDE DEF z
  <2> QED
    BY <2>1, <2>2, <2>3, RenewDomainShape DEF z
<1>6. CASE tx.op = "TransferDomain"
  <2>1. tx.domain \in Domains /\ tx.to \in Owners
    BY <1>6 DEF IsTx, DomainOps
  <2>2. z = TransferDomainTo(s, tx.domain, tx.to) /\ s.domains[tx.domain] # None
    BY <1>6 DEF ApplyTx, OwnsDomain
  <2>3. ~Registers(tx)
    BY <1>6 DEF Registers
  <2> HIDE DEF z
  <2> QED
    BY <2>1, <2>2, <2>3, TransferDomainShape DEF z
<1>7. CASE tx.op = "Slash"
  <2>1. z = Ban(s, tx.owner)
    BY <1>7 DEF ApplyTx
  <2>2. Follows(s, Ban(s, tx.owner))
    BY DEF Ban, Follows, IsRegistry
  <2>3. ~Registers(tx)
    BY <1>7 DEF Registers
  <2> HIDE DEF z
  <2> QED
    BY <2>1, <2>2, <2>3 DEF z
<1> QED
  BY <1>1, <1>2, <1>3, <1>4, <1>5, <1>6, <1>7 DEF IsTx, DomainOps

(* ApplyTxs takes one transaction after the other.                          *)
LEMMA ApplyTxsIs ==
  ASSUME NEW now
  PROVE  /\ \A s : ApplyTxs(s, <<>>, now) = s
         /\ \A s, T : \A txs \in Seq(T), tx \in T :
              ApplyTxs(s, Append(txs, tx), now)
                = LET z == ApplyTxs(s, txs, now)
                  IN IF z = None THEN None ELSE ApplyTx(z, tx, now)
<1> DEFINE kind == <<"tx", now>>
<1>1. \A s, txs : ApplyTxs(s, txs, now) = Fold(kind, s, txs)
  BY DEF ApplyTxs, Fold, StepOf, FoldLeft, MapThenFoldSet
<1>2. \A z, tx : StepOf(kind, z, tx) = IF z = None THEN None ELSE ApplyTx(z, tx, now)
  BY DEF StepOf
<1> HIDE DEF kind
<1> QED
  BY <1>1, <1>2, FoldEmpty, FoldAppend

(* The transactions of a block register what they say, and nothing of it is *)
(* lost before the end of the block.                                        *)
LEMMA ApplyTxsShape ==
  ASSUME NEW s, IsRegistry(s), NEW T, \A tx \in T : IsTx(tx), NEW txs \in Seq(T),
         NEW now \in Nat, ApplyTxs(s, txs, now) # None
  PROVE  LET z == ApplyTxs(s, txs, now)
         IN /\ Follows(s, z)
            /\ \A i \in DOMAIN txs : Registers(txs[i]) => z.domains[txs[i].domain] # None
<1> DEFINE Good(l) == LET z == ApplyTxs(s, l, now)
                      IN z # None =>
                           /\ Follows(s, z)
                           /\ \A i \in DOMAIN l : Registers(l[i]) => z.domains[l[i].domain] # None
<1> DEFINE S == {k \in Nat : \A l \in Seq(T) : Len(l) = k => Good(l)}
<1>1. 0 \in S
  <2> SUFFICES ASSUME NEW l \in Seq(T), Len(l) = 0 PROVE Good(l)
    OBVIOUS
  <2>1. l = <<>>
    BY EmptySeq
  <2>2. ApplyTxs(s, l, now) = s
    BY <2>1, ApplyTxsIs
  <2> QED
    BY <2>1, <2>2 DEF Follows
<1>2. ASSUME NEW k \in Nat, k \in S PROVE k + 1 \in S
  <2> SUFFICES ASSUME NEW l \in Seq(T), Len(l) = k + 1 PROVE Good(l)
    OBVIOUS
  <2>1. PICK front \in Seq(T), tx \in T : l = Append(front, tx)
    <3>1. l # <<>>
      BY EmptySeq
    <3> QED
      BY <3>1, SequenceEmptyOrAppend
  <2>2. Len(front) = k /\ l[k + 1] = tx /\ \A i \in 1..k : l[i] = front[i]
    BY <2>1, AppendProperties
  <2> DEFINE y == ApplyTxs(s, front, now)
  <2> DEFINE z == ApplyTxs(s, l, now)
  <2>3. z = IF y = None THEN None ELSE ApplyTx(y, tx, now)
    BY <2>1, ApplyTxsIs
  <2>4. Good(front)
    BY <1>2, <2>2
  <2> SUFFICES ASSUME z # None
               PROVE  /\ Follows(s, z)
                      /\ \A i \in DOMAIN l : Registers(l[i]) => z.domains[l[i].domain] # None
    OBVIOUS
  <2>5. y # None /\ z = ApplyTx(y, tx, now)
    BY <2>3
  <2>6. /\ Follows(s, y)
        /\ \A i \in DOMAIN front : Registers(front[i]) => y.domains[front[i].domain] # None
    BY <2>4, <2>5
  <2> HIDE DEF y, z, Good, S
  <2>7. Follows(y, z) /\ (Registers(tx) => z.domains[tx.domain] # None)
    <3>1. IsRegistry(y) /\ IsTx(tx)
      BY <2>6 DEF Follows
    <3> QED
      BY <2>5, <3>1, ApplyTxShape
  <2>8. Follows(s, z)
    BY <2>6, <2>7 DEF Follows
  <2>9. ASSUME NEW i \in DOMAIN l, Registers(l[i]) PROVE z.domains[l[i].domain] # None
    <3>1. CASE i = k + 1
      BY <2>2, <2>7, <2>9, <3>1
    <3>2. CASE i # k + 1
      <4>1. i \in 1..k /\ i \in DOMAIN front /\ l[i] = front[i] /\ front[i] \in T
        BY <2>2, <3>2
      <4>2. y.domains[front[i].domain] # None
        BY <2>6, <2>9, <4>1
      <4>3. front[i].domain \in Domains
        BY <2>9, <4>1 DEF IsTx, Registers, DomainOps
      <4> QED
        BY <2>7, <4>1, <4>2, <4>3 DEF Follows
    <3> QED
      BY <3>1, <3>2
  <2> QED
    BY <2>8, <2>9
<1>3. Nat \subseteq S
  <2> HIDE DEF S
  <2> QED
    BY <1>1, <1>2, SetInduction
<1>4. Good(txs)
  BY <1>3
<1> QED
  BY <1>4

-----------------------------------------------------------------------------
(* Expiry: a fold over a set, in the order of CHOOSE.                       *)

(* The table of MapThenFoldSet for the sets of at most k pairs.             *)
Some(P) == CHOOSE p \in P : TRUE
ExpirePair(z, p, now) == ExpireOne(z, p[1], p[2], now)
IsExpiry(g, s, now, Q, k) ==
  g = [P \in {P \in SUBSET Q : Cardinality(P) <= k} |->
         IF P = {} THEN s ELSE ExpirePair(g[P \ {Some(P)}], Some(P), now)]

(* One pair less.                                                           *)
LEMMA Smaller ==
  ASSUME NEW Q, IsFiniteSet(Q), NEW P \in SUBSET Q, P # {}
  PROVE  /\ Cardinality(P) \in Nat
         /\ P \ {Some(P)} \in SUBSET Q /\ Cardinality(P \ {Some(P)}) = Cardinality(P) - 1
         /\ Some(P) \in P
<1>1. Some(P) \in P
  BY DEF Some
<1>2. IsFiniteSet(P)
  BY FS_Subset
<1> HIDE DEF Some
<1> QED
  BY <1>1, <1>2, FS_RemoveElement, FS_CardinalityType

(* There is such a table for every k.                                       *)
LEMMA ExpiryExists ==
  ASSUME NEW s, NEW now, NEW Q, IsFiniteSet(Q)
  PROVE  \A k \in Nat : \E g : IsExpiry(g, s, now, Q, k)
<1> DEFINE S == {k \in Nat : \E g : IsExpiry(g, s, now, Q, k)}
<1> DEFINE Upto(k) == {P \in SUBSET Q : Cardinality(P) <= k}
<1>0. \A P \in SUBSET Q : IsFiniteSet(P) /\ Cardinality(P) \in Nat
  BY FS_Subset, FS_CardinalityType
<1>1. 0 \in S
  <2> DEFINE g == [P \in Upto(0) |-> s]
  <2>1. ASSUME NEW P \in Upto(0) PROVE P = {}
    <3>1. Cardinality(P) = 0 /\ IsFiniteSet(P)
      BY <1>0
    <3> QED
      BY <3>1, FS_EmptySet
  <2>2. IsExpiry(g, s, now, Q, 0)
    BY <2>1 DEF IsExpiry
  <2> QED
    BY <2>2
<1>2. ASSUME NEW k \in Nat, k \in S PROVE k + 1 \in S
  <2>1. PICK g : IsExpiry(g, s, now, Q, k)
    BY <1>2
  <2> DEFINE f == [P \in Upto(k + 1) |->
                     IF P = {} THEN s ELSE ExpirePair(g[P \ {Some(P)}], Some(P), now)]
  <2>2. ASSUME NEW P \in Upto(k) PROVE g[P] = f[P]
    <3>1. P \in Upto(k + 1)
      <4>1. P \in SUBSET Q /\ Cardinality(P) <= k /\ Cardinality(P) \in Nat
        BY <1>0
      <4> QED
        BY <4>1
    <3>2. g[P] = IF P = {} THEN s ELSE ExpirePair(g[P \ {Some(P)}], Some(P), now)
      BY <2>1 DEF IsExpiry
    <3> QED
      BY <3>1, <3>2
  <2>3. ASSUME NEW P \in Upto(k + 1)
        PROVE f[P] = IF P = {} THEN s ELSE ExpirePair(f[P \ {Some(P)}], Some(P), now)
    <3>1. CASE P = {}
      BY <3>1
    <3>2. CASE P # {}
      <4>1. P \ {Some(P)} \in Upto(k)
        BY <3>2, Smaller
      <4>2. g[P \ {Some(P)}] = f[P \ {Some(P)}]
        BY <2>2, <4>1
      <4>3. f[P] = ExpirePair(g[P \ {Some(P)}], Some(P), now)
        BY <3>2
      <4> HIDE DEF f
      <4> QED
        BY <3>2, <4>2, <4>3
    <3> QED
      BY <3>1, <3>2
  <2>4. IsExpiry(f, s, now, Q, k + 1)
    BY <2>3 DEF IsExpiry
  <2> HIDE DEF f
  <2> QED
    BY <2>4
<1> HIDE DEF S
<1>3. Nat \subseteq S
  BY <1>1, <1>2, SetInduction
<1> QED
  BY <1>3 DEF S

(* The expiry of one pair keeps the shape.                                  *)
LEMMA ExpireOneShape ==
  ASSUME NEW s, IsRegistry(s), NEW until, NEW d, NEW now
  PROVE  IsRegistry(ExpireOne(s, until, d, now))
<1> DEFINE prior == s.domains[d]
<1> DEFINE rest == s.expirations \ {<<until, d>>}
<1> DEFINE z == ExpireOne(s, until, d, now)
<1>1. IsFiniteSet(rest) /\ \A p : IsFiniteSet(rest \cup {p})
  BY FS_RemoveElement, FS_AddElement DEF IsRegistry
<1>2. CASE prior = None
  <2>1. z = [s EXCEPT !.expirations = rest]
    BY <1>2 DEF ExpireOne, expiration_dequeue
  <2> HIDE DEF z, rest
  <2> QED
    BY <1>1, <2>1 DEF IsRegistry, z
<1>3. CASE prior # None /\ prior.validUntil > now
  <2>1. z = [s EXCEPT !.expirations = rest \cup {<<prior.validUntil, d>>}]
    BY <1>3 DEF ExpireOne, expiration_dequeue, expiration_enqueue
  <2> HIDE DEF z, rest, prior
  <2> QED
    BY <1>1, <2>1 DEF IsRegistry, z
<1>4. CASE prior # None /\ ~(prior.validUntil > now)
  <2>1. z = [s EXCEPT !.expirations = rest,
                      !.domains     = [s.domains EXCEPT ![d] = None],
                      !.smt         = smt_remove_domain(@, d, prior),
                      !.domainCount = @ - 1,
                      !.ownerRefs   = owner_release(@, prior.owner),
                      !.grace       = [s.grace EXCEPT ![d] =
                                        [expiredAt |-> prior.validUntil,
                                         owner     |-> prior.owner]]]
    BY <1>4 DEF ExpireOne, expiration_dequeue
  <2> HIDE DEF z, rest, prior
  <2>2. Writes3(s, z, [s.domains EXCEPT ![d] = None], s.tlds, rest)
    BY <2>1 DEF IsRegistry, Writes3
  <2> QED
    BY <1>1, <2>2 DEF IsRegistry, Writes3, z
<1> QED
  BY <1>2, <1>3, <1>4

(* The whole collection.                                                    *)
LEMMA GcShape ==
  ASSUME NEW s, IsRegistry(s), NEW now
  PROVE  IsRegistry(gc_expired(s, now))
<1> DEFINE Q == {p \in s.expirations : p[1] <= now}
<1> DEFINE n == Cardinality(Q)
<1> DEFINE IsTable(g) == g = [P \in SUBSET Q |->
                IF P = {} THEN s ELSE ExpirePair(g[P \ {Some(P)}], Some(P), now)]
<1> DEFINE g == CHOOSE g : IsTable(g)
<1>1. IsFiniteSet(Q) /\ n \in Nat
  BY FS_Subset, FS_CardinalityType DEF IsRegistry
<1>2. gc_expired(s, now) = g[Q]
  BY DEF gc_expired, FoldSet, MapThenFoldSet, ExpirePair, Some
<1>3. IsTable(g)
  <2>1. PICK f : IsExpiry(f, s, now, Q, n)
    BY <1>1, ExpiryExists
  <2>2. SUBSET Q = {P \in SUBSET Q : Cardinality(P) <= n}
    BY <1>1, FS_Subset
  <2>3. IsTable(f)
    <3> HIDE DEF Q, n
    <3> QED
      BY <2>1, <2>2 DEF IsExpiry
  <2> QED
    BY <2>3
<1> HIDE DEF g, Q
<1> DEFINE S == {k \in Nat : \A P \in SUBSET Q : Cardinality(P) = k => IsRegistry(g[P])}
<1>4. 0 \in S
  <2> SUFFICES ASSUME NEW P \in SUBSET Q, Cardinality(P) = 0 PROVE IsRegistry(g[P])
    OBVIOUS
  <2>1. P = {}
    BY <1>1, FS_Subset, FS_EmptySet
  <2> QED
    BY <1>3, <2>1
<1>5. ASSUME NEW k \in Nat, k \in S PROVE k + 1 \in S
  <2> SUFFICES ASSUME NEW P \in SUBSET Q, Cardinality(P) = k + 1 PROVE IsRegistry(g[P])
    OBVIOUS
  <2>1. P # {}
    BY FS_EmptySet
  <2>2. P \ {Some(P)} \in SUBSET Q /\ Cardinality(P \ {Some(P)}) = k
    BY <1>1, <2>1, Smaller
  <2>3. IsRegistry(g[P \ {Some(P)}])
    BY <1>5, <2>2
  <2>4. g[P] = ExpirePair(g[P \ {Some(P)}], Some(P), now)
    BY <1>3, <2>1
  <2> QED
    BY <2>3, <2>4, ExpireOneShape DEF ExpirePair
<1>6. Nat \subseteq S
  <2> HIDE DEF S
  <2> QED
    BY <1>4, <1>5, SetInduction
<1> QED
  BY <1>1, <1>2, <1>6
=============================================================================
