--------------------------- MODULE NodeStore_proofs ---------------------------
(***************************************************************************)
(* The store of every node implements the durable log, and its counters and *)
(* its name index are exact, for every tree of blocks, number of nodes and  *)
(* interleaving of appends, crashes, restarts, repairs and imports.         *)
(***************************************************************************)
EXTENDS NodeStore, ChainOps_proofs, FunctionTheorems

(* The tables of a store.                                                   *)
IsStore(st) ==
  /\ st = [byHeight |-> st.byHeight, byHash |-> st.byHash, domains |-> st.domains,
           tlds |-> st.tlds, domainCount |-> st.domainCount, tldCount |-> st.tldCount,
           names |-> st.names, reverse |-> st.reverse, tip |-> st.tip,
           snapshot |-> st.snapshot, marker |-> st.marker]
  /\ st.byHeight \in [Heights -> Hashes \cup {None}]
  /\ st.tip.height \in Heights \cup {0}

IInv == DOMAIN store = Nodes /\ \A n \in Nodes : IsStore(store[n])

-----------------------------------------------------------------------------
(* What an operation may do to the blocks of one store.                     *)

Same(st, new) == new.byHeight = st.byHeight /\ new.tip.height = st.tip.height

AppendsOne(st, new) ==
  LET k == st.tip.height + 1
  IN /\ k \in Heights /\ st.byHeight[k] = None
     /\ \E h \in Hashes : new.byHeight = [st.byHeight EXCEPT ![k] = h]
     /\ new.tip.height = k

Jumps(st, new) ==
  /\ st.tip.height = 0 /\ new.byHeight = st.byHeight
  /\ new.tip.height \in Heights /\ new.tip.height > 0

Anchors(st, new) ==
  LET k == st.tip.height
  IN /\ k \in Heights /\ st.byHeight[k] = None /\ new.tip.height = k
     /\ \E h \in Hashes : new.byHeight = [st.byHeight EXCEPT ![k] = h]

Allowed(st, new) ==
  IsStore(new) /\ (Same(st, new) \/ AppendsOne(st, new) \/ Jumps(st, new) \/ Anchors(st, new))

(* Heights are numbers, and every block has one of them.                    *)
LEMMA HeightsAre == Heights \subseteq Nat \ {0} /\ \A h \in Hashes : BlockOf[h].height \in Heights
<1>1. \A h \in Hashes : BlockOf[h].height \in Heights
  BY DEF Heights
<1>2. Heights = 1..Cardinality(Heights)
  BY StoreConstants
<1>3. ASSUME NEW k \in Heights PROVE k \in Nat \ {0}
  <2>1. k \in 1..Cardinality(Heights)
    BY <1>2
  <2>2. PICK h \in Hashes : k = BlockOf[h].height
    BY DEF Heights
  <2>3. k \in Nat
    BY <2>2, ChainConstants
  <2> HIDE DEF Heights
  <2> QED
    BY <2>1, <2>3
<1> QED
  BY <1>1, <1>3

-----------------------------------------------------------------------------
(* The chain in RAM.  No checkpoint is accepted here, so that no block is   *)
(* evicted from it.                                                         *)

IsChain(n) ==
  /\ {"base", "canonical", "known", "tip", "state", "included", "checkpoints", "finalized"}
       \subseteq DOMAIN n
  /\ n.canonical \in Seq(Tree) /\ n.canonical # <<>>
  /\ n.tip \in Tree
  /\ n.checkpoints = <<>>
  /\ IsRegistry(n.state)

(* What block h registered lives in s.                                      *)
Registered(s, h) ==
  \A i \in DOMAIN BlockOf[h].txs :
    Registers(BlockOf[h].txs[i]) => s.domains[BlockOf[h].txs[i].domain] # None

(* The registry of genesis.                                                 *)
LEMMA EmptyIsRegistry == IsRegistry(EmptyState)
<1>1. IsFiniteSet({})
  BY FS_EmptySet
<1> QED
  BY <1>1 DEF IsRegistry, EmptyState

(* A block on a registry.                                                   *)
LEMMA ApplyBlockShape ==
  ASSUME NEW s, IsRegistry(s), NEW h \in Hashes, NEW ts \in Nat, ApplyBlock(s, h, ts) # None
  PROVE  IsRegistry(ApplyBlock(s, h, ts)) /\ Registered(ApplyBlock(s, h, ts), h)
<1> DEFINE g == gc_expired(s, ts)
<1> DEFINE txs == BlockOf[h].txs
<1> DEFINE T == Range(txs)
<1>1. IsRegistry(g)
  BY GcShape
<1>2. txs \in Seq(T) /\ \A tx \in T : IsTx(tx)
  BY StoreConstants
<1>3. ApplyBlock(s, h, ts) = ApplyTxs(g, txs, ts)
  BY DEF ApplyBlock
<1> HIDE DEF g, T
<1>4. /\ Follows(g, ApplyTxs(g, txs, ts))
      /\ \A i \in DOMAIN txs :
           Registers(txs[i]) => ApplyTxs(g, txs, ts).domains[txs[i].domain] # None
  BY <1>1, <1>2, <1>3, ApplyTxsShape
<1> QED
  BY <1>3, <1>4 DEF Follows, Registered

(* The last block of a chain has a timestamp.                               *)
LEMMA TipTs == \A n : IsChain(n) => TipBlock(n).ts \in Nat
<1> SUFFICES ASSUME NEW n, IsChain(n) PROVE TipBlock(n).ts \in Nat
  OBVIOUS
<1>1. Last(n.canonical) \in Tree
  <2>1. Len(n.canonical) \in 1..Len(n.canonical)
    BY EmptySeq DEF IsChain
  <2> QED
    BY <2>1, ElementOfSeq DEF IsChain, Last
<1> QED
  BY <1>1, ChainConstants DEF TipBlock, Tree

(* push_block.                                                              *)
LEMMA PushShape ==
  ASSUME NEW n, IsChain(n), NEW h \in Hashes, push_block(n, h) # None
  PROVE  IsChain(push_block(n, h)) /\ Registered(push_block(n, h).state, h)
<1> DEFINE b == BlockOf[h]
<1> DEFINE s == ApplyBlock(n.state, h, TipBlock(n).ts)
<1> DEFINE kn == [k \in DOMAIN n.known \cup {b.height} |-> IF k = b.height THEN h ELSE n.known[k]]
<1> DEFINE ca == Append(n.canonical, h)
<1> DEFINE m == [n EXCEPT !.known = kn, !.canonical = ca, !.tip = h, !.state = s]
<1> DEFINE r == push_block(n, h)
<1>1. s # None /\ r = LET e == evict_below_window(m) IN [e EXCEPT !.included = IndexTxs(@, h)]
  BY DEF push_block
<1>2. IsRegistry(s) /\ Registered(s, h)
  BY <1>1, TipTs, ApplyBlockShape DEF IsChain
<1>3. h \in Tree
  BY DEF Tree
<1>4. ca \in Seq(Tree) /\ ca # <<>>
  BY <1>3, AppendProperties, EmptySeq DEF IsChain
<1>5. m = [n EXCEPT !.known = kn, !.canonical = ca, !.tip = h, !.state = s]
  OBVIOUS
<1> HIDE DEF m, kn, ca, s, b, r
<1>6. DOMAIN m = DOMAIN n /\ m.canonical = ca /\ m.tip = h /\ m.state = s
      /\ m.checkpoints = <<>>
  BY <1>5 DEF IsChain
<1>7. r = [m EXCEPT !.included = IndexTxs(m.included, h)]
  BY <1>1, <1>6 DEF evict_below_window
<1>8. DOMAIN r = DOMAIN m /\ r.canonical = ca /\ r.tip = h /\ r.state = s
      /\ r.checkpoints = <<>>
  BY <1>6, <1>7 DEF IsChain
<1> QED
  BY <1>2, <1>3, <1>4, <1>6, <1>8 DEF IsChain, r

(* push_all: the last block is the one that the registry follows.           *)
LEMMA PushAllShape ==
  ASSUME NEW n, IsChain(n), NEW hs \in Seq(Hashes), push_all(n, hs) # None
  PROVE  /\ IsChain(push_all(n, hs))
         /\ hs # <<>> => Registered(push_all(n, hs).state, Last(hs))
<1> DEFINE Fits(l) == push_all(n, l) # None =>
                        /\ IsChain(push_all(n, l))
                        /\ l # <<>> => Registered(push_all(n, l).state, Last(l))
<1> DEFINE S == {k \in Nat : \A l \in Seq(Hashes) : Len(l) = k => Fits(l)}
<1>1. 0 \in S
  <2> SUFFICES ASSUME NEW l \in Seq(Hashes), Len(l) = 0 PROVE Fits(l)
    OBVIOUS
  <2>1. l = <<>>
    BY EmptySeq
  <2>2. push_all(n, l) = n
    BY <2>1, PushAllIs
  <2> QED
    BY <2>1, <2>2
<1>2. ASSUME NEW k \in Nat, k \in S PROVE k + 1 \in S
  <2> SUFFICES ASSUME NEW l \in Seq(Hashes), Len(l) = k + 1, push_all(n, l) # None
               PROVE  /\ IsChain(push_all(n, l))
                      /\ Registered(push_all(n, l).state, Last(l))
    OBVIOUS
  <2>1. PICK front \in Seq(Hashes), h \in Hashes : l = Append(front, h)
    <3>1. l # <<>>
      BY EmptySeq
    <3> QED
      BY <3>1, SequenceEmptyOrAppend
  <2>2. Len(front) = k /\ Last(l) = h
    BY <2>1, AppendProperties DEF Last
  <2> DEFINE p == push_all(n, front)
  <2> DEFINE m == push_all(n, l)
  <2>3. m = PushNext(p, h)
    BY <2>1, PushAllIs
  <2>4. p # None /\ m = push_block(p, h)
    BY <2>3 DEF PushNext
  <2>5. IsChain(p)
    BY <1>2, <2>2, <2>4
  <2> HIDE DEF p, m
  <2> QED
    BY <2>2, <2>4, <2>5, PushShape DEF m
<1>3. Nat \subseteq S
  <2> HIDE DEF S
  <2> QED
    BY <1>1, <1>2, SetInduction
<1> QED
  BY <1>3

(* An empty chain.                                                          *)
LEMMA NewIsChain == IsChain(NewNode)
<1>1. <<0>> \in Seq(Tree) /\ <<0>> # <<>> /\ 0 \in Tree
  BY DEF Tree
<1> QED
  BY <1>1, EmptyIsRegistry DEF IsChain, NewNode

(* A block that is in RAM.                                                  *)
LEMMA BlockShape ==
  ASSUME NEW n, IsChain(n), NEW k \in Nat, k # 0, block(n, k) # None
  PROVE  block(n, k) \in Hashes
<1> DEFINE i == 1 + (k - n.base) + (IF n.base = 0 THEN 0 ELSE 1)
<1>1. /\ i \in 1..Len(n.canonical) /\ BlockOf[n.canonical[i]].height = k
      /\ block(n, k) = n.canonical[i]
  BY DEF block
<1> HIDE DEF i
<1>2. n.canonical[i] \in Tree
  BY <1>1, ElementOfSeq DEF IsChain
<1>3. n.canonical[i] # 0
  BY <1>1, ChainConstants
<1> QED
  BY <1>1, <1>2, <1>3 DEF Tree

(* try_attach: the block becomes the tip, or another branch ends in it.     *)
LEMMA AttachShape ==
  ASSUME NEW n, IsChain(n), NEW h \in Hashes, try_attach(n, h) # None
  PROVE  IsChain(try_attach(n, h)) /\ Registered(try_attach(n, h).state, h)
<1> DEFINE k == BlockOf[h].height - 1
<1> DEFINE prefix == [j \in 1..k |-> block(n, j)]
<1> DEFINE fresh == [NewNode EXCEPT !.checkpoints = n.checkpoints, !.finalized = n.finalized]
<1> DEFINE m == push_all(fresh, prefix \o <<h>>)
<1> DEFINE r == try_attach(n, h)
<1>1. CASE BlockOf[h].prev = n.tip
  BY <1>1, PushShape DEF try_attach
<1>2. CASE BlockOf[h].prev # n.tip
  <2>1. r = reorg_to_height(n, k, <<h>>) /\ r # None
    BY <1>2 DEF try_attach
  <2>2. /\ ~\E j \in 1..k : prefix[j] = None
        /\ m # None /\ r = swap_with(n, m)
    <3> HIDE DEF k, r
    <3> QED
      BY <2>1 DEF reorg_to_height
  <2>3. k \in Nat
    <3>1. BlockOf[h].height \in Nat \ {0}
      BY HeightsAre
    <3> QED
      BY <3>1
  <2>4. prefix \in Seq(Hashes)
    <3>1. ASSUME NEW j \in 1..k PROVE block(n, j) \in Hashes
      BY <2>2, <2>3, BlockShape
    <3> HIDE DEF k
    <3> QED
      BY <2>3, <3>1, IsASeq
  <2>5. IsChain(fresh)
    <3>1. fresh = [NewNode EXCEPT !.checkpoints = n.checkpoints, !.finalized = n.finalized]
      OBVIOUS
    <3> HIDE DEF fresh
    <3>2. /\ DOMAIN fresh = DOMAIN NewNode /\ fresh.canonical = NewNode.canonical
          /\ fresh.tip = NewNode.tip /\ fresh.state = NewNode.state
          /\ fresh.checkpoints = n.checkpoints
      BY <3>1, NewIsChain DEF IsChain
    <3> QED
      BY <3>2, NewIsChain DEF IsChain
  <2> DEFINE hs == prefix \o <<h>>
  <2> HIDE DEF prefix, fresh
  <2>6. hs \in Seq(Hashes) /\ hs # <<>> /\ Last(hs) = h
    <3>1. hs = Append(prefix, h)
      BY <2>4
    <3> HIDE DEF hs
    <3>2. hs \in Seq(Hashes) /\ Len(hs) = Len(prefix) + 1 /\ hs[Len(prefix) + 1] = h
      BY <2>4, <3>1, AppendProperties
    <3>3. Len(prefix) \in Nat
      BY <2>4
    <3> QED
      BY <3>2, <3>3, EmptySeq DEF Last
  <2>7. IsChain(m) /\ Registered(m.state, h)
    <3> HIDE DEF hs
    <3> QED
      BY <2>2, <2>5, <2>6, PushAllShape DEF hs
  <2>8. r = [m EXCEPT !.included = n.included]
    BY <2>2 DEF swap_with
  <2> HIDE DEF m, r
  <2>9. /\ DOMAIN r = DOMAIN m /\ r.canonical = m.canonical /\ r.tip = m.tip
        /\ r.state = m.state /\ r.checkpoints = m.checkpoints
    BY <2>7, <2>8 DEF IsChain
  <2> QED
    BY <2>7, <2>9 DEF IsChain, r
<1> QED
  BY <1>1, <1>2

-----------------------------------------------------------------------------
(* Reading the tables page by page.                                         *)

(* A finite set of numbers has a largest one.                               *)
LEMMA LargestExists ==
  ASSUME NEW N, IsFiniteSet(N), N \subseteq Nat, N # {}
  PROVE  \E m \in N : \A y \in N : y <= m
<1> DEFINE S == {k \in Nat : \A M \in SUBSET N :
                   Cardinality(M) = k + 1 => \E m \in M : \A y \in M : y <= m}
<1>0. \A M \in SUBSET N : IsFiniteSet(M) /\ Cardinality(M) \in Nat
  BY FS_Subset, FS_CardinalityType
<1>1. 0 \in S
  <2> SUFFICES ASSUME NEW M \in SUBSET N, Cardinality(M) = 1
               PROVE  \E m \in M : \A y \in M : y <= m
    OBVIOUS
  <2>1. PICK x : M = {x}
    BY <1>0, FS_Singleton
  <2> QED
    BY <2>1
<1>2. ASSUME NEW k \in Nat, k \in S PROVE k + 1 \in S
  <2> SUFFICES ASSUME NEW M \in SUBSET N, Cardinality(M) = (k + 1) + 1
               PROVE  \E m \in M : \A y \in M : y <= m
    OBVIOUS
  <2>1. PICK x : x \in M
    BY FS_EmptySet
  <2>2. M \ {x} \in SUBSET N /\ Cardinality(M \ {x}) = k + 1
    BY <1>0, <2>1, FS_RemoveElement
  <2>3. PICK m \in M \ {x} : \A y \in M \ {x} : y <= m
    BY <1>2, <2>2
  <2>4. CASE x <= m
    BY <2>3, <2>4
  <2>5. CASE ~(x <= m)
    <3>1. \A y \in M : y <= x
      BY <2>1, <2>3, <2>5
    <3> QED
      BY <2>1, <3>1
  <2> QED
    BY <2>4, <2>5
<1>3. Nat \subseteq S
  <2> HIDE DEF S
  <2> QED
    BY <1>1, <1>2, SetInduction
<1>4. Cardinality(N) \in Nat /\ Cardinality(N) # 0
  BY <1>0, FS_EmptySet
<1>5. Cardinality(N) - 1 \in S
  BY <1>3, <1>4
<1> QED
  BY <1>4, <1>5

(* It can be listed in ascending order.                                     *)
LEMMA AscendingIs ==
  ASSUME NEW N, IsFiniteSet(N), N \subseteq Nat
  PROVE  Ascending(N) \in [1..Cardinality(N) -> N]
<1> DEFINE Asc(f) == \A i, j \in DOMAIN f : i < j => f[i] < f[j]
<1> DEFINE S == {k \in Nat : \A M \in SUBSET N :
                   Cardinality(M) = k => \E f \in [1..k -> M] : Asc(f)}
<1>0. \A M \in SUBSET N : IsFiniteSet(M) /\ Cardinality(M) \in Nat
  BY FS_Subset, FS_CardinalityType
<1>1. 0 \in S
  <2> SUFFICES ASSUME NEW M \in SUBSET N PROVE \E f \in [1..0 -> M] : Asc(f)
    OBVIOUS
  <2> DEFINE f == [i \in 1..0 |-> i]
  <2>1. f \in [1..0 -> M] /\ Asc(f)
    OBVIOUS
  <2> QED
    BY <2>1
<1>2. ASSUME NEW k \in Nat, k \in S PROVE k + 1 \in S
  <2> SUFFICES ASSUME NEW M \in SUBSET N, Cardinality(M) = k + 1
               PROVE  \E f \in [1..(k + 1) -> M] : Asc(f)
    OBVIOUS
  <2>1. PICK x \in M : \A y \in M : y <= x
    <3>1. M # {} /\ IsFiniteSet(M) /\ M \subseteq Nat
      BY <1>0, FS_EmptySet
    <3> QED
      BY <3>1, LargestExists
  <2>2. M \ {x} \in SUBSET N /\ Cardinality(M \ {x}) = k
    BY <1>0, <2>1, FS_RemoveElement
  <2>3. PICK g \in [1..k -> M \ {x}] : Asc(g)
    BY <1>2, <2>2
  <2> DEFINE f == [i \in 1..(k + 1) |-> IF i = k + 1 THEN x ELSE g[i]]
  <2>4. f \in [1..(k + 1) -> M]
    BY <2>1, <2>3
  <2>5. ASSUME NEW i \in 1..(k + 1), NEW j \in 1..(k + 1), i < j PROVE f[i] < f[j]
    <3>1. i \in 1..k /\ f[i] = g[i] /\ g[i] \in M \ {x}
      BY <2>3, <2>5
    <3>2. CASE j = k + 1
      <4>1. g[i] \in Nat /\ x \in Nat /\ g[i] # x /\ g[i] <= x /\ f[j] = x
        BY <2>1, <3>1, <3>2
      <4> HIDE DEF f
      <4> QED
        BY <3>1, <4>1
    <3>3. CASE j # k + 1
      <4>1. j \in 1..k /\ f[j] = g[j]
        BY <3>3
      <4> QED
        BY <2>3, <2>5, <3>1, <4>1
    <3> QED
      BY <3>2, <3>3
  <2>6. Asc(f)
    BY <2>4, <2>5
  <2> HIDE DEF f
  <2> QED
    BY <2>4, <2>6
<1>3. Nat \subseteq S
  <2> HIDE DEF S
  <2> QED
    BY <1>1, <1>2, SetInduction
<1>4. \E f \in [1..Cardinality(N) -> N] : Asc(f)
  BY <1>0, <1>3
<1> QED
  BY <1>4 DEF Ascending

(* A table of the store: ids are numbers.                                   *)
IsTable(table) == IsFiniteSet(DOMAIN table) /\ DOMAIN table \subseteq Nat

(* A page holds stored keys, and a full one ends above the cursor.          *)
LEMMA PageShape ==
  ASSUME NEW table, IsTable(table), NEW after \in Nat, NEW max \in Nat \ {0}
  PROVE  LET p == page(table, after, max)
         IN /\ p \in Seq(Stored(table))
            /\ ~(Len(p) < max) => Last(p) \in DOMAIN table /\ Last(p) > after
<1> DEFINE K == {k \in Stored(table) : k > after}
<1> DEFINE c == Cardinality(K)
<1> DEFINE keys == Ascending(K)
<1> DEFINE x == IF Len(keys) < max THEN Len(keys) ELSE max
<1> DEFINE p == page(table, after, max)
<1>1. IsFiniteSet(K) /\ K \subseteq Nat /\ K \subseteq Stored(table) /\ K \subseteq DOMAIN table
  <2>1. K \subseteq DOMAIN table
    BY DEF Stored
  <2> QED
    BY <2>1, FS_Subset DEF IsTable
<1>2. keys \in [1..c -> K] /\ c \in Nat
  BY <1>1, AscendingIs, FS_CardinalityType
<1>3. p = SubSeq(keys, 1, x)
  BY DEF page
<1>k. \A y \in K : y > after
  OBVIOUS
<1> HIDE DEF K, keys, p, c
<1>4. keys \in Seq(K) /\ Len(keys) = c /\ DOMAIN keys = 1..c
  BY <1>2
<1>5. x \in 0..c
  BY <1>2, <1>4
<1> HIDE DEF x
<1>6. p \in Seq(K) /\ Len(p) = x
  BY <1>2, <1>3, <1>4, <1>5, SubSeqProperties
<1>7. p \in Seq(Stored(table))
  <2>1. \A i \in 1..Len(p) : p[i] \in Stored(table)
    BY <1>1, <1>6, ElementOfSeq
  <2>2. Len(p) \in Nat /\ p = [i \in 1..Len(p) |-> p[i]]
    BY <1>6
  <2> QED
    BY <2>1, <2>2
<1>8. ASSUME ~(Len(p) < max) PROVE Last(p) \in K
  <2>1. Len(p) \in 1..Len(p)
    BY <1>5, <1>6, <1>8, <1>2
  <2> QED
    BY <1>6, <2>1 DEF Last
<1> QED
  BY <1>1, <1>7, <1>8, <1>k DEF p

(* One stop of the walk, from the walk of the stops above it.               *)
Stop(table, max, g, c) ==
  LET p == page(table, c, max) IN IF Len(p) < max THEN p ELSE p \o g[Last(p)]

(* The walk of all the tables: its result lists stored keys.                *)
LEMMA ReadPagesShape ==
  ASSUME NEW table, IsTable(table), NEW max \in Nat \ {0}
  PROVE  ReadPages(table, max) \in Seq(Stored(table))
<1> DEFINE D == {0} \cup DOMAIN table
<1> DEFINE IsWalk(g, E) == g = [c \in E |-> Stop(table, max, g, c)]
<1> DEFINE w == CHOOSE g : IsWalk(g, D)
<1>1. IsFiniteSet(D) /\ D \subseteq Nat /\ D # {} /\ 0 \in D
  <2>1. IsFiniteSet(DOMAIN table \cup {0})
    BY FS_AddElement DEF IsTable
  <2>2. D = DOMAIN table \cup {0}
    OBVIOUS
  <2> QED
    BY <2>1, <2>2 DEF IsTable
<1>2. PICK B \in D : \A y \in D : y <= B
  BY <1>1, LargestExists
<1>b. B \in Nat /\ \A y \in D : y \in Nat /\ y <= B
  BY <1>1, <1>2
<1>3. ReadPages(table, max) = w[0]
  BY DEF ReadPages, Stop
<1>p. ASSUME NEW c \in D
      PROVE  LET p == page(table, c, max)
             IN /\ p \in Seq(Stored(table))
                /\ ~(Len(p) < max) => Last(p) \in D /\ Last(p) > c
  BY <1>1, PageShape
<1> HIDE DEF D
<1> DEFINE Up(m) == {c \in D : c + m > B}
<1>u. ASSUME NEW c \in D
      PROVE  /\ ~(c + 0 > B) /\ c + (B + 1) > B
             /\ \A m \in Nat, e \in D : c + (m + 1) > B /\ e > c => e + m > B
  <2>1. c \in Nat /\ c <= B
    BY <1>b
  <2>2. ASSUME NEW m \in Nat, NEW e \in D, c + (m + 1) > B, e > c PROVE e + m > B
    <3>1. e \in Nat
      BY <1>b
    <3> QED
      BY <1>b, <2>1, <2>2, <3>1
  <2> QED
    BY <1>b, <2>1, <2>2
<1> DEFINE S == {m \in Nat : \E g : IsWalk(g, Up(m))}
<1>4. 0 \in S
  <2>1. Up(0) = {}
    BY <1>u
  <2> DEFINE g == [c \in {} |-> c]
  <2>2. IsWalk(g, {})
    OBVIOUS
  <2>3. IsWalk(g, Up(0))
    BY <2>1, <2>2
  <2> HIDE DEF g, Up
  <2> QED
    BY <2>3
<1>5. ASSUME NEW m \in Nat, m \in S PROVE m + 1 \in S
  <2>1. PICK g : IsWalk(g, Up(m))
    BY <1>5
  <2> DEFINE f == [c \in Up(m + 1) |-> Stop(table, max, g, c)]
  <2>2. ASSUME NEW c \in Up(m) PROVE g[c] = f[c]
    <3>1. c \in Up(m + 1)
      BY <1>b
    <3>2. g[c] = Stop(table, max, g, c)
      <4> HIDE DEF Up
      <4> QED
        BY <2>1
    <3> QED
      BY <3>1, <3>2
  <2>3. ASSUME NEW c \in Up(m + 1) PROVE f[c] = Stop(table, max, f, c)
    <3> DEFINE p == page(table, c, max)
    <3>1. f[c] = Stop(table, max, g, c)
      OBVIOUS
    <3>2. ~(Len(p) < max) => Last(p) \in Up(m)
      <4>1. c \in D /\ c + (m + 1) > B /\ c \in Nat
        BY <1>1
      <4>2. ~(Len(p) < max) => Last(p) \in D /\ Last(p) > c
        BY <1>p, <4>1
      <4> HIDE DEF p
      <4> QED
        BY <1>u, <4>1, <4>2
    <3>3. ~(Len(p) < max) => g[Last(p)] = f[Last(p)]
      BY <2>2, <3>2
    <3> HIDE DEF f
    <3> QED
      BY <3>1, <3>3 DEF Stop
  <2>4. IsWalk(f, Up(m + 1))
    <3> HIDE DEF Up
    <3> QED
      BY <2>3
  <2> HIDE DEF f
  <2> QED
    BY <2>4
<1>6. Nat \subseteq S
  <2> HIDE DEF S
  <2> QED
    BY <1>4, <1>5, SetInduction
<1>7. IsWalk(w, D)
  <2>1. Up(B + 1) = D /\ B + 1 \in Nat
    <3>1. B + 1 \in Nat
      BY <1>b
    <3>2. \A c \in D : c + (B + 1) > B
      BY <1>u, Zenon
    <3> QED
      BY <3>1, <3>2, Zenon
  <2>2. \E g : IsWalk(g, Up(B + 1))
    BY <1>6, <2>1
  <2> HIDE DEF Up
  <2> QED
    BY <2>1, <2>2
<1> HIDE DEF w, S
<1> DEFINE R == {m \in Nat : \A c \in Up(m) : w[c] \in Seq(Stored(table))}
<1>8. 0 \in R
  BY <1>b
<1>9. ASSUME NEW m \in Nat, m \in R PROVE m + 1 \in R
  <2> SUFFICES ASSUME NEW c \in Up(m + 1) PROVE w[c] \in Seq(Stored(table))
    OBVIOUS
  <2> DEFINE p == page(table, c, max)
  <2>1. c \in D /\ c + (m + 1) > B /\ c \in Nat
    BY <1>1
  <2>2. p \in Seq(Stored(table)) /\ (~(Len(p) < max) => Last(p) \in D /\ Last(p) > c)
    BY <1>p, <2>1
  <2>3. w[c] = IF Len(p) < max THEN p ELSE p \o w[Last(p)]
    BY <1>7, <2>1 DEF Stop
  <2> HIDE DEF p
  <2>4. ~(Len(p) < max) => Last(p) \in Up(m)
    BY <1>u, <2>1, <2>2
  <2>5. ~(Len(p) < max) => w[Last(p)] \in Seq(Stored(table))
    BY <1>9, <2>4
  <2> HIDE DEF Up
  <2> QED
    BY <2>2, <2>3, <2>5, ConcatProperties
<1>10. Nat \subseteq R
  <2> HIDE DEF R
  <2> QED
    BY <1>8, <1>9, SetInduction
<1>11. B + 1 \in R /\ 0 \in Up(B + 1)
  <2>1. B + 1 \in Nat /\ 0 \in D /\ 0 + (B + 1) > B
    BY <1>1, <1>b
  <2> QED
    BY <1>10, <2>1
<1> QED
  BY <1>3, <1>11

(* The ids that the walk returns.                                           *)
LEMMA ReadIds ==
  ASSUME NEW table, IsTable(table), NEW max \in Nat \ {0}
  PROVE  /\ Range(ReadPages(table, max)) \subseteq Stored(table)
         /\ IsFiniteSet(Range(ReadPages(table, max)))
<1>1. ReadPages(table, max) \in Seq(Stored(table))
  BY ReadPagesShape
<1> DEFINE r == ReadPages(table, max)
<1> HIDE DEF r
<1>2. Range(r) \subseteq Stored(table)
  BY <1>1 DEF Range, r
<1>3. Stored(table) \subseteq DOMAIN table
  BY DEF Stored
<1>4. IsFiniteSet(Range(r))
  <2> HIDE DEF Range
  <2> QED
    BY <1>2, <1>3, FS_Subset DEF IsTable
<1> QED
  BY <1>2, <1>4 DEF r

-----------------------------------------------------------------------------
(* The name index is no business of the log.                                *)
LEMMA NamesOK ==
  ASSUME NEW st, IsStore(st), NEW up, NEW gone
  PROVE  LET new == apply_name_deltas(st, up, gone)
         IN /\ IsStore(new) /\ Same(st, new) /\ new.tip = st.tip
<1> DEFINE new == apply_name_deltas(st, up, gone)
<1> DEFINE rev == st.reverse \cup up
<1> DEFINE g == gone \cap rev
<1> DEFINE a == (st.names \cup up) \ g
<1> DEFINE b == rev \ g
<1>1. new = [st EXCEPT !.names = a, !.reverse = b]
  BY DEF apply_name_deltas
<1> HIDE DEF new, a, b
<1>2. new = [byHeight |-> st.byHeight, byHash |-> st.byHash, domains |-> st.domains,
             tlds |-> st.tlds, domainCount |-> st.domainCount, tldCount |-> st.tldCount,
             names |-> a, reverse |-> b, tip |-> st.tip,
             snapshot |-> st.snapshot, marker |-> st.marker]
  BY <1>1 DEF IsStore
<1> QED
  BY <1>2 DEF IsStore, Same, new

(* append_deltas, on a store whose tip is below the block.                  *)
LEMMA AppendDeltasOK ==
  ASSUME NEW st, IsStore(st), NEW h \in Hashes, BlockOf[h].height = st.tip.height + 1,
         NEW delta, append_deltas(st, h, delta) # None
  PROVE  LET new == append_deltas(st, h, delta)
         IN IsStore(new) /\ (Same(st, new) \/ AppendsOne(st, new))
<1> DEFINE k == BlockOf[h].height
<1> DEFINE new == append_deltas(st, h, delta)
<1>0. k \in Heights
  BY HeightsAre
<1>1. CASE st.byHeight[k] # None
  <2>1. new = st
    BY <1>1 DEF append_deltas
  <2> QED
    BY <2>1 DEF Same
<1>2. CASE st.byHeight[k] = None
  <2> DEFINE domains == Overwrite(st.domains, delta.domains)
  <2> DEFINE tlds == Overwrite(st.tlds, delta.tlds)
  <2> DEFINE d == Without(domains, delta.removedDomains)
  <2> DEFINE t == Without(tlds, delta.removedTlds)
  <2> DEFINE dc == st.domainCount + Cardinality(DOMAIN delta.domains \ Stored(st.domains))
                     - Cardinality(Stored(domains) \cap delta.removedDomains)
  <2> DEFINE tc == st.tldCount + Cardinality(DOMAIN delta.tlds \ Stored(st.tlds))
                     - Cardinality(Stored(tlds) \cap delta.removedTlds)
  <2> DEFINE at == [st.byHeight EXCEPT ![k] = h]
  <2> DEFINE tip == [height |-> k, hash |-> h]
  <2> DEFINE hs == st.byHash \cup {h}
  <2> DEFINE mid == [st EXCEPT !.byHeight = at, !.byHash = hs, !.domains = d, !.tlds = t,
                               !.domainCount = dc, !.tldCount = tc, !.tip = tip]
  <2>1. new = apply_name_deltas(mid, delta.nameUpserts,
                                delta.removedDomains \cup delta.removedTlds)
    BY <1>2 DEF append_deltas
  <2>2. at \in [Heights -> Hashes \cup {None}] /\ tip.height = k
    BY <1>0 DEF IsStore
  <2> HIDE DEF d, t, dc, tc, at, tip, hs, k
  <2>a. mid = [st EXCEPT !.byHeight = at, !.byHash = hs, !.domains = d, !.tlds = t,
                         !.domainCount = dc, !.tldCount = tc, !.tip = tip]
    OBVIOUS
  <2> HIDE DEF mid, new
  <2>3. mid = [byHeight |-> at, byHash |-> hs, domains |-> d, tlds |-> t,
               domainCount |-> dc, tldCount |-> tc, names |-> st.names,
               reverse |-> st.reverse, tip |-> tip,
               snapshot |-> st.snapshot, marker |-> st.marker]
    BY <2>a DEF IsStore
  <2>4. IsStore(mid)
    BY <1>0, <2>2, <2>3 DEF IsStore
  <2>5. IsStore(new) /\ Same(mid, new)
    BY <2>1, <2>4, NamesOK
  <2>6. new.byHeight = [st.byHeight EXCEPT ![k] = h] /\ new.tip.height = k
    BY <2>2, <2>3, <2>5 DEF Same, at
  <2>7. k = st.tip.height + 1
    BY DEF k
  <2>8. AppendsOne(st, new)
    BY <1>0, <1>2, <2>6, <2>7 DEF AppendsOne
  <2> QED
    BY <2>5, <2>8 DEF new
<1> QED
  BY <1>1, <1>2

(* The snapshot of a boundary touches no block.                             *)
LEMMA SnapshotOK ==
  ASSUME NEW st, IsStore(st), NEW k
  PROVE  LET new == snapshot_core(st, k)
         IN IsStore(new) /\ new.byHeight = st.byHeight /\ new.tip = st.tip
<1> DEFINE s == [height |-> k, hash |-> st.byHeight[k], domains |-> st.domains,
                 tlds |-> st.tlds]
<1> DEFINE new == snapshot_core(st, k)
<1>1. new = [st EXCEPT !.snapshot = s]
  BY DEF snapshot_core
<1> HIDE DEF s, new
<1>2. new = [byHeight |-> st.byHeight, byHash |-> st.byHash, domains |-> st.domains,
             tlds |-> st.tlds, domainCount |-> st.domainCount, tldCount |-> st.tldCount,
             names |-> st.names, reverse |-> st.reverse, tip |-> st.tip,
             snapshot |-> s, marker |-> st.marker]
  BY <1>1 DEF IsStore
<1> QED
  BY <1>2 DEF IsStore, new

(* store_block_with_removals.                                               *)
LEMMA StoreBlockOK ==
  ASSUME NEW st, IsStore(st), NEW s, NEW h \in Hashes, NEW removed,
         store_block_with_removals(st, s, h, removed) # None
  PROVE  Allowed(st, store_block_with_removals(st, s, h, removed))
<1> DEFINE delta == block_delta(s, h, removed)
<1> DEFINE new == store_block_with_removals(st, s, h, removed)
<1> DEFINE parent == BlockOf[h].height - 1
<1>1. new = append_block_with_state(st, h, delta)
  BY DEF store_block_with_removals
<1> HIDE DEF delta
<1>2. CASE st.tip = [height |-> BlockOf[h].height, hash |-> h]
  <2>1. new = st
    BY <1>1, <1>2 DEF append_block_with_state
  <2> QED
    BY <2>1 DEF Allowed, Same
<1>3. CASE st.tip # [height |-> BlockOf[h].height, hash |-> h]
  <2>1. BlockOf[h].height = st.tip.height + 1 /\ new = append_core(st, h, delta)
    BY <1>1, <1>3 DEF append_block_with_state
  <2>2. CASE new = append_deltas(st, h, delta)
    BY <2>1, <2>2, AppendDeltasOK DEF Allowed
  <2>3. CASE new = append_deltas(snapshot_core(st, parent), h, delta)
    <3> DEFINE mid == snapshot_core(st, parent)
    <3>1. IsStore(mid) /\ mid.byHeight = st.byHeight /\ mid.tip = st.tip
      BY SnapshotOK
    <3> HIDE DEF mid
    <3>2. IsStore(new) /\ (Same(mid, new) \/ AppendsOne(mid, new))
      BY <2>1, <2>3, <3>1, AppendDeltasOK DEF mid
    <3> HIDE DEF new
    <3>3. Same(st, new) \/ AppendsOne(st, new)
      BY <3>1, <3>2 DEF Same, AppendsOne
    <3> QED
      BY <3>2, <3>3 DEF Allowed, new
  <2> QED
    BY <2>1, <2>2, <2>3 DEF append_core
<1> QED
  BY <1>2, <1>3

-----------------------------------------------------------------------------
(* The repair tools rewrite entries and names, never a block.               *)

(* A store that differs only in its registry and its index.                 *)
Repaired(st, new) == IsStore(new) /\ Same(st, new)

(* put_domain_state, with and without its name.                             *)
LEMMA PutDomainOK ==
  ASSUME NEW st, IsStore(st), NEW i, NEW v
  PROVE  /\ Repaired(st, put_domain_state(st, i, v))
         /\ Repaired(st, put_domain_state_with_name(st, i, v))
<1> DEFINE new == put_domain_state(st, i, v)
<1> DEFINE a == [st.domains EXCEPT ![i] = v]
<1> DEFINE b == IF st.domains[i] = None THEN st.domainCount + 1 ELSE st.domainCount
<1>1. new = [st EXCEPT !.domains = a, !.domainCount = b]
  BY DEF put_domain_state
<1> HIDE DEF new, a, b
<1>2. new = [byHeight |-> st.byHeight, byHash |-> st.byHash, domains |-> a,
             tlds |-> st.tlds, domainCount |-> b, tldCount |-> st.tldCount,
             names |-> st.names, reverse |-> st.reverse, tip |-> st.tip,
             snapshot |-> st.snapshot, marker |-> st.marker]
  BY <1>1 DEF IsStore
<1>3. Repaired(st, new)
  BY <1>2 DEF IsStore, Same, Repaired
<1>4. Repaired(new, apply_name_deltas(new, {i}, {}))
  BY <1>3, NamesOK DEF Repaired
<1>5. Repaired(st, apply_name_deltas(new, {i}, {}))
  BY <1>3, <1>4 DEF Repaired, Same
<1> QED
  BY <1>3, <1>5 DEF new, put_domain_state_with_name

(* put_tld_state, with and without its name.                                *)
LEMMA PutTldOK ==
  ASSUME NEW st, IsStore(st), NEW i, NEW v
  PROVE  /\ Repaired(st, put_tld_state(st, i, v))
         /\ Repaired(st, put_tld_state_with_name(st, i, v))
<1> DEFINE new == put_tld_state(st, i, v)
<1> DEFINE a == [st.tlds EXCEPT ![i] = v]
<1> DEFINE b == IF st.tlds[i] = None THEN st.tldCount + 1 ELSE st.tldCount
<1>1. new = [st EXCEPT !.tlds = a, !.tldCount = b]
  BY DEF put_tld_state
<1> HIDE DEF new, a, b
<1>2. new = [byHeight |-> st.byHeight, byHash |-> st.byHash, domains |-> st.domains,
             tlds |-> a, domainCount |-> st.domainCount, tldCount |-> b,
             names |-> st.names, reverse |-> st.reverse, tip |-> st.tip,
             snapshot |-> st.snapshot, marker |-> st.marker]
  BY <1>1 DEF IsStore
<1>3. Repaired(st, new)
  BY <1>2 DEF IsStore, Same, Repaired
<1>4. Repaired(new, apply_name_deltas(new, {i}, {}))
  BY <1>3, NamesOK DEF Repaired
<1>5. Repaired(st, apply_name_deltas(new, {i}, {}))
  BY <1>3, <1>4 DEF Repaired, Same
<1> QED
  BY <1>3, <1>5 DEF new, put_tld_state_with_name

(* remove_domain_state.                                                     *)
LEMMA RemoveDomainOK ==
  ASSUME NEW st, IsStore(st), NEW i
  PROVE  Repaired(st, remove_domain_state(st, i))
<1> DEFINE a == [st.domains EXCEPT ![i] = None]
<1> DEFINE b == IF st.domains[i] = None THEN st.domainCount ELSE st.domainCount - 1
<1> DEFINE mid == [st EXCEPT !.domains = a, !.domainCount = b]
<1>0. remove_domain_state(st, i) = apply_name_deltas(mid, {}, {i})
  BY DEF remove_domain_state, remove_name_entry
<1>1. mid = [st EXCEPT !.domains = a, !.domainCount = b]
  OBVIOUS
<1> HIDE DEF mid, a, b
<1>2. mid = [byHeight |-> st.byHeight, byHash |-> st.byHash, domains |-> a,
             tlds |-> st.tlds, domainCount |-> b, tldCount |-> st.tldCount,
             names |-> st.names, reverse |-> st.reverse, tip |-> st.tip,
             snapshot |-> st.snapshot, marker |-> st.marker]
  BY <1>1 DEF IsStore
<1>3. Repaired(st, mid)
  BY <1>2 DEF IsStore, Same, Repaired
<1>4. Repaired(mid, apply_name_deltas(mid, {}, {i}))
  BY <1>3, NamesOK DEF Repaired
<1> QED
  BY <1>0, <1>3, <1>4 DEF Repaired, Same

(* rebuild_name_index.                                                      *)
LEMMA RebuildOK ==
  ASSUME NEW st, IsStore(st), rebuild_name_index(st) # None
  PROVE  Repaired(st, rebuild_name_index(st))
<1> DEFINE mid == [st EXCEPT !.names = {}, !.reverse = {}]
<1> DEFINE up == (Stored(st.domains) \cup Stored(st.tlds))
                   \cap UNION {Binds(st.byHeight[k]) : k \in 1..st.tip.height}
<1>0. rebuild_name_index(st) = apply_name_deltas(mid, up, {})
  BY DEF rebuild_name_index
<1>1. mid = [st EXCEPT !.names = {}, !.reverse = {}]
  OBVIOUS
<1> HIDE DEF mid, up
<1>2. mid = [byHeight |-> st.byHeight, byHash |-> st.byHash, domains |-> st.domains,
             tlds |-> st.tlds, domainCount |-> st.domainCount, tldCount |-> st.tldCount,
             names |-> {}, reverse |-> {}, tip |-> st.tip,
             snapshot |-> st.snapshot, marker |-> st.marker]
  BY <1>1 DEF IsStore
<1>3. Repaired(st, mid)
  BY <1>2 DEF IsStore, Same, Repaired
<1>4. Repaired(mid, apply_name_deltas(mid, up, {}))
  BY <1>3, NamesOK DEF Repaired
<1> QED
  BY <1>0, <1>3, <1>4 DEF Repaired, Same

(* An import writes the tip of a checkpoint into an empty store.            *)
LEMMA ImportOK ==
  ASSUME NEW st, IsStore(st), NEW h \in Hashes, NEW m, NEW pages,
         import_verified_snapshot(st, CheckpointOf(h), m, pages) # None
  PROVE  Allowed(st, import_verified_snapshot(st, CheckpointOf(h), m, pages))
<1> DEFINE new == import_verified_snapshot(st, CheckpointOf(h), m, pages)
<1> DEFINE d == Overwrite(st.domains, ValuesOf(pages, "DOM"))
<1> DEFINE t == Overwrite(st.tlds, ValuesOf(pages, "TLD"))
<1> DEFINE dc == m.domainCount
<1> DEFINE tc == m.tldCount
<1> DEFINE s == [height |-> m.height, hash |-> m.hash, domains |-> d, tlds |-> t]
<1> DEFINE tip == [height |-> m.height, hash |-> m.hash]
<1>1. ImportOk(st, CheckpointOf(h), m, pages) /\ new = write_verified_snapshot(st, m, d, t)
  BY DEF import_verified_snapshot
<1>2. st.tip.height = 0 /\ m.height = BlockOf[h].height /\ m.height # 0
  BY <1>1 DEF ImportOk, CheckpointOf
<1>a. BlockOf[h].height \in Heights
  BY HeightsAre
<1>b. m.height \in Heights /\ m.height \in Nat
  BY <1>2, <1>a, HeightsAre
<1>c. m.height > 0
  BY <1>2, <1>b
<1>3. tip.height \in Heights /\ tip.height > 0
  BY <1>b, <1>c
<1> HIDE DEF d, t
<1>4. new = [st EXCEPT !.domains = d, !.tlds = t, !.domainCount = dc, !.tldCount = tc,
                       !.snapshot = s, !.tip = tip, !.marker = tip]
  BY <1>1 DEF write_verified_snapshot
<1> HIDE DEF new, dc, tc, s, tip
<1>5. new = [byHeight |-> st.byHeight, byHash |-> st.byHash, domains |-> d,
             tlds |-> t, domainCount |-> dc, tldCount |-> tc,
             names |-> st.names, reverse |-> st.reverse, tip |-> tip,
             snapshot |-> s, marker |-> tip]
  BY <1>4 DEF IsStore
<1>6. IsStore(new)
  BY <1>3, <1>5 DEF IsStore
<1>7. Jumps(st, new)
  BY <1>2, <1>3, <1>5 DEF Jumps
<1> QED
  BY <1>6, <1>7 DEF Allowed, new

(* The anchor block of an import fills the hole under the tip, once.        *)
LEMMA AnchorOK ==
  ASSUME NEW st, IsStore(st), NEW h \in Hashes, append_bootstrap_anchor(st, h) # None
  PROVE  Allowed(st, append_bootstrap_anchor(st, h))
<1> DEFINE new == append_bootstrap_anchor(st, h)
<1> DEFINE k == BlockOf[h].height
<1> DEFINE at == [st.byHeight EXCEPT ![k] = h]
<1> DEFINE hs == st.byHash \cup {h}
<1>1. k \in Heights
  BY HeightsAre
<1>2. st.marker = [height |-> k, hash |-> h] /\ st.tip.height = st.marker.height
  BY DEF append_bootstrap_anchor
<1>3. st.tip.height = k
  BY <1>2
<1>4. CASE st.byHeight[k] # None
  <2>1. new = st
    BY <1>4 DEF append_bootstrap_anchor
  <2> QED
    BY <2>1 DEF Allowed, Same
<1>5. CASE st.byHeight[k] = None
  <2>1. new = [st EXCEPT !.byHeight = at, !.byHash = hs]
    BY <1>5 DEF append_bootstrap_anchor
  <2>2. at \in [Heights -> Hashes \cup {None}]
    BY <1>1 DEF IsStore
  <2> HIDE DEF new, at, hs
  <2>3. new = [byHeight |-> at, byHash |-> hs, domains |-> st.domains,
               tlds |-> st.tlds, domainCount |-> st.domainCount, tldCount |-> st.tldCount,
               names |-> st.names, reverse |-> st.reverse, tip |-> st.tip,
               snapshot |-> st.snapshot, marker |-> st.marker]
    BY <2>1 DEF IsStore
  <2>4. IsStore(new)
    BY <2>2, <2>3 DEF IsStore
  <2>5. new.byHeight = [st.byHeight EXCEPT ![k] = h] /\ new.tip.height = st.tip.height
    BY <2>3 DEF at
  <2> HIDE DEF k
  <2>6. Anchors(st, new)
    BY <1>1, <1>3, <1>5, <2>5 DEF Anchors
  <2> QED
    BY <2>4, <2>6 DEF Allowed, new
<1> QED
  BY <1>4, <1>5
-----------------------------------------------------------------------------
(* From the operations to the steps.                                        *)

(* A step writes the store of one node, by an operation that is allowed, or *)
(* no store at all.                                                         *)
Writes(n) == \E new : Allowed(store[n], new) /\ store' = [store EXCEPT ![n] = new]

(* An operation may do nothing,                                             *)
LEMMA SameIsAllowed == \A st : IsStore(st) => Allowed(st, st)
  BY DEF Allowed, Same

(* and it may repair.                                                       *)
LEMMA RepairedIsAllowed == \A st, new : Repaired(st, new) => Allowed(st, new)
  BY DEF Allowed, Repaired

(* Write with an allowed value.                                             *)
LEMMA WriteWrites ==
  ASSUME NEW n \in Nodes, NEW st, Write(n, st), st # None => Allowed(store[n], st)
  PROVE  Writes(n)
  BY DEF Write, Writes

(* Every step, by cases on its action.                                      *)
LEMMA StepWrites ==
  ASSUME IInv, Next
  PROVE  UNCHANGED store \/ \E n \in Nodes : Writes(n)
<1> PICK n \in Nodes :
      \/ \E h \in Hashes : AcceptBlock(n, h) \/ FetchAnchor(n, h)
      \/ Crash(n) \/ Restart(n) \/ RebuildNames(n)
      \/ \E d \in Domains : RepairDomain(n, d)
      \/ \E t \in Tlds : RepairTld(n, t)
      \/ \E from \in Nodes, h \in Hashes : Import(n, from, h)
  BY DEF Next
<1> DEFINE st == store[n]
<1>0. IsStore(st)
  BY DEF IInv
<1> SUFFICES ASSUME ~UNCHANGED store PROVE Writes(n)
  OBVIOUS
<1> HIDE DEF st
<1>1. ASSUME NEW h \in Hashes, AcceptBlock(n, h) PROVE Writes(n)
  <2>1. PICK c : store' = [store EXCEPT ![n] =
                   OrElse(store_block_with_removals(@, c.state, h, Removed(chain[n], h)), @)]
    BY <1>1 DEF AcceptBlock
  <2> DEFINE res == store_block_with_removals(st, c.state, h, Removed(chain[n], h))
  <2>2. store' = [store EXCEPT ![n] = OrElse(res, st)]
    BY <2>1 DEF st
  <2>3. res # None => Allowed(st, res)
    BY <1>0, StoreBlockOK
  <2> HIDE DEF res
  <2>4. Allowed(st, OrElse(res, st))
    BY <1>0, <2>3, SameIsAllowed DEF OrElse
  <2> QED
    BY <2>2, <2>4 DEF Writes, st
<1>2. ASSUME NEW h \in Hashes, FetchAnchor(n, h) PROVE Writes(n)
  <2>1. Write(n, append_bootstrap_anchor(st, h))
    BY <1>2 DEF FetchAnchor, st
  <2>2. append_bootstrap_anchor(st, h) # None => Allowed(st, append_bootstrap_anchor(st, h))
    BY <1>0, AnchorOK
  <2> QED
    BY <2>1, <2>2, WriteWrites DEF st
<1>3. CASE Crash(n) \/ Restart(n)
  BY <1>3 DEF Crash, Restart
<1>4. CASE RebuildNames(n)
  <2>1. Write(n, rebuild_name_index(st))
    BY <1>4 DEF RebuildNames, st
  <2>2. rebuild_name_index(st) # None => Allowed(st, rebuild_name_index(st))
    BY <1>0, RebuildOK, RepairedIsAllowed
  <2> QED
    BY <2>1, <2>2, WriteWrites DEF st
<1>5. ASSUME NEW d \in Domains, RepairDomain(n, d) PROVE Writes(n)
  <2>1. PICK c : \/ Write(n, remove_domain_state(st, d))
                 \/ Write(n, put_domain_state(st, d, c.state.domains[d]))
                 \/ Write(n, put_domain_state_with_name(st, d, c.state.domains[d]))
    BY <1>5 DEF RepairDomain, st
  <2> DEFINE v == c.state.domains[d]
  <2>2. Allowed(st, remove_domain_state(st, d))
    BY <1>0, RemoveDomainOK, RepairedIsAllowed
  <2>3. /\ Allowed(st, put_domain_state(st, d, v))
        /\ Allowed(st, put_domain_state_with_name(st, d, v))
    BY <1>0, PutDomainOK, RepairedIsAllowed
  <2> QED
    BY <2>1, <2>2, <2>3, WriteWrites DEF st
<1>6. ASSUME NEW t \in Tlds, RepairTld(n, t) PROVE Writes(n)
  <2>1. PICK c : \/ Write(n, put_tld_state(st, t, c.state.tlds[t]))
                 \/ Write(n, put_tld_state_with_name(st, t, c.state.tlds[t]))
    BY <1>6 DEF RepairTld, st
  <2> DEFINE v == c.state.tlds[t]
  <2>2. /\ Allowed(st, put_tld_state(st, t, v))
        /\ Allowed(st, put_tld_state_with_name(st, t, v))
    BY <1>0, PutTldOK, RepairedIsAllowed
  <2> QED
    BY <2>1, <2>2, WriteWrites DEF st
<1>7. ASSUME NEW from \in Nodes, NEW h \in Hashes, Import(n, from, h) PROVE Writes(n)
  <2>1. PICK arrival : Write(n, import_verified_snapshot(st, CheckpointOf(h),
                                  arrival.manifest, arrival.pages))
    BY <1>7 DEF Import, st
  <2> DEFINE new == import_verified_snapshot(st, CheckpointOf(h),
                                             arrival.manifest, arrival.pages)
  <2>2. new # None => Allowed(st, new)
    BY <1>0, ImportOK
  <2> QED
    BY <2>1, <2>2, WriteWrites DEF st
<1> QED
  BY <1>1, <1>2, <1>3, <1>4, <1>5, <1>6, <1>7

(* The tables keep their shape.                                             *)
LEMMA InitInv == Init => IInv
<1> SUFFICES ASSUME Init PROVE IInv
  OBVIOUS
<1>1. IsStore(NewStore)
  BY DEF IsStore, NewStore
<1> QED
  BY <1>1 DEF Init, IInv

(* Every step keeps the shape of the stores.                                *)
LEMMA NextInv == IInv /\ [Next]_vars => IInv'
<1> SUFFICES ASSUME IInv, [Next]_vars PROVE IInv'
  OBVIOUS
<1>1. CASE UNCHANGED store
  BY <1>1 DEF IInv
<1>2. ASSUME NEW n \in Nodes, Writes(n) PROVE IInv'
  <2>1. PICK new : IsStore(new) /\ store' = [store EXCEPT ![n] = new]
    BY <1>2 DEF Writes, Allowed
  <2> QED
    BY <2>1 DEF IInv
<1> QED
  BY <1>1, <1>2, StepWrites DEF vars

(* A write of one store is a step of the log, or a stutter.                 *)
LEMMA WriteRefines ==
  ASSUME IInv, NEW w \in Nodes, Writes(w)
  PROVE  [Durable!LogNext]_<<[n \in Nodes |-> store[n].tip.height],
                             [n \in Nodes |-> store[n].byHeight]>>
<1> DEFINE H == [n \in Nodes |-> store[n].tip.height]
<1> DEFINE A == [n \in Nodes |-> store[n].byHeight]
<1> DEFINE st == store[w]
<1> PICK new : Allowed(st, new) /\ store' = [store EXCEPT ![w] = new]
  BY DEF Writes
<1>1. /\ H' = [H EXCEPT ![w] = new.tip.height]
      /\ A' = [A EXCEPT ![w] = new.byHeight]
  BY DEF IInv
<1>2. H[w] = st.tip.height /\ A[w] = st.byHeight
  OBVIOUS
<1>3. DOMAIN H = Nodes /\ DOMAIN A = Nodes
  OBVIOUS
<1>4. CASE Same(st, new)
  <2>1. H' = H /\ A' = A
    BY <1>1, <1>2, <1>4 DEF Same
  <2> QED
    BY <2>1
<1>5. CASE AppendsOne(st, new)
  <2>1. /\ H[w] + 1 \in Heights
        /\ H' = [H EXCEPT ![w] = @ + 1]
        /\ \E b \in Hashes : /\ A[w][H[w] + 1] = None
                             /\ A' = [A EXCEPT ![w] = [@ EXCEPT ![H[w] + 1] = b]]
    BY <1>1, <1>2, <1>5 DEF AppendsOne
  <2> QED
    BY <2>1 DEF Durable!LogNext, Durable!Append1
<1>6. CASE Jumps(st, new)
  <2>1. /\ H[w] = 0
        /\ \E k \in Heights : k > 0 /\ H' = [H EXCEPT ![w] = k]
        /\ A' = A
    BY <1>1, <1>2, <1>3, <1>6 DEF Jumps
  <2> QED
    BY <2>1 DEF Durable!LogNext, Durable!Jump
<1>7. CASE Anchors(st, new)
  <2>1. /\ H[w] \in Heights
        /\ A[w][H[w]] = None
        /\ \E b \in Hashes : A' = [A EXCEPT ![w] = [@ EXCEPT ![H[w]] = b]]
        /\ H' = H
    BY <1>1, <1>2, <1>3, <1>7 DEF Anchors
  <2> QED
    BY <2>1 DEF Durable!LogNext, Durable!Anchor
<1> QED
  BY <1>4, <1>5, <1>6, <1>7 DEF Allowed

(* No append, crash, restart, repair or import, in any order and on any     *)
(* number of nodes, replaces or loses a stored block; a stored tip moves up *)
(* one block at a time, but for the import into an empty store              *)
(* (redb.rs append_deltas, verified_snapshot.rs append_bootstrap_anchor).   *)
THEOREM StoreIsDurable == Spec => DurableSpec
<1>1. Init => Durable!LogInit
  <2>1. ASSUME Init, NEW i \in Nodes
        PROVE  store[i].tip.height = 0 /\ store[i].byHeight = [k \in Heights |-> None]
    BY <2>1 DEF Init, NewStore
  <2> QED
    BY <2>1 DEF Durable!LogInit
<1>2. IInv /\ [Next]_vars =>
        [Durable!LogNext]_<<[n \in Nodes |-> store[n].tip.height],
                            [n \in Nodes |-> store[n].byHeight]>>
  <2> SUFFICES ASSUME IInv, [Next]_vars
               PROVE  [Durable!LogNext]_<<[n \in Nodes |-> store[n].tip.height],
                                          [n \in Nodes |-> store[n].byHeight]>>
    OBVIOUS
  <2>1. CASE UNCHANGED store
    BY <2>1
  <2>2. CASE ~UNCHANGED store
    <3>1. PICK w \in Nodes : Writes(w)
      BY <2>2, StepWrites DEF vars
    <3> QED
      BY <3>1, WriteRefines
  <2> QED
    BY <2>1, <2>2
<1>3. Spec => []IInv
  BY InitInv, NextInv, PTL DEF Spec
<1>4. []IInv /\ [][Next]_vars =>
        [][Durable!LogNext]_<<[n \in Nodes |-> store[n].tip.height],
                              [n \in Nodes |-> store[n].byHeight]>>
  BY <1>2, PTL
<1>5. Spec => Init /\ [][Next]_vars
  BY DEF Spec
<1>6. Durable!LogInit /\ [][Durable!LogNext]_<<[n \in Nodes |-> store[n].tip.height],
                              [n \in Nodes |-> store[n].byHeight]>> => DurableSpec
  BY PTL DEF DurableSpec, Durable!LogSpec
<1> QED
  BY <1>1, <1>3, <1>4, <1>5, <1>6, PTL

-----------------------------------------------------------------------------
(* The tables, what counts them and what indexes them.                      *)

DomainTable == [Domains -> DomainState \cup {None}]
TldTable    == [Tlds -> TldState \cup {None}]

IsSnapshot(s) ==
  s.height \in Heights /\ s.hash \in Hashes /\ s.domains \in DomainTable /\ s.tlds \in TldTable

Typed(st) ==
  /\ st.byHash \subseteq Hashes
  /\ st.domains \in DomainTable /\ st.tlds \in TldTable
  /\ st.tip.hash \in Hashes \cup {0} /\ (st.tip.height # 0 => st.tip.hash \in Hashes)
  /\ st.snapshot # None => IsSnapshot(st.snapshot)

(* Both rows of a name are written and erased together; a store without a   *)
(* tip is empty, which an import relies on.                                 *)
Booked(st) ==
  /\ st.domainCount = Cardinality(Stored(st.domains))
  /\ st.tldCount = Cardinality(Stored(st.tlds))
  /\ st.names = st.reverse
  /\ st.names \subseteq Stored(st.domains) \cup Stored(st.tlds)
  /\ st.tip.height = 0 => Stored(st.domains) = {} /\ Stored(st.tlds) = {}

Good(st) == IsStore(st) /\ Typed(st) /\ Booked(st)

(* The two tables of a good store are finite.                               *)
LEMMA TablesFinite ==
  /\ \A t \in DomainTable : IsTable(t) /\ IsFiniteSet(Stored(t)) /\ Stored(t) \subseteq Domains
  /\ \A t \in TldTable : IsTable(t) /\ IsFiniteSet(Stored(t)) /\ Stored(t) \subseteq Tlds
<1>1. IsFiniteSet(Domains) /\ Domains \subseteq Nat /\ IsFiniteSet(Tlds) /\ Tlds \subseteq Nat
  BY RegistryConstants, StoreConstants DEF Ids
<1>2. \A t : Stored(t) \subseteq DOMAIN t
  BY DEF Stored
<1>3. \A t : IsFiniteSet(DOMAIN t) => IsFiniteSet(Stored(t))
  BY <1>2, FS_Subset
<1>4. \A t \in DomainTable : DOMAIN t = Domains
  BY DEF DomainTable
<1>5. \A t \in TldTable : DOMAIN t = Tlds
  BY DEF TldTable
<1> QED
  BY <1>1, <1>2, <1>3, <1>4, <1>5 DEF IsTable

(* One entry written or erased.                                             *)
LEMMA StoredPut ==
  ASSUME NEW t, NEW k \in DOMAIN t, NEW v
  PROVE  Stored([t EXCEPT ![k] = v]) = IF v = None THEN Stored(t) \ {k} ELSE Stored(t) \cup {k}
  BY DEF Stored

(* A delta on a table.                                                      *)
LEMMA StoredDelta ==
  ASSUME NEW t, NEW u, DOMAIN u \subseteq DOMAIN t, \A k \in DOMAIN u : u[k] # None, NEW R
  PROVE  /\ Stored(Overwrite(t, u)) = Stored(t) \cup DOMAIN u
         /\ Stored(Without(Overwrite(t, u), R)) = (Stored(t) \cup DOMAIN u) \ R
  BY DEF Stored, Overwrite, Without

(* The arithmetic of append_deltas.                                         *)
LEMMA DeltaCount ==
  ASSUME NEW A, NEW added, NEW gone, NEW new, IsFiniteSet(A), IsFiniteSet(added),
         A \cap added = {}, gone \subseteq A \cup added, new = (A \cup added) \ gone
  PROVE  Cardinality(new) = Cardinality(A) + Cardinality(added) - Cardinality(gone)
<1> DEFINE U == A \cup added
<1>1. IsFiniteSet(U)
  BY FS_Union
<1>2. Cardinality(U) = Cardinality(A) + Cardinality(added) - Cardinality(A \cap added)
  BY FS_Union
<1>3. Cardinality({}) = 0
  BY FS_EmptySet
<1>4. U \cap gone = gone /\ new = U \ gone
  OBVIOUS
<1>5. Cardinality(new) = Cardinality(U) - Cardinality(gone)
  <2>1. Cardinality(U \ gone) = Cardinality(U) - Cardinality(U \cap gone)
    BY <1>1, FS_Difference
  <2> QED
    BY <1>4, <2>1, Zenon
<1>6. IsFiniteSet(gone)
  BY <1>1, FS_Subset
<1>7. Cardinality(A) \in Nat /\ Cardinality(added) \in Nat /\ Cardinality(gone) \in Nat
  BY <1>6, FS_CardinalityType
<1>8. Cardinality(U) = Cardinality(A) + Cardinality(added)
  <2>1. Cardinality(U) = Cardinality(A) + Cardinality(added) - 0
    BY <1>2, <1>3, Zenon
  <2> QED
    BY <1>7, <2>1
<1> QED
  BY <1>5, <1>7, <1>8

(* Two stores that differ in the name index alone.                          *)
ButNames(st, new) ==
  /\ new.byHeight = st.byHeight /\ new.byHash = st.byHash
  /\ new.domains = st.domains /\ new.tlds = st.tlds
  /\ new.domainCount = st.domainCount /\ new.tldCount = st.tldCount
  /\ new.tip = st.tip /\ new.snapshot = st.snapshot /\ new.marker = st.marker

(* An index with both rows of the names in up and of none in gone.          *)
Rebound(st, new, up, gone) ==
  /\ \A i : i \in new.names <=> (i \in st.names \/ i \in up) /\ i \notin gone
  /\ new.reverse = new.names

(* The index after its deltas: a removal finds every name.                  *)
LEMMA NamesAre ==
  ASSUME NEW st, IsStore(st), st.names = st.reverse, NEW up, NEW gone, NEW new,
         new = apply_name_deltas(st, up, gone)
  PROVE  IsStore(new) /\ ButNames(st, new) /\ Rebound(st, new, up, gone)
<1> DEFINE a == (st.names \cup up) \ (gone \cap (st.reverse \cup up))
<1> DEFINE b == (st.reverse \cup up) \ (gone \cap (st.reverse \cup up))
<1>1. new = [st EXCEPT !.names = a, !.reverse = b]
  BY DEF apply_name_deltas
<1>2. /\ \A i : i \in a <=> (i \in st.names \/ i \in up) /\ i \notin gone
      /\ b = a
  OBVIOUS
<1> HIDE DEF a, b
<1>3. ButNames(st, new) /\ new.names = a /\ new.reverse = b
  BY <1>1 DEF IsStore, ButNames
<1>4. IsStore(new)
  BY NamesOK
<1> QED
  BY <1>2, <1>3, <1>4 DEF Rebound

(* The delta of a block: upserts of live entries, and a name that the block *)
(* binds is in it or is removed with it.                                    *)
LEMMA DeltaShape ==
  ASSUME NEW s, IsRegistry(s), NEW h \in Hashes, Registered(s, h), NEW removed
  PROVE  LET delta == block_delta(s, h, removed)
         IN /\ DOMAIN delta.domains \subseteq Domains
            /\ \A d \in DOMAIN delta.domains : delta.domains[d] \in DomainState
            /\ DOMAIN delta.tlds \subseteq Tlds
            /\ \A t \in DOMAIN delta.tlds : delta.tlds[t] \in TldState
            /\ delta.nameUpserts \subseteq DOMAIN delta.domains \cup DOMAIN delta.tlds
                                             \cup delta.removedTlds
<1> DEFINE delta == block_delta(s, h, removed)
<1> DEFINE txs == BlockOf[h].txs
<1> DEFINE td == touched_domains(h)
<1> DEFINE tt == touched_tlds(h)
<1>1. /\ delta.domains = [d \in td \cap Stored(s.domains) |-> s.domains[d]]
      /\ delta.tlds = [t \in tt \cap Stored(s.tlds) |-> s.tlds[t]]
      /\ delta.removedTlds = tt \ Stored(s.tlds)
      /\ delta.nameUpserts = Binds(h)
  BY DEF block_delta
<1>2. \A d \in Stored(s.domains) : d \in Domains /\ s.domains[d] \in DomainState
  BY DEF Stored, IsRegistry
<1>3. \A t \in Stored(s.tlds) : t \in Tlds /\ s.tlds[t] \in TldState
  BY DEF Stored, IsRegistry
<1>4. \A i \in DOMAIN txs : IsTx(txs[i])
  BY StoreConstants DEF Range
<1>5. ASSUME NEW i \in DOMAIN txs, txs[i].op \in {"RegisterDomain", "AssignDomain"}
      PROVE  txs[i].domain \in td \cap Stored(s.domains)
  <2>1. txs[i].op \in DomainOps
    BY <1>5 DEF DomainOps
  <2>2. txs[i].domain \in Domains
    BY <1>4, <2>1 DEF IsTx
  <2>3. s.domains[txs[i].domain] # None
    BY <1>5 DEF Registered, Registers
  <2>4. txs[i].domain \in td
    BY <2>1 DEF touched_domains, Touched
  <2> QED
    BY <2>2, <2>3, <2>4 DEF Stored, IsRegistry
<1>6. ASSUME NEW i \in DOMAIN txs, txs[i].op = "RegisterTld" PROVE txs[i].tld \in tt
  <2>1. txs[i].op \in TldOps
    BY <1>6 DEF TldOps
  <2> QED
    BY <2>1 DEF touched_tlds, Touched
<1>7. Binds(h) \subseteq (td \cap Stored(s.domains)) \cup tt
  <2> HIDE DEF td, tt
  <2> QED
    BY <1>5, <1>6 DEF Binds
<1> HIDE DEF delta, td, tt
<1> QED
  BY <1>1, <1>2, <1>3, <1>7 DEF delta

-----------------------------------------------------------------------------
(* The operations keep a store good.                                        *)

(* append_deltas with the delta of a block.                                 *)
LEMMA AppendDeltasGood ==
  ASSUME NEW st, Good(st), NEW h \in Hashes, BlockOf[h].height = st.tip.height + 1,
         NEW s, IsRegistry(s), Registered(s, h), NEW removed,
         append_deltas(st, h, block_delta(s, h, removed)) # None
  PROVE  Good(append_deltas(st, h, block_delta(s, h, removed)))
<1> DEFINE k == BlockOf[h].height
<1> DEFINE delta == block_delta(s, h, removed)
<1> DEFINE new == append_deltas(st, h, delta)
<1>0. k \in Heights /\ k # 0
  BY HeightsAre
<1>d. /\ DOMAIN delta.domains \subseteq Domains
      /\ \A d \in DOMAIN delta.domains : delta.domains[d] \in DomainState
      /\ DOMAIN delta.tlds \subseteq Tlds
      /\ \A t \in DOMAIN delta.tlds : delta.tlds[t] \in TldState
      /\ delta.nameUpserts \subseteq DOMAIN delta.domains \cup DOMAIN delta.tlds
                                       \cup delta.removedTlds
  BY DeltaShape
<1> HIDE DEF delta
<1>1. CASE st.byHeight[k] # None
  <2>1. new = st
    BY <1>1 DEF append_deltas, delta
  <2> QED
    BY <2>1 DEF delta
<1>2. CASE st.byHeight[k] = None
  <2> DEFINE domains == Overwrite(st.domains, delta.domains)
  <2> DEFINE tlds == Overwrite(st.tlds, delta.tlds)
  <2> DEFINE d == Without(domains, delta.removedDomains)
  <2> DEFINE t == Without(tlds, delta.removedTlds)
  <2> DEFINE dc == st.domainCount + Cardinality(DOMAIN delta.domains \ Stored(st.domains))
                     - Cardinality(Stored(domains) \cap delta.removedDomains)
  <2> DEFINE tc == st.tldCount + Cardinality(DOMAIN delta.tlds \ Stored(st.tlds))
                     - Cardinality(Stored(tlds) \cap delta.removedTlds)
  <2> DEFINE at == [st.byHeight EXCEPT ![k] = h]
  <2> DEFINE tip == [height |-> k, hash |-> h]
  <2> DEFINE hs == st.byHash \cup {h}
  <2> DEFINE mid == [st EXCEPT !.byHeight = at, !.byHash = hs, !.domains = d, !.tlds = t,
                               !.domainCount = dc, !.tldCount = tc, !.tip = tip]
  <2>1. new = apply_name_deltas(mid, delta.nameUpserts,
                                delta.removedDomains \cup delta.removedTlds)
    BY <1>2 DEF append_deltas
  <2>2. at \in [Heights -> Hashes \cup {None}] /\ tip.height = k /\ tip.hash = h
        /\ hs \subseteq Hashes
    BY <1>0 DEF IsStore, Good, Typed
  <2>a. mid = [st EXCEPT !.byHeight = at, !.byHash = hs, !.domains = d, !.tlds = t,
                         !.domainCount = dc, !.tldCount = tc, !.tip = tip]
    OBVIOUS
  <2>t. st.domains \in DomainTable /\ st.tlds \in TldTable
    BY DEF Good, Typed
  <2>f. IsFiniteSet(Stored(st.domains)) /\ IsFiniteSet(Stored(st.tlds))
    BY <2>t, TablesFinite
  <2>g. /\ IsFiniteSet(DOMAIN delta.domains) /\ IsFiniteSet(DOMAIN delta.tlds)
    BY <1>d, RegistryConstants, FS_Subset
  <2>s. /\ Stored(domains) = Stored(st.domains) \cup DOMAIN delta.domains
        /\ Stored(d) = (Stored(st.domains) \cup DOMAIN delta.domains) \ delta.removedDomains
        /\ Stored(tlds) = Stored(st.tlds) \cup DOMAIN delta.tlds
        /\ Stored(t) = (Stored(st.tlds) \cup DOMAIN delta.tlds) \ delta.removedTlds
    <3>1. DOMAIN st.domains = Domains /\ DOMAIN st.tlds = Tlds
      BY <2>t DEF DomainTable, TldTable
    <3>2. \A e \in DOMAIN delta.domains : delta.domains[e] # None
      BY <1>d, NoneIsNoEntry
    <3>3. \A e \in DOMAIN delta.tlds : delta.tlds[e] # None
      BY <1>d, NoneIsNoEntry
    <3> QED
      BY <1>d, <3>1, <3>2, <3>3, StoredDelta
  <2>c. dc = Cardinality(Stored(d)) /\ tc = Cardinality(Stored(t))
    <3> DEFINE A == Stored(st.domains)
    <3> DEFINE B == Stored(st.tlds)
    <3> DEFINE U == DOMAIN delta.domains
    <3> DEFINE V == DOMAIN delta.tlds
    <3> DEFINE x == Stored(domains)
    <3> DEFINE y == Stored(tlds)
    <3> DEFINE x1 == Stored(d)
    <3> DEFINE y1 == Stored(t)
    <3> DEFINE x2 == U \ A
    <3> DEFINE y2 == V \ B
    <3> DEFINE x3 == x \cap delta.removedDomains
    <3> DEFINE y3 == y \cap delta.removedTlds
    <3>1. x = A \cup U /\ x1 = x \ delta.removedDomains /\ y = B \cup V /\ y1 = y \ delta.removedTlds
      BY <2>s, Zenon
    <3>2. x2 = U \ A /\ y2 = V \ B /\ x3 = x \cap delta.removedDomains
          /\ y3 = y \cap delta.removedTlds
      OBVIOUS
    <3>3. st.domainCount = Cardinality(A) /\ st.tldCount = Cardinality(B)
      BY DEF Good, Booked
    <3>4. dc = st.domainCount + Cardinality(x2) - Cardinality(x3)
          /\ tc = st.tldCount + Cardinality(y2) - Cardinality(y3)
      OBVIOUS
    <3>0. IsFiniteSet(A) /\ IsFiniteSet(B) /\ IsFiniteSet(U) /\ IsFiniteSet(V)
      BY <2>f, <2>g
    <3>z. /\ A \cap x2 = {} /\ x3 \subseteq A \cup x2 /\ x1 = (A \cup x2) \ x3
          /\ B \cap y2 = {} /\ y3 \subseteq B \cup y2 /\ y1 = (B \cup y2) \ y3
      <4> HIDE DEF A, B, U, V, x, y, x1, y1
      <4> QED
        BY <3>1
    <3>f. IsFiniteSet(x2) /\ IsFiniteSet(y2)
      BY <3>0, FS_Difference
    <3> HIDE DEF A, B, U, V, x, y, x1, y1, x2, y2, x3, y3
    <3>5. Cardinality(x1) = Cardinality(A) + Cardinality(x2) - Cardinality(x3)
      BY <3>0, <3>z, <3>f, DeltaCount
    <3>6. Cardinality(y1) = Cardinality(B) + Cardinality(y2) - Cardinality(y3)
      BY <3>0, <3>z, <3>f, DeltaCount
    <3> QED
      BY <3>3, <3>4, <3>5, <3>6, Zenon DEF x1, y1
  <2>u. d \in DomainTable /\ t \in TldTable
    BY <1>d, <2>t DEF DomainTable, TldTable, Overwrite, Without
  <2> HIDE DEF d, t, dc, tc, at, tip, hs, k, domains, tlds
  <2> HIDE DEF mid, new
  <2>3. mid = [byHeight |-> at, byHash |-> hs, domains |-> d, tlds |-> t,
               domainCount |-> dc, tldCount |-> tc, names |-> st.names,
               reverse |-> st.reverse, tip |-> tip,
               snapshot |-> st.snapshot, marker |-> st.marker]
    BY <2>a DEF IsStore, Good
  <2>4. IsStore(mid)
    BY <1>0, <2>2, <2>3 DEF IsStore
  <2>5. mid.names = mid.reverse /\ mid.names = st.names
    BY <2>3 DEF Good, Booked
  <2>6. /\ IsStore(new) /\ ButNames(mid, new)
        /\ \A i : i \in new.names <=>
                   /\ i \in st.names \/ i \in delta.nameUpserts
                   /\ i \notin delta.removedDomains \cup delta.removedTlds
        /\ new.reverse = new.names
    <3> DEFINE up == delta.nameUpserts
    <3> DEFINE gone == delta.removedDomains \cup delta.removedTlds
    <3>1. new = apply_name_deltas(mid, up, gone)
      BY <2>1
    <3> HIDE DEF up, gone
    <3>2. IsStore(new) /\ ButNames(mid, new) /\ Rebound(mid, new, up, gone)
      BY <2>4, <2>5, <3>1, NamesAre
    <3> QED
      BY <2>5, <3>2 DEF Rebound, up, gone
  <2>7. /\ new.byHash = hs /\ new.domains = d /\ new.tlds = t /\ new.domainCount = dc
        /\ new.tldCount = tc /\ new.tip = tip /\ new.snapshot = st.snapshot
    BY <2>3, <2>6 DEF ButNames
  <2>8. Typed(new)
    BY <2>2, <2>7, <2>u DEF Typed, Good
  <2>9. new.names \subseteq Stored(d) \cup Stored(t)
    <3>1. st.names \subseteq Stored(st.domains) \cup Stored(st.tlds)
      BY DEF Good, Booked
    <3> QED
      BY <1>d, <2>6, <2>s, <3>1
  <2>10. Booked(new)
    BY <1>0, <2>2, <2>6, <2>7, <2>9, <2>c DEF Booked
  <2> QED
    BY <2>6, <2>8, <2>10 DEF Good, new, delta
<1> QED
  BY <1>1, <1>2

(* snapshot_core on a stored block.                                         *)
LEMMA SnapshotGood ==
  ASSUME NEW st, Good(st), NEW k \in Heights, st.byHeight[k] # None
  PROVE  Good(snapshot_core(st, k)) /\ snapshot_core(st, k).tip = st.tip
<1> DEFINE s == [height |-> k, hash |-> st.byHeight[k], domains |-> st.domains,
                 tlds |-> st.tlds]
<1> DEFINE new == snapshot_core(st, k)
<1>1. new = [st EXCEPT !.snapshot = s]
  BY DEF snapshot_core
<1>2. IsSnapshot(s)
  BY DEF Good, IsStore, Typed, IsSnapshot
<1> HIDE DEF s, new
<1>3. /\ new.byHash = st.byHash /\ new.domains = st.domains /\ new.tlds = st.tlds
      /\ new.domainCount = st.domainCount /\ new.tldCount = st.tldCount
      /\ new.names = st.names /\ new.reverse = st.reverse /\ new.tip = st.tip
      /\ new.snapshot = s
  BY <1>1 DEF IsStore, Good
<1>4. IsStore(new)
  BY SnapshotOK DEF Good, new
<1>5. Typed(new) /\ Booked(new)
  BY <1>2, <1>3 DEF Good, Typed, Booked
<1> QED
  BY <1>3, <1>4, <1>5 DEF Good, new

(* store_block_with_removals.                                               *)
LEMMA StoreBlockGood ==
  ASSUME NEW st, Good(st), NEW s, IsRegistry(s), NEW h \in Hashes, Registered(s, h),
         NEW removed, store_block_with_removals(st, s, h, removed) # None
  PROVE  Good(store_block_with_removals(st, s, h, removed))
<1> DEFINE delta == block_delta(s, h, removed)
<1> DEFINE new == store_block_with_removals(st, s, h, removed)
<1> DEFINE parent == BlockOf[h].height - 1
<1>1. new = append_block_with_state(st, h, delta)
  BY DEF store_block_with_removals
<1>2. CASE st.tip = [height |-> BlockOf[h].height, hash |-> h]
  <2>1. new = st
    BY <1>1, <1>2 DEF append_block_with_state
  <2> QED
    BY <2>1
<1>3. CASE st.tip # [height |-> BlockOf[h].height, hash |-> h]
  <2> HIDE DEF delta, new
  <2>1. BlockOf[h].height = st.tip.height + 1 /\ new = append_core(st, h, delta) /\ new # None
    BY <1>1, <1>3 DEF append_block_with_state, new
  <2>2. CASE ~(parent >= 1 /\ parent % SNAPSHOT_INTERVAL = 0)
    <3>1. new = append_deltas(st, h, delta)
      BY <2>1, <2>2 DEF append_core
    <3> QED
      BY <2>1, <3>1, AppendDeltasGood DEF delta, new
  <2>3. CASE parent >= 1 /\ parent % SNAPSHOT_INTERVAL = 0
    <3> DEFINE mid == snapshot_core(st, parent)
    <3>1. st.byHeight[parent] # None /\ new = append_deltas(mid, h, delta)
      BY <2>1, <2>3 DEF append_core
    <3>2. parent \in Heights
      <4>1. st.tip.height \in Heights \cup {0} /\ BlockOf[h].height \in Nat
        BY HeightsAre DEF Good, IsStore
      <4>2. st.tip.height \in Nat
        <5>1. \A e \in Heights : e \in Nat
          BY HeightsAre
        <5> QED
          BY <4>1, <5>1
      <4>3. parent = st.tip.height /\ parent # 0
        BY <2>1, <2>3, <4>2
      <4> QED
        BY <4>1, <4>3
    <3>3. Good(mid) /\ mid.tip = st.tip
      BY <3>1, <3>2, SnapshotGood
    <3> HIDE DEF mid
    <3> QED
      BY <2>1, <3>1, <3>3, AppendDeltasGood DEF delta, new
  <2> QED
    BY <2>2, <2>3
<1> QED
  BY <1>2, <1>3

-----------------------------------------------------------------------------
(* The repair tools.                                                        *)

(* New names, all of them live.                                             *)
LEMMA NamesGood ==
  ASSUME NEW st, Good(st), NEW up, up \subseteq Stored(st.domains) \cup Stored(st.tlds)
  PROVE  Good(apply_name_deltas(st, up, {}))
<1> DEFINE new == apply_name_deltas(st, up, {})
<1>1. IsStore(new) /\ ButNames(st, new) /\ Rebound(st, new, up, {})
  BY NamesAre DEF Good, Booked
<1> HIDE DEF new
<1>2. Typed(new) /\ Booked(new)
  BY <1>1 DEF Good, Typed, Booked, ButNames, Rebound
<1> QED
  BY <1>1, <1>2 DEF Good, new

(* put_domain_state, with and without its name.                             *)
LEMMA PutDomainGood ==
  ASSUME NEW st, Good(st), st.tip.height # 0, NEW i \in Domains, NEW v \in DomainState
  PROVE  /\ Good(put_domain_state(st, i, v))
         /\ Good(put_domain_state_with_name(st, i, v))
<1> DEFINE new == put_domain_state(st, i, v)
<1> DEFINE a == [st.domains EXCEPT ![i] = v]
<1> DEFINE b == IF st.domains[i] = None THEN st.domainCount + 1 ELSE st.domainCount
<1>1. new = [st EXCEPT !.domains = a, !.domainCount = b]
  BY DEF put_domain_state
<1>2. st.domains \in DomainTable
  BY DEF Good, Typed
<1>3. a \in DomainTable /\ v # None /\ DOMAIN st.domains = Domains
  BY <1>2, NoneIsNoEntry DEF DomainTable
<1>4. Stored(a) = Stored(st.domains) \cup {i} /\ (i \in Stored(st.domains) <=> st.domains[i] # None)
  BY <1>3, StoredPut DEF Stored
<1>5. b = Cardinality(Stored(a))
  <2>1. IsFiniteSet(Stored(st.domains)) /\ st.domainCount = Cardinality(Stored(st.domains))
    BY <1>2, TablesFinite DEF Good, Booked
  <2> DEFINE S == Stored(st.domains)
  <2> HIDE DEF S, a
  <2>2. Cardinality(S \cup {i}) = IF i \in S THEN Cardinality(S) ELSE Cardinality(S) + 1
    BY <2>1, FS_AddElement DEF S
  <2> QED
    BY <1>4, <2>1, <2>2 DEF S
<1> HIDE DEF new, a, b
<1>6. /\ new.byHash = st.byHash /\ new.domains = a /\ new.tlds = st.tlds
      /\ new.domainCount = b /\ new.tldCount = st.tldCount
      /\ new.names = st.names /\ new.reverse = st.reverse /\ new.tip = st.tip
      /\ new.snapshot = st.snapshot
  BY <1>1 DEF IsStore, Good
<1>7. IsStore(new)
  BY PutDomainOK DEF Good, Repaired, new
<1>8. Typed(new)
  BY <1>3, <1>6 DEF Good, Typed
<1>9. Booked(new)
  BY <1>4, <1>5, <1>6 DEF Good, Booked
<1>10. Good(new)
  BY <1>7, <1>8, <1>9 DEF Good
<1>11. new.tip.height # 0 /\ i \in Stored(new.domains)
  BY <1>4, <1>6
<1>12. Good(apply_name_deltas(new, {i}, {}))
  BY <1>10, <1>11, NamesGood
<1> QED
  BY <1>10, <1>12 DEF new, put_domain_state_with_name

(* put_tld_state, with and without its name.                             *)
LEMMA PutTldGood ==
  ASSUME NEW st, Good(st), st.tip.height # 0, NEW i \in Tlds, NEW v \in TldState
  PROVE  /\ Good(put_tld_state(st, i, v))
         /\ Good(put_tld_state_with_name(st, i, v))
<1> DEFINE new == put_tld_state(st, i, v)
<1> DEFINE a == [st.tlds EXCEPT ![i] = v]
<1> DEFINE b == IF st.tlds[i] = None THEN st.tldCount + 1 ELSE st.tldCount
<1>1. new = [st EXCEPT !.tlds = a, !.tldCount = b]
  BY DEF put_tld_state
<1>2. st.tlds \in TldTable
  BY DEF Good, Typed
<1>3. a \in TldTable /\ v # None /\ DOMAIN st.tlds = Tlds
  BY <1>2, NoneIsNoEntry DEF TldTable
<1>4. Stored(a) = Stored(st.tlds) \cup {i} /\ (i \in Stored(st.tlds) <=> st.tlds[i] # None)
  BY <1>3, StoredPut DEF Stored
<1>5. b = Cardinality(Stored(a))
  <2>1. IsFiniteSet(Stored(st.tlds)) /\ st.tldCount = Cardinality(Stored(st.tlds))
    BY <1>2, TablesFinite DEF Good, Booked
  <2> DEFINE S == Stored(st.tlds)
  <2> HIDE DEF S, a
  <2>2. Cardinality(S \cup {i}) = IF i \in S THEN Cardinality(S) ELSE Cardinality(S) + 1
    BY <2>1, FS_AddElement DEF S
  <2> QED
    BY <1>4, <2>1, <2>2 DEF S
<1> HIDE DEF new, a, b
<1>6. /\ new.byHash = st.byHash /\ new.tlds = a /\ new.domains = st.domains
      /\ new.tldCount = b /\ new.domainCount = st.domainCount
      /\ new.names = st.names /\ new.reverse = st.reverse /\ new.tip = st.tip
      /\ new.snapshot = st.snapshot
  BY <1>1 DEF IsStore, Good
<1>7. IsStore(new)
  BY PutTldOK DEF Good, Repaired, new
<1>8. Typed(new)
  BY <1>3, <1>6 DEF Good, Typed
<1>9. Booked(new)
  BY <1>4, <1>5, <1>6 DEF Good, Booked
<1>10. Good(new)
  BY <1>7, <1>8, <1>9 DEF Good
<1>11. new.tip.height # 0 /\ i \in Stored(new.tlds)
  BY <1>4, <1>6
<1>12. Good(apply_name_deltas(new, {i}, {}))
  BY <1>10, <1>11, NamesGood
<1> QED
  BY <1>10, <1>12 DEF new, put_tld_state_with_name

(* remove_domain_state.                                                     *)
LEMMA RemoveDomainGood ==
  ASSUME NEW st, Good(st), NEW i \in Domains
  PROVE  Good(remove_domain_state(st, i))
<1> DEFINE a == [st.domains EXCEPT ![i] = None]
<1> DEFINE b == IF st.domains[i] = None THEN st.domainCount ELSE st.domainCount - 1
<1> DEFINE mid == [st EXCEPT !.domains = a, !.domainCount = b]
<1> DEFINE new == remove_domain_state(st, i)
<1>0. new = apply_name_deltas(mid, {}, {i})
  BY DEF remove_domain_state, remove_name_entry
<1>1. mid = [st EXCEPT !.domains = a, !.domainCount = b]
  OBVIOUS
<1>2. st.domains \in DomainTable
  BY DEF Good, Typed
<1>3. a \in DomainTable /\ DOMAIN st.domains = Domains
  BY <1>2 DEF DomainTable
<1>4. Stored(a) = Stored(st.domains) \ {i} /\ (i \in Stored(st.domains) <=> st.domains[i] # None)
  BY <1>3, StoredPut DEF Stored
<1>5. b = Cardinality(Stored(a))
  <2>1. IsFiniteSet(Stored(st.domains)) /\ st.domainCount = Cardinality(Stored(st.domains))
    BY <1>2, TablesFinite DEF Good, Booked
  <2> DEFINE S == Stored(st.domains)
  <2> HIDE DEF S, a
  <2>2. Cardinality(S \ {i}) = IF i \in S THEN Cardinality(S) - 1 ELSE Cardinality(S)
    BY <2>1, FS_RemoveElement DEF S
  <2> QED
    BY <1>4, <2>1, <2>2 DEF S
<1> HIDE DEF mid, new, a, b
<1>6. mid = [byHeight |-> st.byHeight, byHash |-> st.byHash, domains |-> a,
             tlds |-> st.tlds, domainCount |-> b, tldCount |-> st.tldCount,
             names |-> st.names, reverse |-> st.reverse, tip |-> st.tip,
             snapshot |-> st.snapshot, marker |-> st.marker]
  BY <1>1 DEF IsStore, Good
<1>7. IsStore(mid) /\ mid.names = mid.reverse
  BY <1>6 DEF IsStore, Good, Booked
<1>8. IsStore(new) /\ ButNames(mid, new) /\ Rebound(mid, new, {}, {i})
  BY <1>0, <1>7, NamesAre
<1>9. /\ new.byHash = st.byHash /\ new.domains = a /\ new.tlds = st.tlds
      /\ new.domainCount = b /\ new.tldCount = st.tldCount
      /\ new.tip = st.tip /\ new.snapshot = st.snapshot
      /\ new.names = st.names \ {i} /\ new.reverse = new.names
  BY <1>6, <1>8 DEF ButNames, Rebound
<1>10. Typed(new)
  BY <1>3, <1>9 DEF Good, Typed
<1>11. Booked(new)
  BY <1>4, <1>5, <1>9 DEF Good, Booked
<1> QED
  BY <1>8, <1>10, <1>11 DEF Good, new

(* rebuild_name_index.                                                      *)
LEMMA RebuildGood ==
  ASSUME NEW st, Good(st), rebuild_name_index(st) # None
  PROVE  Good(rebuild_name_index(st))
<1> DEFINE mid == [st EXCEPT !.names = {}, !.reverse = {}]
<1> DEFINE up == (Stored(st.domains) \cup Stored(st.tlds))
                   \cap UNION {Binds(st.byHeight[k]) : k \in 1..st.tip.height}
<1>0. rebuild_name_index(st) = apply_name_deltas(mid, up, {})
  BY DEF rebuild_name_index
<1>1. mid = [st EXCEPT !.names = {}, !.reverse = {}]
  OBVIOUS
<1>u. up \subseteq Stored(st.domains) \cup Stored(st.tlds)
  OBVIOUS
<1> HIDE DEF mid, up
<1>2. mid = [byHeight |-> st.byHeight, byHash |-> st.byHash, domains |-> st.domains,
             tlds |-> st.tlds, domainCount |-> st.domainCount, tldCount |-> st.tldCount,
             names |-> {}, reverse |-> {}, tip |-> st.tip,
             snapshot |-> st.snapshot, marker |-> st.marker]
  BY <1>1 DEF IsStore, Good
<1>3. Good(mid)
  BY <1>2 DEF Good, IsStore, Typed, Booked
<1>4. up \subseteq Stored(mid.domains) \cup Stored(mid.tlds)
  BY <1>2, <1>u
<1> QED
  BY <1>0, <1>3, <1>4, NamesGood

(* append_bootstrap_anchor.                                                 *)
LEMMA AnchorGood ==
  ASSUME NEW st, Good(st), NEW h \in Hashes, append_bootstrap_anchor(st, h) # None
  PROVE  Good(append_bootstrap_anchor(st, h))
<1> DEFINE new == append_bootstrap_anchor(st, h)
<1> DEFINE at == [st.byHeight EXCEPT ![BlockOf[h].height] = h]
<1> DEFINE hs == st.byHash \cup {h}
<1>1. new = st \/ new = [st EXCEPT !.byHeight = at, !.byHash = hs]
  BY DEF append_bootstrap_anchor
<1>2. CASE new = st
  BY <1>2
<1>3. CASE new = [st EXCEPT !.byHeight = at, !.byHash = hs]
  <2>1. hs \subseteq Hashes
    BY DEF Good, Typed
  <2>2. IsStore(new)
    BY AnchorOK DEF Good, Allowed
  <2> HIDE DEF new, at, hs
  <2>3. /\ new.byHash = hs /\ new.domains = st.domains /\ new.tlds = st.tlds
        /\ new.domainCount = st.domainCount /\ new.tldCount = st.tldCount
        /\ new.names = st.names /\ new.reverse = st.reverse /\ new.tip = st.tip
        /\ new.snapshot = st.snapshot
    BY <1>3 DEF IsStore, Good
  <2>4. Typed(new) /\ Booked(new)
    BY <2>1, <2>3 DEF Good, Typed, Booked
  <2> QED
    BY <2>2, <2>4 DEF Good, new
<1> QED
  BY <1>1, <1>2, <1>3

-----------------------------------------------------------------------------
(* An export, as it arrives.                                                *)

Entries == [kind: {"DOM"}, id: Domains, val: DomainState]
             \cup [kind: {"TLD"}, id: Tlds, val: TldState]

IsPages(pages) ==
  DOMAIN pages \subseteq Nat /\ \A p \in DOMAIN pages : pages[p].entries \in Seq(Entries)

(* Pages as they are cut out of the entries: none is empty.                 *)
Paged(pages) ==
  /\ pages \in Seq({pages[p] : p \in DOMAIN pages})
  /\ \A p \in DOMAIN pages : "entries" \in DOMAIN pages[p] /\ pages[p].entries \in Seq(Entries)
  /\ Len(pages) # 0 => pages[1].entries # <<>>

(* page_entry_slot cuts them so.                                            *)
LEMMA PagedShape ==
  ASSUME NEW entries \in Seq(Entries), NEW root, NEW height, NEW pages,
         pages = page_entry_slot(entries, root, height)
  PROVE  Paged(pages)
<1> DEFINE n == VERIFIED_SNAPSHOT_PAGE_ENTRIES
<1> DEFINE L == Len(entries)
<1> DEFINE k == (L + n - 1) \div n
<1> DEFINE Hi(p) == IF p * n < L THEN p * n ELSE L
<1> DEFINE Cut(p) == SubSeq(entries, (p - 1) * n + 1, Hi(p))
<1>1. n \in Nat /\ n >= 1 /\ L \in Nat
  BY StoreConstants
<1>2. pages = [p \in 1..k |-> [index |-> p - 1, height |-> height, root |-> root,
                               entries |-> Cut(p)]]
  BY DEF page_entry_slot
<1> HIDE DEF n, L
<1>3. k \in Nat /\ (L = 0 => k = 0)
  BY <1>1
<1>4. ASSUME NEW p \in 1..k PROVE Cut(p) \in Seq(Entries)
  <2>1. (p - 1) * n \in Nat /\ p * n \in Nat
    <3>1. p \in Nat /\ p - 1 \in Nat
      BY <1>3
    <3> QED
      BY <1>1, <3>1
  <2> DEFINE lo == (p - 1) * n + 1
  <2> DEFINE hi == Hi(p)
  <2>2. lo \in Nat /\ lo >= 1 /\ hi \in Nat /\ hi <= L
    BY <1>1, <2>1
  <2> HIDE DEF lo, hi
  <2>3. \A i \in lo..hi : entries[i] \in Entries
    <3> SUFFICES ASSUME NEW i \in lo..hi PROVE entries[i] \in Entries
      OBVIOUS
    <3>1. i \in 1..L
      BY <1>1, <2>2
    <3> QED
      BY <3>1, ElementOfSeq DEF L
  <2>4. SubSeq(entries, lo, hi) \in Seq(Entries)
    BY <2>2, <2>3, SubSeqProperties
  <2> QED
    BY <2>4 DEF lo, hi
<1>5. ASSUME k # 0 PROVE Cut(1) # <<>>
  <2>1. L >= 1
    BY <1>1, <1>3, <1>5
  <2> DEFINE hi == Hi(1)
  <2>2. Cut(1) = SubSeq(entries, 1, hi) /\ hi \in Nat /\ hi >= 1 /\ hi <= L
    <3>1. (1 - 1) * n + 1 = 1 /\ 1 * n = n
      BY <1>1
    <3> QED
      BY <1>1, <2>1, <3>1
  <2> HIDE DEF hi
  <2>3. \A i \in 1..hi : entries[i] \in Entries
    <3> SUFFICES ASSUME NEW i \in 1..hi PROVE entries[i] \in Entries
      OBVIOUS
    <3>1. i \in 1..L
      BY <1>1, <2>2
    <3> QED
      BY <3>1, ElementOfSeq DEF L
  <2>4. Len(SubSeq(entries, 1, hi)) = hi - 1 + 1
    BY <2>2, <2>3, SubSeqProperties
  <2> DEFINE c == Cut(1)
  <2>5. Len(c) = hi - 1 + 1
    BY <2>2, <2>4, Zenon
  <2> HIDE DEF c
  <2>6. c # <<>>
    BY <2>2, <2>5
  <2> QED
    BY <2>6 DEF c
<1> HIDE DEF k, Cut
<1>6. /\ DOMAIN pages = 1..k
      /\ \A p \in 1..k : "entries" \in DOMAIN pages[p] /\ pages[p].entries = Cut(p)
  BY <1>2
<1>7. pages \in Seq({pages[p] : p \in DOMAIN pages}) /\ Len(pages) = k
  BY <1>2, <1>3, <1>6
<1>8. Len(pages) # 0 => pages[1].entries # <<>>
  <2>1. k # 0 => 1 \in 1..k
    BY <1>3
  <2> QED
    BY <1>5, <1>6, <1>7, <2>1
<1> QED
  BY <1>4, <1>6, <1>7, <1>8 DEF Paged

(* What is exported are entries of the snapshot.                            *)
LEMMA ExportShape ==
  ASSUME NEW st, Good(st), NEW cp, NEW x, x = export_verified_snapshot(st, cp), x # None
  PROVE  Paged(x.pages)
<1> DEFINE s == st.snapshot
<1> DEFINE n == VERIFIED_SNAPSHOT_PAGE_ENTRIES
<1> DEFINE ds == ReadPages(s.domains, n)
<1> DEFINE ts == ReadPages(s.tlds, n)
<1> DEFINE entries == ExportEntries(s, ds, ts)
<1> DEFINE pages == page_entry_slot(entries, cp.state_root, s.height)
<1>1. s # None /\ x = ExportOf(s, cp.state_root, pages)
  BY DEF export_verified_snapshot, Then
<1>2. s.domains \in DomainTable /\ s.tlds \in TldTable
  BY <1>1 DEF Good, Typed, IsSnapshot
<1>3. n \in Nat \ {0}
  BY StoreConstants
<1>4. ds \in Seq(Stored(s.domains)) /\ ts \in Seq(Stored(s.tlds))
  <2>1. IsTable(s.domains) /\ IsTable(s.tlds)
    BY <1>2, TablesFinite
  <2> QED
    BY <1>3, <2>1, ReadPagesShape
<1> HIDE DEF ds, ts
<1>5. \A d \in Stored(s.domains) : d \in Domains /\ s.domains[d] \in DomainState
  BY <1>2 DEF DomainTable, Stored
<1>6. \A t \in Stored(s.tlds) : t \in Tlds /\ s.tlds[t] \in TldState
  BY <1>2 DEF TldTable, Stored
<1> DEFINE a == [i \in DOMAIN ds |-> Entry("DOM", ds[i], s.domains[ds[i]])]
<1> DEFINE b == [i \in DOMAIN ts |-> Entry("TLD", ts[i], s.tlds[ts[i]])]
<1>7. a \in Seq(Entries)
  <2>1. DOMAIN ds = 1..Len(ds) /\ Len(ds) \in Nat
    BY <1>4
  <2>2. \A i \in DOMAIN ds : ds[i] \in Stored(s.domains)
    BY <1>4
  <2>3. \A i \in DOMAIN ds : Entry("DOM", ds[i], s.domains[ds[i]]) \in Entries
    BY <1>5, <2>2 DEF Entry, Entries
  <2> QED
    BY <2>1, <2>3
<1>8. b \in Seq(Entries)
  <2>1. DOMAIN ts = 1..Len(ts) /\ Len(ts) \in Nat
    BY <1>4
  <2>2. \A i \in DOMAIN ts : ts[i] \in Stored(s.tlds)
    BY <1>4
  <2>3. \A i \in DOMAIN ts : Entry("TLD", ts[i], s.tlds[ts[i]]) \in Entries
    BY <1>6, <2>2 DEF Entry, Entries
  <2> QED
    BY <2>1, <2>3
<1>9. entries = a \o b
  BY DEF ExportEntries
<1> HIDE DEF a, b, entries
<1>10. entries \in Seq(Entries)
  BY <1>7, <1>8, <1>9, ConcatProperties
<1>11. x.pages = pages
  BY <1>1 DEF ExportOf
<1> QED
  BY <1>10, <1>11, PagedShape

(* An entry with the hash of zeros is an entry.                             *)
LEMMA ZeroedShape == \A e \in Entries : Zeroed(e) \in Entries
<1> SUFFICES ASSUME NEW e \in Entries, e.kind = "DOM", e.val.record = None
             PROVE  [e EXCEPT !.val.record = ZERO_HASH] \in Entries
  BY DEF Zeroed
<1> DEFINE v == [e.val EXCEPT !.record = ZERO_HASH]
<1>1. e \in [kind: {"DOM"}, id: Domains, val: DomainState]
  BY DEF Entries
<1>2. e.val \in DomainState
  BY <1>1
<1>3. v \in DomainState
  BY <1>2 DEF DomainState
<1>4. [e EXCEPT !.val.record = ZERO_HASH] = [e EXCEPT !.val = v]
  OBVIOUS
<1> HIDE DEF v
<1> QED
  BY <1>1, <1>3, <1>4 DEF Entries

(* Whatever the channel did, what arrives are pages of entries.             *)
LEMMA ArrivalShape ==
  ASSUME NEW st, Good(st), NEW cp, NEW x, x = export_verified_snapshot(st, cp), x # None,
         NEW y \in Arrivals(x)
  PROVE  IsPages(y.pages)
<1> DEFINE P == x.pages
<1> DEFINE n == Len(P)
<1> DEFINE X == {P[i] : i \in DOMAIN P}
<1>1. /\ P \in Seq(X) /\ \A p \in DOMAIN P : P[p].entries \in Seq(Entries)
      /\ n # 0 => P[1].entries # <<>>
  <2>1. Paged(P)
    BY ExportShape
  <2> HIDE DEF P
  <2> QED
    BY <2>1 DEF Paged
<1>2. n \in Nat /\ DOMAIN P = 1..n
  BY <1>1
<1>3. \A e \in X : e.entries \in Seq(Entries)
  BY <1>1
<1> DEFINE front == SubSeq(P, 1, n - 1)
<1> DEFINE short == [P EXCEPT ![1].entries = Tail(@)]
<1> DEFINE zeroed == [i \in 1..n |-> [P[i] EXCEPT !.entries = [j \in DOMAIN @ |-> Zeroed(@[j])]]]
<1>4. CASE n = 0
  <2>1. y = x
    BY <1>4 DEF Arrivals
  <2> QED
    BY <1>1, <1>2, <2>1 DEF IsPages
<1>5. CASE n # 0
  <2>0. 1 \in 1..n /\ n \in 1..n /\ n - 1 \in Int
    BY <1>2, <1>5
  <2>1. \/ y.pages = P \/ y.pages = front \/ y.pages = <<P[n]>> \o front
        \/ y.pages = Append(P, P[n]) \/ y.pages = short \/ y.pages = zeroed
    <3> DEFINE m == x.manifest
    <3> DEFINE a == <<P[n]>> \o front
    <3> DEFINE b == Append(P, P[n])
    <3> DEFINE m5 ==
          [m EXCEPT !.pageHashes = short,
                    !.domainCount = IF P[1].entries[1].kind = "DOM" THEN @ - 1 ELSE @,
                    !.tldCount    = IF P[1].entries[1].kind = "TLD" THEN @ - 1 ELSE @]
    <3> DEFINE m6 == [m EXCEPT !.pageHashes = zeroed]
    <3>1. y \in {x, [manifest |-> m, pages |-> front], [manifest |-> m, pages |-> a],
                 [manifest |-> m, pages |-> b], [manifest |-> m5, pages |-> short],
                 [manifest |-> m6, pages |-> zeroed]}
      BY <1>5, Zenon DEF Arrivals
    <3> HIDE DEF front, short, zeroed, a, b, m5, m6, m, n
    <3> QED
      BY <3>1 DEF a, b
  <2>2. \A q \in Seq(X) : IsPages(q)
    <3> SUFFICES ASSUME NEW q \in Seq(X) PROVE IsPages(q)
      OBVIOUS
    <3> HIDE DEF X
    <3>1. DOMAIN q = 1..Len(q) /\ Len(q) \in Nat
      OBVIOUS
    <3>2. \A i \in 1..Len(q) : q[i] \in X
      BY ElementOfSeq
    <3> QED
      BY <1>3, <3>1, <3>2 DEF IsPages
  <2>3. P[n] \in X
    BY <1>2, <2>0
  <2> HIDE DEF X
  <2>4. front \in Seq(X)
    <3>1. \A i \in 1..(n - 1) : P[i] \in X
      <4> SUFFICES ASSUME NEW i \in 1..(n - 1) PROVE P[i] \in X
        OBVIOUS
      <4>1. i \in 1..n
        BY <1>2
      <4> QED
        BY <1>1, <4>1, ElementOfSeq
    <3> QED
      BY <2>0, <3>1, SubSeqProperties
  <2>5. <<P[n]>> \o front \in Seq(X)
    <3> HIDE DEF front
    <3>1. <<P[n]>> \in Seq(X)
      BY <2>3
    <3> QED
      BY <2>4, <3>1, ConcatProperties
  <2>6. Append(P, P[n]) \in Seq(X)
    BY <1>1, <2>3, AppendProperties
  <2>7. IsPages(short)
    <3> DEFINE tail == Tail(P[1].entries)
    <3> DEFINE first == [P[1] EXCEPT !.entries = tail]
    <3>1. P[1].entries \in Seq(Entries) /\ P[1].entries # <<>>
      BY <1>1, <1>2, <1>5, <2>0
    <3>2. tail \in Seq(Entries)
      BY <3>1, HeadTailProperties
    <3>3. short = [P EXCEPT ![1] = first]
      OBVIOUS
    <3>4. first.entries = tail
      <4>1. "entries" \in DOMAIN P[1]
        BY <1>2, <2>0, ExportShape DEF Paged
      <4> QED
        BY <4>1
    <3> HIDE DEF short, first, tail
    <3>5. DOMAIN short = 1..n /\ short[1] = first /\ \A i \in 1..n : i # 1 => short[i] = P[i]
      BY <1>2, <2>0, <3>3
    <3>6. \A i \in 1..n : short[i].entries \in Seq(Entries)
      BY <1>1, <1>2, <3>2, <3>4, <3>5
    <3> QED
      BY <1>2, <3>5, <3>6 DEF IsPages
  <2>8. IsPages(zeroed)
    <3>1. ASSUME NEW i \in 1..n PROVE zeroed[i].entries \in Seq(Entries)
      <4> DEFINE e == P[i].entries
      <4>1. e \in Seq(Entries) /\ "entries" \in DOMAIN P[i]
        BY <1>1, <1>2, ExportShape DEF Paged
      <4> DEFINE z == [j \in DOMAIN e |-> Zeroed(e[j])]
      <4>2. zeroed[i] = [P[i] EXCEPT !.entries = z]
        OBVIOUS
      <4> HIDE DEF e, zeroed
      <4>3. DOMAIN e = 1..Len(e) /\ Len(e) \in Nat /\ \A j \in 1..Len(e) : e[j] \in Entries
        BY <4>1
      <4>4. \A j \in 1..Len(e) : Zeroed(e[j]) \in Entries
        BY <4>3, ZeroedShape
      <4>5. z \in Seq(Entries)
        BY <4>3, <4>4
      <4> HIDE DEF z
      <4>6. zeroed[i].entries = z
        BY <4>1, <4>2
      <4> QED
        BY <4>5, <4>6
    <3>2. DOMAIN zeroed = 1..n
      OBVIOUS
    <3> HIDE DEF zeroed
    <3> QED
      BY <1>2, <3>1, <3>2 DEF IsPages
  <2>9. P \in Seq(X)
    BY <1>1 DEF X
  <2> HIDE DEF P, front, short, zeroed
  <2> QED
    BY <2>1, <2>2, <2>4, <2>5, <2>6, <2>7, <2>8, <2>9
<1> QED
  BY <1>4, <1>5

(* Two places of one page set are ordered.                                  *)
LEMMA SlotsOrdered ==
  ASSUME NEW pages, IsPages(pages), NEW r \in Slots(pages), NEW s \in Slots(pages), r # s
  PROVE  Before(r, s) \/ Before(s, r)
<1>1. \A z \in Slots(pages) : \E p \in Nat, j \in Nat : z = <<p, j>>
  <2> SUFFICES ASSUME NEW z \in Slots(pages) PROVE \E p \in Nat, j \in Nat : z = <<p, j>>
    OBVIOUS
  <2>1. PICK p \in DOMAIN pages : z \in {p} \X DOMAIN pages[p].entries
    BY DEF Slots
  <2>2. PICK j \in DOMAIN pages[p].entries : z = <<p, j>>
    BY <2>1
  <2>3. pages[p].entries \in Seq(Entries) /\ p \in Nat
    BY DEF IsPages
  <2> DEFINE e == pages[p].entries
  <2>4. j \in 1..Len(e) /\ Len(e) \in Nat
    <3> HIDE DEF e
    <3> QED
      BY <2>2, <2>3 DEF e
  <2> HIDE DEF e
  <2>5. j \in Nat
    BY <2>4
  <2> QED
    BY <2>2, <2>3, <2>5
<1>2. PICK p \in Nat, j \in Nat : r = <<p, j>>
  BY <1>1
<1>3. PICK q \in Nat, k \in Nat : s = <<q, k>>
  BY <1>1
<1> QED
  BY <1>2, <1>3 DEF Before

(* A place of one kind holds an entry of it.                                *)
LEMMA SlotEntry ==
  ASSUME NEW pages, IsPages(pages), NEW s \in Slots(pages)
  PROVE  EntryAt(pages, s) \in Entries
<1>1. PICK p \in DOMAIN pages : s \in {p} \X DOMAIN pages[p].entries
  BY DEF Slots
<1>2. PICK j \in DOMAIN pages[p].entries : s = <<p, j>>
  BY <1>1
<1>3. pages[p].entries \in Seq(Entries)
  BY DEF IsPages
<1>4. pages[p].entries[j] \in Entries
  BY <1>2, <1>3
<1> QED
  BY <1>2, <1>4 DEF EntryAt

(* Strictly ascending ids are as many as the places that hold them.         *)
LEMMA IdsCount ==
  ASSUME NEW pages, IsPages(pages), NEW kind, StrictlyAscending(pages, kind),
         NEW I, IsFiniteSet(I), I \subseteq Nat,
         I = {EntryAt(pages, s).id : s \in OfKind(pages, kind)}
  PROVE  Cardinality(OfKind(pages, kind)) = Cardinality(I)
<1> DEFINE S == OfKind(pages, kind)
<1> DEFINE f == [s \in S |-> EntryAt(pages, s).id]
<1>1. f \in [S -> I]
  OBVIOUS
<1>2. ASSUME NEW r \in S, NEW s \in S, f[r] = f[s] PROVE r = s
  <2> SUFFICES ASSUME r # s PROVE FALSE
    OBVIOUS
  <2>1. Before(r, s) \/ Before(s, r)
    BY SlotsOrdered DEF OfKind
  <2>2. f[r] < f[s] \/ f[s] < f[r]
    BY <2>1 DEF StrictlyAscending
  <2>3. f[r] \in Nat /\ f[s] \in Nat
    BY <1>1
  <2> HIDE DEF f
  <2> QED
    BY <1>2, <2>2, <2>3
<1>3. \A i \in I : \E s \in S : f[s] = i
  OBVIOUS
<1> HIDE DEF f, S
<1>4. f \in Injection(S, I)
  BY <1>1, <1>2, Fun_IsInj
<1>5. f \in Surjection(S, I)
  BY <1>1, <1>3, Fun_IsSurj
<1>6. Cardinality(S) = Cardinality(I)
  BY <1>4, <1>5, FS_Injection
<1> QED
  BY <1>6 DEF S

(* The values that arrive for the ids of one kind.                          *)
LEMMA ValuesShape ==
  ASSUME NEW pages, IsPages(pages)
  PROVE  /\ DOMAIN ValuesOf(pages, "DOM") \subseteq Domains
         /\ \A i \in DOMAIN ValuesOf(pages, "DOM") : ValuesOf(pages, "DOM")[i] \in DomainState
         /\ DOMAIN ValuesOf(pages, "TLD") \subseteq Tlds
         /\ \A i \in DOMAIN ValuesOf(pages, "TLD") : ValuesOf(pages, "TLD")[i] \in TldState
<1>1. ASSUME NEW s \in OfKind(pages, "DOM")
      PROVE  EntryAt(pages, s).id \in Domains /\ EntryAt(pages, s).val \in DomainState
  <2>1. EntryAt(pages, s) \in Entries /\ EntryAt(pages, s).kind = "DOM"
    BY SlotEntry DEF OfKind
  <2> QED
    BY <2>1 DEF Entries
<1>2. ASSUME NEW s \in OfKind(pages, "TLD")
      PROVE  EntryAt(pages, s).id \in Tlds /\ EntryAt(pages, s).val \in TldState
  <2>1. EntryAt(pages, s) \in Entries /\ EntryAt(pages, s).kind = "TLD"
    BY SlotEntry DEF OfKind
  <2> QED
    BY <2>1 DEF Entries
<1>3. ASSUME NEW kind, NEW i \in DOMAIN ValuesOf(pages, kind)
      PROVE  \E s \in OfKind(pages, kind) : /\ EntryAt(pages, s).id = i
                                            /\ ValuesOf(pages, kind)[i] = EntryAt(pages, s).val
  <2> DEFINE c == CHOOSE s \in OfKind(pages, kind) : EntryAt(pages, s).id = i
  <2>1. \E s \in OfKind(pages, kind) : EntryAt(pages, s).id = i
    BY DEF ValuesOf
  <2>2. c \in OfKind(pages, kind) /\ EntryAt(pages, c).id = i
    BY <2>1
  <2>3. ValuesOf(pages, kind)[i] = EntryAt(pages, c).val
    BY DEF ValuesOf
  <2> HIDE DEF c
  <2> QED
    BY <2>2, <2>3
<1>4. ASSUME NEW i \in DOMAIN ValuesOf(pages, "DOM")
      PROVE  i \in Domains /\ ValuesOf(pages, "DOM")[i] \in DomainState
  BY <1>1, <1>3
<1>5. ASSUME NEW i \in DOMAIN ValuesOf(pages, "TLD")
      PROVE  i \in Tlds /\ ValuesOf(pages, "TLD")[i] \in TldState
  BY <1>2, <1>3
<1> QED
  BY <1>4, <1>5

(* import_verified_snapshot.                                                *)
LEMMA ImportGood ==
  ASSUME NEW st, Good(st), NEW h \in Hashes, NEW m, NEW pages, IsPages(pages),
         import_verified_snapshot(st, CheckpointOf(h), m, pages) # None
  PROVE  Good(import_verified_snapshot(st, CheckpointOf(h), m, pages))
<1> DEFINE new == import_verified_snapshot(st, CheckpointOf(h), m, pages)
<1> DEFINE vd == ValuesOf(pages, "DOM")
<1> DEFINE vt == ValuesOf(pages, "TLD")
<1> DEFINE d == Overwrite(st.domains, vd)
<1> DEFINE t == Overwrite(st.tlds, vt)
<1> DEFINE dc == m.domainCount
<1> DEFINE tc == m.tldCount
<1> DEFINE s == [height |-> m.height, hash |-> m.hash, domains |-> d, tlds |-> t]
<1> DEFINE tip == [height |-> m.height, hash |-> m.hash]
<1>1. ImportOk(st, CheckpointOf(h), m, pages) /\ new = write_verified_snapshot(st, m, d, t)
  BY DEF import_verified_snapshot
<1>2. st.tip.height = 0 /\ m.height = BlockOf[h].height /\ m.height # 0 /\ m.hash = h
  BY <1>1 DEF ImportOk, CheckpointOf
<1>3. m.height \in Heights
  BY <1>2, HeightsAre
<1>e. Stored(st.domains) = {} /\ Stored(st.tlds) = {} /\ st.names = {}
  BY <1>2 DEF Good, Booked
<1>t. st.domains \in DomainTable /\ st.tlds \in TldTable
  BY DEF Good, Typed
<1>v. /\ DOMAIN vd \subseteq Domains /\ \A i \in DOMAIN vd : vd[i] \in DomainState
      /\ DOMAIN vt \subseteq Tlds /\ \A i \in DOMAIN vt : vt[i] \in TldState
  BY ValuesShape
<1>c. dc = Cardinality(DOMAIN vd) /\ tc = Cardinality(DOMAIN vt)
  <2>1. /\ StrictlyAscending(pages, "DOM") /\ StrictlyAscending(pages, "TLD")
        /\ Cardinality(OfKind(pages, "DOM")) = dc /\ Cardinality(OfKind(pages, "TLD")) = tc
    BY <1>1 DEF ImportOk, EntriesMatch
  <2>2. /\ DOMAIN vd = {EntryAt(pages, r).id : r \in OfKind(pages, "DOM")}
        /\ DOMAIN vt = {EntryAt(pages, r).id : r \in OfKind(pages, "TLD")}
    BY DEF ValuesOf
  <2>3. Domains \subseteq Nat /\ Tlds \subseteq Nat
    BY StoreConstants DEF Ids
  <2>4. /\ IsFiniteSet(DOMAIN vd) /\ DOMAIN vd \subseteq Nat
        /\ IsFiniteSet(DOMAIN vt) /\ DOMAIN vt \subseteq Nat
    BY <1>v, <2>3, RegistryConstants, FS_Subset
  <2> HIDE DEF vd, vt
  <2>5. Cardinality(OfKind(pages, "DOM")) = Cardinality(DOMAIN vd)
    BY <2>1, <2>2, <2>4, IdsCount
  <2>6. Cardinality(OfKind(pages, "TLD")) = Cardinality(DOMAIN vt)
    BY <2>1, <2>2, <2>4, IdsCount
  <2> QED
    BY <2>1, <2>5, <2>6
<1> HIDE DEF vd, vt
<1>s. Stored(d) = DOMAIN vd /\ Stored(t) = DOMAIN vt
  <2>1. DOMAIN st.domains = Domains /\ DOMAIN st.tlds = Tlds
    BY <1>t DEF DomainTable, TldTable
  <2>2. \A i \in DOMAIN vd : vd[i] # None
    BY <1>v, NoneIsNoEntry
  <2>3. \A i \in DOMAIN vt : vt[i] # None
    BY <1>v, NoneIsNoEntry
  <2>4. Stored(d) = Stored(st.domains) \cup DOMAIN vd
    BY <1>v, <2>1, <2>2, StoredDelta
  <2>5. Stored(t) = Stored(st.tlds) \cup DOMAIN vt
    BY <1>v, <2>1, <2>3, StoredDelta
  <2> QED
    BY <1>e, <2>4, <2>5
<1>u. d \in DomainTable /\ t \in TldTable
  BY <1>t, <1>v DEF DomainTable, TldTable, Overwrite
<1>z. IsSnapshot(s) /\ tip.height = m.height /\ tip.hash = h
  BY <1>2, <1>3, <1>u DEF IsSnapshot
<1>i. IsStore(new)
  BY ImportOK DEF Good, Allowed
<1> HIDE DEF d, t
<1>4. new = [st EXCEPT !.domains = d, !.tlds = t, !.domainCount = dc, !.tldCount = tc,
                       !.snapshot = s, !.tip = tip, !.marker = tip]
  BY <1>1 DEF write_verified_snapshot
<1> HIDE DEF new, dc, tc, s, tip
<1>5. /\ new.byHash = st.byHash /\ new.domains = d /\ new.tlds = t
      /\ new.domainCount = dc /\ new.tldCount = tc
      /\ new.names = st.names /\ new.reverse = st.reverse /\ new.tip = tip
      /\ new.snapshot = s
  BY <1>4 DEF IsStore, Good
<1>6. Typed(new)
  BY <1>5, <1>u, <1>z DEF Good, Typed
<1>7. Booked(new)
  BY <1>2, <1>5, <1>c, <1>e, <1>s, <1>z DEF Good, Booked
<1> QED
  BY <1>i, <1>6, <1>7 DEF Good, new

-----------------------------------------------------------------------------
(* The chain that comes back from a store.                                  *)

(* The registry that restore_domain and restore_tld rebuild.                *)
LEMMA RestoredShape ==
  ASSUME NEW domains \in DomainTable, NEW tlds \in TldTable
  PROVE  IsRegistry(RestoredState(domains, tlds))
<1> DEFINE ds == Range(ReadPages(domains, PAGE))
<1> DEFINE ts == Range(ReadPages(tlds, PAGE))
<1> DEFINE a == [d \in Domains |-> IF d \in ds THEN domains[d] ELSE None]
<1> DEFINE b == [t \in Tlds |-> IF t \in ts THEN tlds[t] ELSE None]
<1> DEFINE q == {<<domains[d].validUntil, d>> : d \in ds}
<1> DEFINE new == RestoredState(domains, tlds)
<1>1. IsFiniteSet(ds)
  <2>1. IsTable(domains) /\ PAGE \in Nat \ {0}
    BY TablesFinite, StoreConstants
  <2> QED
    BY <2>1, ReadIds
<1>2. a \in [Domains -> DomainState \cup {None}] /\ b \in [Tlds -> TldState \cup {None}]
  <2> HIDE DEF ds, ts
  <2> QED
    BY DEF DomainTable, TldTable
<1>3. IsFiniteSet(q)
  <2> HIDE DEF ds
  <2> DEFINE f == [d \in ds |-> <<domains[d].validUntil, d>>]
  <2>1. f \in [ds -> q] /\ \A p \in q : \E d \in ds : f[d] = p
    OBVIOUS
  <2> HIDE DEF f, q
  <2>2. f \in Surjection(ds, q)
    BY <2>1, Fun_IsSurj
  <2> QED
    BY <1>1, <2>2, FS_Surjection
<1> DEFINE dc == Cardinality(ds)
<1> DEFINE tc == Cardinality(ts)
<1> DEFINE refs == [o \in Owners |-> Cardinality({d \in ds : domains[d].owner = o})
                                       + Cardinality({t \in ts : tlds[t].owner = o})]
<1> DEFINE smt == {DomainLeaf(d, domains[d]) : d \in ds} \cup {TldLeaf(t, tlds[t]) : t \in ts}
<1>4. new = [EmptyState EXCEPT !.domains = a, !.tlds = b, !.domainCount = dc, !.tldCount = tc,
                               !.ownerRefs = refs, !.expirations = q, !.smt = smt]
  BY DEF RestoredState, restore_entries
<1> HIDE DEF new, a, b, q, dc, tc, refs, smt
<1>5. /\ DOMAIN new = DOMAIN EmptyState
      /\ new.domains = a /\ new.tlds = b /\ new.expirations = q
  BY <1>4 DEF EmptyState
<1>6. {"domains", "tlds", "expirations"} \subseteq DOMAIN EmptyState
  BY EmptyIsRegistry DEF IsRegistry
<1> QED
  BY <1>2, <1>3, <1>5, <1>6 DEF IsRegistry, new

(* Blockchain::restore.                                                     *)
LEMMA RestoreShape ==
  ASSUME NEW height, NEW hash \in Hashes, NEW s, IsRegistry(s)
  PROVE  IsChain(restore(height, hash, s))
<1> DEFINE new == restore(height, hash, s)
<1> DEFINE ca == <<0, hash>>
<1> DEFINE kn == [k \in {0, height} |-> IF k = 0 THEN 0 ELSE hash]
<1>1. new = [NewNode EXCEPT !.base = height, !.canonical = ca, !.known = kn, !.tip = hash,
                            !.state = s]
  BY DEF restore
<1>2. ca \in Seq(Tree) /\ ca # <<>> /\ hash \in Tree
  BY DEF Tree
<1> HIDE DEF new, ca, kn
<1>3. /\ DOMAIN new = DOMAIN NewNode /\ new.canonical = ca /\ new.tip = hash /\ new.state = s
      /\ new.checkpoints = <<>>
  BY <1>1 DEF NewNode
<1> QED
  BY <1>2, <1>3, NewIsChain DEF IsChain, new

(* The stored blocks of a range without a hole.                             *)
LEMMA StoredRange ==
  ASSUME NEW st, Good(st), NEW lo \in Nat, lo # 0,
         ~\E k \in lo..st.tip.height : st.byHeight[k] = None
  PROVE  /\ st.tip.height \in Nat
         /\ SubSeq(st.byHeight, lo, st.tip.height) \in Seq(Hashes)
<1> DEFINE t == st.tip.height
<1>1. t \in Heights \cup {0} /\ st.byHeight \in [Heights -> Hashes \cup {None}]
  BY DEF Good, IsStore
<1>2. Heights \subseteq Nat /\ Heights = 1..Cardinality(Heights)
  BY HeightsAre, StoreConstants
<1>c. Cardinality(Heights) \in Nat
  BY StoreConstants, FS_CardinalityType
<1> HIDE DEF Heights, t
<1>3. t \in Nat
  BY <1>1, <1>2
<1>4. ASSUME NEW k \in lo..t PROVE st.byHeight[k] \in Hashes
  <2>1. k \in Nat /\ k # 0 /\ k <= t
    BY <1>3
  <2>2. t \in 1..Cardinality(Heights)
    <3>1. t # 0
      BY <1>3, <2>1
    <3>2. t \in Heights
      BY <1>1, <3>1
    <3> QED
      BY <1>2, <3>2, Zenon
  <2>3. k \in Heights
    BY <1>2, <1>c, <2>1, <2>2
  <2>4. st.byHeight[k] # None
    BY <1>4 DEF t
  <2> QED
    BY <1>1, <2>3, <2>4
<1>5. SubSeq(st.byHeight, lo, t) \in Seq(Hashes)
  BY <1>3, <1>4, SubSeqProperties
<1> QED
  BY <1>3, <1>5 DEF t

(* load_chain.                                                              *)
LEMMA LoadShape ==
  ASSUME NEW st, Good(st), load_chain(st) # None
  PROVE  IsChain(load_chain(st))
<1> DEFINE snap == try_load_from_snapshot(st)
<1> DEFINE full == load_from_full_state(st)
<1> DEFINE s == st.snapshot
<1>1. CASE st.tip.height = 0
  BY <1>1, NewIsChain DEF load_chain
<1>2. CASE st.tip.height # 0
  <2>1. ASSUME snap # None PROVE IsChain(snap)
    <3> DEFINE r == restore(s.height, s.hash, RestoredState(s.domains, s.tlds))
    <3> DEFINE hs == SubSeq(st.byHeight, s.height + 1, st.tip.height)
    <3>1. /\ s # None /\ push_all(r, hs) # None /\ snap = push_all(r, hs)
          /\ ~\E k \in (s.height + 1)..st.tip.height : st.byHeight[k] = None
      BY <2>1 DEF try_load_from_snapshot, Then
    <3>2. IsSnapshot(s)
      BY <3>1 DEF Good, Typed
    <3>3. IsChain(r)
      BY <3>2, RestoredShape, RestoreShape DEF IsSnapshot
    <3>4. hs \in Seq(Hashes)
      <4>1. s.height \in Nat
        BY <3>2, HeightsAre DEF IsSnapshot
      <4>2. s.height + 1 \in Nat /\ s.height + 1 # 0
        BY <4>1
      <4> QED
        BY <3>1, <4>2, StoredRange
    <3> HIDE DEF r, hs, snap
    <3> QED
      BY <3>1, <3>3, <3>4, PushAllShape
  <2>2. ASSUME full # None PROVE IsChain(full)
    <3>1. full = restore(st.tip.height, st.tip.hash, RestoredState(st.domains, st.tlds))
      BY <2>2 DEF load_from_full_state
    <3>2. st.tip.hash \in Hashes /\ st.domains \in DomainTable /\ st.tlds \in TldTable
      BY <1>2 DEF Good, Typed
    <3> QED
      BY <3>1, <3>2, RestoredShape, RestoreShape
  <2> DEFINE c == OrElse(snap, full)
  <2> DEFINE z == load_chain(st)
  <2> HIDE DEF snap, full
  <2>3. c # None /\ z = rebuild_replay_index_from_store(st, c)
    BY <1>2 DEF load_chain, Then, snap, full
  <2>4. IsChain(c)
    BY <2>1, <2>2, <2>3 DEF OrElse
  <2> HIDE DEF c, z
  <2>5. \E f : z = [c EXCEPT !.included = f]
    BY <2>3 DEF rebuild_replay_index_from_store, z
  <2>6. PICK f : z = [c EXCEPT !.included = f]
    BY <2>5
  <2>7. /\ DOMAIN z = DOMAIN c /\ z.canonical = c.canonical /\ z.tip = c.tip
        /\ z.state = c.state /\ z.checkpoints = c.checkpoints
    BY <2>4, <2>6 DEF IsChain
  <2> QED
    BY <2>4, <2>7 DEF IsChain, z
<1> QED
  BY <1>1, <1>2

(* load_chain_replay; an empty store replays to genesis.                    *)
LEMMA ReplayShape ==
  ASSUME NEW st, Good(st), load_chain_replay(st) # None
  PROVE  /\ IsChain(load_chain_replay(st))
         /\ st.tip.height = 0 => load_chain_replay(st) = NewNode
<1> DEFINE hs == SubSeq(st.byHeight, 1, st.tip.height)
<1>1. /\ ~\E k \in 1..st.tip.height : st.byHeight[k] = None
      /\ push_all(NewNode, hs) # None /\ load_chain_replay(st) = push_all(NewNode, hs)
  BY DEF load_chain_replay, Then
<1>2. hs \in Seq(Hashes)
  BY <1>1, StoredRange
<1>3. st.tip.height = 0 => hs = <<>>
  BY SubSeqEmpty
<1> HIDE DEF hs
<1> QED
  BY <1>1, <1>2, <1>3, NewIsChain, PushAllShape, PushAllIs

-----------------------------------------------------------------------------
(* The inductive invariant: every store is good and every chain in RAM is   *)
(* one that its store may be extended from.                                 *)
StoreInv ==
  /\ DOMAIN store = Nodes /\ DOMAIN chain = Nodes
  /\ \A n \in Nodes : Good(store[n]) /\ (chain[n] # None => IsChain(chain[n]))

(* A store on a new file is good.                                           *)
LEMMA NewStoreGood == Good(NewStore)
<1> DEFINE d == [i \in Domains |-> None]
<1> DEFINE t == [i \in Tlds |-> None]
<1>1. d \in DomainTable /\ t \in TldTable /\ Stored(d) = {} /\ Stored(t) = {}
  BY DEF DomainTable, TldTable, Stored
<1>2. Cardinality({}) = 0
  BY FS_EmptySet
<1>3. IsStore(NewStore)
  BY DEF IsStore, NewStore
<1> HIDE DEF d, t
<1>4. /\ NewStore.byHash = {} /\ NewStore.domains = d /\ NewStore.tlds = t
      /\ NewStore.domainCount = 0 /\ NewStore.tldCount = 0
      /\ NewStore.names = {} /\ NewStore.reverse = {}
      /\ NewStore.tip.height = 0 /\ NewStore.tip.hash = 0 /\ NewStore.snapshot = None
  BY DEF NewStore, d, t
<1>5. Typed(NewStore)
  BY <1>1, <1>4 DEF Typed
<1>6. Booked(NewStore)
  BY <1>1, <1>2, <1>4 DEF Booked
<1> QED
  BY <1>3, <1>5, <1>6 DEF Good

(* One node may write a good store and a good chain,                        *)
LEMMA StepKeeps ==
  ASSUME StoreInv, NEW n \in Nodes, NEW c, NEW st, Good(st), c # None => IsChain(c),
         chain' = [chain EXCEPT ![n] = c], store' = [store EXCEPT ![n] = st]
  PROVE  StoreInv'
  BY DEF StoreInv

(* a good store while it is down,                                           *)
LEMMA WriteKeeps ==
  ASSUME StoreInv, NEW n \in Nodes, NEW st, st # None => Good(st), Write(n, st)
  PROVE  StoreInv'
<1>1. store' = [store EXCEPT ![n] = st] /\ chain' = chain /\ Good(st)
  BY DEF Write
<1> QED
  BY <1>1 DEF StoreInv

(* or a good chain alone.                                                   *)
LEMMA ChainKeeps ==
  ASSUME StoreInv, NEW n \in Nodes, NEW c, c # None => IsChain(c),
         chain' = [chain EXCEPT ![n] = c], UNCHANGED store
  PROVE  StoreInv'
  BY DEF StoreInv

(* Every step keeps the invariant, by cases on its action.                  *)
LEMMA StoreInvNext == StoreInv /\ [Next]_vars => StoreInv'
<1> SUFFICES ASSUME StoreInv, [Next]_vars PROVE StoreInv'
  OBVIOUS
<1>u. CASE UNCHANGED vars
  BY <1>u DEF StoreInv, vars
<1>n. CASE Next
  <2> PICK n \in Nodes :
        \/ \E h \in Hashes : AcceptBlock(n, h) \/ FetchAnchor(n, h)
        \/ Crash(n) \/ Restart(n) \/ RebuildNames(n)
        \/ \E d \in Domains : RepairDomain(n, d)
        \/ \E t \in Tlds : RepairTld(n, t)
        \/ \E from \in Nodes, h \in Hashes : Import(n, from, h)
    BY <1>n DEF Next
  <2> DEFINE st == store[n]
  <2>0. Good(st) /\ (chain[n] # None => IsChain(chain[n]))
    BY DEF StoreInv
  <2> HIDE DEF st
  <2>1. ASSUME NEW h \in Hashes, AcceptBlock(n, h) PROVE StoreInv'
    <3> DEFINE c == try_attach(chain[n], h)
    <3> DEFINE res == store_block_with_removals(st, c.state, h, Removed(chain[n], h))
    <3>1. /\ chain[n] # None /\ c # None /\ chain' = [chain EXCEPT ![n] = c]
          /\ store' = [store EXCEPT ![n] = OrElse(res, st)]
      BY <2>1 DEF AcceptBlock, st
    <3>2. IsChain(c) /\ Registered(c.state, h)
      BY <2>0, <3>1, AttachShape
    <3> HIDE DEF c
    <3>3. res # None => Good(res)
      BY <2>0, <3>2, StoreBlockGood DEF IsChain
    <3> HIDE DEF res
    <3>4. Good(OrElse(res, st))
      BY <2>0, <3>3 DEF OrElse
    <3> QED
      BY <3>1, <3>2, <3>4, StepKeeps
  <2>2. ASSUME NEW h \in Hashes, FetchAnchor(n, h) PROVE StoreInv'
    <3>1. Write(n, append_bootstrap_anchor(st, h))
      BY <2>2 DEF FetchAnchor, st
    <3>2. append_bootstrap_anchor(st, h) # None => Good(append_bootstrap_anchor(st, h))
      BY <2>0, AnchorGood
    <3> QED
      BY <3>1, <3>2, WriteKeeps
  <2>3. CASE Crash(n)
    BY <2>3, ChainKeeps DEF Crash
  <2>4. CASE Restart(n)
    <3>1. /\ load_chain(st) # None /\ chain' = [chain EXCEPT ![n] = load_chain(st)]
          /\ UNCHANGED store
      BY <2>4 DEF Restart, st
    <3>2. IsChain(load_chain(st))
      BY <2>0, <3>1, LoadShape
    <3> QED
      BY <3>1, <3>2, ChainKeeps
  <2>5. CASE RebuildNames(n)
    <3>1. Write(n, rebuild_name_index(st))
      BY <2>5 DEF RebuildNames, st
    <3>2. rebuild_name_index(st) # None => Good(rebuild_name_index(st))
      BY <2>0, RebuildGood
    <3> QED
      BY <3>1, <3>2, WriteKeeps
  <2>6. ASSUME NEW d \in Domains, RepairDomain(n, d) PROVE StoreInv'
    <3> DEFINE c == load_chain_replay(st)
    <3> DEFINE v == c.state.domains[d]
    <3>1. /\ c # None
          /\ \/ Write(n, remove_domain_state(st, d))
             \/ /\ v # None
                /\ \/ Write(n, put_domain_state(st, d, v))
                   \/ Write(n, put_domain_state_with_name(st, d, v))
      BY <2>6 DEF RepairDomain, st
    <3>2. IsChain(c) /\ (st.tip.height = 0 => c = NewNode)
      BY <2>0, <3>1, ReplayShape
    <3>3. Good(remove_domain_state(st, d))
      BY <2>0, RemoveDomainGood
    <3>4. ASSUME v # None
          PROVE  Good(put_domain_state(st, d, v)) /\ Good(put_domain_state_with_name(st, d, v))
      <4>1. v \in DomainState
        BY <3>2, <3>4 DEF IsChain, IsRegistry
      <4>2. NewNode.state.domains[d] = None
        BY DEF NewNode, EmptyState
      <4>3. st.tip.height # 0
        BY <3>2, <3>4, <4>2
      <4> HIDE DEF v
      <4> QED
        BY <2>0, <4>1, <4>3, PutDomainGood
    <3> HIDE DEF c, v
    <3> QED
      BY <3>1, <3>3, <3>4, WriteKeeps
  <2>7. ASSUME NEW t \in Tlds, RepairTld(n, t) PROVE StoreInv'
    <3> DEFINE c == load_chain_replay(st)
    <3> DEFINE v == c.state.tlds[t]
    <3>1. /\ c # None /\ v # None
          /\ \/ Write(n, put_tld_state(st, t, v))
             \/ Write(n, put_tld_state_with_name(st, t, v))
      BY <2>7 DEF RepairTld, st
    <3>2. IsChain(c) /\ (st.tip.height = 0 => c = NewNode)
      BY <2>0, <3>1, ReplayShape
    <3>3. v \in TldState
      BY <3>1, <3>2 DEF IsChain, IsRegistry
    <3>4. NewNode.state.tlds[t] = None
      BY DEF NewNode, EmptyState
    <3>5. st.tip.height # 0
      BY <3>1, <3>2, <3>4
    <3> HIDE DEF c, v
    <3>6. Good(put_tld_state(st, t, v)) /\ Good(put_tld_state_with_name(st, t, v))
      BY <2>0, <3>3, <3>5, PutTldGood
    <3> QED
      BY <3>1, <3>6, WriteKeeps
  <2>8. ASSUME NEW from \in Nodes, NEW h \in Hashes, Import(n, from, h) PROVE StoreInv'
    <3> DEFINE x == export_verified_snapshot(store[from], CheckpointOf(h))
    <3>1. x # None
      BY <2>8 DEF Import
    <3>2. PICK y \in Arrivals(x) :
            Write(n, import_verified_snapshot(st, CheckpointOf(h), y.manifest, y.pages))
      BY <2>8 DEF Import, st
    <3> DEFINE new == import_verified_snapshot(st, CheckpointOf(h), y.manifest, y.pages)
    <3>3. Good(store[from])
      BY DEF StoreInv
    <3>4. IsPages(y.pages)
      <4> HIDE DEF x
      <4> QED
        BY <3>1, <3>2, <3>3, ArrivalShape DEF x
    <3>5. new # None => Good(new)
      BY <2>0, <3>4, ImportGood
    <3> HIDE DEF new
    <3> QED
      BY <3>2, <3>5, WriteKeeps DEF new
  <2> QED
    BY <2>1, <2>2, <2>3, <2>4, <2>5, <2>6, <2>7, <2>8
<1> QED
  BY <1>n, <1>u

(* The invariant always holds.                                              *)
LEMMA StoreInvHolds == Spec => []StoreInv
<1>1. Init => StoreInv
  BY NewStoreGood, NewIsChain DEF Init, StoreInv
<1> QED
  BY <1>1, StoreInvNext, PTL DEF Spec

(* The maintained counters of every store count its tables, its two name    *)
(* rows agree and no name outlives its entry, after any interleaving of     *)
(* appends across any forks, crashes, restarts, repairs, rebuilds and       *)
(* imports of altered exports (redb.rs append_deltas, apply_name_deltas,    *)
(* write_verified_snapshot).                                                *)
THEOREM BookkeepingAlwaysExact == Spec => []BookkeepingExact
<1>1. StoreInv => BookkeepingExact
  <2> SUFFICES ASSUME StoreInv, NEW n \in Nodes
               PROVE  LET st == store[n]
                      IN /\ st.domainCount = Cardinality(Stored(st.domains))
                         /\ st.tldCount = Cardinality(Stored(st.tlds))
                         /\ \A i \in Ids : /\ resolve(st, i, Domains) \in {None, i}
                                           /\ resolve(st, i, Tlds) \in {None, i}
                         /\ st.names \subseteq Stored(st.domains) \cup Stored(st.tlds)
    BY DEF BookkeepingExact
  <2> DEFINE st == store[n]
  <2>1. Booked(st)
    BY DEF StoreInv, Good
  <2> HIDE DEF st
  <2>2. \A i, ns : resolve(st, i, ns) \in {None, i}
    BY <2>1 DEF Booked, resolve
  <2> QED
    BY <2>1, <2>2 DEF Booked, st
<1> QED
  BY <1>1, StoreInvHolds, PTL

(* The tables keep the shape of the code's, on every node.                  *)
THEOREM StoreTyped == Spec => []TypeOK
<1>1. StoreInv => TypeOK
  <2> SUFFICES ASSUME StoreInv, NEW n \in Nodes
               PROVE  /\ store[n].byHeight \in [Heights -> Hashes \cup {None}]
                      /\ store[n].byHash \subseteq Hashes
                      /\ store[n].domains \in [Domains -> DomainState \cup {None}]
                      /\ store[n].tlds \in [Tlds -> TldState \cup {None}]
                      /\ store[n].domainCount \in Nat /\ store[n].tldCount \in Nat
                      /\ store[n].names \subseteq Ids /\ store[n].reverse \subseteq Ids
                      /\ store[n].tip.height \in Heights \cup {0}
                      /\ store[n].tip.hash \in Hashes \cup {0}
                      /\ chain[n] # None => chain[n].tip \in Hashes \cup {0}
    BY DEF TypeOK
  <2> DEFINE st == store[n]
  <2>1. Good(st) /\ (chain[n] # None => IsChain(chain[n]))
    BY DEF StoreInv
  <2> HIDE DEF st
  <2>2. /\ st.byHeight \in [Heights -> Hashes \cup {None}] /\ st.byHash \subseteq Hashes
        /\ st.domains \in DomainTable /\ st.tlds \in TldTable
        /\ st.tip.height \in Heights \cup {0} /\ st.tip.hash \in Hashes \cup {0}
    BY <2>1 DEF Good, IsStore, Typed
  <2>3. IsFiniteSet(Stored(st.domains)) /\ Stored(st.domains) \subseteq Domains
        /\ IsFiniteSet(Stored(st.tlds)) /\ Stored(st.tlds) \subseteq Tlds
    BY <2>2, TablesFinite
  <2>4. st.domainCount \in Nat /\ st.tldCount \in Nat
    BY <2>1, <2>3, FS_CardinalityType DEF Good, Booked
  <2>5. st.names \subseteq Ids /\ st.reverse \subseteq Ids
    BY <2>1, <2>3 DEF Good, Booked, Ids
  <2>6. chain[n] # None => chain[n].tip \in Hashes \cup {0}
    BY <2>1 DEF IsChain, Tree
  <2> QED
    BY <2>2, <2>4, <2>5, <2>6 DEF st, DomainTable, TldTable
<1> QED
  BY <1>1, StoreInvHolds, PTL
=============================================================================
