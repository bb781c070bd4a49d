-------------------------- MODULE ChainState_proofs --------------------------
(***************************************************************************)
(* For any owners, domains, TLDs, terms and timestamps, and for blocks of   *)
(* any length: the derived indexes of the registry are exact in every       *)
(* state, and the rollback of a refused block restores every field.         *)
(***************************************************************************)
EXTENDS ChainState, FiniteSetTheorems, TLAPS

(* A well-formed registry whose derived fields are exact.                   *)
Good(s) ==
  /\ s \in State
  /\ SmtExact(s)
  /\ QueueExact(s)
  /\ PoolExact(s)
  /\ CountsExact(s)
  /\ GraceExact(s)

Owned(v, o) == v # None /\ v.owner = o
One(b) == IF b THEN 1 ELSE 0

-----------------------------------------------------------------------------
(* Counting.                                                                *)

(* Adding or removing one element moves a cardinality by what membership    *)
(* changes: the step behind every reference count and entry counter.        *)
LEMMA CountChange ==
  ASSUME NEW S, IsFiniteSet(S), NEW x, NEW b \in BOOLEAN,
         NEW T, T = IF b THEN S \cup {x} ELSE S \ {x}
  PROVE  /\ IsFiniteSet(T)
         /\ Cardinality(S) \in Nat
         /\ Cardinality(T) \in Nat
         /\ Cardinality(T) + One(x \in S) = Cardinality(S) + One(b)
<1>1. CASE b
  <2>1. /\ IsFiniteSet(S \cup {x})
        /\ Cardinality(S \cup {x}) = IF x \in S THEN Cardinality(S) ELSE Cardinality(S) + 1
    BY FS_AddElement
  <2> QED
    BY <1>1, <2>1, FS_CardinalityType DEF One
<1>2. CASE ~b
  <2>1. /\ IsFiniteSet(S \ {x})
        /\ Cardinality(S \ {x}) = IF x \in S THEN Cardinality(S) - 1 ELSE Cardinality(S)
    BY FS_RemoveElement
  <2> QED
    BY <1>2, <2>1, FS_CardinalityType DEF One
<1> QED
  BY <1>1, <1>2

(* What the reference count r of an owner becomes when one of its two sets  *)
(* of holdings goes from a to b.                                            *)
LEMMA Balance ==
  ASSUME NEW r \in Nat, NEW q \in Nat, NEW a \in Nat, NEW b \in Nat, NEW c \in Nat,
         NEW x \in Nat, NEW y \in Nat,
         r = a + c, q + x = r + y, b + x = a + y
  PROVE  q = b + c /\ q = c + b
OBVIOUS

(* The leaf of an entry.                                                    *)
LEMMA LeafIs == \A d \in Domains, v \in DomainState : DomainLeaf(d, v) \in Leaf
<1> SUFFICES ASSUME NEW d \in Domains, NEW v \in DomainState PROVE DomainLeaf(d, v) \in Leaf
  OBVIOUS
<1> DEFINE w == [v EXCEPT !.record = IF @ = None THEN ZERO_HASH ELSE @]
<1>1. /\ w = [owner |-> v.owner, sequence |-> v.sequence, validUntil |-> v.validUntil,
              record |-> IF v.record = None THEN ZERO_HASH ELSE v.record]
      /\ v.record \in Records \cup {ZERO_HASH, None}
  BY DEF DomainState
<1>2. w \in [owner: Owners, sequence: 0..MaxSequence, record: Records \cup {ZERO_HASH}, validUntil: Nat]
  BY <1>1 DEF DomainState
<1> HIDE DEF w
<1> QED
  BY <1>2 DEF DomainLeaf, Leaf, w

(* Leaves of different names, or of a domain and a TLD, differ.             *)
LEMMA LeavesApart ==
  /\ \A d, t, v, w : DomainLeaf(d, v) # TldLeaf(t, w)
  /\ \A c, d, v, w : DomainLeaf(d, v) = DomainLeaf(c, w) => c = d
BY DEF DomainLeaf, TldLeaf

(* The parts of a registry are finite.                                      *)
LEMMA FiniteParts ==
  ASSUME NEW s, NEW o
  PROVE  /\ IsFiniteSet(Held(s, o)) /\ IsFiniteSet(HeldTlds(s, o))
         /\ IsFiniteSet(LiveDomains(s)) /\ IsFiniteSet(LiveTlds(s))
<1>1. /\ Held(s, o) \subseteq Domains /\ LiveDomains(s) \subseteq Domains
      /\ HeldTlds(s, o) \subseteq Tlds /\ LiveTlds(s) \subseteq Tlds
  BY DEF Held, HeldTlds, LiveDomains, LiveTlds
<1> QED
  BY <1>1, RegistryConstants, FS_Subset

-----------------------------------------------------------------------------
(* One entry of the registry changes, and every index with it.              *)

(* A domain entry goes from its old value to `new`, None included, and the  *)
(* tree, the queue, the reference counts and the counter follow it.         *)
DomainStep(s, z, d, new) ==
  /\ z.tlds = s.tlds /\ z.tldCount = s.tldCount
  /\ z.domains = [s.domains EXCEPT ![d] = new]
  /\ z.smt = (s.smt \ (IF s.domains[d] = None THEN {}
                       ELSE {DomainLeaf(d, s.domains[d])}))
               \cup (IF new = None THEN {} ELSE {DomainLeaf(d, new)})
  /\ z.expirations =
       (s.expirations \ (IF s.domains[d] = None THEN {}
                         ELSE {<<s.domains[d].validUntil, d>>}))
         \cup (IF new = None THEN {} ELSE {<<new.validUntil, d>>})
  /\ \A o \in Owners :
       z.ownerRefs[o] + One(Owned(s.domains[d], o))
         = s.ownerRefs[o] + One(Owned(new, o))
  /\ z.domainCount + One(s.domains[d] # None) = s.domainCount + One(new # None)
  /\ new # None => z.grace[d] = None
  /\ \A c \in Domains \ {d} : z.grace[c] = s.grace[c]

(* Such a step keeps the indexes exact.                                     *)
LEMMA DomainChange ==
  ASSUME NEW s, Good(s), NEW z \in State, NEW d \in Domains,
         NEW new \in DomainState \cup {None}, DomainStep(s, z, d, new)
  PROVE  Good(z)
<1> USE DEF DomainStep
<1> DEFINE old == s.domains[d]
<1>1. s \in State
  BY DEF Good
<1>2. /\ \A c \in Domains : z.domains[c] = IF c = d THEN new ELSE s.domains[c]
      /\ \A t \in Tlds : z.tlds[t] = s.tlds[t]
  BY <1>1 DEF State
<1>3. LiveDomains(z) = (IF new = None THEN LiveDomains(s) \ {d}
                        ELSE LiveDomains(s) \cup {d})
  BY <1>2 DEF LiveDomains
<1>4. LiveTlds(z) = LiveTlds(s)
  BY <1>2 DEF LiveTlds
<1>5. SmtExact(z)
  <2> SUFFICES ASSUME NEW l PROVE l \in z.smt <=> l \in CommittedLeaves(z)
    BY DEF SmtExact
  <2>1. s.smt = CommittedLeaves(s)
    BY DEF Good, SmtExact
  <2>2. l \in CommittedLeaves(z) <=>
          \/ \E c \in LiveDomains(z) : l = DomainLeaf(c, z.domains[c])
          \/ \E t \in LiveTlds(s) : l = TldLeaf(t, s.tlds[t])
    BY <1>2, <1>4 DEF CommittedLeaves, LiveTlds
  <2>3. l \in s.smt <=>
          \/ \E c \in LiveDomains(s) : l = DomainLeaf(c, s.domains[c])
          \/ \E t \in LiveTlds(s) : l = TldLeaf(t, s.tlds[t])
    BY <2>1 DEF CommittedLeaves
  <2>4. /\ \A t, v, w : DomainLeaf(d, v) # TldLeaf(t, w)
        /\ \A c, v, w : DomainLeaf(d, v) = DomainLeaf(c, w) => c = d
    BY LeavesApart
  <2>5. CASE old = None /\ new = None
    BY <1>2, <1>3, <2>2, <2>3, <2>5 DEF LiveDomains
  <2>6. CASE old = None /\ new # None
    BY <1>2, <1>3, <2>2, <2>3, <2>6 DEF LiveDomains
  <2>7. CASE old # None /\ new = None
    BY <1>2, <1>3, <2>2, <2>3, <2>4, <2>7 DEF LiveDomains, LiveTlds
  <2>8. CASE old # None /\ new # None
    BY <1>2, <1>3, <2>2, <2>3, <2>4, <2>8 DEF LiveDomains, LiveTlds
  <2> QED
    BY <2>5, <2>6, <2>7, <2>8
<1>6. QueueExact(z)
  <2> SUFFICES ASSUME NEW p
               PROVE  p \in z.expirations <=>
                        \E c \in LiveDomains(z) : p = <<z.domains[c].validUntil, c>>
    BY DEF QueueExact
  <2>1. p \in s.expirations <=>
          \E c \in LiveDomains(s) : p = <<s.domains[c].validUntil, c>>
    BY DEF Good, QueueExact
  <2>2. CASE old = None /\ new = None
    BY <1>2, <1>3, <2>1, <2>2 DEF LiveDomains
  <2>3. CASE old = None /\ new # None
    BY <1>2, <1>3, <2>1, <2>3 DEF LiveDomains
  <2>4. CASE old # None /\ new = None
    BY <1>2, <1>3, <2>1, <2>4 DEF LiveDomains
  <2>5. CASE old # None /\ new # None
    BY <1>2, <1>3, <2>1, <2>5 DEF LiveDomains
  <2> QED
    BY <2>2, <2>3, <2>4, <2>5
<1>7. PoolExact(z)
  <2> SUFFICES ASSUME NEW o \in Owners
               PROVE  z.ownerRefs[o] = Cardinality(Held(z, o)) + Cardinality(HeldTlds(z, o))
    BY DEF PoolExact
  <2>1. HeldTlds(z, o) = HeldTlds(s, o)
    BY <1>2 DEF HeldTlds, OwnsTld
  <2>2. Held(z, o) = IF Owned(new, o) THEN Held(s, o) \cup {d} ELSE Held(s, o) \ {d}
    BY <1>2 DEF Held, OwnsDomain, Owned
  <2>3. (d \in Held(s, o)) = Owned(old, o)
    BY DEF Held, OwnsDomain, Owned
  <2>4. Owned(new, o) \in BOOLEAN
    BY DEF Owned
  <2>5. /\ Cardinality(Held(s, o)) \in Nat /\ Cardinality(Held(z, o)) \in Nat
        /\ Cardinality(Held(z, o)) + One(d \in Held(s, o))
             = Cardinality(Held(s, o)) + One(Owned(new, o))
    <3>1. IsFiniteSet(Held(s, o))
      BY FiniteParts
    <3> HIDE DEF DomainStep
    <3> QED
      BY <2>2, <2>4, <3>1, CountChange
  <2>6. Cardinality(HeldTlds(s, o)) \in Nat
    BY FiniteParts, FS_CardinalityType
  <2>7. s.ownerRefs[o] = Cardinality(Held(s, o)) + Cardinality(HeldTlds(s, o))
    BY DEF Good, PoolExact
  <2>8. z.ownerRefs[o] \in Nat
    BY DEF State
  <2>9. One(Owned(old, o)) \in Nat /\ One(Owned(new, o)) \in Nat
    BY DEF One
  <2>10. z.ownerRefs[o] + One(Owned(old, o)) = s.ownerRefs[o] + One(Owned(new, o))
    OBVIOUS
  <2> HIDE DEF old
  <2> QED
    BY <2>1, <2>3, <2>5, <2>6, <2>7, <2>8, <2>9, <2>10
<1>8. CountsExact(z)
  <2>1. LiveDomains(z) = IF (new # None) THEN LiveDomains(s) \cup {d}
                         ELSE LiveDomains(s) \ {d}
    BY <1>3
  <2>2. (d \in LiveDomains(s)) = (old # None)
    BY DEF LiveDomains
  <2>3. /\ Cardinality(LiveDomains(s)) \in Nat /\ Cardinality(LiveDomains(z)) \in Nat
        /\ Cardinality(LiveDomains(z)) + One(d \in LiveDomains(s))
             = Cardinality(LiveDomains(s)) + One(new # None)
    <3>1. IsFiniteSet(LiveDomains(s))
      BY FiniteParts
    <3> HIDE DEF DomainStep
    <3> QED
      BY <2>1, <3>1, CountChange
  <2>4. /\ s.domainCount = Cardinality(LiveDomains(s))
        /\ s.tldCount = Cardinality(LiveTlds(s))
    BY DEF Good, CountsExact
  <2>5. z.domainCount \in Nat
    BY DEF State
  <2>6. One(old # None) \in Nat /\ One(new # None) \in Nat
    BY DEF One
  <2>7. z.domainCount + One(old # None) = s.domainCount + One(new # None)
    OBVIOUS
  <2> HIDE DEF old
  <2> QED
    BY <1>4, <2>2, <2>3, <2>4, <2>5, <2>6, <2>7 DEF CountsExact
<1>9. GraceExact(z)
  BY <1>2, <1>3 DEF Good, GraceExact, LiveDomains
<1> QED
  BY <1>5, <1>6, <1>7, <1>8, <1>9 DEF Good

(* The same for a TLD entry.                                                *)
TldStep(s, z, t, new) ==
  /\ z.domains = s.domains /\ z.domainCount = s.domainCount
  /\ z.expirations = s.expirations /\ z.grace = s.grace
  /\ z.tlds = [s.tlds EXCEPT ![t] = new]
  /\ z.smt = (s.smt \ (IF s.tlds[t] = None THEN {} ELSE {TldLeaf(t, s.tlds[t])}))
               \cup (IF new = None THEN {} ELSE {TldLeaf(t, new)})
  /\ \A o \in Owners :
       z.ownerRefs[o] + One(Owned(s.tlds[t], o)) = s.ownerRefs[o] + One(Owned(new, o))
  /\ z.tldCount + One(s.tlds[t] # None) = s.tldCount + One(new # None)

LEMMA TldChange ==
  ASSUME NEW s, Good(s), NEW z \in State, NEW t \in Tlds,
         NEW new \in TldState \cup {None}, TldStep(s, z, t, new)
  PROVE  Good(z)
<1> USE DEF TldStep
<1> DEFINE old == s.tlds[t]
<1>1. s \in State
  BY DEF Good
<1>2. /\ \A c \in Tlds : z.tlds[c] = IF c = t THEN new ELSE s.tlds[c]
      /\ \A d \in Domains : z.domains[d] = s.domains[d]
  BY <1>1 DEF State
<1>3. LiveTlds(z) = (IF new = None THEN LiveTlds(s) \ {t} ELSE LiveTlds(s) \cup {t})
  BY <1>2 DEF LiveTlds
<1>4. LiveDomains(z) = LiveDomains(s)
  BY <1>2 DEF LiveDomains
<1>5. SmtExact(z)
  <2> SUFFICES ASSUME NEW l PROVE l \in z.smt <=> l \in CommittedLeaves(z)
    BY DEF SmtExact
  <2>1. s.smt = CommittedLeaves(s)
    BY DEF Good, SmtExact
  <2>2. l \in CommittedLeaves(z) <=>
          \/ \E d \in LiveDomains(s) : l = DomainLeaf(d, s.domains[d])
          \/ \E c \in LiveTlds(z) : l = TldLeaf(c, z.tlds[c])
    BY <1>2, <1>4 DEF CommittedLeaves, LiveDomains
  <2>3. l \in s.smt <=>
          \/ \E d \in LiveDomains(s) : l = DomainLeaf(d, s.domains[d])
          \/ \E c \in LiveTlds(s) : l = TldLeaf(c, s.tlds[c])
    BY <2>1 DEF CommittedLeaves
  <2>4. /\ \A d, v, w : DomainLeaf(d, v) # TldLeaf(t, w)
        /\ \A c, v, w : TldLeaf(t, v) = TldLeaf(c, w) => c = t /\ v = w
    BY DEF DomainLeaf, TldLeaf
  <2>5. CASE old = None /\ new = None
    BY <1>2, <1>3, <2>2, <2>3, <2>5 DEF LiveTlds
  <2>6. CASE old = None /\ new # None
    BY <1>2, <1>3, <2>2, <2>3, <2>6 DEF LiveTlds
  <2>7. CASE old # None /\ new = None
    BY <1>2, <1>3, <2>2, <2>3, <2>4, <2>7 DEF LiveDomains, LiveTlds
  <2>8. CASE old # None /\ new # None
    BY <1>2, <1>3, <2>2, <2>3, <2>4, <2>8 DEF LiveDomains, LiveTlds
  <2> QED
    BY <2>5, <2>6, <2>7, <2>8
<1>6. QueueExact(z) /\ GraceExact(z)
  BY <1>2, <1>4 DEF Good, QueueExact, GraceExact, LiveDomains
<1>7. PoolExact(z)
  <2> SUFFICES ASSUME NEW o \in Owners
               PROVE  z.ownerRefs[o] = Cardinality(Held(z, o)) + Cardinality(HeldTlds(z, o))
    BY DEF PoolExact
  <2>1. Held(z, o) = Held(s, o)
    BY <1>2 DEF Held, OwnsDomain
  <2>2. HeldTlds(z, o) = IF Owned(new, o) THEN HeldTlds(s, o) \cup {t}
                         ELSE HeldTlds(s, o) \ {t}
    BY <1>2 DEF HeldTlds, OwnsTld, Owned
  <2>3. (t \in HeldTlds(s, o)) = Owned(old, o)
    BY DEF HeldTlds, OwnsTld, Owned
  <2>4. Owned(new, o) \in BOOLEAN
    BY DEF Owned
  <2>5. /\ Cardinality(HeldTlds(s, o)) \in Nat /\ Cardinality(HeldTlds(z, o)) \in Nat
        /\ Cardinality(HeldTlds(z, o)) + One(t \in HeldTlds(s, o))
             = Cardinality(HeldTlds(s, o)) + One(Owned(new, o))
    <3>1. IsFiniteSet(HeldTlds(s, o))
      BY FiniteParts
    <3> HIDE DEF TldStep
    <3> QED
      BY <2>2, <2>4, <3>1, CountChange
  <2>6. Cardinality(Held(s, o)) \in Nat
    BY FiniteParts, FS_CardinalityType
  <2>7. s.ownerRefs[o] = Cardinality(Held(s, o)) + Cardinality(HeldTlds(s, o))
    BY DEF Good, PoolExact
  <2>8. z.ownerRefs[o] \in Nat
    BY DEF State
  <2>9. One(Owned(old, o)) \in Nat /\ One(Owned(new, o)) \in Nat
    BY DEF One
  <2>10. z.ownerRefs[o] + One(Owned(old, o)) = s.ownerRefs[o] + One(Owned(new, o))
    OBVIOUS
  <2>11. s.ownerRefs[o] \in Nat /\
         s.ownerRefs[o] = Cardinality(HeldTlds(s, o)) + Cardinality(Held(s, o))
    BY <2>5, <2>6, <2>7
  <2> HIDE DEF old
  <2> QED
    BY <2>1, <2>3, <2>5, <2>6, <2>8, <2>9, <2>10, <2>11, Balance
<1>8. CountsExact(z)
  <2>1. LiveTlds(z) = IF (new # None) THEN LiveTlds(s) \cup {t} ELSE LiveTlds(s) \ {t}
    BY <1>3
  <2>2. (t \in LiveTlds(s)) = (old # None)
    BY DEF LiveTlds
  <2>3. /\ Cardinality(LiveTlds(s)) \in Nat /\ Cardinality(LiveTlds(z)) \in Nat
        /\ Cardinality(LiveTlds(z)) + One(t \in LiveTlds(s))
             = Cardinality(LiveTlds(s)) + One(new # None)
    <3>1. IsFiniteSet(LiveTlds(s))
      BY FiniteParts
    <3> HIDE DEF TldStep
    <3> QED
      BY <2>1, <3>1, CountChange
  <2>4. /\ s.domainCount = Cardinality(LiveDomains(s))
        /\ s.tldCount = Cardinality(LiveTlds(s))
    BY DEF Good, CountsExact
  <2>5. z.tldCount \in Nat
    BY DEF State
  <2>6. One(old # None) \in Nat /\ One(new # None) \in Nat
    BY DEF One
  <2>7. z.tldCount + One(old # None) = s.tldCount + One(new # None)
    OBVIOUS
  <2> HIDE DEF old
  <2> QED
    BY <1>4, <2>2, <2>3, <2>4, <2>5, <2>6, <2>7 DEF CountsExact
<1> QED
  BY <1>5, <1>6, <1>7, <1>8 DEF Good

(* A holder has a seat: the saturation of owner_release is never used.      *)
LEMMA HolderHasSeat ==
  ASSUME NEW s, Good(s), NEW o \in Owners,
         \/ \E d \in Domains : OwnsDomain(s, d, o)
         \/ \E t \in Tlds : OwnsTld(s, t, o)
  PROVE  s.ownerRefs[o] \in Nat /\ s.ownerRefs[o] > 0
<1>1. s.ownerRefs[o] = Cardinality(Held(s, o)) + Cardinality(HeldTlds(s, o))
  BY DEF Good, PoolExact
<1>2. Cardinality(Held(s, o)) \in Nat /\ Cardinality(HeldTlds(s, o)) \in Nat
  BY FiniteParts, FS_CardinalityType
<1>3. Held(s, o) # {} \/ HeldTlds(s, o) # {}
  BY DEF Held, HeldTlds
<1>4. Cardinality(Held(s, o)) # 0 \/ Cardinality(HeldTlds(s, o)) # 0
  BY <1>3, FiniteParts, FS_EmptySet
<1> QED
  BY <1>1, <1>2, <1>4

(* A live entry is counted.                                                 *)
LEMMA LiveIsCounted ==
  ASSUME NEW s, Good(s)
  PROVE  /\ (\E d \in Domains : s.domains[d] # None) =>
              s.domainCount \in Nat /\ s.domainCount > 0
         /\ (\E t \in Tlds : s.tlds[t] # None) =>
              s.tldCount \in Nat /\ s.tldCount > 0
<1>1. /\ s.domainCount = Cardinality(LiveDomains(s))
      /\ s.tldCount = Cardinality(LiveTlds(s))
  BY DEF Good, CountsExact
<1>2. Cardinality(LiveDomains(s)) \in Nat /\ Cardinality(LiveTlds(s)) \in Nat
  BY FiniteParts, FS_CardinalityType
<1>3. /\ (\E d \in Domains : s.domains[d] # None) => LiveDomains(s) # {}
      /\ (\E t \in Tlds : s.tlds[t] # None) => LiveTlds(s) # {}
  BY DEF LiveDomains, LiveTlds
<1>4. /\ LiveDomains(s) # {} => Cardinality(LiveDomains(s)) # 0
      /\ LiveTlds(s) # {} => Cardinality(LiveTlds(s)) # 0
  BY FiniteParts, FS_EmptySet
<1> QED
  BY <1>1, <1>2, <1>3, <1>4

-----------------------------------------------------------------------------
(* Every effect keeps the registry good and is inverted by its undo entry.  *)

(* A record with the ten fields of a state, each of its type, is a state.   *)
AsRecord(z) ==
  [domains |-> z.domains, tlds |-> z.tlds, domainCount |-> z.domainCount,
   tldCount |-> z.tldCount, ownerKeys |-> z.ownerKeys, ownerRefs |-> z.ownerRefs,
   expirations |-> z.expirations, grace |-> z.grace, smt |-> z.smt,
   banned |-> z.banned]

LEMMA FieldsMakeState ==
  ASSUME NEW z, z = AsRecord(z),
         z.domains \in [Domains -> DomainState \cup {None}],
         z.tlds \in [Tlds -> TldState \cup {None}],
         z.domainCount \in Nat, z.tldCount \in Nat,
         z.ownerKeys \in SUBSET Owners, z.ownerRefs \in [Owners -> Nat],
         z.expirations \in SUBSET (Nat \X Domains),
         z.grace \in [Domains -> GraceEntry \cup {None}],
         z.smt \in SUBSET Leaf, z.banned \in SUBSET Owners
  PROVE  z \in State
BY DEF AsRecord, State

LEMMA CreateDomainGood ==
  ASSUME NEW s, Good(s), NEW d \in Domains, NEW o \in Owners, NEW n \in Nat,
         s.domains[d] = None
  PROVE  LET z == CreateDomain(s, d, o, n)
             e == [op |-> "RegisterDomain", domain |-> d, consumed |-> s.grace[d]]
         IN Good(z) /\ Undo(e, z) = s
<1> DEFINE z == CreateDomain(s, d, o, n)
           e == [op |-> "RegisterDomain", domain |-> d, consumed |-> s.grace[d]]
           new == [owner |-> o, sequence |-> 0, record |-> None, validUntil |-> n + TERM]
           u == Undo(e, z)
<1>1. s \in State
  BY DEF Good
<1>2. new \in DomainState /\ new # None
  BY RegistryConstants, NoneIsNoEntry DEF DomainState
<1>3. /\ z.domains = [s.domains EXCEPT ![d] = new]
      /\ z.tlds = s.tlds
      /\ z.domainCount = s.domainCount + 1
      /\ z.tldCount = s.tldCount
      /\ z.ownerKeys = s.ownerKeys
      /\ z.ownerRefs = [s.ownerRefs EXCEPT ![o] = @ + 1]
      /\ z.expirations = s.expirations \cup {<<new.validUntil, d>>}
      /\ z.grace = [s.grace EXCEPT ![d] = None]
      /\ z.smt = s.smt \cup {DomainLeaf(d, new)}
      /\ z.banned = s.banned
  BY <1>1 DEF State, CreateDomain, owner_acquire, expiration_enqueue, smt_put_domain
<1>4. z \in State
  <2>1. z = AsRecord(z)
    <3>1. z = [s EXCEPT !.grace       = [s.grace EXCEPT ![d] = None],
                        !.smt         = smt_put_domain(@, d, None, new),
                        !.domains     = [s.domains EXCEPT ![d] = new],
                        !.domainCount = @ + 1,
                        !.expirations = expiration_enqueue(@, new.validUntil, d),
                        !.ownerRefs   = owner_acquire(@, o)]
      BY DEF CreateDomain
    <3> HIDE DEF new, z
    <3> QED
      BY <1>1, <3>1 DEF State, AsRecord
  <2>2. DomainLeaf(d, new) \in Leaf
    BY <1>2, LeafIs
  <2>3. new.validUntil \in Nat
    BY RegistryConstants
  <2> HIDE DEF new, z
  <2> QED
    BY <1>1, <1>2, <1>3, <2>1, <2>2, <2>3, FieldsMakeState DEF State
<1>5. Good(z)
  <2>1. \A p \in Owners : z.ownerRefs[p] + One(Owned(s.domains[d], p))
                           = s.ownerRefs[p] + One(Owned(new, p))
    BY <1>1, <1>2, <1>3 DEF State, One, Owned
  <2>2. z.domainCount + One(s.domains[d] # None) = s.domainCount + One(new # None)
    BY <1>1, <1>2, <1>3 DEF State, One
  <2>3. z.grace[d] = None /\ \A c \in Domains \ {d} : z.grace[c] = s.grace[c]
    BY <1>1, <1>3 DEF State
  <2> HIDE DEF new, z
  <2>4. DomainStep(s, z, d, new)
    BY <1>2, <1>3, <2>1, <2>2, <2>3 DEF DomainStep
  <2> QED
    BY <1>2, <1>4, <2>4, DomainChange
<1>6. u = s
  <2>1. z.domains[d] = new /\ e.domain = d /\ e.consumed = s.grace[d] /\ e.op = "RegisterDomain"
    BY <1>1, <1>3 DEF State
  <2>2. u = UndoRegisterDomain(e, z)
    BY <2>1 DEF Undo
  <2>3. /\ u.domains = [z.domains EXCEPT ![d] = None]
        /\ u.tlds = z.tlds
        /\ u.domainCount = z.domainCount - 1
        /\ u.tldCount = z.tldCount
        /\ u.ownerKeys = z.ownerKeys
        /\ u.ownerRefs = owner_release(z.ownerRefs, o)
        /\ u.expirations = z.expirations \ {<<new.validUntil, d>>}
        /\ u.grace = IF s.grace[d] = None THEN z.grace
                     ELSE [z.grace EXCEPT ![d] = s.grace[d]]
        /\ u.smt = z.smt \ {DomainLeaf(d, new)}
        /\ u.banned = z.banned
        /\ u = AsRecord(u)
    <3> new.owner = o
      OBVIOUS
    <3> HIDE DEF new, z, e, u
    <3> QED
    BY <1>2, <1>4, <2>1, <2>2
       DEF UndoRegisterDomain, State, AsRecord, smt_remove_domain, expiration_dequeue
  <2>4. DomainLeaf(d, new) \notin s.smt
    BY LeavesApart DEF Good, SmtExact, CommittedLeaves, LiveDomains
  <2>5. <<new.validUntil, d>> \notin s.expirations
    BY DEF Good, QueueExact, LiveDomains
  <2> HIDE DEF new, z, e, u
  <2>6. u.domains = s.domains /\ u.grace = s.grace
    BY <1>1, <1>3, <2>3 DEF State
  <2>7. u.ownerRefs = s.ownerRefs
    BY <1>1, <1>3, <2>3 DEF State, owner_release
  <2>8. u.smt = s.smt /\ u.expirations = s.expirations
    BY <1>1, <1>3, <2>3, <2>4, <2>5 DEF State
  <2>9. /\ u.tlds = s.tlds /\ u.domainCount = s.domainCount /\ u.tldCount = s.tldCount
        /\ u.ownerKeys = s.ownerKeys /\ u.banned = s.banned
    BY <1>1, <1>3, <2>3 DEF State
  <2> QED
    BY <1>1, <2>3, <2>6, <2>7, <2>8, <2>9 DEF State, AsRecord
<1> QED
  BY <1>5, <1>6

(* UpdateDomain: the entry and its leaf change, nothing else.               *)
LEMMA UpdateDomainGood ==
  ASSUME NEW s, Good(s), NEW d \in Domains, s.domains[d] # None,
         NEW q \in 0..MaxSequence, NEW r \in Records
  PROVE  LET z == UpdateDomainTo(s, d, q, r)
             e == [op |-> "UpdateDomain", domain |-> d, prior |-> s.domains[d]]
         IN Good(z) /\ Undo(e, z) = s
<1> DEFINE prior == s.domains[d]
           new == [prior EXCEPT !.sequence = q, !.record = r]
           z == UpdateDomainTo(s, d, q, r)
           e == [op |-> "UpdateDomain", domain |-> d, prior |-> prior]
           u == Undo(e, z)
<1>1. s \in State
  BY DEF Good
<1>2. /\ prior \in DomainState /\ prior # None
      /\ new \in DomainState /\ new # None
      /\ prior.validUntil \in Nat /\ new.validUntil \in Nat
      /\ prior.owner \in Owners /\ new.owner \in Owners
  <2>1. prior \in DomainState
    BY <1>1 DEF State
  <2>2. new \in DomainState
    BY <2>1 DEF DomainState
  <2> HIDE DEF prior, new
  <2> QED
    BY <2>1, <2>2, NoneIsNoEntry DEF DomainState
<1>3. s.ownerRefs[prior.owner] \in Nat /\ s.ownerRefs[prior.owner] > 0
  BY <1>2, HolderHasSeat DEF OwnsDomain
<1>4. z = [s EXCEPT !.smt     = smt_put_domain(@, d, prior, new),
                  !.domains = [s.domains EXCEPT ![d] = new]]
  BY DEF UpdateDomainTo
<1> HIDE DEF new, z
<1>5. /\ z.domains = [s.domains EXCEPT ![d] = new]
      /\ z.tlds = s.tlds /\ z.domainCount = s.domainCount /\ z.tldCount = s.tldCount
      /\ z.ownerKeys = s.ownerKeys /\ z.banned = s.banned /\ z.grace = s.grace
      /\ z.ownerRefs = s.ownerRefs
      /\ z.expirations = s.expirations
      /\ z.smt = (s.smt \ {DomainLeaf(d, prior)}) \cup {DomainLeaf(d, new)}
      /\ z = AsRecord(z)
  BY <1>1, <1>2, <1>4 DEF State, AsRecord, smt_put_domain, expiration_enqueue, expiration_dequeue
<1>6. z.ownerRefs \in [Owners -> Nat] /\
      \A p \in Owners : z.ownerRefs[p] + One(Owned(prior, p)) = s.ownerRefs[p] + One(Owned(new, p))
  <2>1. new.owner = prior.owner
    BY <1>1 DEF State, DomainState, new
  <2> QED
    BY <1>1, <1>5, <2>1, <1>2 DEF State, Owned, One
<1> HIDE DEF prior
<1>7. z \in State
  <2>1. DomainLeaf(d, new) \in Leaf
    BY <1>2, LeafIs
  <2> QED
    BY <1>1, <1>2, <1>5, <1>6, <2>1, FieldsMakeState DEF State
<1>8. Good(z)
  <2>1. s.grace[d] = None
    BY DEF Good, GraceExact, LiveDomains
  <2>2. s.domains[d] = prior
    BY DEF prior
  <2>3. DomainLeaf(d, prior) \in s.smt /\ <<prior.validUntil, d>> \in s.expirations
    BY <1>2, <2>2 DEF Good, SmtExact, CommittedLeaves, QueueExact, LiveDomains
  <2>4. z.expirations = (s.expirations \ {<<prior.validUntil, d>>}) \cup {<<new.validUntil, d>>}
    <3>1. new.validUntil = prior.validUntil
      BY <1>1 DEF State, DomainState, new, prior
    <3> QED
      BY <1>5, <2>3, <3>1
  <2>5. DomainStep(s, z, d, new)
    BY <1>2, <1>5, <1>6, <2>1, <2>2, <2>4 DEF DomainStep
  <2> QED
    BY <1>2, <1>7, <2>5, DomainChange
<1>9. u = s
  <2>1. z.domains[d] = new /\ e.domain = d /\ e.prior = prior /\ e.op = "UpdateDomain"
    BY <1>1, <1>5 DEF State
  <2>2. u = UndoUpdateDomain(e, z)
    BY <2>1 DEF Undo
  <2> HIDE DEF e, u
  <2>3. /\ u.domains = [z.domains EXCEPT ![d] = prior]
        /\ u.tlds = z.tlds /\ u.domainCount = z.domainCount /\ u.tldCount = z.tldCount
        /\ u.ownerKeys = z.ownerKeys /\ u.banned = z.banned /\ u.grace = z.grace
        /\ u.ownerRefs = z.ownerRefs
        /\ u.expirations = z.expirations
        /\ u.smt = (z.smt \ {DomainLeaf(d, new)}) \cup {DomainLeaf(d, prior)}
        /\ u = AsRecord(u)
    BY <1>2, <1>7, <2>1, <2>2
       DEF UndoUpdateDomain, State, AsRecord, smt_put_domain, expiration_enqueue, expiration_dequeue
  <2>4. s.domains[d] = prior
    BY DEF prior
  <2>5. /\ DomainLeaf(d, prior) \in s.smt
        /\ \A v \in DomainState : DomainLeaf(d, v) \in s.smt => DomainLeaf(d, v) = DomainLeaf(d, prior)
        /\ <<prior.validUntil, d>> \in s.expirations
        /\ \A v \in Nat : <<v, d>> \in s.expirations => v = prior.validUntil
    BY <1>2, <2>4, LeavesApart DEF Good, SmtExact, CommittedLeaves, QueueExact, LiveDomains
  <2>6. u.domains = s.domains
    BY <1>1, <1>5, <2>3, <2>4 DEF State
  <2>7. u.ownerRefs = s.ownerRefs
    BY <1>1, <1>2, <1>3, <1>5, <2>3 DEF State, owner_release, owner_acquire
  <2>8. DomainLeaf(d, new) = DomainLeaf(d, prior) \/ DomainLeaf(d, new) \notin s.smt
    BY <1>2, <2>5
  <2>9. u.smt = s.smt
    BY <1>5, <2>3, <2>5, <2>8
  <2>10. u.expirations = s.expirations
    BY <1>2, <1>5, <2>3, <2>5
  <2> QED
    BY <1>1, <1>5, <2>3, <2>6, <2>7, <2>9, <2>10 DEF State, AsRecord
<1> QED
  BY <1>8, <1>9 DEF prior, z

(* RenewDomain: the domain moves to its new slot of the queue.              *)
LEMMA RenewDomainGood ==
  ASSUME NEW s, Good(s), NEW d \in Domains, s.domains[d] # None,
         NEW v \in Nat
  PROVE  LET z == RenewDomainTo(s, d, v)
             e == [op |-> "RenewDomain", domain |-> d, prior |-> s.domains[d]]
         IN Good(z) /\ Undo(e, z) = s
<1> DEFINE prior == s.domains[d]
           new == [prior EXCEPT !.validUntil = v]
           z == RenewDomainTo(s, d, v)
           e == [op |-> "RenewDomain", domain |-> d, prior |-> prior]
           u == Undo(e, z)
<1>1. s \in State
  BY DEF Good
<1>2. /\ prior \in DomainState /\ prior # None
      /\ new \in DomainState /\ new # None
      /\ prior.validUntil \in Nat /\ new.validUntil \in Nat
      /\ prior.owner \in Owners /\ new.owner \in Owners
  <2>1. prior \in DomainState
    BY <1>1 DEF State
  <2>2. new \in DomainState
    BY <2>1 DEF DomainState
  <2> HIDE DEF prior, new
  <2> QED
    BY <2>1, <2>2, NoneIsNoEntry DEF DomainState
<1>3. s.ownerRefs[prior.owner] \in Nat /\ s.ownerRefs[prior.owner] > 0
  BY <1>2, HolderHasSeat DEF OwnsDomain
<1>4. z = [s EXCEPT !.expirations = expiration_enqueue(
                                      expiration_dequeue(@, prior.validUntil, d), v, d),
                  !.smt     = smt_put_domain(@, d, prior, new),
                  !.domains = [s.domains EXCEPT ![d] = new]]
  BY DEF RenewDomainTo
<1> HIDE DEF new, z
<1>5. /\ z.domains = [s.domains EXCEPT ![d] = new]
      /\ z.tlds = s.tlds /\ z.domainCount = s.domainCount /\ z.tldCount = s.tldCount
      /\ z.ownerKeys = s.ownerKeys /\ z.banned = s.banned /\ z.grace = s.grace
      /\ z.ownerRefs = s.ownerRefs
      /\ z.expirations = (s.expirations \ {<<prior.validUntil, d>>}) \cup {<<v, d>>}
      /\ z.smt = (s.smt \ {DomainLeaf(d, prior)}) \cup {DomainLeaf(d, new)}
      /\ z = AsRecord(z)
  BY <1>1, <1>2, <1>4 DEF State, AsRecord, smt_put_domain, expiration_enqueue, expiration_dequeue
<1>6. z.ownerRefs \in [Owners -> Nat] /\
      \A p \in Owners : z.ownerRefs[p] + One(Owned(prior, p)) = s.ownerRefs[p] + One(Owned(new, p))
  <2>1. new.owner = prior.owner
    BY <1>1 DEF State, DomainState, new
  <2> QED
    BY <1>1, <1>5, <2>1, <1>2 DEF State, Owned, One
<1> HIDE DEF prior
<1>7. z \in State
  <2>1. DomainLeaf(d, new) \in Leaf
    BY <1>2, LeafIs
  <2> QED
    BY <1>1, <1>2, <1>5, <1>6, <2>1, FieldsMakeState DEF State
<1>8. Good(z)
  <2>1. s.grace[d] = None
    BY DEF Good, GraceExact, LiveDomains
  <2>2. s.domains[d] = prior
    BY DEF prior
  <2>3. DomainLeaf(d, prior) \in s.smt /\ <<prior.validUntil, d>> \in s.expirations
    BY <1>2, <2>2 DEF Good, SmtExact, CommittedLeaves, QueueExact, LiveDomains
  <2>4. z.expirations = (s.expirations \ {<<prior.validUntil, d>>}) \cup {<<new.validUntil, d>>}
    <3>1. new.validUntil = v
      BY <1>1, <2>2, <1>2 DEF State, DomainState, new
    <3> QED
      BY <1>5, <2>3, <3>1
  <2>5. DomainStep(s, z, d, new)
    BY <1>2, <1>5, <1>6, <2>1, <2>2, <2>4 DEF DomainStep
  <2> QED
    BY <1>2, <1>7, <2>5, DomainChange
<1>9. u = s
  <2>1. z.domains[d] = new /\ e.domain = d /\ e.prior = prior /\ e.op = "RenewDomain"
    BY <1>1, <1>5 DEF State
  <2>2. u = UndoRenewDomain(e, z)
    BY <2>1 DEF Undo
  <2> HIDE DEF e, u
  <2>3. /\ u.domains = [z.domains EXCEPT ![d] = prior]
        /\ u.tlds = z.tlds /\ u.domainCount = z.domainCount /\ u.tldCount = z.tldCount
        /\ u.ownerKeys = z.ownerKeys /\ u.banned = z.banned /\ u.grace = z.grace
        /\ u.ownerRefs = z.ownerRefs
        /\ u.expirations = (z.expirations \ {<<new.validUntil, d>>}) \cup {<<prior.validUntil, d>>}
        /\ u.smt = (z.smt \ {DomainLeaf(d, new)}) \cup {DomainLeaf(d, prior)}
        /\ u = AsRecord(u)
    BY <1>2, <1>7, <2>1, <2>2
       DEF UndoRenewDomain, State, AsRecord, smt_put_domain, expiration_enqueue, expiration_dequeue
  <2>4. s.domains[d] = prior
    BY DEF prior
  <2>5. /\ DomainLeaf(d, prior) \in s.smt
        /\ \A w \in DomainState : DomainLeaf(d, w) \in s.smt => DomainLeaf(d, w) = DomainLeaf(d, prior)
        /\ <<prior.validUntil, d>> \in s.expirations
        /\ \A w \in Nat : <<w, d>> \in s.expirations => w = prior.validUntil
    BY <1>2, <2>4, LeavesApart DEF Good, SmtExact, CommittedLeaves, QueueExact, LiveDomains
  <2>6. u.domains = s.domains
    BY <1>1, <1>5, <2>3, <2>4 DEF State
  <2>7. u.ownerRefs = s.ownerRefs
    BY <1>1, <1>2, <1>3, <1>5, <2>3 DEF State, owner_release, owner_acquire
  <2>8. DomainLeaf(d, new) = DomainLeaf(d, prior) \/ DomainLeaf(d, new) \notin s.smt
    BY <1>2, <2>5
  <2>9. u.smt = s.smt
    BY <1>5, <2>3, <2>5, <2>8
  <2>10. u.expirations = s.expirations
    <3>1. new.validUntil = v
      BY <1>2 DEF DomainState, new
    <3> QED
      BY <1>2, <1>5, <2>3, <2>5, <3>1
  <2> QED
    BY <1>1, <1>5, <2>3, <2>6, <2>7, <2>9, <2>10 DEF State, AsRecord
<1> QED
  BY <1>8, <1>9 DEF prior, z

(* TransferDomain: the seat follows the domain.                             *)
LEMMA TransferDomainGood ==
  ASSUME NEW s, Good(s), NEW d \in Domains, s.domains[d] # None,
         NEW o \in Owners
  PROVE  LET z == TransferDomainTo(s, d, o)
             e == [op |-> "TransferDomain", domain |-> d, prior |-> s.domains[d]]
         IN Good(z) /\ Undo(e, z) = s
<1> DEFINE prior == s.domains[d]
           new == [prior EXCEPT !.owner = o]
           z == TransferDomainTo(s, d, o)
           e == [op |-> "TransferDomain", domain |-> d, prior |-> prior]
           u == Undo(e, z)
<1>1. s \in State
  BY DEF Good
<1>2. /\ prior \in DomainState /\ prior # None
      /\ new \in DomainState /\ new # None
      /\ prior.validUntil \in Nat /\ new.validUntil \in Nat
      /\ prior.owner \in Owners /\ new.owner \in Owners
  <2>1. prior \in DomainState
    BY <1>1 DEF State
  <2>2. new \in DomainState
    BY <2>1 DEF DomainState
  <2> HIDE DEF prior, new
  <2> QED
    BY <2>1, <2>2, NoneIsNoEntry DEF DomainState
<1>3. s.ownerRefs[prior.owner] \in Nat /\ s.ownerRefs[prior.owner] > 0
  BY <1>2, HolderHasSeat DEF OwnsDomain
<1>4. z = [s EXCEPT !.smt       = smt_put_domain(@, d, prior, new),
                  !.domains   = [s.domains EXCEPT ![d] = new],
                  !.ownerRefs = owner_acquire(owner_release(@, prior.owner), o)]
  BY DEF TransferDomainTo
<1> HIDE DEF new, z
<1>5. /\ z.domains = [s.domains EXCEPT ![d] = new]
      /\ z.tlds = s.tlds /\ z.domainCount = s.domainCount /\ z.tldCount = s.tldCount
      /\ z.ownerKeys = s.ownerKeys /\ z.banned = s.banned /\ z.grace = s.grace
      /\ z.ownerRefs = owner_acquire(owner_release(s.ownerRefs, prior.owner), o)
      /\ z.expirations = s.expirations
      /\ z.smt = (s.smt \ {DomainLeaf(d, prior)}) \cup {DomainLeaf(d, new)}
      /\ z = AsRecord(z)
  BY <1>1, <1>2, <1>4 DEF State, AsRecord, smt_put_domain, expiration_enqueue, expiration_dequeue
<1>6. z.ownerRefs \in [Owners -> Nat] /\
      \A p \in Owners : z.ownerRefs[p] + One(Owned(prior, p)) = s.ownerRefs[p] + One(Owned(new, p))
  <2>1. new.owner = o
    BY <1>1 DEF State, DomainState, new
  <2> QED
    BY <1>1, <1>2, <1>3, <1>5, <2>1 DEF State, Owned, One, owner_acquire, owner_release
<1> HIDE DEF prior
<1>7. z \in State
  <2>1. DomainLeaf(d, new) \in Leaf
    BY <1>2, LeafIs
  <2> QED
    BY <1>1, <1>2, <1>5, <1>6, <2>1, FieldsMakeState DEF State
<1>8. Good(z)
  <2>1. s.grace[d] = None
    BY DEF Good, GraceExact, LiveDomains
  <2>2. s.domains[d] = prior
    BY DEF prior
  <2>3. DomainLeaf(d, prior) \in s.smt /\ <<prior.validUntil, d>> \in s.expirations
    BY <1>2, <2>2 DEF Good, SmtExact, CommittedLeaves, QueueExact, LiveDomains
  <2>4. z.expirations = (s.expirations \ {<<prior.validUntil, d>>}) \cup {<<new.validUntil, d>>}
    <3>1. new.validUntil = prior.validUntil
      BY <1>2, <2>2 DEF DomainState, new
    <3> QED
      BY <1>5, <2>3, <3>1
  <2>5. DomainStep(s, z, d, new)
    BY <1>2, <1>5, <1>6, <2>1, <2>2, <2>4 DEF DomainStep
  <2> QED
    BY <1>2, <1>7, <2>5, DomainChange
<1>9. u = s
  <2>1. z.domains[d] = new /\ e.domain = d /\ e.prior = prior /\ e.op = "TransferDomain"
    BY <1>1, <1>5 DEF State
  <2>2. u = UndoTransferDomain(e, z)
    BY <2>1 DEF Undo
  <2> HIDE DEF e, u
  <2>3. /\ u.domains = [z.domains EXCEPT ![d] = prior]
        /\ u.tlds = z.tlds /\ u.domainCount = z.domainCount /\ u.tldCount = z.tldCount
        /\ u.ownerKeys = z.ownerKeys /\ u.banned = z.banned /\ u.grace = z.grace
        /\ u.ownerRefs = owner_acquire(owner_release(z.ownerRefs, new.owner), prior.owner)
        /\ u.expirations = z.expirations
        /\ u.smt = (z.smt \ {DomainLeaf(d, new)}) \cup {DomainLeaf(d, prior)}
        /\ u = AsRecord(u)
    BY <1>2, <1>7, <2>1, <2>2
       DEF UndoTransferDomain, State, AsRecord, smt_put_domain, expiration_enqueue, expiration_dequeue
  <2>4. s.domains[d] = prior
    BY DEF prior
  <2>5. /\ DomainLeaf(d, prior) \in s.smt
        /\ \A v \in DomainState : DomainLeaf(d, v) \in s.smt => DomainLeaf(d, v) = DomainLeaf(d, prior)
        /\ <<prior.validUntil, d>> \in s.expirations
        /\ \A v \in Nat : <<v, d>> \in s.expirations => v = prior.validUntil
    BY <1>2, <2>4, LeavesApart DEF Good, SmtExact, CommittedLeaves, QueueExact, LiveDomains
  <2>6. u.domains = s.domains
    BY <1>1, <1>5, <2>3, <2>4 DEF State
  <2>7. u.ownerRefs = s.ownerRefs
    <3>1. new.owner = o
      BY <1>2 DEF DomainState, new
    <3> QED
      BY <1>1, <1>2, <1>3, <1>5, <2>3, <3>1 DEF State, owner_release, owner_acquire
  <2>8. DomainLeaf(d, new) = DomainLeaf(d, prior) \/ DomainLeaf(d, new) \notin s.smt
    BY <1>2, <2>5
  <2>9. u.smt = s.smt
    BY <1>5, <2>3, <2>5, <2>8
  <2>10. u.expirations = s.expirations
    BY <1>2, <1>5, <2>3, <2>5
  <2> QED
    BY <1>1, <1>5, <2>3, <2>6, <2>7, <2>9, <2>10 DEF State, AsRecord
<1> QED
  BY <1>8, <1>9 DEF prior, z

(* The collection of a due registration: the domain leaves the registry and *)
(* every index, and is parked in the grace map.                             *)
LEMMA ExpireDomainGood ==
  ASSUME NEW s, Good(s), NEW d \in Domains, s.domains[d] # None, NEW n \in Nat,
         s.domains[d].validUntil <= n
  PROVE  LET z == ExpireOne(s, s.domains[d].validUntil, d, n)
             e == [op |-> "ExpireDomain", domain |-> d, prior |-> s.domains[d]]
         IN Good(z) /\ Undo(e, z) = s /\ z.domains[d] = None
<1> DEFINE prior == s.domains[d]
           z == ExpireOne(s, prior.validUntil, d, n)
           e == [op |-> "ExpireDomain", domain |-> d, prior |-> prior]
           u == Undo(e, z)
           g == [expiredAt |-> prior.validUntil, owner |-> prior.owner]
<1>1. s \in State
  BY DEF Good
<1>2. /\ prior \in DomainState /\ prior # None
      /\ prior.validUntil \in Nat /\ prior.owner \in Owners
      /\ ~(prior.validUntil > n)
  <2>1. prior \in DomainState
    BY <1>1 DEF State
  <2> QED
    BY <2>1, NoneIsNoEntry DEF DomainState
<1>3. s.ownerRefs[prior.owner] \in Nat /\ s.ownerRefs[prior.owner] > 0
  BY <1>2, HolderHasSeat DEF OwnsDomain
<1>4. s.domainCount \in Nat /\ s.domainCount > 0
  BY <1>2, LiveIsCounted
<1>5. g \in GraceEntry
  BY <1>2 DEF GraceEntry
<1>6. z = [s EXCEPT !.expirations = s.expirations \ {<<prior.validUntil, d>>},
                    !.domains     = [s.domains EXCEPT ![d] = None],
                    !.smt         = smt_remove_domain(@, d, prior),
                    !.domainCount = @ - 1,
                    !.ownerRefs   = owner_release(@, prior.owner),
                    !.grace       = [s.grace EXCEPT ![d] = g]]
  BY <1>2 DEF ExpireOne, expiration_dequeue
<1>7. s.domains[d] = prior
  OBVIOUS
<1> HIDE DEF prior, z, g
<1>8. /\ z.domains = [s.domains EXCEPT ![d] = None]
      /\ z.tlds = s.tlds /\ z.domainCount = s.domainCount - 1 /\ z.tldCount = s.tldCount
      /\ z.ownerKeys = s.ownerKeys /\ z.banned = s.banned
      /\ z.grace = [s.grace EXCEPT ![d] = g]
      /\ z.ownerRefs = owner_release(s.ownerRefs, prior.owner)
      /\ z.expirations = s.expirations \ {<<prior.validUntil, d>>}
      /\ z.smt = s.smt \ {DomainLeaf(d, prior)}
      /\ z = AsRecord(z)
  BY <1>1, <1>6 DEF State, AsRecord, smt_remove_domain
<1>9. z.ownerRefs \in [Owners -> Nat] /\
      \A p \in Owners : z.ownerRefs[p] + One(Owned(prior, p)) = s.ownerRefs[p] + One(Owned(None, p))
  BY <1>1, <1>2, <1>3, <1>8 DEF State, Owned, One, owner_release
<1>10. z \in State
  BY <1>1, <1>4, <1>5, <1>8, <1>9, FieldsMakeState DEF State
<1>11. Good(z)
  <2>1. DomainStep(s, z, d, None)
    BY <1>1, <1>2, <1>4, <1>7, <1>8, <1>9 DEF DomainStep, State, One
  <2> QED
    BY <1>10, <2>1, DomainChange
<1>12. u = s
  <2>1. e.domain = d /\ e.prior = prior /\ e.op = "ExpireDomain"
    OBVIOUS
  <2>2. u = UndoExpireDomain(e, z)
    BY <2>1 DEF Undo
  <2> HIDE DEF e, u
  <2>3. /\ u.domains = [z.domains EXCEPT ![d] = prior]
        /\ u.tlds = z.tlds /\ u.domainCount = z.domainCount + 1 /\ u.tldCount = z.tldCount
        /\ u.ownerKeys = z.ownerKeys /\ u.banned = z.banned
        /\ u.grace = [z.grace EXCEPT ![d] = None]
        /\ u.ownerRefs = owner_acquire(z.ownerRefs, prior.owner)
        /\ u.expirations = z.expirations \cup {<<prior.validUntil, d>>}
        /\ u.smt = z.smt \cup {DomainLeaf(d, prior)}
        /\ u = AsRecord(u)
    BY <1>10, <2>1, <2>2
       DEF UndoExpireDomain, State, AsRecord, smt_put_domain, expiration_enqueue
  <2>4. /\ DomainLeaf(d, prior) \in s.smt
        /\ <<prior.validUntil, d>> \in s.expirations
        /\ s.grace[d] = None
    BY <1>2, <1>7 DEF Good, SmtExact, CommittedLeaves, QueueExact, GraceExact, LiveDomains
  <2>5. u.domains = s.domains /\ u.grace = s.grace /\ u.domainCount = s.domainCount
    BY <1>1, <1>7, <1>8, <2>3, <2>4 DEF State
  <2>6. u.ownerRefs = s.ownerRefs
    BY <1>1, <1>2, <1>3, <1>8, <2>3 DEF State, owner_release, owner_acquire
  <2>7. u.smt = s.smt /\ u.expirations = s.expirations
    BY <1>8, <2>3, <2>4
  <2> QED
    BY <1>1, <1>8, <2>3, <2>5, <2>6, <2>7 DEF State, AsRecord
<1>13. z.domains[d] = None
  BY <1>1, <1>8 DEF State
<1> QED
  BY <1>11, <1>12, <1>13 DEF prior, z

-----------------------------------------------------------------------------

(* RegisterTld: a new entry, closed, with a seat for its owner.             *)
LEMMA CreateTldGood ==
  ASSUME NEW s, Good(s), NEW t \in Tlds, NEW o \in Owners, s.tlds[t] = None
  PROVE  LET z == CreateTld(s, t, o)
             e == [op |-> "RegisterTld", tld |-> t]
         IN Good(z) /\ Undo(e, z) = s
<1> DEFINE new == [owner |-> o, open |-> FALSE]
           z == CreateTld(s, t, o)
           e == [op |-> "RegisterTld", tld |-> t]
           u == Undo(e, z)
<1>1. s \in State
  BY DEF Good
<1>2. new \in TldState /\ new # None /\ new.owner = o
  <2>1. new \in TldState
    BY DEF TldState
  <2> QED
    BY <2>1, NoneIsNoEntry
<1>3. z = [s EXCEPT !.smt       = smt_insert_tld(@, t, new),
                    !.tlds      = [s.tlds EXCEPT ![t] = new],
                    !.tldCount  = @ + 1,
                    !.ownerRefs = owner_acquire(@, o)]
  BY DEF CreateTld
<1> HIDE DEF new, z
<1>4. /\ z.tlds = [s.tlds EXCEPT ![t] = new]
      /\ z.domains = s.domains /\ z.domainCount = s.domainCount /\ z.tldCount = s.tldCount + 1
      /\ z.ownerKeys = s.ownerKeys /\ z.banned = s.banned /\ z.grace = s.grace
      /\ z.expirations = s.expirations
      /\ z.ownerRefs = owner_acquire(s.ownerRefs, o)
      /\ z.smt = s.smt \cup {TldLeaf(t, new)}
      /\ z = AsRecord(z)
  BY <1>1, <1>3 DEF State, AsRecord, smt_insert_tld
<1>5. z.ownerRefs \in [Owners -> Nat] /\
      \A p \in Owners : z.ownerRefs[p] + One(Owned(s.tlds[t], p)) = s.ownerRefs[p] + One(Owned(new, p))
  BY <1>1, <1>2, <1>4 DEF State, Owned, One, owner_acquire
<1>6. z \in State
  <2>1. TldLeaf(t, new) \in Leaf
    BY <1>2 DEF TldLeaf, Leaf
  <2> QED
    BY <1>1, <1>2, <1>4, <1>5, <2>1, FieldsMakeState DEF State
<1>7. Good(z)
  <2>1. TldStep(s, z, t, new)
    BY <1>1, <1>2, <1>4, <1>5 DEF TldStep, State, One
  <2> QED
    BY <1>2, <1>6, <2>1, TldChange
<1>8. u = s
  <2>1. z.tlds[t] = new /\ e.tld = t /\ e.op = "RegisterTld"
    BY <1>1, <1>4 DEF State
  <2>2. u = UndoRegisterTld(e, z)
    BY <2>1 DEF Undo
  <2> HIDE DEF e, u
  <2>3. /\ u.tlds = [z.tlds EXCEPT ![t] = None]
        /\ u.domains = z.domains /\ u.domainCount = z.domainCount /\ u.tldCount = z.tldCount - 1
        /\ u.ownerKeys = z.ownerKeys /\ u.banned = z.banned /\ u.grace = z.grace
        /\ u.expirations = z.expirations
        /\ u.ownerRefs = owner_release(z.ownerRefs, o)
        /\ u.smt = z.smt \ {TldLeaf(t, new)}
        /\ u = AsRecord(u)
    BY <1>2, <1>6, <2>1, <2>2 DEF UndoRegisterTld, RemoveTld, State, AsRecord, smt_remove_tld
  <2>4. TldLeaf(t, new) \notin s.smt
    BY DEF Good, SmtExact, CommittedLeaves, LiveTlds, DomainLeaf, TldLeaf
  <2>5. u.tlds = s.tlds /\ u.tldCount = s.tldCount
    BY <1>1, <1>4, <2>3 DEF State
  <2>6. u.ownerRefs = s.ownerRefs
    BY <1>1, <1>4, <2>3 DEF State, owner_release, owner_acquire
  <2>7. u.smt = s.smt
    BY <1>4, <2>3, <2>4
  <2> QED
    BY <1>1, <1>4, <2>3, <2>5, <2>6, <2>7 DEF State, AsRecord
<1> QED
  BY <1>7, <1>8 DEF z

(* RevokeTld: the entry, its leaf and its seat go.                          *)
LEMMA RemoveTldGood ==
  ASSUME NEW s, Good(s), NEW t \in Tlds, s.tlds[t] # None
  PROVE  LET z == RemoveTld(s, t)
             e == [op |-> "RevokeTld", tld |-> t, prior |-> s.tlds[t]]
         IN Good(z) /\ Undo(e, z) = s
<1> DEFINE prior == s.tlds[t]
           z == RemoveTld(s, t)
           e == [op |-> "RevokeTld", tld |-> t, prior |-> prior]
           u == Undo(e, z)
<1>1. s \in State
  BY DEF Good
<1>2. prior \in TldState /\ prior # None /\ prior.owner \in Owners
  <2>1. prior \in TldState
    BY <1>1 DEF State
  <2> QED
    BY <2>1, NoneIsNoEntry DEF TldState
<1>3. s.ownerRefs[prior.owner] \in Nat /\ s.ownerRefs[prior.owner] > 0
  BY <1>2, HolderHasSeat DEF OwnsTld
<1>4. s.tldCount \in Nat /\ s.tldCount > 0
  BY <1>2, LiveIsCounted
<1>5. z = [s EXCEPT !.smt       = smt_remove_tld(@, t, prior),
                    !.tlds      = [s.tlds EXCEPT ![t] = None],
                    !.tldCount  = @ - 1,
                    !.ownerRefs = owner_release(@, prior.owner)]
  BY DEF RemoveTld
<1>6. s.tlds[t] = prior
  OBVIOUS
<1> HIDE DEF prior, z
<1>7. /\ z.tlds = [s.tlds EXCEPT ![t] = None]
      /\ z.domains = s.domains /\ z.domainCount = s.domainCount /\ z.tldCount = s.tldCount - 1
      /\ z.ownerKeys = s.ownerKeys /\ z.banned = s.banned /\ z.grace = s.grace
      /\ z.expirations = s.expirations
      /\ z.ownerRefs = owner_release(s.ownerRefs, prior.owner)
      /\ z.smt = s.smt \ {TldLeaf(t, prior)}
      /\ z = AsRecord(z)
  BY <1>1, <1>5 DEF State, AsRecord, smt_remove_tld
<1>8. z.ownerRefs \in [Owners -> Nat] /\
      \A p \in Owners : z.ownerRefs[p] + One(Owned(prior, p)) = s.ownerRefs[p] + One(Owned(None, p))
  BY <1>1, <1>2, <1>3, <1>7 DEF State, Owned, One, owner_release
<1>9. z \in State
  BY <1>1, <1>4, <1>7, <1>8, FieldsMakeState DEF State
<1>10. Good(z)
  <2>1. TldStep(s, z, t, None)
    BY <1>1, <1>2, <1>4, <1>6, <1>7, <1>8 DEF TldStep, State, One
  <2> QED
    BY <1>9, <2>1, TldChange
<1>11. u = s
  <2>1. e.tld = t /\ e.prior = prior /\ e.op = "RevokeTld"
    OBVIOUS
  <2>2. u = UndoRevokeTld(e, z)
    BY <2>1 DEF Undo
  <2> HIDE DEF e, u
  <2>3. /\ u.tlds = [z.tlds EXCEPT ![t] = prior]
        /\ u.domains = z.domains /\ u.domainCount = z.domainCount /\ u.tldCount = z.tldCount + 1
        /\ u.ownerKeys = z.ownerKeys /\ u.banned = z.banned /\ u.grace = z.grace
        /\ u.expirations = z.expirations
        /\ u.ownerRefs = owner_acquire(z.ownerRefs, prior.owner)
        /\ u.smt = z.smt \cup {TldLeaf(t, prior)}
        /\ u = AsRecord(u)
    BY <1>9, <2>1, <2>2 DEF UndoRevokeTld, State, AsRecord, smt_insert_tld
  <2>4. TldLeaf(t, prior) \in s.smt
    BY <1>2, <1>6 DEF Good, SmtExact, CommittedLeaves, LiveTlds
  <2>5. u.tlds = s.tlds /\ u.tldCount = s.tldCount
    BY <1>1, <1>6, <1>7, <2>3 DEF State
  <2>6. u.ownerRefs = s.ownerRefs
    BY <1>1, <1>2, <1>3, <1>7, <2>3 DEF State, owner_release, owner_acquire
  <2> QED
    BY <1>1, <1>7, <2>3, <2>4, <2>5, <2>6 DEF State, AsRecord
<1> QED
  BY <1>10, <1>11 DEF prior, z

(* TransferTld: the seat follows the namespace.                             *)
LEMMA TransferTldGood ==
  ASSUME NEW s, Good(s), NEW t \in Tlds, s.tlds[t] # None,
         NEW o \in Owners
  PROVE  LET z == TransferTldTo(s, t, o)
             e == [op |-> "MutateTld", tld |-> t, prior |-> s.tlds[t]]
         IN Good(z) /\ Undo(e, z) = s
<1> DEFINE prior == s.tlds[t]
           new == [prior EXCEPT !.owner = o]
           z == TransferTldTo(s, t, o)
           e == [op |-> "MutateTld", tld |-> t, prior |-> prior]
           u == Undo(e, z)
<1>1. s \in State
  BY DEF Good
<1>2. /\ prior \in TldState /\ prior # None /\ prior.owner \in Owners
      /\ new \in TldState /\ new # None /\ new.owner = o
  <2>1. prior \in TldState
    BY <1>1 DEF State
  <2> QED
    BY <2>1, NoneIsNoEntry DEF TldState
<1>3. s.ownerRefs[prior.owner] \in Nat /\ s.ownerRefs[prior.owner] > 0
  BY <1>2, HolderHasSeat DEF OwnsTld
<1>4. z = [s EXCEPT !.smt       = smt_put_tld(@, t, prior, new),
                  !.tlds      = [s.tlds EXCEPT ![t] = new],
                  !.ownerRefs = owner_acquire(owner_release(@, prior.owner), o)]
  BY DEF TransferTldTo
<1>5. s.tlds[t] = prior
  OBVIOUS
<1> HIDE DEF prior, new, z
<1>6. /\ z.tlds = [s.tlds EXCEPT ![t] = new]
      /\ z.domains = s.domains /\ z.domainCount = s.domainCount /\ z.tldCount = s.tldCount
      /\ z.ownerKeys = s.ownerKeys /\ z.banned = s.banned /\ z.grace = s.grace
      /\ z.expirations = s.expirations
      /\ z.ownerRefs = owner_acquire(owner_release(s.ownerRefs, prior.owner), o)
      /\ z.smt = (s.smt \ {TldLeaf(t, prior)}) \cup {TldLeaf(t, new)}
      /\ z = AsRecord(z)
  BY <1>1, <1>4 DEF State, AsRecord, smt_put_tld
<1>7. z.ownerRefs \in [Owners -> Nat] /\
      \A p \in Owners : z.ownerRefs[p] + One(Owned(prior, p)) = s.ownerRefs[p] + One(Owned(new, p))
  BY <1>1, <1>2, <1>3, <1>6 DEF State, Owned, One, owner_release, owner_acquire
<1>8. z \in State
  <2>1. TldLeaf(t, new) \in Leaf
    BY <1>2 DEF TldLeaf, Leaf
  <2> QED
    BY <1>1, <1>2, <1>6, <1>7, <2>1, FieldsMakeState DEF State
<1>9. Good(z)
  <2>1. TldStep(s, z, t, new)
    BY <1>1, <1>2, <1>5, <1>6, <1>7 DEF TldStep, State, One
  <2> QED
    BY <1>2, <1>8, <2>1, TldChange
<1>10. u = s
  <2>1. z.tlds[t] = new /\ e.tld = t /\ e.prior = prior /\ e.op = "MutateTld"
    BY <1>1, <1>6 DEF State
  <2>2. u = UndoMutateTld(e, z)
    BY <2>1 DEF Undo
  <2> HIDE DEF e, u
  <2>3. /\ u.tlds = [z.tlds EXCEPT ![t] = prior]
        /\ u.domains = z.domains /\ u.domainCount = z.domainCount /\ u.tldCount = z.tldCount
        /\ u.ownerKeys = z.ownerKeys /\ u.banned = z.banned /\ u.grace = z.grace
        /\ u.expirations = z.expirations
        /\ u.ownerRefs = owner_acquire(owner_release(z.ownerRefs, new.owner), prior.owner)
        /\ u.smt = (z.smt \ {TldLeaf(t, new)}) \cup {TldLeaf(t, prior)}
        /\ u = AsRecord(u)
    BY <1>2, <1>8, <2>1, <2>2 DEF UndoMutateTld, State, AsRecord, smt_put_tld
  <2>4. /\ TldLeaf(t, prior) \in s.smt
        /\ TldLeaf(t, new) \in s.smt => TldLeaf(t, new) = TldLeaf(t, prior)
    BY <1>2, <1>5 DEF Good, SmtExact, CommittedLeaves, LiveTlds, DomainLeaf, TldLeaf
  <2>5. u.tlds = s.tlds
    BY <1>1, <1>5, <1>6, <2>3 DEF State
  <2>6. u.ownerRefs = s.ownerRefs
    BY <1>1, <1>2, <1>3, <1>6, <2>3 DEF State, owner_release, owner_acquire
  <2>7. u.smt = s.smt
    BY <1>6, <2>3, <2>4
  <2> QED
    BY <1>1, <1>6, <2>3, <2>5, <2>6, <2>7 DEF State, AsRecord
<1> QED
  BY <1>9, <1>10 DEF prior, z

(* SetTldOpen: its undo releases and takes the same seat.                   *)
LEMMA SetTldOpenGood ==
  ASSUME NEW s, Good(s), NEW t \in Tlds, s.tlds[t] # None,
         NEW b \in BOOLEAN
  PROVE  LET z == SetTldOpenTo(s, t, b)
             e == [op |-> "MutateTld", tld |-> t, prior |-> s.tlds[t]]
         IN Good(z) /\ Undo(e, z) = s
<1> DEFINE prior == s.tlds[t]
           new == [prior EXCEPT !.open = b]
           z == SetTldOpenTo(s, t, b)
           e == [op |-> "MutateTld", tld |-> t, prior |-> prior]
           u == Undo(e, z)
<1>1. s \in State
  BY DEF Good
<1>2. /\ prior \in TldState /\ prior # None /\ prior.owner \in Owners
      /\ new \in TldState /\ new # None /\ new.owner = prior.owner
  <2>1. prior \in TldState
    BY <1>1 DEF State
  <2> QED
    BY <2>1, NoneIsNoEntry DEF TldState
<1>3. s.ownerRefs[prior.owner] \in Nat /\ s.ownerRefs[prior.owner] > 0
  BY <1>2, HolderHasSeat DEF OwnsTld
<1>4. z = [s EXCEPT !.smt  = smt_put_tld(@, t, prior, new),
                  !.tlds = [s.tlds EXCEPT ![t] = new]]
  BY DEF SetTldOpenTo
<1>5. s.tlds[t] = prior
  OBVIOUS
<1> HIDE DEF prior, new, z
<1>6. /\ z.tlds = [s.tlds EXCEPT ![t] = new]
      /\ z.domains = s.domains /\ z.domainCount = s.domainCount /\ z.tldCount = s.tldCount
      /\ z.ownerKeys = s.ownerKeys /\ z.banned = s.banned /\ z.grace = s.grace
      /\ z.expirations = s.expirations
      /\ z.ownerRefs = s.ownerRefs
      /\ z.smt = (s.smt \ {TldLeaf(t, prior)}) \cup {TldLeaf(t, new)}
      /\ z = AsRecord(z)
  BY <1>1, <1>4 DEF State, AsRecord, smt_put_tld
<1>7. z.ownerRefs \in [Owners -> Nat] /\
      \A p \in Owners : z.ownerRefs[p] + One(Owned(prior, p)) = s.ownerRefs[p] + One(Owned(new, p))
  BY <1>1, <1>2, <1>3, <1>6 DEF State, Owned, One, owner_release, owner_acquire
<1>8. z \in State
  <2>1. TldLeaf(t, new) \in Leaf
    BY <1>2 DEF TldLeaf, Leaf
  <2> QED
    BY <1>1, <1>2, <1>6, <1>7, <2>1, FieldsMakeState DEF State
<1>9. Good(z)
  <2>1. TldStep(s, z, t, new)
    BY <1>1, <1>2, <1>5, <1>6, <1>7 DEF TldStep, State, One
  <2> QED
    BY <1>2, <1>8, <2>1, TldChange
<1>10. u = s
  <2>1. z.tlds[t] = new /\ e.tld = t /\ e.prior = prior /\ e.op = "MutateTld"
    BY <1>1, <1>6 DEF State
  <2>2. u = UndoMutateTld(e, z)
    BY <2>1 DEF Undo
  <2> HIDE DEF e, u
  <2>3. /\ u.tlds = [z.tlds EXCEPT ![t] = prior]
        /\ u.domains = z.domains /\ u.domainCount = z.domainCount /\ u.tldCount = z.tldCount
        /\ u.ownerKeys = z.ownerKeys /\ u.banned = z.banned /\ u.grace = z.grace
        /\ u.expirations = z.expirations
        /\ u.ownerRefs = owner_acquire(owner_release(z.ownerRefs, new.owner), prior.owner)
        /\ u.smt = (z.smt \ {TldLeaf(t, new)}) \cup {TldLeaf(t, prior)}
        /\ u = AsRecord(u)
    BY <1>2, <1>8, <2>1, <2>2 DEF UndoMutateTld, State, AsRecord, smt_put_tld
  <2>4. /\ TldLeaf(t, prior) \in s.smt
        /\ TldLeaf(t, new) \in s.smt => TldLeaf(t, new) = TldLeaf(t, prior)
    BY <1>2, <1>5 DEF Good, SmtExact, CommittedLeaves, LiveTlds, DomainLeaf, TldLeaf
  <2>5. u.tlds = s.tlds
    BY <1>1, <1>5, <1>6, <2>3 DEF State
  <2>6. u.ownerRefs = s.ownerRefs
    BY <1>1, <1>2, <1>3, <1>6, <2>3 DEF State, owner_release, owner_acquire
  <2>7. u.smt = s.smt
    BY <1>6, <2>3, <2>4
  <2> QED
    BY <1>1, <1>6, <2>3, <2>5, <2>6, <2>7 DEF State, AsRecord
<1> QED
  BY <1>9, <1>10 DEF prior, z

(* Learning a key and banning one touch no index.                           *)
LEMMA KeysGood ==
  ASSUME NEW s, Good(s), NEW o \in Owners
  PROVE  /\ Good(LearnOwnerKey(s, o))
         /\ Good(Ban(s, o))
         /\ o \notin s.ownerKeys =>
              Undo([op |-> "LearnOwnerKey", owner |-> o], LearnOwnerKey(s, o)) = s
         /\ o \in s.ownerKeys => LearnOwnerKey(s, o) = s
         /\ o \notin s.banned =>
              Undo([op |-> "BanAnchor", offender |-> o], Ban(s, o)) = s
<1> DEFINE z == LearnOwnerKey(s, o)
           y == Ban(s, o)
<1>1. s \in State
  BY DEF Good
<1>2. /\ z \in State /\ y \in State
      /\ z.domains = s.domains /\ z.tlds = s.tlds /\ z.smt = s.smt
      /\ z.expirations = s.expirations /\ z.ownerRefs = s.ownerRefs
      /\ z.domainCount = s.domainCount /\ z.tldCount = s.tldCount /\ z.grace = s.grace
      /\ y.domains = s.domains /\ y.tlds = s.tlds /\ y.smt = s.smt
      /\ y.expirations = s.expirations /\ y.ownerRefs = s.ownerRefs
      /\ y.domainCount = s.domainCount /\ y.tldCount = s.tldCount /\ y.grace = s.grace
  BY <1>1 DEF State, LearnOwnerKey, Ban
<1>3. Good(z) /\ Good(y)
  BY <1>2 DEF Good, SmtExact, CommittedLeaves, QueueExact, PoolExact, CountsExact,
              GraceExact, LiveDomains, LiveTlds, Held, HeldTlds, OwnsDomain, OwnsTld
<1>4. o \notin s.ownerKeys => Undo([op |-> "LearnOwnerKey", owner |-> o], z) = s
  <2> DEFINE u == Undo([op |-> "LearnOwnerKey", owner |-> o], z)
  <2>1. u = [z EXCEPT !.ownerKeys = @ \ {o}]
    BY DEF Undo
  <2>2. z.ownerKeys = s.ownerKeys \cup {o}
    BY <1>1 DEF LearnOwnerKey, State
  <2>3. u.ownerKeys = (s.ownerKeys \cup {o}) \ {o}
    BY <1>2, <2>1, <2>2 DEF State
  <2> SUFFICES ASSUME o \notin s.ownerKeys PROVE u = s
    OBVIOUS
  <2>4. u.ownerKeys = s.ownerKeys
    BY <2>3
  <2>5. z = [s EXCEPT !.ownerKeys = @ \cup {o}]
    BY DEF LearnOwnerKey
  <2> HIDE DEF u, z
  <2> QED
    BY <1>1, <2>1, <2>4, <2>5 DEF State
<1>5. o \in s.ownerKeys => z = s
  BY <1>1 DEF LearnOwnerKey, State
<1>6. o \notin s.banned => Undo([op |-> "BanAnchor", offender |-> o], y) = s
  <2> DEFINE u == Undo([op |-> "BanAnchor", offender |-> o], y)
  <2>1. u = [y EXCEPT !.banned = @ \ {o}]
    BY DEF Undo
  <2>2. y.banned = s.banned \cup {o}
    BY <1>1 DEF Ban, State
  <2>3. u.banned = (s.banned \cup {o}) \ {o}
    BY <1>2, <2>1, <2>2 DEF State
  <2> SUFFICES ASSUME o \notin s.banned PROVE u = s
    OBVIOUS
  <2>4. u.banned = s.banned
    BY <2>3
  <2>5. y = [s EXCEPT !.banned = @ \cup {o}]
    BY DEF Ban
  <2> HIDE DEF u, y
  <2> QED
    BY <1>1, <2>1, <2>4, <2>5 DEF State
<1> QED
  BY <1>3, <1>4, <1>5, <1>6

-----------------------------------------------------------------------------
(* The undo log.                                                            *)

(* A log J whose entries lead from s back along the states of T, all good.  *)
History(J, T, s) ==
  /\ J \in Seq(UndoEntry) /\ T \in Seq(State) /\ Len(T) = Len(J)
  /\ Good(s)
  /\ \A i \in 1..Len(J) : Good(T[i])
  /\ \A i \in 1..Len(J) :
       Undo(J[i], IF i = Len(J) THEN s ELSE T[i + 1]) = T[i]

Base(J, T, s) == IF J = <<>> THEN s ELSE T[1]

LEMMA Push ==
  ASSUME NEW J, NEW T, NEW s, History(J, T, s),
         NEW e \in UndoEntry, NEW z, Good(z), Undo(e, z) = s
  PROVE  /\ History(Append(J, e), Append(T, s), z)
         /\ Base(Append(J, e), Append(T, s), z) = Base(J, T, s)
<1> DEFINE K == Append(J, e)
           U == Append(T, s)
<1>1. s \in State /\ J \in Seq(UndoEntry) /\ T \in Seq(State) /\ Len(T) = Len(J)
  BY DEF History, Good
<1>2. /\ K \in Seq(UndoEntry) /\ U \in Seq(State)
      /\ Len(K) = Len(J) + 1 /\ Len(U) = Len(J) + 1 /\ Len(J) \in Nat
      /\ \A i \in 1..Len(J) : K[i] = J[i] /\ U[i] = T[i]
      /\ K[Len(J) + 1] = e /\ U[Len(J) + 1] = s
      /\ K # <<>>
  BY <1>1
<1>3. \A i \in 1..Len(K) : Good(U[i])
  BY <1>2 DEF History
<1>4. ASSUME NEW i \in 1..Len(K)
      PROVE  Undo(K[i], IF i = Len(K) THEN z ELSE U[i + 1]) = U[i]
  <2>1. CASE i = Len(J) + 1
    BY <1>2, <2>1
  <2>2. CASE i \in 1..Len(J) /\ i = Len(J)
    BY <1>2, <2>2 DEF History
  <2>3. CASE i \in 1..Len(J) /\ i # Len(J)
    <3>1. i + 1 \in 1..Len(J) /\ i # Len(K)
      BY <1>2, <2>3
    <3> QED
      BY <1>2, <2>3, <3>1 DEF History
  <2> QED
    BY <1>2, <2>1, <2>2, <2>3
<1>5. Base(K, U, z) = Base(J, T, s)
  <2>1. CASE J = <<>>
    BY <1>1, <1>2, <2>1 DEF Base
  <2>2. CASE J # <<>>
    BY <1>1, <1>2, <2>2 DEF Base
  <2> QED
    BY <2>1, <2>2
<1> QED
  BY <1>2, <1>3, <1>4, <1>5 DEF History

LEMMA Pop ==
  ASSUME NEW J, NEW T, NEW s, History(J, T, s), J # <<>>
  PROVE  LET K == SubSeq(J, 1, Len(J) - 1)
             U == SubSeq(T, 1, Len(T) - 1)
             z == Undo(J[Len(J)], s)
         IN History(K, U, z) /\ Base(K, U, z) = Base(J, T, s)
<1> DEFINE K == SubSeq(J, 1, Len(J) - 1)
           U == SubSeq(T, 1, Len(T) - 1)
           z == Undo(J[Len(J)], s)
<1>1. J \in Seq(UndoEntry) /\ T \in Seq(State) /\ Len(T) = Len(J)
  BY DEF History
<1>2. Len(J) \in Nat /\ Len(J) > 0
  BY <1>1
<1>3. /\ K \in Seq(UndoEntry) /\ U \in Seq(State)
      /\ Len(K) = Len(J) - 1 /\ Len(U) = Len(J) - 1
      /\ \A i \in 1..(Len(J) - 1) : K[i] = J[i] /\ U[i] = T[i]
  BY <1>1, <1>2
<1>4. z = T[Len(J)] /\ Good(z)
  BY <1>2 DEF History
<1>5. \A i \in 1..Len(K) : Good(U[i])
  BY <1>2, <1>3 DEF History
<1> HIDE DEF z
<1>6. ASSUME NEW i \in 1..Len(K)
      PROVE  Undo(K[i], IF i = Len(K) THEN z ELSE U[i + 1]) = U[i]
  <2>1. /\ i \in 1..Len(J) /\ i # Len(J) /\ i + 1 \in 1..Len(J) /\ i \in 1..(Len(J) - 1)
        /\ i # Len(K) => i + 1 \in 1..(Len(J) - 1)
        /\ i = Len(K) => i + 1 = Len(J)
    BY <1>2, <1>3
  <2>2. Undo(J[i], T[i + 1]) = T[i]
    BY <2>1 DEF History
  <2> QED
    BY <1>3, <1>4, <2>1, <2>2
<1>7. Base(K, U, z) = Base(J, T, s)
  <2> HIDE DEF K, U
  <2>1. CASE Len(J) = 1
    <3>1. K = <<>>
      BY <1>3, <2>1
    <3> QED
      BY <1>4, <2>1, <3>1 DEF Base
  <2>2. CASE Len(J) > 1
    <3>1. K # <<>> /\ U[1] = T[1]
      BY <1>2, <1>3, <2>2
    <3>2. Base(K, U, z) = U[1] /\ Base(J, T, s) = T[1]
      BY <1>2, <3>1 DEF Base
    <3> QED
      BY <3>1, <3>2
  <2>3. Len(J) = 1 \/ Len(J) > 1
    <3>1. \A k \in Nat : k > 0 => k = 1 \/ k > 1
      OBVIOUS
    <3> QED
      BY <1>2, <3>1
  <2> QED
    BY <2>1, <2>2, <2>3, Zenon
<1>8. History(K, U, z)
  BY <1>3, <1>4, <1>5, <1>6 DEF History
<1> QED
  BY <1>7, <1>8 DEF z

-----------------------------------------------------------------------------
(* The inductive invariant.                                                 *)

(* No registration of s has lapsed at n.                                    *)
Fresh(s, n) == \A d \in Domains : s.domains[d] # None => s.domains[d].validUntil > n

IInv ==
  /\ phase \in {"idle", "gc", "apply", "rollback"}
  /\ now \in Nat
  /\ saved \in State
  /\ History(journal, trail, st)
  /\ phase = "idle" => journal = <<>>
  /\ phase # "idle" => saved = Base(journal, trail, st)
  /\ phase = "apply" => Fresh(st, now)

LEMMA EmptyIsGood == Good(EmptyState)
<1>1. EmptyState \in State
  BY DEF EmptyState, State
<1>2. /\ LiveDomains(EmptyState) = {} /\ LiveTlds(EmptyState) = {}
      /\ \A o : Held(EmptyState, o) = {} /\ HeldTlds(EmptyState, o) = {}
  BY DEF EmptyState, LiveDomains, LiveTlds, Held, HeldTlds, OwnsDomain, OwnsTld
<1>3. Cardinality({}) = 0
  BY FS_EmptySet
<1>4. SmtExact(EmptyState)
  BY <1>2 DEF SmtExact, CommittedLeaves, EmptyState
<1>5. QueueExact(EmptyState) /\ GraceExact(EmptyState)
  BY <1>2 DEF QueueExact, GraceExact, EmptyState
<1>6. PoolExact(EmptyState) /\ CountsExact(EmptyState)
  <2>1. /\ \A o \in Owners : EmptyState.ownerRefs[o] = 0
        /\ EmptyState.domainCount = 0 /\ EmptyState.tldCount = 0
    BY DEF EmptyState
  <2> QED
    BY <1>2, <1>3, <2>1 DEF PoolExact, CountsExact
<1> QED
  BY <1>1, <1>4, <1>5, <1>6 DEF Good

LEMMA InitIInv == Init => IInv
<1> SUFFICES ASSUME Init PROVE IInv
  OBVIOUS
<1>1. EmptyState \in State
  BY EmptyIsGood DEF Good
<1>2. History(<<>>, <<>>, EmptyState)
  BY EmptyIsGood DEF History
<1> QED
  BY <1>1, <1>2 DEF Init, IInv

(* A transaction of one entry: what is left to show of it.                  *)
LEMMA ApplyStep ==
  ASSUME IInv, phase = "apply", NEW e \in UndoEntry, NEW z, Apply(e, z),
         Good(z), Undo(e, z) = st, Fresh(z, now)
  PROVE  IInv'
<1>1. History(journal, trail, st)
  BY DEF IInv
<1>2. /\ History(Append(journal, e), Append(trail, st), z)
      /\ Base(Append(journal, e), Append(trail, st), z) = Base(journal, trail, st)
  BY <1>1, Push
<1> QED
  BY <1>2 DEF IInv, Apply

(* Learning a key extends the log by its entry, or by nothing.              *)
LEMMA LearnStep ==
  ASSUME IInv, NEW o \in Owners
  PROVE  /\ History(journal \o LearnEntries(o), trail \o LearnTrail(o), LearnOwnerKey(st, o))
         /\ Base(journal \o LearnEntries(o), trail \o LearnTrail(o), LearnOwnerKey(st, o))
              = Base(journal, trail, st)
<1>1. History(journal, trail, st) /\ Good(st)
  BY DEF IInv, History
<1>2. journal \in Seq(UndoEntry) /\ trail \in Seq(State) /\ st \in State
  BY <1>1 DEF History, Good
<1>3. CASE o \in st.ownerKeys
  <2>1. /\ journal \o LearnEntries(o) = journal /\ trail \o LearnTrail(o) = trail
    BY <1>2, <1>3 DEF LearnEntries, LearnTrail
  <2>2. LearnOwnerKey(st, o) = st
    BY <1>1, <1>3, KeysGood
  <2> QED
    BY <1>1, <2>1, <2>2
<1>4. CASE o \notin st.ownerKeys
  <2> DEFINE e == [op |-> "LearnOwnerKey", owner |-> o]
  <2>1. e \in UndoEntry
    BY DEF UndoEntry
  <2>2. /\ journal \o LearnEntries(o) = Append(journal, e)
        /\ trail \o LearnTrail(o) = Append(trail, st)
    BY <1>2, <1>4, <2>1 DEF LearnEntries, LearnTrail
  <2>3. Good(LearnOwnerKey(st, o)) /\ Undo(e, LearnOwnerKey(st, o)) = st
    BY <1>1, <1>4, KeysGood
  <2> HIDE DEF e
  <2> QED
    BY <1>1, <2>1, <2>2, <2>3, Push
<1> QED
  BY <1>3, <1>4

(* A transaction that learns a key first.                                   *)
LEMMA ApplyLearningStep ==
  ASSUME IInv, phase = "apply", NEW o \in Owners, NEW e \in UndoEntry, NEW z,
         ApplyLearning(o, e, z),
         Good(z), Undo(e, z) = LearnOwnerKey(st, o), Fresh(z, now)
  PROVE  IInv'
<1> DEFINE J == journal \o LearnEntries(o)
           T == trail \o LearnTrail(o)
           s == LearnOwnerKey(st, o)
<1>1. History(J, T, s) /\ Base(J, T, s) = Base(journal, trail, st)
  BY LearnStep
<1> HIDE DEF J, T, s
<1>2. Undo(e, z) = s
  BY DEF s
<1>3. /\ History(Append(J, e), Append(T, s), z)
      /\ Base(Append(J, e), Append(T, s), z) = Base(J, T, s)
  BY <1>1, <1>2, Push
<1>4. /\ st' = z /\ journal' = Append(J, e) /\ trail' = Append(T, s)
      /\ phase' = phase /\ now' = now /\ saved' = saved
  BY DEF ApplyLearning, J, T, s
<1> QED
  BY <1>1, <1>3, <1>4 DEF IInv

(* What learning a key leaves alone.                                        *)
LEMMA LearnKeeps ==
  ASSUME NEW s, Good(s), NEW o \in Owners
  PROVE  /\ Good(LearnOwnerKey(s, o))
         /\ LearnOwnerKey(s, o).domains = s.domains
         /\ LearnOwnerKey(s, o).tlds = s.tlds
         /\ LearnOwnerKey(s, o).grace = s.grace
BY KeysGood DEF LearnOwnerKey, Good, State

(* The registry after each effect, where freshness is concerned.            *)
LEMMA FreshSteps ==
  ASSUME NEW s, Good(s), NEW n \in Nat, Fresh(s, n), NEW d \in Domains, NEW o \in Owners
  PROVE  /\ Fresh(CreateDomain(s, d, o, n), n)
         /\ s.domains[d] # None =>
              /\ \A q \in 0..MaxSequence, r \in Records : Fresh(UpdateDomainTo(s, d, q, r), n)
              /\ \A v \in Nat : v > s.domains[d].validUntil => Fresh(RenewDomainTo(s, d, v), n)
              /\ Fresh(TransferDomainTo(s, d, o), n)
<1>1. s \in State
  BY DEF Good
<1>2. Fresh(CreateDomain(s, d, o, n), n)
  <2> DEFINE new == [owner |-> o, sequence |-> 0, record |-> None, validUntil |-> n + TERM]
  <2>1. CreateDomain(s, d, o, n).domains = [s.domains EXCEPT ![d] = new]
    BY <1>1 DEF CreateDomain, State
  <2>2. new.validUntil > n
    BY RegistryConstants
  <2> HIDE DEF new
  <2> QED
    BY <1>1, <2>1, <2>2 DEF Fresh, State
<1>3. ASSUME s.domains[d] # None
      PROVE  /\ \A q \in 0..MaxSequence, r \in Records : Fresh(UpdateDomainTo(s, d, q, r), n)
             /\ \A v \in Nat : v > s.domains[d].validUntil => Fresh(RenewDomainTo(s, d, v), n)
             /\ Fresh(TransferDomainTo(s, d, o), n)
  <2> DEFINE prior == s.domains[d]
  <2>1. prior \in DomainState /\ prior.validUntil \in Nat /\ prior.validUntil > n
    BY <1>1, <1>3 DEF State, DomainState, Fresh
  <2>2. ASSUME NEW q \in 0..MaxSequence, NEW r \in Records
        PROVE  Fresh(UpdateDomainTo(s, d, q, r), n)
    <3> DEFINE new == [prior EXCEPT !.sequence = q, !.record = r]
    <3>1. UpdateDomainTo(s, d, q, r).domains = [s.domains EXCEPT ![d] = new]
      BY <1>1 DEF UpdateDomainTo, State
    <3>2. new.validUntil > n
      BY <2>1 DEF DomainState
    <3> HIDE DEF new
    <3> QED
      BY <1>1, <3>1, <3>2 DEF Fresh, State
  <2>3. ASSUME NEW v \in Nat, v > prior.validUntil
        PROVE  Fresh(RenewDomainTo(s, d, v), n)
    <3> DEFINE new == [prior EXCEPT !.validUntil = v]
    <3>1. RenewDomainTo(s, d, v).domains = [s.domains EXCEPT ![d] = new]
      BY <1>1 DEF RenewDomainTo, State
    <3>2. new.validUntil > n
      BY <2>1, <2>3 DEF DomainState
    <3> HIDE DEF new
    <3> QED
      BY <1>1, <3>1, <3>2 DEF Fresh, State
  <2>4. Fresh(TransferDomainTo(s, d, o), n)
    <3> DEFINE new == [prior EXCEPT !.owner = o]
    <3>1. TransferDomainTo(s, d, o).domains = [s.domains EXCEPT ![d] = new]
      BY <1>1 DEF TransferDomainTo, State
    <3>2. new.validUntil > n
      BY <2>1 DEF DomainState
    <3> HIDE DEF new
    <3> QED
      BY <1>1, <3>1, <3>2 DEF Fresh, State
  <2> QED
    BY <2>2, <2>3, <2>4
<1> QED
  BY <1>2, <1>3

(* The TLD transactions and the ban leave the domains alone.                *)
LEMMA FreshTlds ==
  ASSUME NEW s, Good(s), NEW n, Fresh(s, n), NEW t \in Tlds, NEW o \in Owners
  PROVE  /\ Fresh(CreateTld(s, t, o), n)
         /\ Fresh(RemoveTld(s, t), n)
         /\ Fresh(TransferTldTo(s, t, o), n)
         /\ \A b \in BOOLEAN : Fresh(SetTldOpenTo(s, t, b), n)
         /\ Fresh(Ban(s, o), n)
<1>1. s \in State
  BY DEF Good
<1>2. /\ CreateTld(s, t, o).domains = s.domains
      /\ RemoveTld(s, t).domains = s.domains
      /\ TransferTldTo(s, t, o).domains = s.domains
      /\ \A b \in BOOLEAN : SetTldOpenTo(s, t, b).domains = s.domains
      /\ Ban(s, o).domains = s.domains
  BY <1>1 DEF State, CreateTld, RemoveTld, TransferTldTo, SetTldOpenTo, Ban
<1> QED
  BY <1>2 DEF Fresh

(* A pair of the queue that is due is a live registration at its expiry.    *)
LEMMA DueIsLapsed ==
  ASSUME IInv, NEW p \in Due
  PROVE  /\ p[2] \in Domains /\ st.domains[p[2]] # None
         /\ p[1] = st.domains[p[2]].validUntil /\ p[1] <= now
<1>1. QueueExact(st)
  BY DEF IInv, History, Good
<1>2. PICK d \in LiveDomains(st) : p = <<st.domains[d].validUntil, d>>
  BY <1>1 DEF QueueExact, Due
<1> QED
  BY <1>2 DEF LiveDomains, Due

(* GC: the queue being exact, the collected id is always a lapsed domain.   *)
LEMMA GcKeeps == ASSUME IInv, GcOne PROVE IInv'
<1>1. PICK p \in Due :
        /\ st' = ExpireOne(st, p[1], p[2], now)
        /\ LET prior == st.domains[p[2]]
               gone  == prior # None /\ st'.domains[p[2]] = None
           IN /\ journal' = IF gone
                              THEN Append(journal, [op     |-> "ExpireDomain",
                                                    domain |-> p[2],
                                                    prior  |-> prior])
                              ELSE journal
              /\ trail' = IF gone THEN Append(trail, st) ELSE trail
  BY DEF GcOne
<1> DEFINE d == p[2]
           e == [op |-> "ExpireDomain", domain |-> d, prior |-> st.domains[d]]
           z == ExpireOne(st, st.domains[d].validUntil, d, now)
<1>2. /\ d \in Domains /\ st.domains[d] # None
      /\ p[1] = st.domains[d].validUntil /\ st.domains[d].validUntil <= now
  BY DueIsLapsed
<1>3. Good(st) /\ now \in Nat /\ History(journal, trail, st)
  BY DEF IInv, History
<1>4. Good(z) /\ Undo(e, z) = st /\ z.domains[d] = None
  BY <1>2, <1>3, ExpireDomainGood
<1>5. e \in UndoEntry
  <2>1. st.domains[d] \in DomainState
    BY <1>2, <1>3 DEF Good, State
  <2> QED
    BY <1>2, <2>1 DEF UndoEntry
<1>6. st' = z /\ journal' = Append(journal, e) /\ trail' = Append(trail, st)
  BY <1>1, <1>2, <1>4
<1>7. phase = "gc" /\ phase' = phase /\ now' = now /\ saved' = saved
  BY DEF GcOne
<1> HIDE DEF d, e, z
<1>8. /\ History(Append(journal, e), Append(trail, st), z)
      /\ Base(Append(journal, e), Append(trail, st), z) = Base(journal, trail, st)
  BY <1>3, <1>4, <1>5, Push
<1> QED
  BY <1>6, <1>7, <1>8 DEF IInv

(* Once nothing is due, every live domain outlives `now`.                   *)
LEMMA GcDoneKeeps == ASSUME IInv, GcDone PROVE IInv'
<1>1. Fresh(st, now)
  <2> SUFFICES ASSUME NEW d \in Domains, st.domains[d] # None
               PROVE  st.domains[d].validUntil > now
    BY DEF Fresh
  <2>1. QueueExact(st) /\ st \in State /\ now \in Nat
    BY DEF IInv, History, Good
  <2>2. <<st.domains[d].validUntil, d>> \in st.expirations
    BY <2>1 DEF QueueExact, LiveDomains
  <2>3. ~(st.domains[d].validUntil <= now)
    BY <2>2 DEF GcDone, Due
  <2>4. st.domains[d].validUntil \in Nat
    BY <2>1 DEF State, DomainState
  <2> QED
    BY <2>1, <2>3, <2>4
<1> QED
  BY <1>1 DEF GcDone, IInv

(* The transactions on a domain.                                            *)
LEMMA DomainTransactionKeeps ==
  ASSUME IInv, NEW d \in Domains, NEW o \in Owners,
         \/ RegisterDomain(d, o)
         \/ \E seq \in 1..MaxSequence, r \in Records : UpdateDomain(d, o, seq, r)
         \/ \E until \in Expiries : RenewDomain(d, o, until)
         \/ \E p \in Owners : AssignDomain(d, o, p)
         \/ \E p \in Owners : TransferDomain(d, o, p)
  PROVE  IInv'
<1>1. Good(st) /\ now \in Nat
  BY DEF IInv, History
<1> DEFINE l == LearnOwnerKey(st, o)
<1>2. Good(l) /\ l.domains = st.domains /\ l.tlds = st.tlds /\ l.grace = st.grace
  BY <1>1, LearnKeeps
<1>3. phase = "apply" => Fresh(st, now) /\ Fresh(l, now)
  BY <1>2 DEF IInv, Fresh
<1> HIDE DEF l
<1>4. /\ [op |-> "RegisterDomain", domain |-> d, consumed |-> st.grace[d]] \in UndoEntry
      /\ st.domains[d] # None => \A k \in {"UpdateDomain", "RenewDomain", "TransferDomain"} :
           [op |-> k, domain |-> d, prior |-> st.domains[d]] \in UndoEntry
  <2>1. /\ st.grace[d] \in GraceEntry \cup {None}
        /\ st.domains[d] # None => st.domains[d] \in DomainState
    BY <1>1 DEF Good, State
  <2> QED
    BY <2>1 DEF UndoEntry
<1>5. CASE RegisterDomain(d, o)
  <2> DEFINE e == [op |-> "RegisterDomain", domain |-> d, consumed |-> st.grace[d]]
             z == CreateDomain(l, d, o, now)
  <2>1. st.domains[d] = None /\ phase = "apply" /\ ApplyLearning(o, e, z)
    BY <1>5 DEF RegisterDomain, RegisterDomainOk, ensure_domain_free, Applying, l
  <2>2. Good(z) /\ Undo(e, z) = l
    BY <1>1, <1>2, <2>1, CreateDomainGood
  <2>3. Fresh(z, now)
    BY <1>1, <1>2, <1>3, <2>1, FreshSteps
  <2>4. e \in UndoEntry
    BY <1>4
  <2> HIDE DEF e, z
  <2> QED
    BY <2>1, <2>2, <2>3, <2>4, ApplyLearningStep DEF l
<1>6. CASE \E seq \in 1..MaxSequence, r \in Records : UpdateDomain(d, o, seq, r)
  <2>1. PICK seq \in 1..MaxSequence, r \in Records : UpdateDomain(d, o, seq, r)
    BY <1>6
  <2> DEFINE e == [op |-> "UpdateDomain", domain |-> d, prior |-> st.domains[d]]
             z == UpdateDomainTo(l, d, seq, r)
  <2>2. st.domains[d] # None /\ phase = "apply" /\ ApplyLearning(o, e, z)
    BY <2>1 DEF UpdateDomain, UpdateDomainOk, OwnsDomain, Applying, l
  <2>3. seq \in 0..MaxSequence
    BY RegistryConstants
  <2>4. Good(z) /\ Undo(e, z) = l
    BY <1>2, <2>2, <2>3, UpdateDomainGood
  <2>5. Fresh(z, now)
    BY <1>1, <1>2, <1>3, <2>2, <2>3, FreshSteps
  <2>6. e \in UndoEntry
    BY <1>4, <2>2
  <2> HIDE DEF e, z
  <2> QED
    BY <2>2, <2>4, <2>5, <2>6, ApplyLearningStep DEF l
<1>7. CASE \E until \in Expiries : RenewDomain(d, o, until)
  <2>1. PICK until \in Expiries : RenewDomain(d, o, until)
    BY <1>7
  <2> DEFINE e == [op |-> "RenewDomain", domain |-> d, prior |-> st.domains[d]]
             z == RenewDomainTo(st, d, until)
  <2>2. /\ st.domains[d] # None /\ until > st.domains[d].validUntil
        /\ phase = "apply" /\ Apply(e, z)
    BY <2>1 DEF RenewDomain, RenewDomainOk, OwnsDomain, Applying
  <2>3. until \in Nat
    BY BlockConstants
  <2>4. Good(z) /\ Undo(e, z) = st
    BY <1>1, <2>2, <2>3, RenewDomainGood
  <2>5. Fresh(z, now)
    BY <1>1, <1>3, <2>2, <2>3, FreshSteps
  <2>6. e \in UndoEntry
    BY <1>4, <2>2
  <2> HIDE DEF e, z
  <2> QED
    BY <2>2, <2>4, <2>5, <2>6, ApplyStep
<1>8. CASE \E p \in Owners : AssignDomain(d, o, p)
  <2>1. PICK p \in Owners : AssignDomain(d, o, p)
    BY <1>8
  <2> DEFINE e == [op |-> "RegisterDomain", domain |-> d, consumed |-> st.grace[d]]
             z == CreateDomain(st, d, p, now)
  <2>2. st.domains[d] = None /\ phase = "apply" /\ Apply(e, z)
    BY <2>1 DEF AssignDomain, AssignDomainOk, ensure_domain_free, Applying
  <2>3. Good(z) /\ Undo(e, z) = st
    BY <1>1, <2>2, CreateDomainGood
  <2>4. Fresh(z, now)
    BY <1>1, <1>3, <2>2, FreshSteps
  <2>5. e \in UndoEntry
    BY <1>4
  <2> HIDE DEF e, z
  <2> QED
    BY <2>2, <2>3, <2>4, <2>5, ApplyStep
<1>9. CASE \E p \in Owners : TransferDomain(d, o, p)
  <2>1. PICK p \in Owners : TransferDomain(d, o, p)
    BY <1>9
  <2> DEFINE e == [op |-> "TransferDomain", domain |-> d, prior |-> st.domains[d]]
             z == TransferDomainTo(st, d, p)
  <2>2. st.domains[d] # None /\ phase = "apply" /\ Apply(e, z)
    BY <2>1 DEF TransferDomain, OwnsDomain, Applying
  <2>3. Good(z) /\ Undo(e, z) = st
    BY <1>1, <2>2, TransferDomainGood
  <2>4. Fresh(z, now)
    BY <1>1, <1>3, <2>2, FreshSteps
  <2>5. e \in UndoEntry
    BY <1>4, <2>2
  <2> HIDE DEF e, z
  <2> QED
    BY <2>2, <2>3, <2>4, <2>5, ApplyStep
<1> QED
  BY <1>5, <1>6, <1>7, <1>8, <1>9

(* The transactions on a TLD.                                               *)
LEMMA TldTransactionKeeps ==
  ASSUME IInv, NEW t \in Tlds, NEW o \in Owners,
         \/ RegisterTld(t, o)
         \/ \E p \in Owners : TransferTld(t, o, p)
         \/ RevokeTld(t, o)
         \/ \E open \in BOOLEAN : SetTldOpen(t, o, open)
  PROVE  IInv'
<1>1. Good(st) /\ now \in Nat
  BY DEF IInv, History
<1> DEFINE l == LearnOwnerKey(st, o)
<1>2. Good(l) /\ l.domains = st.domains /\ l.tlds = st.tlds
  BY <1>1, LearnKeeps
<1>3. phase = "apply" => Fresh(st, now) /\ Fresh(l, now)
  BY <1>2 DEF IInv, Fresh
<1> HIDE DEF l
<1>4. /\ [op |-> "RegisterTld", tld |-> t] \in UndoEntry
      /\ st.tlds[t] # None => \A k \in {"MutateTld", "RevokeTld"} :
           [op |-> k, tld |-> t, prior |-> st.tlds[t]] \in UndoEntry
  <2>1. st.tlds[t] # None => st.tlds[t] \in TldState
    BY <1>1 DEF Good, State
  <2> QED
    BY <2>1 DEF UndoEntry
<1>5. CASE RegisterTld(t, o)
  <2> DEFINE e == [op |-> "RegisterTld", tld |-> t]
             z == CreateTld(l, t, o)
  <2>1. st.tlds[t] = None /\ phase = "apply" /\ ApplyLearning(o, e, z)
    BY <1>5 DEF RegisterTld, RegisterTldOk, Applying, l
  <2>2. Good(z) /\ Undo(e, z) = l
    BY <1>2, <2>1, CreateTldGood
  <2>3. Fresh(z, now)
    BY <1>1, <1>2, <1>3, <2>1, FreshTlds
  <2>4. e \in UndoEntry
    BY <1>4
  <2> HIDE DEF e, z
  <2> QED
    BY <2>1, <2>2, <2>3, <2>4, ApplyLearningStep DEF l
<1>6. CASE \E p \in Owners : TransferTld(t, o, p)
  <2>1. PICK p \in Owners : TransferTld(t, o, p)
    BY <1>6
  <2> DEFINE e == [op |-> "MutateTld", tld |-> t, prior |-> st.tlds[t]]
             z == TransferTldTo(st, t, p)
  <2>2. st.tlds[t] # None /\ phase = "apply" /\ Apply(e, z)
    BY <2>1 DEF TransferTld, OwnsTld, Applying
  <2>3. Good(z) /\ Undo(e, z) = st
    BY <1>1, <2>2, TransferTldGood
  <2>4. Fresh(z, now)
    BY <1>1, <1>3, <2>2, FreshTlds
  <2>5. e \in UndoEntry
    BY <1>4, <2>2
  <2> HIDE DEF e, z
  <2> QED
    BY <2>2, <2>3, <2>4, <2>5, ApplyStep
<1>7. CASE RevokeTld(t, o)
  <2> DEFINE e == [op |-> "RevokeTld", tld |-> t, prior |-> st.tlds[t]]
             z == RemoveTld(st, t)
  <2>2. st.tlds[t] # None /\ phase = "apply" /\ Apply(e, z)
    BY <1>7 DEF RevokeTld, OwnsTld, Applying
  <2>3. Good(z) /\ Undo(e, z) = st
    BY <1>1, <2>2, RemoveTldGood
  <2>4. Fresh(z, now)
    BY <1>1, <1>3, <2>2, FreshTlds
  <2>5. e \in UndoEntry
    BY <1>4, <2>2
  <2> HIDE DEF e, z
  <2> QED
    BY <2>2, <2>3, <2>4, <2>5, ApplyStep
<1>8. CASE \E open \in BOOLEAN : SetTldOpen(t, o, open)
  <2>1. PICK open \in BOOLEAN : SetTldOpen(t, o, open)
    BY <1>8
  <2> DEFINE e == [op |-> "MutateTld", tld |-> t, prior |-> st.tlds[t]]
             z == SetTldOpenTo(st, t, open)
  <2>2. st.tlds[t] # None /\ phase = "apply" /\ Apply(e, z)
    BY <2>1 DEF SetTldOpen, OwnsTld, Applying
  <2>3. Good(z) /\ Undo(e, z) = st
    BY <1>1, <2>2, SetTldOpenGood
  <2>4. Fresh(z, now)
    BY <1>1, <1>3, <2>2, FreshTlds
  <2>5. e \in UndoEntry
    BY <1>4, <2>2
  <2> HIDE DEF e, z
  <2> QED
    BY <2>2, <2>3, <2>4, <2>5, ApplyStep
<1> QED
  BY <1>5, <1>6, <1>7, <1>8

(* A slash: the pool holds no banned key, so its undo may lift the ban.     *)
LEMMA SlashKeeps == ASSUME IInv, NEW o \in Owners, Slash(o) PROVE IInv'
<1> DEFINE e == [op |-> "BanAnchor", offender |-> o]
           z == Ban(st, o)
<1>1. Good(st) /\ now \in Nat
  BY DEF IInv, History
<1>2. o \notin st.banned /\ phase = "apply" /\ Apply(e, z)
  BY DEF Slash, SlashOk, eligible_validators, Applying
<1>3. Good(z) /\ Undo(e, z) = st
  BY <1>1, <1>2, KeysGood
<1>4. Fresh(st, now)
  BY <1>2 DEF IInv
<1>5. z.domains = st.domains
  BY <1>1 DEF Ban, Good, State
<1>6. Fresh(z, now)
  BY <1>4, <1>5 DEF Fresh
<1>7. e \in UndoEntry
  BY DEF UndoEntry
<1> HIDE DEF e, z
<1> QED
  BY <1>2, <1>3, <1>6, <1>7, ApplyStep

(* The rollback and the refusals.                                           *)
LEMMA RejectUpdateKeeps ==
  ASSUME IInv, NEW d \in Domains, NEW o \in Owners, RejectUpdate(d, o)
  PROVE  IInv'
<1>1. phase = "apply" /\ phase' = "rollback" /\ now' = now /\ saved' = saved
  BY DEF RejectUpdate, Applying
<1>2. /\ st' = LearnOwnerKey(st, o)
      /\ journal' = journal \o LearnEntries(o) /\ trail' = trail \o LearnTrail(o)
  BY DEF RejectUpdate
<1>3. History(journal', trail', st') /\ Base(journal', trail', st') = Base(journal, trail, st)
  BY <1>2, LearnStep
<1> QED
  BY <1>1, <1>3 DEF IInv

LEMMA RollbackKeeps == ASSUME IInv, RollbackOne PROVE IInv'
<1>1. phase = "rollback" /\ phase' = phase /\ now' = now /\ saved' = saved
  BY DEF RollbackOne
<1>2. History(journal', trail', st') /\ Base(journal', trail', st') = Base(journal, trail, st)
  BY Pop DEF IInv, RollbackOne
<1> QED
  BY <1>1, <1>2 DEF IInv

LEMMA NextIInv == IInv /\ [Next]_vars => IInv'
<1> SUFFICES ASSUME IInv, [Next]_vars PROVE IInv'
  OBVIOUS
<1>1. ASSUME NEW t \in Times, BeginBlock(t) PROVE IInv'
  <2>1. /\ phase = "idle" /\ phase' = "gc" /\ now' = t /\ saved' = st
        /\ st' = st /\ journal' = journal /\ trail' = trail
    BY <1>1 DEF BeginBlock
  <2>2. journal = <<>> /\ st \in State /\ t \in Nat
    BY <2>1, BlockConstants DEF IInv, History, Good
  <2> QED
    BY <2>1, <2>2 DEF IInv, Base
<1>2. CASE GcOne
  BY <1>2, GcKeeps
<1>3. CASE GcDone
  BY <1>3, GcDoneKeeps
<1>4. CASE Transaction
  BY <1>4, DomainTransactionKeeps, TldTransactionKeeps, SlashKeeps DEF Transaction
<1>5. CASE Commit
  <2>1. /\ phase' = "idle" /\ now' = now /\ saved' = saved /\ st' = st
        /\ journal' = <<>> /\ trail' = <<>>
    BY <1>5 DEF Commit
  <2>2. History(<<>>, <<>>, st)
    BY DEF IInv, History
  <2> QED
    BY <2>1, <2>2 DEF IInv
<1>6. CASE Reject
  BY <1>6 DEF IInv, Reject
<1>7. ASSUME NEW d \in Domains, NEW o \in Owners, RejectUpdate(d, o) PROVE IInv'
  BY <1>7, RejectUpdateKeeps
<1>8. CASE RollbackOne
  BY <1>8, RollbackKeeps
<1>9. CASE RollbackDone
  BY <1>9 DEF IInv, RollbackDone
<1>10. CASE UNCHANGED vars
  BY <1>10 DEF IInv, vars
<1> QED
  BY <1>1, <1>2, <1>3, <1>4, <1>5, <1>6, <1>7, <1>8, <1>9, <1>10 DEF Next

LEMMA IInvInvariant == Spec => []IInv
BY InitIInv, NextIInv, PTL DEF Spec

-----------------------------------------------------------------------------
(* The theorems.                                                            *)

(* Types: in particular no counter of the registry goes below zero, so the  *)
(* saturating subtractions of state.rs never saturate.                      *)
THEOREM TypeCorrect == Spec => []TypeOK
<1>1. IInv => TypeOK
  BY DEF IInv, History, Good, TypeOK
<1> QED
  BY <1>1, IInvInvariant, PTL

(* The sparse Merkle tree commits to the live registry in every state,      *)
(* whatever blocks are applied, refused and rolled back.                    *)
THEOREM SmtAlwaysExact == Spec => []SmtCommitsRegistry
<1>1. IInv => SmtCommitsRegistry
  BY DEF IInv, History, Good, SmtCommitsRegistry
<1> QED
  BY <1>1, IInvInvariant, PTL

(* The expiration queue holds one pair per live domain: the defensive       *)
(* branches of gc_expired_journaled are dead.                               *)
THEOREM QueueAlwaysExact == Spec => []ExpirationQueueExact
<1>1. IInv => ExpirationQueueExact
  BY DEF IInv, History, Good, ExpirationQueueExact
<1> QED
  BY <1>1, IInvInvariant, PTL

(* The reference counts and the O(1) counters are the cardinalities they    *)
(* stand for.                                                               *)
THEOREM PoolAlwaysExact == Spec => []OwnerPoolExact
<1>1. IInv => OwnerPoolExact
  BY DEF IInv, History, Good, OwnerPoolExact
<1> QED
  BY <1>1, IInvInvariant, PTL

(* No live domain keeps a grace entry.                                      *)
THEOREM GraceAlwaysLapsed == Spec => []GraceOnlyLapsed
<1>1. IInv => GraceOnlyLapsed
  BY DEF IInv, History, Good, GraceOnlyLapsed
<1> QED
  BY <1>1, IInvInvariant, PTL

(* No transaction runs against a domain that has lapsed at the timestamp    *)
(* the block is judged by.                                                  *)
THEOREM ApplySeesLiveNames == Spec => []NoLapsedInBlock
<1>1. IInv => NoLapsedInBlock
  BY DEF IInv, Fresh, NoLapsedInBlock, LiveDomains
<1> QED
  BY <1>1, IInvInvariant, PTL

(* The eligibility pool, maintained by reference counting, is the set its   *)
(* definition names: known, unbanned keys with live stake.                  *)
THEOREM PoolMeansLiveStake == Spec => []PoolIsLiveStake
<1>1. ASSUME IInv PROVE PoolIsLiveStake
  <2> SUFFICES ASSUME phase = "apply", NEW o \in Owners
               PROVE  st.ownerRefs[o] > 0 <=>
                        \/ \E d \in Domains : OwnsDomain(st, d, o) /\ st.domains[d].validUntil > now
                        \/ \E t \in Tlds : OwnsTld(st, t, o)
    <3>1. st.ownerKeys \subseteq Owners
      BY <1>1 DEF IInv, History, Good, State
    <3> QED
      BY <3>1 DEF PoolIsLiveStake, eligible_validators
  <2>1. Good(st) /\ Fresh(st, now)
    BY <1>1 DEF IInv, History
  <2>2. ASSUME \/ \E d \in Domains : OwnsDomain(st, d, o)
               \/ \E t \in Tlds : OwnsTld(st, t, o)
        PROVE  st.ownerRefs[o] > 0
    BY <2>1, <2>2, HolderHasSeat
  <2>3. ASSUME ~ \E d \in Domains : OwnsDomain(st, d, o),
               ~ \E t \in Tlds : OwnsTld(st, t, o)
        PROVE  ~ (st.ownerRefs[o] > 0)
    <3>1. Held(st, o) = {} /\ HeldTlds(st, o) = {}
      BY <2>3 DEF Held, HeldTlds
    <3>2. Cardinality({}) = 0
      BY FS_EmptySet
    <3> QED
      BY <2>1, <3>1, <3>2 DEF Good, PoolExact
  <2>4. \A d \in Domains : OwnsDomain(st, d, o) => st.domains[d].validUntil > now
    BY <2>1 DEF Fresh, OwnsDomain
  <2> QED
    BY <2>2, <2>3, <2>4
<1> QED
  BY <1>1, IInvInvariant, PTL

(* Every entry of the undo log inverts the change it records.               *)
THEOREM UndoAlwaysInverts == Spec => []UndoLogInverts
<1>1. IInv => UndoLogInverts
  BY DEF IInv, History, UndoLogInverts, After
<1> QED
  BY <1>1, IInvInvariant, PTL

(* A refused block leaves no trace: when its undo log is spent the registry *)
(* is the one the block started from.                                       *)
THEOREM RollbackIsExact == Spec => []RollbackExact
<1>1. IInv => RollbackExact
  BY DEF IInv, Base, RollbackExact
<1> QED
  BY <1>1, IInvInvariant, PTL
=============================================================================
