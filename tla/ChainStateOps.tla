---------------------------- MODULE ChainStateOps ----------------------------
(***************************************************************************)
(* The name registry of the chain as a value, and the operations of        *)
(* crates/scone-blockchain/src/state.rs on it: one rule (TxOk) and one      *)
(* effect per transaction kind, the expiry of one registration, and the    *)
(* inverse of every undo-log entry.  The operators are pure: ChainState    *)
(* drives them through a block, Chain replays them along a branch.         *)
(*                                                                         *)
(* A map of the code is a total function whose absent keys map to None     *)
(* (or to 0 for the reference counts); an OwnerId and the Ed25519 key it   *)
(* is derived from are one value, because validate() refuses a transaction *)
(* whose owner is not the derivation of its key.                           *)
(***************************************************************************)
EXTENDS Naturals, FiniteSets, Sequences

CONSTANTS
  Owners,       \* identities (OwnerId and its public key)
  Tlds,         \* top-level domains
  Domains,      \* second-level domains
  TldOf,        \* the TLD of each domain
  IcannTlds,    \* the TLDs of the legacy DNS root, claimable by no one
  Records,      \* hashes of published DNS record sets
  ZERO_HASH,    \* the hash whose 32 bytes are zero
  MaxSequence,  \* the largest sequence number (u64::MAX in the code)
  TERM,         \* DOMAIN_TERM_SECS
  GRACE,        \* DOMAIN_GRACE_SECS
  HORIZON,      \* DOMAIN_MAX_HORIZON_SECS
  None          \* an absent map entry

ASSUME RegistryConstants ==
  /\ IsFiniteSet(Owners) /\ IsFiniteSet(Tlds) /\ IsFiniteSet(Domains)
  /\ TldOf \in [Domains -> Tlds]
  /\ IcannTlds \subseteq Tlds
  /\ MaxSequence \in Nat
  /\ TERM \in Nat \ {0} /\ GRACE \in Nat /\ HORIZON \in Nat
  /\ None \notin Records \cup {ZERO_HASH}

(* registered_at is left out: no rule of the code reads it. *)
DomainState == [owner: Owners, sequence: 0..MaxSequence,
                record: Records \cup {ZERO_HASH, None}, validUntil: Nat]
TldState    == [owner: Owners, open: BOOLEAN]
GraceEntry  == [expiredAt: Nat, owner: Owners]

ASSUME NoneIsNoEntry ==
  /\ None \notin DomainState
  /\ None \notin TldState
  /\ None \notin GraceEntry

(* A leaf of the sparse Merkle tree commits to an id and its entry; a       *)
(* domain without a record has the leaf of one with the hash of zeros.      *)
DomainLeaf(d, v) ==
  [kind |-> "DOM", id |-> d, val |-> [v EXCEPT !.record = IF @ = None THEN ZERO_HASH ELSE @]]
TldLeaf(t, v) == [kind |-> "TLD", id |-> t, val |-> v]
Leaf == [kind: {"DOM"}, id: Domains,
         val: [owner: Owners, sequence: 0..MaxSequence,
               record: Records \cup {ZERO_HASH}, validUntil: Nat]]
          \cup [kind: {"TLD"}, id: Tlds, val: TldState]

State ==
  [domains     : [Domains -> DomainState \cup {None}],
   tlds        : [Tlds -> TldState \cup {None}],
   domainCount : Nat,
   tldCount    : Nat,
   ownerKeys   : SUBSET Owners,               \* owners whose key is known
   ownerRefs   : [Owners -> Nat],             \* owner_refcounts
   expirations : SUBSET (Nat \X Domains),     \* the expiration queue
   grace       : [Domains -> GraceEntry \cup {None}],
   smt         : SUBSET Leaf,
   banned      : SUBSET Owners]

EmptyState ==
  [domains     |-> [d \in Domains |-> None],
   tlds        |-> [t \in Tlds |-> None],
   domainCount |-> 0,
   tldCount    |-> 0,
   ownerKeys   |-> {},
   ownerRefs   |-> [o \in Owners |-> 0],
   expirations |-> {},
   grace       |-> [d \in Domains |-> None],
   smt         |-> {},
   banned      |-> {}]

-----------------------------------------------------------------------------
(* Journal-maintained indexes.                                             *)

owner_acquire(refs, o) == [refs EXCEPT ![o] = @ + 1]
owner_release(refs, o) == [refs EXCEPT ![o] = IF @ = 0 THEN 0 ELSE @ - 1]

expiration_enqueue(q, until, d) == q \cup {<<until, d>>}
expiration_dequeue(q, until, d) == q \ {<<until, d>>}

smt_put_domain(smt, d, old, new) ==
  (IF old = None THEN smt ELSE smt \ {DomainLeaf(d, old)})
    \cup {DomainLeaf(d, new)}
smt_remove_domain(smt, d, v)   == smt \ {DomainLeaf(d, v)}
smt_put_tld(smt, t, old, new)  == (smt \ {TldLeaf(t, old)}) \cup {TldLeaf(t, new)}
smt_insert_tld(smt, t, v)      == smt \cup {TldLeaf(t, v)}
smt_remove_tld(smt, t, v)      == smt \ {TldLeaf(t, v)}

(* Mutant: the ban is not looked at.                                        *)
eligible_validators_mut(s) ==
  {o \in Owners : s.ownerRefs[o] > 0 /\ o \in s.ownerKeys}

(* The PoS pool: read from the reference counts, never from the registry.   *)
eligible_validators(s) ==
  {o \in Owners : s.ownerRefs[o] > 0 /\ o \in s.ownerKeys /\ o \notin s.banned}

-----------------------------------------------------------------------------
(* Rules: what apply_journaled_at checks before it changes anything.  A     *)
(* wrong network, a failed proof of work or a bad owner binding rejects     *)
(* every kind alike and is the generic rejection of ChainState.            *)

ensure_domain_free(s, d, now, claimant) ==
  /\ s.domains[d] = None
  /\ s.grace[d] # None =>
       \/ now >= s.grace[d].expiredAt + GRACE
       \/ claimant = s.grace[d].owner

RegisterDomainOk(s, d, o, now) ==
  /\ s.tlds[TldOf[d]] # None
  /\ s.tlds[TldOf[d]].open
  /\ ensure_domain_free(s, d, now, o)

AssignDomainOk(s, d, o, assignee, now) ==
  /\ s.tlds[TldOf[d]] # None
  /\ s.tlds[TldOf[d]].owner = o
  /\ ensure_domain_free(s, d, now, assignee)

OwnsDomain(s, d, o) == s.domains[d] # None /\ s.domains[d].owner = o
OwnsTld(s, t, o)    == s.tlds[t] # None /\ s.tlds[t].owner = o

UpdateDomainOk(s, d, o, seq) ==
  /\ OwnsDomain(s, d, o)
  /\ s.domains[d].sequence < MaxSequence
  /\ seq = s.domains[d].sequence + 1

RenewDomainOk(s, d, o, until, now) ==
  /\ OwnsDomain(s, d, o)
  /\ until > s.domains[d].validUntil
  /\ until <= now + HORIZON

RegisterTldOk(s, t) == s.tlds[t] = None /\ t \notin IcannTlds

SlashOk(s, offender) == offender \in eligible_validators(s)

-----------------------------------------------------------------------------
(* Effects.                                                                *)

LearnOwnerKey(s, o) == [s EXCEPT !.ownerKeys = @ \cup {o}]

(* Mutant: the grace entry is not consumed.                                 *)
CreateDomain_mut(s, d, o, now) ==
  LET new == [owner |-> o, sequence |-> 0, record |-> None,
              validUntil |-> now + TERM]
  IN [s EXCEPT !.smt         = smt_put_domain(@, d, None, new),
               !.domains     = [s.domains EXCEPT ![d] = new],
               !.domainCount = @ + 1,
               !.expirations = expiration_enqueue(@, new.validUntil, d),
               !.ownerRefs   = owner_acquire(@, o)]

(* The creation shared by RegisterDomain and AssignDomain.                 *)
CreateDomain(s, d, o, now) ==
  LET new == [owner |-> o, sequence |-> 0, record |-> None,
              validUntil |-> now + TERM]
  IN [s EXCEPT !.grace       = [s.grace EXCEPT ![d] = None],
               !.smt         = smt_put_domain(@, d, None, new),
               !.domains     = [s.domains EXCEPT ![d] = new],
               !.domainCount = @ + 1,
               !.expirations = expiration_enqueue(@, new.validUntil, d),
               !.ownerRefs   = owner_acquire(@, o)]

(* Mutant: the leaf of the previous version stays in the tree.              *)
UpdateDomainTo_mut(s, d, seq, r) ==
  LET new == [s.domains[d] EXCEPT !.sequence = seq, !.record = r]
  IN [s EXCEPT !.smt     = smt_put_domain(@, d, None, new),
               !.domains = [s.domains EXCEPT ![d] = new]]

UpdateDomainTo(s, d, seq, r) ==
  LET new == [s.domains[d] EXCEPT !.sequence = seq, !.record = r]
  IN [s EXCEPT !.smt     = smt_put_domain(@, d, s.domains[d], new),
               !.domains = [s.domains EXCEPT ![d] = new]]

(* Mutant: the domain is enqueued at its new expiry and not dequeued from   *)
(* the old one.                                                             *)
RenewDomainTo_mut(s, d, until) ==
  LET prior == s.domains[d]
      new   == [prior EXCEPT !.validUntil = until]
  IN [s EXCEPT !.expirations = expiration_enqueue(@, until, d),
               !.smt     = smt_put_domain(@, d, prior, new),
               !.domains = [s.domains EXCEPT ![d] = new]]

RenewDomainTo(s, d, until) ==
  LET prior == s.domains[d]
      new   == [prior EXCEPT !.validUntil = until]
  IN [s EXCEPT !.expirations =
                  expiration_enqueue(
                    expiration_dequeue(@, prior.validUntil, d), until, d),
               !.smt     = smt_put_domain(@, d, prior, new),
               !.domains = [s.domains EXCEPT ![d] = new]]

(* Mutant: the previous owner keeps the seat.                               *)
TransferDomainTo_mut(s, d, o) ==
  LET prior == s.domains[d]
      new   == [prior EXCEPT !.owner = o]
  IN [s EXCEPT !.smt       = smt_put_domain(@, d, prior, new),
               !.domains   = [s.domains EXCEPT ![d] = new],
               !.ownerRefs = owner_acquire(@, o)]

TransferDomainTo(s, d, o) ==
  LET prior == s.domains[d]
      new   == [prior EXCEPT !.owner = o]
  IN [s EXCEPT !.smt       = smt_put_domain(@, d, prior, new),
               !.domains   = [s.domains EXCEPT ![d] = new],
               !.ownerRefs = owner_acquire(owner_release(@, prior.owner), o)]

CreateTld(s, t, o) ==
  LET new == [owner |-> o, open |-> FALSE]
  IN [s EXCEPT !.smt       = smt_insert_tld(@, t, new),
               !.tlds      = [s.tlds EXCEPT ![t] = new],
               !.tldCount  = @ + 1,
               !.ownerRefs = owner_acquire(@, o)]

TransferTldTo(s, t, o) ==
  LET prior == s.tlds[t]
      new   == [prior EXCEPT !.owner = o]
  IN [s EXCEPT !.smt       = smt_put_tld(@, t, prior, new),
               !.tlds      = [s.tlds EXCEPT ![t] = new],
               !.ownerRefs = owner_acquire(owner_release(@, prior.owner), o)]

SetTldOpenTo(s, t, open) ==
  LET prior == s.tlds[t]
      new   == [prior EXCEPT !.open = open]
  IN [s EXCEPT !.smt  = smt_put_tld(@, t, prior, new),
               !.tlds = [s.tlds EXCEPT ![t] = new]]

RemoveTld(s, t) ==
  [s EXCEPT !.smt       = smt_remove_tld(@, t, s.tlds[t]),
            !.tlds      = [s.tlds EXCEPT ![t] = None],
            !.tldCount  = @ - 1,
            !.ownerRefs = owner_release(@, s.tlds[t].owner)]

Ban(s, offender) == [s EXCEPT !.banned = @ \cup {offender}]

(* Mutant: the counter is decremented twice.                                *)
ExpireOne_mut(s, until, d, now) ==
  LET prior == s.domains[d]
      rest  == expiration_dequeue(s.expirations, until, d)
  IN [s EXCEPT !.expirations = rest,
               !.domains     = [s.domains EXCEPT ![d] = None],
               !.smt         = smt_remove_domain(@, d, prior),
               !.domainCount = @ - 2,
               !.ownerRefs   = owner_release(@, prior.owner),
               !.grace       = [s.grace EXCEPT ![d] =
                                 [expiredAt |-> prior.validUntil,
                                  owner     |-> prior.owner]]]

(* One id of a due expiry slot: the queue is derived state, so the entry    *)
(* itself decides (a stale id is dropped, a renewed one goes back).         *)
ExpireOne(s, until, d, now) ==
  LET prior == s.domains[d]
      rest  == expiration_dequeue(s.expirations, until, d)
  IN IF prior = None
       THEN [s EXCEPT !.expirations = rest]
     ELSE IF prior.validUntil > now
       THEN [s EXCEPT !.expirations =
                        expiration_enqueue(rest, prior.validUntil, d)]
     ELSE [s EXCEPT !.expirations = rest,
                    !.domains     = [s.domains EXCEPT ![d] = None],
                    !.smt         = smt_remove_domain(@, d, prior),
                    !.domainCount = @ - 1,
                    !.ownerRefs   = owner_release(@, prior.owner),
                    !.grace       = [s.grace EXCEPT ![d] =
                                      [expiredAt |-> prior.validUntil,
                                       owner     |-> prior.owner]]]

-----------------------------------------------------------------------------
(* The undo log: one record per UndoEntry variant, and its inverse.         *)

(* Mutant: the grace entry the registration consumed is not given back.     *)
UndoRegisterDomain_mut(e, s) ==
  LET cur == s.domains[e.domain]
  IN IF cur = None THEN s
     ELSE [s EXCEPT !.smt         = smt_remove_domain(@, e.domain, cur),
                    !.domains     = [s.domains EXCEPT ![e.domain] = None],
                    !.domainCount = @ - 1,
                    !.expirations = expiration_dequeue(@, cur.validUntil, e.domain),
                    !.ownerRefs   = owner_release(@, cur.owner)]

UndoRegisterDomain(e, s) ==
  LET cur    == s.domains[e.domain]
      grace1 == IF e.consumed = None THEN s.grace
                ELSE [s.grace EXCEPT ![e.domain] = e.consumed]
  IN IF cur = None THEN [s EXCEPT !.grace = grace1]
     ELSE [s EXCEPT !.smt         = smt_remove_domain(@, e.domain, cur),
                    !.domains     = [s.domains EXCEPT ![e.domain] = None],
                    !.domainCount = @ - 1,
                    !.expirations = expiration_dequeue(@, cur.validUntil, e.domain),
                    !.ownerRefs   = owner_release(@, cur.owner),
                    !.grace       = grace1]

UndoUpdateDomain(e, s) ==
  LET cur == s.domains[e.domain]
  IN [s EXCEPT !.smt     = IF cur = None THEN @
                           ELSE smt_put_domain(@, e.domain, cur, e.prior),
               !.domains = [s.domains EXCEPT ![e.domain] = e.prior]]

UndoRenewDomain(e, s) ==
  LET cur == s.domains[e.domain]
  IN [s EXCEPT !.smt         = IF cur = None THEN @
                               ELSE smt_put_domain(@, e.domain, cur, e.prior),
               !.expirations =
                 expiration_enqueue(
                   IF cur = None THEN @
                   ELSE expiration_dequeue(@, cur.validUntil, e.domain),
                   e.prior.validUntil, e.domain),
               !.domains     = [s.domains EXCEPT ![e.domain] = e.prior]]

UndoTransferDomain(e, s) ==
  LET cur == s.domains[e.domain]
  IN [s EXCEPT !.smt       = IF cur = None THEN @
                             ELSE smt_put_domain(@, e.domain, cur, e.prior),
               !.ownerRefs = owner_acquire(
                               IF cur = None THEN @ ELSE owner_release(@, cur.owner),
                               e.prior.owner),
               !.domains   = [s.domains EXCEPT ![e.domain] = e.prior]]

UndoExpireDomain(e, s) ==
  [s EXCEPT !.grace       = [s.grace EXCEPT ![e.domain] = None],
            !.smt         = smt_put_domain(@, e.domain, None, e.prior),
            !.domains     = [s.domains EXCEPT ![e.domain] = e.prior],
            !.domainCount = @ + 1,
            !.expirations = expiration_enqueue(@, e.prior.validUntil, e.domain),
            !.ownerRefs   = owner_acquire(@, e.prior.owner)]

UndoRegisterTld(e, s) ==
  IF s.tlds[e.tld] = None THEN s ELSE RemoveTld(s, e.tld)

(* Mutant: the seat does not follow the namespace back.                     *)
UndoMutateTld_mut(e, s) ==
  LET cur == s.tlds[e.tld]
  IN [s EXCEPT !.smt  = IF cur = None THEN @
                        ELSE smt_put_tld(@, e.tld, cur, e.prior),
               !.tlds = [s.tlds EXCEPT ![e.tld] = e.prior]]

UndoMutateTld(e, s) ==
  LET cur == s.tlds[e.tld]
  IN [s EXCEPT !.smt       = IF cur = None THEN @
                             ELSE smt_put_tld(@, e.tld, cur, e.prior),
               !.ownerRefs = IF cur = None THEN @
                             ELSE owner_acquire(owner_release(@, cur.owner),
                                                e.prior.owner),
               !.tlds      = [s.tlds EXCEPT ![e.tld] = e.prior]]

(* Mutant: the counter goes the wrong way.                                  *)
UndoRevokeTld_mut(e, s) ==
  [s EXCEPT !.smt       = smt_insert_tld(@, e.tld, e.prior),
            !.tlds      = [s.tlds EXCEPT ![e.tld] = e.prior],
            !.tldCount  = @ - 1,
            !.ownerRefs = owner_acquire(@, e.prior.owner)]

UndoRevokeTld(e, s) ==
  [s EXCEPT !.smt       = smt_insert_tld(@, e.tld, e.prior),
            !.tlds      = [s.tlds EXCEPT ![e.tld] = e.prior],
            !.tldCount  = @ + 1,
            !.ownerRefs = owner_acquire(@, e.prior.owner)]

Undo(e, s) ==
  CASE e.op = "RegisterDomain" -> UndoRegisterDomain(e, s)
    [] e.op = "UpdateDomain"   -> UndoUpdateDomain(e, s)
    [] e.op = "RenewDomain"    -> UndoRenewDomain(e, s)
    [] e.op = "TransferDomain" -> UndoTransferDomain(e, s)
    [] e.op = "ExpireDomain"   -> UndoExpireDomain(e, s)
    [] e.op = "RegisterTld"    -> UndoRegisterTld(e, s)
    [] e.op = "MutateTld"      -> UndoMutateTld(e, s)
    [] e.op = "RevokeTld"      -> UndoRevokeTld(e, s)
    [] e.op = "LearnOwnerKey"  -> [s EXCEPT !.ownerKeys = @ \ {e.owner}]
    [] e.op = "BanAnchor"      -> [s EXCEPT !.banned = @ \ {e.offender}]

-----------------------------------------------------------------------------
(* What the derived fields of a state must be, read off its registry.       *)

Held(s, o) == {d \in Domains : OwnsDomain(s, d, o)}
HeldTlds(s, o) == {t \in Tlds : OwnsTld(s, t, o)}
LiveDomains(s) == {d \in Domains : s.domains[d] # None}
LiveTlds(s) == {t \in Tlds : s.tlds[t] # None}

CommittedLeaves(s) ==
  {DomainLeaf(d, s.domains[d]) : d \in LiveDomains(s)}
    \cup {TldLeaf(t, s.tlds[t]) : t \in LiveTlds(s)}

SmtExact(s) == s.smt = CommittedLeaves(s)
QueueExact(s) ==
  s.expirations = {<<s.domains[d].validUntil, d>> : d \in LiveDomains(s)}
PoolExact(s) ==
  \A o \in Owners :
    s.ownerRefs[o] = Cardinality(Held(s, o)) + Cardinality(HeldTlds(s, o))
CountsExact(s) ==
  /\ s.domainCount = Cardinality(LiveDomains(s))
  /\ s.tldCount = Cardinality(LiveTlds(s))
GraceExact(s) == \A d \in LiveDomains(s) : s.grace[d] = None
=============================================================================
