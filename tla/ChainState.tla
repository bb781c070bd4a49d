------------------------------ MODULE ChainState ------------------------------
(***************************************************************************)
(* The registry while blocks are applied to it, after                       *)
(* crates/scone-blockchain/src/state.rs.  A block starts with the garbage   *)
(* collection of the expired registrations at the parent's timestamp, goes  *)
(* on with its transactions, one at a time, and ends in a commit, or, as    *)
(* soon as one transaction is refused, in the rollback of the whole undo    *)
(* log, most recent entry first.                                            *)
(*                                                                         *)
(* `saved` and `trail` are history variables: the registry before the       *)
(* block, and before each entry of the undo log.  No action reads them.     *)
(***************************************************************************)
EXTENDS ChainStateOps

CONSTANTS
  Times,       \* timestamps a parent block may carry: they need not increase
  Expiries,    \* expiry instants a renewal may ask for
  MaxJournal   \* bound on the undo entries of one block

ASSUME BlockConstants ==
  /\ Times \subseteq Nat
  /\ Expiries \subseteq Nat
  /\ MaxJournal \in Nat

VARIABLES
  st,       \* the ChainState
  phase,    \* "idle", "gc", "apply" or "rollback"
  now,      \* the parent's timestamp, input of the block's rules
  journal,  \* the UndoLog of the block being applied
  saved,    \* history: st when the block started
  trail     \* history: st before each entry of the journal

vars == <<st, phase, now, journal, saved, trail>>

Init ==
  /\ st = EmptyState
  /\ phase = "idle"
  /\ now = 0
  /\ journal = <<>>
  /\ saved = EmptyState
  /\ trail = <<>>

-----------------------------------------------------------------------------
(* Garbage collection.                                                      *)

BeginBlock(t) ==
  /\ phase = "idle"
  /\ phase' = "gc"
  /\ now' = t
  /\ saved' = st
  /\ UNCHANGED <<st, journal, trail>>

(* Mutant: a slot that expires exactly at `now` is not drained.             *)
Due_mut == {p \in st.expirations : p[1] < now}

Due == {p \in st.expirations : p[1] <= now}

(* One id of the earliest due slot (ids of one slot commute).               *)
GcOne ==
  /\ phase = "gc"
  /\ \E p \in Due :
       /\ \A q \in Due : p[1] <= q[1]
       /\ st' = ExpireOne(st, p[1], p[2], now)
       /\ LET prior == st.domains[p[2]]
              gone  == prior # None /\ st'.domains[p[2]] = None
          IN /\ journal' = IF gone
                             THEN Append(journal, [op     |-> "ExpireDomain",
                                                   domain |-> p[2],
                                                   prior  |-> prior])
                             ELSE journal
             /\ trail' = IF gone THEN Append(trail, st) ELSE trail
  /\ UNCHANGED <<phase, now, saved>>

GcDone ==
  /\ phase = "gc"
  /\ Due = {}
  /\ phase' = "apply"
  /\ UNCHANGED <<st, now, journal, saved, trail>>

-----------------------------------------------------------------------------
(* Transactions.                                                            *)

Applying == phase = "apply" /\ Len(journal) < MaxJournal

(* A self-signed transaction teaches the key of its owner, once.            *)
LearnEntries(o) ==
  IF o \in st.ownerKeys THEN <<>>
  ELSE <<[op |-> "LearnOwnerKey", owner |-> o]>>
LearnTrail(o) == IF o \in st.ownerKeys THEN <<>> ELSE <<st>>

(* A transaction of one entry.                                              *)
Apply(entry, new) ==
  /\ st' = new
  /\ journal' = Append(journal, entry)
  /\ trail' = Append(trail, st)
  /\ UNCHANGED <<phase, now, saved>>

(* A transaction that learns the key of o first; new is built on the state  *)
(* that knows it.                                                           *)
ApplyLearning(o, entry, new) ==
  /\ st' = new
  /\ journal' = Append(journal \o LearnEntries(o), entry)
  /\ trail' = Append(trail \o LearnTrail(o), LearnOwnerKey(st, o))
  /\ UNCHANGED <<phase, now, saved>>

RegisterDomain(d, o) ==
  /\ Applying
  /\ RegisterDomainOk(st, d, o, now)
  /\ ApplyLearning(o,
       [op |-> "RegisterDomain", domain |-> d, consumed |-> st.grace[d]],
       CreateDomain(LearnOwnerKey(st, o), d, o, now))

UpdateDomain(d, o, seq, r) ==
  /\ Applying
  /\ UpdateDomainOk(st, d, o, seq)
  /\ ApplyLearning(o,
       [op |-> "UpdateDomain", domain |-> d, prior |-> st.domains[d]],
       UpdateDomainTo(LearnOwnerKey(st, o), d, seq, r))

RegisterTld(t, o) ==
  /\ Applying
  /\ RegisterTldOk(st, t)
  /\ ApplyLearning(o,
       [op |-> "RegisterTld", tld |-> t],
       CreateTld(LearnOwnerKey(st, o), t, o))

TransferTld(t, o, new_owner) ==
  /\ Applying
  /\ OwnsTld(st, t, o)
  /\ Apply([op |-> "MutateTld", tld |-> t, prior |-> st.tlds[t]],
           TransferTldTo(st, t, new_owner))

RevokeTld(t, o) ==
  /\ Applying
  /\ OwnsTld(st, t, o)
  /\ Apply([op |-> "RevokeTld", tld |-> t, prior |-> st.tlds[t]],
           RemoveTld(st, t))

SetTldOpen(t, o, open) ==
  /\ Applying
  /\ OwnsTld(st, t, o)
  /\ Apply([op |-> "MutateTld", tld |-> t, prior |-> st.tlds[t]],
           SetTldOpenTo(st, t, open))

(* The assignee signs nothing here: its key stays unknown.                  *)
AssignDomain(d, o, assignee) ==
  /\ Applying
  /\ AssignDomainOk(st, d, o, assignee, now)
  /\ Apply([op |-> "RegisterDomain", domain |-> d, consumed |-> st.grace[d]],
           CreateDomain(st, d, assignee, now))

RenewDomain(d, o, until) ==
  /\ Applying
  /\ RenewDomainOk(st, d, o, until, now)
  /\ Apply([op |-> "RenewDomain", domain |-> d, prior |-> st.domains[d]],
           RenewDomainTo(st, d, until))

TransferDomain(d, o, new_owner) ==
  /\ Applying
  /\ OwnsDomain(st, d, o)
  /\ Apply([op |-> "TransferDomain", domain |-> d, prior |-> st.domains[d]],
           TransferDomainTo(st, d, new_owner))

(* The pool holds no banned key, so the insertion is always a fresh one.    *)
Slash(offender) ==
  /\ Applying
  /\ SlashOk(st, offender)
  /\ Apply([op |-> "BanAnchor", offender |-> offender], Ban(st, offender))

-----------------------------------------------------------------------------
(* The end of a block.                                                      *)

Commit ==
  /\ phase = "apply"
  /\ phase' = "idle"
  /\ journal' = <<>>
  /\ trail' = <<>>
  /\ UNCHANGED <<st, now, saved>>

(* A transaction fails a rule that precedes every change: a wrong network,  *)
(* a failed proof of work, a rule above.                                    *)
Reject ==
  /\ phase = "apply"
  /\ phase' = "rollback"
  /\ UNCHANGED <<st, now, journal, saved, trail>>

(* An update by the owner with a wrong sequence number: the key is learned  *)
(* and journaled before the sequence is looked at.                          *)
RejectUpdate(d, o) ==
  /\ Applying
  /\ OwnsDomain(st, d, o)
  /\ st' = LearnOwnerKey(st, o)
  /\ journal' = journal \o LearnEntries(o)
  /\ trail' = trail \o LearnTrail(o)
  /\ phase' = "rollback"
  /\ UNCHANGED <<now, saved>>

RollbackOne ==
  /\ phase = "rollback"
  /\ journal # <<>>
  /\ st' = Undo(journal[Len(journal)], st)
  /\ journal' = SubSeq(journal, 1, Len(journal) - 1)
  /\ trail' = SubSeq(trail, 1, Len(trail) - 1)
  /\ UNCHANGED <<phase, now, saved>>

RollbackDone ==
  /\ phase = "rollback"
  /\ journal = <<>>
  /\ phase' = "idle"
  /\ UNCHANGED <<st, now, journal, saved, trail>>

Transaction ==
  \/ \E d \in Domains, o \in Owners :
       \/ RegisterDomain(d, o)
       \/ \E seq \in 1..MaxSequence, r \in Records : UpdateDomain(d, o, seq, r)
       \/ \E until \in Expiries : RenewDomain(d, o, until)
       \/ \E p \in Owners : AssignDomain(d, o, p)
       \/ \E p \in Owners : TransferDomain(d, o, p)
  \/ \E t \in Tlds, o \in Owners :
       \/ RegisterTld(t, o)
       \/ \E p \in Owners : TransferTld(t, o, p)
       \/ RevokeTld(t, o)
       \/ \E open \in BOOLEAN : SetTldOpen(t, o, open)
  \/ \E o \in Owners : Slash(o)

Next ==
  \/ \E t \in Times : BeginBlock(t)
  \/ GcOne
  \/ GcDone
  \/ Transaction
  \/ Commit
  \/ Reject
  \/ \E d \in Domains, o \in Owners : RejectUpdate(d, o)
  \/ RollbackOne
  \/ RollbackDone

Spec == Init /\ [][Next]_vars

-----------------------------------------------------------------------------
(* Properties.                                                              *)

UndoEntry ==
  [op: {"RegisterDomain"}, domain: Domains, consumed: GraceEntry \cup {None}]
    \cup [op: {"UpdateDomain", "RenewDomain", "TransferDomain", "ExpireDomain"},
          domain: Domains, prior: DomainState]
    \cup [op: {"RegisterTld"}, tld: Tlds]
    \cup [op: {"MutateTld", "RevokeTld"}, tld: Tlds, prior: TldState]
    \cup [op: {"LearnOwnerKey"}, owner: Owners]
    \cup [op: {"BanAnchor"}, offender: Owners]

(* Types: the registry is a State, its counters never go below zero, and    *)
(* every undo entry carries a complete prior value.                         *)
TypeOK ==
  /\ st \in State
  /\ phase \in {"idle", "gc", "apply", "rollback"}
  /\ now \in Nat
  /\ journal \in Seq(UndoEntry)
  /\ saved \in State
  /\ trail \in Seq(State)
  /\ Len(trail) = Len(journal)

(* The sparse Merkle tree, which the canonical state root commits to, holds *)
(* exactly the leaves of the live registry, also in the middle of a block   *)
(* and of a rollback: no mutation of state.rs forgets or leaks a leaf.      *)
SmtCommitsRegistry == SmtExact(st)

(* The expiration queue holds exactly one pair per live domain, at its      *)
(* current expiry: a renewal, a collection or a rollback never leaves a     *)
(* stale slot behind, so the defensive branches of gc_expired_journaled     *)
(* are dead code.                                                           *)
ExpirationQueueExact == QueueExact(st)

(* owner_refcounts counts the live domains and TLDs of every owner, and     *)
(* the O(1) counters the entries of the backend, without ever reading it.   *)
OwnerPoolExact == PoolExact(st) /\ CountsExact(st)

(* A live domain has no grace entry: registration and assignment consume    *)
(* it, so a later expiry never overwrites one, which is what makes undoing  *)
(* an expiry by deleting the grace entry exact.                             *)
GraceOnlyLapsed == GraceExact(st)

(* While a block's transactions run, no live domain is past its expiry at   *)
(* the parent's timestamp, whatever order the timestamps came in.           *)
NoLapsedInBlock ==
  phase = "apply" => \A d \in LiveDomains(st) : st.domains[d].validUntil > now

(* The eligibility pool, read from the reference counts without looking at  *)
(* the time, is what its definition says: the known, unbanned keys of the   *)
(* owners of a TLD or of a domain that is live at `now`.                    *)
PoolIsLiveStake ==
  phase = "apply" =>
    eligible_validators(st) =
      {o \in st.ownerKeys \ st.banned :
         \/ \E d \in Domains : OwnsDomain(st, d, o) /\ st.domains[d].validUntil > now
         \/ \E t \in Tlds : OwnsTld(st, t, o)}

(* Every entry of the undo log is the exact inverse of the change it        *)
(* records: undoing entry i turns the state after it into the state before. *)
After(i) == IF i = Len(journal) THEN st ELSE trail[i + 1]
UndoLogInverts ==
  \A i \in 1..Len(journal) : Undo(journal[i], After(i)) = trail[i]

(* Once the undo log of a refused block is spent, every field of the        *)
(* registry is back to its value before the block: garbage collection,      *)
(* keys learned and grace entries consumed included.                        *)
RollbackExact == phase = "rollback" /\ journal = <<>> => st = saved

(* What a comment says of a second slash: the transaction against an        *)
(* already banned stakeholder is still valid and changes nothing.           *)
SlashIsIdempotent ==
  phase = "apply" =>
    \A o \in st.banned :
      st.ownerRefs[o] > 0 /\ o \in st.ownerKeys => SlashOk(st, o)
=============================================================================
