------------------------------ MODULE Registry ------------------------------
(***************************************************************************)
(* The registry of ChainStateOps across the transactions of a block.       *)
(***************************************************************************)
EXTENDS ChainStateOps, SequencesExt

(* The kinds of transaction that name a domain, and those that name a TLD.  *)
DomainOps == {"RegisterDomain", "UpdateDomain", "AssignDomain", "RenewDomain", "TransferDomain"}
TldOps    == {"RegisterTld", "TransferTld", "RevokeTld", "SetTldOpen"}

(* A transaction carries the fields of its kind.                            *)
IsTx(tx) ==
  /\ tx.op \in DomainOps \cup TldOps \cup {"Slash"} /\ tx.owner \in Owners
  /\ tx.op \in DomainOps => tx.domain \in Domains
  /\ tx.op \in TldOps => tx.tld \in Tlds
  /\ tx.op \in {"AssignDomain", "TransferDomain", "TransferTld"} => tx.to \in Owners
  /\ tx.op = "UpdateDomain" => tx.record \in Records
  /\ tx.op = "RenewDomain" => tx.until \in Nat
  /\ tx.op = "SetTldOpen" => tx.open \in BOOLEAN

(* apply_journaled_at: the state after tx, None when a rule refuses it.     *)
ApplyTx(s, tx, now) ==
  LET l == LearnOwnerKey(s, tx.owner)
      When(ok, z) == IF ok THEN z ELSE None
  IN CASE tx.op = "RegisterDomain" ->
            When(RegisterDomainOk(s, tx.domain, tx.owner, now),
                 CreateDomain(l, tx.domain, tx.owner, now))
       [] tx.op = "UpdateDomain" ->
            When(UpdateDomainOk(s, tx.domain, tx.owner, tx.seq),
                 UpdateDomainTo(l, tx.domain, tx.seq, tx.record))
       [] tx.op = "RegisterTld" ->
            When(RegisterTldOk(s, tx.tld), CreateTld(l, tx.tld, tx.owner))
       [] tx.op = "TransferTld" ->
            When(OwnsTld(s, tx.tld, tx.owner), TransferTldTo(s, tx.tld, tx.to))
       [] tx.op = "RevokeTld" ->
            When(OwnsTld(s, tx.tld, tx.owner), RemoveTld(s, tx.tld))
       [] tx.op = "SetTldOpen" ->
            When(OwnsTld(s, tx.tld, tx.owner), SetTldOpenTo(s, tx.tld, tx.open))
       [] tx.op = "AssignDomain" ->
            When(AssignDomainOk(s, tx.domain, tx.owner, tx.to, now),
                 CreateDomain(s, tx.domain, tx.to, now))
       [] tx.op = "RenewDomain" ->
            When(RenewDomainOk(s, tx.domain, tx.owner, tx.until, now),
                 RenewDomainTo(s, tx.domain, tx.until))
       [] tx.op = "TransferDomain" ->
            When(OwnsDomain(s, tx.domain, tx.owner),
                 TransferDomainTo(s, tx.domain, tx.to))
       [] tx.op = "Slash" -> When(SlashOk(s, tx.owner), Ban(s, tx.owner))

gc_expired(s, now) ==
  FoldSet(LAMBDA p, z : ExpireOne(z, p[1], p[2], now), s,
          {p \in s.expirations : p[1] <= now})

(* The transactions of a block in order; one refusal refuses them all.      *)
ApplyTxs(s, txs, now) ==
  FoldLeft(LAMBDA z, tx : IF z = None THEN None ELSE ApplyTx(z, tx, now), s, txs)
=============================================================================
