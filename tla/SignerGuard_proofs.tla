-------------------------- MODULE SignerGuard_proofs --------------------------
(***************************************************************************)
(* For any keys, epochs and contents: when the sync of the directory does   *)
(* not fail, the guard never hands out two votes of one epoch.              *)
(***************************************************************************)
EXTENDS SignerGuard, TLAPS

(* A guard that has signed nothing and a file that does not exist.          *)
LEMMA InitTypeOK == Init => TypeOK
<1>1. NoContexts \in Contexts
  BY DEF NoContexts, Contexts
<1>2. [state |-> "absent", last |-> NoContexts] \in File
  BY <1>1 DEF File
<1> QED
  BY <1>1, <1>2 DEF Init, TypeOK

(* Type correctness of the guard: every step of authorize(), load() and of  *)
(* the environment keeps the contexts, the files and the program counter    *)
(* well formed.                                                             *)
THEOREM TypeCorrect == Spec => []TypeOK
<1>1. Init => TypeOK
  BY InitTypeOK
<1>2. TypeOK /\ [Next]_vars => TypeOK'
  <2> SUFFICES ASSUME TypeOK, [Next]_vars PROVE TypeOK'
    OBVIOUS
  <2> USE DEF TypeOK
  <2>1. ASSUME NEW readable \in BOOLEAN, load(readable) PROVE TypeOK'
    <3>1. last' \in Contexts
      BY <2>1 DEF load, File, Contexts, NoContexts
    <3>2. sealed' \in BOOLEAN
      BY <2>1 DEF load
    <3> QED
      BY <2>1, <3>1, <3>2 DEF load
  <2>2. ASSUME NEW k \in Keys, NEW ctx \in Context, authorize(k, ctx) PROVE TypeOK'
    BY <2>2 DEF authorize, Contexts, Signature
  <2>3. CASE WriteTmp
    BY <2>3 DEF WriteTmp
  <2>4. CASE Rename
    BY <2>4 DEF Rename, File
  <2>5. CASE PersistFails
    BY <2>5 DEF PersistFails
  <2>6. CASE SyncDir
    BY <2>6 DEF SyncDir
  <2>7. CASE Crash
    BY <2>7 DEF Crash
  <2>8. CASE PowerLoss
    BY <2>8 DEF PowerLoss
  <2>9. CASE WriteBack
    BY <2>9 DEF WriteBack
  <2>10. CASE Damage
    BY <2>10 DEF Damage, File
  <2>11. CASE UNCHANGED vars
    BY <2>11 DEF vars
  <2> QED
    BY <2>1, <2>2, <2>3, <2>4, <2>5, <2>6, <2>7, <2>8, <2>9, <2>10, <2>11 DEF Next
<1> QED
  BY <1>1, <1>2, PTL DEF Spec

-----------------------------------------------------------------------------

(* The inductive invariant: NeverTwoVotes holds because everything sent is  *)
(* covered by the RAM of a running guard and by both views of its file.     *)
IInv == TypeOK /\ SentIsDurable /\ RamCovers /\ JobRecorded /\ NeverTwoVotes

(* Covering is transitive through may_sign: a context the rule lets through *)
(* covers everything the remembered one covers.                             *)
LEMMA MaySignCovers ==
  ASSUME TypeOK, NEW k \in Keys, NEW ctx \in Context, NEW c \in Context,
         may_sign(k, ctx), Covers(last[k], c)
  PROVE  Covers(ctx, c)
<1>1. last[k] \in Context
  BY DEF TypeOK, Contexts, Covers
<1>2. /\ last[k].epoch \in Nat /\ ctx.epoch \in Nat /\ c.epoch \in Nat
      /\ ctx # NoCtx
  BY <1>1, SignerConstants, NoCtxIsNoContext DEF Context
<1> QED
  BY <1>1, <1>2 DEF may_sign, Covers

LEMMA InitIInv == Init => IInv
  BY InitTypeOK DEF Init, IInv, SentIsDurable, RamCovers, JobRecorded, NeverTwoVotes

(* The steps that hand nothing out keep what was sent covered.              *)
LEMMA NextIInv ==
  ASSUME ~DirSyncMayFail, IInv, TypeOK', [Next]_vars
  PROVE  IInv'
<1> USE DEF IInv
<1>1. ASSUME NEW readable \in BOOLEAN, load(readable) PROVE IInv'
  BY <1>1 DEF load, SentIsDurable, RamCovers, JobRecorded, NeverTwoVotes
<1>2. ASSUME NEW k \in Keys, NEW ctx \in Context, authorize(k, ctx) PROVE IInv'
  <2>1. SentIsDurable' /\ NeverTwoVotes' /\ JobRecorded'
    BY <1>2 DEF authorize, SentIsDurable, NeverTwoVotes, JobRecorded,
                TypeOK, Contexts, may_sign
  <2>2. RamCovers'
    <3> SUFFICES ASSUME NEW s \in sent PROVE Covers(last'[s.key], s.ctx)
      BY <1>2 DEF authorize, RamCovers
    <3>1. s.key \in Keys /\ s.ctx \in Context /\ Covers(last[s.key], s.ctx)
      BY <1>2 DEF authorize, may_sign, RamCovers, TypeOK, Signature
    <3>2. CASE s.key = k
      <4>1. Covers(ctx, s.ctx)
        BY <1>2, <3>1, <3>2, MaySignCovers DEF authorize
      <4> QED
        BY <1>2, <3>2, <4>1 DEF authorize, TypeOK, Contexts
    <3>3. CASE s.key # k
      BY <1>2, <3>1, <3>3 DEF authorize, TypeOK, Contexts
    <3> QED
      BY <3>2, <3>3
  <2> QED
    BY <2>1, <2>2
<1>3. CASE WriteTmp
  BY <1>3 DEF WriteTmp, SentIsDurable, RamCovers, JobRecorded, NeverTwoVotes
<1>4. CASE Rename
  BY <1>4 DEF Rename, SentIsDurable, RamCovers, JobRecorded, NeverTwoVotes
<1>5. CASE PersistFails
  BY <1>5 DEF PersistFails, SentIsDurable, RamCovers, JobRecorded, NeverTwoVotes
<1>6. CASE SyncDir
  <2>1. /\ disk' = file /\ file' = file /\ last' = last /\ job' = job
        /\ sent' = sent \cup {job} /\ pc' = "idle" /\ up' = up /\ sealed' = sealed
    BY <1>6 DEF SyncDir
  <2>2. /\ ~sealed /\ up /\ last[job.key] = job.ctx /\ file.last = last
        /\ job.key \in Keys /\ job.ctx \in Context
    BY <1>6 DEF SyncDir, JobRecorded, TypeOK, Signature
  <2>3. Covers(last[job.key], job.ctx)
    BY <2>2, NoCtxIsNoContext DEF Covers
  <2>4. \A s \in sent : Covers(last[s.key], s.ctx)
    BY <2>2 DEF RamCovers
  <2>5. SentIsDurable' /\ RamCovers' /\ JobRecorded'
    BY <2>1, <2>2, <2>3, <2>4 DEF SentIsDurable, RamCovers, JobRecorded
  <2>6. NeverTwoVotes'
    <3>1. ASSUME NEW b \in sent, b.key = job.key, b.ctx.epoch = job.ctx.epoch
          PROVE  b.ctx.hash = job.ctx.hash
      <4>1. b.ctx.epoch \in Nat
        BY SignerConstants DEF TypeOK, Signature, Context
      <4> QED
        BY <2>2, <2>4, <3>1, <4>1 DEF Covers
    <3> QED
      BY <2>1, <3>1 DEF NeverTwoVotes
  <2> QED
    BY <2>5, <2>6
<1>7. CASE Crash
  BY <1>7 DEF Crash, SentIsDurable, RamCovers, JobRecorded, NeverTwoVotes
<1>8. CASE PowerLoss
  BY <1>8 DEF PowerLoss, SentIsDurable, RamCovers, JobRecorded, NeverTwoVotes
<1>9. CASE WriteBack
  BY <1>9 DEF WriteBack, SentIsDurable, RamCovers, JobRecorded, NeverTwoVotes
<1>10. CASE Damage
  BY <1>10 DEF Damage, SentIsDurable, RamCovers, JobRecorded, NeverTwoVotes,
               TypeOK, File
<1>11. CASE UNCHANGED vars
  BY <1>11 DEF vars, SentIsDurable, RamCovers, JobRecorded, NeverTwoVotes
<1> QED
  BY <1>1, <1>2, <1>3, <1>4, <1>5, <1>6, <1>7, <1>8, <1>9, <1>10, <1>11 DEF Next

LEMMA IInvInvariant == ASSUME ~DirSyncMayFail PROVE Spec => []IInv
<1>1. IInv /\ TypeOK' /\ [Next]_vars => IInv'
  BY NextIInv
<1> QED
  BY <1>1, InitIInv, TypeCorrect, PTL DEF Spec

(* Crash safety of the signer: if every sync of the directory succeeds, no  *)
(* sequence of signing requests, crashes, power losses, failed writes and   *)
(* damaged files makes a key vote twice in an epoch.                        *)
THEOREM SignerNeverTwoVotes == ASSUME ~DirSyncMayFail PROVE Spec => []NeverTwoVotes
<1>1. IInv => NeverTwoVotes
  BY DEF IInv
<1> QED
  BY <1>1, IInvInvariant, PTL

(* The context of a signature is on the disk before the caller sees it.     *)
THEOREM SignerSentIsDurable == ASSUME ~DirSyncMayFail PROVE Spec => []SentIsDurable
<1>1. IInv => SentIsDurable
  BY DEF IInv
<1> QED
  BY <1>1, IInvInvariant, PTL

(* The epochs a key votes for only grow.                                    *)
THEOREM SignerVotesAdvance == ASSUME ~DirSyncMayFail PROVE Spec => VotesAdvance
<1> DEFINE Advance == \A s \in sent' \ sent : \A b \in sent :
                         s.key = b.key => s.ctx.epoch > b.ctx.epoch
<1>1. IInv /\ [Next]_vars => [Advance]_vars
  <2> SUFFICES ASSUME IInv, Next, NEW s \in sent' \ sent, NEW b \in sent,
                      s.key = b.key
               PROVE  s.ctx.epoch > b.ctx.epoch
    OBVIOUS
  <2>1. SyncDir
    BY DEF Next, load, authorize, WriteTmp, Rename, PersistFails, Crash,
           PowerLoss, WriteBack, Damage
  <2>2. /\ s = job /\ Covers(last[job.key], b.ctx) /\ last[job.key] = job.ctx
        /\ job \in Signature /\ b \in Signature /\ b # job
    BY <2>1 DEF SyncDir, IInv, RamCovers, JobRecorded, TypeOK
  <2>3. job.ctx.epoch \in Nat /\ b.ctx.epoch \in Nat
    BY <2>2, SignerConstants DEF Signature, Context
  <2>4. job.ctx.epoch = b.ctx.epoch /\ job.ctx.hash = b.ctx.hash => job = b
    BY <2>2 DEF Signature, Context
  <2> QED
    BY <2>2, <2>3, <2>4 DEF Covers
<1> QED
  BY <1>1, IInvInvariant, PTL DEF Spec, VotesAdvance
=============================================================================
