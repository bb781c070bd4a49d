----------------------------- MODULE SignerGuard -----------------------------
(***************************************************************************)
(* The crash-safe checkpoint signer of                                      *)
(* crates/scone-blockchain/src/signer.rs: a key votes once per epoch, also  *)
(* across crashes.  authorize() is split at every point where the process   *)
(* or the machine may stop: the context is recorded in RAM, written to a    *)
(* temporary file and synced, renamed over signer-state.dat, the directory  *)
(* is synced, and only then is the signature handed to the caller.          *)
(*                                                                         *)
(* `file` is what a read of signer-state.dat returns, `disk` what it        *)
(* returns after a power loss: the two differ between a rename and the      *)
(* sync of its directory.                                                   *)
(***************************************************************************)
EXTENDS Naturals, FiniteSets

CONSTANTS
  Keys,            \* the keys that sign through this guard
  Epochs,          \* checkpoint epochs
  Hashes,          \* signing hashes of checkpoint data
  NoCtx,           \* a key that has signed nothing
  DirSyncMayFail   \* may the sync of the directory fail?  The code ignores
                   \* its result.

ASSUME SignerConstants ==
  /\ Epochs \subseteq Nat
  /\ DirSyncMayFail \in BOOLEAN

(* SignedContext, without the height: no rule reads it.                     *)
Context == [epoch: Epochs, hash: Hashes]
Contexts == [Keys -> Context \cup {NoCtx}]

ASSUME NoCtxIsNoContext == NoCtx \notin Context

NoContexts == [k \in Keys |-> NoCtx]

(* signer-state.dat: absent, well formed, or unreadable.                    *)
File == [state: {"absent", "good", "bad"}, last: Contexts]

VARIABLES
  up,       \* the process runs and has loaded the guard
  sealed,   \* SignerGuard::sealed
  last,     \* SignerGuard::last
  file,     \* signer-state.dat
  disk,     \* signer-state.dat after a power loss
  pc,       \* where authorize() stands: "idle", "write", "rename", "syncdir"
  job,      \* the key and the context being authorized
  sent      \* history: the signatures handed to the caller

vars == <<up, sealed, last, file, disk, pc, job, sent>>

Signature == [key: Keys, ctx: Context]

Init ==
  /\ up = FALSE
  /\ sealed = FALSE
  /\ last = NoContexts
  /\ file = [state |-> "absent", last |-> NoContexts]
  /\ disk = [state |-> "absent", last |-> NoContexts]
  /\ pc = "idle"
  /\ job \in Signature        \* no job yet: any value
  /\ sent = {}

-----------------------------------------------------------------------------

(* An absent file is a virgin guard; an unreadable one, or a read that      *)
(* fails, seals it.                                                         *)
load(readable) ==
  /\ ~up
  /\ up' = TRUE
  /\ sealed' = (file.state = "bad" \/ ~readable)
  /\ last' = IF sealed' THEN NoContexts ELSE file.last
  /\ pc' = "idle"
  /\ UNCHANGED <<file, disk, job, sent>>

(* Mutant: only an older epoch is refused.                                  *)
may_sign_mut(k, ctx) ==
  /\ ~sealed
  /\ last[k] # NoCtx => ctx.epoch >= last[k].epoch

may_sign(k, ctx) ==
  /\ ~sealed
  /\ last[k] # NoCtx =>
       ~ \/ ctx.epoch < last[k].epoch
         \/ ctx.epoch = last[k].epoch /\ ctx.hash # last[k].hash

(* Mutant: the epoch is recorded without its signing hash.                  *)
authorize_mut(k, ctx) ==
  /\ up /\ pc = "idle"
  /\ may_sign(k, ctx)
  /\ last' = [last EXCEPT ![k] = [ctx EXCEPT !.hash = NoCtx]]
  /\ job' = [key |-> k, ctx |-> ctx]
  /\ pc' = "write"
  /\ UNCHANGED <<up, sealed, file, disk, sent>>

(* Rule, signature and record in RAM; persisting comes next.                *)
authorize(k, ctx) ==
  /\ up /\ pc = "idle"
  /\ may_sign(k, ctx)
  /\ last' = [last EXCEPT ![k] = ctx]
  /\ job' = [key |-> k, ctx |-> ctx]
  /\ pc' = "write"
  /\ UNCHANGED <<up, sealed, file, disk, sent>>

(* The temporary file is created, written and synced: it is invisible to    *)
(* load().                                                                  *)
WriteTmp ==
  /\ up /\ pc = "write"
  /\ pc' = "rename"
  /\ UNCHANGED <<up, sealed, last, file, disk, job, sent>>

Rename ==
  /\ up /\ pc = "rename"
  /\ file' = [state |-> "good", last |-> last]
  /\ pc' = "syncdir"
  /\ UNCHANGED <<up, sealed, last, disk, job, sent>>

(* Creating, writing, syncing or renaming fails: the signature is withheld, *)
(* the context stays in RAM.                                                *)
PersistFails ==
  /\ up /\ pc \in {"write", "rename"}
  /\ pc' = "idle"
  /\ UNCHANGED <<up, sealed, last, file, disk, job, sent>>

(* Mutant: the signature is handed over before the rename is durable.       *)
SyncDir_mut ==
  /\ up /\ pc = "syncdir"
  /\ disk' = disk
  /\ sent' = sent \cup {job}
  /\ pc' = "idle"
  /\ UNCHANGED <<up, sealed, last, file, job>>

(* The directory is synced, or not: either way the caller gets the          *)
(* signature and may broadcast it.                                          *)
SyncDir ==
  /\ up /\ pc = "syncdir"
  /\ disk' \in IF DirSyncMayFail THEN {file, disk} ELSE {file}
  /\ sent' = sent \cup {job}
  /\ pc' = "idle"
  /\ UNCHANGED <<up, sealed, last, file, job>>

-----------------------------------------------------------------------------
(* The environment.                                                         *)

Crash ==
  /\ up
  /\ up' = FALSE
  /\ UNCHANGED <<sealed, last, file, disk, pc, job, sent>>

PowerLoss ==
  /\ up' = FALSE
  /\ file' = disk
  /\ UNCHANGED <<sealed, last, disk, pc, job, sent>>

(* The kernel writes the renamed entry back on its own.                     *)
WriteBack ==
  /\ disk # file
  /\ disk' = file
  /\ UNCHANGED <<up, sealed, last, file, pc, job, sent>>

(* The file is damaged into something load() cannot parse.                  *)
Damage ==
  /\ ~up /\ file.state = "good"
  /\ file' = [file EXCEPT !.state = "bad"]
  /\ disk' = file'
  /\ UNCHANGED <<up, sealed, last, pc, job, sent>>

Next ==
  \/ \E readable \in BOOLEAN : load(readable)
  \/ \E k \in Keys, ctx \in Context : authorize(k, ctx)
  \/ WriteTmp
  \/ Rename
  \/ PersistFails
  \/ SyncDir
  \/ Crash
  \/ PowerLoss
  \/ WriteBack
  \/ Damage

Spec == Init /\ [][Next]_vars

-----------------------------------------------------------------------------
(* Types of the guard, its files and the step it is in.                     *)
TypeOK ==
  /\ up \in BOOLEAN
  /\ sealed \in BOOLEAN
  /\ last \in Contexts
  /\ file \in File
  /\ disk \in File
  /\ pc \in {"idle", "write", "rename", "syncdir"}
  /\ job \in Signature
  /\ sent \subseteq Signature

(* A key never hands out signatures on two contents of one epoch, whatever  *)
(* crashes, failed writes, power losses and damaged files come in between:  *)
(* the pair would be the slashing evidence that bans the key for life.      *)
NeverTwoVotes ==
  \A a, b \in sent :
    a.key = b.key /\ a.ctx.epoch = b.ctx.epoch => a.ctx.hash = b.ctx.hash

(* c is covered by d: a guard that remembers d refuses every content that   *)
(* conflicts with c.                                                        *)
Covers(d, c) ==
  /\ d # NoCtx
  /\ c.epoch < d.epoch \/ (c.epoch = d.epoch /\ c.hash = d.hash)

(* What an inductive argument needs besides: the RAM of an unsealed guard   *)
(* covers what was sent, and a signature in the making is the context it    *)
(* remembers, in the file too once renamed.                                 *)
RamCovers == up /\ ~sealed => \A s \in sent : Covers(last[s.key], s.ctx)
JobRecorded ==
  up /\ pc # "idle" =>
    /\ ~sealed
    /\ last[job.key] = job.ctx
    /\ pc = "syncdir" => file.last = last

(* Whatever the caller got is remembered by the file a restart would read,  *)
(* before and after a power loss, unless that file is unreadable: the       *)
(* context reaches the disk before the signature leaves the guard.          *)
SentIsDurable ==
  \A s \in sent : Covers(file.last[s.key], s.ctx) /\ Covers(disk.last[s.key], s.ctx)

(* The votes of a key never go back: a signature handed out later is for a  *)
(* later epoch, or it is the same one again.                                *)
VotesAdvance ==
  [][\A s \in sent' \ sent : \A b \in sent :
       s.key = b.key => s.ctx.epoch > b.ctx.epoch]_vars
=============================================================================
