------------------------------- MODULE Client -------------------------------
(***************************************************************************)
(* The `scone` commands that change something, run side by side on one     *)
(* keystore and against one relay: `identity generate` and the other ways  *)
(* a keyfile is written, `tx sign` followed by `submit tx`, `domain        *)
(* register` and `domain update`.  A command makes one system call or one  *)
(* RPC round trip per step; it can be killed between any two, and a round  *)
(* trip can fail before or after the relay acted on it.                    *)
(*                                                                         *)
(* The relay is its registry, its mempool and its record cache; a block    *)
(* takes one transaction, a domain can lapse, and the last block can be    *)
(* replaced by a sister.                                                   *)
(***************************************************************************)
EXTENDS Wallet

CONSTANTS
  Procs,            \* processes
  Loads,            \* [cmd, fresh]: commands that run together, on a keystore that is new or not
  Ids,              \* identity names
  InitFiles,        \* the keyfiles of a keystore in use
  Domains,
  InitRegistry,     \* registry at the start
  Network,          \* the relay's network
  MAX_PENDING_PER_DOMAIN,
  MaxEvents         \* bound on evictions, lapses and replaced blocks

ASSUME ClientConstants ==
  /\ \A load \in Loads :
       /\ DOMAIN load.cmd = Procs /\ load.fresh \in BOOLEAN
       /\ \A p \in Procs : load.cmd[p] # None /\ load.cmd[p].kind \in {"register", "update"}
                            => load.cmd[p].domain \in Domains
  /\ MAX_PENDING_PER_DOMAIN \in Nat \ {0} /\ MaxEvents \in Nat

(* The keyfiles that the generators of a load write, and the files there    *)
(* may be: an absent file is not one of them.                               *)
Written(load) ==
  {Keyfile(load.cmd[p].seed, load.cmd[p].pass) :
     p \in {x \in Procs : load.cmd[x] # None /\ load.cmd[x].kind = "generate"}}
Contents ==
  {InitFiles[i].bytes : i \in {x \in Ids : InitFiles[x] # None}}
    \cup UNION {Written(load) : load \in Loads}
File == [bytes : Contents \cup {None}, mode : {"umask", "0600"}]

(* A keystore in use holds private files.                                   *)
ASSUME KeystoreConstants ==
  /\ None \notin File /\ \A load \in Loads : None \notin Written(load)
  /\ InitFiles \in [Ids -> File \cup {None}]
  /\ \A i \in Ids : InitFiles[i] # None => InitFiles[i].mode = "0600"

VARIABLES
  files, dir,       \* the keyfiles, and whether their directory exists
  registry,         \* domain -> None or [owner, sequence, hash]
  before,           \* the registry before the last block
  pool, included,   \* the relay's mempool and replay index
  cache,            \* its record cache
  cmd,              \* the command of each process, None if it has none
  at,               \* where each command is
  dead,             \* commands that were killed
  key,              \* the signing key each has opened
  info,             \* what `lookup` told it: [owner, next]
  events

keystore == <<files, dir>>
relay == <<registry, before, pool, included, cache, events>>
procs == <<cmd, at, dead, key, info>>
vars == <<keystore, relay, procs>>

Running(p, kind, pc) == at[p] = pc /\ p \notin dead /\ cmd[p].kind = kind
Ended == {"idle", "done", "failed"}
Goto(p, pc) == at' = [at EXCEPT ![p] = pc]

Init == \E load \in Loads :
  /\ files = IF load.fresh THEN [i \in Ids |-> None] ELSE InitFiles
  /\ dir = ~load.fresh
  /\ registry = InitRegistry /\ before = InitRegistry
  /\ pool = {} /\ included = {}
  /\ cache = [d \in Domains |-> None]
  /\ cmd = load.cmd
  /\ at = [p \in Procs |-> IF cmd[p] # None THEN "start" ELSE "idle"]
  /\ dead = {}
  /\ key = [p \in Procs |-> None]
  /\ info = [p \in Procs |-> None]
  /\ events = 0

Kill(p) ==
  /\ at[p] \notin Ended /\ p \notin dead
  /\ dead' = dead \cup {p}
  /\ UNCHANGED <<keystore, relay, cmd, at, key, info>>

-----------------------------------------------------------------------------
(* Writing a keyfile: open, set_permissions, write_all.                     *)

(* A name that is a path, hidden, or ends in the extension is refused.      *)
validate_identity_name(name) == name \in Ids

Overwrites(p) == CreateMode[cmd[p].op] = "Overwrite"

(* Mutant: an empty file may be replaced by anyone.                         *)
Taken_mut(p) == ~Overwrites(p) /\ files[cmd[p].id] # None /\ files[cmd[p].id].bytes # None

(* create_new (O_EXCL): the existence check and the creation are one step.  *)
Taken(p) == ~Overwrites(p) /\ files[cmd[p].id] # None

GenerateOpen(p) ==
  /\ Running(p, "generate", "start")
  /\ IF \/ ~validate_identity_name(cmd[p].id)
        \/ cmd[p].seed = None               \* not a recovery phrase
        \/ ~dir /\ ~MakesDirectory(cmd[p].op)
        \/ Taken(p)
       THEN Goto(p, "failed") /\ UNCHANGED files
       ELSE /\ files' = [files EXCEPT ![cmd[p].id] =
                 [bytes |-> None, mode |-> IF @ = None THEN "umask" ELSE @.mode]]
            /\ Goto(p, "chmod")
  /\ dir' = (dir \/ (MakesDirectory(cmd[p].op) /\ validate_identity_name(cmd[p].id)))
  /\ UNCHANGED <<relay, cmd, dead, key, info>>

GenerateChmod(p) ==
  /\ Running(p, "generate", "chmod")
  /\ files' = [files EXCEPT ![cmd[p].id].mode = "0600"]
  /\ Goto(p, "write")
  /\ UNCHANGED <<dir, relay, cmd, dead, key, info>>

GenerateWrite(p) ==
  /\ Running(p, "generate", "write")
  /\ files' = [files EXCEPT ![cmd[p].id].bytes = Keyfile(cmd[p].seed, cmd[p].pass)]
  /\ Goto(p, "done")
  /\ UNCHANGED <<dir, relay, cmd, dead, key, info>>

(* open_identity, then what the command does with the key at once.          *)
OpenIdentity(p) ==
  /\ at[p] = "open" /\ p \notin dead
  /\ LET sk == IF validate_identity_name(cmd[p].id)
                 THEN open(files[cmd[p].id], cmd[p].pass) ELSE None
     IN /\ key' = [key EXCEPT ![p] = sk]
        /\ Goto(p, IF \/ sk = None
                      \/ cmd[p].kind = "update" /\ info[p].owner # sk
                     THEN "failed"
                   ELSE IF cmd[p].kind = "show" THEN "done" ELSE "submit")
  /\ UNCHANGED <<keystore, relay, cmd, dead, info>>

Show(p) ==
  /\ Running(p, "show", "start")
  /\ Goto(p, "open")
  /\ UNCHANGED <<keystore, relay, cmd, dead, key, info>>

-----------------------------------------------------------------------------
(* The commands that talk to the relay.                                     *)

record_hash(r) == <<r.domain, r.sequence, r.data>>

(* The record of `domain update`.                                           *)
RecordOf(p) ==
  [domain |-> cmd[p].domain, owner |-> key[p], sequence |-> info[p].next,
   data |-> read_record_file(cmd[p].file)]

(* `domain register` fails fast on a taken name.                            *)
RegisterLookup(p) ==
  /\ Running(p, "register", "start")
  /\ Goto(p, IF registry[cmd[p].domain] = None THEN "open" ELSE "failed")
  /\ info' = [info EXCEPT ![p] = [owner |-> None, next |-> 0]]
  /\ UNCHANGED <<keystore, relay, cmd, dead, key>>

(* `domain update` reads its file, then the state of the domain.            *)
UpdateLookup(p) ==
  /\ Running(p, "update", "start")
  /\ LET r == registry[cmd[p].domain]
     IN IF read_record_file(cmd[p].file) = None \/ r = None
          THEN Goto(p, "failed") /\ UNCHANGED info
          ELSE /\ Goto(p, "open")
               /\ info' = [info EXCEPT ![p] = [owner |-> r.owner, next |-> r.sequence + 1]]
  /\ UNCHANGED <<keystore, relay, cmd, dead, key>>

(* `tx sign` decodes its input before it opens the key.                     *)
SignDecode(p) ==
  /\ Running(p, "sign", "start")
  /\ Goto(p, IF decode_tx_or_payload(cmd[p].input) = None THEN "failed" ELSE "open")
  /\ UNCHANGED <<keystore, relay, cmd, dead, key, info>>

TxOf(p) ==
  CASE cmd[p].kind = "register" -> signed_register_domain_tx(key[p], cmd[p].domain, cmd[p].stamp)
    [] cmd[p].kind = "update"   -> signed_update_domain_tx(key[p], cmd[p].domain, info[p].next,
                                                           record_hash(RecordOf(p)))
    [] cmd[p].kind = "sign"     -> SignCommand(cmd[p].input, key[p])

(* The state rules of a transaction: the relay's precheck, and again when a *)
(* block is made.                                                           *)
Allowed(reg, tx) ==
  LET b == tx.body
      r == reg[b.domain]
  IN \/ b.kind = "register" /\ r = None
     \/ b.kind = "update" /\ r # None /\ r.owner = tx.owner /\ b.sequence = r.sequence + 1

precheck_state(tx) == tx.network = Network /\ Allowed(registry, tx)

(* accept_transaction: the cap counts before duplicates are noticed.        *)
Accepts(tx) ==
  /\ validate_transaction(tx)
  /\ precheck_state(tx)
  /\ tx \notin included
  /\ Cardinality({t \in pool : t.body.domain = tx.body.domain}) < MAX_PENDING_PER_DOMAIN

AfterSubmit(p) == IF cmd[p].kind = "sign" THEN "done" ELSE "poll"

(* The round trip; its answer may be lost after the relay took it.          *)
Submit(p, answered) ==
  /\ at[p] = "submit" /\ p \notin dead
  /\ LET tx == TxOf(p)
     IN /\ pool' = IF Accepts(tx) THEN pool \cup {tx} ELSE pool
        /\ Goto(p, IF Accepts(tx) /\ answered THEN AfterSubmit(p) ELSE "failed")
  /\ UNCHANGED <<keystore, registry, before, included, cache, events, cmd, dead, key, info>>

(* The relay cannot be reached.                                             *)
Unreachable(p) ==
  /\ p \notin dead
  /\ \/ at[p] \in {"submit", "poll", "put"}
     \/ at[p] = "start" /\ cmd[p].kind \in {"register", "update"}
  /\ Goto(p, "failed")
  /\ UNCHANGED <<keystore, relay, cmd, dead, key, info>>

(* wait_for_sequence.                                                       *)
Reached(p) ==
  LET r == registry[cmd[p].domain] IN r # None /\ r.sequence >= info[p].next

(* Mutant: a registered name is taken for ours.                             *)
Ours_mut(p) == TRUE

(* The confirmed owner must be the key this command signed with.            *)
Ours(p) == registry[cmd[p].domain].owner = key[p]

RegisterConfirm(p) ==
  /\ Running(p, "register", "poll") /\ Reached(p)
  /\ Goto(p, IF Ours(p) THEN "done" ELSE "failed")
  /\ UNCHANGED <<keystore, relay, cmd, dead, key, info>>

UpdateConfirm(p) ==
  /\ Running(p, "update", "poll") /\ Reached(p)
  /\ Goto(p, "put")
  /\ UNCHANGED <<keystore, relay, cmd, dead, key, info>>

(* Mutant: the wait has no deadline.                                        *)
Expired_mut(p) == FALSE

(* CONFIRM_TIMEOUT, looked at when the sequence is not reached.             *)
Expired(p) == at[p] = "poll" /\ p \notin dead /\ ~Reached(p)

ConfirmTimeout(p) ==
  /\ Expired(p)
  /\ Goto(p, "failed")
  /\ UNCHANGED <<keystore, relay, cmd, dead, key, info>>

(* put_record: the relay verifies against its chain and caches.             *)
verify_record_against_chain(r) ==
  registry[r.domain] = [owner |-> r.owner, sequence |-> r.sequence, hash |-> record_hash(r)]

UpdatePublish(p, answered) ==
  /\ Running(p, "update", "put")
  /\ LET r  == RecordOf(p)
         ok == verify_record_against_chain(r)
     IN /\ cache' = IF ok THEN [cache EXCEPT ![r.domain] = r] ELSE cache
        /\ Goto(p, IF ok /\ answered THEN "done" ELSE "failed")
  /\ UNCHANGED <<keystore, registry, before, pool, included, events, cmd, dead, key, info>>

-----------------------------------------------------------------------------
(* The relay's side.                                                        *)

(* A block of one transaction: its proof of work and the state rules are    *)
(* checked now; one that fails is dropped.                                  *)
Produce(tx) ==
  /\ tx \in pool
  /\ pool' = pool \ {tx}
  /\ LET b  == tx.body
         r  == registry[b.domain]
         ok == Allowed(registry, tx) /\ (b.kind = "register" => b.proof = mine(Network, b.domain))
     IN IF ok
          THEN /\ registry' = [registry EXCEPT ![b.domain] =
                    IF b.kind = "register"
                      THEN [owner |-> tx.owner, sequence |-> 0, hash |-> None]
                      ELSE [r EXCEPT !.sequence = b.sequence, !.hash = b.hash]]
               /\ before' = registry
               /\ included' = included \cup {tx}
          ELSE UNCHANGED <<registry, before, included>>
  /\ UNCHANGED <<keystore, cache, events, procs>>

(* Dropped by a relay that may not produce, or by a restart.                *)
Evict(tx) ==
  /\ tx \in pool /\ events < MaxEvents
  /\ pool' = pool \ {tx}
  /\ events' = events + 1
  /\ UNCHANGED <<keystore, registry, before, included, cache, procs>>

(* A domain expires in a block of its own.                                  *)
Lapse(d) ==
  /\ registry[d] # None /\ events < MaxEvents
  /\ registry' = [registry EXCEPT ![d] = None]
  /\ before' = registry
  /\ events' = events + 1
  /\ UNCHANGED <<keystore, pool, included, cache, procs>>

(* An empty sister replaces the last block; what the replay index forgets   *)
(* is left open.                                                            *)
Replace(forgets) ==
  /\ before # registry /\ events < MaxEvents
  /\ registry' = before
  /\ included' = included \ forgets
  /\ events' = events + 1
  /\ UNCHANGED <<keystore, before, pool, cache, procs>>

-----------------------------------------------------------------------------

Step(p) ==
  \/ GenerateOpen(p)
  \/ GenerateChmod(p)
  \/ GenerateWrite(p)
  \/ Show(p)
  \/ OpenIdentity(p)
  \/ RegisterLookup(p)
  \/ UpdateLookup(p)
  \/ SignDecode(p)
  \/ \E answered \in BOOLEAN : Submit(p, answered)
  \/ RegisterConfirm(p)
  \/ UpdateConfirm(p)
  \/ ConfirmTimeout(p)
  \/ \E answered \in BOOLEAN : UpdatePublish(p, answered)

Next ==
  \/ \E p \in Procs : Step(p)
  \/ \E p \in Procs : Kill(p)
  \/ \E p \in Procs : Unreachable(p)
  \/ \E tx \in pool : Produce(tx)
  \/ \E tx \in pool : Evict(tx)
  \/ \E d \in Domains : Lapse(d)
  \/ \E forgets \in SUBSET included : Replace(forgets)

Spec == Init /\ [][Next]_vars

(* Commands that are not killed go on: a round trip ends, in an answer or   *)
(* in RPC_CLIENT_TIMEOUT, and the poll loop looks at its deadline.  No      *)
(* command takes infinitely many steps, so fairness to all of them together *)
(* is fairness to each.  Nothing is assumed of the relay.                   *)
FairSpec == Spec /\ WF_vars(\E p \in Procs : Step(p))

-----------------------------------------------------------------------------

(* domain.rs run_domain: what a command reports is so.  `register` that     *)
(* succeeds has the name in its own key's hands; `update` that succeeds has *)
(* its own records committed, verified and cached, though others register,  *)
(* update and generate keys at the same time, and blocks are replaced.      *)
SuccessIsTrue ==
  [][\A p \in Procs :
       at'[p] = "done" /\ at[p] # "done" =>
         /\ cmd[p].kind = "register" =>
              registry[cmd[p].domain] # None /\ registry[cmd[p].domain].owner = key[p]
         /\ cmd[p].kind = "update" =>
              LET r == [domain |-> cmd[p].domain, owner |-> key[p],
                        sequence |-> info[p].next, data |-> read_record_file(cmd[p].file)]
              IN /\ registry[cmd[p].domain] = [owner |-> key[p], sequence |-> info[p].next,
                                               hash |-> record_hash(r)]
                 /\ cache'[cmd[p].domain] = r]_vars

(* scone-keystore lib.rs write_private_file: key material is only ever in a *)
(* file that is private, and a key that was generated without replacing     *)
(* stays until someone asks to replace it.                                  *)
KeysKept ==
  /\ \A i \in Ids : files[i] # None /\ files[i].bytes # None => files[i].mode = "0600"
  /\ \A p \in {x \in Procs : at[x] = "done" /\ cmd[x].kind = "generate" /\ ~Overwrites(x)} :
       \/ open(files[cmd[p].id], cmd[p].pass) = cmd[p].seed
       \/ \E q \in Procs : /\ at[q] \in {"chmod", "write", "done"}
                           /\ cmd[q].kind = "generate" /\ cmd[q].id = cmd[p].id
                           /\ Overwrites(q)

(* domain.rs wait_for_sequence: every command ends, whatever becomes of its *)
(* transaction.                                                             *)
CommandsEnd == <>[](\A p \in Procs : at[p] \in Ended \/ p \in dead)

(* tx.rs:465 "M8a family: rebind keeps every carried field, only the signer *)
(* identity is recomputed."                                                 *)
RebindKeeps ==
  \A p \in {x \in Procs : at[x] = "submit" /\ cmd[x].kind = "sign"} :
    LET tx == decode_tx_or_payload(cmd[p].input)
    IN TxOf(p).network = tx.network /\ TxOf(p).body = tx.body
=============================================================================
