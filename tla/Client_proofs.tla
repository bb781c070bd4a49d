---------------------------- MODULE Client_proofs ----------------------------
(***************************************************************************)
(* For any number of commands on any keystore and registry: keys that were *)
(* generated are private and stay, and what a command reports is so.       *)
(***************************************************************************)
EXTENDS Client, TLAPS

(* A generator between its open and its end, killed or not.                 *)
Holding == {"chmod", "write", "done"}
Writes(p) == at[p] \in Holding /\ cmd[p].kind = "generate"
Replaces(i) == \E q \in Procs : Writes(q) /\ cmd[q].id = i /\ Overwrites(q)

(* The commands of a load run on files and a cache of their types.          *)
Shape ==
  /\ \E load \in Loads : cmd = load.cmd
  /\ files \in [Ids -> File \cup {None}]
  /\ at = [p \in Procs |-> at[p]]
  /\ cache = [d \in Domains |-> cache[d]]
  /\ \A p \in Procs : cmd[p] = None => at[p] = "idle"

(* Key material is in private files only.                                   *)
Private == \A i \in Ids : files[i] # None /\ files[i].bytes # None => files[i].mode = "0600"

(* A generator that opened its file holds it, private once it may write.    *)
FileHeld ==
  \A p \in Procs : Writes(p) =>
    /\ cmd[p].id \in Ids /\ files[cmd[p].id] # None
    /\ at[p] \in {"write", "done"} => files[cmd[p].id].mode = "0600"

(* create_new lets one generator through per name.                          *)
OneCreator ==
  \A p, q \in Procs :
    Writes(p) /\ Writes(q) /\ cmd[p].id = cmd[q].id /\ ~Overwrites(p) /\ ~Overwrites(q) => p = q

(* Its key is in the file, unless a command that replaces has opened it.    *)
KeyThere ==
  \A p \in Procs :
    Writes(p) /\ at[p] = "done" /\ ~Overwrites(p) =>
      \/ files[cmd[p].id].bytes = Keyfile(cmd[p].seed, cmd[p].pass)
      \/ Replaces(cmd[p].id)

IInv == Shape /\ Private /\ FileHeld /\ OneCreator /\ KeyThere

-----------------------------------------------------------------------------

(* What a generator of the load writes is a keyfile, never an empty file.   *)
LEMMA KeyfileIsContent ==
  ASSUME Shape, NEW p \in Procs, Writes(p) \/ Running(p, "generate", "write")
  PROVE  /\ Keyfile(cmd[p].seed, cmd[p].pass) \in Contents
         /\ Keyfile(cmd[p].seed, cmd[p].pass) # None
<1>1. PICK load \in Loads : cmd = load.cmd
  BY DEF Shape
<1>2. cmd[p] # None /\ cmd[p].kind = "generate"
  BY DEF Shape, Writes, Holding, Running
<1>3. Keyfile(cmd[p].seed, cmd[p].pass) \in Written(load)
  BY <1>1, <1>2 DEF Written
<1> QED
  BY <1>1, <1>3, KeystoreConstants DEF Contents

(* A key that was just written is opened by its passphrase: open() accepts  *)
(* what write_keyfile() makes.                                              *)
LEMMA WrittenOpens ==
  ASSUME NEW seed, NEW pass, NEW f, f # None,
         Keyfile(seed, pass) # None, f.bytes = Keyfile(seed, pass)
  PROVE  open(f, pass) = seed
BY WalletConstants DEF open, parse_keyfile, Keyfile

(* The invariant is more than the property.                                 *)
LEMMA InvGivesKeysKept == IInv => KeysKept
<1> SUFFICES ASSUME IInv PROVE KeysKept
  OBVIOUS
<1>1. \A i \in Ids : files[i] # None /\ files[i].bytes # None => files[i].mode = "0600"
  BY DEF IInv, Private
<1>2. ASSUME NEW p \in Procs, at[p] = "done", cmd[p].kind = "generate", ~Overwrites(p)
      PROVE  \/ open(files[cmd[p].id], cmd[p].pass) = cmd[p].seed
             \/ Replaces(cmd[p].id)
  <2>1. Writes(p)
    BY <1>2 DEF Writes, Holding
  <2>2. files[cmd[p].id] # None /\ Keyfile(cmd[p].seed, cmd[p].pass) # None
    BY <2>1, KeyfileIsContent DEF IInv, FileHeld
  <2> QED
    BY <1>2, <2>1, <2>2, WrittenOpens DEF IInv, KeyThere
<1> QED
  BY <1>1, <1>2 DEF KeysKept, Replaces, Writes, Holding

(* Nothing is held at the start, and the files are those of the keystore.   *)
LEMMA InitInv == Init => IInv
<1> SUFFICES ASSUME Init PROVE IInv
  OBVIOUS
<1>1. PICK load \in Loads :
        /\ files = IF load.fresh THEN [i \in Ids |-> None] ELSE InitFiles
        /\ cache = [d \in Domains |-> None]
        /\ cmd = load.cmd
        /\ at = [p \in Procs |-> IF cmd[p] # None THEN "start" ELSE "idle"]
  BY DEF Init
<1>2. Shape
  BY <1>1, KeystoreConstants DEF Shape
<1>3. Private
  BY <1>1, KeystoreConstants DEF Private
<1>4. \A p \in Procs : ~Writes(p)
  BY <1>1 DEF Writes, Holding
<1> QED
  BY <1>2, <1>3, <1>4 DEF IInv, FileHeld, OneCreator, KeyThere

(* A step that touches no file and moves no generator that holds one.       *)
LEMMA FrameInv ==
  ASSUME IInv, Shape', UNCHANGED <<files, cmd>>,
         \A q \in Procs : cmd[q].kind = "generate" =>
           at'[q] = at[q] \/ (at[q] \notin Holding /\ at'[q] \notin Holding)
  PROVE  IInv'
<1>1. \A q \in Procs : /\ Writes(q)' <=> Writes(q)
                       /\ Overwrites(q)' <=> Overwrites(q)
                       /\ Writes(q) => at'[q] = at[q]
  BY DEF Writes, Overwrites, Holding
<1>2. \A i : Replaces(i)' <=> Replaces(i)
  BY <1>1 DEF Replaces
<1>3. Private' /\ FileHeld' /\ OneCreator'
  BY <1>1 DEF IInv, Private, FileHeld, OneCreator
<1>4. KeyThere'
  BY <1>1, <1>2 DEF IInv, KeyThere
<1> QED
  BY <1>3, <1>4 DEF IInv

(* No step changes the load; files and cache keep their types.              *)
LEMMA ShapeStep ==
  ASSUME IInv, [Next]_vars
  PROVE  Shape'
<1> USE DEF keystore, relay, procs, Goto
<1>0. Shape
  BY DEF IInv
<1>1. cmd' = cmd
  BY DEF Next, vars, Step, GenerateOpen, GenerateChmod, GenerateWrite, Show, OpenIdentity,
         RegisterLookup, UpdateLookup, SignDecode, Submit, RegisterConfirm, UpdateConfirm,
         ConfirmTimeout, UpdatePublish, Kill, Unreachable, Produce, Evict, Lapse, Replace
<1>2. at' = [p \in Procs |-> at'[p]] /\ \A p \in Procs : cmd[p] = None => at'[p] = "idle"
  <2>1. \/ at' = at
        \/ \E p \in Procs : at[p] # "idle" /\ \E pc : at' = [at EXCEPT ![p] = pc]
    BY DEF Next, vars, Step, GenerateOpen, GenerateChmod, GenerateWrite, Show, OpenIdentity,
           RegisterLookup, UpdateLookup, SignDecode, Submit, RegisterConfirm, UpdateConfirm,
           ConfirmTimeout, UpdatePublish, Kill, Unreachable, Produce, Evict, Lapse, Replace,
           Running, Expired
  <2> QED
    BY <1>0, <2>1 DEF Shape
<1>3. cache' = [d \in Domains |-> cache'[d]]
  <2>1. cache' = cache \/ \E d, r : cache' = [cache EXCEPT ![d] = r]
    BY DEF Next, vars, Step, GenerateOpen, GenerateChmod, GenerateWrite, Show, OpenIdentity,
           RegisterLookup, UpdateLookup, SignDecode, Submit, RegisterConfirm, UpdateConfirm,
           ConfirmTimeout, UpdatePublish, Kill, Unreachable, Produce, Evict, Lapse, Replace
  <2> QED
    BY <1>0, <2>1 DEF Shape
<1>4. files' \in [Ids -> File \cup {None}]
  <2>1. CASE files' = files
    BY <1>0, <2>1 DEF Shape
  <2>2. ASSUME NEW p \in Procs, GenerateOpen(p) PROVE files' \in [Ids -> File \cup {None}]
    BY <1>0, <2>2 DEF GenerateOpen, Taken, validate_identity_name, Shape, File
  <2>3. ASSUME NEW p \in Procs, GenerateChmod(p) PROVE files' \in [Ids -> File \cup {None}]
    <3>1. Writes(p)
      BY <2>3 DEF GenerateChmod, Running, Writes, Holding
    <3>2. cmd[p].id \in Ids /\ files[cmd[p].id] \in File
      BY <1>0, <3>1 DEF IInv, FileHeld, Shape
    <3> QED
      BY <1>0, <2>3, <3>2 DEF GenerateChmod, Shape, File
  <2>4. ASSUME NEW p \in Procs, GenerateWrite(p) PROVE files' \in [Ids -> File \cup {None}]
    <3>1. Writes(p)
      BY <2>4 DEF GenerateWrite, Running, Writes, Holding
    <3>2. cmd[p].id \in Ids /\ files[cmd[p].id] \in File
      BY <1>0, <3>1 DEF IInv, FileHeld, Shape
    <3>3. Keyfile(cmd[p].seed, cmd[p].pass) \in Contents
      BY <1>0, <3>1, KeyfileIsContent
    <3> QED
      BY <1>0, <2>4, <3>2, <3>3 DEF GenerateWrite, Shape, File
  <2> QED
    BY <2>1, <2>2, <2>3, <2>4
       DEF Next, vars, Step, Show, OpenIdentity,
           RegisterLookup, UpdateLookup, SignDecode, Submit, RegisterConfirm, UpdateConfirm,
           ConfirmTimeout, UpdatePublish, Kill, Unreachable, Produce, Evict, Lapse, Replace
<1> QED
  BY <1>0, <1>1, <1>2, <1>3, <1>4 DEF Shape

(* open(O_EXCL) or open(O_TRUNC): a creator found no file, so nobody held   *)
(* it; a replacer counts from now on.                                       *)
LEMMA GenerateOpenInv ==
  ASSUME IInv, Shape', NEW p \in Procs, GenerateOpen(p)
  PROVE  IInv'
<1> USE DEF keystore, relay, procs, Goto
<1>0. /\ Running(p, "generate", "start") /\ cmd' = cmd /\ at = [q \in Procs |-> at[q]]
      /\ files \in [Ids -> File \cup {None}] /\ files' \in [Ids -> File \cup {None}]
  BY DEF GenerateOpen, IInv, Shape
<1>1. CASE UNCHANGED files /\ at' = [at EXCEPT ![p] = "failed"]
  <2>1. \A q \in Procs : at'[q] = at[q] \/ (at[q] \notin Holding /\ at'[q] \notin Holding)
    BY <1>0, <1>1 DEF Running, Holding
  <2> QED
    BY <1>0, <1>1, <2>1, FrameInv
<1>2. CASE ~(UNCHANGED files /\ at' = [at EXCEPT ![p] = "failed"])
  <2> DEFINE i == cmd[p].id
  <2>1. /\ i \in Ids /\ ~Taken(p) /\ at' = [at EXCEPT ![p] = "chmod"]
        /\ files' = [files EXCEPT ![i] =
             [bytes |-> None, mode |-> IF @ = None THEN "umask" ELSE @.mode]]
    BY <1>2 DEF GenerateOpen, validate_identity_name
  <2>2. files'[i] # None
    BY <1>0, <2>1, KeystoreConstants DEF File
  <2>3. /\ files'[i].bytes = None
        /\ files[i] # None => files'[i].mode = files[i].mode
        /\ \A j \in Ids \ {i} : files'[j] = files[j]
    BY <1>0, <2>1
  <2>4. /\ ~Writes(p) /\ Writes(p)'
        /\ \A q \in Procs \ {p} : (Writes(q)' <=> Writes(q)) /\ at'[q] = at[q]
        /\ \A q \in Procs : Overwrites(q)' <=> Overwrites(q)
    BY <1>0, <2>1 DEF Writes, Holding, Running, Overwrites
  <2>5. Private'
    BY <2>1, <2>3, <1>0 DEF IInv, Private
  <2>6. FileHeld'
    BY <1>0, <2>1, <2>2, <2>3, <2>4 DEF IInv, FileHeld
  <2>7. ~Overwrites(p) => \A q \in Procs : Writes(q) => cmd[q].id # i
    BY <2>1 DEF Taken, IInv, FileHeld
  <2>8. OneCreator'
    BY <1>0, <2>4, <2>7 DEF IInv, OneCreator
  <2>9. KeyThere'
    <3> SUFFICES ASSUME NEW q \in Procs, Writes(q)', at'[q] = "done", ~Overwrites(q)'
                 PROVE  \/ files'[cmd'[q].id].bytes = Keyfile(cmd'[q].seed, cmd'[q].pass)
                        \/ Replaces(cmd[q].id)'
      BY DEF KeyThere
    <3>1. q # p /\ Writes(q) /\ at[q] = "done" /\ ~Overwrites(q)
      BY <1>0, <2>1, <2>4
    <3>2. CASE Replaces(cmd[q].id)
      BY <1>0, <3>2, <2>4 DEF Replaces
    <3>3. CASE ~Replaces(cmd[q].id) /\ cmd[q].id # i
      BY <1>0, <3>1, <3>3, <2>3 DEF IInv, KeyThere, FileHeld
    <3>4. CASE cmd[q].id = i
      BY <1>0, <3>1, <3>4, <2>7, <2>4 DEF Replaces
    <3> QED
      BY <3>2, <3>3, <3>4
  <2> QED
    BY <2>5, <2>6, <2>8, <2>9 DEF IInv
<1> QED
  BY <1>1, <1>2

(* fchmod before the first byte is written.                                 *)
LEMMA GenerateChmodInv ==
  ASSUME IInv, Shape', NEW p \in Procs, GenerateChmod(p)
  PROVE  IInv'
<1> USE DEF keystore, relay, procs, Goto
<1> DEFINE i == cmd[p].id
<1>0. /\ Writes(p) /\ at[p] = "chmod" /\ cmd' = cmd /\ at = [q \in Procs |-> at[q]]
      /\ files \in [Ids -> File \cup {None}]
      /\ at' = [at EXCEPT ![p] = "write"]
      /\ files' = [files EXCEPT ![i].mode = "0600"]
  BY DEF GenerateChmod, Running, Writes, Holding, IInv, Shape
<1>1. i \in Ids /\ files[i] \in File /\ files[i] # None
  BY <1>0 DEF IInv, FileHeld
<1>2. files'[i] \in File
  BY <1>0, <1>1 DEF File
<1>3. /\ files'[i] # None /\ files'[i].bytes = files[i].bytes /\ files'[i].mode = "0600"
      /\ \A j \in Ids \ {i} : files'[j] = files[j]
  BY <1>0, <1>1, <1>2, KeystoreConstants DEF File
<1>4. \A q \in Procs : /\ Writes(q)' <=> Writes(q)
                       /\ Overwrites(q)' <=> Overwrites(q)
                       /\ at'[q] = "done" <=> at[q] = "done"
                       /\ q # p => at'[q] = at[q]
  BY <1>0 DEF Writes, Holding, Overwrites
<1>5. \A j : Replaces(j) => Replaces(j)'
  BY <1>0, <1>4 DEF Replaces
<1>6. Private' /\ FileHeld' /\ OneCreator'
  BY <1>0, <1>1, <1>3, <1>4 DEF IInv, Private, FileHeld, OneCreator
<1>7. KeyThere'
  BY <1>0, <1>3, <1>4, <1>5 DEF IInv, KeyThere, FileHeld
<1> QED
  BY <1>6, <1>7 DEF IInv

(* write_all: a key that someone else put there is lost only to a replacer. *)
LEMMA GenerateWriteInv ==
  ASSUME IInv, Shape', NEW p \in Procs, GenerateWrite(p)
  PROVE  IInv'
<1> USE DEF keystore, relay, procs, Goto
<1> DEFINE i == cmd[p].id
<1>0. /\ Writes(p) /\ at[p] = "write" /\ cmd' = cmd /\ at = [q \in Procs |-> at[q]]
      /\ files \in [Ids -> File \cup {None}]
      /\ at' = [at EXCEPT ![p] = "done"]
      /\ files' = [files EXCEPT ![i].bytes = Keyfile(cmd[p].seed, cmd[p].pass)]
  BY DEF GenerateWrite, Running, Writes, Holding, IInv, Shape
<1>1. /\ i \in Ids /\ files[i] \in File /\ files[i] # None /\ files[i].mode = "0600"
      /\ Keyfile(cmd[p].seed, cmd[p].pass) \in Contents
  BY <1>0, KeyfileIsContent DEF IInv, FileHeld
<1>2. files'[i] \in File
  BY <1>0, <1>1 DEF File
<1>3. /\ files'[i] # None /\ files'[i].mode = "0600"
      /\ files'[i].bytes = Keyfile(cmd[p].seed, cmd[p].pass)
      /\ \A j \in Ids \ {i} : files'[j] = files[j]
  BY <1>0, <1>1, <1>2, KeystoreConstants DEF File
<1>4. \A q \in Procs : /\ Writes(q)' <=> Writes(q)
                       /\ Overwrites(q)' <=> Overwrites(q)
                       /\ q # p => at'[q] = at[q]
  BY <1>0 DEF Writes, Holding, Overwrites
<1>5. \A j : Replaces(j) <=> Replaces(j)'
  BY <1>0, <1>4 DEF Replaces
<1>6. Private' /\ FileHeld' /\ OneCreator'
  BY <1>0, <1>1, <1>3, <1>4 DEF IInv, Private, FileHeld, OneCreator
<1>7. KeyThere'
  <2> SUFFICES ASSUME NEW q \in Procs, Writes(q)', at'[q] = "done", ~Overwrites(q)'
               PROVE  \/ files'[cmd'[q].id].bytes = Keyfile(cmd'[q].seed, cmd'[q].pass)
                      \/ Replaces(cmd[q].id)'
    BY DEF KeyThere
  <2>1. CASE q = p
    BY <1>0, <1>3, <2>1
  <2>2. CASE q # p /\ cmd[q].id # i
    BY <1>0, <1>3, <1>4, <1>5, <2>2 DEF IInv, KeyThere, FileHeld
  <2>3. CASE q # p /\ cmd[q].id = i
    <3>1. Overwrites(p)
      BY <1>0, <1>4, <2>3 DEF IInv, OneCreator
    <3> QED
      BY <1>0, <1>4, <1>5, <2>3, <3>1 DEF Replaces
  <2> QED
    BY <2>1, <2>2, <2>3
<1> QED
  BY <1>6, <1>7 DEF IInv

(* Every step of every command and of the relay keeps the invariant.        *)
LEMMA StepInv == IInv /\ [Next]_vars => IInv'
<1> SUFFICES ASSUME IInv, [Next]_vars PROVE IInv'
  OBVIOUS
<1> USE DEF keystore, relay, procs, Goto
<1>0. Shape' /\ at = [q \in Procs |-> at[q]]
  BY ShapeStep DEF IInv, Shape
<1> DEFINE Still == /\ UNCHANGED <<files, cmd>>
                    /\ \A q \in Procs : cmd[q].kind = "generate" =>
                         at'[q] = at[q] \/ (at[q] \notin Holding /\ at'[q] \notin Holding)
<1>1. Still => IInv'
  BY <1>0, FrameInv
<1>2. ASSUME NEW p \in Procs, Step(p) PROVE IInv'
  <2>1. CASE Show(p)
    <3>1. Still BY <1>0, <2>1 DEF Show, Running, Holding
    <3> QED BY <1>1, <3>1
  <2>2. CASE OpenIdentity(p)
    <3>1. Still BY <1>0, <2>2 DEF OpenIdentity, Holding
    <3> QED BY <1>1, <3>1
  <2>3. CASE RegisterLookup(p)
    <3>1. Still BY <1>0, <2>3 DEF RegisterLookup, Running, Holding
    <3> QED BY <1>1, <3>1
  <2>4. CASE UpdateLookup(p)
    <3>1. Still BY <1>0, <2>4 DEF UpdateLookup, Running, Holding
    <3> QED BY <1>1, <3>1
  <2>5. CASE SignDecode(p)
    <3>1. Still BY <1>0, <2>5 DEF SignDecode, Running, Holding
    <3> QED BY <1>1, <3>1
  <2>6. CASE \E answered \in BOOLEAN : Submit(p, answered)
    <3>1. Still BY <1>0, <2>6 DEF Submit, AfterSubmit, Holding
    <3> QED BY <1>1, <3>1
  <2>7. CASE RegisterConfirm(p) \/ UpdateConfirm(p) \/ ConfirmTimeout(p)
    <3>1. Still
      BY <1>0, <2>7 DEF RegisterConfirm, UpdateConfirm, ConfirmTimeout, Expired, Running, Holding
    <3> QED BY <1>1, <3>1
  <2>8. CASE \E answered \in BOOLEAN : UpdatePublish(p, answered)
    <3>1. Still BY <1>0, <2>8 DEF UpdatePublish, Running, Holding
    <3> QED BY <1>1, <3>1
  <2> QED
    BY <1>0, <1>2, <2>1, <2>2, <2>3, <2>4, <2>5, <2>6, <2>7, <2>8,
       GenerateOpenInv, GenerateChmodInv, GenerateWriteInv DEF Step
<1>3. CASE \E p \in Procs : Kill(p) \/ Unreachable(p)
  <2>1. Still BY <1>0, <1>3 DEF Kill, Unreachable, Holding
  <2> QED BY <1>1, <2>1
<1>4. CASE \/ \E tx \in pool : Produce(tx) \/ Evict(tx)
           \/ \E d \in Domains : Lapse(d)
           \/ \E forgets \in SUBSET included : Replace(forgets)
  <2>1. Still BY <1>4 DEF Produce, Evict, Lapse, Replace
  <2> QED BY <1>1, <2>1
<1>5. CASE UNCHANGED vars
  <2>1. Still BY <1>5 DEF vars
  <2> QED BY <1>1, <2>1
<1> QED
  BY <1>2, <1>3, <1>4, <1>5 DEF Next

(* write_private_file, for any commands and any keystore: key material is   *)
(* in private files only, and a key generated without replacing stays until *)
(* a command that replaces opens its file.                                  *)
THEOREM KeysAreKept == Spec => []KeysKept
<1>1. Init => IInv
  BY InitInv
<1>2. IInv /\ [Next]_vars => IInv'
  BY StepInv
<1>3. IInv => KeysKept
  BY InvGivesKeysKept
<1> QED
  BY <1>1, <1>2, <1>3, PTL DEF Spec

-----------------------------------------------------------------------------

(* What a command reports, as a step: the action of SuccessIsTrue.          *)
Truthful ==
  \A p \in Procs :
    at'[p] = "done" /\ at[p] # "done" =>
      /\ cmd[p].kind = "register" =>
           registry[cmd[p].domain] # None /\ registry[cmd[p].domain].owner = key[p]
      /\ cmd[p].kind = "update" =>
           LET r == [domain |-> cmd[p].domain, owner |-> key[p],
                     sequence |-> info[p].next, data |-> read_record_file(cmd[p].file)]
           IN /\ registry[cmd[p].domain] = [owner |-> key[p], sequence |-> info[p].next,
                                            hash |-> record_hash(r)]
              /\ cache'[cmd[p].domain] = r

(* Only four steps end in success, and those of `domain` commands look at   *)
(* the registry first.                                                      *)
LEMMA SuccessStep == IInv /\ [Next]_vars => [Truthful]_vars
<1> SUFFICES ASSUME IInv, Next PROVE Truthful
  OBVIOUS
<1> USE DEF keystore, relay, procs, Goto
<1>0. Shape
  BY DEF IInv
<1>1. ASSUME NEW p \in Procs, at'[p] = "done", at[p] # "done",
             cmd[p].kind \in {"register", "update"}
      PROVE  \/ RegisterConfirm(p) /\ Ours(p)
             \/ \E answered \in BOOLEAN :
                  /\ UpdatePublish(p, answered) /\ verify_record_against_chain(RecordOf(p))
                  /\ cache' = [cache EXCEPT ![cmd[p].domain] = RecordOf(p)]
  <2>1. ASSUME NEW q \in Procs, Step(q) \/ Kill(q) \/ Unreachable(q), q # p PROVE FALSE
    BY <1>0, <1>1, <2>1
       DEF Shape, Step, GenerateOpen, GenerateChmod, GenerateWrite, Show, OpenIdentity,
           RegisterLookup, UpdateLookup, SignDecode, Submit, RegisterConfirm, UpdateConfirm,
           ConfirmTimeout, UpdatePublish, Kill, Unreachable
  <2>2. ASSUME Step(p)
        PROVE  \/ RegisterConfirm(p) /\ Ours(p)
               \/ \E answered \in BOOLEAN : UpdatePublish(p, answered)
    BY <1>0, <1>1, <2>2
       DEF Shape, Step, Running, GenerateOpen, GenerateChmod, GenerateWrite, Show, OpenIdentity,
           RegisterLookup, UpdateLookup, SignDecode, Submit, AfterSubmit, RegisterConfirm,
           UpdateConfirm, ConfirmTimeout
  <2>3. ASSUME NEW answered \in BOOLEAN, UpdatePublish(p, answered)
        PROVE  /\ verify_record_against_chain(RecordOf(p))
               /\ cache' = [cache EXCEPT ![cmd[p].domain] = RecordOf(p)]
    BY <1>0, <1>1, <2>3 DEF Shape, UpdatePublish, RecordOf
  <2>4. ~Kill(p) /\ ~Unreachable(p)
    BY <1>0, <1>1 DEF Shape, Kill, Unreachable
  <2>5. at' # at
    BY <1>1
  <2> QED
    BY <2>1, <2>2, <2>3, <2>4, <2>5 DEF Next, Produce, Evict, Lapse, Replace
<1>2. ASSUME NEW p \in Procs, at[p] # "idle", cmd[p].kind \in {"register", "update"}
      PROVE  cmd[p].domain \in Domains
  BY <1>0, <1>2, ClientConstants DEF Shape
<1>3. ASSUME NEW p \in Procs, RegisterConfirm(p), Ours(p)
      PROVE  /\ cmd[p].kind = "register" /\ registry[cmd[p].domain] # None
             /\ registry[cmd[p].domain].owner = key[p]
  BY <1>3 DEF RegisterConfirm, Running, Reached, Ours
<1>4. ASSUME NEW p \in Procs, NEW answered \in BOOLEAN, UpdatePublish(p, answered),
             verify_record_against_chain(RecordOf(p)),
             cache' = [cache EXCEPT ![cmd[p].domain] = RecordOf(p)]
      PROVE  /\ cmd[p].kind = "update"
             /\ registry[cmd[p].domain] = [owner |-> key[p], sequence |-> info[p].next,
                                           hash |-> record_hash(RecordOf(p))]
             /\ cache'[cmd[p].domain] = RecordOf(p)
  BY <1>0, <1>2, <1>4 DEF Shape, UpdatePublish, Running, verify_record_against_chain, RecordOf
<1> QED
  BY <1>1, <1>3, <1>4 DEF Truthful, RecordOf

(* run_domain, for any commands, keys and registry: `register` reports      *)
(* success only of a name in its own key's hands, `update` only of its own  *)
(* records, committed, verified and cached.                                 *)
THEOREM SuccessesAreTrue == Spec => SuccessIsTrue
<1>1. Init => IInv
  BY InitInv
<1>2. IInv /\ [Next]_vars => IInv'
  BY StepInv
<1>3. IInv /\ [Next]_vars => [Truthful]_vars
  BY SuccessStep
<1>4. Spec => [][Truthful]_vars
  BY <1>1, <1>2, <1>3, PTL DEF Spec
<1> QED
  BY <1>4 DEF SuccessIsTrue, Truthful
=============================================================================
