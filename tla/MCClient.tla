------------------------------ MODULE MCClient ------------------------------
(* One free name and one that alice holds; carol has no keyfile yet, and the *)
(* keyfile of dora asks for more memory than any build writes.               *)
EXTENDS Client

CONSTANTS p1, p2, p3, p4, ka, kb, k1, k2, k3, k4, main

MCIds == {"alice", "bob", "carol", "dora"}
KeyFile(b) == [bytes |-> b, mode |-> "0600"]
MCInitFiles == [i \in MCIds |->
  CASE i = "alice" -> KeyFile(Keyfile(ka, "pass"))
    [] i = "bob"   -> KeyFile(Keyfile(kb, "pass"))
    [] i = "dora"  -> KeyFile([Keyfile(k4, "pass") EXCEPT !.m_cost = DEFAULT_M_COST_MIB + 1])
    [] OTHER       -> None]

MCDomains == {"free", "held"}
MCInitRegistry == [d \in MCDomains |->
  IF d = "held" THEN [owner |-> ka, sequence |-> 0, hash |-> None] ELSE None]

Line(type, fields, spacing) == [type |-> type, fields |-> fields, spacing |-> spacing]
FileA == <<Line("comment", <<>>, 0), Line("A", <<"1">>, 1)>>
FileB == <<Line("TXT", <<"x", "y">>, 2), Line("MX", <<"10", "m">>, 1)>>
Twice == <<Line("TXT", <<"x", "y">>, 1), Line("TXT", <<"x", "y">>, 2)>>
Trailing == <<Line("A", <<"1", "2">>, 1)>>

Generate(op, id, seed) ==
  [kind |-> "generate", op |-> op, id |-> id, seed |-> seed, pass |-> "pass"]
Register(id, d, stamp) ==
  [kind |-> "register", id |-> id, pass |-> "pass", domain |-> d, stamp |-> stamp]
Update(id, d, file) ==
  [kind |-> "update", id |-> id, pass |-> "pass", domain |-> d, file |-> file]
Sign(id, form, tx) ==
  [kind |-> "sign", id |-> id, pass |-> "pass", input |-> [form |-> form, tx |-> tx]]
ShowKey(id, pass) == [kind |-> "show", id |-> id, pass |-> pass]

Known ==
  [create    |-> Generate("create", "carol", k1),
   phrase    |-> Generate("create_with_phrase", "carol", k2),
   force     |-> Generate("create_overwriting", "carol", k3),
   restore   |-> Generate("restore_from_phrase", "alice", k4),
   mistyped  |-> Generate("restore_from_phrase", "alice", None),
   path      |-> Generate("create", "../x", k3),
   regA      |-> Register("alice", "free", 1),
   regB      |-> Register("bob", "free", 1),
   updA      |-> Update("alice", "held", FileA),
   updB      |-> Update("alice", "held", FileB),
   updNew    |-> Update("alice", "free", FileA),
   updTwice  |-> Update("alice", "held", Twice),
   updTrail  |-> Update("alice", "held", Trailing),
   signUpd   |-> Sign("alice", "payload", build_unsigned(UpdateBody("held", 1, <<"held", 1, <<>>>>))),
   signReg   |-> Sign("bob", "transaction",
                      sign_tx_with(Transaction(TESTNET, k1, RegisterBody("free", 2, main)), k1)),
   signJunk  |-> Sign("bob", "garbage", None),
   signMain  |-> Sign("alice", "transaction",
                      sign_tx_with(Transaction(main, ka, [kind |-> "set-open", domain |-> "held"]), ka)),
   showWrong |-> ShowKey("alice", "other"),
   showDora  |-> ShowKey("dora", "pass"),
   showCarol |-> ShowKey("carol", "pass")]
MCProcs == {p1, p2, p3, p4}

(* Writers of one keyfile; two owners for one name; a name registered and    *)
(* updated while the key is replaced; rival updates; inputs that are refused. *)
Run(a, b, c, d) ==
  LET Command(x) == IF x = "" THEN None ELSE Known[x]
  IN (p1 :> Command(a)) @@ (p2 :> Command(b)) @@ (p3 :> Command(c)) @@ (p4 :> Command(d))

MCLoads ==
  {[fresh |-> TRUE, cmd |-> Run("create", "phrase", "force", "showCarol")],
   [fresh |-> FALSE, cmd |-> Run("regA", "regB", "signReg", "")],
   [fresh |-> FALSE, cmd |-> Run("regA", "updNew", "regB", "")],
   [fresh |-> FALSE, cmd |-> Run("updA", "restore", "", "")],
   [fresh |-> FALSE, cmd |-> Run("updA", "updB", "signUpd", "")],
   [fresh |-> FALSE, cmd |-> Run("mistyped", "path", "signJunk", "updTwice")],
   [fresh |-> FALSE, cmd |-> Run("updTrail", "showWrong", "showDora", "")]}
MainLoads == {[fresh |-> FALSE, cmd |-> Run("signMain", "", "", "")]}
=============================================================================
