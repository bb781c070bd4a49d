------------------------------ MODULE Resolve ------------------------------
(***************************************************************************)
(* How a relay answers: the control RPC with its connection slots, the     *)
(* relay task that dispatches one command at a time, the DHT lookups it    *)
(* parks, the local record cache, and the DNS tasks, which share one       *)
(* answer cache behind a lock and resolve through the RPC like any client. *)
(*                                                                         *)
(* The chain is a fixed history of registries, which move on at any time;  *)
(* the registry of a height maps each domain to [owner, sequence, hash].   *)
(* A signed record is [domain, owner, sequence, data]; its hash is what it *)
(* covers.  The DHT (libp2p Kademlia, external) is a set of records under  *)
(* keys; a query may report any of those under its key, nothing, or end    *)
(* without a result the relay looks at.                                    *)
(***************************************************************************)
EXTENDS Dns

CONSTANTS
  Domains,            \* the names the registry may hold
  History,            \* the registries of the chain, by height
  BadLabels,          \* labels of a query that DomainName refuses
  Clients,            \* RPC clients
  RequestOf,          \* the request of each: [kind, name] or [kind, record]
  InitDht,            \* pairs <<key, record>> in the DHT at the start
  PeerRecords,        \* records a peer sends
  Queries,            \* DNS packets
  TransportOf,        \* "udp" or "tcp"
  Loads,              \* [who, upstreams]: clients and packets that come together, upstreams configured
  Replies,            \* what an upstream may do: a reply, or None for silence
  MaxTime,            \* bound on the clock
  MAX_DHT_WAITERS, MAX_RPC_CONNECTIONS, MAX_INFLIGHT_UDP, MAX_TCP_CONNS

Resolver == "resolver"          \* the RPC client of the DNS tasks
Callers == Clients \cup {Resolver}

(* Every record that there is.                                              *)
Records == {x[2] : x \in InitDht} \cup PeerRecords
             \cup {RequestOf[c].record : c \in {x \in Clients : RequestOf[x].kind = "PutRecord"}}

record_hash(r) == <<r.domain, r.sequence, r.data>>

ASSUME ResolveConstants ==
  /\ DOMAIN RequestOf = Clients /\ Resolver \notin Clients
  /\ \A q \in DOMAIN Queries : Queries[q].labels \in Seq(STRING)
  /\ None \notin DOMAIN Queries
  /\ \A r \in Records : IsFiniteSet(DOMAIN r.data) /\ record_hash(r) # None
  /\ \A r \in Replies : r # None =>
       /\ DOMAIN r.answers = 1..Len(r.answers) /\ Len(r.answers) \in Nat
       /\ r.read # None => DOMAIN r.read = 1..Len(r.read) /\ Len(r.read) = Len(r.answers)
  /\ \A load \in Loads : load.upstreams \in Nat
  /\ \A h \in DOMAIN History : DOMAIN History[h] = Domains
  /\ {MAX_DHT_WAITERS, MAX_RPC_CONNECTIONS, MAX_INFLIGHT_UDP, MAX_TCP_CONNS} \subseteq Nat \ {0}
  /\ MaxTime \in Nat

VARIABLES
  height,    \* the current registry is History[height]
  store,     \* the persistent record cache: domain -> record or None
  dht,       \* records in the DHT
  conn,      \* RPC connection of each caller: "new", "reading", "queued", "parked", "replied", "closed", "shed"
  request,   \* its request
  reply,     \* its answer
  queue,     \* commands on their way to the relay task
  waiters,   \* parked lookups, in the order of their deadlines
  active,    \* callers whose Kademlia query still runs
  task,      \* DNS task of each packet: "new", "waiting", "walking", "done"
  lock,      \* the task that holds the cache lock, or None
  walk,      \* its suffix search: [keep, born, seen]
  cache,     \* the answer cache
  upstreams, \* number of configured upstreams
  response,  \* what each packet was answered: None is silence
  now,
  last       \* ghost: when each view of a domain was last the current one

rpc == <<conn, request, reply, queue, waiters, active>>
dns == <<task, lock, walk, cache, response, upstreams>>
vars == <<height, store, dht, rpc, dns, now, last>>

-----------------------------------------------------------------------------
(* Records and the chain.                                                   *)

(* verify_record_against_chain: the record is the one its own domain        *)
(* commits to now.                                                          *)
verify_record_against_chain(reg, r) ==
  /\ reg[r.domain] # None
  /\ reg[r.domain].owner = r.owner
  /\ reg[r.domain].sequence = r.sequence
  /\ reg[r.domain].hash = record_hash(r)

(* Mutant: a cached record is served as it was verified when it came in.    *)
LocalData_mut(reg, st, d) == IF st[d] = None THEN <<>> ELSE st[d].data

(* The cached record of a domain, if the chain still stands by it.          *)
LocalData(reg, st, d) ==
  IF st[d] # None /\ verify_record_against_chain(reg, st[d]) THEN st[d].data ELSE <<>>

(* resolve_local: None for a name that is not registered.                   *)
resolve_local(reg, st, d) ==
  IF d \notin Domains \/ reg[d] = None THEN None ELSE LocalData(reg, st, d)

ValidName(name) == ToSet(name) \cap BadLabels = {}

(* The ghost after a step: the views of before and after are both current.  *)
Views == {None, <<>>} \cup {r.data : r \in Records}
Seen(reg, st, time) ==
  last' = [d \in Domains |-> [v \in Views |->
             IF v \in {resolve_local(History[height], store, d), resolve_local(reg, st, d)}
               THEN time ELSE last[d][v]]]

Init == \E load \in Loads :
  /\ height = 1
  /\ store = [d \in Domains |-> None]
  /\ dht = InitDht
  /\ conn = [c \in Callers |-> IF c \in load.who \cup {Resolver} THEN "new" ELSE "closed"]
  /\ request = [c \in Callers |-> IF c = Resolver THEN None ELSE RequestOf[c]]
  /\ reply = [c \in Callers |-> None]
  /\ queue = <<>> /\ waiters = <<>> /\ active = {}
  /\ task = [q \in DOMAIN Queries |-> IF q \in load.who THEN "new" ELSE "done"]
  /\ lock = None
  /\ walk = [keep |-> 0, born |-> 0, seen |-> {}]
  /\ cache = NoEntries
  /\ upstreams = load.upstreams
  /\ response = [q \in DOMAIN Queries |-> None]
  /\ now = 0
  /\ last = [d \in Domains |-> [v \in Views |->
               IF v = resolve_local(History[1], store, d) THEN 0 ELSE -1]]

(* The chain moves on.                                                      *)
NextBlock ==
  /\ height < Len(History)
  /\ height' = height + 1
  /\ Seen(History[height + 1], store, now)
  /\ UNCHANGED <<store, dht, rpc, dns, now>>

Tick ==
  /\ now < MaxTime
  /\ now' = now + 1
  /\ Seen(History[height], store, now + 1)
  /\ UNCHANGED <<height, store, dht, rpc, dns>>

(* put_dht_cache.                                                           *)
Store(d, r) ==
  /\ store' = [store EXCEPT ![d] = r]
  /\ Seen(History[height], [store EXCEPT ![d] = r], now)

(* A peer sends Message::Record; one that does not match is refused.        *)
PeerRecord(r) ==
  /\ verify_record_against_chain(History[height], r)
  /\ Store(r.domain, r)
  /\ UNCHANGED <<height, dht, rpc, dns, now>>

-----------------------------------------------------------------------------
(* The RPC server.                                                          *)

Held == {c \in Callers : conn[c] \in {"reading", "queued", "parked", "replied"}}

(* The accept loop: at capacity the connection is dropped.                  *)
Accept(c) ==
  /\ conn[c] = "new" /\ request[c] # None
  /\ conn' = [conn EXCEPT ![c] =
       IF Cardinality(Held) < MAX_RPC_CONNECTIONS THEN "reading" ELSE "shed"]
  /\ UNCHANGED <<height, store, dht, request, reply, queue, waiters, active, dns, now, last>>

(* serve_connection reads the request and hands it to the relay task; one   *)
(* that does not parse is answered at once.                                 *)
Read(c) ==
  /\ conn[c] = "reading"
  /\ IF request[c].kind = "malformed"
       THEN /\ conn' = [conn EXCEPT ![c] = "replied"]
            /\ reply' = [reply EXCEPT ![c] = [kind |-> "error"]]
            /\ UNCHANGED queue
       ELSE /\ conn' = [conn EXCEPT ![c] = "queued"]
            /\ queue' = Append(queue, c)
            /\ UNCHANGED reply
  /\ UNCHANGED <<height, store, dht, request, waiters, active, dns, now, last>>

(* RPC_READ_TIMEOUT: a client that sends nothing loses its slot.            *)
ReadTimeout(c) ==
  /\ conn[c] = "reading" /\ c # Resolver
  /\ conn' = [conn EXCEPT ![c] = "closed"]
  /\ UNCHANGED <<height, store, dht, request, reply, queue, waiters, active, dns, now, last>>

(* The answer is written (or the write fails) and the slot is free.         *)
Finish(c) ==
  /\ conn[c] = "replied"
  /\ conn' = [conn EXCEPT ![c] = "closed"]
  /\ UNCHANGED <<height, store, dht, request, reply, queue, waiters, active, dns, now, last>>

Answer(c, r) ==
  /\ conn' = [conn EXCEPT ![c] = "replied"]
  /\ reply' = [reply EXCEPT ![c] = r]

-----------------------------------------------------------------------------
(* The relay task.                                                          *)

Command(c, kind) ==
  /\ queue # <<>> /\ Head(queue) = c /\ request[c].kind = kind
  /\ queue' = Tail(queue)

(* resolve_local and domain_info: from the registry and the local cache.    *)
DispatchLocal(c) ==
  /\ \/ Command(c, "ResolveLocal")
     \/ Command(c, "DomainInfo")
  /\ Answer(c, IF ValidName(request[c].name)
                 THEN [kind |-> "dns",
                       data |-> resolve_local(History[height], store, request[c].name)]
                 ELSE [kind |-> "error"])
  /\ UNCHANGED <<height, store, dht, request, waiters, active, dns, now, last>>

(* put_record_hex: verify, publish, cache; when Kademlia refuses to publish *)
(* (its own store is full), nothing is cached either.                       *)
DispatchPut(c) ==
  /\ Command(c, "PutRecord")
  /\ LET r == request[c].record
     IN \/ /\ verify_record_against_chain(History[height], r)
           /\ dht' = dht \cup {<<r.domain, r>>}
           /\ Store(r.domain, r)
           /\ Answer(c, [kind |-> "published"])
        \/ /\ Answer(c, [kind |-> "error"])
           /\ UNCHANGED <<dht, store, last>>
  /\ UNCHANGED <<height, request, waiters, active, dns, now>>

(* start_dht_get: the query is the caller's, and so is the waiter.          *)
DispatchGet(c) ==
  /\ Command(c, "GetRecord")
  /\ IF Len(waiters) >= MAX_DHT_WAITERS \/ ~ValidName(request[c].name)
       THEN /\ Answer(c, [kind |-> "error"])
            /\ UNCHANGED <<waiters, active>>
       ELSE /\ conn' = [conn EXCEPT ![c] = "parked"]
            /\ waiters' = Append(waiters, [id |-> c, domain |-> request[c].name])
            /\ active' = active \cup {c}
            /\ UNCHANGED reply
  /\ UNCHANGED <<height, store, dht, request, dns, now, last>>

Waiting(c) == \E i \in DOMAIN waiters : waiters[i].id = c
WaiterOf(c) == CHOOSE i \in DOMAIN waiters : waiters[i].id = c
Without(c) == RemoveAt(waiters, WaiterOf(c))

(* handle_kad, FoundRecord: the waiter of this query is answered; a later   *)
(* result of the same query finds no waiter.                                *)
KadFound(c, key, r) ==
  /\ c \in active
  /\ IF ~Waiting(c)
       THEN UNCHANGED <<conn, reply, waiters, store, last>>
       ELSE LET w == waiters[WaiterOf(c)]
            IN /\ waiters' = Without(c)
               /\ IF key = w.domain /\ verify_record_against_chain(History[height], r)
                    THEN /\ Store(w.domain, r)
                         /\ Answer(c, [kind |-> "record", record |-> r])
                    ELSE /\ Answer(c, [kind |-> "error"])
                         /\ UNCHANGED <<store, last>>
  /\ UNCHANGED <<height, dht, request, queue, active, dns, now>>

(* handle_kad at the end of a query: NotFound and Timeout answer, the other *)
(* results (QuorumFailed, finished) are not looked at.                      *)
KadEnd(c, looked) ==
  /\ c \in active
  /\ active' = active \ {c}
  /\ IF looked /\ Waiting(c)
       THEN waiters' = Without(c) /\ Answer(c, [kind |-> "error"])
       ELSE UNCHANGED <<waiters, conn, reply>>
  /\ UNCHANGED <<height, store, dht, request, queue, dns, now, last>>

(* Mutant: no timer is armed for the earliest deadline.                     *)
ExpireDue_mut(k) == FALSE

(* The timer of the earliest deadline: the k oldest waiters are due.        *)
ExpireDue(k) == k \in DOMAIN waiters

(* expire_stale_dht_waiters: all that are due are answered.                 *)
Expire(k) ==
  /\ ExpireDue(k)
  /\ LET due == {waiters[i].id : i \in 1..k}
     IN /\ conn' = [c \in Callers |-> IF c \in due THEN "replied" ELSE conn[c]]
        /\ reply' = [c \in Callers |-> IF c \in due THEN [kind |-> "error"] ELSE reply[c]]
  /\ waiters' = SubSeq(waiters, k + 1, Len(waiters))
  /\ UNCHANGED <<height, store, dht, request, queue, active, dns, now, last>>

-----------------------------------------------------------------------------
(* The DNS tasks.                                                           *)

Budget(q) == IF TransportOf[q] = "udp" THEN UDP_PAYLOAD_LIMIT ELSE MAX_TCP_RESPONSE
InService(t) == {q \in DOMAIN Queries : TransportOf[q] = t /\ task[q] \in {"waiting", "walking", "forwarding"}}

(* run_udp waits for a permit; run_tcp drops a connection beyond its cap.   *)
DnsReceive(q) ==
  /\ task[q] = "new"
  /\ \/ /\ TransportOf[q] = "udp" /\ Cardinality(InService("udp")) < MAX_INFLIGHT_UDP
        /\ task' = [task EXCEPT ![q] = "waiting"]
     \/ /\ TransportOf[q] = "tcp"
        /\ task' = [task EXCEPT ![q] =
             IF Cardinality(InService("tcp")) < MAX_TCP_CONNS THEN "waiting" ELSE "done"]
  /\ UNCHANGED <<height, store, dht, rpc, lock, walk, cache, response, upstreams, now, last>>

(* handle_packet_transport runs with the cache lock held from its start to  *)
(* its end, the calls it waits for included.                                *)
Locks(q) == task[q] = "waiting" /\ lock = None
Parsed(q) == parse_query(Queries[q])
KeyOf(q) == <<Parsed(q).name, Parsed(q).type>>

(* The response, with what it was made from: when the cache entry was       *)
(* filled (at), when the search that filled it began (born), the views it   *)
(* saw, and the size of the whole answer set.                               *)
Respond(q, resp, e) ==
  /\ task' = [task EXCEPT ![q] = "done"]
  /\ response' = [response EXCEPT ![q] =
       [rcode |-> resp.rcode, aa |-> resp.aa, tc |-> resp.tc, answers |-> resp.answers,
        served |-> now, at |-> e.at, born |-> e.born, seen |-> e.seen, full |-> e.full]]

DnsSilence(q) ==
  /\ Locks(q) /\ Parsed(q) = None
  /\ task' = [task EXCEPT ![q] = "done"]
  /\ UNCHANGED <<height, store, dht, rpc, lock, walk, cache, response, upstreams, now, last>>

DnsHit(q) ==
  /\ Locks(q) /\ Parsed(q) # None
  /\ LET e == get(cache, KeyOf(q), now)
     IN /\ e # None
        /\ Respond(q, build_response_bounded(e.answers, e.rcode, e.aa, Budget(q)), e)
  /\ UNCHANGED <<height, store, dht, rpc, lock, walk, cache, upstreams, now, last>>

(* A miss: the search, the upstreams, or neither.                           *)
DnsMiss(q) ==
  /\ Locks(q) /\ Parsed(q) # None /\ get(cache, KeyOf(q), now) = None
  /\ \/ /\ scone_candidate(Parsed(q).name)
        /\ task' = [task EXCEPT ![q] = "walking"] /\ lock' = q
        /\ walk' = [keep |-> Len(Parsed(q).name), born |-> now, seen |-> {}]
        /\ UNCHANGED response
     \/ /\ ~scone_candidate(Parsed(q).name) /\ upstreams > 0
        /\ task' = [task EXCEPT ![q] = "forwarding"] /\ lock' = q
        /\ UNCHANGED <<walk, response>>
     \/ /\ ~scone_candidate(Parsed(q).name) /\ upstreams = 0
        /\ Respond(q, build_response_bounded(<<>>, REFUSED, FALSE, Budget(q)),
                   [at |-> now, born |-> now, seen |-> {}, full |-> 0])
        /\ UNCHANGED <<lock, walk>>
  /\ UNCHANGED <<height, store, dht, rpc, cache, upstreams, now, last>>

(* authoritative: ask the relay for the next suffix.                        *)
DnsAsk(q) ==
  /\ lock = q /\ task[q] = "walking"
  /\ request[Resolver] = None
  /\ request' = [request EXCEPT ![Resolver] =
       [kind |-> "ResolveLocal", name |-> Suffix(Parsed(q).name, walk.keep)]]
  /\ UNCHANGED <<height, store, dht, conn, reply, queue, waiters, active, dns, now, last>>

(* The end of handle_packet_transport on the authoritative path: an answer  *)
(* or NXDOMAIN is cached.                                                   *)
Conclude(q, rcode, answers, seen) ==
  LET e == [answers |-> answers, rcode |-> rcode, ttl |-> ANSWER_TTL, aa |-> TRUE,
            at |-> now, born |-> walk.born, seen |-> seen, full |-> Len(answers)]
      ok == rcode \in {NOERROR, NXDOMAIN}
  IN /\ cache' = IF ok THEN put(cache, KeyOf(q), e) ELSE cache
     /\ Respond(q, build_response_bounded(answers, rcode, ok, Budget(q)), e)
     /\ lock' = None
     /\ walk' = [keep |-> 0, born |-> 0, seen |-> {}]

(* The answers to a query from the records of its apex.                     *)
Chosen(q, data) == select_answers(Parsed(q).type, [i \in DOMAIN data |-> encode_rdata(data[i])])

(* The relay's answer for one suffix: registered ends the search, not       *)
(* registered goes on with the parent, a failure ends it.                   *)
DnsAnswered(q) ==
  /\ lock = q /\ task[q] = "walking"
  /\ conn[Resolver] \in {"closed", "shed"}
  /\ conn' = [conn EXCEPT ![Resolver] = "new"]
  /\ request' = [request EXCEPT ![Resolver] = None]
  /\ reply' = [reply EXCEPT ![Resolver] = None]
  /\ LET r    == IF reply[Resolver] = None THEN [kind |-> "error"] ELSE reply[Resolver]
         seen == walk.seen \cup {<<request[Resolver].name, r.data>>}
     IN \/ /\ r.kind = "error"
           /\ Conclude(q, SERVFAIL, <<>>, {})
        \/ /\ r.kind = "dns" /\ r.data = None /\ walk.keep > 2
           /\ walk' = [walk EXCEPT !.keep = @ - 1, !.seen = seen]
           /\ UNCHANGED <<task, lock, cache, response>>
        \/ /\ r.kind = "dns" /\ r.data = None /\ walk.keep = 2
           /\ Conclude(q, NXDOMAIN, <<>>, seen)
        \/ /\ r.kind = "dns" /\ r.data # None
           /\ \E answers \in {Chosen(q, r.data)} : Conclude(q, NOERROR, answers, seen)
  /\ UNCHANGED <<height, store, dht, queue, waiters, active, upstreams, now, last>>

(* forward: a validated reply is passed on, and cached if it can be read.   *)
DnsForward(q) ==
  /\ lock = q /\ task[q] = "forwarding"
  /\ lock' = None
  /\ \E outcomes \in [1..upstreams -> Replies] :
       LET r == forward(outcomes)
           x == IF r = None THEN None ELSE Extracted(r)
           e == [at |-> now, born |-> now, seen |-> {}, full |-> IF r = None THEN 0 ELSE r.full]
       IN IF r = None
            THEN /\ Respond(q, build_response_bounded(<<>>, SERVFAIL, FALSE, Budget(q)), e)
                 /\ UNCHANGED cache
            ELSE /\ Respond(q, Relayed(r, Budget(q)), e)
                 /\ cache' = IF x = None THEN cache
                             ELSE put(cache, KeyOf(q),
                                      [answers |-> x.answers, rcode |-> r.rcode, ttl |-> x.ttl,
                                       aa |-> FALSE, at |-> now, born |-> now, seen |-> {},
                                       full |-> r.full])
  /\ UNCHANGED <<height, store, dht, rpc, walk, upstreams, now, last>>

-----------------------------------------------------------------------------

Core ==
  \E c \in Callers : DispatchLocal(c) \/ DispatchPut(c) \/ DispatchGet(c)

Serve(c) == Accept(c) \/ Read(c) \/ ReadTimeout(c) \/ Finish(c)

DnsStep(q) ==
  \/ DnsReceive(q)
  \/ DnsSilence(q)
  \/ DnsHit(q)
  \/ DnsMiss(q)
  \/ DnsAsk(q)
  \/ DnsAnswered(q)
  \/ DnsForward(q)

Next ==
  \/ NextBlock
  \/ Tick
  \/ \E r \in PeerRecords : PeerRecord(r)
  \/ \E c \in Callers : Accept(c)
  \/ \E c \in Callers : Read(c)
  \/ \E c \in Callers : ReadTimeout(c)
  \/ \E c \in Callers : Finish(c)
  \/ \E c \in Callers : DispatchLocal(c)
  \/ \E c \in Callers : DispatchPut(c)
  \/ \E c \in Callers : DispatchGet(c)
  \/ \E c \in Clients : \E x \in dht : KadFound(c, x[1], x[2])
  \/ \E c \in Clients, looked \in BOOLEAN : KadEnd(c, looked)
  \/ \E k \in DOMAIN waiters : Expire(k)
  \/ \E q \in DOMAIN Queries : DnsReceive(q)
  \/ \E q \in DOMAIN Queries : DnsSilence(q)
  \/ \E q \in DOMAIN Queries : DnsHit(q)
  \/ \E q \in DOMAIN Queries : DnsMiss(q)
  \/ \E q \in DOMAIN Queries : DnsAsk(q)
  \/ \E q \in DOMAIN Queries : DnsAnswered(q)
  \/ \E q \in DOMAIN Queries : DnsForward(q)

Spec == Init /\ [][Next]_vars

(* The relay task serves its queue and its timers, connections make         *)
(* progress or time out, and every DNS task runs.  Nothing is assumed of    *)
(* the DHT.                                                                 *)
FairSpec ==
  /\ Spec
  /\ WF_vars(Core)
  /\ WF_vars(\E k \in DOMAIN waiters : Expire(k))
  /\ WF_vars(\E c \in Callers : Serve(c))
  /\ WF_vars(\E q \in DOMAIN Queries : DnsStep(q))

-----------------------------------------------------------------------------

(* rpc_dispatch.rs: every connection, lookup and query comes to an end,     *)
(* whatever the DHT does: a parked lookup is answered by its result or by   *)
(* its deadline, its slot is freed, and no DNS task keeps the lock.         *)
EveryoneAnswered ==
  <>[](Held = {} /\ waiters = <<>> /\ lock = None /\ InService("udp") = {} /\ InService("tcp") = {})

(* rpc_dispatch.rs handle_kad, domain_info, resolve_local: an answer that   *)
(* carries a record carries the one the requested domain commits to on the  *)
(* chain at that moment, through lookups in flight, cached records that     *)
(* went stale, and domains that changed hands.                              *)
AnswersVerified ==
  [][\A c \in Callers :
       reply'[c] # reply[c] /\ reply'[c] # None =>
         LET reg == History[height][request[c].name]
         IN /\ reply'[c].kind = "record" =>
                 /\ reply'[c].record.domain = request[c].name
                 /\ reg # None /\ reg.hash = record_hash(reply'[c].record)
            /\ reply'[c].kind = "dns" /\ reply'[c].data \notin {None, <<>>} =>
                 /\ reg # None /\ reg.hash # None /\ reg.hash[3] = reply'[c].data]_vars

(* dns.rs authoritative and the cache: for a name that the relay resolves   *)
(* itself, an answer with the AA bit is what the suffix search must give    *)
(* for views that were all current after the search began, and it is served *)
(* for at most ANSWER_TTL after it was found.  (For the other names the bit *)
(* is the upstream's.)                                                      *)
AnswersFresh ==
  \A q \in {x \in DOMAIN Queries : /\ response[x] # None /\ response[x].aa
                                   /\ scone_candidate(Parsed(x).name)} :
    LET r     == response[q]
        name  == Parsed(q).name
        views == {x[2] : x \in r.seen} \ {None}
    IN /\ r.served - r.at < ANSWER_TTL
       /\ \A x \in r.seen : x[1] \in Domains => last[x[1]][x[2]] >= r.born
       /\ {Len(x[1]) : x \in r.seen} = (Len(name) - Cardinality(r.seen) + 1)..Len(name)
       /\ \A x \in r.seen : x[1] = Suffix(name, Len(x[1]))
       /\ IF r.rcode = NXDOMAIN
            THEN views = {} /\ Cardinality(r.seen) = Len(name) - 1
            ELSE \E v \in views : IsPrefix(r.answers, Chosen(q, v))

(* dns.rs:283 "the AA bit is set only on answers produced by the            *)
(* authoritative path ...; fallback answers ... are never marked            *)
(* authoritative".  A reply that is forwarded as it is keeps the bit of the *)
(* upstream.                                                                *)
AaIsOurs ==
  \A q \in DOMAIN Queries :
    response[q] # None /\ response[q].aa => scone_candidate(Parsed(q).name)

(* rpc_dispatch.rs:268 "SignedDnsRecord of domain B stored under domain A's *)
(* key ... land in the else branches": a lookup that succeeds returns a     *)
(* record of the requested domain.  The code compares the key of the DHT    *)
(* entry, not the domain inside the record.                                 *)
OwnRecord ==
  \A c \in Clients :
    reply[c] # None /\ reply[c].kind = "record" => reply[c].record.domain = request[c].name

(* dns.rs build_response_bounded: a response without the TC bit carries the *)
(* whole answer set, fresh or cached, on either transport.                  *)
NoSilentCut ==
  \A q \in DOMAIN Queries :
    response[q] # None /\ ~response[q].tc /\ response[q].rcode # SERVFAIL =>
      Len(response[q].answers) = response[q].full
=============================================================================
