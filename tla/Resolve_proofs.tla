---------------------------- MODULE Resolve_proofs ----------------------------
(***************************************************************************)
(* For any number of clients, queries, records and registries: a response  *)
(* without the TC bit is whole, an authoritative one is what a search gave *)
(* whose views were all current after it began, and a record that is       *)
(* returned is the one that the chain commits to.                          *)
(***************************************************************************)
EXTENDS Resolve, FiniteSetTheorems, SequenceTheorems, WellFoundedInduction, TLAPS

(* Every record of the DHT is under the key of its domain.  The relay files *)
(* records so; the run ResolveForeign is about peers that do not.           *)
WellFiled == \A x \in InitDht : x[1] = x[2].domain

(* No upstream cuts its own replies; the run ResolveCut is about one that   *)
(* does.                                                                    *)
WholeReplies == \A r \in Replies : r # None => r.full = Len(r.answers)

-----------------------------------------------------------------------------
(* Extrema.                                                                 *)

(* A set of numbers has a least one, ...                                    *)
LEMMA LeastExists ==
  ASSUME NEW T \in SUBSET Nat, T # {}
  PROVE  \E x \in T : \A y \in T : x <= y
<1> DEFINE R == OpToRel(<, Nat)
<1>1. IsWellFoundedOn(R, Nat)
  BY NatLessThanWellFounded DEF OpToRel
<1>2. PICK x \in T : \A y \in T : ~ (<<y, x>> \in R)
  <2> HIDE DEF R
  <2> QED BY <1>1, WFMin
<1>3. \A y \in T : ~ (y < x)
  BY <1>2 DEF OpToRel
<1> QED
  BY <1>3

(* ... the one that Min names, ...                                          *)
LEMMA MinMember ==
  ASSUME NEW T \in SUBSET Nat, T # {}
  PROVE  Min(T) \in T
BY LeastExists DEF Min

(* ... and, when it is bounded, a greatest one.                             *)
LEMMA MaxMember ==
  ASSUME NEW n \in Nat, NEW T \in SUBSET (0..n), T # {}
  PROVE  Max(T) \in T
<1> DEFINE U == {n - x : x \in T}
<1>1. U \in SUBSET Nat /\ U # {}
  <2>1. \A x \in T : x \in Nat /\ n - x \in Nat
    OBVIOUS
  <2> QED BY <2>1
<1>2. PICK u \in U : \A w \in U : u <= w
  <2> HIDE DEF U
  <2> QED BY <1>1, LeastExists
<1>3. PICK x \in T : u = n - x
  OBVIOUS
<1>4. \A y \in T : x >= y
  <2> SUFFICES ASSUME NEW y \in T PROVE x >= y
    OBVIOUS
  <2>1. n - y \in U
    OBVIOUS
  <2> HIDE DEF U
  <2>2. n - x <= n - y
    BY <1>2, <1>3, <2>1
  <2>3. x \in Nat /\ y \in Nat
    OBVIOUS
  <2> QED BY <2>2, <2>3
<1> QED
  BY <1>4 DEF Max

-----------------------------------------------------------------------------
(* Packets.                                                                 *)

(* A sequence, of whatever.                                                 *)
IsSeq(s) == s \in Seq({s[i] : i \in 1..Len(s)})

(* The first elements of a sequence are a prefix of it.                     *)
LEMMA CutIs ==
  ASSUME NEW s, IsSeq(s), NEW n \in 0..Len(s)
  PROVE  Len(SubSeq(s, 1, n)) = n /\ IsPrefix(SubSeq(s, 1, n), s)
<1> DEFINE T == {s[i] : i \in 1..Len(s)}
<1> DEFINE t == SubSeq(s, 1, n)
<1>0. s \in Seq(T) /\ Len(s) \in Nat
  BY DEF IsSeq
<1> HIDE DEF T
<1>1. t \in Seq(T) /\ Len(t) = n /\ \A i \in 1..n : t[i] = s[i]
  <2>1. \A i \in 1..n : s[i] \in T
    BY <1>0
  <2> QED
    BY <1>0, <2>1, SubSeqProperties
<1> HIDE DEF t
<1>2. SubSeq(t, 1, n) = t
  BY <1>1, <1>0
<1> QED
  BY <1>0, <1>1, <1>2 DEF IsPrefix, t

(* An empty response has the size of the header.                            *)
LEMMA HeaderSize == SizeOf(<<>>) = HEADER
<1> DEFINE It(g) == g = [s \in SUBSET {} |->
                          IF s = {} THEN HEADER ELSE g[s \ {Max(s)}] + <<>>[Max(s)].size]
<1>1. It([s \in SUBSET {} |-> HEADER])
  OBVIOUS
<1>2. It(CHOOSE g : It(g))
  BY <1>1
<1>3. DOMAIN <<>> = {}
  OBVIOUS
<1>4. SizeOf(<<>>) = (CHOOSE g : It(g))[{}]
  BY <1>3 DEF SizeOf, FoldLeft, MapThenFoldSet
<1> QED
  BY <1>2, <1>4

(* A response is a beginning of the answers, and says so when it is not all *)
(* of them.                                                                 *)
LEMMA BuildIs ==
  ASSUME NEW answers, IsSeq(answers), NEW rcode, NEW aa, NEW budget \in Nat, budget >= HEADER
  PROVE  \E n \in 0..Len(answers) :
           build_response_bounded(answers, rcode, aa, budget)
             = [rcode |-> rcode, aa |-> aa, tc |-> n < Len(answers), answers |-> SubSeq(answers, 1, n)]
<1> DEFINE fit == {k \in 0..Len(answers) : SizeOf(SubSeq(answers, 1, k)) <= budget}
<1>1. Len(answers) \in Nat
  BY DEF IsSeq
<1>2. 0 \in fit
  <2>1. SubSeq(answers, 1, 0) = <<>>
    OBVIOUS
  <2>2. SizeOf(SubSeq(answers, 1, 0)) = HEADER
    BY <2>1, HeaderSize
  <2> QED
    BY <1>1, <2>2
<1>3. Max(fit) \in fit
  <2>1. fit \in SUBSET (0..Len(answers)) /\ fit # {}
    BY <1>2
  <2> HIDE DEF fit
  <2> QED
    BY <1>1, <2>1, MaxMember
<1> QED
  BY <1>3 DEF build_response_bounded

(* Both budgets have room for a header.                                     *)
LEMMA BudgetIs == \A q : Budget(q) \in Nat /\ Budget(q) >= HEADER
BY DnsConstants DEF Budget

(* The answers that are chosen from a set of records.                       *)
LEMMA ChosenIs ==
  ASSUME NEW q, NEW v \in Views, v # None
  PROVE  IsSeq(Chosen(q, v))
<1> DEFINE rdata == [i \in DOMAIN v |-> encode_rdata(v[i])]
<1> DEFINE kept == {i \in DOMAIN rdata : AnswersTo(Parsed(q).type, rdata[i])}
<1>1. IsFiniteSet(DOMAIN v)
  <2>1. CASE v = <<>>
    BY <2>1, FS_EmptySet
  <2>2. CASE v # <<>>
    BY <2>2, ResolveConstants DEF Views
  <2> QED BY <2>1, <2>2
<1>2. Cardinality(kept) \in Nat
  BY <1>1, FS_Subset, FS_CardinalityType
<1>3. \E n \in Nat : DOMAIN Chosen(q, v) = 1..n /\ Chosen(q, v) = [j \in 1..n |-> Chosen(q, v)[j]]
  <2>1. /\ DOMAIN Chosen(q, v) = 1..Cardinality(kept)
        /\ Chosen(q, v) = [j \in 1..Cardinality(kept) |-> Chosen(q, v)[j]]
    BY DEF Chosen, select_answers
  <2> HIDE DEF kept
  <2> QED BY <1>2, <2>1
<1> QED
  BY <1>3 DEF IsSeq

-----------------------------------------------------------------------------
(* Searches.                                                                *)

(* What a search has seen that ended at the last k labels of a name with v: *)
(* every longer suffix was not registered.                                  *)
SearchOf(name, k, v) == {<<Suffix(name, j), IF j = k THEN v ELSE None>> : j \in k..Len(name)}

(* A suffix has the length it was cut to.                                   *)
LEMMA SuffixIs ==
  ASSUME NEW name \in Seq(STRING), NEW k \in 1..Len(name)
  PROVE  Len(Suffix(name, k)) = k
<1>0. Len(name) \in Nat
  OBVIOUS
<1>1. \A i \in (Len(name) - k + 1)..Len(name) : name[i] \in STRING
  BY <1>0
<1>2. Len(name) - k + 1 \in Int /\ Len(name) - k + 1 <= Len(name)
  BY <1>0
<1>3. Len(Suffix(name, k)) = Len(name) - (Len(name) - k + 1) + 1
  BY <1>0, <1>1, <1>2, SubSeqProperties DEF Suffix
<1> QED
  BY <1>0, <1>3

(* S holds one view per suffix of name down to k labels, and no view but v. *)
SearchShape(S, name, k, v) ==
  /\ Cardinality(S) = Len(name) - k + 1
  /\ {Len(x[1]) : x \in S} = k..Len(name)
  /\ \A x \in S : x[1] = Suffix(name, Len(x[1]))
  /\ {x[2] : x \in S} \ {None} = {v} \ {None}

(* A search saw one view for each length from the end of the name.          *)
LEMMA SearchIs ==
  ASSUME NEW name \in Seq(STRING), NEW k \in 2..Len(name), NEW v
  PROVE  SearchShape(SearchOf(name, k, v), name, k, v)
<1> DEFINE S == SearchOf(name, k, v)
<1> DEFINE At(j) == <<Suffix(name, j), IF j = k THEN v ELSE None>>
<1>0. Len(name) \in Nat
  OBVIOUS
<1>1. \A j \in k..Len(name) : j \in 1..Len(name) /\ Len(Suffix(name, j)) = j
  BY <1>0, SuffixIs
<1>2. S = {At(j) : j \in k..Len(name)}
  BY DEF SearchOf
<1>3. \A j \in k..Len(name) : At(j)[1] = Suffix(name, j) /\ Len(At(j)[1]) = j
  BY <1>1
<1>4. \A j \in k..Len(name) : At(j)[2] = IF j = k THEN v ELSE None
  OBVIOUS
<1>5. k \in k..Len(name)
  BY <1>0
<1> HIDE DEF At, S
<1>6. Cardinality(S) = Len(name) - k + 1
  <2> DEFINE f == [j \in k..Len(name) |-> At(j)]
  <2>1. f \in [k..Len(name) -> S]
    BY <1>2
  <2>2. \A i, j \in k..Len(name) : f[i] = f[j] => i = j
    BY <1>3
  <2>3. \A x \in S : \E j \in k..Len(name) : f[j] = x
    BY <1>2
  <2> HIDE DEF f
  <2>4. ExistsBijection(k..Len(name), S)
    BY <2>1, <2>2, <2>3 DEF ExistsBijection, Bijection, Injection, Surjection, IsInjective
  <2>5. k \in Int /\ Len(name) \in Int /\ ~ (k > Len(name))
    BY <1>0
  <2>6. IsFiniteSet(k..Len(name)) /\ Cardinality(k..Len(name)) = Len(name) - k + 1
    BY <2>5, FS_Interval
  <2> QED
    BY <2>4, <2>6, FS_Bijection
<1>7. {Len(x[1]) : x \in S} = k..Len(name)
  BY <1>2, <1>3
<1>8. \A x \in S : x[1] = Suffix(name, Len(x[1]))
  BY <1>2, <1>3
<1>9. {x[2] : x \in S} \ {None} = {v} \ {None}
  BY <1>2, <1>4, <1>5
<1> QED
  BY <1>6, <1>7, <1>8, <1>9, Zenon DEF S, SearchShape

-----------------------------------------------------------------------------
(* The inductive invariant.                                                 *)

(* The caches hold records that there are, each under its domain.           *)
RecordsOK ==
  /\ store = [d \in Domains |-> store[d]]
  /\ \A d \in Domains : store[d] # None =>
       store[d] \in Records /\ (WellFiled => store[d].domain = d)
  /\ \A x \in dht : x[2] \in Records /\ (WellFiled => x[1] = x[2].domain)

(* What is kept of a lookup while the DHT works on it.                      *)
Parked == {[id |-> c, domain |-> RequestOf[c].name] :
             c \in {x \in Clients : RequestOf[x].kind = "GetRecord"}}

(* Clients keep their requests, and a parked lookup is for the name its     *)
(* client asked for.                                                        *)
SlotsOK ==
  /\ conn = [c \in Callers |-> conn[c]]
  /\ request = [c \in Callers |-> request[c]]
  /\ reply = [c \in Callers |-> reply[c]]
  /\ \A c \in Clients : request[c] = RequestOf[c]
  /\ waiters \in Seq(Parked)

(* The resolver is in the queue at most once, and only while it asks.       *)
QueueOK ==
  /\ queue \in Seq(Callers)
  /\ \A i \in 1..Len(queue) : queue[i] = Resolver =>
       conn[Resolver] = "queued" /\ \A j \in 1..Len(queue) : queue[j] = Resolver => j = i
  /\ request[Resolver] = None => conn[Resolver] = "new" /\ reply[Resolver] = None

(* The ghost: the current view of a domain was current now.                 *)
GhostOK ==
  /\ now \in Nat
  /\ last = [d \in Domains |-> [v \in Views |-> last[d][v]]]
  /\ \A d \in Domains :
       /\ \A v \in Views : last[d][v] \in Int /\ last[d][v] <= now
       /\ last[d][resolve_local(History[height], store, d)] = now

(* A view of a name that was current at time t or later.                    *)
CurrentSince(name, v, t) == name \in Domains => last[name][v] >= t

(* The tasks, and the search of the one that holds the lock: the longer     *)
(* suffixes were not registered, each at some time since the search began.  *)
WalkOK ==
  /\ task = [q \in DOMAIN Queries |-> task[q]]
  /\ upstreams \in Nat
  /\ lock # None => lock \in DOMAIN Queries /\ task[lock] \in {"walking", "forwarding"} /\ Parsed(lock) # None
  /\ lock # None /\ task[lock] = "forwarding" => ~scone_candidate(Parsed(lock).name)
  /\ lock # None /\ task[lock] = "walking" =>
       LET name == Parsed(lock).name
       IN /\ walk = [keep |-> walk.keep, born |-> walk.born, seen |-> walk.seen]
          /\ walk.keep \in 2..Len(name)
          /\ walk.born \in Nat /\ walk.born <= now
          /\ walk.seen = {<<Suffix(name, j), None>> : j \in (walk.keep + 1)..Len(name)}
          /\ \A j \in (walk.keep + 1)..Len(name) : CurrentSince(Suffix(name, j), None, walk.born)

(* The resolver asks for the next suffix of that search, and an answer it   *)
(* has is a view of that suffix since the search began.                     *)
AskOK ==
  request[Resolver] # None =>
    /\ lock # None /\ task[lock] = "walking"
    /\ request[Resolver] = [kind |-> "ResolveLocal", name |-> Suffix(Parsed(lock).name, walk.keep)]
    /\ reply[Resolver] # None /\ reply[Resolver].kind = "dns" =>
         /\ reply[Resolver].data \in Views
         /\ CurrentSince(request[Resolver].name, reply[Resolver].data, walk.born)

(* x, an entry or a response, is from a search of q's name that ended at k  *)
(* labels with v.                                                           *)
Searched(q, x, k, v) ==
  LET name == Parsed(q).name
  IN /\ k \in 2..Len(name) /\ v \in Views
     /\ x.seen = SearchOf(name, k, v)
     /\ x.born \in Nat
     /\ \A j \in k..Len(name) : CurrentSince(Suffix(name, j), IF j = k THEN v ELSE None, x.born)
     /\ x.rcode = NXDOMAIN => k = 2 /\ v = None
     /\ x.rcode # NXDOMAIN => v # None

EntryOK(q, e) ==
  /\ IsSeq(e.answers)
  /\ e.at \in Nat
  /\ WholeReplies => e.full = Len(e.answers)
  /\ e.aa => /\ e.ttl = ANSWER_TTL
             /\ \E k \in 2..Len(Parsed(q).name), v \in Views :
                  Searched(q, e, k, v) /\ (e.rcode # NXDOMAIN => e.answers = Chosen(q, v))

CacheOK ==
  \A q \in DOMAIN Queries :
    Parsed(q) # None /\ KeyOf(q) \in DOMAIN cache.entries => EntryOK(q, cache.entries[KeyOf(q)])

ResponseOK(q, r) ==
  /\ WholeReplies /\ ~r.tc /\ r.rcode # SERVFAIL => Len(r.answers) = r.full
  /\ r.aa /\ scone_candidate(Parsed(q).name) =>
       /\ Parsed(q) # None
       /\ r.served - r.at < ANSWER_TTL
       /\ \E k \in 2..Len(Parsed(q).name), v \in Views :
            Searched(q, r, k, v) /\ (r.rcode # NXDOMAIN => IsPrefix(r.answers, Chosen(q, v)))

ResponsesOK ==
  /\ response = [q \in DOMAIN Queries |-> response[q]]
  /\ \A q \in DOMAIN Queries : response[q] # None => ResponseOK(q, response[q])

IInv == RecordsOK /\ SlotsOK /\ QueueOK /\ GhostOK /\ WalkOK /\ AskOK /\ CacheOK /\ ResponsesOK

(* It holds at the start.                                                   *)
LEMMA InitOK == Init => IInv
<1> SUFFICES ASSUME Init PROVE IInv
  OBVIOUS
<1>1. RecordsOK
  BY DEF Init, RecordsOK, Records, WellFiled
<1>2. SlotsOK
  <2>1. Resolver \notin Clients
    BY ResolveConstants
  <2> QED
    BY <2>1 DEF Init, SlotsOK, Callers
<1>3. QueueOK
  BY DEF Init, QueueOK, Callers
<1>4. GhostOK
  <2>1. \A d \in Domains : resolve_local(History[1], store, d) \in Views
    BY DEF Init, resolve_local, LocalData, Views
  <2>2. /\ now = 0 /\ height = 1
        /\ last = [d \in Domains |-> [v \in Views |->
                     IF v = resolve_local(History[1], store, d) THEN 0 ELSE -1]]
    BY DEF Init
  <2> QED
    BY <2>1, <2>2 DEF GhostOK
<1>5. WalkOK
  BY ResolveConstants DEF Init, WalkOK
<1>6. AskOK
  BY DEF Init, AskOK, Callers
<1>7. CacheOK
  <2>1. DOMAIN cache.entries = {}
    BY DEF Init, NoEntries
  <2> QED
    BY <2>1 DEF CacheOK
<1>8. ResponsesOK
  BY DEF Init, ResponsesOK
<1> QED
  BY <1>1, <1>2, <1>3, <1>4, <1>5, <1>6, <1>7, <1>8 DEF IInv

-----------------------------------------------------------------------------
(* The ghost.                                                               *)

(* A resolution gives one of the views.                                     *)
LEMMA ViewIs ==
  ASSUME NEW reg, NEW st, NEW d, d \in Domains => (st[d] # None => st[d] \in Records)
  PROVE  resolve_local(reg, st, d) \in Views
BY DEF resolve_local, LocalData, Views

(* Views do not become older.                                               *)
Grows == \A d \in Domains, v \in Views : last'[d][v] >= last[d][v]

(* A step that may change what is current.                                  *)
LEMMA SeenIs ==
  ASSUME RecordsOK, GhostOK, RecordsOK', now' \in Nat, now' >= now,
         Seen(History[height'], store', now')
  PROVE  GhostOK' /\ Grows
<1> DEFINE old(d) == resolve_local(History[height], store, d)
<1> DEFINE new(d) == resolve_local(History[height'], store', d)
<1>1. \A d \in Domains : new(d) \in Views
  BY ViewIs DEF RecordsOK
<1>2. last' = [d \in Domains |-> [v \in Views |->
                 IF v \in {old(d), new(d)} THEN now' ELSE last[d][v]]]
  BY DEF Seen
<1>3. \A d \in Domains : new(d) = resolve_local(History[height], store, d)'
  OBVIOUS
<1> HIDE DEF old, new
<1>4. ASSUME NEW d \in Domains, NEW v \in Views
      PROVE  last'[d][v] \in Int /\ last'[d][v] <= now' /\ last'[d][v] >= last[d][v]
  <2>1. last'[d][v] \in {now', last[d][v]}
    BY <1>2
  <2>2. last[d][v] \in Int /\ last[d][v] <= now /\ now \in Nat
    BY DEF GhostOK
  <2> QED
    BY <2>1, <2>2
<1>5. \A d \in Domains : last'[d][new(d)] = now'
  BY <1>1, <1>2
<1>6. last' = [d \in Domains |-> [v \in Views |-> last'[d][v]]]
  BY <1>2
<1> QED
  BY <1>3, <1>4, <1>5, <1>6 DEF GhostOK, Grows

(* A step that does not.                                                    *)
LEMMA GhostKept ==
  ASSUME GhostOK, UNCHANGED <<height, store, now, last>>
  PROVE  GhostOK' /\ Grows
<1>1. GhostOK'
  BY DEF GhostOK
<1>2. \A d \in Domains, v \in Views : last[d][v] \in Int /\ last'[d][v] = last[d][v]
  BY DEF GhostOK
<1> QED
  BY <1>1, <1>2 DEF Grows

(* What was current since some time still was.                              *)
LEMMA SinceKept ==
  ASSUME GhostOK, GhostOK', Grows, NEW name, NEW v \in Views, NEW t \in Nat, CurrentSince(name, v, t)
  PROVE  CurrentSince(name, v, t)'
<1> SUFFICES ASSUME name \in Domains PROVE last'[name][v] >= t
  BY DEF CurrentSince
<1>1. last[name][v] \in Int /\ last'[name][v] \in Int
  BY DEF GhostOK
<1>2. last'[name][v] >= last[name][v] /\ last[name][v] >= t
  BY DEF Grows, CurrentSince
<1> QED
  BY <1>1, <1>2

(* So a search stays one.                                                   *)
LEMMA SearchedKept ==
  ASSUME GhostOK, GhostOK', Grows, NEW q, NEW x, NEW k, NEW v, Searched(q, x, k, v)
  PROVE  Searched(q, x, k, v)'
<1> DEFINE name == Parsed(q).name
<1>1. x.born \in Nat /\ v \in Views /\ None \in Views
  BY DEF Searched, Views
<1>2. \A j \in k..Len(name) : CurrentSince(Suffix(name, j), IF j = k THEN v ELSE None, x.born)'
  <2> SUFFICES ASSUME NEW j \in k..Len(name)
               PROVE  CurrentSince(Suffix(name, j), IF j = k THEN v ELSE None, x.born)'
    OBVIOUS
  <2>1. CurrentSince(Suffix(name, j), IF j = k THEN v ELSE None, x.born)
    BY DEF Searched
  <2>2. (IF j = k THEN v ELSE None) \in Views
    BY <1>1
  <2> QED
    BY <1>1, <2>1, <2>2, SinceKept
<1> QED
  BY <1>2 DEF Searched

(* An entry stays good.                                                     *)
LEMMA EntryKept ==
  ASSUME GhostOK, GhostOK', Grows, NEW q, NEW e, EntryOK(q, e)
  PROVE  EntryOK(q, e)'
BY SearchedKept DEF EntryOK

(* And a response.                                                          *)
LEMMA ResponseKept ==
  ASSUME GhostOK, GhostOK', Grows, NEW q, NEW r, ResponseOK(q, r)
  PROVE  ResponseOK(q, r)'
BY SearchedKept DEF ResponseOK

(* The cache and the responses that are there stay good.                    *)
LEMMA CacheKept ==
  ASSUME GhostOK, GhostOK', Grows, CacheOK, cache' = cache
  PROVE  CacheOK'
<1> SUFFICES ASSUME NEW q \in DOMAIN Queries, Parsed(q) # None, KeyOf(q) \in DOMAIN cache.entries
             PROVE  EntryOK(q, cache.entries[KeyOf(q)])'
  BY DEF CacheOK, KeyOf, Parsed
<1> DEFINE e == cache.entries[KeyOf(q)]
<1>1. EntryOK(q, e)
  BY DEF CacheOK
<1>2. e' = e
  BY DEF KeyOf, Parsed
<1> HIDE DEF e
<1> QED
  BY <1>1, <1>2, EntryKept DEF e

(* The responses too.                                                       *)
LEMMA ResponsesKept ==
  ASSUME GhostOK, GhostOK', Grows, ResponsesOK, response' = response
  PROVE  ResponsesOK'
<1>1. ASSUME NEW q \in DOMAIN Queries, response[q] # None
      PROVE  ResponseOK(q, response[q])'
  <2>1. ResponseOK(q, response[q])
    BY <1>1 DEF ResponsesOK
  <2> QED
    BY <2>1, ResponseKept
<1> QED
  BY <1>1 DEF ResponsesOK

(* The DNS tasks are not affected by a step that is not theirs.             *)
LEMMA DnsKept ==
  ASSUME IInv, GhostOK', Grows, now' >= now, UNCHANGED dns
  PROVE  WalkOK' /\ CacheOK' /\ ResponsesOK'
<1>0. GhostOK /\ WalkOK /\ CacheOK /\ ResponsesOK /\ now \in Nat /\ now' \in Nat
  BY DEF IInv, GhostOK
<1>1. UNCHANGED <<task, lock, walk, cache, response, upstreams>>
  BY DEF dns
<1>2. WalkOK'
  <2>1. ASSUME lock # None, task[lock] = "walking",
               NEW j \in (walk.keep + 1)..Len(Parsed(lock).name)
        PROVE  CurrentSince(Suffix(Parsed(lock).name, j), None, walk.born)'
    <3>1. /\ CurrentSince(Suffix(Parsed(lock).name, j), None, walk.born)
          /\ walk.born \in Nat /\ None \in Views
      BY <1>0, <2>1 DEF WalkOK, Views
    <3>2. CurrentSince(Suffix(Parsed(lock).name, j), None, walk.born)
            => last'[Suffix(Parsed(lock).name, j)][None] >= walk.born \/ Suffix(Parsed(lock).name, j) \notin Domains
      <4>1. ASSUME NEW name, CurrentSince(name, None, walk.born)
            PROVE  last'[name][None] >= walk.born \/ name \notin Domains
        <5>1. CASE name \in Domains
          <6>1. last[name][None] \in Int /\ last'[name][None] \in Int
            BY <1>0, <3>1, <5>1 DEF GhostOK
          <6>2. last'[name][None] >= last[name][None] /\ last[name][None] >= walk.born
            BY <3>1, <4>1, <5>1 DEF Grows, CurrentSince
          <6> QED
            BY <3>1, <6>1, <6>2
        <5> QED
          BY <5>1
      <4> QED
        BY <4>1
    <3> QED
      BY <1>1, <3>1, <3>2 DEF CurrentSince
  <2>2. lock # None /\ task[lock] = "walking" => walk.born \in Nat /\ walk.born <= now'
    BY <1>0 DEF WalkOK
  <2> QED
    BY <1>0, <1>1, <2>1, <2>2 DEF WalkOK, Parsed
<1>3. CacheOK' /\ ResponsesOK'
  BY <1>0, <1>1, CacheKept, ResponsesKept
<1> QED
  BY <1>2, <1>3

(* Nor is the resolver's question, whatever others ask.                     *)
LEMMA AskKept ==
  ASSUME IInv, GhostOK', Grows, UNCHANGED dns,
         request'[Resolver] = request[Resolver], reply'[Resolver] = reply[Resolver]
  PROVE  AskOK'
<1>1. UNCHANGED <<task, lock, walk>>
  BY DEF dns
<1>2. AskOK /\ GhostOK /\ WalkOK
  BY DEF IInv
<1> SUFFICES ASSUME request[Resolver] # None PROVE AskOK'
  BY DEF AskOK
<1>3. walk.born \in Nat
  BY <1>2 DEF AskOK, WalkOK
<1>4. ASSUME reply[Resolver] # None, reply[Resolver].kind = "dns"
      PROVE  CurrentSince(request[Resolver].name, reply[Resolver].data, walk.born)'
  <2> DEFINE name == request[Resolver].name
  <2> DEFINE v == reply[Resolver].data
  <2>1. v \in Views /\ CurrentSince(name, v, walk.born)
    BY <1>2, <1>4 DEF AskOK
  <2>2. name \in Domains => last'[name][v] >= walk.born
    <3> SUFFICES ASSUME name \in Domains PROVE last'[name][v] >= walk.born
      OBVIOUS
    <3>1. last[name][v] \in Int /\ last'[name][v] \in Int
      BY <1>2, <2>1 DEF GhostOK
    <3>2. last'[name][v] >= last[name][v] /\ last[name][v] >= walk.born
      BY <2>1 DEF Grows, CurrentSince
    <3> QED
      BY <1>3, <3>1, <3>2
  <2> QED
    BY <1>1, <2>2 DEF CurrentSince
<1> QED
  BY <1>1, <1>2, <1>4 DEF AskOK, Parsed, Views

-----------------------------------------------------------------------------
(* The chain, the clock and the peers.                                      *)

(* Neither touches the RPC.                                                 *)
LEMMA RpcKept ==
  ASSUME IInv, UNCHANGED rpc
  PROVE  SlotsOK' /\ QueueOK'
<1>1. UNCHANGED <<conn, request, reply, queue, waiters>>
  BY DEF rpc
<1> QED
  BY <1>1 DEF IInv, SlotsOK, QueueOK

(* A record that verifies is one of its kind, and so is the cache with it.  *)
LEMMA StoreIs ==
  ASSUME RecordsOK, NEW d, NEW r \in Records, WellFiled => r.domain = d,
         store' = [store EXCEPT ![d] = r], dht' = dht \/ dht' = dht \cup {<<r.domain, r>>}
  PROVE  RecordsOK'
BY DEF RecordsOK

(* The chain moves on.                                                      *)
LEMMA NextBlockOK == IInv /\ NextBlock => IInv'
<1> SUFFICES ASSUME IInv, NextBlock PROVE IInv'
  OBVIOUS
<1>1. RecordsOK'
  BY DEF IInv, NextBlock, RecordsOK
<1>2. now' \in Nat /\ now' >= now /\ Seen(History[height'], store', now')
  BY DEF IInv, GhostOK, NextBlock, Seen
<1>3. GhostOK' /\ Grows
  BY <1>1, <1>2, SeenIs DEF IInv
<1>4. UNCHANGED <<rpc, dns>> /\ UNCHANGED <<request, reply>>
  BY DEF NextBlock, rpc
<1> QED
  BY <1>1, <1>2, <1>3, <1>4, RpcKept, DnsKept, AskKept DEF IInv

(* Time passes.                                                             *)
LEMMA TickOK == IInv /\ Tick => IInv'
<1> SUFFICES ASSUME IInv, Tick PROVE IInv'
  OBVIOUS
<1>1. RecordsOK'
  BY DEF IInv, Tick, RecordsOK
<1>2. now' \in Nat /\ now' >= now /\ Seen(History[height'], store', now')
  BY DEF IInv, GhostOK, Tick, Seen
<1>3. GhostOK' /\ Grows
  BY <1>1, <1>2, SeenIs DEF IInv
<1>4. UNCHANGED <<rpc, dns>> /\ UNCHANGED <<request, reply>>
  BY DEF Tick, rpc
<1> QED
  BY <1>1, <1>2, <1>3, <1>4, RpcKept, DnsKept, AskKept DEF IInv

(* A peer sends a record.                                                   *)
LEMMA PeerRecordOK ==
  ASSUME IInv, NEW r \in PeerRecords, PeerRecord(r)
  PROVE  IInv'
<1>1. RecordsOK'
  <2>1. r \in Records
    BY DEF Records
  <2> QED
    BY <2>1, StoreIs DEF IInv, PeerRecord, Store
<1>2. now' \in Nat /\ now' >= now /\ Seen(History[height'], store', now')
  BY DEF IInv, GhostOK, PeerRecord, Store, Seen
<1>3. GhostOK' /\ Grows
  BY <1>1, <1>2, SeenIs DEF IInv
<1>4. UNCHANGED <<rpc, dns>> /\ UNCHANGED <<request, reply>>
  BY DEF PeerRecord, rpc
<1> QED
  BY <1>1, <1>2, <1>3, <1>4, RpcKept, DnsKept, AskKept DEF IInv

-----------------------------------------------------------------------------
(* The RPC server.                                                          *)

(* A step of the RPC alone leaves the records, the clock and the tasks.     *)
LEMMA OthersKept ==
  ASSUME IInv, UNCHANGED <<height, store, dht, dns, now, last>>
  PROVE  RecordsOK' /\ GhostOK' /\ Grows /\ WalkOK' /\ CacheOK' /\ ResponsesOK'
<1>1. RecordsOK'
  BY DEF IInv, RecordsOK
<1>2. GhostOK' /\ Grows
  BY GhostKept DEF IInv
<1>3. now' >= now
  BY DEF IInv, GhostOK
<1> QED
  BY <1>1, <1>2, <1>3, DnsKept

(* A caller's slot, when it is not in the queue and, if the resolver's, in  *)
(* use.                                                                     *)
LEMMA SlotIs ==
  ASSUME IInv, NEW c \in Callers, NEW x, conn' = [conn EXCEPT ![c] = x],
         conn[c] # "queued", c = Resolver => request[Resolver] # None,
         UNCHANGED <<request, reply, queue, waiters>>
  PROVE  SlotsOK' /\ QueueOK'
<1>1. SlotsOK'
  BY DEF IInv, SlotsOK
<1>2. c # Resolver => conn'[Resolver] = conn[Resolver]
  BY DEF IInv, SlotsOK, Callers
<1>3. QueueOK'
  BY <1>2 DEF IInv, QueueOK
<1> QED
  BY <1>1, <1>3

(* A connection is taken or shed.                                           *)
LEMMA AcceptOK ==
  ASSUME IInv, NEW c \in Callers, Accept(c)
  PROVE  IInv'
<1>1. UNCHANGED <<height, store, dht, request, reply, queue, waiters, dns, now, last>>
  BY DEF Accept
<1>2. SlotsOK' /\ QueueOK'
  BY SlotIs DEF Accept
<1> QED
  BY <1>1, <1>2, OthersKept, AskKept DEF IInv

(* A silent client loses its slot.                                          *)
LEMMA ReadTimeoutOK ==
  ASSUME IInv, NEW c \in Callers, ReadTimeout(c)
  PROVE  IInv'
<1>1. UNCHANGED <<height, store, dht, request, reply, queue, waiters, dns, now, last>>
  BY DEF ReadTimeout
<1>2. SlotsOK' /\ QueueOK'
  BY SlotIs DEF ReadTimeout
<1> QED
  BY <1>1, <1>2, OthersKept, AskKept DEF IInv

(* A reply is written.                                                      *)
LEMMA FinishOK ==
  ASSUME IInv, NEW c \in Callers, Finish(c)
  PROVE  IInv'
<1>1. UNCHANGED <<height, store, dht, request, reply, queue, waiters, dns, now, last>>
  BY DEF Finish
<1>2. conn[c] = "replied" /\ conn' = [conn EXCEPT ![c] = "closed"]
  BY DEF Finish
<1>3. c = Resolver => request[Resolver] # None
  BY <1>2 DEF IInv, QueueOK
<1>4. SlotsOK' /\ QueueOK'
  BY <1>1, <1>2, <1>3, SlotIs
<1> QED
  BY <1>1, <1>4, OthersKept, AskKept DEF IInv

(* A request is read.                                                       *)
LEMMA ReadOK ==
  ASSUME IInv, NEW c \in Callers, Read(c)
  PROVE  IInv'
<1>1. UNCHANGED <<height, store, dht, request, waiters, dns, now, last>> /\ conn[c] = "reading"
  BY DEF Read
<1>2. c = Resolver => request[Resolver] # None /\ request[Resolver].kind = "ResolveLocal"
  BY <1>1 DEF IInv, QueueOK, AskOK
<1>3. CASE request[c].kind = "malformed"
  <2>1. /\ conn' = [conn EXCEPT ![c] = "replied"]
        /\ reply' = [reply EXCEPT ![c] = [kind |-> "error"]]
        /\ queue' = queue /\ c # Resolver
    BY <1>2, <1>3 DEF Read
  <2>2. SlotsOK'
    BY <1>1, <2>1 DEF IInv, SlotsOK
  <2>3. reply'[Resolver] = reply[Resolver] /\ conn'[Resolver] = conn[Resolver]
    BY <2>1 DEF IInv, SlotsOK, Callers
  <2>4. QueueOK'
    BY <1>1, <2>1, <2>3 DEF IInv, QueueOK
  <2> QED
    BY <1>1, <2>2, <2>3, <2>4, OthersKept, AskKept DEF IInv
<1>4. CASE request[c].kind # "malformed"
  <2>1. conn' = [conn EXCEPT ![c] = "queued"] /\ queue' = Append(queue, c) /\ reply' = reply
    BY <1>4 DEF Read
  <2>2. SlotsOK'
    BY <1>1, <2>1 DEF IInv, SlotsOK
  <2>3. /\ queue' \in Seq(Callers) /\ Len(queue') = Len(queue) + 1 /\ Len(queue) \in Nat
        /\ queue'[Len(queue) + 1] = c /\ \A i \in 1..Len(queue) : queue'[i] = queue[i]
    BY <2>1, AppendProperties DEF IInv, QueueOK
  <2>4. c = Resolver => \A i \in 1..Len(queue) : queue[i] # Resolver
    BY <1>1 DEF IInv, QueueOK
  <2>5. conn'[c] = "queued" /\ (c # Resolver => conn'[Resolver] = conn[Resolver])
    BY <2>1 DEF IInv, SlotsOK, Callers
  <2>6. \A i \in 1..Len(queue') : queue'[i] = Resolver =>
          conn'[Resolver] = "queued" /\ \A j \in 1..Len(queue') : queue'[j] = Resolver => j = i
    BY <2>3, <2>4, <2>5 DEF IInv, QueueOK
  <2>7. request'[Resolver] = None => conn'[Resolver] = "new" /\ reply'[Resolver] = None
    BY <1>1, <1>2, <2>1, <2>5 DEF IInv, QueueOK
  <2>8. QueueOK'
    BY <2>3, <2>6, <2>7 DEF QueueOK
  <2> QED
    BY <1>1, <2>1, <2>2, <2>8, OthersKept, AskKept DEF IInv
<1> QED
  BY <1>3, <1>4

-----------------------------------------------------------------------------
(* The relay task.                                                          *)

(* The command that is taken is no longer in the queue; the resolver's is a *)
(* ResolveLocal.                                                            *)
LEMMA CommandIs ==
  ASSUME IInv, NEW c \in Callers, NEW kind, Command(c, kind)
  PROVE  /\ queue' \in Seq(Callers)
         /\ \A i \in 1..Len(queue') : queue'[i] = Resolver =>
              /\ c # Resolver /\ conn[Resolver] = "queued"
              /\ \A j \in 1..Len(queue') : queue'[j] = Resolver => j = i
         /\ c = Resolver => request[Resolver] # None /\ kind = "ResolveLocal"
         /\ request[c].kind = kind
<1>0. queue # <<>> /\ Head(queue) = c /\ queue' = Tail(queue) /\ request[c].kind = kind
  BY DEF Command
<1>1. queue \in Seq(Callers)
  BY DEF IInv, QueueOK
<1>2. /\ queue' \in Seq(Callers) /\ Len(queue') = Len(queue) - 1
      /\ \A i \in 1..Len(queue') : queue'[i] = queue[i + 1]
  BY <1>0, <1>1, HeadTailProperties
<1>3. Len(queue) \in Nat /\ Len(queue) >= 1 /\ queue[1] = c
  BY <1>0, <1>1
<1>4. ASSUME NEW i \in 1..Len(queue'), queue'[i] = Resolver
      PROVE  /\ c # Resolver /\ conn[Resolver] = "queued"
             /\ \A j \in 1..Len(queue') : queue'[j] = Resolver => j = i
  <2>1. i + 1 \in 1..Len(queue) /\ queue[i + 1] = Resolver /\ 1 \in 1..Len(queue) /\ i + 1 # 1
    BY <1>2, <1>3, <1>4
  <2>2. conn[Resolver] = "queued" /\ \A j \in 1..Len(queue) : queue[j] = Resolver => j = i + 1
    BY <2>1 DEF IInv, QueueOK
  <2>3. c # Resolver
    BY <1>3, <2>1, <2>2
  <2>4. ASSUME NEW j \in 1..Len(queue'), queue'[j] = Resolver PROVE j = i
    <3>1. j + 1 \in 1..Len(queue) /\ queue[j + 1] = Resolver
      BY <1>2, <1>3, <2>4
    <3>2. j + 1 = i + 1
      BY <2>2, <3>1
    <3> QED
      BY <3>2
  <2> QED
    BY <2>2, <2>3, <2>4
<1>5. ASSUME c = Resolver PROVE request[Resolver] # None /\ kind = "ResolveLocal"
  <2>1. conn[Resolver] = "queued"
    BY <1>3, <1>5 DEF IInv, QueueOK
  <2>2. request[Resolver] # None
    BY <2>1 DEF IInv, QueueOK
  <2> QED
    BY <1>0, <1>5, <2>2 DEF IInv, AskOK
<1> QED
  BY <1>0, <1>2, <1>4, <1>5

(* A command of a client that is answered or parked.                        *)
LEMMA CommandDone ==
  ASSUME IInv, NEW c \in Callers, NEW kind, Command(c, kind), NEW x, NEW r,
         conn' = [conn EXCEPT ![c] = x], reply' = reply \/ reply' = [reply EXCEPT ![c] = r],
         request' = request, waiters' \in Seq(Parked)
  PROVE  SlotsOK' /\ QueueOK' /\ (c # Resolver => reply'[Resolver] = reply[Resolver])
<1>1. SlotsOK'
  BY DEF IInv, SlotsOK
<1>2. c # Resolver => conn'[Resolver] = conn[Resolver] /\ reply'[Resolver] = reply[Resolver]
  BY DEF IInv, SlotsOK, Callers
<1>3. QueueOK'
  BY <1>2, CommandIs DEF IInv, QueueOK
<1> QED
  BY <1>1, <1>2, <1>3

(* A question about the registry is answered.                               *)
LEMMA DispatchLocalOK ==
  ASSUME IInv, NEW c \in Callers, DispatchLocal(c)
  PROVE  IInv'
<1> DEFINE v == resolve_local(History[height], store, request[c].name)
<1> DEFINE r == IF ValidName(request[c].name) THEN [kind |-> "dns", data |-> v]
                ELSE [kind |-> "error"]
<1>1. PICK kind : Command(c, kind)
  BY DEF DispatchLocal
<1>2. /\ UNCHANGED <<height, store, dht, request, waiters, dns, now, last>>
      /\ conn' = [conn EXCEPT ![c] = "replied"] /\ reply' = [reply EXCEPT ![c] = r]
  BY DEF DispatchLocal, Answer
<1>3. v \in Views
  BY ViewIs DEF IInv, RecordsOK
<1>4. SlotsOK' /\ QueueOK' /\ (c # Resolver => reply'[Resolver] = reply[Resolver])
  <2>1. waiters' \in Seq(Parked)
    BY <1>2 DEF IInv, SlotsOK
  <2> HIDE DEF r
  <2> QED
    BY <1>1, <1>2, <2>1, CommandDone
<1>5. RecordsOK' /\ GhostOK' /\ Grows /\ WalkOK' /\ CacheOK' /\ ResponsesOK'
  BY <1>2, OthersKept
<1>6. CASE c # Resolver
  BY <1>2, <1>4, <1>5, <1>6, AskKept DEF IInv
<1>7. CASE c = Resolver
  <2>1. request[Resolver] # None
    BY <1>1, <1>7, CommandIs
  <2>2. /\ lock # None /\ task[lock] = "walking" /\ walk.born \in Nat /\ walk.born <= now
        /\ request[Resolver] = [kind |-> "ResolveLocal", name |-> Suffix(Parsed(lock).name, walk.keep)]
    BY <2>1 DEF IInv, AskOK, WalkOK
  <2>3. CurrentSince(request[Resolver].name, v, walk.born)
    <3> SUFFICES ASSUME request[c].name \in Domains PROVE last[request[c].name][v] >= walk.born
      BY <1>7 DEF CurrentSince
    <3>1. last[request[c].name][v] = now /\ now \in Nat
      BY DEF IInv, GhostOK
    <3> HIDE DEF v
    <3> QED
      BY <2>2, <3>1
  <2>4. reply'[Resolver] = r
    BY <1>2, <1>7 DEF IInv, SlotsOK, Callers
  <2>5. r.kind = "dns" => r.data = v
    OBVIOUS
  <2> HIDE DEF r, v
  <2>6. UNCHANGED <<lock, task, walk>>
    BY <1>2 DEF dns
  <2>7. AskOK'
    BY <1>2, <1>3, <2>1, <2>2, <2>3, <2>4, <2>5, <2>6 DEF AskOK, CurrentSince, Parsed, Views
  <2> QED
    BY <1>4, <1>5, <2>7 DEF IInv
<1> QED
  BY <1>6, <1>7

(* A record is published.                                                   *)
LEMMA DispatchPutOK ==
  ASSUME IInv, NEW c \in Callers, DispatchPut(c)
  PROVE  IInv'
<1> DEFINE r == request[c].record
<1>1. Command(c, "PutRecord")
  BY DEF DispatchPut
<1>2. c # Resolver /\ request[c].kind = "PutRecord"
  BY <1>1, CommandIs
<1>3. r \in Records
  <2>1. c \in Clients /\ request[c] = RequestOf[c]
    BY <1>2 DEF IInv, SlotsOK, Callers
  <2> QED
    BY <1>2, <2>1 DEF Records
<1>4. UNCHANGED <<height, request, waiters, dns, now>>
  BY DEF DispatchPut
<1>5. PICK x : conn' = [conn EXCEPT ![c] = "replied"] /\ reply' = [reply EXCEPT ![c] = x]
  BY DEF DispatchPut, Answer
<1>6. SlotsOK' /\ QueueOK' /\ reply'[Resolver] = reply[Resolver]
  <2>1. waiters' \in Seq(Parked)
    BY <1>4 DEF IInv, SlotsOK
  <2> QED
    BY <1>1, <1>2, <1>4, <1>5, <2>1, CommandDone
<1>7. now' >= now /\ now' \in Nat
  BY <1>4 DEF IInv, GhostOK
<1>8. RecordsOK' /\ GhostOK' /\ Grows
  <2>1. CASE dht' = dht \cup {<<r.domain, r>>} /\ Store(r.domain, r)
    <3>1. store' = [store EXCEPT ![r.domain] = r] /\ dht' = dht \cup {<<r.domain, r>>}
      BY <2>1 DEF Store
    <3>2. RecordsOK'
      BY <1>3, <3>1, StoreIs DEF IInv
    <3>3. Seen(History[height'], store', now')
      BY <1>4, <2>1 DEF Store, Seen
    <3> QED
      BY <1>7, <3>2, <3>3, SeenIs DEF IInv
  <2>2. CASE UNCHANGED <<dht, store, last>>
    BY <1>4, <2>2, GhostKept DEF IInv, RecordsOK
  <2> QED
    BY <2>1, <2>2 DEF DispatchPut
<1> QED
  BY <1>4, <1>6, <1>7, <1>8, DnsKept, AskKept DEF IInv

(* A lookup is refused or parked.                                           *)
LEMMA DispatchGetOK ==
  ASSUME IInv, NEW c \in Callers, DispatchGet(c)
  PROVE  IInv'
<1>1. Command(c, "GetRecord")
  BY DEF DispatchGet
<1>2. c # Resolver /\ request[c].kind = "GetRecord"
  BY <1>1, CommandIs
<1>3. c \in Clients /\ request[c] = RequestOf[c] /\ waiters \in Seq(Parked)
  BY <1>2 DEF IInv, SlotsOK, Callers
<1>4. UNCHANGED <<height, store, dht, request, dns, now, last>>
  BY DEF DispatchGet
<1>5. waiters' \in Seq(Parked)
  <2>1. waiters' = waiters \/ waiters' = Append(waiters, [id |-> c, domain |-> request[c].name])
    BY DEF DispatchGet
  <2>2. [id |-> c, domain |-> request[c].name] \in Parked
    BY <1>2, <1>3 DEF Parked
  <2> QED
    BY <1>3, <2>1, <2>2, AppendProperties
<1>6. PICK x, r : /\ conn' = [conn EXCEPT ![c] = x]
                  /\ reply' = reply \/ reply' = [reply EXCEPT ![c] = r]
  BY DEF DispatchGet, Answer
<1>7. SlotsOK' /\ QueueOK' /\ reply'[Resolver] = reply[Resolver]
  BY <1>1, <1>2, <1>4, <1>5, <1>6, CommandDone
<1> QED
  BY <1>4, <1>7, OthersKept, AskKept DEF IInv

(* The waiters without that of a client.                                    *)
LEMMA WithoutIs ==
  ASSUME IInv, NEW c, Waiting(c)
  PROVE  /\ Without(c) \in Seq(Parked)
         /\ waiters[WaiterOf(c)].id = c /\ waiters[WaiterOf(c)] \in Parked
<1> DEFINE i == WaiterOf(c)
<1>0. waiters \in Seq(Parked) /\ Len(waiters) \in Nat
  BY DEF IInv, SlotsOK
<1>1. i \in DOMAIN waiters /\ waiters[i].id = c
  BY DEF Waiting, WaiterOf
<1> HIDE DEF i
<1>2. i \in 1..Len(waiters) /\ waiters[i] \in Parked
  BY <1>0, <1>1
<1>3. SubSeq(waiters, 1, i - 1) \in Seq(Parked)
  <2>1. 1 \in Int /\ i - 1 \in Int /\ \A j \in 1..(i - 1) : waiters[j] \in Parked
    BY <1>0, <1>2
  <2> QED
    BY <2>1, SubSeqProperties
<1>4. SubSeq(waiters, i + 1, Len(waiters)) \in Seq(Parked)
  <2>1. i + 1 \in Int /\ Len(waiters) \in Int /\ \A j \in (i + 1)..Len(waiters) : waiters[j] \in Parked
    BY <1>0, <1>2
  <2> QED
    BY <2>1, SubSeqProperties
<1>5. Without(c) \in Seq(Parked)
  BY <1>3, <1>4, ConcatProperties DEF Without, RemoveAt, i
<1> QED
  BY <1>1, <1>2, <1>5 DEF i

(* Clients' slots may change as they like, when they are not the resolver's. *)
LEMMA ClientsIs ==
  ASSUME IInv, conn' = [c \in Callers |-> conn'[c]], reply' = [c \in Callers |-> reply'[c]],
         conn'[Resolver] = conn[Resolver], reply'[Resolver] = reply[Resolver],
         waiters' \in Seq(Parked), UNCHANGED <<request, queue>>
  PROVE  SlotsOK' /\ QueueOK'
<1>1. SlotsOK'
  BY DEF IInv, SlotsOK
<1>2. QueueOK'
  BY DEF IInv, QueueOK
<1> QED
  BY <1>1, <1>2

(* One client is answered.                                                  *)
LEMMA AnswerIs ==
  ASSUME IInv, NEW c \in Clients, NEW r, Answer(c, r)
  PROVE  /\ conn' = [x \in Callers |-> conn'[x]] /\ reply' = [x \in Callers |-> reply'[x]]
         /\ conn'[Resolver] = conn[Resolver] /\ reply'[Resolver] = reply[Resolver]
<1>1. c # Resolver /\ c \in Callers /\ Resolver \in Callers
  BY ResolveConstants DEF Callers
<1> QED
  BY <1>1 DEF IInv, SlotsOK, Answer

(* The DHT reports a record.                                                *)
LEMMA KadFoundOK ==
  ASSUME IInv, NEW c \in Clients, NEW x \in dht, KadFound(c, x[1], x[2])
  PROVE  IInv'
<1> DEFINE w == waiters[WaiterOf(c)]
<1> DEFINE r == x[2]
<1> DEFINE ok == x[1] = w.domain /\ verify_record_against_chain(History[height], r)
<1>1. UNCHANGED <<height, dht, request, queue, dns, now>>
  BY DEF KadFound
<1>2. CASE ~Waiting(c)
  <2>1. UNCHANGED <<conn, reply, waiters, store, last>>
    BY <1>2 DEF KadFound
  <2>2. SlotsOK' /\ QueueOK'
    BY <1>1, <2>1 DEF IInv, SlotsOK, QueueOK
  <2> QED
    BY <1>1, <2>1, <2>2, OthersKept, AskKept DEF IInv
<1>3. CASE Waiting(c)
  <2>1. waiters' \in Seq(Parked)
    BY <1>3, WithoutIs DEF KadFound
  <2>2. PICK y : Answer(c, y)
    BY <1>3 DEF KadFound
  <2>3. SlotsOK' /\ QueueOK' /\ reply'[Resolver] = reply[Resolver]
    BY <1>1, <2>1, <2>2, AnswerIs, ClientsIs
  <2>4. now' >= now /\ now' \in Nat
    BY <1>1 DEF IInv, GhostOK
  <2>5. RecordsOK' /\ GhostOK' /\ Grows
    <3>1. CASE ok
      <4>1. store' = [store EXCEPT ![w.domain] = r] /\ dht' = dht
        BY <1>1, <1>3, <3>1 DEF KadFound, Store
      <4>2. r \in Records /\ (WellFiled => r.domain = w.domain)
        BY <3>1 DEF IInv, RecordsOK
      <4>3. RecordsOK'
        BY <4>1, <4>2, StoreIs DEF IInv
      <4>4. Seen(History[height'], store', now')
        BY <1>1, <1>3, <3>1 DEF KadFound, Store, Seen
      <4> QED
        BY <2>4, <4>3, <4>4, SeenIs DEF IInv
    <3>2. CASE ~ok
      <4>1. UNCHANGED <<store, last>>
        BY <1>3, <3>2 DEF KadFound
      <4> QED
        BY <1>1, <4>1, GhostKept DEF IInv, RecordsOK
    <3> QED
      BY <3>1, <3>2
  <2> QED
    BY <1>1, <2>3, <2>4, <2>5, DnsKept, AskKept DEF IInv
<1> QED
  BY <1>2, <1>3

(* A query of the DHT ends.                                                 *)
LEMMA KadEndOK ==
  ASSUME IInv, NEW c \in Clients, NEW looked \in BOOLEAN, KadEnd(c, looked)
  PROVE  IInv'
<1>1. UNCHANGED <<height, store, dht, request, queue, dns, now, last>>
  BY DEF KadEnd
<1>2. SlotsOK' /\ QueueOK' /\ reply'[Resolver] = reply[Resolver]
  <2>1. CASE looked /\ Waiting(c)
    <3>1. waiters' \in Seq(Parked)
      BY <2>1, WithoutIs DEF KadEnd
    <3>2. PICK y : Answer(c, y)
      BY <2>1 DEF KadEnd
    <3> QED
      BY <1>1, <3>1, <3>2, AnswerIs, ClientsIs
  <2>2. CASE ~(looked /\ Waiting(c))
    <3>1. UNCHANGED <<waiters, conn, reply>>
      BY <2>2 DEF KadEnd
    <3> QED
      BY <1>1, <3>1 DEF IInv, SlotsOK, QueueOK
  <2> QED
    BY <2>1, <2>2
<1> QED
  BY <1>1, <1>2, OthersKept, AskKept DEF IInv

(* Lookups are given up.                                                    *)
LEMMA ExpireOK ==
  ASSUME IInv, NEW k \in DOMAIN waiters, Expire(k)
  PROVE  IInv'
<1> DEFINE due == {waiters[i].id : i \in 1..k}
<1>1. UNCHANGED <<height, store, dht, request, queue, dns, now, last>>
  BY DEF Expire
<1>2. waiters \in Seq(Parked) /\ Len(waiters) \in Nat /\ k \in 1..Len(waiters)
  BY DEF IInv, SlotsOK
<1>3. Resolver \notin due
  <2>1. \A i \in 1..k : waiters[i] \in Parked
    BY <1>2
  <2>2. \A p \in Parked : p.id # Resolver
    BY ResolveConstants DEF Parked
  <2> QED
    BY <2>1, <2>2
<1>4. waiters' \in Seq(Parked)
  <2>1. /\ k + 1 \in Int /\ Len(waiters) \in Int
        /\ \A j \in (k + 1)..Len(waiters) : waiters[j] \in Parked
    BY <1>2
  <2>2. waiters' = SubSeq(waiters, k + 1, Len(waiters))
    BY DEF Expire
  <2> QED
    BY <2>1, <2>2, SubSeqProperties
<1>5. /\ conn' = [c \in Callers |-> IF c \in due THEN "replied" ELSE conn[c]]
      /\ reply' = [c \in Callers |-> IF c \in due THEN [kind |-> "error"] ELSE reply[c]]
  BY DEF Expire
<1> HIDE DEF due
<1>6. /\ conn' = [c \in Callers |-> conn'[c]] /\ reply' = [c \in Callers |-> reply'[c]]
      /\ conn'[Resolver] = conn[Resolver] /\ reply'[Resolver] = reply[Resolver]
  BY <1>3, <1>5 DEF Callers
<1>7. SlotsOK' /\ QueueOK'
  BY <1>1, <1>4, <1>6, ClientsIs
<1> QED
  BY <1>1, <1>6, <1>7, OthersKept, AskKept DEF IInv

-----------------------------------------------------------------------------
(* The DNS tasks.                                                           *)

(* A task that does not hold the lock changes its state.                    *)
LEMMA WalkKept ==
  ASSUME IInv, NEW q \in DOMAIN Queries, q # lock, NEW x, task' = [task EXCEPT ![q] = x],
         UNCHANGED <<lock, walk, upstreams, now, last, request, reply>>
  PROVE  WalkOK' /\ AskOK'
<1>1. lock # None => task'[lock] = task[lock]
  BY DEF IInv, WalkOK
<1>2. task' = [p \in DOMAIN Queries |-> task'[p]]
  BY DEF IInv, WalkOK
<1>3. WalkOK'
  BY <1>1, <1>2 DEF IInv, WalkOK, CurrentSince, Parsed
<1>4. AskOK'
  BY <1>1 DEF IInv, AskOK, CurrentSince, Parsed, Views
<1> QED
  BY <1>3, <1>4

(* While no task holds the lock the resolver does not ask.                  *)
LEMMA Idle ==
  ASSUME IInv, NEW q \in DOMAIN Queries, Locks(q)
  PROVE  lock = None /\ q # lock /\ request[Resolver] = None
BY ResolveConstants DEF IInv, AskOK, Locks

(* A step of a task leaves the rest of the relay.                           *)
LEMMA RelayKept ==
  ASSUME IInv, UNCHANGED <<height, store, dht, now, last>>
  PROVE  RecordsOK' /\ GhostOK' /\ Grows
<1>1. RecordsOK'
  BY DEF IInv, RecordsOK
<1> QED
  BY <1>1, GhostKept DEF IInv

(* A good response is recorded.                                             *)
LEMMA RespondIs ==
  ASSUME IInv, GhostOK', Grows, NEW q \in DOMAIN Queries, NEW resp, NEW e, Respond(q, resp, e),
         ResponseOK(q, [rcode |-> resp.rcode, aa |-> resp.aa, tc |-> resp.tc, answers |-> resp.answers,
                        served |-> now, at |-> e.at, born |-> e.born, seen |-> e.seen, full |-> e.full])
  PROVE  ResponsesOK' /\ task' = [task EXCEPT ![q] = "done"]
<1> DEFINE r == [rcode |-> resp.rcode, aa |-> resp.aa, tc |-> resp.tc, answers |-> resp.answers,
                 served |-> now, at |-> e.at, born |-> e.born, seen |-> e.seen, full |-> e.full]
<1>1. response' = [response EXCEPT ![q] = r] /\ task' = [task EXCEPT ![q] = "done"]
  BY DEF Respond
<1>2. PICK y : y = r
  OBVIOUS
<1>3. ResponseOK(q, y)
  BY <1>2
<1> HIDE DEF r
<1>4. GhostOK /\ ResponsesOK
  BY DEF IInv
<1>5. ResponseOK(q, y)'
  BY <1>3, <1>4, ResponseKept
<1>6. ASSUME NEW p \in DOMAIN Queries, response'[p] # None
      PROVE  ResponseOK(p, response[p])'
  <2>1. CASE p = q
    <3>1. response'[p] = y
      BY <1>1, <1>2, <1>4, <2>1 DEF ResponsesOK
    <3> QED
      BY <1>5, <2>1, <3>1
  <2>2. CASE p # q
    <3>1. response'[p] = response[p]
      BY <1>1, <1>4, <2>2 DEF ResponsesOK
    <3>2. ResponseOK(p, response[p])
      BY <1>4, <1>6, <3>1 DEF ResponsesOK
    <3>3. PICK z : z = response[p]
      OBVIOUS
    <3>4. ResponseOK(p, z)'
      BY <1>4, <3>2, <3>3, ResponseKept
    <3> QED
      BY <3>1, <3>3, <3>4
  <2> QED
    BY <2>1, <2>2
<1>7. response' = [p \in DOMAIN Queries |-> response'[p]]
  BY <1>1, <1>4 DEF ResponsesOK
<1> QED
  BY <1>1, <1>6, <1>7 DEF ResponsesOK

(* A packet is taken up or dropped.                                         *)
LEMMA DnsReceiveOK ==
  ASSUME IInv, NEW q \in DOMAIN Queries, DnsReceive(q)
  PROVE  IInv'
<1>1. UNCHANGED <<height, store, dht, rpc, lock, walk, cache, response, upstreams, now, last>>
  BY DEF DnsReceive
<1>2. UNCHANGED <<request, reply>>
  BY <1>1 DEF rpc
<1>3. PICK x : task' = [task EXCEPT ![q] = x]
  BY DEF DnsReceive
<1>4. q # lock
  BY ResolveConstants DEF IInv, WalkOK, DnsReceive
<1>5. WalkOK' /\ AskOK'
  BY <1>1, <1>2, <1>3, <1>4, WalkKept
<1> QED
  BY <1>1, <1>5, RelayKept, RpcKept, CacheKept, ResponsesKept DEF IInv

(* A packet that is no query.                                               *)
LEMMA DnsSilenceOK ==
  ASSUME IInv, NEW q \in DOMAIN Queries, DnsSilence(q)
  PROVE  IInv'
<1>1. UNCHANGED <<height, store, dht, rpc, lock, walk, cache, response, upstreams, now, last>>
  BY DEF DnsSilence
<1>2. UNCHANGED <<request, reply>>
  BY <1>1 DEF rpc
<1>3. task' = [task EXCEPT ![q] = "done"] /\ q # lock
  BY Idle DEF DnsSilence
<1>4. WalkOK' /\ AskOK'
  BY <1>1, <1>2, <1>3, WalkKept
<1> QED
  BY <1>1, <1>4, RelayKept, RpcKept, CacheKept, ResponsesKept DEF IInv

(* What the cache has is young enough.                                      *)
LEMMA HitIs ==
  ASSUME IInv, NEW q \in DOMAIN Queries, Parsed(q) # None, get(cache, KeyOf(q), now) # None
  PROVE  /\ EntryOK(q, get(cache, KeyOf(q), now))
         /\ get(cache, KeyOf(q), now).aa => now - get(cache, KeyOf(q), now).at < ANSWER_TTL
<1> DEFINE e == cache.entries[KeyOf(q)]
<1>1. /\ KeyOf(q) \in DOMAIN cache.entries
      /\ get(cache, KeyOf(q), now) = e /\ ~(now - e.at >= Max({Clamp(e.ttl), 1}))
  BY DEF get
<1>2. EntryOK(q, e)
  BY <1>1 DEF IInv, CacheOK
<1> HIDE DEF e
<1>3. ASSUME e.aa PROVE now - e.at < ANSWER_TTL
  <2>1. e.ttl = ANSWER_TTL /\ e.at \in Nat /\ now \in Nat
    BY <1>2, <1>3 DEF EntryOK, IInv, GhostOK
  <2>2. Clamp(e.ttl) \in Nat /\ Clamp(e.ttl) <= ANSWER_TTL /\ ANSWER_TTL \in Nat /\ 1 <= ANSWER_TTL
    BY <2>1, DnsConstants DEF Clamp
  <2>3. Max({Clamp(e.ttl), 1}) \in {Clamp(e.ttl), 1}
    <3>1. PICK m : m = Clamp(e.ttl)
      OBVIOUS
    <3>2. m \in Nat
      BY <2>2, <3>1
    <3>3. Max({m, 1}) \in {m, 1}
      <4>1. \E x \in {m, 1} : \A y \in {m, 1} : x >= y
        BY <3>2
      <4> QED
        BY <4>1 DEF Max
    <3> QED
      BY <3>1, <3>3
  <2> QED
    BY <1>1, <2>1, <2>2, <2>3
<1> QED
  BY <1>1, <1>2, <1>3

(* A response from a good entry.                                            *)
LEMMA ServedIs ==
  ASSUME NEW q \in DOMAIN Queries, Parsed(q) # None, NEW e, EntryOK(q, e), NEW aa, aa => e.aa,
         aa => now - e.at < ANSWER_TTL, NEW resp,
         resp = build_response_bounded(e.answers, e.rcode, aa, Budget(q))
  PROVE  ResponseOK(q, [rcode |-> resp.rcode, aa |-> resp.aa, tc |-> resp.tc, answers |-> resp.answers,
                        served |-> now, at |-> e.at, born |-> e.born, seen |-> e.seen, full |-> e.full])
<1>0. IsSeq(e.answers)
  BY DEF EntryOK
<1>1. PICK n \in 0..Len(e.answers) :
        resp = [rcode |-> e.rcode, aa |-> aa, tc |-> n < Len(e.answers),
                answers |-> SubSeq(e.answers, 1, n)]
  BY <1>0, BudgetIs, BuildIs
<1>2. Len(SubSeq(e.answers, 1, n)) = n /\ IsPrefix(SubSeq(e.answers, 1, n), e.answers)
  BY <1>0, CutIs
<1>3. Len(e.answers) \in Nat
  BY <1>0 DEF IsSeq
<1> DEFINE r == [rcode |-> resp.rcode, aa |-> resp.aa, tc |-> resp.tc, answers |-> resp.answers,
                 served |-> now, at |-> e.at, born |-> e.born, seen |-> e.seen, full |-> e.full]
<1>4. /\ r.rcode = e.rcode /\ r.aa = aa /\ r.tc = (n < Len(e.answers))
      /\ r.answers = SubSeq(e.answers, 1, n)
      /\ r.served = now /\ r.at = e.at /\ r.born = e.born /\ r.seen = e.seen /\ r.full = e.full
  BY <1>1
<1> HIDE DEF r
<1>5. WholeReplies /\ ~r.tc => Len(r.answers) = r.full
  <2>1. ~r.tc => ~(n < Len(e.answers))
    BY <1>4, Zenon
  <2> QED
    BY <1>2, <1>3, <1>4, <2>1 DEF EntryOK
<1>6. ASSUME aa
      PROVE  \E k \in 2..Len(Parsed(q).name), v \in Views :
               Searched(q, r, k, v) /\ (r.rcode # NXDOMAIN => IsPrefix(r.answers, Chosen(q, v)))
  <2>1. PICK k \in 2..Len(Parsed(q).name), v \in Views :
          Searched(q, e, k, v) /\ (e.rcode # NXDOMAIN => e.answers = Chosen(q, v))
    BY <1>6 DEF EntryOK
  <2>2. Searched(q, r, k, v)
    BY <1>4, <2>1 DEF Searched
  <2>3. r.rcode # NXDOMAIN => IsPrefix(r.answers, Chosen(q, v))
    BY <1>2, <1>4, <2>1
  <2> QED
    BY <2>2, <2>3
<1>7. ResponseOK(q, r)
  BY <1>4, <1>5, <1>6 DEF ResponseOK
<1> QED
  BY <1>7 DEF r

(* An answer from the cache.                                                *)
LEMMA DnsHitOK ==
  ASSUME IInv, NEW q \in DOMAIN Queries, DnsHit(q)
  PROVE  IInv'
<1> DEFINE e == get(cache, KeyOf(q), now)
<1> DEFINE resp == build_response_bounded(e.answers, e.rcode, e.aa, Budget(q))
<1>1. UNCHANGED <<height, store, dht, rpc, lock, walk, cache, upstreams, now, last>>
  BY DEF DnsHit
<1>2. Locks(q) /\ Parsed(q) # None /\ e # None /\ Respond(q, resp, e)
  BY DEF DnsHit
<1>3. RecordsOK' /\ GhostOK' /\ Grows /\ UNCHANGED <<request, reply>>
  BY <1>1, RelayKept DEF rpc
<1>4. EntryOK(q, e) /\ (e.aa => now - e.at < ANSWER_TTL)
  BY <1>2, HitIs
<1> HIDE DEF e
<1>5. PICK f, g : f = e /\ g = resp
  BY Zenon
<1>6. ResponsesOK' /\ task' = [task EXCEPT ![q] = "done"]
  <2>1. g = build_response_bounded(f.answers, f.rcode, f.aa, Budget(q))
    BY <1>5
  <2> HIDE DEF resp
  <2>2. EntryOK(q, f) /\ (f.aa => now - f.at < ANSWER_TTL) /\ Respond(q, g, f)
    BY <1>2, <1>4, <1>5
  <2> QED
    BY <1>2, <1>3, <2>1, <2>2, ServedIs, RespondIs
<1>7. WalkOK' /\ AskOK'
  BY <1>1, <1>2, <1>3, <1>6, Idle, WalkKept
<1> QED
  BY <1>1, <1>3, <1>6, <1>7, RpcKept, CacheKept DEF IInv

(* The name of a query.                                                     *)
LEMMA ParsedIs ==
  ASSUME NEW q \in DOMAIN Queries, Parsed(q) # None
  PROVE  /\ Parsed(q).name \in Seq(STRING)
         /\ Len(Parsed(q).name) \in Nat /\ Len(Parsed(q).name) >= 2
<1>1. Queries[q].labels \in Seq(STRING)
  BY ResolveConstants
<1>2. Parsed(q).name = Queries[q].labels /\ Len(Queries[q].labels) \in 2..MAX_LABELS
  BY DEF Parsed, parse_query
<1> QED
  BY <1>1, <1>2

(* A response without the AA bit, or to a name the upstreams resolve.       *)
LEMMA PlainIs ==
  ASSUME NEW q, NEW resp, NEW e, ~resp.aa \/ ~scone_candidate(Parsed(q).name),
         WholeReplies /\ ~resp.tc /\ resp.rcode # SERVFAIL => Len(resp.answers) = e.full
  PROVE  ResponseOK(q, [rcode |-> resp.rcode, aa |-> resp.aa, tc |-> resp.tc, answers |-> resp.answers,
                        served |-> now, at |-> e.at, born |-> e.born, seen |-> e.seen, full |-> e.full])
<1> DEFINE r == [rcode |-> resp.rcode, aa |-> resp.aa, tc |-> resp.tc, answers |-> resp.answers,
                 served |-> now, at |-> e.at, born |-> e.born, seen |-> e.seen, full |-> e.full]
<1>1. /\ r.rcode = resp.rcode /\ r.aa = resp.aa /\ r.tc = resp.tc
      /\ r.answers = resp.answers /\ r.full = e.full
  OBVIOUS
<1> HIDE DEF r
<1>2. ResponseOK(q, r)
  BY <1>1 DEF ResponseOK
<1> QED
  BY <1>2 DEF r

(* A response without answers.                                              *)
LEMMA EmptyIs ==
  ASSUME NEW q, NEW rcode
  PROVE  LET resp == build_response_bounded(<<>>, rcode, FALSE, Budget(q))
         IN /\ resp.rcode = rcode /\ ~resp.aa /\ ~resp.tc /\ Len(resp.answers) = 0
<1>1. IsSeq(<<>>) /\ Len(<<>>) = 0
  BY DEF IsSeq
<1>2. PICK n \in 0..0 : build_response_bounded(<<>>, rcode, FALSE, Budget(q))
        = [rcode |-> rcode, aa |-> FALSE, tc |-> n < 0, answers |-> SubSeq(<<>>, 1, n)]
  BY <1>1, BudgetIs, BuildIs
<1>3. n = 0 /\ SubSeq(<<>>, 1, 0) = <<>> /\ (n < 0) = FALSE
  OBVIOUS
<1>4. PICK y : y = build_response_bounded(<<>>, rcode, FALSE, Budget(q))
  BY Zenon
<1>5. y = [rcode |-> rcode, aa |-> FALSE, tc |-> FALSE, answers |-> <<>>]
  BY <1>2, <1>3, <1>4
<1>6. y.rcode = rcode /\ y.aa = FALSE /\ y.tc = FALSE /\ y.answers = <<>>
  BY <1>5
<1>7. y.rcode = rcode /\ ~y.aa /\ ~y.tc /\ Len(y.answers) = 0
  BY <1>1, <1>6, Zenon
<1> QED
  BY <1>4, <1>7, Zenon

(* A miss.                                                                  *)
LEMMA DnsMissOK ==
  ASSUME IInv, NEW q \in DOMAIN Queries, DnsMiss(q)
  PROVE  IInv'
<1> DEFINE name == Parsed(q).name
<1>1. UNCHANGED <<height, store, dht, rpc, cache, upstreams, now, last>>
  BY DEF DnsMiss
<1>2. /\ Locks(q) /\ Parsed(q) # None /\ lock = None /\ q # lock /\ q # None
      /\ request[Resolver] = None
  BY Idle, ResolveConstants DEF DnsMiss
<1>3. RecordsOK' /\ GhostOK' /\ Grows /\ UNCHANGED <<request, reply>> /\ SlotsOK' /\ QueueOK'
  BY <1>1, RelayKept, RpcKept DEF rpc
<1>4. AskOK'
  BY <1>2, <1>3 DEF AskOK
<1>5. CacheOK'
  BY <1>1, <1>3, CacheKept DEF IInv
<1>6. WalkOK' /\ ResponsesOK'
  <2>1. CASE /\ task' = [task EXCEPT ![q] = "walking"] /\ lock' = q
             /\ walk' = [keep |-> Len(Parsed(q).name), born |-> now, seen |-> {}]
             /\ UNCHANGED response
    <3>1. Len(name) \in Nat /\ Len(name) >= 2
      BY <1>2, ParsedIs
    <3>2. now' \in Nat /\ now \in Nat
      BY <1>1 DEF IInv, GhostOK
    <3>3. task'[q] = "walking" /\ task' = [p \in DOMAIN Queries |-> task'[p]]
      BY <2>1 DEF IInv, WalkOK
    <3>4. walk'.keep = Len(name) /\ walk'.born = now /\ walk'.seen = {}
      BY <2>1
    <3>5. (walk'.keep + 1)..Len(name) = {}
      BY <3>1, <3>4
    <3>6. WalkOK'
      <4>1. upstreams' \in Nat
        BY <1>1 DEF IInv, WalkOK
      <4>2. walk' = [keep |-> walk'.keep, born |-> walk'.born, seen |-> walk'.seen]
        BY <2>1
      <4>3. walk'.keep \in 2..Len(name)
        BY <3>1, <3>4
      <4>4. walk'.born \in Nat /\ walk'.born <= now'
        BY <1>1, <3>2, <3>4
      <4>5. lock' = q /\ Parsed(q) # None
        BY <1>2, <2>1
      <4>6. walk'.seen = {<<Suffix(name, j), None>> : j \in (walk'.keep + 1)..Len(name)}
        BY <3>4, <3>5
      <4>7. \A j \in (walk'.keep + 1)..Len(name) : CurrentSince(Suffix(name, j), None, walk.born)'
        BY <3>5
      <4> QED
        BY <3>3, <4>1, <4>2, <4>3, <4>4, <4>5, <4>6, <4>7 DEF WalkOK, Parsed
    <3> QED
      BY <1>3, <2>1, <3>6, ResponsesKept DEF IInv
  <2>2. CASE /\ ~scone_candidate(Parsed(q).name)
             /\ task' = [task EXCEPT ![q] = "forwarding"] /\ lock' = q
             /\ UNCHANGED <<walk, response>>
    <3>1. task'[q] = "forwarding" /\ task' = [p \in DOMAIN Queries |-> task'[p]]
      BY <2>2 DEF IInv, WalkOK
    <3>2. WalkOK'
      BY <1>1, <1>2, <2>2, <3>1 DEF IInv, WalkOK, Parsed
    <3> QED
      BY <1>3, <2>2, <3>2, ResponsesKept DEF IInv
  <2>3. CASE /\ Respond(q, build_response_bounded(<<>>, REFUSED, FALSE, Budget(q)),
                        [at |-> now, born |-> now, seen |-> {}, full |-> 0])
             /\ UNCHANGED <<lock, walk>>
    <3>1. PICK resp, e : /\ resp = build_response_bounded(<<>>, REFUSED, FALSE, Budget(q))
                         /\ e = [at |-> now, born |-> now, seen |-> {}, full |-> 0]
      BY Zenon
    <3>2. ~resp.aa /\ Len(resp.answers) = e.full
      BY <3>1, EmptyIs
    <3>3. Respond(q, resp, e)
      BY <2>3, <3>1
    <3>4. ResponsesOK' /\ task' = [task EXCEPT ![q] = "done"]
      BY <1>3, <3>2, <3>3, PlainIs, RespondIs
    <3>5. WalkOK'
      BY <1>1, <1>2, <1>3, <2>3, <3>4, WalkKept
    <3> QED
      BY <3>4, <3>5
  <2> QED
    BY <2>1, <2>2, <2>3 DEF DnsMiss
<1> QED
  BY <1>3, <1>4, <1>5, <1>6 DEF IInv

(* The next suffix is asked for.                                            *)
LEMMA DnsAskOK ==
  ASSUME IInv, NEW q \in DOMAIN Queries, DnsAsk(q)
  PROVE  IInv'
<1> DEFINE r == [kind |-> "ResolveLocal", name |-> Suffix(Parsed(q).name, walk.keep)]
<1>1. /\ UNCHANGED <<height, store, dht, conn, reply, queue, waiters, dns, now, last>>
      /\ lock = q /\ task[q] = "walking" /\ request[Resolver] = None
      /\ request' = [request EXCEPT ![Resolver] = r]
  BY DEF DnsAsk
<1> HIDE DEF r
<1>2. conn[Resolver] = "new" /\ reply[Resolver] = None /\ Resolver \notin Clients
  BY <1>1, ResolveConstants DEF IInv, QueueOK
<1>3. SlotsOK'
  <2>1. request' = [c \in Callers |-> request'[c]] /\ \A c \in Clients : request'[c] = request[c]
    BY <1>1, <1>2 DEF IInv, SlotsOK, Callers
  <2> QED
    BY <1>1, <2>1 DEF IInv, SlotsOK
<1>4. QueueOK'
  BY <1>1, <1>2 DEF IInv, QueueOK
<1>5. request'[Resolver] = r
  BY <1>1 DEF IInv, SlotsOK, Callers
<1>6. UNCHANGED <<lock, task, walk>>
  BY <1>1 DEF dns
<1>7. AskOK'
  BY <1>1, <1>2, <1>5, <1>6, ResolveConstants DEF AskOK, r, Parsed
<1> QED
  BY <1>1, <1>3, <1>4, <1>7, OthersKept DEF IInv

-----------------------------------------------------------------------------
(* The end of a search.                                                     *)

(* Queries with one key have the same entries.                              *)
LEMMA SameKey ==
  ASSUME NEW p, NEW q, KeyOf(p) = KeyOf(q), NEW e, EntryOK(q, e)
  PROVE  EntryOK(p, e)
<1>1. Parsed(p).name = Parsed(q).name /\ Parsed(p).type = Parsed(q).type
  BY DEF KeyOf
<1>2. \A v : Chosen(p, v) = Chosen(q, v)
  BY <1>1 DEF Chosen
<1>3. \A k, v : Searched(q, e, k, v) => Searched(p, e, k, v)
  BY <1>1 DEF Searched
<1> QED
  BY <1>1, <1>2, <1>3 DEF EntryOK

(* A good entry is put in the cache.                                        *)
LEMMA PutIs ==
  ASSUME IInv, GhostOK', Grows, NEW q \in DOMAIN Queries, NEW e, EntryOK(q, e),
         cache' = put(cache, KeyOf(q), e)
  PROVE  CacheOK'
<1>1. \A key \in DOMAIN cache'.entries :
        /\ key # KeyOf(q) => key \in DOMAIN cache.entries /\ cache'.entries[key] = cache.entries[key]
        /\ key = KeyOf(q) => cache'.entries[key] = e
  BY DEF put
<1>2. GhostOK /\ CacheOK
  BY DEF IInv
<1> SUFFICES ASSUME NEW p \in DOMAIN Queries, Parsed(p) # None, KeyOf(p) \in DOMAIN cache'.entries
             PROVE  EntryOK(p, cache.entries[KeyOf(p)])'
  BY DEF CacheOK, KeyOf, Parsed
<1>3. PICK f : f = cache'.entries[KeyOf(p)]
  BY Zenon
<1>4. EntryOK(p, f)
  <2>1. CASE KeyOf(p) = KeyOf(q)
    BY <1>1, <1>3, <2>1, SameKey
  <2>2. CASE KeyOf(p) # KeyOf(q)
    BY <1>1, <1>2, <1>3, <2>2 DEF CacheOK
  <2> QED
    BY <2>1, <2>2
<1>5. EntryOK(p, f)'
  BY <1>2, <1>4, EntryKept
<1>6. f = (cache.entries[KeyOf(p)])'
  BY <1>3 DEF KeyOf, Parsed
<1> QED
  BY <1>5, <1>6

(* The views of a search, with the one that ends it.                        *)
LEMMA SearchEnds ==
  ASSUME IInv, NEW q \in DOMAIN Queries, lock = q, task[q] = "walking", request[Resolver] # None,
         reply[Resolver] # None, reply[Resolver].kind = "dns"
  PROVE  LET name == Parsed(q).name
             k    == walk.keep
             v    == reply[Resolver].data
         IN /\ v \in Views /\ k \in 2..Len(name) /\ walk.born \in Nat
            /\ walk.seen \cup {<<request[Resolver].name, v>>} = SearchOf(name, k, v)
            /\ \A j \in k..Len(name) : CurrentSince(Suffix(name, j), IF j = k THEN v ELSE None, walk.born)
<1> DEFINE name == Parsed(q).name
<1> DEFINE k == walk.keep
<1> DEFINE v == reply[Resolver].data
<1>0. q # None /\ Len(name) \in Nat
  <2>1. q # None
    BY ResolveConstants
  <2>2. Parsed(q) # None
    BY <2>1 DEF IInv, WalkOK
  <2> QED
    BY <2>1, <2>2, ParsedIs
<1>1. /\ k \in 2..Len(name) /\ walk.born \in Nat
      /\ walk.seen = {<<Suffix(name, j), None>> : j \in (k + 1)..Len(name)}
      /\ \A j \in (k + 1)..Len(name) : CurrentSince(Suffix(name, j), None, walk.born)
  BY <1>0 DEF IInv, WalkOK
<1>2. /\ request[Resolver].name = Suffix(name, k) /\ v \in Views
      /\ CurrentSince(Suffix(name, k), v, walk.born)
  BY DEF IInv, AskOK
<1> HIDE DEF name, k, v
<1>3. k..Len(name) = {k} \cup (k + 1)..Len(name) /\ k \notin (k + 1)..Len(name)
  BY <1>0, <1>1
<1>4. walk.seen \cup {<<Suffix(name, k), v>>} = SearchOf(name, k, v)
  BY <1>1, <1>3 DEF SearchOf
<1>5. \A j \in k..Len(name) : CurrentSince(Suffix(name, j), IF j = k THEN v ELSE None, walk.born)
  BY <1>1, <1>2, <1>3
<1> QED
  BY <1>1, <1>2, <1>4, <1>5 DEF name, k, v

(* What is put together at the end of a search.                             *)
Result(rcode, answers, seen) ==
  [answers |-> answers, rcode |-> rcode, ttl |-> ANSWER_TTL, aa |-> TRUE,
   at |-> now, born |-> walk.born, seen |-> seen, full |-> Len(answers)]

(* A failed search is answered, a good result also cached.                  *)
LEMMA ConcludeOK ==
  ASSUME IInv, GhostOK', Grows, upstreams' = upstreams, NEW q \in DOMAIN Queries, Parsed(q) # None,
         NEW rcode, NEW answers, NEW seen, Conclude(q, rcode, answers, seen),
         \/ rcode = SERVFAIL /\ answers = <<>>
         \/ rcode \in {NOERROR, NXDOMAIN} /\ EntryOK(q, Result(rcode, answers, seen))
  PROVE  WalkOK' /\ CacheOK' /\ ResponsesOK'
<1> DEFINE ok == rcode \in {NOERROR, NXDOMAIN}
<1>1. PICK e, resp : /\ e = Result(rcode, answers, seen)
                     /\ resp = build_response_bounded(answers, rcode, ok, Budget(q))
  BY Zenon
<1>2. /\ cache' = IF ok THEN put(cache, KeyOf(q), e) ELSE cache
      /\ Respond(q, resp, e) /\ lock' = None
  BY <1>1 DEF Conclude, Result
<1>3. e.answers = answers /\ e.rcode = rcode /\ e.aa = TRUE /\ e.at = now
  BY <1>1 DEF Result
<1>4. CacheOK' /\ ResponsesOK' /\ task' = [task EXCEPT ![q] = "done"]
  <2>1. CASE rcode = SERVFAIL /\ answers = <<>>
    <3>1. ~ok
      BY <2>1 DEF SERVFAIL, NOERROR, NXDOMAIN
    <3>2. ok = FALSE
      BY <3>1
    <3> HIDE DEF ok
    <3>3. resp = build_response_bounded(<<>>, SERVFAIL, FALSE, Budget(q))
      BY <1>1, <2>1, <3>2, Zenon
    <3>4. resp.rcode = SERVFAIL /\ ~resp.aa
      BY <3>3, EmptyIs
    <3>5. CacheOK'
      BY <1>2, <3>1, CacheKept DEF IInv
    <3> QED
      BY <1>2, <3>4, <3>5, PlainIs, RespondIs
  <2>2. CASE ok /\ EntryOK(q, Result(rcode, answers, seen))
    <3>1. EntryOK(q, e) /\ cache' = put(cache, KeyOf(q), e)
      BY <1>1, <1>2, <2>2
    <3>2. CacheOK'
      BY <3>1, PutIs
    <3>3. ok = TRUE
      BY <2>2
    <3> HIDE DEF ok
    <3>4. resp = build_response_bounded(e.answers, e.rcode, TRUE, Budget(q))
      BY <1>1, <1>3, <3>3, Zenon
    <3>5. e.aa /\ now - e.at < ANSWER_TTL
      BY <1>3, DnsConstants DEF IInv, GhostOK
    <3> QED
      BY <1>2, <3>1, <3>2, <3>4, <3>5, ServedIs, RespondIs
  <2> QED
    BY <2>1, <2>2
<1>5. task' = [p \in DOMAIN Queries |-> task'[p]]
  BY <1>4 DEF IInv, WalkOK
<1>6. WalkOK'
  BY <1>2, <1>5 DEF IInv, WalkOK
<1> QED
  BY <1>4, <1>6

(* The result of a search is a good entry.                                  *)
LEMMA ResultOK ==
  ASSUME IInv, NEW q \in DOMAIN Queries, lock = q, task[q] = "walking", request[Resolver] # None,
         reply[Resolver] # None, reply[Resolver].kind = "dns", NEW rcode, NEW answers, IsSeq(answers),
         NEW seen, seen = walk.seen \cup {<<request[Resolver].name, reply[Resolver].data>>},
         rcode = NXDOMAIN => walk.keep = 2 /\ reply[Resolver].data = None,
         rcode # NXDOMAIN => reply[Resolver].data # None /\ answers = Chosen(q, reply[Resolver].data)
  PROVE  EntryOK(q, Result(rcode, answers, seen))
<1>1. PICK e, k, v : e = Result(rcode, answers, seen) /\ k = walk.keep /\ v = reply[Resolver].data
  BY Zenon
<1>2. /\ e.answers = answers /\ e.rcode = rcode /\ e.ttl = ANSWER_TTL /\ e.at = now
      /\ e.born = walk.born /\ e.seen = seen /\ e.full = Len(answers)
  BY <1>1 DEF Result
<1>3. /\ v \in Views /\ k \in 2..Len(Parsed(q).name) /\ walk.born \in Nat
      /\ seen = SearchOf(Parsed(q).name, k, v)
      /\ \A j \in k..Len(Parsed(q).name) :
           CurrentSince(Suffix(Parsed(q).name, j), IF j = k THEN v ELSE None, walk.born)
  BY <1>1, SearchEnds
<1>4. Searched(q, e, k, v)
  BY <1>1, <1>2, <1>3 DEF Searched
<1>5. now \in Nat
  BY DEF IInv, GhostOK
<1>6. EntryOK(q, e)
  BY <1>1, <1>2, <1>3, <1>4, <1>5 DEF EntryOK
<1> QED
  BY <1>1, <1>6

(* The relay's answer for a suffix.                                         *)
LEMMA DnsAnsweredOK ==
  ASSUME IInv, NEW q \in DOMAIN Queries, DnsAnswered(q)
  PROVE  IInv'
<1> DEFINE r == IF reply[Resolver] = None THEN [kind |-> "error"] ELSE reply[Resolver]
<1> DEFINE seen == walk.seen \cup {<<request[Resolver].name, r.data>>}
<1>1. /\ UNCHANGED <<height, store, dht, queue, waiters, upstreams, now, last>>
      /\ lock = q /\ task[q] = "walking" /\ conn[Resolver] \in {"closed", "shed"}
      /\ conn' = [conn EXCEPT ![Resolver] = "new"]
      /\ request' = [request EXCEPT ![Resolver] = None]
      /\ reply' = [reply EXCEPT ![Resolver] = None]
  BY DEF DnsAnswered
<1>2. q # None /\ Parsed(q) # None /\ request[Resolver] # None /\ Resolver \notin Clients
  <2>1. q # None
    BY ResolveConstants
  <2> QED
    BY <1>1, <2>1, ResolveConstants DEF IInv, WalkOK, QueueOK
<1>3. RecordsOK' /\ GhostOK' /\ Grows
  BY <1>1, RelayKept
<1>4. conn'[Resolver] = "new" /\ request'[Resolver] = None /\ reply'[Resolver] = None
  BY <1>1 DEF IInv, SlotsOK, Callers
<1>5. SlotsOK'
  <2>1. \A c \in Clients : request'[c] = request[c]
    BY <1>1, <1>2 DEF IInv, SlotsOK, Callers
  <2> QED
    BY <1>1, <2>1 DEF IInv, SlotsOK
<1>6. QueueOK'
  BY <1>1, <1>4 DEF IInv, QueueOK
<1>7. AskOK'
  BY <1>4 DEF AskOK
<1>8. r.kind = "dns" => reply[Resolver] # None /\ r = reply[Resolver]
  OBVIOUS
<1>9. WalkOK' /\ CacheOK' /\ ResponsesOK'
  <2>1. CASE r.kind = "error" /\ Conclude(q, SERVFAIL, <<>>, {})
    BY <1>1, <1>2, <1>3, <2>1, ConcludeOK
  <2>2. CASE /\ r.kind = "dns" /\ r.data = None /\ walk.keep > 2
             /\ walk' = [walk EXCEPT !.keep = @ - 1, !.seen = seen]
             /\ UNCHANGED <<task, lock, cache, response>>
    <3> DEFINE name == Parsed(q).name
    <3>1. /\ walk = [keep |-> walk.keep, born |-> walk.born, seen |-> walk.seen]
          /\ walk.keep \in 2..Len(name) /\ walk.born \in Nat /\ walk.born <= now
      BY <1>1, <1>2 DEF IInv, WalkOK
    <3>2. /\ walk.seen \cup {<<request[Resolver].name, None>>} = SearchOf(name, walk.keep, None)
          /\ \A j \in walk.keep..Len(name) : CurrentSince(Suffix(name, j), None, walk.born)
      BY <1>1, <1>2, <1>8, <2>2, SearchEnds
    <3>3. seen = SearchOf(name, walk.keep, None)
      BY <2>2, <3>2
    <3>4. seen = {<<Suffix(name, j), None>> : j \in walk.keep..Len(name)}
      BY <3>3 DEF SearchOf
    <3> HIDE DEF seen
    <3>5. Len(name) \in Nat
      BY <1>2, ParsedIs
    <3>6. walk' = [keep |-> walk.keep - 1, born |-> walk.born, seen |-> seen]
      BY <2>2, <3>1
    <3>7. /\ walk'.keep = walk.keep - 1 /\ walk'.born = walk.born /\ walk'.seen = seen
          /\ walk'.keep \in 2..Len(name) /\ walk'.keep + 1 = walk.keep
      BY <2>2, <3>1, <3>5, <3>6
    <3>8. \A j \in (walk'.keep + 1)..Len(name) : CurrentSince(Suffix(name, j), None, walk.born)'
      <4>1. \A j \in walk.keep..Len(name) : Suffix(name, j) \in Domains => last'[Suffix(name, j)][None] >= walk.born
        BY <1>1, <3>2 DEF CurrentSince
      <4> QED
        BY <3>7, <4>1 DEF CurrentSince
    <3>9. WalkOK'
      <4>1. /\ task' = [p \in DOMAIN Queries |-> task'[p]] /\ upstreams' \in Nat
            /\ lock' = q /\ task'[q] = "walking"
        BY <1>1, <2>2 DEF IInv, WalkOK
      <4>2. walk' = [keep |-> walk'.keep, born |-> walk'.born, seen |-> walk'.seen]
        BY <3>6
      <4>3. walk'.born \in Nat /\ walk'.born <= now'
        BY <1>1, <3>1, <3>7
      <4>4. walk'.seen = {<<Suffix(name, j), None>> : j \in (walk'.keep + 1)..Len(name)}
        BY <3>4, <3>7
      <4> QED
        BY <1>2, <3>7, <3>8, <4>1, <4>2, <4>3, <4>4 DEF WalkOK, Parsed
    <3> QED
      BY <1>3, <2>2, <3>9, CacheKept, ResponsesKept DEF IInv
  <2>3. CASE /\ r.kind = "dns" /\ r.data = None /\ walk.keep = 2
             /\ Conclude(q, NXDOMAIN, <<>>, seen)
    <3>1. PICK s : s = seen
      BY Zenon
    <3>2. EntryOK(q, Result(NXDOMAIN, <<>>, s))
      <4>1. IsSeq(<<>>)
        BY DEF IsSeq
      <4>2. reply[Resolver] # None /\ reply[Resolver].kind = "dns" /\ reply[Resolver].data = None
        BY <1>8, <2>3
      <4>3. s = walk.seen \cup {<<request[Resolver].name, reply[Resolver].data>>}
        BY <1>8, <2>3, <3>1
      <4> QED
        BY <1>1, <1>2, <2>3, <4>1, <4>2, <4>3, ResultOK
    <3>3. Conclude(q, NXDOMAIN, <<>>, s)
      BY <2>3, <3>1
    <3> QED
      BY <1>1, <1>2, <1>3, <3>2, <3>3, ConcludeOK
  <2>4. CASE /\ r.kind = "dns" /\ r.data # None
             /\ \E answers \in {Chosen(q, r.data)} : Conclude(q, NOERROR, answers, seen)
    <3>1. PICK s : s = seen
      BY Zenon
    <3>2. PICK answers : answers = Chosen(q, r.data) /\ Conclude(q, NOERROR, answers, s)
      BY <2>4, <3>1
    <3>3. EntryOK(q, Result(NOERROR, answers, s))
      <4>1. /\ reply[Resolver] # None /\ reply[Resolver].kind = "dns" /\ r.data = reply[Resolver].data
            /\ reply[Resolver].data # None
        BY <1>8, <2>4
      <4>2. reply[Resolver].data \in Views
        BY <1>2, <4>1 DEF IInv, AskOK
      <4>3. IsSeq(answers)
        BY <3>2, <4>1, <4>2, ChosenIs
      <4>4. s = walk.seen \cup {<<request[Resolver].name, reply[Resolver].data>>}
        BY <3>1, <4>1
      <4>5. NOERROR # NXDOMAIN
        BY DEF NOERROR, NXDOMAIN
      <4> QED
        BY <1>1, <1>2, <3>2, <4>1, <4>3, <4>4, <4>5, ResultOK
    <3> QED
      BY <1>1, <1>2, <1>3, <3>2, <3>3, ConcludeOK
  <2> QED
    BY <2>1, <2>2, <2>3, <2>4 DEF DnsAnswered
<1> QED
  BY <1>3, <1>5, <1>6, <1>7, <1>9 DEF IInv

-----------------------------------------------------------------------------
(* Upstreams.                                                               *)

(* forward gives a reply of an upstream, or nothing.                        *)
LEMMA ForwardIs ==
  ASSUME NEW n \in Nat, NEW outcomes \in [1..n -> Replies], forward(outcomes) # None
  PROVE  forward(outcomes) \in Replies
<1> DEFINE spoke == {i \in DOMAIN outcomes : outcomes[i] # None}
<1>1. spoke # {} /\ forward(outcomes) = outcomes[Min(spoke)]
  BY DEF forward
<1>2. Min(spoke) \in spoke
  <2>1. spoke \in SUBSET Nat
    OBVIOUS
  <2> HIDE DEF spoke
  <2> QED
    BY <1>1, <2>1, MinMember
<1> QED
  BY <1>1, <1>2

(* What is taken over from a reply has as many answers.                     *)
LEMMA ExtractedIs ==
  ASSUME NEW r \in Replies, r # None, Extracted(r) # None
  PROVE  IsSeq(Extracted(r).answers) /\ Len(Extracted(r).answers) = Len(r.answers)
<1>1. DOMAIN r.answers = 1..Len(r.answers) /\ Len(r.answers) \in Nat
  BY ResolveConstants
<1>0. r.read # None /\ Extracted(r) = extract_answers(r)
  BY DEF Extracted, extract_answers
<1>2. DOMAIN r.read = 1..Len(r.answers)
  BY <1>0, ResolveConstants
<1>3. PICK ans : ans = [i \in DOMAIN r.read |-> [r.read[i] EXCEPT !.ttl = Clamp(@)]]
  BY Zenon
<1>4. Extracted(r).answers = ans
  BY <1>0, <1>3 DEF extract_answers
<1>5. DOMAIN ans = 1..Len(r.answers) /\ ans = [i \in 1..Len(r.answers) |-> ans[i]]
  BY <1>2, <1>3
<1> QED
  BY <1>1, <1>4, <1>5 DEF IsSeq

(* The reply is passed on whole, cut with the TC bit, or given up.          *)
LEMMA RelayedIs ==
  ASSUME NEW r \in Replies, r # None, NEW q
  PROVE  LET resp == Relayed(r, Budget(q))
         IN WholeReplies /\ ~resp.tc /\ resp.rcode # SERVFAIL => Len(resp.answers) = r.full
<1>1. PICK resp : resp = Relayed(r, Budget(q))
  BY Zenon
<1> DEFINE x == Extracted(r)
<1>2. CASE SizeOf(r.answers) <= Budget(q)
  <2>1. resp = [rcode |-> r.rcode, aa |-> r.aa, tc |-> r.tc, answers |-> r.answers]
    BY <1>1, <1>2 DEF Relayed
  <2>2. resp.answers = r.answers
    BY <2>1
  <2> QED
    BY <1>1, <2>2 DEF WholeReplies
<1>3. CASE ~(SizeOf(r.answers) <= Budget(q)) /\ x = None
  <2>1. resp = build_response_bounded(<<>>, SERVFAIL, FALSE, Budget(q))
    BY <1>1, <1>3 DEF Relayed
  <2>2. resp.rcode = SERVFAIL
    BY <2>1, EmptyIs
  <2> QED
    BY <1>1, <2>2
<1>4. CASE ~(SizeOf(r.answers) <= Budget(q)) /\ x # None
  <2>1. resp = build_response_bounded(x.answers, r.rcode, FALSE, Budget(q))
    BY <1>1, <1>4 DEF Relayed
  <2>2. IsSeq(x.answers) /\ Len(x.answers) = Len(r.answers)
    BY <1>4, ExtractedIs
  <2> HIDE DEF x
  <2>3. PICK n \in 0..Len(x.answers) :
          resp = [rcode |-> r.rcode, aa |-> FALSE, tc |-> n < Len(x.answers),
                  answers |-> SubSeq(x.answers, 1, n)]
    BY <2>1, <2>2, BudgetIs, BuildIs
  <2>4. resp.tc = (n < Len(x.answers)) /\ resp.answers = SubSeq(x.answers, 1, n)
    BY <2>3
  <2>5. ~resp.tc => ~(n < Len(x.answers))
    BY <2>4, Zenon
  <2>6. Len(resp.answers) = n /\ Len(x.answers) \in Nat
    BY <2>2, <2>4, CutIs DEF IsSeq
  <2>7. ~resp.tc => Len(resp.answers) = Len(r.answers)
    BY <2>2, <2>5, <2>6
  <2> QED
    BY <1>1, <2>5, <2>7 DEF WholeReplies
<1> QED
  BY <1>2, <1>3, <1>4

(* A query that is not for the registry is answered by an upstream.         *)
LEMMA DnsForwardOK ==
  ASSUME IInv, NEW q \in DOMAIN Queries, DnsForward(q)
  PROVE  IInv'
<1>1. /\ UNCHANGED <<height, store, dht, rpc, walk, upstreams, now, last>>
      /\ lock = q /\ task[q] = "forwarding" /\ lock' = None
  BY DEF DnsForward
<1>2. q # None /\ Parsed(q) # None /\ upstreams \in Nat /\ ~scone_candidate(Parsed(q).name)
  <2>1. q # None
    BY ResolveConstants
  <2> QED
    BY <1>1, <2>1 DEF IInv, WalkOK
<1>3. RecordsOK' /\ GhostOK' /\ Grows /\ UNCHANGED <<request, reply>> /\ SlotsOK' /\ QueueOK'
  BY <1>1, RelayKept, RpcKept DEF rpc
<1>4. AskOK'
  BY <1>1, <1>3 DEF IInv, AskOK
<1>5. PICK outcomes \in [1..upstreams -> Replies] :
        LET r == forward(outcomes)
            x == IF r = None THEN None ELSE Extracted(r)
            e == [at |-> now, born |-> now, seen |-> {}, full |-> IF r = None THEN 0 ELSE r.full]
        IN IF r = None
             THEN /\ Respond(q, build_response_bounded(<<>>, SERVFAIL, FALSE, Budget(q)), e)
                  /\ UNCHANGED cache
             ELSE /\ Respond(q, Relayed(r, Budget(q)), e)
                  /\ cache' = IF x = None THEN cache
                              ELSE put(cache, KeyOf(q),
                                       [answers |-> x.answers, rcode |-> r.rcode, ttl |-> x.ttl,
                                        aa |-> FALSE, at |-> now, born |-> now, seen |-> {},
                                        full |-> r.full])
  BY DEF DnsForward
<1>6. PICK r, e : /\ r = forward(outcomes)
                  /\ e = [at |-> now, born |-> now, seen |-> {}, full |-> IF r = None THEN 0 ELSE r.full]
  BY Zenon
<1>7. CacheOK' /\ ResponsesOK' /\ task' = [task EXCEPT ![q] = "done"]
  <2>1. CASE r = None
    <3>1. PICK resp : resp = build_response_bounded(<<>>, SERVFAIL, FALSE, Budget(q))
      BY Zenon
    <3>2. Respond(q, resp, e) /\ cache' = cache
      BY <1>5, <1>6, <2>1, <3>1
    <3>3. resp.rcode = SERVFAIL /\ ~resp.aa
      BY <3>1, EmptyIs
    <3>4. ResponsesOK' /\ task' = [task EXCEPT ![q] = "done"]
      BY <1>3, <3>2, <3>3, PlainIs, RespondIs
    <3> QED
      BY <1>3, <3>2, <3>4, CacheKept DEF IInv
  <2>2. CASE r # None
    <3>1. r \in Replies
      BY <1>2, <1>6, <2>2, ForwardIs
    <3>2. PICK resp, x : resp = Relayed(r, Budget(q)) /\ x = Extracted(r)
      BY Zenon
    <3>3. e.full = r.full
      BY <1>6, <2>2
    <3>4. /\ Respond(q, resp, e)
          /\ cache' = IF x = None THEN cache
                      ELSE put(cache, KeyOf(q),
                               [answers |-> x.answers, rcode |-> r.rcode, ttl |-> x.ttl,
                                aa |-> FALSE, at |-> now, born |-> now, seen |-> {},
                                full |-> r.full])
      BY <1>5, <1>6, <2>2, <3>2
    <3>5. WholeReplies /\ ~resp.tc /\ resp.rcode # SERVFAIL => Len(resp.answers) = e.full
      BY <2>2, <3>1, <3>2, <3>3, RelayedIs
    <3>6. ResponsesOK' /\ task' = [task EXCEPT ![q] = "done"]
      BY <1>2, <1>3, <3>4, <3>5, PlainIs, RespondIs
    <3>7. CASE x = None
      BY <1>3, <3>4, <3>6, <3>7, CacheKept DEF IInv
    <3>8. CASE x # None
      <4>1. PICK f : f = [answers |-> x.answers, rcode |-> r.rcode, ttl |-> x.ttl,
                          aa |-> FALSE, at |-> now, born |-> now, seen |-> {}, full |-> r.full]
        BY Zenon
      <4>2. f.answers = x.answers /\ f.aa = FALSE /\ f.at = now /\ f.full = r.full
        BY <4>1
      <4>3. ~f.aa
        BY <4>2, Zenon
      <4>4. IsSeq(x.answers) /\ Len(x.answers) = Len(r.answers)
        BY <2>2, <3>1, <3>2, <3>8, ExtractedIs
      <4>5. WholeReplies => f.full = Len(f.answers)
        BY <2>2, <3>1, <4>2, <4>4 DEF WholeReplies
      <4>6. now \in Nat
        BY DEF IInv, GhostOK
      <4>7. EntryOK(q, f)
        BY <4>2, <4>3, <4>4, <4>5, <4>6 DEF EntryOK
      <4>8. cache' = put(cache, KeyOf(q), f)
        BY <3>4, <3>8, <4>1
      <4> QED
        BY <1>3, <3>6, <4>7, <4>8, PutIs
    <3> QED
      BY <3>7, <3>8
  <2> QED
    BY <2>1, <2>2
<1>8. WalkOK'
  <2>1. task' = [p \in DOMAIN Queries |-> task'[p]]
    BY <1>7 DEF IInv, WalkOK
  <2> QED
    BY <1>1, <1>2, <2>1 DEF WalkOK
<1> QED
  BY <1>3, <1>4, <1>7, <1>8 DEF IInv

-----------------------------------------------------------------------------
(* The theorems.                                                            *)

(* Every step preserves the invariant.                                      *)
LEMMA StepOK == IInv /\ [Next]_vars => IInv'
<1> SUFFICES ASSUME IInv, [Next]_vars PROVE IInv'
  OBVIOUS
<1>1. CASE UNCHANGED vars
  <2>1. UNCHANGED <<height, store, dht, rpc, dns, now, last>>
    BY <1>1 DEF vars
  <2>2. UNCHANGED <<request, reply>>
    BY <2>1 DEF rpc
  <2> QED
    BY <2>1, <2>2, OthersKept, RpcKept, AskKept DEF IInv
<1>2. CASE Next
  BY <1>2, NextBlockOK, TickOK, PeerRecordOK, AcceptOK, ReadOK, ReadTimeoutOK, FinishOK,
     DispatchLocalOK, DispatchPutOK, DispatchGetOK, KadFoundOK, KadEndOK, ExpireOK,
     DnsReceiveOK, DnsSilenceOK, DnsHitOK, DnsMissOK, DnsAskOK, DnsAnsweredOK, DnsForwardOK
     DEF Next
<1> QED
  BY <1>1, <1>2

(* It always holds.                                                         *)
LEMMA Invariant == Spec => []IInv
BY InitOK, StepOK, PTL DEF Spec

(* dns.rs: for a name that the relay resolves itself, an authoritative      *)
(* response, from a search or from the cache, is what the suffix search     *)
(* gives for views that were all current after it began, and is served for  *)
(* less than ANSWER_TTL.                                                    *)
THEOREM Fresh == Spec => []AnswersFresh
<1>1. IInv => AnswersFresh
  <2> SUFFICES ASSUME IInv, NEW q \in DOMAIN Queries, response[q] # None, response[q].aa,
                      scone_candidate(Parsed(q).name)
               PROVE  LET r     == response[q]
                          name  == Parsed(q).name
                          views == {x[2] : x \in r.seen} \ {None}
                      IN /\ r.served - r.at < ANSWER_TTL
                         /\ \A x \in r.seen : x[1] \in Domains => last[x[1]][x[2]] >= r.born
                         /\ {Len(x[1]) : x \in r.seen} = (Len(name) - Cardinality(r.seen) + 1)..Len(name)
                         /\ \A x \in r.seen : x[1] = Suffix(name, Len(x[1]))
                         /\ IF r.rcode = NXDOMAIN
                              THEN views = {} /\ Cardinality(r.seen) = Len(name) - 1
                              ELSE \E v \in views : IsPrefix(r.answers, Chosen(q, v))
    BY DEF AnswersFresh
  <2>1. PICK r, name : r = response[q] /\ name = Parsed(q).name
    BY Zenon
  <2>2. ResponseOK(q, r) /\ r.aa
    BY <2>1 DEF IInv, ResponsesOK
  <2>3. Parsed(q) # None /\ r.served - r.at < ANSWER_TTL
    BY <2>2 DEF ResponseOK
  <2>4. PICK k \in 2..Len(name), v \in Views :
          Searched(q, r, k, v) /\ (r.rcode # NXDOMAIN => IsPrefix(r.answers, Chosen(q, v)))
    BY <2>1, <2>2 DEF ResponseOK
  <2>5. name \in Seq(STRING) /\ Len(name) \in Nat
    BY <2>1, <2>3, ParsedIs
  <2>6. /\ r.seen = SearchOf(name, k, v)
        /\ \A j \in k..Len(name) : CurrentSince(Suffix(name, j), IF j = k THEN v ELSE None, r.born)
        /\ r.rcode = NXDOMAIN => k = 2 /\ v = None
        /\ r.rcode # NXDOMAIN => v # None
    BY <2>1, <2>4 DEF Searched
  <2>7. /\ Cardinality(r.seen) = Len(name) - k + 1
        /\ {Len(x[1]) : x \in r.seen} = k..Len(name)
        /\ \A x \in r.seen : x[1] = Suffix(name, Len(x[1]))
        /\ {x[2] : x \in r.seen} \ {None} = {v} \ {None}
    <3>1. SearchShape(SearchOf(name, k, v), name, k, v)
      BY <2>5, SearchIs
    <3>2. SearchShape(r.seen, name, k, v)
      BY <2>6, <3>1, Zenon
    <3> QED
      BY <3>2, Zenon DEF SearchShape
  <2>8. \A x \in r.seen : x[1] \in Domains => last[x[1]][x[2]] >= r.born
    <3> SUFFICES ASSUME NEW x \in r.seen, x[1] \in Domains PROVE last[x[1]][x[2]] >= r.born
      OBVIOUS
    <3>1. PICK j \in k..Len(name) : x = <<Suffix(name, j), IF j = k THEN v ELSE None>>
      BY <2>6 DEF SearchOf
    <3>2. x[1] = Suffix(name, j) /\ x[2] = IF j = k THEN v ELSE None
      BY <3>1
    <3> QED
      BY <2>6, <3>2 DEF CurrentSince
  <2>9. Len(name) - Cardinality(r.seen) + 1 = k
    BY <2>5, <2>7
  <2>10. r.rcode = NXDOMAIN =>
           {x[2] : x \in r.seen} \ {None} = {} /\ Cardinality(r.seen) = Len(name) - 1
    <3>1. r.rcode = NXDOMAIN => Cardinality(r.seen) = Len(name) - 1
      BY <2>5, <2>6, <2>7
    <3>2. r.rcode = NXDOMAIN => {v} \ {None} = {}
      BY <2>6
    <3> QED
      BY <2>7, <3>1, <3>2, Zenon
  <2>11. r.rcode # NXDOMAIN =>
           \E w \in {x[2] : x \in r.seen} \ {None} : IsPrefix(r.answers, Chosen(q, w))
    <3>1. r.rcode # NXDOMAIN => v \in {v} \ {None}
      BY <2>6
    <3> QED
      BY <2>4, <2>7, <3>1, Zenon
  <2> QED
    BY <2>1, <2>3, <2>7, <2>8, <2>9, <2>10, <2>11
<1> QED
  BY <1>1, Invariant, PTL

(* dns.rs build_response_bounded: as long as the upstreams send whole       *)
(* replies, a response without the TC bit, from any source, on either       *)
(* transport, carries the whole answer set.                                 *)
THEOREM Uncut ==
  ASSUME WholeReplies
  PROVE  Spec => []NoSilentCut
<1>1. IInv => NoSilentCut
  BY DEF IInv, ResponsesOK, ResponseOK, NoSilentCut
<1> QED
  BY <1>1, Invariant, PTL

(* rpc_dispatch.rs: as long as the records of the DHT are under the keys of *)
(* their domains, an answer with a record carries the one that the          *)
(* requested domain commits to at that moment.                              *)
THEOREM Verified ==
  ASSUME WellFiled
  PROVE  Spec => AnswersVerified
<1> DEFINE Good(c) ==
      reply'[c] # reply[c] /\ reply'[c] # None =>
        LET reg == History[height][request[c].name]
        IN /\ reply'[c].kind = "record" =>
                /\ reply'[c].record.domain = request[c].name
                /\ reg # None /\ reg.hash = record_hash(reply'[c].record)
           /\ reply'[c].kind = "dns" /\ reply'[c].data \notin {None, <<>>} =>
                /\ reg # None /\ reg.hash # None /\ reg.hash[3] = reply'[c].data
<1>1. ASSUME IInv, NEW c \in Callers, NEW d \in Callers, NEW r, reply' = [reply EXCEPT ![c] = r],
             r.kind \notin {"record", "dns"}
      PROVE  Good(d)
  BY <1>1 DEF IInv, SlotsOK
<1>2. ASSUME IInv, NEW c \in Callers, NEW d \in Callers, DispatchLocal(c)
      PROVE  Good(d)
  <2> DEFINE name == request[c].name
  <2> DEFINE v == resolve_local(History[height], store, name)
  <2>1. PICK r : /\ reply' = [reply EXCEPT ![c] = r]
                 /\ r = IF ValidName(name) THEN [kind |-> "dns", data |-> v] ELSE [kind |-> "error"]
    BY <1>2 DEF DispatchLocal, Answer
  <2>2. d # c => reply'[d] = reply[d]
    BY <1>2, <2>1 DEF IInv, SlotsOK
  <2>3. reply'[c] = r
    BY <1>2, <2>1 DEF IInv, SlotsOK
  <2>4. r.kind # "record" /\ (r.kind = "dns" => r.data = v)
    BY <2>1
  <2>5. ASSUME v \notin {None, <<>>}
        PROVE  LET reg == History[height][name]
               IN reg # None /\ reg.hash # None /\ reg.hash[3] = v
    <3>1. /\ name \in Domains /\ History[height][name] # None /\ store[name] # None
          /\ verify_record_against_chain(History[height], store[name]) /\ v = store[name].data
      BY <2>5 DEF resolve_local, LocalData
    <3>2. store[name] \in Records /\ store[name].domain = name
      BY <1>2, <3>1 DEF IInv, RecordsOK
    <3>3. History[height][name].hash = record_hash(store[name]) /\ record_hash(store[name]) # None
      BY <3>1, <3>2, ResolveConstants DEF verify_record_against_chain
    <3>4. record_hash(store[name])[3] = v
      BY <3>1 DEF record_hash
    <3> QED
      BY <3>1, <3>3, <3>4
  <2> HIDE DEF v
  <2> QED
    BY <2>2, <2>3, <2>4, <2>5
<1>3. ASSUME IInv, NEW c \in Clients, NEW d \in Callers, NEW x \in dht, KadFound(c, x[1], x[2])
      PROVE  Good(d)
  <2> DEFINE w == waiters[WaiterOf(c)]
  <2> DEFINE r == x[2]
  <2>0. c \in Callers
    BY DEF Callers
  <2>1. CASE ~Waiting(c)
    BY <1>3, <2>1 DEF KadFound
  <2>2. CASE Waiting(c) /\ x[1] = w.domain /\ verify_record_against_chain(History[height], r)
    <3>1. reply' = [reply EXCEPT ![c] = [kind |-> "record", record |-> r]]
      BY <1>3, <2>2 DEF KadFound, Answer
    <3>2. d # c => reply'[d] = reply[d]
      BY <1>3, <3>1 DEF IInv, SlotsOK
    <3>3. reply'[c] = [kind |-> "record", record |-> r]
      BY <1>3, <2>0, <3>1 DEF IInv, SlotsOK
    <3>4. w.domain = request[c].name
      <4>1. w \in Parked /\ w.id = c
        BY <1>3, <2>2, WithoutIs
      <4>2. w.domain = RequestOf[c].name
        BY <4>1 DEF Parked
      <4> QED
        BY <1>3, <4>2 DEF IInv, SlotsOK
    <3>5. r.domain = request[c].name
      BY <1>3, <2>2, <3>4 DEF IInv, RecordsOK
    <3>6. /\ History[height][request[c].name] # None
          /\ History[height][request[c].name].hash = record_hash(r)
      BY <2>2, <3>5 DEF verify_record_against_chain
    <3>7. reply'[c].kind = "record" /\ reply'[c].record = r
      BY <3>3
    <3> HIDE DEF r
    <3> QED
      BY <3>2, <3>5, <3>6, <3>7
  <2>3. CASE Waiting(c) /\ ~(x[1] = w.domain /\ verify_record_against_chain(History[height], r))
    <3>1. reply' = [reply EXCEPT ![c] = [kind |-> "error"]]
      BY <1>3, <2>3 DEF KadFound, Answer
    <3> QED
      BY <1>1, <1>3, <2>0, <3>1
  <2> QED
    BY <2>1, <2>2, <2>3
<1>4. IInv /\ [Next]_vars => [\A c \in Callers : Good(c)]_vars
  <2> SUFFICES ASSUME IInv, Next, NEW d \in Callers PROVE Good(d)
    OBVIOUS
  <2>1. ASSUME NEW c \in Callers, Read(c) \/ DispatchPut(c) \/ DispatchGet(c)
        PROVE  Good(d)
    <3>1. \/ reply' = reply
          \/ reply' = [reply EXCEPT ![c] = [kind |-> "error"]]
          \/ reply' = [reply EXCEPT ![c] = [kind |-> "published"]]
      BY <2>1 DEF Read, DispatchPut, DispatchGet, Answer
    <3>2. CASE reply' = reply
      BY <3>2
    <3>3. CASE reply' = [reply EXCEPT ![c] = [kind |-> "error"]]
      BY <1>1, <3>3
    <3>4. CASE reply' = [reply EXCEPT ![c] = [kind |-> "published"]]
      BY <1>1, <3>4
    <3> QED
      BY <3>1, <3>2, <3>3, <3>4
  <2>2. ASSUME NEW c \in Clients, NEW looked \in BOOLEAN, KadEnd(c, looked)
        PROVE  Good(d)
    <3>1. reply' = reply \/ reply' = [reply EXCEPT ![c] = [kind |-> "error"]]
      BY <2>2 DEF KadEnd, Answer
    <3>2. c \in Callers
      BY DEF Callers
    <3>3. CASE reply' = reply
      BY <3>3
    <3>4. CASE reply' = [reply EXCEPT ![c] = [kind |-> "error"]]
      BY <1>1, <3>2, <3>4
    <3> QED
      BY <3>1, <3>3, <3>4
  <2>3. ASSUME NEW k \in DOMAIN waiters, Expire(k)
        PROVE  Good(d)
    <3>1. reply'[d] = reply[d] \/ reply'[d] = [kind |-> "error"]
      BY <2>3 DEF Expire
    <3>2. CASE reply'[d] = [kind |-> "error"]
      <4>1. reply'[d].kind = "error"
        BY <3>2
      <4> QED
        BY <4>1
    <3> QED
      BY <3>1, <3>2
  <2>4. ASSUME NEW q \in DOMAIN Queries, DnsAnswered(q)
        PROVE  Good(d)
    <3>1. reply'[d] = reply[d] \/ reply'[d] = None
      BY <2>4 DEF DnsAnswered, IInv, SlotsOK
    <3> QED
      BY <3>1
  <2>5. ASSUME reply' = reply PROVE Good(d)
    BY <2>5
  <2>6. ASSUME NEW c \in Callers, Accept(c) \/ ReadTimeout(c) \/ Finish(c) PROVE reply' = reply
    BY <2>6 DEF Accept, ReadTimeout, Finish
  <2>7. NextBlock \/ Tick \/ (\E r \in PeerRecords : PeerRecord(r)) => reply' = reply
    BY DEF NextBlock, Tick, PeerRecord, rpc
  <2>8. ASSUME NEW q \in DOMAIN Queries,
               DnsReceive(q) \/ DnsSilence(q) \/ DnsHit(q) \/ DnsMiss(q) \/ DnsAsk(q) \/ DnsForward(q)
        PROVE  reply' = reply
    BY <2>8 DEF DnsReceive, DnsSilence, DnsHit, DnsMiss, DnsAsk, DnsForward, rpc
  <2> HIDE DEF Good
  <2> QED
    BY <1>2, <1>3, <2>1, <2>2, <2>3, <2>4, <2>5, <2>6, <2>7, <2>8 DEF Next
<1>5. [][\A c \in Callers : Good(c)]_vars => AnswersVerified
  BY DEF AnswersVerified
<1> HIDE DEF Good
<1> QED
  BY <1>4, <1>5, Invariant, PTL DEF Spec
=============================================================================
