\* An authoritative upstream that cuts its replies; each property by itself, or
\* both with -continue.
CONSTANTS
  None = None
  o1 = o1
  o2 = o2
  c1 = c1
  c2 = c2
  c3 = c3
  c4 = c4
  c5 = c5
  Clients = {c1, c2, c3, c4, c5}
  RequestOf <- MCRequestOf
  Domains <- MCDomains
  History <- MCHistory
  BadLabels = {}
  InitDht <- MCInitDht
  PeerRecords <- MCPeerRecords
  Queries <- MCQueries
  TransportOf <- MCTransportOf
  Loads <- MCLoads
  Replies <- CutReplies
  MaxTime = 1
  IcannTlds = {"com"}
  ANSWER_TTL = 1
  MAX_FALLBACK_TTL = 2
  MAX_LABELS = 3
  HEADER = 2
  UDP_PAYLOAD_LIMIT = 6
  MAX_TCP_RESPONSE = 20
  CACHE_CAPACITY = 1
  MAX_DHT_WAITERS = 1
  MAX_RPC_CONNECTIONS = 2
  MAX_INFLIGHT_UDP = 1
  MAX_TCP_CONNS = 1
SPECIFICATION Spec
CHECK_DEADLOCK FALSE
INVARIANTS
  NoSilentCut
  AaIsOurs
