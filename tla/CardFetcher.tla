---------------------------- MODULE CardFetcher -----------------------------
(***************************************************************************)
(* AgentCardFetcher (client/card_fetcher.py): the client's cache of the    *)
(* remote Agent Card.  fetch() reads the clock, answers from the cache     *)
(* while it is young enough, and otherwise awaits a GET; any number of     *)
(* fetches overlap on one client, their responses in any order, and        *)
(* nothing stops a slow one from storing its card over a newer one.        *)
(***************************************************************************)
EXTENDS Integers

CONSTANTS
  Fetches,   \* calls of fetch()
  TTL,       \* seconds a cached card is good for
  MaxTime,   \* the clock stops here (a bound)
  NoCard, Unusable   \* no card, and a response that is no card

ASSUME TTLAssumption == TTL \in Nat
ASSUME MaxTimeAssumption == MaxTime \in Nat
ASSUME NoCardAssumption == NoCard \notin Nat \cup {Unusable} /\ Unusable \notin Nat

VARIABLES
  now,       \* time.monotonic()
  version,   \* the card the server serves now
  retired,   \* when the server stopped serving a card
  cached,    \* _cached
  cachedAt,  \* _cached_at
  pc,        \* of a fetch: "new", "sent", "answered", "returned", "raised"
  start,     \* its local variable now
  response,  \* what its GET brought
  result     \* what it returned

serverVars == <<version, retired>>
cacheVars  == <<cached, cachedAt>>
fetchVars  == <<pc, start, response, result>>
vars == <<now, serverVars, cacheVars, fetchVars>>

-----------------------------------------------------------------------------
(* The clock and the server *)

Tick ==
  /\ now < MaxTime
  /\ now' = now + 1
  /\ UNCHANGED <<serverVars, cacheVars, fetchVars>>

(* At most one new card a tick. *)
Publish ==
  /\ version < now
  /\ version' = version + 1
  /\ retired' = [retired EXCEPT ![version] = now]
  /\ UNCHANGED <<now, cacheVars, fetchVars>>

(* A card, or an HTTP error, or a body that does not parse. *)
Answer(f) ==
  /\ pc[f] = "sent"
  /\ pc' = [pc EXCEPT ![f] = "answered"]
  /\ \E r \in {version, Unusable} : response' = [response EXCEPT ![f] = r]
  /\ UNCHANGED <<now, serverVars, cacheVars, start, result>>

-----------------------------------------------------------------------------
(* fetch() *)

Young == cached # NoCard /\ now - cachedAt < TTL

Return(f, card) ==
  /\ pc' = [pc EXCEPT ![f] = "returned"]
  /\ result' = [result EXCEPT ![f] = card]

Hit(f) ==
  /\ pc[f] = "new" /\ Young
  /\ start' = [start EXCEPT ![f] = now]
  /\ Return(f, cached)
  /\ UNCHANGED <<now, serverVars, cacheVars, response>>

Miss(f) ==
  /\ pc[f] = "new" /\ ~Young
  /\ start' = [start EXCEPT ![f] = now]
  /\ pc' = [pc EXCEPT ![f] = "sent"]
  /\ UNCHANGED <<now, serverVars, cacheVars, response, result>>

(* A slip: the card is stamped with the time its response was handled. *)
StoreStampedLate(f) ==
  /\ pc[f] = "answered" /\ response[f] # Unusable
  /\ cached' = response[f] /\ cachedAt' = now
  /\ Return(f, response[f])
  /\ UNCHANGED <<now, serverVars, start, response>>

(* A slip: the status and the body of the response are not checked. *)
StoreUnchecked(f) ==
  /\ pc[f] = "answered"
  /\ cached' = response[f] /\ cachedAt' = start[f]
  /\ Return(f, response[f])
  /\ UNCHANGED <<now, serverVars, start, response>>

(* A slip: an answer that finds a card in the cache gives way to it. *)
StoreUnlessCached(f) ==
  /\ pc[f] = "answered" /\ response[f] # Unusable
  /\ LET card == IF cached = NoCard THEN response[f] ELSE cached
     IN  cached' = card /\ cachedAt' = start[f] /\ Return(f, card)
  /\ UNCHANGED <<now, serverVars, start, response>>

Store(f) ==
  /\ pc[f] = "answered" /\ response[f] # Unusable
  /\ cached' = response[f] /\ cachedAt' = start[f]
  /\ Return(f, response[f])
  /\ UNCHANGED <<now, serverVars, start, response>>

(* A2ADiscoveryError for what was answered, httpx's error for what was not; *)
(* either leaves the cache as it was.                                      *)
Raise(f) ==
  /\ pc[f] = "sent" \/ (pc[f] = "answered" /\ response[f] = Unusable)
  /\ pc' = [pc EXCEPT ![f] = "raised"]
  /\ UNCHANGED <<now, serverVars, cacheVars, start, response, result>>

-----------------------------------------------------------------------------

Init ==
  /\ now = 0
  /\ version = 0 /\ retired = [v \in 0 .. MaxTime |-> 0]
  /\ cached = NoCard /\ cachedAt = 0
  /\ pc = [f \in Fetches |-> "new"]
  /\ start = [f \in Fetches |-> 0]
  /\ response = [f \in Fetches |-> NoCard]
  /\ result = [f \in Fetches |-> NoCard]

(* Every fetch is over and the clock has stopped. *)
Rest ==
  /\ \A f \in Fetches : pc[f] \in {"returned", "raised"}
  /\ now = MaxTime /\ version = MaxTime
  /\ UNCHANGED vars

Next ==
  \/ Tick \/ Publish \/ Rest
  \/ \E f \in Fetches : Answer(f) \/ Hit(f) \/ Miss(f) \/ Store(f) \/ Raise(f)

Spec == Init /\ [][Next]_vars

-----------------------------------------------------------------------------
(* Properties *)

(* The types: only a card is ever cached or returned, never the body of a  *)
(* failed response.                                                        *)
TypeOK ==
  /\ now \in 0 .. MaxTime
  /\ version \in 0 .. now
  /\ retired \in [0 .. MaxTime -> 0 .. MaxTime]
  /\ cached \in 0 .. version \cup {NoCard}
  /\ cachedAt \in 0 .. now
  /\ pc \in [Fetches -> {"new", "sent", "answered", "returned", "raised"}]
  /\ start \in [Fetches -> 0 .. now]
  /\ response \in [Fetches -> 0 .. version \cup {NoCard, Unusable}]
  /\ result \in [Fetches -> 0 .. version \cup {NoCard}]

(* The last moment the server served a card. *)
LastServed(v) == IF v = version THEN now ELSE retired[v]

(* A fetch that sent no GET was answered from the cache. *)
FromCache(f) == response[f] = NoCard

(* Whatever the order in which overlapping fetches store their cards, one  *)
(* that is answered from the cache returns no card the server had given up *)
(* serving a whole TTL before the call, and one that missed the cache only *)
(* a card that was still served at the time of the call.                   *)
Freshness ==
  \A f \in Fetches : result[f] # NoCard =>
    IF FromCache(f) THEN LastServed(result[f]) > start[f] - TTL
                    ELSE LastServed(result[f]) >= start[f]
=============================================================================
