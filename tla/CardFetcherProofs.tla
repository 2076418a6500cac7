------------------------- MODULE CardFetcherProofs --------------------------
(***************************************************************************)
(* The card cache of CardFetcher keeps its promise for any number of       *)
(* overlapping fetches, any TTL and any schedule of the server's cards.    *)
(*                                                                         *)
(* Freshness speaks of what has been returned.  What makes it inductive is *)
(* one fact about what may be returned next: a card that is cached, or on  *)
(* its way in a response, was still served at the moment it is (or will    *)
(* be) stamped with, since the stamp is taken before the GET is sent.      *)
(***************************************************************************)
EXTENDS CardFetcher, TLAPS

(* The stamp of a card is no later than the last moment it was served. *)
StampIsHonest == cached # NoCard => cachedAt <= LastServed(cached)

(* A response in flight was served after its fetch began. *)
ResponseIsCurrent ==
  \A f \in Fetches :
    pc[f] = "answered" /\ response[f] # Unusable =>
      response[f] # NoCard /\ start[f] <= LastServed(response[f])

(* Nothing has been returned by a fetch that has not, and nothing has come *)
(* in for one that has asked for nothing, or is still waiting.             *)
OnlyReturnedHaveResults ==
  \A f \in Fetches :
    /\ pc[f] \in {"new", "sent", "answered"} => result[f] = NoCard
    /\ pc[f] \in {"new", "sent"} => response[f] = NoCard

IInv == TypeOK /\ StampIsHonest /\ ResponseIsCurrent /\ OnlyReturnedHaveResults /\ Freshness

(* A card that was served until some moment still was, whatever a step     *)
(* does to the clock and the server: LastServed never goes back.           *)
LEMMA LastServedGrows ==
  ASSUME TypeOK, TypeOK', [Next]_vars, NEW v \in 0 .. version
  PROVE  LastServed(v) \in Int /\ LastServed(v)' \in Int /\ LastServed(v) <= LastServed(v)'
<1>1. /\ now \in 0 .. MaxTime /\ version \in 0 .. now
      /\ retired \in [0 .. MaxTime -> 0 .. MaxTime]
  BY DEF TypeOK
<1>2. v \in 0 .. MaxTime
  BY <1>1, MaxTimeAssumption
<1>3. retired[v] \in Int /\ now \in Int /\ version \in Int
  BY <1>1, <1>2, MaxTimeAssumption
<1>4. LastServed(v) \in Int
  BY <1>3 DEF LastServed
<1>5. CASE Tick
  BY <1>3, <1>5 DEF Tick, serverVars, LastServed
<1>6. CASE Publish
  <2>1. retired'[v] = IF v = version THEN now ELSE retired[v]
    BY <1>1, <1>2, <1>6 DEF Publish
  <2>2. version' = version + 1 /\ now' = now /\ v # version'
    BY <1>1, <1>6 DEF Publish
  <2>3. LastServed(v)' = LastServed(v)
    BY <2>1, <2>2 DEF LastServed
  <2>4. QED
    BY <1>4, <2>3
<1>7. CASE UNCHANGED <<now, version, retired>>
  BY <1>4, <1>7 DEF LastServed
<1>8. QED
  BY <1>5, <1>6, <1>7
     DEF Next, Rest, vars, serverVars, Answer, Hit, Miss, Store, Raise

(* TypeOK is inductive on its own, given that a response is never missing  *)
(* when its fetch is answered.                                             *)
LEMMA TypeInductive ==
  ASSUME TypeOK, ResponseIsCurrent, [Next]_vars
  PROVE  TypeOK'
<1> USE TTLAssumption, MaxTimeAssumption, NoCardAssumption DEF TypeOK
<1>1. CASE Tick
  BY <1>1 DEF Tick, serverVars, cacheVars, fetchVars
<1>2. CASE Publish
  <2>1. retired' \in [0 .. MaxTime -> 0 .. MaxTime]
    BY <1>2 DEF Publish
  <2>2. version' \in 0 .. now' /\ 0 .. version \subseteq 0 .. version'
    BY <1>2 DEF Publish
  <2>3. QED
    BY <1>2, <2>1, <2>2 DEF Publish, cacheVars, fetchVars
<1>3. ASSUME NEW f \in Fetches, Answer(f) PROVE TypeOK'
  <2>1. PICK r \in {version, Unusable} : response' = [response EXCEPT ![f] = r]
    BY <1>3 DEF Answer
  <2>2. r \in 0 .. version \cup {NoCard, Unusable}
    BY <2>1
  <2>3. response' \in [Fetches -> 0 .. version \cup {NoCard, Unusable}]
    BY <2>1, <2>2
  <2>4. pc' \in [Fetches -> {"new", "sent", "answered", "returned", "raised"}]
    BY <1>3 DEF Answer
  <2>5. QED
    BY <1>3, <2>3, <2>4 DEF Answer, serverVars, cacheVars
<1>4. ASSUME NEW f \in Fetches, Hit(f) PROVE TypeOK'
  <2>1. cached \in 0 .. version
    BY <1>4 DEF Hit, Young
  <2>2. result' \in [Fetches -> 0 .. version \cup {NoCard}]
    BY <1>4, <2>1 DEF Hit, Return
  <2>3. start' \in [Fetches -> 0 .. now]
    BY <1>4 DEF Hit
  <2>4. pc' \in [Fetches -> {"new", "sent", "answered", "returned", "raised"}]
    BY <1>4 DEF Hit, Return
  <2>5. QED
    BY <1>4, <2>2, <2>3, <2>4 DEF Hit, serverVars, cacheVars
<1>5. ASSUME NEW f \in Fetches, Miss(f) PROVE TypeOK'
  BY <1>5 DEF Miss, serverVars, cacheVars
<1>6. ASSUME NEW f \in Fetches, Store(f) PROVE TypeOK'
  <2>1. response[f] \in 0 .. version /\ start[f] \in 0 .. now
    BY <1>6 DEF Store, ResponseIsCurrent
  <2>2. QED
    BY <1>6, <2>1 DEF Store, Return, serverVars
<1>7. ASSUME NEW f \in Fetches, Raise(f) PROVE TypeOK'
  BY <1>7 DEF Raise, serverVars, cacheVars
<1>8. CASE UNCHANGED vars
  BY <1>8 DEF vars, serverVars, cacheVars, fetchVars
<1>9. QED
  BY <1>1, <1>2, <1>3, <1>4, <1>5, <1>6, <1>7, <1>8 DEF Next, Rest

(* The rest of the invariant, one step per action.                         *)
LEMMA Inductive ==
  ASSUME IInv, [Next]_vars
  PROVE  IInv'
<1> DEFINE Was(v) == IF v = version THEN now ELSE retired[v]
           Is(v)  == IF v = version' THEN now' ELSE retired'[v]
<1>1. TypeOK /\ TypeOK'
  BY TypeInductive DEF IInv
<1>2. \A v \in 0 .. version : Was(v) \in Int /\ Is(v) \in Int /\ Was(v) <= Is(v)
  BY <1>1, LastServedGrows DEF LastServed
<1>3. /\ cached # NoCard => cached \in 0 .. version /\ cachedAt <= Was(cached)
      /\ \A f \in Fetches : pc[f] = "answered" /\ response[f] # Unusable =>
           response[f] \in 0 .. version /\ start[f] <= Was(response[f])
      /\ \A f \in Fetches : result[f] # NoCard =>
           /\ result[f] \in 0 .. version
           /\ IF response[f] = NoCard THEN Was(result[f]) > start[f] - TTL
                                      ELSE Was(result[f]) >= start[f]
  BY <1>1 DEF IInv, FromCache, StampIsHonest, ResponseIsCurrent, Freshness, TypeOK, LastServed
<1>4. /\ cachedAt \in Int /\ TTL \in Int /\ now \in Int
      /\ \A f \in Fetches : start[f] \in Int
  BY <1>1, TTLAssumption, MaxTimeAssumption DEF TypeOK
<1>5. /\ StampIsHonest' <=> (cached' # NoCard => cachedAt' <= Is(cached'))
      /\ ResponseIsCurrent' <=>
           \A f \in Fetches : pc'[f] = "answered" /\ response'[f] # Unusable =>
             response'[f] # NoCard /\ start'[f] <= Is(response'[f])
      /\ Freshness' <=>
           \A f \in Fetches : result'[f] # NoCard =>
             IF response'[f] = NoCard THEN Is(result'[f]) > start'[f] - TTL
                                      ELSE Is(result'[f]) >= start'[f]
  BY DEF FromCache, StampIsHonest, ResponseIsCurrent, Freshness, LastServed
<1> HIDE DEF Was, Is
<1>6. OnlyReturnedHaveResults'
  BY <1>1 DEF IInv, OnlyReturnedHaveResults, Next, vars, fetchVars, TypeOK,
     Tick, Publish, Rest, Answer, Hit, Miss, Store, Raise, Return
<1>7. SUFFICES StampIsHonest' /\ ResponseIsCurrent' /\ Freshness'
  BY <1>1, <1>6 DEF IInv
<1>8. CASE UNCHANGED <<cacheVars, fetchVars>>
  BY <1>2, <1>3, <1>4, <1>5, <1>8, NoCardAssumption DEF cacheVars, fetchVars
<1>9. ASSUME NEW f \in Fetches, Answer(f) PROVE StampIsHonest' /\ ResponseIsCurrent' /\ Freshness'
  <2>1. UNCHANGED <<now, version, retired, cached, cachedAt, start, result>>
    BY <1>9 DEF Answer, serverVars, cacheVars
  <2>2. \A g \in Fetches : g # f => pc'[g] = pc[g] /\ response'[g] = response[g]
    BY <1>1, <1>9 DEF Answer, TypeOK
  <2>3. response'[f] \in {version, Unusable}
    BY <1>1, <1>9 DEF Answer, TypeOK
  <2>4. version \in 0 .. version /\ Is(version) = now /\ start[f] <= now
    BY <1>1, <2>1, MaxTimeAssumption DEF TypeOK, Is
  <2>5. ResponseIsCurrent'
    BY <1>2, <1>3, <1>4, <1>5, <2>1, <2>2, <2>3, <2>4, NoCardAssumption
  <2>6. StampIsHonest'
    BY <1>2, <1>3, <1>4, <1>5, <2>1
  <2>7. result'[f] = NoCard
    BY <1>9, <2>1 DEF Answer, IInv, OnlyReturnedHaveResults
  <2>8. Freshness'
    BY <1>2, <1>3, <1>4, <1>5, <2>1, <2>2, <2>7
  <2>9. QED
    BY <2>5, <2>6, <2>8
<1>10. ASSUME NEW f \in Fetches, Hit(f) PROVE StampIsHonest' /\ ResponseIsCurrent' /\ Freshness'
  <2>1. /\ UNCHANGED <<now, version, retired, cached, cachedAt, response>>
        /\ cached # NoCard /\ now - cachedAt < TTL
        /\ start'[f] = now /\ result'[f] = cached /\ pc'[f] = "returned"
        /\ response[f] = NoCard
        /\ \A g \in Fetches : g # f =>
             pc'[g] = pc[g] /\ start'[g] = start[g] /\ result'[g] = result[g]
    BY <1>1, <1>10 DEF Hit, Young, Return, TypeOK, serverVars, cacheVars, IInv,
                       OnlyReturnedHaveResults
  <2>2. ResponseIsCurrent'
    BY <1>2, <1>3, <1>4, <1>5, <2>1, NoCardAssumption
  <2>3. StampIsHonest' /\ Is(cached) > now - TTL
    BY <1>2, <1>3, <1>4, <1>5, <2>1
  <2>4. Freshness'
    BY <1>2, <1>3, <1>4, <1>5, <2>1, <2>3
  <2>5. QED
    BY <2>2, <2>3, <2>4
<1>11. ASSUME NEW f \in Fetches, Miss(f) PROVE StampIsHonest' /\ ResponseIsCurrent' /\ Freshness'
  <2>1. /\ UNCHANGED <<now, version, retired, cached, cachedAt, response, result>>
        /\ pc'[f] = "sent" /\ result[f] = NoCard
        /\ \A g \in Fetches : g # f => pc'[g] = pc[g] /\ start'[g] = start[g]
    BY <1>1, <1>11 DEF Miss, TypeOK, serverVars, cacheVars, IInv, OnlyReturnedHaveResults
  <2>2. StampIsHonest' /\ Freshness'
    BY <1>2, <1>3, <1>4, <1>5, <2>1
  <2>3. ResponseIsCurrent'
    BY <1>2, <1>3, <1>4, <1>5, <2>1, NoCardAssumption
  <2>4. QED
    BY <2>2, <2>3
<1>12. ASSUME NEW f \in Fetches, Store(f) PROVE StampIsHonest' /\ ResponseIsCurrent' /\ Freshness'
  <2>1. /\ UNCHANGED <<now, version, retired, start, response>>
        /\ pc[f] = "answered" /\ response[f] # Unusable
        /\ cached' = response[f] /\ cachedAt' = start[f]
        /\ pc'[f] = "returned" /\ result'[f] = response[f]
        /\ \A g \in Fetches : g # f => pc'[g] = pc[g] /\ result'[g] = result[g]
    BY <1>1, <1>12 DEF Store, Return, TypeOK, serverVars
  <2>2. response[f] \in 0 .. version /\ start[f] <= Is(response[f]) /\ response[f] # NoCard
    BY <1>1, <1>2, <1>3, <1>4, <2>1 DEF IInv, ResponseIsCurrent
  <2>3. StampIsHonest'
    BY <1>5, <2>1, <2>2
  <2>4. ResponseIsCurrent'
    BY <1>2, <1>3, <1>4, <1>5, <2>1, NoCardAssumption
  <2>5. Freshness'
    BY <1>2, <1>3, <1>4, <1>5, <2>1, <2>2
  <2>6. QED
    BY <2>3, <2>4, <2>5
<1>13. ASSUME NEW f \in Fetches, Raise(f) PROVE StampIsHonest' /\ ResponseIsCurrent' /\ Freshness'
  <2>1. /\ UNCHANGED <<now, version, retired, cached, cachedAt, start, response, result>>
        /\ \A g \in Fetches : pc'[g] = "answered" => pc[g] = "answered"
    BY <1>1, <1>13 DEF Raise, TypeOK, serverVars, cacheVars
  <2>2. QED
    BY <1>2, <1>3, <1>4, <1>5, <2>1, NoCardAssumption
<1>14. QED
  BY <1>8, <1>9, <1>10, <1>11, <1>12, <1>13
     DEF Next, vars, Tick, Publish, Rest, cacheVars, fetchVars

-----------------------------------------------------------------------------

LEMMA Invariant == Spec => []IInv
<1>1. Init => IInv
  BY MaxTimeAssumption DEF Init, IInv, TypeOK, StampIsHonest, ResponseIsCurrent,
     OnlyReturnedHaveResults, Freshness
<1>2. IInv /\ [Next]_vars => IInv'
  BY Inductive
<1>3. QED
  BY <1>1, <1>2, PTL DEF Spec

(* The types: only a card is ever cached or returned, for any TTL.         *)
THEOREM TypeCorrect == Spec => []TypeOK
<1>1. IInv => TypeOK
  BY DEF IInv
<1>2. QED
  BY <1>1, Invariant, PTL

(* No fetch returns a card that was given up a whole TTL before the call,  *)
(* and none that missed the cache one that was given up before the call,   *)
(* however many fetches overlap and in whatever order they store.          *)
THEOREM CardsAreFresh == Spec => []Freshness
<1>1. IInv => Freshness
  BY DEF IInv
<1>2. QED
  BY <1>1, Invariant, PTL
=============================================================================
