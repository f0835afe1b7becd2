--------------------------- MODULE OceanRoutesProofs ---------------------------
(***************************************************************************)
(* Proofs about the ocean routes, for any number of threads and queries,   *)
(* any behaviour of the model service, any cache size and time to live,    *)
(* while any number of builds write the demo cache.                        *)
(***************************************************************************)
EXTENDS OceanRoutes, DemoCacheProofs, FiniteSetTheorems

-----------------------------------------------------------------------------
(***************************************************************************)
(* Types.                                                                  *)
(***************************************************************************)
\* To the builder, a step of the routes is a step of its own or nothing.
LEMMA DemoMoves == [Next]_vars => [DemoNext]_demoVars
  BY Zenon DEF Next, vars, Handle, Reject, Replay, Miss, Receives, CallBreaks, CallReturns,
     ServeLive, Crash, GiveUp, ReadCoordinates, NoCoordinates, ServeDemo, NoValues, Finish,
     MLChanges, Tick, demoVars

LEMMA TypeInit == Init => TypeOK
  <1> SUFFICES ASSUME Init PROVE TypeOK
    OBVIOUS
  <1>1. DemoTypeOK
    BY DemoTypeInit DEF Init
  <1>2. CacheTypeOK
    <2>1. DOMAIN cache = {}
      BY DEF Init
    <2> QED
      BY <2>1, FS_EmptySet DEF CacheTypeOK
  <1>3. HandlerTypeOK
    BY RoutesAssumption DEF Init, HandlerTypeOK
  <1> QED
    BY <1>1, <1>2, <1>3 DEF Init, TypeOK

\* Whatever is dropped makes room for one; and where there is room, one more fits.
LEMMA DroppedMakesRoom ==
  ASSUME NEW S, IsFiniteSet(S), NEW k \in S, NEW q, q \notin S,
         NEW n \in Nat, Cardinality(S) <= n
  PROVE  Cardinality((S \ {k}) \cup {q}) <= n
  <1> DEFINE R == S \ {k}
  <1>1. IsFiniteSet(R) /\ Cardinality(R) = Cardinality(S) - 1 /\ Cardinality(S) \in Nat
    BY FS_RemoveElement, FS_CardinalityType
  <1>2. q \notin R
    OBVIOUS
  <1> HIDE DEF R
  <1>3. Cardinality(R \cup {q}) = Cardinality(R) + 1
    BY <1>1, <1>2, FS_AddElement
  <1>4. Cardinality(R \cup {q}) <= n
    BY <1>1, <1>3
  <1> QED
    BY <1>4 DEF R

LEMMA RoomForOne ==
  ASSUME NEW S, IsFiniteSet(S), NEW q, q \notin S,
         NEW n \in Nat, ~(Cardinality(S) >= n)
  PROVE  Cardinality(S \cup {q}) <= n
  <1>1. Cardinality(S) \in Nat /\ Cardinality(S \cup {q}) = Cardinality(S) + 1
    BY FS_AddElement, FS_CardinalityType
  <1> QED
    BY <1>1

\* Putting a payload keeps every route's cache within its size.
LEMMA PutKeepsType ==
  ASSUME CacheTypeOK, NEW q \in Valid, NEW payload \in Payload, Put(q, payload)
  PROVE  CacheTypeOK'
  <1> DEFINE Mine(r) == {j \in DOMAIN cache : j.route = r}
             mine    == Mine(q.route)
             Full    == q \notin mine /\ Cardinality(mine) >= CacheSize
  <1>1. PICK dropped \in IF Full THEN {{k} : k \in mine} ELSE {{}} :
          cache' = [k \in (DOMAIN cache \ dropped) \cup {q} |->
                      IF k = q THEN [payload |-> payload, left |-> TTL] ELSE cache[k]]
    BY DEF Put, CacheKey, SameCache
  <1>2. DOMAIN cache' = (DOMAIN cache \ dropped) \cup {q}
    BY <1>1
  <1>3. DOMAIN cache' \subseteq Valid
    BY <1>2 DEF CacheTypeOK
  <1>4. IsFiniteSet(DOMAIN cache \ dropped) /\ IsFiniteSet(DOMAIN cache')
    <2>1. IsFiniteSet(DOMAIN cache)
      BY DEF CacheTypeOK
    <2>2. IsFiniteSet(DOMAIN cache \ dropped)
      BY <2>1, FS_Subset
    <2> QED
      BY <1>2, <2>2, FS_AddElement
  <1>5. ASSUME NEW k \in DOMAIN cache'
        PROVE  cache'[k] \in [payload : Payload, left : 1 .. TTL]
    <2>1. CASE k = q
      BY <1>1, <2>1, RoutesAssumption
    <2>2. CASE k # q
      BY <1>1, <1>2, <2>2 DEF CacheTypeOK
    <2> QED
      BY <2>1, <2>2
  <1>6. \A r : IsFiniteSet(Mine(r))
    BY FS_Subset DEF CacheTypeOK
  <1>7. \A r : Mine(r) = {} \/ Cardinality(Mine(r)) <= CacheSize
    BY DEF CacheTypeOK, SameCache
  <1>8. Cardinality(mine) \in Nat /\ CacheSize \in Nat \ {0}
    BY <1>6, FS_CardinalityType, RoutesAssumption
  <1>9. Cardinality({j \in DOMAIN cache' : j.route = q.route}) <= CacheSize
    <2>1. {j \in DOMAIN cache' : j.route = q.route} = (mine \ dropped) \cup {q}
      BY <1>2
    <2>2. CASE Full
      <3>1. PICK k \in mine : dropped = {k}
        BY <1>1, <2>2
      <3>2. IsFiniteSet(mine) /\ q \notin mine /\ Cardinality(mine) <= CacheSize
        BY <3>1, <1>6, <1>7, <2>2
      <3> HIDE DEF mine
      <3>3. Cardinality((mine \ {k}) \cup {q}) <= CacheSize
        BY <3>2, <1>8, DroppedMakesRoom
      <3> QED
        BY <2>1, <3>1, <3>3
    <2>3. CASE ~Full /\ q \in mine
      <3>1. (mine \ dropped) \cup {q} = mine
        BY <1>1, <2>3
      <3> QED
        BY <2>1, <2>3, <3>1, <1>7
    <2>4. CASE ~Full /\ q \notin mine
      <3>1. (mine \ dropped) \cup {q} = mine \cup {q}
        BY <1>1, <2>4
      <3>2. IsFiniteSet(mine) /\ q \notin mine
        BY <1>6, <2>4
      <3>3. ~(Cardinality(mine) >= CacheSize)
        BY <2>4
      <3> HIDE DEF mine
      <3>4. Cardinality(mine \cup {q}) <= CacheSize
        BY <3>2, <3>3, <1>8, RoomForOne
      <3> QED
        BY <2>1, <3>1, <3>4
    <2> QED
      BY <2>2, <2>3, <2>4
  <1>10. ASSUME NEW k \in DOMAIN cache', k.route # q.route
         PROVE  Cardinality({j \in DOMAIN cache' : j.route = k.route}) <= CacheSize
    <2>1. {j \in DOMAIN cache' : j.route = k.route} = Mine(k.route)
      BY <1>1, <1>2, <1>10
    <2>2. k \in Mine(k.route)
      BY <1>2, <1>10
    <2> QED
      BY <2>1, <2>2, <1>7
  <1> QED
    BY <1>3, <1>4, <1>5, <1>9, <1>10 DEF CacheTypeOK, SameCache

\* Time takes entries away and leaves the others time.
LEMMA TickKeepsType ==
  ASSUME CacheTypeOK, Tick
  PROVE  CacheTypeOK'
  <1>1. DOMAIN cache' = {k \in DOMAIN cache : cache[k].left > 1}
    BY DEF Tick
  <1>2. IsFiniteSet(DOMAIN cache')
    BY <1>1, FS_Subset DEF CacheTypeOK
  <1>3. ASSUME NEW k \in DOMAIN cache'
        PROVE  /\ cache'[k] \in [payload : Payload, left : 1 .. TTL]
               /\ Cardinality({j \in DOMAIN cache' : SameCache(j, k)}) <= CacheSize
    <2>1. /\ k \in DOMAIN cache /\ cache[k] \in [payload : Payload, left : 1 .. TTL]
          /\ cache[k].left > 1
      BY <1>1 DEF CacheTypeOK
    <2>2. cache'[k] = [cache[k] EXCEPT !.left = @ - 1]
      BY <1>1 DEF Tick
    <2> DEFINE S == {j \in DOMAIN cache : SameCache(j, k)}
               N == {j \in DOMAIN cache' : SameCache(j, k)}
    <2>3. IsFiniteSet(S) /\ N \in SUBSET S
      BY <1>1, FS_Subset DEF CacheTypeOK
    <2>4. Cardinality(N) <= Cardinality(S) /\ Cardinality(N) \in Nat /\ Cardinality(S) \in Nat
      BY <2>3, FS_Subset, FS_CardinalityType
    <2>5. Cardinality(S) <= CacheSize /\ CacheSize \in Nat
      BY <2>1, RoutesAssumption DEF CacheTypeOK
    <2> QED
      BY <2>1, <2>2, <2>4, <2>5, RoutesAssumption DEF CacheTypeOK
  <1> QED
    BY <1>1, <1>2, <1>3 DEF CacheTypeOK

-----------------------------------------------------------------------------
\* What was able all along stays a set of sources.
LEMMA ObserveType ==
  ASSUME HandlerTypeOK, Observe
  PROVE  steady' \in [Threads -> SUBSET {"live", "demo"}]
  BY DEF HandlerTypeOK, Observe, Able

\* What the service and the demo cache deliver is a payload of the query.
LEMMA LiveTyped ==
  ASSUME ml \in MLStates, NEW q \in Queries, NEW r \in Responses(ml, q)
  PROVE  /\ r \in Reply
         /\ r.kind = "ok" => /\ r.payload \in Payload /\ r.payload.query = q
                             /\ r.payload.source = "live"
  <1> USE RoutesAssumption DEF Reply, Failed
  <1>1. CASE ml.phase # "ready"
    BY <1>1 DEF Responses
  <1>2. CASE ml.phase = "ready" /\ Refused(ml, q)
    BY <1>2 DEF Responses
  <1>3. CASE ml.phase = "ready" /\ ~Refused(ml, q)
    <2>1. PICK day \in IF OnLand(q) THEN {None} ELSE PredictedDays(q.region, q.date) :
            r = [kind |-> "ok", payload |-> LivePayload(q, ml.model, day)]
      BY <1>3 DEF Responses
    <2>2. q.region \in Regions /\ ml.model \in Nat
      OBVIOUS
    <2>3. day \in Dates \cup {None}
      BY <2>2, StoreAssumption DEF PredictedDays, DayFor
    <2>4. LivePayload(q, ml.model, day) \in Payload
      BY <2>2, <2>3 DEF LivePayload, Payload
    <2> QED
      BY <2>1, <2>4 DEF LivePayload
  <1> QED
    BY <1>1, <1>2, <1>3

LEMMA DemoTyped ==
  ASSUME DemoTypeOK, NEW q \in Queries, Whole(files[q.region][q.date])
  PROVE  [query |-> q, source |-> "demo", maker |-> files[q.region][q.date],
          day |-> q.date] \in Payload
  <1>1. q.region \in Regions /\ q.date \in Dates
    BY RoutesAssumption
  <1>2. files[q.region][q.date] \in Nat
    BY <1>1 DEF DemoTypeOK, Whole
  <1> QED
    BY <1>1, <1>2 DEF Payload

\* The handlers' part of TypeOK, for the thread that moves and for the others.
ThreadTypeOK(t) ==
  /\ pc[t] \in {"idle", "calling", "replied", "loading", "answered"}
  /\ query[t] \in Queries \cup {None}
  /\ reply[t] \in Reply \cup {None}
  /\ answer[t] \in Answer \cup {None}
  /\ pc[t] = "idle" <=> query[t] = None
  /\ pc[t] \in {"calling", "replied", "loading"} => query[t] \in Valid
  /\ pc[t] \in {"replied", "loading"} => reply[t] \in Reply
  /\ pc[t] = "answered" => answer[t] \in Answer

\* A step moves at most one thread, by assignments to its own places.
MovesOnly(t) ==
  /\ \E p : pc' = [pc EXCEPT ![t] = p]
  /\ \E q : query' = [query EXCEPT ![t] = q]
  /\ \E r : reply' = [reply EXCEPT ![t] = r]
  /\ \E a : answer' = [answer EXCEPT ![t] = a]

\* Assigning a function its own value is to leave it alone.
LEMMA SameValue ==
  ASSUME NEW S, NEW T, NEW f \in [S -> T], NEW x
  PROVE  f = [f EXCEPT ![x] = f[x]]
  OBVIOUS

LEMMA OtherThreads ==
  ASSUME HandlerTypeOK, NEW t \in Threads, MovesOnly(t), NEW u \in Threads, u # t
  PROVE  /\ pc'[u] = pc[u] /\ query'[u] = query[u]
         /\ reply'[u] = reply[u] /\ answer'[u] = answer[u]
  BY DEF HandlerTypeOK, MovesOnly

LEMMA OneThreadTyped ==
  ASSUME HandlerTypeOK, NEW t \in Threads, MovesOnly(t), Observe, ThreadTypeOK(t)'
  PROVE  HandlerTypeOK'
  <1>1. \A u \in Threads : ThreadTypeOK(u)'
    BY OtherThreads DEF HandlerTypeOK, ThreadTypeOK
  <1>2. /\ pc' = [u \in Threads |-> pc'[u]] /\ query' = [u \in Threads |-> query'[u]]
        /\ reply' = [u \in Threads |-> reply'[u]] /\ answer' = [u \in Threads |-> answer'[u]]
    BY DEF HandlerTypeOK, MovesOnly
  <1> QED
    BY <1>1, <1>2, ObserveType DEF HandlerTypeOK, ThreadTypeOK

\* Each action of a handler moves its own thread, and is observed.
LEMMA HandlersMoveOne ==
  ASSUME HandlerTypeOK, NEW t \in Threads,
         Handle(t) \/ \E q \in Queries : Reject(t, q) \/ Replay(t, q) \/ Miss(t, q)
  PROVE  MovesOnly(t) /\ Observe /\ UNCHANGED <<ml, demoVars>>
  <1>1. /\ pc = [pc EXCEPT ![t] = pc[t]] /\ query = [query EXCEPT ![t] = query[t]]
        /\ reply = [reply EXCEPT ![t] = reply[t]] /\ answer = [answer EXCEPT ![t] = answer[t]]
    BY SameValue DEF HandlerTypeOK
  <1>2. Observe /\ UNCHANGED <<ml, demoVars>>
    BY Zenon DEF Handle, Reject, Replay, Miss, Receives, CallBreaks, CallReturns,
       ServeLive, Crash, GiveUp, ReadCoordinates, NoCoordinates, ServeDemo, NoValues, Finish
  <1>3. \E p : pc' = [pc EXCEPT ![t] = p]
    BY Zenon, <1>1 DEF Handle, Reject, Replay, Miss, Receives, CallBreaks, CallReturns, Answers,
       GoTo, ServeLive, Crash, GiveUp, ReadCoordinates, NoCoordinates, ServeDemo, NoValues, Finish
  <1>4. \E q : query' = [query EXCEPT ![t] = q]
    BY Zenon, <1>1 DEF Handle, Reject, Replay, Miss, Receives, CallBreaks, CallReturns, Arrives,
       ServeLive, Crash, GiveUp, ReadCoordinates, NoCoordinates, ServeDemo, NoValues, Finish
  <1>5. \E r : reply' = [reply EXCEPT ![t] = r]
    BY Zenon, <1>1 DEF Handle, Reject, Replay, Miss, Receives, CallBreaks, CallReturns,
       ServeLive, Crash, GiveUp, ReadCoordinates, NoCoordinates, ServeDemo, NoValues, Finish
  <1>6. \E a : answer' = [answer EXCEPT ![t] = a]
    BY Zenon, <1>1 DEF Handle, Reject, Replay, Miss, Receives, CallBreaks, CallReturns, Answers,
       ServeLive, Crash, GiveUp, ReadCoordinates, NoCoordinates, ServeDemo, NoValues, Finish
  <1> QED
    BY <1>2, <1>3, <1>4, <1>5, <1>6 DEF MovesOnly

LEMMA ArrivalTyped ==
  ASSUME TypeOK, NEW t \in Threads, NEW q \in Queries, Reject(t, q) \/ Replay(t, q) \/ Miss(t, q)
  PROVE  ThreadTypeOK(t)' /\ CacheTypeOK'
  <1> USE RoutesAssumption DEF TypeOK, HandlerTypeOK, ThreadTypeOK, Arrives, GoTo, Answers
  <1>1. CASE Reject(t, q)
    <2>1. CacheTypeOK'
      BY <1>1 DEF Reject, CacheTypeOK
    <2> QED
      BY <1>1, <2>1 DEF Reject, Answer, Labels
  <1>2. CASE Replay(t, q)
    <2>1. cache' = cache /\ cache[q].payload \in Payload
      BY <1>2 DEF Replay, AfterReplay, CacheKey, CacheTypeOK
    <2>2. CacheTypeOK'
      BY <2>1 DEF CacheTypeOK
    <2> QED
      BY <1>2, <2>1, <2>2 DEF Replay, CacheKey, Answer, Labels
  <1>3. CASE Miss(t, q)
    <2>1. CacheTypeOK'
      BY <1>3 DEF Miss, CacheTypeOK
    <2> QED
      BY <1>3, <2>1 DEF Miss
  <1> QED
    BY <1>1, <1>2, <1>3

LEMMA HandlerTyped ==
  ASSUME TypeOK, RoutesInv, NEW t \in Threads, Handle(t)
  PROVE  ThreadTypeOK(t)' /\ CacheTypeOK'
  <1> USE RoutesAssumption DEF TypeOK, HandlerTypeOK, ThreadTypeOK, GoTo, Answers, At
  <1>0. UNCHANGED cache => CacheTypeOK'
    BY DEF CacheTypeOK
  <1>1. CASE CallBreaks(t) \/ CallReturns(t)
    <2>1. PICK r : Receives(t, r) /\ r \in Reply
      BY <1>1, LiveTyped DEF CallBreaks, CallReturns, Failed, Reply
    <2>2. pc[t] = "calling"
      BY <1>1 DEF CallBreaks, CallReturns
    <2> QED
      BY <1>0, <2>1, <2>2 DEF Receives
  <1>2. CASE ServeLive(t)
    <2>1. query[t] \in Valid /\ reply[t].payload \in Payload
      BY <1>2 DEF ServeLive, RoutesInv, ReplyInv
    <2>2. CacheTypeOK'
      BY <1>2, <2>1, PutKeepsType DEF ServeLive
    <2> QED
      BY <1>2, <2>1, <2>2 DEF ServeLive, Answer, Labels
  <1>3. CASE Crash(t)
    <2>1. reply[t].kind \in {"garbled"}
      BY <1>3 DEF Crash, Caught, Reply
    <2> QED
      BY <1>0, <1>3, <2>1 DEF Crash, Answer, Labels
  <1>4. CASE ReadCoordinates(t)
    BY <1>0, <1>4 DEF ReadCoordinates, FallsBack
  <1>5. CASE NoCoordinates(t) \/ NoValues(t)
    <2>1. GiveUp(t) /\ pc[t] # "idle"
      BY <1>5 DEF NoCoordinates, NoValues, FallsBack
    <2> QED
      BY <1>0, <2>1 DEF GiveUp, Answer, Labels
  <1>6. CASE ServeDemo(t)
    <2> DEFINE payload == [query |-> query[t], source |-> "demo",
                           maker |-> files[query[t].region][query[t].date], day |-> query[t].date]
    <2>1. query[t] \in Valid /\ payload \in Payload
      BY <1>6, DemoTyped DEF ServeDemo
    <2>2. CacheTypeOK'
      BY <1>6, <2>1, PutKeepsType DEF ServeDemo
    <2>3. answer'[t] = [label |-> "fallback_demo", payload |-> payload]
      BY <1>6 DEF ServeDemo
    <2> QED
      BY <1>6, <2>1, <2>2, <2>3 DEF ServeDemo, Answer, Labels
  <1>7. CASE Finish(t)
    BY <1>0, <1>7 DEF Finish
  <1> QED
    BY <1>1, <1>2, <1>3, <1>4, <1>5, <1>6, <1>7 DEF Handle

LEMMA TypeStep ==
  ASSUME TypeOK, RoutesInv, [Next]_vars
  PROVE  TypeOK'
  <1>1. DemoTypeOK'
    BY DemoMoves, DemoTypeStep DEF TypeOK
  <1>2. ASSUME NEW t \in Threads,
               Handle(t) \/ \E q \in Queries : Reject(t, q) \/ Replay(t, q) \/ Miss(t, q)
        PROVE  TypeOK'
    <2>1. MovesOnly(t) /\ Observe /\ UNCHANGED ml
      BY <1>2, HandlersMoveOne DEF TypeOK
    <2>2. ThreadTypeOK(t)' /\ CacheTypeOK'
      BY <1>2, ArrivalTyped, HandlerTyped
    <2> QED
      BY <1>1, <2>1, <2>2, OneThreadTyped DEF TypeOK
  <1>3. CASE /\ \/ MLChanges \/ Tick
                \/ DemoNext /\ UNCHANGED <<ml, cache, pc, query, reply, answer>> /\ Observe
    <2>1. ml' \in MLStates
      BY <1>3 DEF MLChanges, Tick, TypeOK
    <2>2. CacheTypeOK'
      <3>1. CASE Tick
        BY <3>1, TickKeepsType DEF TypeOK
      <3>2. CASE UNCHANGED cache
        BY <3>2 DEF TypeOK, CacheTypeOK
      <3> QED
        BY <1>3, <3>1, <3>2 DEF MLChanges
    <2>3. UNCHANGED <<pc, query, reply, answer>> /\ Observe
      BY <1>3 DEF MLChanges, Tick
    <2>4. HandlerTypeOK'
      BY <2>3, ObserveType DEF TypeOK, HandlerTypeOK
    <2> QED
      BY <1>1, <2>1, <2>2, <2>4 DEF TypeOK
  <1>4. CASE UNCHANGED vars
    BY <1>1, <1>4 DEF vars, routeVars, TypeOK, CacheTypeOK, HandlerTypeOK
  <1> QED
    BY <1>2, <1>3, <1>4 DEF Next

-----------------------------------------------------------------------------
(***************************************************************************)
(* The answers.                                                            *)
(***************************************************************************)
\* What RoutesInv says of one thread.
ThreadInv(t) ==
  /\ (Answered(t) /\ answer[t].payload # None) => answer[t].payload.query = query[t]
  /\ (Answered(t) /\ Label(t) \in {"nodata", "notloaded", "failed", "crashed"}) =>
       steady[t] = {} \/ reply[t].kind = "garbled"
  /\ (Answered(t) /\ Label(t) \in {"fallback_demo", "nodata", "notloaded", "crashed"}) =>
       "live" \notin steady[t]
  /\ (pc[t] = "replied" /\ reply[t].kind = "ok") =>
       /\ reply[t].payload \in Payload
       /\ reply[t].payload.query = query[t] /\ reply[t].payload.source = "live"
  /\ (pc[t] = "replied" /\ reply[t].kind # "ok") => "live" \notin steady[t]
  /\ pc[t] = "loading" => "live" \notin steady[t]

LEMMA RoutesInvByThread ==
  RoutesInv <=> CacheInv /\ SteadyInv /\ \A t \in Threads : ThreadInv(t)
  BY DEF RoutesInv, OwnAnswer, FailsOnlyWithoutSource, LiveFirst, ReplyInv, ThreadInv

LEMMA RoutesInvPrimed ==
  ASSUME CacheInv', SteadyInv', \A t \in Threads : ThreadInv(t)'
  PROVE  RoutesInv'
  BY DEF RoutesInv, OwnAnswer, FailsOnlyWithoutSource, LiveFirst, ReplyInv, ThreadInv,
     Answered, Label

LEMMA RoutesInit == Init => RoutesInv
  <1> SUFFICES ASSUME Init PROVE RoutesInv
    OBVIOUS
  <1>1. DOMAIN cache = {} /\ \A t \in Threads : pc[t] = "idle" /\ steady[t] = {}
    BY DEF Init
  <1>2. CacheInv /\ SteadyInv
    BY <1>1 DEF CacheInv, SteadyInv
  <1>3. \A t \in Threads : ThreadInv(t)
    BY <1>1 DEF ThreadInv, Answered
  <1> QED
    BY <1>2, <1>3, RoutesInvByThread

\* What a step observes was able before, and is able now.
LEMMA SteadyStep ==
  ASSUME HandlerTypeOK, Observe
  PROVE  /\ SteadyInv'
         /\ \A u \in Threads : (pc'[u] = pc[u] \/ pc[u] # "idle") => steady'[u] \subseteq steady[u]
  BY DEF HandlerTypeOK, Observe, SteadyInv

\* What holds of a thread survives the steps of others, of the service and of the builder.
LEMMA StandingStill ==
  ASSUME NEW u \in Threads, ThreadInv(u), steady'[u] \subseteq steady[u],
         pc'[u] = pc[u], query'[u] = query[u], reply'[u] = reply[u], answer'[u] = answer[u]
  PROVE  ThreadInv(u)'
  BY DEF ThreadInv, Answered, Label

\* Putting a payload under its own query keeps the keys right.
LEMMA PutKeepsKeys ==
  ASSUME CacheInv, NEW q, NEW payload, payload.query = q, Put(q, payload)
  PROVE  CacheInv'
  <1>1. PICK dropped :
          cache' = [k \in (DOMAIN cache \ dropped) \cup {q} |->
                      IF k = q THEN [payload |-> payload, left |-> TTL] ELSE cache[k]]
    BY DEF Put, CacheKey
  <1> QED
    BY <1>1 DEF CacheInv

\* A response that is no answer means that the live model does not serve the query.
LEMMA NoAnswerNotAble ==
  ASSUME NEW q, \/ Unreachable(ml)
                \/ \E r \in Responses(ml, q) : r.kind # "ok"
  PROVE  "live" \notin Able(q)
  <1>1. CASE ml.phase # "ready"
    BY <1>1 DEF Able, Serves
  <1>2. CASE ml.phase = "ready" /\ ~Refused(ml, q)
    BY <1>2 DEF Responses, Unreachable
  <1>3. CASE ml.phase = "ready" /\ Refused(ml, q)
    BY <1>3 DEF Able, Serves, Refused
  <1> QED
    BY <1>1, <1>2, <1>3

LEMMA ArrivalInv ==
  ASSUME TypeOK, RoutesInv, NEW t \in Threads, NEW q \in Queries,
         Reject(t, q) \/ Replay(t, q) \/ Miss(t, q)
  PROVE  ThreadInv(t)' /\ CacheInv'
  <1> USE DEF TypeOK, HandlerTypeOK, Arrives, GoTo, Answers, ThreadInv, Answered, Label
  <1>0. CacheInv
    BY RoutesInvByThread
  <1>1. CASE Reject(t, q)
    BY <1>0, <1>1 DEF Reject, CacheInv
  <1>2. CASE Replay(t, q)
    <2>1. cache' = cache /\ cache[q].payload.query = q
      BY <1>0, <1>2 DEF Replay, AfterReplay, CacheKey, CacheInv
    <2>2. CacheInv'
      BY <1>0, <2>1 DEF CacheInv
    <2> QED
      BY <1>2, <2>1, <2>2 DEF Replay, CacheKey
  <1>3. CASE Miss(t, q)
    BY <1>0, <1>3 DEF Miss, CacheInv
  <1> QED
    BY <1>1, <1>2, <1>3

LEMMA HandlerInv ==
  ASSUME TypeOK, RoutesInv, NEW t \in Threads, Handle(t)
  PROVE  ThreadInv(t)' /\ CacheInv'
  <1> DEFINE q == query[t]
  <1>1. ThreadInv(t) /\ CacheInv /\ SteadyInv
    BY RoutesInvByThread
  <1>2. Observe /\ HandlerTypeOK /\ MovesOnly(t) /\ UNCHANGED <<ml, demoVars>>
    BY HandlersMoveOne DEF TypeOK
  <1>3. pc[t] # "idle" => steady'[t] \subseteq steady[t]
    BY <1>2, SteadyStep
  <1>4. UNCHANGED cache => CacheInv'
    BY <1>1 DEF CacheInv
  <1> USE DEF TypeOK, HandlerTypeOK, GoTo, Answers, At, Answered, Label
  <1>5. CASE CallBreaks(t) \/ CallReturns(t)
    <2>1. PICK r \in Reply :
            /\ Receives(t, r) /\ (r.kind # "ok" => "live" \notin Able(q))
            /\ r.kind = "ok" => /\ r.payload \in Payload /\ r.payload.query = q
                                /\ r.payload.source = "live"
      <3>1. CASE CallBreaks(t)
        BY <3>1, NoAnswerNotAble DEF CallBreaks, Failed, Reply
      <3>2. CASE CallReturns(t)
        <4>1. pc[t] = "calling" /\ q \in Queries
          BY <3>2, RoutesAssumption DEF CallReturns
        <4>2. PICK r \in Responses(ml, q) : Receives(t, r)
          BY <3>2 DEF CallReturns
        <4> QED
          BY <4>1, <4>2, LiveTyped, NoAnswerNotAble
      <3> QED
        BY <1>5, <3>1, <3>2
    <2>2. pc[t] = "calling"
      BY <1>5 DEF CallBreaks, CallReturns
    <2>3. /\ pc'[t] = "replied" /\ reply'[t] = r /\ query'[t] = q /\ UNCHANGED cache
      BY <2>1 DEF Receives
    <2>4. steady'[t] \subseteq Able(q)
      BY <1>1, <1>3, <2>2 DEF SteadyInv
    <2> QED
      BY <1>4, <2>1, <2>3, <2>4 DEF ThreadInv
  <1>6. CASE ServeLive(t)
    <2>1. reply[t].payload.query = q
      BY <1>1, <1>6 DEF ServeLive, ThreadInv
    <2>2. CacheInv'
      BY <1>1, <1>6, <2>1, PutKeepsKeys DEF ServeLive
    <2> QED
      BY <1>6, <2>1, <2>2 DEF ServeLive, ThreadInv
  <1>7. CASE Crash(t)
    <2>1. reply[t].kind \in {"garbled"}
      BY <1>7 DEF Crash, Caught, Reply
    <2> QED
      BY <1>1, <1>3, <1>4, <1>7, <2>1 DEF Crash, ThreadInv
  <1>8. CASE ReadCoordinates(t)
    <2>1. reply[t].kind # "ok"
      BY <1>8 DEF ReadCoordinates, FallsBack, Caught
    <2> QED
      BY <1>1, <1>3, <1>4, <1>8, <2>1 DEF ReadCoordinates, FallsBack, ThreadInv
  <1>9. CASE NoCoordinates(t) \/ NoValues(t)
    <2>1. GiveUp(t) /\ pc[t] # "idle" /\ "live" \notin steady[t]
      BY <1>1, <1>9 DEF NoCoordinates, NoValues, FallsBack, Caught, ThreadInv
    <2>2. "demo" \notin Able(q)
      BY <1>9 DEF NoCoordinates, NoValues, Able, Readable, Whole
    <2>3. steady[t] = {}
      BY <1>1, <2>1, <2>2 DEF SteadyInv
    <2> QED
      BY <1>3, <1>4, <2>1, <2>3 DEF GiveUp, ThreadInv
  <1>10. CASE ServeDemo(t)
    <2> DEFINE payload == [query |-> q, source |-> "demo",
                           maker |-> files[q.region][q.date], day |-> q.date]
    <2>1. /\ Put(q, payload) /\ payload.query = q /\ query'[t] = q /\ pc[t] = "loading"
          /\ answer'[t] = [label |-> "fallback_demo", payload |-> payload]
          /\ pc'[t] = "answered"
      BY <1>10 DEF ServeDemo
    <2>2. CacheInv'
      BY <1>1, <2>1, PutKeepsKeys
    <2> QED
      BY <1>1, <1>3, <2>1, <2>2 DEF ThreadInv
  <1>11. CASE Finish(t)
    BY <1>4, <1>11 DEF Finish, ThreadInv
  <1> QED
    BY <1>5, <1>6, <1>7, <1>8, <1>9, <1>10, <1>11 DEF Handle

LEMMA RoutesStep ==
  ASSUME TypeOK, RoutesInv, [Next]_vars
  PROVE  RoutesInv'
  <1>1. CacheInv /\ SteadyInv /\ HandlerTypeOK /\ \A u \in Threads : ThreadInv(u)
    BY RoutesInvByThread DEF TypeOK
  <1>2. ASSUME NEW t \in Threads,
               Handle(t) \/ \E q \in Queries : Reject(t, q) \/ Replay(t, q) \/ Miss(t, q)
        PROVE  RoutesInv'
    <2>1. MovesOnly(t) /\ Observe
      BY <1>1, <1>2, HandlersMoveOne
    <2>2. ThreadInv(t)' /\ CacheInv'
      BY <1>2, ArrivalInv, HandlerInv
    <2>3. SteadyInv'
      BY <1>1, <2>1, SteadyStep
    <2>4. ASSUME NEW u \in Threads, u # t PROVE ThreadInv(u)'
      BY <1>1, <2>1, <2>4, OtherThreads, SteadyStep, StandingStill
    <2> QED
      BY <2>2, <2>3, <2>4, RoutesInvPrimed
  <1>3. CASE \/ MLChanges \/ Tick
             \/ DemoNext /\ UNCHANGED <<ml, cache, pc, query, reply, answer>> /\ Observe
    <2>1. UNCHANGED <<pc, query, reply, answer>> /\ Observe
      BY <1>3 DEF MLChanges, Tick
    <2>2. CacheInv'
      <3>1. CASE Tick
        <4>1. ASSUME NEW k \in DOMAIN cache'
              PROVE  k \in DOMAIN cache /\ cache'[k].payload = cache[k].payload
          BY <3>1 DEF Tick, TypeOK, CacheTypeOK
        <4> QED
          BY <1>1, <4>1 DEF CacheInv
      <3>2. CASE UNCHANGED cache
        BY <1>1, <3>2 DEF CacheInv
      <3> QED
        BY <1>3, <3>1, <3>2 DEF MLChanges
    <2>3. \A u \in Threads : ThreadInv(u)'
      BY <1>1, <2>1, SteadyStep, StandingStill
    <2>4. SteadyInv'
      BY <1>1, <2>1, SteadyStep
    <2> QED
      BY <2>2, <2>3, <2>4, RoutesInvPrimed
  <1>4. CASE UNCHANGED vars
    <2>1. CacheInv' /\ SteadyInv'
      BY <1>1, <1>4 DEF vars, routeVars, demoVars, CacheInv, SteadyInv, Able, Serves, Readable
    <2>2. \A u \in Threads : ThreadInv(u)'
      BY <1>1, <1>4, StandingStill DEF vars, routeVars
    <2> QED
      BY <2>1, <2>2, RoutesInvPrimed
  <1> QED
    BY <1>2, <1>3, <1>4 DEF Next

\* The inductive invariant, and types: what every step of a handler knows.
THEOREM RoutesCorrect == Spec => [](TypeOK /\ RoutesInv)
  <1>1. Init => TypeOK /\ RoutesInv
    BY TypeInit, RoutesInit
  <1>2. TypeOK /\ RoutesInv /\ [Next]_vars => (TypeOK /\ RoutesInv)'
    BY TypeStep, RoutesStep
  <1> QED
    BY <1>1, <1>2, PTL DEF Spec

\* Types; no route's cache ever outgrows its size.
THEOREM RoutesTypeCorrect == Spec => []TypeOK
  BY RoutesCorrect, PTL

\* What every step of a handler knows.
THEOREM RoutesInvCorrect == Spec => []RoutesInv
  BY RoutesCorrect, PTL

\* A payload answers the query it is sent for.
THEOREM OwnAnswerSent == Spec => []OwnAnswer
  <1>1. RoutesInv => OwnAnswer
    BY DEF RoutesInv
  <1> QED
    BY <1>1, RoutesCorrect, PTL

\* A query fails only if no source was able to serve it all along, or the model
\* service's response was garbled.
THEOREM NoNeedlessFailure == Spec => []FailsOnlyWithoutSource
  <1>1. RoutesInv => FailsOnlyWithoutSource
    BY DEF RoutesInv
  <1> QED
    BY <1>1, RoutesCorrect, PTL

\* Demo data, and errors, are sent only if the live model was not able all along.
THEOREM LiveGoesFirst == Spec => []LiveFirst
  <1>1. RoutesInv => LiveFirst
    BY DEF RoutesInv
  <1> QED
    BY <1>1, RoutesCorrect, PTL

-----------------------------------------------------------------------------
(***************************************************************************)
(* The refinement of HonestAnswer.                                         *)
(***************************************************************************)
LEMMA PromiseInit ==
  ASSUME Init
  PROVE  Promise!Init
  <1>1. DOMAIN cache = {} /\ \A t \in Threads : pc[t] = "idle" /\ steady[t] = {}
    BY DEF Init
  <1>2. query = [t \in Threads |-> None]
    BY DEF Init
  <1>3. \A t \in Threads : Given(t) = None /\ StillAble(t) = {}
    BY <1>1 DEF Given, Answered, StillAble
  <1> QED
    BY <1>1, <1>2, <1>3 DEF Promise!Init, StillAble

\* The abstract state under its substitution.
AbleNow  == [t \in Threads |-> StillAble(t)]
GivenNow == [t \in Threads |-> Given(t)]
KeptNow  == [k \in DOMAIN cache |-> cache[k].payload.source]

\* A step of one handler changes the abstract state of its own thread only: as neither
\* the service nor the files move, what is able for the others stays so.
LEMMA OnlyOneAble ==
  ASSUME HandlerTypeOK, SteadyInv, NEW t \in Threads, MovesOnly(t), Observe,
         UNCHANGED <<ml, demoVars>>
  PROVE  /\ AbleNow' = [AbleNow EXCEPT ![t] = StillAble(t)']
         /\ pc[t] # "idle" /\ pc'[t] # "idle" /\ query'[t] = query[t] => steady'[t] = steady[t]
  <1>1. \A u \in Threads : query'[u] = query[u] => Able(query[u])' = Able(query[u])
    BY DEF Able, Serves, Readable, demoVars
  <1>2. \A u \in Threads : pc[u] # "idle" /\ pc'[u] # "idle" /\ query'[u] = query[u]
          => steady'[u] = steady[u]
    BY <1>1 DEF HandlerTypeOK, SteadyInv, Observe
  <1>3. \A u \in Threads : pc[u] = "idle" /\ pc'[u] = "idle" => steady'[u] = steady[u]
    BY DEF HandlerTypeOK, SteadyInv, Observe
  <1>4. \A u \in Threads : u # t => StillAble(u)' = StillAble(u)
    BY <1>2, <1>3, OtherThreads DEF StillAble, Answered
  <1> QED
    BY <1>2, <1>4 DEF AbleNow

LEMMA OnlyOneGiven ==
  ASSUME HandlerTypeOK, NEW t \in Threads, MovesOnly(t)
  PROVE  GivenNow' = [GivenNow EXCEPT ![t] = Given(t)']
  <1>1. \A u \in Threads : u # t => Given(u)' = Given(u)
    BY OtherThreads DEF Given, Answered, Label
  <1> QED
    BY <1>1 DEF GivenNow

\* What Put does to the answers that may be repeated.
LEMMA PutKept ==
  ASSUME NEW q, NEW payload, Put(q, payload)
  PROVE  /\ DOMAIN KeptNow' \subseteq DOMAIN KeptNow \cup {q}
         /\ \A k \in DOMAIN KeptNow' :
              KeptNow'[k] = IF k = q THEN payload.source ELSE KeptNow[k]
  <1>1. PICK dropped :
          cache' = [k \in (DOMAIN cache \ dropped) \cup {q} |->
                      IF k = q THEN [payload |-> payload, left |-> TTL] ELSE cache[k]]
    BY DEF Put, CacheKey
  <1> QED
    BY <1>1 DEF KeptNow

\* A query comes: refused, repeated, or asked.
LEMMA ArrivalPromised ==
  ASSUME TypeOK, RoutesInv, NEW t \in Threads, NEW q \in Queries,
         Reject(t, q) \/ Replay(t, q) \/ Miss(t, q)
  PROVE  Promise!Next
  <1>1. HandlerTypeOK /\ SteadyInv /\ MovesOnly(t) /\ Observe /\ UNCHANGED <<ml, demoVars>>
    BY HandlersMoveOne, RoutesInvByThread DEF TypeOK
  <1>2. /\ AbleNow' = [AbleNow EXCEPT ![t] = StillAble(t)']
        /\ GivenNow' = [GivenNow EXCEPT ![t] = Given(t)']
    BY <1>1, OnlyOneAble, OnlyOneGiven
  <1>3. pc[t] = "idle" /\ query' = [query EXCEPT ![t] = q] /\ query[t] = None /\ query'[t] = q
    BY <1>1 DEF Reject, Replay, Miss, Arrives, HandlerTypeOK
  <1>4. AbleNow[t] = {} /\ GivenNow[t] = None
    BY <1>1, <1>3 DEF AbleNow, StillAble, GivenNow, Given, Answered, SteadyInv
  <1>5. CASE Reject(t, q) \/ Replay(t, q)
    <2> DEFINE from == IF q \notin Valid THEN "refused" ELSE cache[q].payload.source
    <2>1. UNCHANGED cache /\ pc'[t] = "answered"
      BY <1>1, <1>5 DEF Reject, Replay, AfterReplay, Answers, GoTo, HandlerTypeOK
    <2>2. q \in Valid => /\ q \in DOMAIN cache /\ cache[q].payload \in Payload
                         /\ cache[q].payload.query = q
      BY <1>5 DEF Reject, Replay, CacheKey, TypeOK, CacheTypeOK, RoutesInv, CacheInv
    <2>3. answer'[t] = [label |-> IF q \in Valid THEN "cached_data" ELSE "invalid",
                        payload |-> IF q \in Valid THEN cache[q].payload ELSE None]
      BY <1>1, <1>5 DEF Reject, Replay, Answers, CacheKey, HandlerTypeOK
    <2>4. Given(t)' = [of |-> q, from |-> from]
      BY <1>3, <2>1, <2>2, <2>3, RoutesAssumption DEF Given, Answered, Label
    <2>5. UNCHANGED <<AbleNow, KeptNow>>
      BY <1>2, <1>4, <2>1 DEF AbleNow, StillAble, Answered, KeptNow
    <2>6. Promise!AnswerAtOnce(t, q, from)
      BY <1>2, <1>3, <2>2, <2>4, <2>5
         DEF Promise!AnswerAtOnce, Promise!Idle, AbleNow, GivenNow, KeptNow
    <2>7. from \in {"live", "demo", "refused"}
      BY <2>2 DEF Payload
    <2> QED
      BY <2>6, <2>7 DEF Promise!Next, Promise!SourceSet
  <1>6. CASE Miss(t, q)
    <2>1. pc'[t] = "calling" /\ UNCHANGED cache /\ q \in Valid
      BY <1>1, <1>6 DEF Miss, GoTo, HandlerTypeOK
    <2>2. Given(t)' = None /\ UNCHANGED KeptNow
      BY <2>1 DEF Given, Answered, KeptNow
    <2>3. UNCHANGED GivenNow
      BY <1>2, <1>4, <2>2 DEF GivenNow
    <2>4. StillAble(t)' \in SUBSET {"live", "demo"}
      BY <1>1, ObserveType DEF StillAble
    <2>5. Promise!Ask(t, q)
      BY <1>2, <1>3, <2>1, <2>2, <2>3, <2>4
         DEF Promise!Ask, Promise!Idle, Promise!SourceSet, AbleNow, GivenNow, KeptNow
    <2> QED
      BY <2>5 DEF Promise!Next
  <1> QED
    BY <1>5, <1>6

\* A waiting query is answered, or its handler takes a step nobody sees.
LEMMA HandlerPromised ==
  ASSUME TypeOK, RoutesInv, NEW t \in Threads, Handle(t)
  PROVE  [Promise!Next]_Promise!vars
  <1> DEFINE q == query[t]
  <1>1. /\ HandlerTypeOK /\ SteadyInv /\ ThreadInv(t) /\ MovesOnly(t) /\ Observe
        /\ UNCHANGED <<ml, demoVars>>
    BY HandlersMoveOne, RoutesInvByThread DEF TypeOK
  <1>2. /\ AbleNow' = [AbleNow EXCEPT ![t] = StillAble(t)']
        /\ GivenNow' = [GivenNow EXCEPT ![t] = Given(t)']
        /\ pc[t] # "idle" /\ pc'[t] # "idle" /\ query'[t] = q => steady'[t] = steady[t]
    BY <1>1, OnlyOneAble, OnlyOneGiven
  <1>3. ThreadInv(t)'
    BY HandlerInv
  <1>4. ASSUME pc[t] \in {"calling", "replied", "loading"},
               pc'[t] \in {"replied", "loading"}, UNCHANGED <<query, cache>>
        PROVE  UNCHANGED Promise!vars
    <2>1. StillAble(t)' = StillAble(t) /\ Given(t)' = Given(t)
      BY <1>2, <1>4 DEF StillAble, Given, Answered
    <2>2. UNCHANGED <<query, AbleNow, GivenNow, KeptNow>>
      BY <1>2, <1>4, <2>1 DEF AbleNow, GivenNow, KeptNow
    <2> QED
      BY <2>2 DEF Promise!vars, AbleNow, GivenNow, KeptNow
  \* An answer, given what it says of itself and what becomes of the cache.
  <1>5. ASSUME NEW from \in {"live", "demo", "none", "broken"},
               pc[t] \in {"replied", "loading"}, pc'[t] = "answered", query' = query,
               Given(t)' = [of |-> q, from |-> from],
               from # "live" => "live" \notin steady[t],
               from = "none" => steady[t] = {},
               IF from \in {"live", "demo"}
               THEN /\ DOMAIN KeptNow' \subseteq DOMAIN KeptNow \cup {q}
                    /\ \A k \in DOMAIN KeptNow' :
                         KeptNow'[k] = IF k = q THEN from ELSE KeptNow[k]
               ELSE UNCHANGED KeptNow
        PROVE  Promise!Next
    <2>1. q # None /\ GivenNow[t] = None /\ AbleNow[t] = steady[t] /\ StillAble(t)' = {}
      BY <1>1, <1>5 DEF HandlerTypeOK, GivenNow, Given, AbleNow, StillAble, Answered
    <2>2. Promise!Answer(t, from)
      BY <1>2, <1>5, <2>1
         DEF Promise!Answer, Promise!Waiting, Promise!SourceSet, AbleNow, GivenNow, KeptNow
    <2> QED
      BY <2>2 DEF Promise!Next, Promise!SourceSet
  <1> USE DEF At, GoTo, Answers, HandlerTypeOK
  <1>6. CASE CallBreaks(t) \/ CallReturns(t)
    <2>1. /\ pc[t] = "calling" /\ pc'[t] = "replied"
          /\ UNCHANGED <<query, cache>>
      BY <1>1, <1>6 DEF CallBreaks, CallReturns, Receives
    <2> QED
      BY <1>4, <2>1
  <1>7. CASE ReadCoordinates(t)
    <2>1. /\ pc[t] = "replied" /\ pc'[t] = "loading"
          /\ UNCHANGED <<query, cache>>
      BY <1>1, <1>7 DEF ReadCoordinates, FallsBack
    <2> QED
      BY <1>4, <2>1
  <1>8. CASE ServeLive(t)
    <2> DEFINE p == reply[t].payload
    <2>1. p \in Payload /\ p.query = q /\ p.source = "live"
      BY <1>1, <1>8 DEF ServeLive, ThreadInv
    <2>2. /\ pc[t] = "replied" /\ pc'[t] = "answered" /\ query' = query
          /\ answer'[t] = [label |-> "model_prediction", payload |-> p] /\ Put(q, p)
      BY <1>1, <1>8 DEF ServeLive
    <2>3. Given(t)' = [of |-> q, from |-> "live"]
      BY <2>1, <2>2, RoutesAssumption DEF Given, Answered
    <2> QED
      BY <1>5, <2>1, <2>2, <2>3, PutKept
  <1>9. CASE ServeDemo(t)
    <2> DEFINE p == [query |-> q, source |-> "demo", maker |-> files[q.region][q.date],
                     day |-> q.date]
    <2>1. q \in Queries /\ p \in Payload
      BY <1>1, <1>9, RoutesAssumption, DemoTyped DEF ServeDemo, TypeOK
    <2>2. /\ pc[t] = "loading" /\ pc'[t] = "answered" /\ query' = query
          /\ answer'[t] = [label |-> "fallback_demo", payload |-> p] /\ Put(q, p)
      BY <1>1, <1>9 DEF ServeDemo
    <2>3. p.query = q /\ p.source = "demo"
      OBVIOUS
    <2> HIDE DEF p
    <2>4. Given(t)' = [of |-> q, from |-> "demo"]
      BY <2>1, <2>2, <2>3, RoutesAssumption DEF Given, Answered
    <2>5. "live" \notin steady[t]
      BY <1>1, <2>2 DEF ThreadInv
    <2> QED
      BY <1>5, <2>2, <2>3, <2>4, <2>5, PutKept
  <1>10. CASE Crash(t)
    <2>1. reply[t].kind = "garbled"
      BY <1>1, <1>10 DEF Crash, Caught, Reply
    <2>2. /\ pc[t] = "replied" /\ pc'[t] = "answered" /\ query' = query /\ UNCHANGED cache
          /\ answer'[t] = [label |-> "crashed", payload |-> None]
      BY <1>1, <1>10, <2>1 DEF Crash
    <2>3. Given(t)' = [of |-> q, from |-> "broken"]
      BY <2>2 DEF Given, Answered, Label
    <2>4. "live" \notin steady[t]
      BY <1>1, <2>1, <2>2 DEF ThreadInv
    <2> QED
      BY <1>5, <2>2, <2>3, <2>4 DEF KeptNow
  <1>11. CASE NoCoordinates(t) \/ NoValues(t)
    <2>1. GiveUp(t) /\ pc[t] \in {"replied", "loading"}
      BY <1>11 DEF NoCoordinates, NoValues, FallsBack
    <2>2. /\ pc'[t] = "answered" /\ query' = query /\ UNCHANGED cache
          /\ answer'[t].label \in {"nodata", "notloaded"} /\ answer'[t].payload = None
      BY <1>1, <2>1 DEF GiveUp
    <2>3. Given(t)' = [of |-> q, from |-> "none"]
      BY <2>2 DEF Given, Answered, Label
    <2>4. "live" \notin steady[t] /\ "demo" \notin Able(q)
      BY <1>1, <1>11 DEF NoCoordinates, NoValues, FallsBack, Caught, ThreadInv, Able,
         Readable, Whole
    <2>5. steady[t] = {} /\ steady'[t] = steady[t]
      BY <1>1, <1>2, <2>1, <2>2, <2>4 DEF SteadyInv
    <2> QED
      BY <1>5, <2>1, <2>2, <2>3, <2>5 DEF KeptNow
  <1>12. CASE Finish(t)
    <2>1. /\ pc[t] = "answered" /\ pc'[t] = "idle" /\ UNCHANGED cache
          /\ query' = [query EXCEPT ![t] = None]
      BY <1>1, <1>12 DEF Finish
    <2>2. Given(t)' = None /\ StillAble(t) = {} /\ StillAble(t)' = {}
      BY <1>1, <2>1 DEF Given, StillAble, Answered, Observe
    <2>3. Given(t) # None
      <3>1. answer[t] \in Answer /\ query[t] \in Queries
        BY <1>1, <2>1
      <3>2. Given(t) \in [of : Queries, from : {"live", "demo", "refused", "broken", "none"}]
        BY <2>1, <3>1 DEF Given, Answered, Answer, Payload
      <3> QED
        BY <3>2, RoutesAssumption
    <2>4. Promise!Done(t)
      BY <1>2, <2>1, <2>2, <2>3 DEF Promise!Done, AbleNow, GivenNow, KeptNow
    <2> QED
      BY <2>4 DEF Promise!Next
  <1> QED
    BY <1>6, <1>7, <1>8, <1>9, <1>10, <1>11, <1>12 DEF Handle

\* Time, the service and the builder only take away.
LEMMA OthersPromised ==
  ASSUME TypeOK, RoutesInv,
         \/ MLChanges \/ Tick
         \/ DemoNext /\ UNCHANGED <<ml, cache, pc, query, reply, answer>> /\ Observe
  PROVE  Promise!Next
  <1>1. HandlerTypeOK /\ SteadyInv /\ UNCHANGED <<pc, query, reply, answer>> /\ Observe
    BY RoutesInvByThread DEF TypeOK, MLChanges, Tick
  <1>2. UNCHANGED GivenNow
    BY <1>1 DEF GivenNow, Given, Answered, Label
  <1>3. \A t \in Threads : StillAble(t)' \subseteq StillAble(t)
    BY <1>1, SteadyStep DEF StillAble, Answered
  <1>4. CASE UNCHANGED cache
    <2>1. Promise!SourcesChange
      BY <1>1, <1>2, <1>3, <1>4
         DEF Promise!SourcesChange, Promise!Shrinks, GivenNow
    <2> QED
      BY <2>1 DEF Promise!Next
  <1>5. CASE Tick
    <2>1. \A t \in Threads : Able(query[t])' = Able(query[t])
      BY <1>5 DEF Tick, Able, Serves, Readable, demoVars
    <2>2. \A t \in Threads : StillAble(t)' = StillAble(t)
      <3> SUFFICES ASSUME NEW t \in Threads PROVE StillAble(t)' = StillAble(t)
        OBVIOUS
      <3>1. Able(query[t])' = Able(query[t]) /\ Answered(t)' = Answered(t)
        BY <1>1, <2>1 DEF Answered
      <3> HIDE DEF Able, Answered
      <3> QED
        BY <1>1, <3>1 DEF StillAble, HandlerTypeOK, SteadyInv, Observe
    <2>3. ASSUME NEW k \in DOMAIN cache'
          PROVE  k \in DOMAIN cache /\ cache'[k].payload = cache[k].payload
      BY <1>5 DEF Tick, TypeOK, CacheTypeOK
    <2>4. Promise!Forget
      BY <1>1, <1>2, <2>2, <2>3 DEF Promise!Forget, GivenNow
    <2> QED
      BY <2>4 DEF Promise!Next
  <1> QED
    BY <1>4, <1>5 DEF MLChanges

LEMMA StepPromised ==
  ASSUME TypeOK, RoutesInv, [Next]_vars
  PROVE  [Promise!Next]_Promise!vars
  <1>1. CASE UNCHANGED vars
    BY <1>1 DEF vars, routeVars, Promise!vars, StillAble, Given, Answered, Label
  <1> QED
    BY <1>1, ArrivalPromised, HandlerPromised, OthersPromised DEF Next

\* The routes implement HonestAnswer: their calls, fallbacks, races with the builder and
\* replays come to nothing but answers it allows.
THEOREM PromiseKept == Spec => KeepsPromise
  <1>1. Init => Promise!Init
    BY PromiseInit
  <1>2. TypeOK /\ RoutesInv /\ [Next]_vars => [Promise!Next]_Promise!vars
    BY StepPromised
  <1> QED
    BY <1>1, <1>2, RoutesCorrect, PTL DEF Spec, KeepsPromise, Promise!Spec
==============================================================================
