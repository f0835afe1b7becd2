----------------------------- MODULE OceanRoutes -----------------------------
(***************************************************************************)
(* The backend's routes /ocean/map and /ocean/profile: their handlers,     *)
(* which the threads of the pool run concurrently, the TTL cache of each   *)
(* route, the call to the model service, and the demo cache they fall back *)
(* on, which a builder may be writing meanwhile.                           *)
(***************************************************************************)
EXTENDS DemoCache

CONSTANTS
  Threads,    \* threads that run handlers
  Queries,    \* queries clients send: [route, region, date, place]
  Valid,      \* those the validators let pass
  Land,       \* the places of profile queries that snap to a land cell
  MLStates,   \* states the model service can get into: [phase, region, model]
  CacheSize,  \* entries a route's cache can hold
  TTL         \* ticks a cached payload lives

Phases == {"down", "hung", "degraded", "faulty", "ready"}
Labels == {"model_prediction", "cached_data", "fallback_demo",
           "invalid", "nodata", "notloaded", "failed", "crashed"}

\* A payload says what it is of; and, for the properties, where it came from:
\* the checkpoint or the demo build, and the day the values were computed for.
Payload == [query : Queries, source : {"live", "demo"},
            maker : Nat, day : Dates \cup {None}]
Reply   == [kind : {"ok", "nodata", "notloaded", "failed", "garbled"},
            payload : Payload \cup {None}]
Answer  == [label : Labels, payload : Payload \cup {None}]

ASSUME RoutesAssumption ==
  /\ \A q \in Queries : q.route \in {"map", "profile"} /\ q.region \in Regions /\ q.date \in Dates
  /\ Valid \subseteq Queries
  /\ MLStates \subseteq [phase : Phases, region : Regions, model : Nat]
  /\ CacheSize \in Nat \ {0} /\ TTL \in Nat \ {0}
  /\ None \notin Queries /\ None \notin Payload
  /\ None \notin [of : Queries, from : {"live", "demo", "refused", "broken", "none"}]

VARIABLES
  ml,      \* the model service
  cache,   \* _map_cache and _profile_cache as one: [query -> [payload, left]]
  pc,      \* where each thread is in its handler
  query,   \* the query it serves
  reply,   \* what the model service, or the lack of it, told it
  answer,  \* its answer: [label, payload]
  steady   \* the sources that could serve its query ever since it came

routeVars == <<ml, cache, pc, query, reply, answer, steady>>
vars == <<routeVars, demoVars>>

-----------------------------------------------------------------------------
(***************************************************************************)
(* The model service.                                                      *)
(***************************************************************************)
OnLand(q) == q.route = "profile" /\ q.place \in Land

LivePayload(q, model, day) ==
  [query |-> q, source |-> "live", maker |-> model, day |-> day]

\* Mutant: the day is looked up before the cell is found to be land.
RefusedDateFirst(s, q) == s.region # q.region \/ ~Predicts(q.region, q.date)
\* The running service has no data for q.  A profile on land needs no day.
Refused(s, q) == s.region # q.region \/ (~OnLand(q) /\ ~Predicts(q.region, q.date))

\* Mutant: the client has no timeout.
UnreachableIfDown(s) == s.phase = "down"
\* The call ends without a response: refused, broken off, or timed out.
Unreachable(s) == s.phase \in {"down", "hung"}

Failed(kind) == [kind |-> kind, payload |-> None]

\* The responses, as _map_status_code and the validation of the body read them;
\* "garbled" is a 200 that is no JSON, or whose planes do not fit the grid.
Responses(s, q) ==
  CASE s.phase = "degraded" -> {Failed("notloaded")}
    [] s.phase = "faulty"   -> {Failed("failed"), Failed("garbled")}
    [] s.phase = "ready" /\ Refused(s, q) -> {Failed("nodata")}
    [] s.phase = "ready" /\ ~Refused(s, q) ->
         {[kind |-> "ok", payload |-> LivePayload(q, s.model, day)] :
            day \in IF OnLand(q) THEN {None} ELSE PredictedDays(q.region, q.date)}
    [] OTHER -> {}

-----------------------------------------------------------------------------
\* What the service owes: every day with a full window of input behind it, and on
\* land any day.
Serves(s, q) ==
  /\ s.phase = "ready" /\ s.region = q.region
  /\ OnLand(q) \/ Predicts(q.region, q.date)

\* The sources that can serve q now.
Able(q) == {x \in {"live", "demo"} : \/ x = "live" /\ Serves(ml, q)
                                     \/ x = "demo" /\ Readable(q.region, q.date)}

\* History: what is still able of what was able when the query came.
Observe ==
  steady' = [t \in Threads |->
    IF pc'[t] = "idle" THEN {}
    ELSE IF pc[t] = "idle" THEN Able(query[t])'
    ELSE steady[t] \cap Able(query[t])']

-----------------------------------------------------------------------------
\* The process is started, loads its model or fails to, stops, hangs, errs.
MLChanges ==
  /\ ml' \in MLStates \ {ml}
  /\ UNCHANGED <<cache, pc, query, reply, answer, demoVars>>
  /\ Observe

-----------------------------------------------------------------------------
(***************************************************************************)
(* The TTL caches.                                                         *)
(***************************************************************************)
\* Mutant: the key leaves out the depth, or the coordinates.
CacheKeyWithoutPlace(q) == [route |-> q.route, region |-> q.region, date |-> q.date]
CacheKey(q) == q

SameCache(k, q) == k.route = q.route

\* cache[key] = payload; a full cache first drops an entry.
Put(q, payload) ==
  LET mine == {k \in DOMAIN cache : SameCache(k, q)}
      Full == CacheKey(q) \notin mine /\ Cardinality(mine) >= CacheSize
  IN  \E dropped \in IF Full THEN {{k} : k \in mine} ELSE {{}} :
        cache' = [k \in (DOMAIN cache \ dropped) \cup {CacheKey(q)} |->
                    IF k = CacheKey(q) THEN [payload |-> payload, left |-> TTL]
                                       ELSE cache[k]]

\* Mutant: a replay gives the entry a new lease.
AfterReplayRenewed(q) == [cache EXCEPT ![CacheKey(q)].left = TTL]
\* A replay leaves the cache alone.
AfterReplay(q) == cache

\* A tick of the clock the caches go by.
Tick ==
  /\ DOMAIN cache # {}
  /\ cache' = [k \in {k \in DOMAIN cache : cache[k].left > 1} |->
                 [cache[k] EXCEPT !.left = @ - 1]]
  /\ UNCHANGED <<ml, pc, query, reply, answer, demoVars>>
  /\ Observe

-----------------------------------------------------------------------------
(***************************************************************************)
(* The handlers get_ocean_map and get_ocean_profile.                       *)
(***************************************************************************)
Arrives(t, q) == pc[t] = "idle" /\ query' = [query EXCEPT ![t] = q]
At(t, p)      == pc[t] = p
GoTo(t, p)    == pc' = [pc EXCEPT ![t] = p]
Answers(t, label, payload) ==
  /\ GoTo(t, "answered")
  /\ answer' = [answer EXCEPT ![t] = [label |-> label, payload |-> payload]]

Reject(t, q) ==
  /\ Arrives(t, q) /\ q \notin Valid
  /\ Answers(t, "invalid", None)
  /\ UNCHANGED <<ml, cache, reply, demoVars>>
  /\ Observe

Replay(t, q) ==
  /\ Arrives(t, q) /\ q \in Valid /\ CacheKey(q) \in DOMAIN cache
  /\ Answers(t, "cached_data", cache[CacheKey(q)].payload)
  /\ cache' = AfterReplay(q)
  /\ UNCHANGED <<ml, reply, demoVars>>
  /\ Observe

Miss(t, q) ==
  /\ Arrives(t, q) /\ q \in Valid /\ CacheKey(q) \notin DOMAIN cache
  /\ GoTo(t, "calling")
  /\ UNCHANGED <<ml, cache, reply, answer, demoVars>>
  /\ Observe

Receives(t, r) ==
  /\ GoTo(t, "replied")
  /\ reply' = [reply EXCEPT ![t] = r]
  /\ UNCHANGED <<ml, cache, query, answer, demoVars>>
  /\ Observe

CallBreaks(t)  == At(t, "calling") /\ Unreachable(ml) /\ Receives(t, Failed("notloaded"))
CallReturns(t) == At(t, "calling") /\ \E r \in Responses(ml, query[t]) : Receives(t, r)

\* Mutant: a 404 of the model service is passed on without trying the demo cache.
CaughtWithoutNoData == {"notloaded", "failed"}
\* The errors after which the handlers try the demo cache.
Caught == {"nodata", "notloaded", "failed"}

ServeLive(t) ==
  /\ At(t, "replied") /\ reply[t].kind = "ok"
  /\ Put(query[t], reply[t].payload)
  /\ Answers(t, "model_prediction", reply[t].payload)
  /\ UNCHANGED <<ml, query, reply, demoVars>>
  /\ Observe

\* The demo cache is tried.
FallsBack(t) == At(t, "replied") /\ reply[t].kind \in Caught

\* Any other exception ends as an internal error, without a fallback.
Crash(t) ==
  /\ At(t, "replied") /\ reply[t].kind \notin Caught \cup {"ok"}
  /\ Answers(t, IF reply[t].kind = "garbled" THEN "crashed" ELSE reply[t].kind, None)
  /\ UNCHANGED <<ml, cache, query, reply, demoVars>>
  /\ Observe

\* Without a readable entry: 404 if the service said no data, else 503.
GiveUp(t) ==
  /\ Answers(t, IF reply[t].kind = "nodata" THEN "nodata" ELSE "notloaded", None)
  /\ UNCHANGED <<ml, cache, query, reply, demoVars>>
  /\ Observe

\* The files are looked for and the grid is read ...
ReadCoordinates(t) ==
  LET q == query[t] IN
  /\ FallsBack(t)
  /\ files[q.region][q.date] # None /\ Whole(coords[q.region])
  /\ GoTo(t, "loading")
  /\ UNCHANGED <<ml, cache, query, reply, answer, demoVars>>
  /\ Observe

NoCoordinates(t) ==
  LET q == query[t] IN
  /\ FallsBack(t)
  /\ files[q.region][q.date] = None \/ ~Whole(coords[q.region])
  /\ GiveUp(t)

\* ... then the values.
ServeDemo(t) ==
  LET q == query[t]
      payload == [query |-> q, source |-> "demo", maker |-> files[q.region][q.date],
                  day |-> q.date]
  IN  /\ At(t, "loading") /\ Whole(files[q.region][q.date])
      /\ Put(q, payload)
      /\ Answers(t, "fallback_demo", payload)
      /\ UNCHANGED <<ml, query, reply, demoVars>>
      /\ Observe

NoValues(t) ==
  /\ At(t, "loading") /\ ~Whole(files[query[t].region][query[t].date])
  /\ GiveUp(t)

\* The response is sent.
Finish(t) ==
  /\ At(t, "answered")
  /\ GoTo(t, "idle")
  /\ query' = [query EXCEPT ![t] = None]
  /\ reply' = [reply EXCEPT ![t] = None]
  /\ answer' = [answer EXCEPT ![t] = None]
  /\ UNCHANGED <<ml, cache, demoVars>>
  /\ Observe

-----------------------------------------------------------------------------
Init ==
  /\ DemoInit
  /\ ml \in MLStates
  /\ cache = [k \in {} |-> None]
  /\ pc = [t \in Threads |-> "idle"]
  /\ query = [t \in Threads |-> None]
  /\ reply = [t \in Threads |-> None]
  /\ answer = [t \in Threads |-> None]
  /\ steady = [t \in Threads |-> {}]

Handle(t) ==
  \/ CallBreaks(t) \/ CallReturns(t)
  \/ ServeLive(t) \/ Crash(t)
  \/ ReadCoordinates(t) \/ NoCoordinates(t)
  \/ ServeDemo(t) \/ NoValues(t)
  \/ Finish(t)

Next ==
  \/ \E t \in Threads, q \in Queries : Reject(t, q) \/ Replay(t, q) \/ Miss(t, q)
  \/ \E t \in Threads : Handle(t)
  \/ MLChanges
  \/ Tick
  \/ DemoNext /\ UNCHANGED <<ml, cache, pc, query, reply, answer>> /\ Observe

\* A handler runs to its end (the client of the model service has a timeout), and
\* time passes; clients, the service and the builder owe nothing.
Fairness ==
  /\ \A t \in Threads : WF_vars(Handle(t))
  /\ WF_vars(Tick)

Spec == Init /\ [][Next]_vars /\ Fairness

-----------------------------------------------------------------------------
Answered(t) == pc[t] = "answered"
Label(t)    == answer[t].label

CacheTypeOK ==
  /\ DOMAIN cache \subseteq Valid /\ IsFiniteSet(DOMAIN cache)
  /\ \A k \in DOMAIN cache :
       /\ cache[k] \in [payload : Payload, left : 1 .. TTL]
       /\ Cardinality({j \in DOMAIN cache : SameCache(j, k)}) <= CacheSize

HandlerTypeOK ==
  /\ pc \in [Threads -> {"idle", "calling", "replied", "loading", "answered"}]
  /\ query \in [Threads -> Queries \cup {None}]
  /\ reply \in [Threads -> Reply \cup {None}]
  /\ answer \in [Threads -> Answer \cup {None}]
  /\ steady \in [Threads -> SUBSET {"live", "demo"}]
  /\ \A t \in Threads :
       /\ pc[t] = "idle" <=> query[t] = None
       /\ pc[t] \in {"calling", "replied", "loading"} => query[t] \in Valid
       /\ pc[t] \in {"replied", "loading"} => reply[t] \in Reply
       /\ pc[t] = "answered" => answer[t] \in Answer

\* Types; no route's cache outgrows its size, and whatever it keeps has time left.
TypeOK == DemoTypeOK /\ ml \in MLStates /\ CacheTypeOK /\ HandlerTypeOK

\* A payload answers the query it is sent for, though it may come out of a cache
\* that other threads fill for other depths, dates and regions.
OwnAnswer ==
  \A t \in Threads : (Answered(t) /\ answer[t].payload # None) =>
    answer[t].payload.query = query[t]

\* A query fails, in whatever way, only if neither the model service nor the demo cache
\* was able to serve it all along: while one goes the other is tried, whatever order
\* the service's state, its error and the builder's writes come in.  The one exception
\* is a garbled 200 of the model service: no typed error comes of it, against what the
\* head of inference_client.py says, and no fallback, be the demo cache able or not.
FailsOnlyWithoutSource ==
  \A t \in Threads :
    (Answered(t) /\ Label(t) \in {"nodata", "notloaded", "failed", "crashed"}) =>
      steady[t] = {} \/ reply[t].kind = "garbled"

\* Demo data, and errors, are sent only if the live model was not able to serve
\* the query all along.
LiveFirst ==
  \A t \in Threads :
    (Answered(t) /\ Label(t) \in {"fallback_demo", "nodata", "notloaded", "crashed"}) =>
      "live" \notin steady[t]

\* Every request is answered, whatever becomes of the model service meanwhile.
EveryRequestAnswered == \A t \in Threads : (pc[t] # "idle") ~> (pc[t] = "idle")

\* Once the model serves a query for good, demo data for it dies out, although it
\* sits in the cache and is replayed over and over.
LiveInTheEnd ==
  \A q \in Valid :
    <>[]Serves(ml, q) =>
      <>[](\A t \in Threads : (Answered(t) /\ query[t] = q) =>
             answer[t].payload # None /\ answer[t].payload.source = "live")

\* What the three answer properties, and the refinement below, rest on: what is in the
\* cache answers its key; what a handler has been told is of its query, or the live
\* model has failed it; and what was able all along is able now.
CacheInv == \A k \in DOMAIN cache : cache[k].payload.query = k
ReplyInv ==
  \A t \in Threads :
    /\ (pc[t] = "replied" /\ reply[t].kind = "ok") =>
         /\ reply[t].payload \in Payload
         /\ reply[t].payload.query = query[t] /\ reply[t].payload.source = "live"
    /\ (pc[t] = "replied" /\ reply[t].kind # "ok") => "live" \notin steady[t]
    /\ pc[t] = "loading" => "live" \notin steady[t]
SteadyInv ==
  \A t \in Threads : steady[t] \subseteq IF pc[t] = "idle" THEN {} ELSE Able(query[t])

RoutesInv ==
  /\ OwnAnswer /\ FailsOnlyWithoutSource /\ LiveFirst
  /\ CacheInv /\ ReplyInv /\ SteadyInv

-----------------------------------------------------------------------------
\* The promise of a route, seen through its state: waiting, answered, kept.
Given(t) ==
  IF ~Answered(t) THEN None
  ELSE [of   |-> IF answer[t].payload = None THEN query[t] ELSE answer[t].payload.query,
        from |-> IF answer[t].payload # None THEN answer[t].payload.source
                 ELSE IF Label(t) = "invalid" THEN "refused"
                 ELSE IF Label(t) = "crashed" THEN "broken" ELSE "none"]

\* While it waits, what could serve it all along; once answered, that is no matter.
StillAble(t) == IF Answered(t) THEN {} ELSE steady[t]

Promise == INSTANCE HonestAnswer WITH
  asked <- query,
  able  <- [t \in Threads |-> StillAble(t)],
  given <- [t \in Threads |-> Given(t)],
  kept  <- [k \in DOMAIN cache |-> cache[k].payload.source]

\* The routes implement HonestAnswer: their calls, fallbacks, races with the builder
\* and replays come to nothing but answers it allows.
KeepsPromise == Promise!Spec
=============================================================================
