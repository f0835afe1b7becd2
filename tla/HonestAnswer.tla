----------------------------- MODULE HonestAnswer -----------------------------
(***************************************************************************)
(* What a route of the backend promises, without its calls, caches, files  *)
(* and exceptions: a query comes, and an answer goes that is of this query *)
(* and comes from the best source that stayed able to serve it.            *)
(***************************************************************************)
CONSTANTS Threads, Queries, Valid, None

VARIABLES
  asked,  \* the query each thread serves, or None
  able,   \* the sources that could serve it ever since it came
  given,  \* the answer: [of, from], or None
  kept    \* answers that may be repeated: [query -> source]

vars == <<asked, able, given, kept>>
SourceSet == {"live", "demo"}

Idle(t)    == asked[t] = None
Waiting(t) == asked[t] # None /\ given[t] = None

\* Sources come and go; of those a query had when it came, some are left.
Shrinks == \A t \in Threads : able'[t] \subseteq able[t]

Init ==
  /\ asked = [t \in Threads |-> None] /\ able = [t \in Threads |-> {}]
  /\ given = [t \in Threads |-> None] /\ kept = [q \in {} |-> None]

Ask(t, q) ==
  /\ Idle(t) /\ q \in Valid
  /\ asked' = [asked EXCEPT ![t] = q]
  /\ \E s \in SUBSET SourceSet : able' = [able EXCEPT ![t] = s]
  /\ UNCHANGED <<given, kept>>

\* A query that is not valid is refused, and one answered lately gets that again.
AnswerAtOnce(t, q, from) ==
  /\ Idle(t)
  /\ \/ q \notin Valid /\ from = "refused"
     \/ q \in Valid /\ q \in DOMAIN kept /\ from = kept[q]
  /\ asked' = [asked EXCEPT ![t] = q]
  /\ given' = [given EXCEPT ![t] = [of |-> q, from |-> from]]
  /\ UNCHANGED <<able, kept>>

\* The live model may answer whenever; demo data only if it failed meanwhile; and an
\* error, if both did or the live model failed by a broken answer.
Answer(t, from) ==
  /\ Waiting(t)
  /\ from \in SourceSet \cup {"none", "broken"}
  /\ from # "live" => "live" \notin able[t]
  /\ from = "none" => able[t] = {}
  /\ given' = [given EXCEPT ![t] = [of |-> asked[t], from |-> from]]
  /\ able' = [able EXCEPT ![t] = {}]
  /\ IF from \in SourceSet
     THEN /\ DOMAIN kept' \subseteq DOMAIN kept \cup {asked[t]}
          /\ \A q \in DOMAIN kept' : kept'[q] = IF q = asked[t] THEN from ELSE kept[q]
     ELSE UNCHANGED kept
  /\ UNCHANGED asked

Done(t) ==
  /\ given[t] # None
  /\ asked' = [asked EXCEPT ![t] = None]
  /\ given' = [given EXCEPT ![t] = None]
  /\ UNCHANGED <<able, kept>>

SourcesChange == Shrinks /\ DOMAIN able' = Threads /\ UNCHANGED <<asked, given, kept>>

Forget ==
  /\ DOMAIN kept' \subseteq DOMAIN kept
  /\ \A q \in DOMAIN kept' : kept'[q] = kept[q]
  /\ UNCHANGED <<asked, able, given>>

Next ==
  \/ SourcesChange
  \/ Forget
  \/ \E t \in Threads : Done(t)
  \/ \E t \in Threads, from \in SourceSet \cup {"none", "broken"} : Answer(t, from)
  \/ \E t \in Threads, q \in Queries : Ask(t, q)
  \/ \E t \in Threads, q \in Queries, from \in SourceSet \cup {"refused"} : AnswerAtOnce(t, q, from)

Spec == Init /\ [][Next]_vars
=============================================================================
