---------------------------- MODULE MCOceanRoutes ----------------------------
(* The store of "bay" has the days 1 and 2; with a window of two days, day 1  *)
(* is in the store but not served.  "arabian" is declared and has no store    *)
(* behind it.                                                                 *)
EXTENDS OceanRoutes, TLC

MCDates == 1 .. 2
MCStore == [r \in Regions |-> IF r = "bay" THEN 1 .. 2 ELSE {}]

Map(d, z)     == [route |-> "map", region |-> "bay", date |-> d, place |-> z]
Profile(d, c) == [route |-> "profile", region |-> "bay", date |-> d, place |-> c]

\* Two depths of one field compete for one place in the map cache, and a profile
\* on land is served for any day.
SafetyQueries == {Map(2, "0m"), Map(2, "100m"), Profile(1, "land")}
BothDays      == {Map(1, "0m"), Map(2, "0m")}
\* 5 m is not a canonical depth.
WithInvalid   == BothDays \cup {Map(2, "5m")}

State(phase, r) == [phase |-> phase, region |-> r, model |-> 1]
SafetyStates == {State("faulty", "bay"), State("ready", "bay"), State("ready", "arabian")}
LiveStates   == {State("down", "bay"), State("hung", "bay"), State("degraded", "bay"),
                 State("ready", "bay")}

ThreadSymmetry == Permutations(Threads)
=============================================================================
