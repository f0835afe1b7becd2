---------------------------- MODULE MCTrainingData ----------------------------
(* Two channels of the seven; "coast" has no salinity, "cloudy" a temperature *)
(* on odd days only.  The second period overlaps the first.                   *)
EXTENDS TrainingData

MCOrder    == <<"SST", "SSS">>
MCOffered  == [s \in Sources |-> IF s = "SSS" THEN 1 .. 4 ELSE 1 .. 5]
MCFinite   == [c \in Channels |-> [d \in 1 .. 5 |->
  {"open"} \cup (IF c = "SST" THEN {"coast"} ELSE {})
           \cup (IF c = "SSS" \/ d % 2 = 1 THEN {"cloudy"} ELSE {})]]
First      == [start |-> 1, end |-> 3]
Second     == [start |-> 3, end |-> 4]
MCPeriods  == {First, Second}

(* One channel and one period of a single chunk, to download it often.        *)
MCOneChannel == <<"SST">>
MCOnePeriod  == {Second}
=============================================================================
