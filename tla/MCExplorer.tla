----------------------------- MODULE MCExplorer -----------------------------
(* Small instances of Explorer: one region with data (two days, the later    *)
(* one in the warm window) and one without, or two with data.                *)
EXTENDS Explorer

MCRegions == {"bay", "arabian"}
MCRank == [r \in MCRegions |-> IF r = "bay" THEN 1 ELSE 2]
OneAvailable == {[r \in MCRegions |-> IF r = "bay" THEN {1, 2} ELSE {}]}
TwoReports == OneAvailable \cup {[r \in MCRegions |-> IF r = "bay" THEN {1} ELSE {2}]}
=============================================================================
