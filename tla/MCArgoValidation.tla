--------------------------- MODULE MCArgoValidation ---------------------------
(* Up to seven days with gaps, windows of three days, two fifths held out.  *)
EXTENDS ArgoValidation

Level(z, r, a) == [depth |-> z, raw |-> r, adjusted |-> a]
Profile(n, d, f, pm, place, ls) ==
  [id |-> n, day |-> d, filed |-> f, afternoon |-> pm, place |-> place, levels |-> ls]
\* Good levels at 5 and 20, and one at 100 good only after adjustment.
Deep == {Level(5, "good", "absent"), Level(20, "good", "good"), Level(100, "bad", "good")}

MCProfiles ==
  {Profile("a", 4, 3, FALSE, "sea", Deep), Profile("b", 6, 6, TRUE, "sea", Deep),
   Profile("c", 5, 5, TRUE, "land", Deep), Profile("d", 6, 6, FALSE, "sea", {Level(5, "bad", "absent")}),
   Profile("e", 6, 4, FALSE, "sea", Deep), Profile("f", 5, None, FALSE, "sea", Deep),
   Profile("g", 6, 6, FALSE, "unlocated", Deep), Profile("h", None, 6, FALSE, "sea", Deep)}
MCDays == 1 .. 7
=============================================================================
