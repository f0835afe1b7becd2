--------------------------- MODULE InferenceService ---------------------------
(***************************************************************************)
(* Which day of its tensor store the model service uses for a date, as     *)
(* functions of the store: shared by the service's HTTP handlers and by    *)
(* the offline builder of the demo cache.  Dates are naturals.             *)
(***************************************************************************)
EXTENDS Naturals, FiniteSets

CONSTANTS
  Regions,  \* region identifiers
  Dates,    \* dates a user or the builder can ask for
  Store,    \* Store[r]: the days in the tensor store of region r
  Window,   \* TEMPORAL_WINDOW: days of input behind a prediction
  None

ASSUME StoreAssumption ==
  /\ Dates \subseteq Nat
  /\ Store \in [Regions -> SUBSET Dates] /\ \A r \in Regions : IsFiniteSet(Store[r])
  /\ Window \in Nat \ {0}
  /\ None \notin Nat /\ None \notin Regions

Distance(d, e) == IF d < e THEN e - d ELSE d - e

\* The position of a day in the store.
Index(r, day) == Cardinality({e \in Store[r] : e < day})

\* _date_to_index: the closest day, the earlier of two (argmin takes the first),
\* if it is at most one day away.
DayFor(r, date) ==
  {e \in Store[r] : /\ Distance(e, date) <= 1
                    /\ \A f \in Store[r] \ {e} :
                         \/ Distance(e, date) < Distance(f, date)
                         \/ Distance(e, date) = Distance(f, date) /\ e < f}

\* The day predict uses: the first Window - 1 days of the store are refused.
PredictedDays(r, date) == {e \in DayFor(r, date) : Index(r, e) + 1 >= Window}
Predicts(r, date) == PredictedDays(r, date) # {}
=============================================================================
