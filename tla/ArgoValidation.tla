---------------------------- MODULE ArgoValidation ----------------------------
(***************************************************************************)
(* The independent validation: which days of the tensor store are trained  *)
(* on and which are held out, the acquisition of ARGO profiles of the      *)
(* held-out days into a store, from a server and through a cache of files, *)
(* and the report that compares the model with that store.                 *)
(***************************************************************************)
EXTENDS Integers, FiniteSets, FiniteSetsExt

CONSTANTS
  Days,      \* the days a time axis can have
  T,         \* temporal_window
  Num, Den,  \* val_fraction = Num / Den
  Canon,     \* CANONICAL_DEPTHS_M
  Profiles,  \* what the ARGO server has
  MaxRuns,   \* bound: runs of acquire_argo
  None, Torn

\* A profile has a date in the index, p.day, and one of its own in its file: the day
\* p.filed, None if JULD_QC is not good, and the half of it.  Where the validator's
\* nearest cell or the index puts it; and the QC flags of a level, adjusted values
\* being optional.
Places == {"sea", "land", "outside", "unlocated"}
Levels == [depth : Nat, raw : {"good", "bad"}, adjusted : {"good", "bad", "absent"}]

ASSUME ArgoAssumption ==
  /\ Days \subseteq Nat /\ IsFiniteSet(Days) /\ Canon \subseteq Nat /\ IsFiniteSet(Canon)
  /\ T \in Nat \ {0} /\ Den \in Nat \ {0} /\ Num \in 1 .. Den /\ MaxRuns \in Nat
  /\ IsFiniteSet(Profiles)
  /\ \A p \in Profiles :
       /\ p.day \in Nat \cup {None}
       /\ p.filed \in Nat \cup {None} /\ p.afternoon \in BOOLEAN
       /\ p.place \in Places /\ p.levels \subseteq Levels /\ IsFiniteSet(p.levels)
  /\ None \notin Nat /\ None # Torn /\ "whole" \notin {None, Torn}

VARIABLES
  axis,     \* the days of the tensor store
  index,    \* the cached index: the profiles with a row in it, or None
  cached,   \* cached[p]: the file of p
  stage,    \* where acquire_argo is; "idle" when it does not run
  job,      \* its arguments and what it found: [download, selected]
  store,    \* profiles.json: the profiles in it, None or Torn
  report,   \* argo_report.json
  code,     \* exit code of the last program that ended by itself
  runs,     \* runs started
  cut,      \* History: the files whose download was broken off
  indexCut  \* History: whether the index's was

vars == <<axis, index, cached, stage, job, store, report, code, runs, cut, indexCut>>

-----------------------------------------------------------------------------
(***************************************************************************)
(* The split of the samples: create_dataloaders, and its re-implementation *)
(* in compute_validation_window.                                           *)
(***************************************************************************)
NSamples(n) == n - T + 1
\* int() truncates; max(1, .) makes nothing of negative counts.
NVal(n) == IF NSamples(n) * Num < Den THEN 1 ELSE (NSamples(n) * Num) \div Den

\* The k-th day of the axis, from 0, and the position of a day.
Position(day) == Cardinality({e \in axis : e < day})
DayAt(k) == CHOOSE day \in axis : Position(day) = k

\* __getitem__: the target of sample i is the last day of its window.
Target(i) == i + T - 1
TrainTargets == {DayAt(Target(i)) : i \in 0 .. NSamples(Cardinality(axis)) - NVal(Cardinality(axis)) - 1}

\* Mutant: the first day of the first held-out window, instead of its last.
FirstValPositionEarly == Max({0, NSamples(Cardinality(axis)) - NVal(Cardinality(axis))})
\* compute_validation_window: from the first held-out target to the end.
FirstValPosition == NSamples(Cardinality(axis)) - NVal(Cardinality(axis)) + T - 1
InWindow(day) == DayAt(FirstValPosition) <= day /\ \E e \in axis : day <= e

-----------------------------------------------------------------------------
(***************************************************************************)
(* From a row of the index to an entry of the store.                       *)
(***************************************************************************)
\* Mutant: the profiles of all days are taken.
SelectedAnyDay(rows) == {p \in rows : p.day # None /\ p.place \notin {"unlocated", "outside"}}
\* parse_index drops rows without a date, select_rows those without a position.
Selected(rows) ==
  {p \in rows : /\ p.day # None /\ p.place \notin {"unlocated", "outside"}
                /\ InWindow(p.day)}

\* _measurement_series: the value taken of a level.  An adjusted value counts only
\* beside a good raw one.
Measured(l) == IF l.raw # "good" THEN "none"
               ELSE IF l.adjusted = "good" THEN "adjusted" ELSE "raw"
GoodDepths(p) == {l.depth : l \in {l \in p.levels : Measured(l) # "none"}}

\* parse_gdac_profile: usable with a good date and a level left.  Its date is the
\* midnight nearest to the file's, so that of an afternoon is the next day's.
Usable(p)    == p.filed # None /\ GoodDepths(p) # {}
EntryDate(p) == IF p.afternoon THEN p.filed + 1 ELSE p.filed

Gap(d, e) == IF d < e THEN e - d ELSE d - e

\* Mutant: two days apart is near enough.
AgreesWithinTwo(p) == Gap(EntryDate(p), p.day) <= 2
\* load_gdac_files: the file's date and the index's may be a day apart, either way.
Agrees(p) == Gap(EntryDate(p), p.day) <= 1

\* Mutant: a file that cannot be parsed ends the loading.
LoadedUntilBroken(sel) ==
  {p \in sel : /\ \A q \in sel : cached[q] # Torn
               /\ cached[p] = "whole" /\ Usable(p) /\ Agrees(p)}
\* load_gdac_files: what is missing, torn, unusable or misdated is skipped.
Loaded(sel) == {p \in sel : cached[p] = "whole" /\ Usable(p) /\ Agrees(p)}

-----------------------------------------------------------------------------
(***************************************************************************)
(* acquire_argo.                                                           *)
(***************************************************************************)
Exit(c) == stage' = "idle" /\ code' = c

\* An index in the cache is taken as it is; without one, it is fetched or, if
\* downloading is off, missed.
Begin(download) ==
  /\ stage = "idle" /\ runs < MaxRuns
  /\ runs' = runs + 1
  /\ job' = [download |-> download, selected |-> {}]
  /\ IF index # None THEN stage' = "select" /\ UNCHANGED <<index, code>>
     ELSE IF download THEN stage' = "index" /\ index' = {} /\ UNCHANGED code
     ELSE Exit(1) /\ UNCHANGED index
  /\ UNCHANGED <<axis, cached, store, report, cut, indexCut>>

CloseIndex ==
  /\ stage = "index"
  /\ index' = Profiles
  /\ stage' = "select"
  /\ UNCHANGED <<axis, cached, job, store, report, code, runs, cut, indexCut>>

SelectRows ==
  /\ stage = "select"
  /\ job' = [job EXCEPT !.selected = Selected(index)]
  /\ IF Selected(index) = {} THEN Exit(2)
     ELSE stage' = (IF job.download THEN "fetch" ELSE "load") /\ UNCHANGED code
  /\ UNCHANGED <<axis, index, cached, store, report, runs, cut, indexCut>>

\* fetch: what is there, whole or not, is not fetched again.
ToFetch == {p \in job.selected : cached[p] = None}

OpenFile(p) ==
  /\ stage = "fetch" /\ p \in ToFetch
  /\ cached' = [cached EXCEPT ![p] = Torn]
  /\ stage' = "file"
  /\ UNCHANGED <<axis, index, job, store, report, code, runs, cut, indexCut>>

\* The server does not have the file, or does not answer: nothing catches it.
FetchFails ==
  /\ stage = "fetch" /\ ToFetch # {}
  /\ Exit(1)
  /\ UNCHANGED <<axis, index, cached, job, store, report, runs, cut, indexCut>>

\* The one being written is the torn one that no download was broken off of.
CloseFile(p) ==
  /\ stage = "file" /\ cached[p] = Torn /\ p \notin cut
  /\ cached' = [cached EXCEPT ![p] = "whole"]
  /\ stage' = "fetch"
  /\ UNCHANGED <<axis, index, job, store, report, code, runs, cut, indexCut>>

AllFetched ==
  /\ stage = "fetch" /\ ToFetch = {}
  /\ stage' = "load"
  /\ UNCHANGED <<axis, index, cached, job, store, report, code, runs, cut, indexCut>>

LoadFiles ==
  /\ stage = "load"
  /\ IF Loaded(job.selected) = {} THEN Exit(2) /\ UNCHANGED store
     ELSE stage' = "write" /\ store' = Torn /\ UNCHANGED code
  /\ UNCHANGED <<axis, index, cached, job, report, runs, cut, indexCut>>

\* write_profiles_json.  (Its second file, the provenance, is read by nobody.)
WriteProfiles ==
  /\ stage = "write"
  /\ store' = Loaded(job.selected)
  /\ Exit(0)
  /\ UNCHANGED <<axis, index, cached, job, report, runs, cut, indexCut>>

\* The program is stopped, or the connection breaks: of an index that was being
\* fetched, some first lines are there.
BreakOff ==
  /\ stage # "idle"
  /\ stage' = "idle"
  /\ IF stage = "index" THEN index' \in SUBSET Profiles ELSE UNCHANGED index
  /\ indexCut' = (indexCut \/ stage = "index")
  /\ cut' = cut \cup {p \in Profiles : stage = "file" /\ cached[p] = Torn}
  /\ UNCHANGED <<axis, cached, job, store, report, code, runs>>

-----------------------------------------------------------------------------
(***************************************************************************)
(* evaluate_argo.                                                          *)
(***************************************************************************)
\* date_to_time_index: the closest day, the earlier of two, within a day.
DayOf(date) ==
  {e \in axis : /\ Gap(e, date) <= 1
                /\ \A f \in axis \ {e} : Gap(e, date) < Gap(f, date) \/
                                        (Gap(e, date) = Gap(f, date) /\ e < f)}

\* Mutant: np.interp goes on beyond the ends with their values.
ObservedBeyond(p) == IF Cardinality(GoodDepths(p)) < 2 THEN {} ELSE Canon
\* interp_to_canonical: the depths that get a value.
Observed(p) ==
  IF Cardinality(GoodDepths(p)) < 2 THEN {}
  ELSE {z \in Canon : Min(GoodDepths(p)) <= z /\ z <= Max(GoodDepths(p))}

\* ArgoValidator.validate: what becomes of a profile.
Verdict(p) ==
  IF \A e \in DayOf(EntryDate(p)) : Position(e) < T - 1 THEN "date_out_of_window"
  ELSE IF p.place = "land" THEN "land" ELSE "matched"

\* ... and score_profiles.  With matches, n_profiles counts those only.
Report(ps) ==
  LET matched == {p \in ps : Verdict(p) = "matched"}
  IN  [profiles    |-> ps,
       n_profiles  |-> Cardinality(IF matched # {} THEN matched ELSE ps),
       n_matched   |-> Cardinality(matched),
       n_unmatched |-> Cardinality(ps \ matched),
       scored      |-> {s \in matched \X Canon : s[2] \in Observed(s[1])}]

Evaluate ==
  /\ stage = "idle"
  /\ IF store \in {None, Torn} THEN code' = 1 /\ UNCHANGED report
     ELSE code' = 0 /\ report' = Report(store)
  /\ UNCHANGED <<axis, index, cached, stage, job, store, runs, cut, indexCut>>

-----------------------------------------------------------------------------
Init ==
  /\ axis \in (SUBSET Days) \ {{}}
  /\ index = None /\ cached = [p \in Profiles |-> None]
  /\ stage = "idle" /\ job = [download |-> FALSE, selected |-> {}]
  /\ store = None /\ report = None /\ code = None /\ runs = 0
  /\ cut = {} /\ indexCut = FALSE

Next ==
  \/ \E download \in BOOLEAN : Begin(download)
  \/ CloseIndex \/ SelectRows
  \/ \E p \in Profiles : OpenFile(p) \/ CloseFile(p)
  \/ FetchFails \/ AllFetched \/ LoadFiles \/ WriteProfiles
  \/ BreakOff
  \/ Evaluate

Spec == Init /\ [][Next]_vars

-----------------------------------------------------------------------------
\* The profiles that the index puts on the held-out days and whose files are good.
HeldOutProfiles ==
  {p \in Profiles : p.day # None /\ InWindow(p.day) /\ Usable(p) /\ Agrees(p)}

\* Types; only files selected by some run are cached, and the counts of a report
\* are those of its profiles.
ArgoTypeOK ==
  /\ axis \subseteq Days /\ axis # {}
  /\ index = None \/ index \subseteq Profiles
  /\ cached \in [Profiles -> {None, Torn, "whole"}]
  /\ stage \in {"idle", "index", "select", "fetch", "file", "load", "write"}
  /\ job \in [download : BOOLEAN, selected : SUBSET Profiles]
  /\ store \in {None, Torn} \cup SUBSET Profiles
  /\ \A p \in Profiles : cached[p] # None => p.day # None /\ InWindow(p.day)
  /\ report # None => report.n_matched + report.n_unmatched = Cardinality(report.profiles)
  /\ code \in {None, 0, 1, 2} /\ runs \in 0 .. MaxRuns /\ cut \subseteq Profiles /\ indexCut \in BOOLEAN

\* "the training period is never included" (acquire_argo.py): no profile is compared
\* with the model on a day that some training sample had as its target.  The code
\* breaks it: it takes profiles by the index's date and compares them by the file's.
HeldOut ==
  report # None =>
    \A p \in report.profiles : Verdict(p) = "matched" =>
      DayOf(EntryDate(p)) \cap TrainTargets = {}

\* How far it goes: the two programs compute the split on their own, dates are rounded
\* and tolerated, and the nearest day may be another one; yet the only training target
\* a profile is ever compared with is the last, and only if the index puts the profile
\* on the next day of the axis and its own file on the date before that day.
TrainedOnlyAtTheEdge ==
  report # None =>
    \A p \in report.profiles : \A e \in DayOf(EntryDate(p)) \cap TrainTargets :
      /\ \A day \in TrainTargets : day <= e
      /\ p.day \in axis /\ \A day \in axis : day <= e \/ p.day <= day
      /\ EntryDate(p) = p.day - 1

\* A model is never scored where nothing was measured: every depth that counts lies
\* between two levels of that profile with good raw values.
NoExtrapolation ==
  report # None =>
    \A s \in report.scored :
      \E above, below \in {l \in s[1].levels : l.raw = "good"} :
        above.depth <= s[2] /\ s[2] <= below.depth /\ above.depth # below.depth

\* Whatever was broken off before, a run that downloads ends with every usable,
\* well-dated profile of the held-out days, but for those whose own file, or the index, was cut.
CompleteUnlessCut ==
  (stage \in {"load", "write"} /\ job.download /\ ~indexCut) =>
    {p \in Selected(Profiles) : Usable(p) /\ Agrees(p) /\ p \notin cut}
      = Loaded(job.selected)

\* What the three properties rest on: the rows a run works on are those of its index,
\* the store and the report are of held-out profiles, ...
SelectionInv ==
  /\ stage \in {"select", "fetch", "file", "load", "write"} =>
       index \subseteq Profiles /\ (~indexCut => index = Profiles)
  /\ (stage # "index" /\ ~indexCut) => index \in {None, Profiles}
  /\ stage \in {"fetch", "file", "load", "write"} => job.selected = Selected(index)
  /\ store \in {None, Torn} \/ store \subseteq HeldOutProfiles
  /\ report # None =>
       report.profiles \subseteq HeldOutProfiles /\ report = Report(report.profiles)

\* ... and a file is torn while it is written, or for ever after its download was cut.
FilesInv ==
  /\ (stage \in {"load", "write"} /\ job.download) => ToFetch = {}
  /\ \A p \in cut : cached[p] = Torn
  /\ stage # "file" => \A p \in Profiles : cached[p] = Torn => p \in cut
  /\ \A p, q \in Profiles \ cut : cached[p] = Torn /\ cached[q] = Torn => p = q

ValidationInv == ArgoTypeOK /\ SelectionInv /\ FilesInv
=============================================================================
