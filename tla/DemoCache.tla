------------------------------ MODULE DemoCache ------------------------------
(***************************************************************************)
(* The demo cache directory: the offline builder that fills it, file by    *)
(* file, and what the backend's reader finds in it meanwhile.              *)
(*                                                                         *)
(* A file holds the number of the build that wrote it, is Torn from its    *)
(* opening to its closing (an interrupted build leaves it so), or is not   *)
(* there.  There is one manifest for all regions.                          *)
(***************************************************************************)
EXTENDS InferenceService

CONSTANTS
  Strides,    \* step_days a build can be called with
  Shipped,    \* the region an earlier build, number 0, has left a cache of, or None
  MaxBuilds,  \* bound: builds started
  Torn        \* what a file is while it is being written

ASSUME DemoAssumption ==
  /\ Strides \subseteq Nat /\ Shipped \in Regions \cup {None} /\ MaxBuilds \in Nat
  /\ Torn \notin Nat /\ Torn # None
  /\ {None, Torn} \cap [region : Regions, dates : SUBSET Dates, build : Nat] = {}
  /\ None \notin [region : Regions, todo : SUBSET Dates, chosen : SUBSET Dates,
                   skipped : SUBSET Dates,
                   stage : {"dates", "file", "coords", "listed", "manifest"}]

VARIABLES
  files,     \* files[r][d]: <cache>/<r>/<d>.npz
  coords,    \* coords[r]: <cache>/<r>/coordinates.json
  manifest,  \* <cache>/manifest.json
  job,       \* the build that is running, or None
  builds,    \* number of builds started
  dirty      \* regions whose last build did not come to its end

demoVars == <<files, coords, manifest, job, builds, dirty>>

Manifest == [region : Regions, dates : SUBSET Dates, build : Nat]
Job == [region : Regions, todo : SUBSET Dates, chosen : SUBSET Dates,
        skipped : SUBSET Dates,
        stage : {"dates", "file", "coords", "listed", "manifest"}]

ShippedDates == IF Shipped = None THEN {} ELSE {d \in Store[Shipped] : Predicts(Shipped, d)}

DemoInit ==
  /\ files = [r \in Regions |-> [d \in Dates |->
                IF r = Shipped /\ d \in ShippedDates THEN 0 ELSE None]]
  /\ coords = [r \in Regions |-> IF r = Shipped THEN 0 ELSE None]
  /\ manifest = IF Shipped = None THEN None
                ELSE [region |-> Shipped, dates |-> ShippedDates, build |-> 0]
  /\ job = None /\ builds = 0 /\ dirty = {}

-----------------------------------------------------------------------------
\* Mutant: every step-th day of the calendar.
ChosenFromCalendar(r, start, end, step) ==
  LET span == {d \in Dates : start <= d /\ d <= end}
  IN  {d \in span : (d - start) % (IF step < 1 THEN 1 ELSE step) = 0}
\* The days of the store from start to end, every step-th of them.
Chosen(r, start, end, step) ==
  LET span == {d \in Store[r] : start <= d /\ d <= end}
  IN  {d \in span : Cardinality({e \in span : e < d}) % (IF step < 1 THEN 1 ELSE step) = 0}

\* build_demo_cache up to its loop.
StartBuild(r, start, end, step) ==
  /\ job = None /\ builds < MaxBuilds
  /\ builds' = builds + 1
  /\ job' = [region |-> r, todo |-> Chosen(r, start, end, step),
             chosen |-> Chosen(r, start, end, step), skipped |-> {}, stage |-> "dates"]
  /\ dirty' = dirty \cup {r}
  /\ UNCHANGED <<files, coords, manifest>>

Stage(s) == job # None /\ job.stage = s
\* The next date of the loop.
Turn(d) == Stage("dates") /\ d \in job.todo /\ \A e \in job.todo : d <= e

\* predict refuses the date.
SkipDate(d) ==
  /\ Turn(d) /\ ~Predicts(job.region, d)
  /\ job' = [job EXCEPT !.todo = @ \ {d}, !.skipped = @ \cup {d}]
  /\ UNCHANGED <<files, coords, manifest, builds, dirty>>

\* np.savez.
OpenFile(d) ==
  /\ Turn(d) /\ Predicts(job.region, d)
  /\ files' = [files EXCEPT ![job.region][d] = Torn]
  /\ job' = [job EXCEPT !.stage = "file"]
  /\ UNCHANGED <<coords, manifest, builds, dirty>>

CloseFile(d) ==
  /\ Stage("file") /\ d \in job.todo /\ \A e \in job.todo : d <= e
  /\ files' = [files EXCEPT ![job.region][d] = builds]
  /\ job' = [job EXCEPT !.todo = @ \ {d}, !.stage = "dates"]
  /\ UNCHANGED <<coords, manifest, builds, dirty>>

OpenCoordinates ==
  /\ Stage("dates") /\ job.todo = {}
  /\ coords' = [coords EXCEPT ![job.region] = Torn]
  /\ job' = [job EXCEPT !.stage = "coords"]
  /\ UNCHANGED <<files, manifest, builds, dirty>>

CloseCoordinates ==
  /\ Stage("coords")
  /\ coords' = [coords EXCEPT ![job.region] = builds]
  /\ job' = [job EXCEPT !.stage = "listed"]
  /\ UNCHANGED <<files, manifest, builds, dirty>>

\* Mutant: the manifest is written before the coordinates.
ManifestReadyEarly == Stage("dates") /\ job.todo = {}
ManifestReady == Stage("listed")

OpenManifest ==
  /\ ManifestReady
  /\ manifest' = Torn
  /\ job' = [job EXCEPT !.stage = "manifest"]
  /\ UNCHANGED <<files, coords, builds, dirty>>

\* Mutant: the dates that were skipped are listed as well.
ListedDatesAll(j) == j.chosen
\* Mutant: whatever lies in the region's directory is listed.
ListedDatesFound(j) == {d \in Dates : files[j.region][d] \notin {None, Torn}}
ListedDates(j) == j.chosen \ j.skipped

CloseManifest ==
  /\ Stage("manifest")
  /\ manifest' = [region |-> job.region, dates |-> ListedDates(job), build |-> builds]
  /\ dirty' = dirty \ {job.region}
  /\ job' = None
  /\ UNCHANGED <<files, coords, builds>>

\* The builder is interrupted.
Interrupt ==
  /\ job # None
  /\ job' = None
  /\ UNCHANGED <<files, coords, manifest, builds, dirty>>

DemoNext ==
  \/ \E r \in Regions, start, end \in Dates, step \in Strides : StartBuild(r, start, end, step)
  \/ \E d \in Dates : SkipDate(d) \/ OpenFile(d) \/ CloseFile(d)
  \/ OpenCoordinates \/ CloseCoordinates
  \/ OpenManifest \/ CloseManifest
  \/ Interrupt

DemoSpec == DemoInit /\ [][DemoNext]_demoVars

-----------------------------------------------------------------------------
(***************************************************************************)
(* The backend's reader.                                                   *)
(***************************************************************************)
Whole(file) == file \notin {None, Torn}

\* get_map and get_profile find the region's grid and the date's file, and can
\* parse both.
Readable(r, d) == Whole(coords[r]) /\ Whole(files[r][d])

\* available_dates: the dates of the manifest if it is about this region.
Advertised(r) ==
  IF Whole(manifest) /\ manifest.region = r THEN manifest.dates ELSE {}

-----------------------------------------------------------------------------
\* Types; and a build chooses, and the manifest lists, only days of the store.
DemoTypeOK ==
  /\ files \in [Regions -> [Dates -> Nat \cup {None, Torn}]]
  /\ coords \in [Regions -> Nat \cup {None, Torn}]
  /\ manifest \in Manifest \cup {None, Torn}
  /\ job \in Job \cup {None}
  /\ builds \in Nat
  /\ dirty \subseteq Regions
  /\ job # None => job.chosen \subseteq Store[job.region]
  /\ Whole(manifest) => manifest.dates \subseteq Store[manifest.region]

\* The manifest never lists a date that was never written, whatever build was
\* interrupted where, and whatever dates predict refused.
AdvertisedWritten ==
  \A r \in Regions : \A d \in Advertised(r) : coords[r] # None /\ files[r][d] # None

\* Every date the manifest lists can be read, except while a build of its region
\* runs or after one was interrupted: builds of other regions do no harm.
AdvertisedReadable ==
  \A r \in Regions \ dirty : \A d \in Advertised(r) : Readable(r, d)

\* What the manifest lists, and the grid it is read on, come from the build that wrote
\* the manifest, whose checkpoint it names ("served dates, checkpoint identity and grid
\* shape can never disagree"), although files of earlier builds lie beside them.
ListedFromOneBuild ==
  \A r \in Regions \ dirty : \A d \in Advertised(r) :
    coords[r] = manifest.build /\ files[r][d] = manifest.build

\* What the three rest on: what a running build has written so far.
JobInv ==
  job # None =>
    /\ job.region \in dirty
    /\ job.todo \subseteq job.chosen
    /\ \A d \in (job.chosen \ job.skipped) \ job.todo : files[job.region][d] = builds
    /\ job.stage \in {"coords", "listed", "manifest"} => job.todo = {}
    /\ job.stage \in {"listed", "manifest"} => coords[job.region] = builds

BuildInv == AdvertisedWritten /\ ListedFromOneBuild /\ JobInv
=============================================================================
