---------------------------- MODULE DemoCacheProofs ----------------------------
(***************************************************************************)
(* Proofs about the demo cache, for every set of regions, every store and  *)
(* window, and any number of builds, interrupted or not.  The step lemmas  *)
(* speak of DemoNext alone, so that the modules that build on DemoCache    *)
(* can cite them.                                                          *)
(***************************************************************************)
EXTENDS DemoCache, TLAPS

LEMMA DemoTypeInit == DemoInit => DemoTypeOK
  <1> SUFFICES ASSUME DemoInit PROVE DemoTypeOK
    OBVIOUS
  <1> USE StoreAssumption, DemoAssumption DEF DemoInit
  <1>1. files \in [Regions -> [Dates -> Nat \cup {None, Torn}]]
    OBVIOUS
  <1>2. coords \in [Regions -> Nat \cup {None, Torn}]
    OBVIOUS
  <1>3. ShippedDates \subseteq Dates
    BY DEF ShippedDates
  <1>4. Shipped # None => ShippedDates \subseteq Store[Shipped]
    BY DEF ShippedDates
  <1>5. manifest \in Manifest \cup {None, Torn}
    BY <1>3 DEF Manifest
  <1>6. Whole(manifest) => manifest.dates \subseteq Store[manifest.region]
    BY <1>4 DEF Whole
  <1> QED
    BY <1>1, <1>2, <1>5, <1>6 DEF DemoTypeOK

\* The job while it runs is a record, and its region has a directory.
LEMMA JobType ==
  ASSUME DemoTypeOK, job # None
  PROVE  /\ job \in Job /\ job.region \in Regions
         /\ job.todo \subseteq Dates /\ job.chosen \subseteq Dates
         /\ job.chosen \subseteq Store[job.region]
  BY DEF DemoTypeOK, Job

LEMMA ChosenInStore ==
  ASSUME NEW r \in Regions, NEW start, NEW end, NEW step
  PROVE  /\ Chosen(r, start, end, step) \subseteq Store[r]
         /\ Chosen(r, start, end, step) \subseteq Dates
  BY StoreAssumption DEF Chosen

LEMMA DemoTypeStep ==
  ASSUME DemoTypeOK, [DemoNext]_demoVars
  PROVE  DemoTypeOK'
  <1> USE StoreAssumption, DemoAssumption DEF DemoTypeOK, Whole
  <1>1. ASSUME NEW r \in Regions, NEW start \in Dates, NEW end \in Dates, NEW step \in Strides,
               StartBuild(r, start, end, step)
        PROVE  DemoTypeOK'
    <2> DEFINE c == Chosen(r, start, end, step)
    <2>1. c \subseteq Store[r] /\ c \subseteq Dates
      BY ChosenInStore
    <2>2. job' = [region |-> r, todo |-> c, chosen |-> c, skipped |-> {}, stage |-> "dates"]
      BY <1>1 DEF StartBuild
    <2> HIDE DEF c
    <2>3. job' \in Job /\ job'.chosen \subseteq Store[job'.region]
      BY <2>1, <2>2 DEF Job
    <2> QED
      BY <1>1, <2>3 DEF StartBuild
  <1>2. ASSUME NEW d \in Dates, SkipDate(d) PROVE DemoTypeOK'
    <2>1. job \in Job /\ job.chosen \subseteq Store[job.region]
      BY <1>2, JobType DEF SkipDate, Turn, Stage
    <2>2. /\ job' \in Job
          /\ job'.region = job.region /\ job'.chosen = job.chosen
      BY <1>2, <2>1 DEF SkipDate, Job
    <2> QED
      BY <1>2, <2>1, <2>2 DEF SkipDate
  <1>3. ASSUME NEW d \in Dates, OpenFile(d) \/ CloseFile(d) PROVE DemoTypeOK'
    <2>1. job \in Job /\ job.region \in Regions /\ job.chosen \subseteq Store[job.region]
      BY <1>3, JobType DEF OpenFile, CloseFile, Turn, Stage
    <2>2. /\ job' \in Job
          /\ job'.region = job.region /\ job'.chosen = job.chosen
      <3>1. CASE OpenFile(d)
        BY <2>1, <3>1 DEF OpenFile, Job
      <3>2. CASE CloseFile(d)
        BY <2>1, <3>2 DEF CloseFile, Job
      <3> QED
        BY <1>3, <3>1, <3>2
    <2>3. \E v \in Nat \cup {Torn} : files' = [files EXCEPT ![job.region][d] = v]
      BY <1>3 DEF OpenFile, CloseFile
    <2>4. files' \in [Regions -> [Dates -> Nat \cup {None, Torn}]]
      BY <2>1, <2>3
    <2> QED
      BY <1>3, <2>1, <2>2, <2>4 DEF OpenFile, CloseFile
  <1>4. CASE OpenCoordinates \/ CloseCoordinates
    <2>1. job \in Job /\ job.region \in Regions /\ job.chosen \subseteq Store[job.region]
      BY <1>4, JobType DEF OpenCoordinates, CloseCoordinates, Stage
    <2>2. /\ job' \in Job
          /\ job'.region = job.region /\ job'.chosen = job.chosen
      <3>1. CASE OpenCoordinates
        BY <2>1, <3>1 DEF OpenCoordinates, Job
      <3>2. CASE CloseCoordinates
        BY <2>1, <3>2 DEF CloseCoordinates, Job
      <3> QED
        BY <1>4, <3>1, <3>2
    <2>3. coords' \in [Regions -> Nat \cup {None, Torn}]
      BY <1>4, <2>1 DEF OpenCoordinates, CloseCoordinates
    <2> QED
      BY <1>4, <2>1, <2>2, <2>3 DEF OpenCoordinates, CloseCoordinates
  <1>5. CASE OpenManifest
    <2>1. job \in Job /\ job.chosen \subseteq Store[job.region]
      BY <1>5, JobType DEF OpenManifest, ManifestReady, Stage
    <2>2. /\ job' \in Job
          /\ job'.region = job.region /\ job'.chosen = job.chosen
      BY <1>5, <2>1 DEF OpenManifest, Job
    <2> QED
      BY <1>5, <2>1, <2>2 DEF OpenManifest
  <1>6. CASE CloseManifest
    <2>1. job \in Job /\ job.region \in Regions /\ job.chosen \subseteq Store[job.region]
      BY <1>6, JobType DEF CloseManifest, Stage
    <2>2. ListedDates(job) \subseteq Store[job.region] /\ ListedDates(job) \subseteq Dates
      BY <2>1 DEF ListedDates
    <2>3. manifest' \in Manifest /\ manifest'.dates \subseteq Store[manifest'.region]
      BY <1>6, <2>1, <2>2 DEF CloseManifest, Manifest
    <2> QED
      BY <1>6, <2>3 DEF CloseManifest
  <1>7. CASE Interrupt
    BY <1>7 DEF Interrupt
  <1>8. CASE UNCHANGED demoVars
    BY <1>8 DEF demoVars
  <1> QED
    BY <1>1, <1>2, <1>3, <1>4, <1>5, <1>6, <1>7, <1>8 DEF DemoNext

\* Types: every reachable state of the cache directory and its builder; a build chooses,
\* and the manifest lists, only days of the region's store.
THEOREM DemoTypeCorrect == DemoSpec => []DemoTypeOK
  BY DemoTypeInit, DemoTypeStep, PTL DEF DemoSpec

-----------------------------------------------------------------------------
\* What a step does to the directory: files and grids do not disappear, only those of
\* a running build's region change, and the manifest changes to nothing else than Torn
\* or what the build has listed.
LEMMA FilesEffect ==
  ASSUME DemoTypeOK, [DemoNext]_demoVars, NEW r \in Regions
  PROVE  /\ \A d \in Dates : files[r][d] # None => files'[r][d] # None
         /\ coords[r] # None => coords'[r] # None
         /\ (job = None \/ r # job.region) => files'[r] = files[r] /\ coords'[r] = coords[r]
  <1> USE StoreAssumption, DemoAssumption DEF DemoTypeOK
  <1>1. CASE \E d \in Dates : OpenFile(d) \/ CloseFile(d)
    <2>1. PICK d \in Dates, v \in Nat \cup {Torn} :
            files' = [files EXCEPT ![job.region][d] = v]
      BY <1>1 DEF OpenFile, CloseFile
    <2>2. coords' = coords /\ job # None
      BY <1>1 DEF OpenFile, CloseFile, Turn, Stage
    <2> QED
      BY <2>1, <2>2
  <1>2. CASE OpenCoordinates \/ CloseCoordinates
    <2>1. PICK v \in Nat \cup {Torn} : coords' = [coords EXCEPT ![job.region] = v]
      BY <1>2 DEF OpenCoordinates, CloseCoordinates
    <2>2. files' = files /\ job # None
      BY <1>2 DEF OpenCoordinates, CloseCoordinates, Stage
    <2> QED
      BY <2>1, <2>2
  <1>3. CASE UNCHANGED <<files, coords>>
    BY <1>3
  <1> QED
    BY <1>1, <1>2, <1>3 DEF DemoNext, demoVars, StartBuild, SkipDate, OpenManifest,
       CloseManifest, Interrupt

LEMMA BuildInit == DemoInit => BuildInv
  <1> SUFFICES ASSUME DemoInit PROVE BuildInv
    OBVIOUS
  <1> USE StoreAssumption, DemoAssumption DEF DemoInit
  <1>1. ASSUME NEW r \in Regions, NEW d \in Advertised(r)
        PROVE  coords[r] = 0 /\ files[r][d] = 0 /\ manifest.build = 0 /\ 0 # None
    <2>1. Shipped # None
      BY <1>1 DEF Advertised, Whole
    <2>2. manifest = [region |-> Shipped, dates |-> ShippedDates, build |-> 0]
      BY <2>1
    <2>3. r = Shipped /\ d \in ShippedDates /\ manifest.build = 0
      BY <1>1, <2>2 DEF Advertised
    <2>4. d \in Dates
      BY <2>1, <2>3 DEF ShippedDates
    <2> QED
      BY <2>3, <2>4
  <1> QED
    BY <1>1 DEF BuildInv, AdvertisedWritten, ListedFromOneBuild, JobInv

\* As long as the manifest is left alone, what it lists stays there; and, outside the
\* regions in doubt, stays what it was.
LEMMA ListedStays ==
  ASSUME DemoTypeOK, BuildInv, [DemoNext]_demoVars, UNCHANGED manifest, dirty \subseteq dirty'
  PROVE  AdvertisedWritten' /\ ListedFromOneBuild'
  <1> DEFINE Listed(r, d) == r \in Regions /\ d \in Advertised(r)
  <1>1. ASSUME NEW r, NEW d, Listed(r, d)
        PROVE  d \in Dates /\ d \in Advertised(r)'
    BY <1>1 DEF Advertised, DemoTypeOK, Manifest, Whole
  <1>2. \A r \in Regions : Advertised(r)' = Advertised(r)
    BY DEF Advertised
  <1>3. AdvertisedWritten'
    BY <1>1, <1>2, FilesEffect DEF BuildInv, AdvertisedWritten
  <1>4. ASSUME NEW r \in Regions \ dirty'
        PROVE  files'[r] = files[r] /\ coords'[r] = coords[r]
    BY FilesEffect DEF BuildInv, JobInv
  <1>5. ListedFromOneBuild'
    BY <1>1, <1>2, <1>4 DEF BuildInv, ListedFromOneBuild
  <1> QED
    BY <1>3, <1>5

LEMMA BuildStep ==
  ASSUME DemoTypeOK, BuildInv, [DemoNext]_demoVars
  PROVE  BuildInv'
  <1> USE StoreAssumption, DemoAssumption DEF BuildInv, DemoTypeOK
  <1>1. ASSUME NEW r \in Regions, NEW start \in Dates, NEW end \in Dates, NEW step \in Strides,
               StartBuild(r, start, end, step)
        PROVE  BuildInv'
    <2>1. JobInv'
      BY <1>1 DEF StartBuild, JobInv
    <2> QED
      BY <1>1, <2>1, ListedStays DEF StartBuild
  <1>2. ASSUME NEW d \in Dates, SkipDate(d) PROVE BuildInv'
    <2>1. job \in Job
      BY <1>2, JobType DEF SkipDate, Turn, Stage
    <2>2. JobInv'
      BY <1>2, <2>1 DEF SkipDate, Turn, Stage, JobInv, Job
    <2> QED
      BY <1>2, <2>2, ListedStays DEF SkipDate
  <1>3. ASSUME NEW d \in Dates, OpenFile(d) PROVE BuildInv'
    <2>1. job \in Job /\ job.region \in Regions
      BY <1>3, JobType DEF OpenFile, Turn, Stage
    <2>2. \A e \in Dates \ {d} : files'[job.region][e] = files[job.region][e]
      BY <1>3, <2>1 DEF OpenFile
    <2>3. JobInv'
      BY <1>3, <2>1, <2>2 DEF OpenFile, Turn, Stage, JobInv, Job
    <2> QED
      BY <1>3, <2>3, ListedStays DEF OpenFile
  <1>4. ASSUME NEW d \in Dates, CloseFile(d) PROVE BuildInv'
    <2>1. job \in Job /\ job.region \in Regions
      BY <1>4, JobType DEF CloseFile, Stage
    <2>2. /\ \A e \in Dates \ {d} : files'[job.region][e] = files[job.region][e]
          /\ files'[job.region][d] = builds
      BY <1>4, <2>1 DEF CloseFile
    <2>3. JobInv'
      BY <1>4, <2>1, <2>2 DEF CloseFile, Stage, JobInv, Job
    <2> QED
      BY <1>4, <2>3, ListedStays DEF CloseFile
  <1>5. CASE OpenCoordinates \/ CloseCoordinates
    <2>1. job \in Job /\ job.region \in Regions
      BY <1>5, JobType DEF OpenCoordinates, CloseCoordinates, Stage
    <2>2. \E s : /\ s \in {"coords", "listed"}
                 /\ job' = [job EXCEPT !.stage = s] /\ job.todo = {}
                 /\ s = "listed" => coords' = [coords EXCEPT ![job.region] = builds]
                 /\ UNCHANGED <<files, manifest, builds, dirty>> /\ job # None
      BY <1>5 DEF OpenCoordinates, CloseCoordinates, Stage, JobInv
    <2>3. PICK s : /\ s \in {"coords", "listed"}
                   /\ job' = [job EXCEPT !.stage = s] /\ job.todo = {}
                   /\ s = "listed" => coords' = [coords EXCEPT ![job.region] = builds]
                   /\ UNCHANGED <<files, manifest, builds, dirty>> /\ job # None
      BY <2>2
    <2>4. /\ job'.region = job.region /\ job'.todo = {} /\ job'.stage = s
          /\ job'.chosen = job.chosen /\ job'.skipped = job.skipped
      BY <2>1, <2>3 DEF Job
    <2>5. s = "listed" => coords'[job.region] = builds
      BY <2>1, <2>3
    <2>6. JobInv'
      BY <2>3, <2>4, <2>5 DEF JobInv
    <2> QED
      BY <2>3, <2>6, ListedStays
  <1>6. CASE OpenManifest
    <2>1. job \in Job
      BY <1>6, JobType DEF OpenManifest, ManifestReady, Stage
    <2>2. JobInv'
      BY <1>6, <2>1 DEF OpenManifest, ManifestReady, Stage, JobInv, Job
    <2>3. \A r \in Regions : Advertised(r)' = {}
      BY <1>6 DEF OpenManifest, Advertised, Whole
    <2> QED
      BY <2>2, <2>3 DEF AdvertisedWritten, ListedFromOneBuild
  <1>7. CASE CloseManifest
    <2> DEFINE r == job.region
    <2>1. job \in Job /\ r \in Regions /\ job.chosen \subseteq Dates /\ job.todo = {}
      BY <1>7, JobType DEF CloseManifest, Stage, JobInv
    <2>2. \A d \in ListedDates(job) : files[r][d] = builds /\ d \in Dates
      BY <1>7, <2>1 DEF CloseManifest, Stage, JobInv, ListedDates
    <2>3. coords[r] = builds /\ builds # None
      BY <1>7 DEF CloseManifest, Stage, JobInv
    <2>4. /\ manifest' = [region |-> r, dates |-> ListedDates(job), build |-> builds]
          /\ UNCHANGED <<files, coords, builds>> /\ job' = None
      BY <1>7 DEF CloseManifest
    <2> HIDE DEF r
    <2>5. \A s \in Regions : \A d \in Advertised(s)' : s = r /\ d \in ListedDates(job)
      BY <2>4 DEF Advertised
    <2>6. AdvertisedWritten'
      BY <2>2, <2>3, <2>4, <2>5 DEF AdvertisedWritten
    <2>7. ListedFromOneBuild'
      BY <2>2, <2>3, <2>4, <2>5 DEF ListedFromOneBuild
    <2> QED
      BY <2>4, <2>6, <2>7 DEF JobInv
  <1>8. CASE Interrupt
    BY <1>8, ListedStays DEF Interrupt, JobInv
  <1>9. CASE UNCHANGED demoVars
    BY <1>9, ListedStays DEF demoVars, JobInv
  <1> QED
    BY <1>1, <1>2, <1>3, <1>4, <1>5, <1>6, <1>7, <1>8, <1>9 DEF DemoNext

\* The inductive invariant: what a running build has written, and what the manifest
\* lists, whatever builds were interrupted where.
THEOREM BuildCorrect == DemoSpec => []BuildInv
  BY DemoTypeInit, DemoTypeStep, BuildInit, BuildStep, PTL DEF DemoSpec

\* The manifest never lists a date that was never written.
THEOREM ListedWasWritten == DemoSpec => []AdvertisedWritten
  <1>1. BuildInv => AdvertisedWritten
    BY DEF BuildInv
  <1> QED
    BY <1>1, BuildCorrect, PTL

\* What the manifest lists, outside the regions of unfinished builds, is of the build
\* it names.
THEOREM OneBuildListed == DemoSpec => []ListedFromOneBuild
  <1>1. BuildInv => ListedFromOneBuild
    BY DEF BuildInv
  <1> QED
    BY <1>1, BuildCorrect, PTL

\* What is of the build the manifest names can be read.
LEMMA OneBuildReadable ==
  ASSUME DemoTypeOK, ListedFromOneBuild
  PROVE  AdvertisedReadable
  <1> SUFFICES ASSUME NEW r \in Regions \ dirty, NEW d \in Advertised(r)
               PROVE  Readable(r, d)
    BY DEF AdvertisedReadable
  <1>1. manifest.build \in Nat
    BY DEF Advertised, DemoTypeOK, Manifest, Whole
  <1> QED
    BY <1>1, StoreAssumption, DemoAssumption DEF ListedFromOneBuild, Readable, Whole

\* Every date the manifest lists can be read, except while a build of its region runs or
\* after one was interrupted.
THEOREM ListedCanBeRead == DemoSpec => []AdvertisedReadable
  BY DemoTypeCorrect, OneBuildListed, OneBuildReadable, PTL
==============================================================================
