----------------------------- MODULE TrainingData -----------------------------
(***************************************************************************)
(* From the data services to the tensor store: downloads in chunks that    *)
(* may fail and be repeated, and the build that harmonises the files and   *)
(* writes X, Y, mask and statistics one after another.                     *)
(***************************************************************************)
EXTENDS Integers, FiniteSets, FiniteSetsExt, Sequences

CONSTANTS
  Order,         \* CANONICAL_INPUT_CHANNELS, a sequence
  Target,        \* glorys_temperature
  Catalog,       \* the sources the catalogue knows
  Cells,         \* cells of the target grid
  Offered,       \* Offered[s]: the days the service has of source s
  Finite,        \* Finite[c][d]: the cells where channel c has a value on day d
  Periods,       \* periods downloads are called for: [start, end]
  ChunkDays,     \* chunk_months * 30
  MaxDownloads, MaxBuilds,  \* bounds: runs of the two programs
  None, Torn

Channels == {Order[i] : i \in DOMAIN Order}
Sources  == Channels \cup {Target}

\* What the parts of the tensor store hold when they are whole.
Parts == {"X", "Y", "mask", "stats"}
Content(part) ==
  CASE part = "X"     -> [days : SUBSET Nat, channels : SUBSET Channels, build : Nat]
    [] part = "Y"     -> [days : SUBSET Nat, build : Nat]
    [] part = "mask"  -> [cells : SUBSET Cells, build : Nat]
    [] part = "stats" -> [build : Nat]

ASSUME DataAssumption ==
  /\ Order \in Seq(Channels) /\ IsFiniteSet(Cells) /\ Target \notin Channels
  /\ Target \in Catalog /\ Catalog \subseteq Sources
  /\ ChunkDays \in Nat \ {0} /\ MaxDownloads \in Nat /\ MaxBuilds \in Nat
  /\ \A p \in Periods : p.start \in Nat /\ p.end \in Nat
  /\ \A s \in Sources : Offered[s] \subseteq Nat
  /\ \A c \in Channels : \A d \in Offered[c] : Finite[c][d] \subseteq Cells
  /\ None # Torn /\ None \notin Parts
  /\ \A part \in Parts : None \notin Content(part) /\ Torn \notin Content(part)

VARIABLES
  files,     \* files[s]: the netCDF files of a source: [first, last, copy]
  wanted,    \* the chunks the running download has still to ask for, or None
  periods,   \* History: the periods downloads were called for
  downloads, \* downloads started
  tensor,    \* tensor["X"], ["Y"], ["mask"], ["stats"]: the tensor store
  stage,     \* the part a running build is at, or None
  result,    \* what it has computed
  builds,    \* builds that began to write
  dirty      \* History: whether the last of them did not come to its end

loadVars  == <<files, wanted, periods, downloads>>
buildVars == <<tensor, stage, result, builds, dirty>>
vars == <<loadVars, buildVars>>

-----------------------------------------------------------------------------
\* Mutant: the next chunk begins on the day the last one ended with.
ChunksTouching(p) ==
  {[first |-> p.start + k * ChunkDays, last |-> Min({p.start + (k + 1) * ChunkDays, p.end})] :
     k \in {k \in 0 .. (p.end - p.start) : p.start + k * ChunkDays <= p.end}}
\* date_range_chunks.
Chunks(p) ==
  {[first |-> p.start + k * ChunkDays, last |-> Min({p.start + (k + 1) * ChunkDays - 1, p.end})] :
     k \in {k \in 0 .. (p.end - p.start) : p.start + k * ChunkDays <= p.end}}

\* The days a file has of source s.
DaysOf(s, f) == {d \in Offered[s] : f.first <= d /\ d <= f.last}

\* download_historical: sources that are not in the catalogue are passed over.
StartDownload(p, inputs, target) ==
  /\ wanted = None /\ stage = None /\ downloads < MaxDownloads
  /\ downloads' = downloads + 1
  /\ periods' = periods \cup {p}
  /\ wanted' = {s \in Catalog : IF s = Target THEN target ELSE inputs} \X Chunks(p)
  /\ UNCHANGED <<files, buildVars>>

\* The service names a file that is there already name_(1).nc, name_(2).nc ...
\* (external: copernicusmarine, which moves a file to its place when it is whole).
CopiesOf(s, k) == {f \in files[s] : f.first = k.first /\ f.last = k.last}
NextCopy(s, k) == Cardinality(CopiesOf(s, k))

\* The calls are made channel after channel and chunk after chunk, the target last.
Rank(s) == IF s = Target THEN Len(Order) + 1 ELSE CHOOSE i \in DOMAIN Order : Order[i] = s
Turn(s, k) ==
  /\ wanted # None /\ <<s, k>> \in wanted
  /\ \A w \in wanted : \/ Rank(s) < Rank(w[1])
                       \/ s = w[1] /\ k.first <= w[2].first

\* CopernicusClient.subset.
Subset(s, k) ==
  /\ Turn(s, k) /\ DaysOf(s, k) # {}
  /\ files' = [files EXCEPT ![s] = @ \cup
                 {[first |-> k.first, last |-> k.last, copy |-> NextCopy(s, k)]}]
  /\ wanted' = wanted \ {<<s, k>>}
  /\ UNCHANGED <<periods, downloads, buildVars>>

\* It fails, by itself or for days the service does not have: the loop goes on.
SubsetFails(s, k) ==
  /\ Turn(s, k)
  /\ wanted' = wanted \ {<<s, k>>}
  /\ UNCHANGED <<files, periods, downloads, buildVars>>

\* All were asked for, or the program is stopped.
EndDownload ==
  /\ wanted # None
  /\ wanted' = None
  /\ UNCHANGED <<files, periods, downloads, buildVars>>

-----------------------------------------------------------------------------
\* find_nc_files: names that end with _(1), _(2) or _(3) are passed over.
Clean(s) == {f \in files[s] : f.copy \notin 1 .. 3}

\* The times of the concatenated files; a day that is in two of them is ambiguous.
Times(s)     == UNION {DaysOf(s, f) : f \in Clean(s)}
Ambiguous(s) == \E f, g \in Clean(s) : f # g /\ DaysOf(s, f) \cap DaysOf(s, g) # {}

\* What can be loaded: channels without files, or whose files cannot be read, are
\* passed over.
Loads == SUBSET {c \in Channels : Clean(c) # {}}

\* Mutant: the days common to the inputs, whether the target has them or not.
CommonInputDays(loaded) ==
  {d \in UNION {Times(c) : c \in loaded} : \A c \in loaded : d \in Times(c)}
\* compute_common_times.
CommonDays(loaded) == {d \in Times(Target) : \A c \in loaded : d \in Times(c)}

\* Mutant: one channel with values is enough.
OceanAnyChannel(loaded, days) ==
  {x \in Cells : \E c \in loaded :
     2 * Cardinality({d \in days : x \in Finite[c][d]}) >= Cardinality(days)}
\* build_ocean_mask: every channel has values on half of the days.  What is not
\* loaded has none; without days, nothing is at least anything.
Ocean(loaded, days) ==
  {x \in Cells :
     /\ days # {} /\ loaded = Channels
     /\ \A c \in Channels :
          2 * Cardinality({d \in days : x \in Finite[c][d]}) >= Cardinality(days)}

\* build_training_dataset fails before it writes: no target, no input at all, or a
\* selection by time that is ambiguous.
Buildable(loaded) ==
  /\ Clean(Target) # {} /\ loaded # {}
  /\ \A s \in loaded \cup {Target} : ~Ambiguous(s)

Built(loaded) ==
  LET b    == builds + 1
      days == CommonDays(loaded)
  IN  [X     |-> [days |-> days, channels |-> loaded, build |-> b],
       Y     |-> [days |-> days, build |-> b],
       mask  |-> [cells |-> Ocean(loaded, days), build |-> b],
       stats |-> [build |-> b]]

\* Loading, stacking, mask, statistics; then to_zarr empties X.zarr.
StartBuild(loaded) ==
  /\ wanted = None /\ stage = None /\ builds < MaxBuilds /\ Buildable(loaded)
  /\ builds' = builds + 1
  /\ result' = Built(loaded)
  /\ tensor' = [tensor EXCEPT !["X"] = Torn]
  /\ stage' = "X" /\ dirty' = TRUE
  /\ UNCHANGED loadVars

\* Mutant: the files are written the other way round, and Y is forgotten.
AfterPartSkippingY(part) == IF part = "X" THEN "mask" ELSE IF part = "mask" THEN "stats" ELSE None
\* What is written after a part.
AfterPart(part) ==
  IF part = "X" THEN "Y" ELSE IF part = "Y" THEN "mask" ELSE IF part = "mask" THEN "stats" ELSE None

\* The part at hand is emptied ...
OpenPart ==
  /\ stage # None /\ tensor[stage] # Torn
  /\ tensor' = [tensor EXCEPT ![stage] = Torn]
  /\ UNCHANGED <<loadVars, stage, result, builds, dirty>>

\* ... and written.
ClosePart ==
  /\ stage # None /\ tensor[stage] = Torn
  /\ tensor' = [tensor EXCEPT ![stage] = result[stage]]
  /\ stage' = AfterPart(stage)
  /\ result' = IF stage' = None THEN None ELSE result
  /\ dirty' = (stage' # None)
  /\ UNCHANGED <<loadVars, builds>>

Interrupt ==
  /\ stage # None
  /\ stage' = None /\ result' = None
  /\ UNCHANGED <<loadVars, tensor, builds, dirty>>

-----------------------------------------------------------------------------
Init ==
  /\ files = [s \in Sources |-> {}] /\ wanted = None /\ periods = {} /\ downloads = 0
  /\ tensor = [part \in Parts |-> None]
  /\ stage = None /\ result = None /\ builds = 0 /\ dirty = FALSE

Next ==
  \/ \E p \in Periods, inputs, target \in BOOLEAN : StartDownload(p, inputs, target)
  \/ \E s \in Sources : \E p \in periods : \E k \in Chunks(p) : Subset(s, k) \/ SubsetFails(s, k)
  \/ EndDownload
  \/ \E loaded \in Loads : StartBuild(loaded)
  \/ OpenPart \/ ClosePart \/ Interrupt

Spec == Init /\ [][Next]_vars

-----------------------------------------------------------------------------
Whole(part) == tensor[part] \notin {None, Torn}

File == [first : Nat, last : Nat, copy : Nat]
\* Types; and X never has a day that its target does not have a file for.
DataTypeOK ==
  /\ files \in [Sources -> SUBSET File]
  /\ wanted = None \/ wanted \subseteq Catalog \X UNION {Chunks(p) : p \in periods}
  /\ periods \subseteq Periods /\ IsFiniteSet(periods)
  /\ stage \in Parts \cup {None} /\ DOMAIN tensor = Parts
  /\ downloads \in 0 .. MaxDownloads /\ builds \in 0 .. MaxBuilds /\ dirty \in BOOLEAN
  /\ Whole("X") => tensor["X"].days \subseteq Times(Target)

\* A download that is repeated for the same period, whichever of its chunks failed
\* before, gives every day once: the build finds no day twice, and finds all that the
\* chunks it has cover.
RepeatedDownloadsAgree ==
  Cardinality(periods) <= 1 =>
    \A s \in Sources :
      /\ ~Ambiguous(s)
      /\ Times(s) = UNION {DaysOf(s, f) : f \in files[s]}

\* What a completed build leaves is of one piece: inputs and targets are read by
\* position, so they must have the same days, and mask and statistics must be theirs.
StoreAligned ==
  (~dirty /\ Whole("X")) =>
    /\ Whole("Y") /\ Whole("mask") /\ Whole("stats")
    /\ tensor["X"].days = tensor["Y"].days
    /\ \A part \in {"Y", "mask", "stats"} : tensor[part].build = tensor["X"].build

\* A channel whose downloads or files all failed is left out of the days and filled with NaN,
\* with a warning only; no cell is then valid, so nothing is trained on it.  A valid
\* cell has at least half of its days in every channel.
ValidCellsHaveData ==
  (~dirty /\ Whole("mask")) =>
    \A x \in tensor["mask"].cells :
      /\ tensor["X"].channels = Channels
      /\ \A c \in Channels : \E seen \in SUBSET tensor["X"].days :
           /\ 2 * Cardinality(seen) >= Cardinality(tensor["X"].days)
           /\ \A d \in seen : x \in Finite[c][d]

\* Files are of chunks of the periods asked for; the copies of each are numbered without
\* a gap, and are fewer than the downloads while the last one has still to ask for it.
CopiesInv ==
  /\ \A s \in Sources : \A f \in files[s] : \E p \in periods : \E k \in Chunks(p) :
       f.first = k.first /\ f.last = k.last
  /\ \A s \in Sources : \A p \in periods : \A k \in Chunks(p) : \E n \in 0 .. downloads :
       /\ CopiesOf(s, k) = {[first |-> k.first, last |-> k.last, copy |-> c] : c \in 0 .. n - 1}
       /\ (wanted # None /\ <<s, k>> \in wanted) => n < downloads

\* X, Y, mask and statistics belong together, and the mask's cells have data.
OfOnePiece(t) ==
  /\ \A part \in Parts : t[part] \in Content(part)
  /\ t["X"].days = t["Y"].days
  /\ \A part \in {"Y", "mask", "stats"} : t[part].build = t["X"].build
  /\ \A x \in t["mask"].cells :
       /\ t["X"].channels = Channels
       /\ \A c \in Channels : \E seen \in SUBSET t["X"].days :
            /\ 2 * Cardinality(seen) >= Cardinality(t["X"].days)
            /\ \A d \in seen : x \in Finite[c][d]

Written == CASE stage = "X" -> {} [] stage = "Y" -> {"X"} [] stage = "mask" -> {"X", "Y"}
             [] stage = "stats" -> {"X", "Y", "mask"}

\* A build that runs has written the parts before the one at hand; what no build left
\* unfinished is of one piece, or was never written.
StoreInv ==
  /\ stage # None =>
       /\ dirty /\ OfOnePiece(result)
       /\ result["X"].days \subseteq Times(Target)
       /\ \A part \in Written : tensor[part] = result[part]
  /\ ~dirty => \/ \A part \in Parts : tensor[part] = None
               \/ OfOnePiece(tensor)

\* What the three properties rest on.
DataInv == DataTypeOK /\ CopiesInv /\ StoreInv
=============================================================================
