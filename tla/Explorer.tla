------------------------------ MODULE Explorer ------------------------------
(***************************************************************************)
(* The explorer hook of the web frontend, useOceanExplorer: every piece of *)
(* state behind the map page, the user's handlers, the three effects that  *)
(* call /api/v1, and the answers, which arrive in any order.               *)
(*                                                                         *)
(* React's scheduling is the environment.  A handler of a discrete event   *)
(* (click, select change, submit) is followed by a render and by the       *)
(* effects whose dependencies changed before the event loop turns: `sync'  *)
(* holds everything else back until then.  State that an effect or a       *)
(* promise callback sets is rendered by a later task, and other events can *)
(* come first.  `drawn' is what the last render showed; an effect is due   *)
(* when one of its dependencies differs from it.                           *)
(***************************************************************************)
EXTENDS Naturals

CONSTANTS
  Regions,     \* the region identifiers
  Rank,        \* Rank[r]: the place of region r in the availability report
  Reports,     \* availability reports: Reports \subseteq [Regions -> SUBSET Nat]
  WarmFrom,    \* first day of the warm window ('2023-09-01'); days are naturals
  Depths,      \* canonical depths
  Cells,       \* grid cells a user can pick
  Statuses,    \* envelope statuses of a served answer
  FirstRegion, \* the region the hook starts with
  FirstDepth,  \* the depth the hook starts with
  None,        \* null, and the empty date
  MaxSeq       \* bound: no user step once this many requests were sent

Days == UNION {UNION {rep[r] : r \in Regions} : rep \in Reports}

ASSUME ExplorerAssumption ==
  /\ Reports \subseteq [Regions -> SUBSET Nat]
  /\ Rank \in [Regions -> Nat]
  /\ FirstRegion \in Regions
  /\ FirstDepth \in Depths
  /\ MaxSeq \in Nat /\ WarmFrom \in Nat
  /\ None \notin Days /\ None \notin Cells /\ None \notin Statuses
  /\ None \notin Reports
  /\ "unavailable" \notin Statuses
  /\ None \notin [region : Regions, date : Days, depth : Depths, status : Statuses]
  /\ None \notin [region : Regions, date : Days, cell : Cells]

VARIABLES
  region, date, depth,   \* what the controls select
  dates,                 \* the days the date bar offers
  availability,          \* the capability report, or None
  availabilityState,     \* "loading", "ok" or "error"
  selected,              \* the picked cell, or None
  mapEnvelope,           \* the field on display, or None
  profileEnvelope,       \* the profile on display, or None
  status,                \* the banner's status, or None
  busyMap, busyProfile,  \* loading flags
  requestSeq,            \* the one sequence number of the hook
  mapCalls,              \* getMap calls without an answer yet
  profileCalls,          \* getProfile calls without an answer yet
  drawn,                 \* what the last render showed to user and effects
  sync                   \* a discrete event waits for its render and effects

vars == <<region, date, depth, dates, availability, availabilityState, selected,
          mapEnvelope, profileEnvelope, status, busyMap, busyProfile,
          requestSeq, mapCalls, profileCalls, drawn, sync>>

controls == <<region, date, depth, dates, selected>>
report   == <<availability, availabilityState>>
display  == <<mapEnvelope, profileEnvelope, status, busyMap, busyProfile>>
network  == <<requestSeq, mapCalls, profileCalls>>

(***************************************************************************)
(* The values of the state.                                                *)
(***************************************************************************)
MapCall         == [seq : Nat, region : Regions, date : Days, depth : Depths]
ProfileCall     == [seq : Nat, region : Regions, date : Days, cell : Cells]
MapEnvelope     == [region : Regions, date : Days, depth : Depths, status : Statuses]
ProfileEnvelope == [region : Regions, date : Days, cell : Cells]
View == [region : Regions, date : Days \cup {None}, depth : Depths,
         dates : SUBSET Days, selected : Cells \cup {None},
         availability : Reports \cup {None}]

\* What a render of the present state shows.
Rendered == [region |-> region, date |-> date, depth |-> depth, dates |-> dates,
             selected |-> selected, availability |-> availability]

\* The state after mount: the first effects ran, only getAvailability is out.
Init ==
  /\ region = FirstRegion /\ date = None /\ depth = FirstDepth
  /\ dates = {} /\ selected = None
  /\ availability = None /\ availabilityState = "loading"
  /\ mapEnvelope = None /\ profileEnvelope = None /\ status = None
  /\ busyMap = FALSE /\ busyProfile = FALSE
  /\ requestSeq = 0 /\ mapCalls = {} /\ profileCalls = {}
  /\ drawn = [region |-> FirstRegion, date |-> None, depth |-> FirstDepth,
              dates |-> {}, selected |-> None, availability |-> None]
  /\ sync = FALSE

-----------------------------------------------------------------------------
(***************************************************************************)
(* The user's handlers.  A handler acts on the page as drawn; afterwards   *)
(* the effects it made due run before anything else.                       *)
(***************************************************************************)
UserMay   == ~sync /\ requestSeq < MaxSeq
FlushNext == drawn' = drawn /\ sync' = (Rendered' # drawn)

\* Mutant: the banner keeps its status.
ResetToKeepingStatus(r) ==
  /\ region' = r /\ date' = None /\ dates' = {} /\ selected' = None
  /\ mapEnvelope' = None /\ profileEnvelope' = None
  /\ busyMap' = FALSE /\ busyProfile' = FALSE
  /\ UNCHANGED <<depth, status, report, network>>
  /\ FlushNext

\* setRegion: resets the explorer, and neither cancels nor outdates a call.
ResetTo(r) ==
  /\ region' = r /\ date' = None /\ dates' = {} /\ selected' = None
  /\ mapEnvelope' = None /\ profileEnvelope' = None /\ status' = None
  /\ busyMap' = FALSE /\ busyProfile' = FALSE
  /\ UNCHANGED <<depth, report, network>>
  /\ FlushNext

\* The region select fires only for another option than the one shown.
SetRegion(r) == UserMay /\ r # drawn.region /\ ResetTo(r)

HasData(r, rep) == rep # None /\ rep[r] # {}

\* "Return to ...": the button of the empty-region state.  It goes to `scope',
\* the first region of the report that has data, whatever region is shown.
ReturnToScope(r) ==
  /\ UserMay
  /\ drawn.dates = {} /\ drawn.availability # None
  /\ HasData(r, drawn.availability)
  /\ \A q \in Regions : HasData(q, drawn.availability) => Rank[r] <= Rank[q]
  /\ ResetTo(r)

SetDate(d) ==
  /\ UserMay /\ d \in drawn.dates /\ d # drawn.date
  /\ date' = d
  /\ UNCHANGED <<region, depth, dates, selected, report, display, network>>
  /\ FlushNext

SetDepth(z) ==
  /\ UserMay /\ z # drawn.depth
  /\ depth' = z
  /\ UNCHANGED <<region, date, dates, selected, report, display, network>>
  /\ FlushNext

\* A click on the map or the location form: both need a field on display.
SelectCell(c) ==
  /\ UserMay /\ mapEnvelope # None /\ c # selected
  /\ selected' = c
  /\ UNCHANGED <<region, date, depth, dates, report, display, network>>
  /\ FlushNext

ClearSelection ==
  /\ UserMay /\ drawn.selected # None
  /\ selected' = None
  /\ UNCHANGED <<region, date, depth, dates, report, display, network>>
  /\ FlushNext

-----------------------------------------------------------------------------
(***************************************************************************)
(* The effects, in the order the hook declares them, on the values of the  *)
(* render that made them due.                                              *)
(***************************************************************************)
DeriveDue ==
  /\ availability # None
  /\ drawn.availability # availability \/ drawn.region # region
\* Mutant: depth is missing from the map effect's dependencies.
MapDueWithoutDepth ==
  /\ date # None
  /\ drawn.region # region \/ drawn.date # date
MapDue ==
  /\ date # None
  /\ drawn.region # region \/ drawn.date # date \/ drawn.depth # depth
\* Mutants: the cell, or the day, is missing from the profile's dependencies.
ProfileDueWithoutCell == drawn.region # region \/ drawn.date # date
ProfileDueWithoutDate == drawn.region # region \/ drawn.selected # selected
ProfileDue ==
  drawn.region # region \/ drawn.date # date \/ drawn.selected # selected
\* Mutant: the early return without a selection is gone.
ProfileWantedAlways == ProfileDue /\ date # None
ProfileWanted == ProfileDue /\ date # None /\ selected # None

\* The default day: the first one inside the warm window, else the last one.
DefaultDays(D) ==
  LET warm == {d \in D : d >= WarmFrom}
  IN  IF warm # {} THEN {d \in warm : \A e \in warm : d <= e}
                   ELSE {d \in D : \A e \in D : e <= d}

\* ++requestSeq.current in the map effect, then in the profile effect.
MapSeq     == IF MapDue THEN requestSeq + 1 ELSE requestSeq
\* Mutant: the profile effect reads the counter without incrementing it.
ProfileSeqShared == MapSeq
ProfileSeq == IF ProfileWanted THEN MapSeq + 1 ELSE MapSeq

RunEffects ==
  /\ Rendered # drawn
  /\ IF DeriveDue
       THEN /\ dates' = availability[region]
            /\ date' \in IF dates' = {} THEN {None} ELSE DefaultDays(dates')
            /\ selected' = None
            /\ mapEnvelope' = None
            /\ status' = IF dates' = {} THEN "unavailable" ELSE None
       ELSE UNCHANGED <<dates, date, selected, mapEnvelope, status>>
  /\ busyMap' = (MapDue \/ (busyMap /\ ~DeriveDue))
  /\ profileEnvelope' = IF DeriveDue \/ ProfileDue THEN None ELSE profileEnvelope
  /\ busyProfile' = (ProfileWanted \/ (busyProfile /\ ~DeriveDue /\ ~ProfileDue))
  /\ mapCalls' = IF ~MapDue THEN mapCalls ELSE mapCalls \cup
       {[seq |-> MapSeq, region |-> region, date |-> date, depth |-> depth]}
  /\ profileCalls' = IF ~ProfileWanted THEN profileCalls ELSE profileCalls \cup
       {[seq |-> ProfileSeq, region |-> region, date |-> date, cell |-> selected]}
  /\ requestSeq' = ProfileSeq
  /\ drawn' = Rendered /\ sync' = FALSE
  /\ UNCHANGED <<region, depth, report>>

-----------------------------------------------------------------------------
(***************************************************************************)
(* The answers.  The client bounds each request by its timeout, so each is *)
(* answered or fails; the hook keeps an answer only if no request was sent *)
(* after it.                                                               *)
(***************************************************************************)
AvailabilityArrives ==
  /\ ~sync /\ availabilityState = "loading"
  /\ availability' \in Reports
  /\ availabilityState' = "ok"
  /\ UNCHANGED <<controls, display, network, drawn, sync>>

AvailabilityFails ==
  /\ ~sync /\ availabilityState = "loading"
  /\ availabilityState' = "error"
  /\ status' = "unavailable"
  /\ UNCHANGED <<availability, controls, mapEnvelope, profileEnvelope, busyMap,
                 busyProfile, network, drawn, sync>>

\* Mutant: no gate.
IsCurrentAlways(call) == TRUE
IsCurrent(call) == call.seq = requestSeq

\* The call's promise is settled; controls and the other calls stay.
TakeMap(call) ==
  /\ ~sync
  /\ mapCalls' = mapCalls \ {call}
  /\ UNCHANGED <<controls, report, profileEnvelope, busyProfile, requestSeq,
                 profileCalls, drawn, sync>>
TakeProfile(call) ==
  /\ ~sync
  /\ profileCalls' = profileCalls \ {call}
  /\ UNCHANGED <<controls, report, mapEnvelope, status, busyMap, requestSeq,
                 mapCalls, drawn, sync>>

MapArrives(call, s) ==
  /\ TakeMap(call) /\ IsCurrent(call)
  /\ mapEnvelope' = [region |-> call.region, date |-> call.date,
                     depth |-> call.depth, status |-> s]
  /\ status' = s
  /\ busyMap' = FALSE

MapFails(call) ==
  /\ TakeMap(call) /\ IsCurrent(call)
  /\ mapEnvelope' = None /\ status' = "unavailable" /\ busyMap' = FALSE

MapDropped(call) ==
  /\ TakeMap(call) /\ ~IsCurrent(call)
  /\ UNCHANGED <<mapEnvelope, status, busyMap>>

ProfileArrives(call) ==
  /\ TakeProfile(call) /\ IsCurrent(call)
  /\ profileEnvelope' = [region |-> call.region, date |-> call.date, cell |-> call.cell]
  /\ busyProfile' = FALSE

ProfileFails(call) ==
  /\ TakeProfile(call) /\ IsCurrent(call)
  /\ profileEnvelope' = None /\ busyProfile' = FALSE

ProfileDropped(call) ==
  /\ TakeProfile(call) /\ ~IsCurrent(call)
  /\ UNCHANGED <<profileEnvelope, busyProfile>>

-----------------------------------------------------------------------------
User ==
  \/ \E r \in Regions : SetRegion(r)
  \/ \E r \in Regions : ReturnToScope(r)
  \/ \E d \in Days : SetDate(d)
  \/ \E z \in Depths : SetDepth(z)
  \/ \E c \in Cells : SelectCell(c)
  \/ ClearSelection

AvailabilitySettles == AvailabilityArrives \/ AvailabilityFails
MapSettles ==
  \E call \in mapCalls :
    (\E s \in Statuses : MapArrives(call, s)) \/ MapFails(call) \/ MapDropped(call)
ProfileSettles ==
  \E call \in profileCalls :
    ProfileArrives(call) \/ ProfileFails(call) \/ ProfileDropped(call)

Next == User \/ RunEffects \/ AvailabilitySettles \/ MapSettles \/ ProfileSettles

\* React renders what was set, and the client's timeout settles every request;
\* the user owes the program nothing.
Fairness ==
  /\ WF_vars(RunEffects)
  /\ WF_vars(AvailabilitySettles)
  /\ WF_vars(MapSettles)
  /\ WF_vars(ProfileSettles)

Spec == Init /\ [][Next]_vars /\ Fairness

-----------------------------------------------------------------------------
(***************************************************************************)
(* Correctness.                                                            *)
(***************************************************************************)

\* Every part of the state has its type, and no call is newer than the counter.
TypeOK ==
  /\ region \in Regions /\ depth \in Depths
  /\ date \in Days \cup {None} /\ dates \subseteq Days
  /\ selected \in Cells \cup {None}
  /\ availability \in Reports \cup {None}
  /\ availabilityState \in {"loading", "ok", "error"}
  /\ mapEnvelope \in MapEnvelope \cup {None}
  /\ profileEnvelope \in ProfileEnvelope \cup {None}
  /\ status \in Statuses \cup {"unavailable", None}
  /\ busyMap \in BOOLEAN /\ busyProfile \in BOOLEAN /\ sync \in BOOLEAN
  /\ requestSeq \in Nat
  /\ mapCalls \subseteq MapCall /\ profileCalls \subseteq ProfileCall
  /\ \A call \in mapCalls \cup profileCalls : call.seq <= requestSeq
  /\ drawn \in View

\* Every effect that was due has run.
Settled == Rendered = drawn

\* A field on display that is not marked as loading is the field of the region,
\* day and depth the controls show: whatever answers were dropped, late or
\* failed, only the loading flag separates an old field from the right one.
MapHonestWhenIdle ==
  (Settled /\ date # None /\ ~busyMap /\ mapEnvelope # None) =>
    /\ mapEnvelope.region = region
    /\ mapEnvelope.date = date
    /\ mapEnvelope.depth = depth

\* The profile panel never shows the profile of another cell, day or region than
\* the selected one, though a deselection and a region change leave the calls
\* that are under way acceptable.
ProfileMatchesSelection ==
  (Settled /\ selected # None /\ profileEnvelope # None) =>
    /\ profileEnvelope.region = region
    /\ profileEnvelope.date = date
    /\ profileEnvelope.cell = selected

\* The banner speaks of the field on display: it names that field's status, and
\* never a served status without a field.
BannerMatchesField ==
  IF mapEnvelope = None THEN status \in {None, "unavailable"}
                        ELSE status = mapEnvelope.status

\* An accepted answer is never older than another one that is still awaited.
LatestWins ==
  [][ \A call \in (mapCalls \cup profileCalls) :
        (call \notin mapCalls' \cup profileCalls' /\ display' # display) =>
          \A other \in mapCalls' \cup profileCalls' : other.seq <= call.seq ]_vars

\* While nobody picks a cell, a loading field always stops loading.
MapSettlesWithoutSelection == [](selected = None) => (busyMap ~> ~busyMap)

\* A loading profile always stops loading in behaviours that stay at one depth:
\* no other control outdates a profile call without sending a new one.
ProfileSettlesAtOneDepth ==
  (\E z \in Depths : [](depth = z)) => (busyProfile ~> ~busyProfile)

\* No loading skeleton stays for good (REQUEST_TIMEOUT_MS: "A hung backend must
\* degrade honestly instead of leaving the explorer stuck on a loading skeleton
\* forever"), once the user stops acting.
SkeletonsEnd ==
  /\ (dates # {} /\ busyMap /\ mapEnvelope = None) ~> ~(busyMap /\ mapEnvelope = None)
  /\ (busyProfile /\ profileEnvelope = None) ~> ~(busyProfile /\ profileEnvelope = None)

-----------------------------------------------------------------------------
(***************************************************************************)
(* The inductive strengthening behind the three display invariants: what a *)
(* call that can still be accepted would put on display.                   *)
(***************************************************************************)

\* The acceptable field answers the controls as drawn, and so does a field at rest.
FieldInv ==
  /\ \A call \in mapCalls : (IsCurrent(call) /\ drawn.date # None) =>
       /\ call.region = drawn.region
       /\ call.date = drawn.date
       /\ call.depth = drawn.depth
  /\ (drawn.date # None /\ ~busyMap /\ mapEnvelope # None) =>
       /\ mapEnvelope.region = drawn.region
       /\ mapEnvelope.date = drawn.date
       /\ mapEnvelope.depth = drawn.depth

\* The acceptable profile answers the selection as drawn.  Without a day no
\* profile call is sent, so a selection made then (on a field that came late)
\* must find every older profile call outdated: the field's own number did that.
ProfileInv ==
  /\ \A field \in mapCalls, call \in profileCalls : field.seq # call.seq
  /\ \A call \in profileCalls : (IsCurrent(call) /\ drawn.selected # None) =>
       /\ drawn.date # None
       /\ call.region = drawn.region
       /\ call.date = drawn.date
       /\ call.cell = drawn.selected
  /\ (date = None /\ (mapEnvelope # None \/ selected # None)) =>
       \A call \in profileCalls : ~IsCurrent(call)
  /\ (drawn.selected # None /\ profileEnvelope # None) =>
       /\ drawn.date # None
       /\ profileEnvelope.region = drawn.region
       /\ profileEnvelope.date = drawn.date
       /\ profileEnvelope.cell = drawn.selected

\* Nothing is asked for, and nothing shown, before the report is there.
ReportFirst ==
  /\ availabilityState = "loading" => availability = None
  /\ availability = None =>
       /\ date = None /\ drawn.date = None
       /\ dates = {} /\ drawn.dates = {}
       /\ mapEnvelope = None /\ mapCalls = {}

DisplayInv == FieldInv /\ ProfileInv /\ ReportFirst /\ BannerMatchesField
=============================================================================
