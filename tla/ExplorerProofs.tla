--------------------------- MODULE ExplorerProofs ---------------------------
(***************************************************************************)
(* Proofs about the explorer hook, for every set of regions, reports,      *)
(* depths, cells and statuses and every bound on the number of requests.   *)
(***************************************************************************)
EXTENDS Explorer, WellFoundedInduction, TLAPS

\* The days of a region's entry are days, in every report.
LEMMA ReportDays ==
  ASSUME NEW rep \in Reports, NEW r \in Regions
  PROVE  rep[r] \in SUBSET Days
  BY ExplorerAssumption DEF Days

\* The day the derive effect selects is one of the days the region offers.
LEMMA DefaultDaysOffered ==
  ASSUME NEW D \in SUBSET Days
  PROVE  DefaultDays(D) \subseteq D
  BY DEF DefaultDays

\* The least number of a set of them, from the well-foundedness of their order.
LEMMA LeastNatural ==
  ASSUME NEW T, T \subseteq Nat, T # {}
  PROVE  \E x \in T : \A y \in T : x <= y
  <1> DEFINE R == OpToRel(<, Nat)
  <1>1. IsWellFoundedOn(R, Nat)
    BY NatLessThanWellFounded
  <1>2. PICK x \in T : \A y \in T : ~(<<y, x>> \in R)
    <2> HIDE DEF R
    <2> QED
      BY <1>1, WFMin
  <1>3. ASSUME NEW y \in T, y < x PROVE <<y, x>> \in R
    <2> DEFINE s == <<y, x>>
    <2>1. s \in Nat \X Nat /\ s[1] < s[2]
      BY <1>3
    <2> HIDE DEF s
    <2>2. s \in OpToRel(<, Nat)
      BY <2>1, Zenon DEF OpToRel
    <2> QED
      BY <2>2 DEF s
  <1>4. \A y \in T : ~(y < x)
    <2> HIDE DEF R
    <2> QED
      BY <1>2, <1>3
  <1> HIDE DEF R
  <1> QED
    BY <1>4

\* The derive effect always finds one day to select when the region offers any: the
\* first of the warm window, else the last there is.
THEOREM OneDefaultDay ==
  ASSUME NEW D \in SUBSET Nat, D # {}
  PROVE  \E d \in D :
           /\ DefaultDays(D) = {d}
           /\ (\E e \in D : e >= WarmFrom) => d >= WarmFrom
  <1> DEFINE warm == {d \in D : d >= WarmFrom}
  <1>1. WarmFrom \in Nat
    BY ExplorerAssumption
  <1>2. CASE warm # {}
    <2>1. PICK d \in warm : \A e \in warm : d <= e
      BY <1>2, LeastNatural
    <2>2. \A x \in warm : (\A e \in warm : x <= e) => x = d
      <3>1. \A x \in warm : x \in Nat
        OBVIOUS
      <3> QED
        BY <2>1, <3>1
    <2>3. {x \in warm : \A e \in warm : x <= e} = {d}
      <3> HIDE DEF warm
      <3> QED
        BY <2>1, <2>2
    <2> QED
      BY <1>2, <2>1, <2>3 DEF DefaultDays
  <1>3. CASE warm = {}
    <2> DEFINE below == {WarmFrom - d : d \in D}
    <2>1. \A d \in D : d < WarmFrom /\ WarmFrom - d \in Nat
      BY <1>1, <1>3
    <2>2. PICK x \in below : \A y \in below : x <= y
      <3>1. below \subseteq Nat /\ below # {}
        BY <2>1
      <3> QED
        BY <3>1, LeastNatural
    <2>3. PICK d \in D : x = WarmFrom - d
      BY <2>2
    <2>4. \A e \in D : e <= d
      BY <1>1, <2>2, <2>3
    <2>5. {y \in D : \A e \in D : e <= y} = {d}
      <3>1. \A y \in D : (\A e \in D : e <= y) => y = d
        BY <2>4
      <3> QED
        BY <2>4, <3>1
    <2>6. DefaultDays(D) = {d}
      BY <1>3, <2>5 DEF DefaultDays
    <2> QED
      BY <1>3, <2>6
  <1> QED
    BY <1>2, <1>3

-----------------------------------------------------------------------------
(***************************************************************************)
(* Type correctness.                                                       *)
(***************************************************************************)
LEMMA InitTypeOK == Init => TypeOK
  <1> SUFFICES ASSUME Init PROVE TypeOK
    OBVIOUS
  <1>1. FirstRegion \in Regions /\ FirstDepth \in Depths
    BY ExplorerAssumption
  <1>2. drawn \in View
    BY <1>1 DEF Init, View
  <1> QED
    BY <1>1, <1>2 DEF Init, TypeOK

LEMMA UserTypeOK == TypeOK /\ User => TypeOK'
  <1> SUFFICES ASSUME TypeOK, User PROVE TypeOK'
    OBVIOUS
  <1> USE DEF TypeOK, FlushNext, Rendered, UserMay, report, display, network
  <1>1. ASSUME NEW r \in Regions, ResetTo(r) PROVE TypeOK'
    BY <1>1 DEF ResetTo
  <1>2. ASSUME NEW d \in Days, SetDate(d) PROVE TypeOK'
    BY <1>2 DEF SetDate
  <1>3. ASSUME NEW z \in Depths, SetDepth(z) PROVE TypeOK'
    BY <1>3 DEF SetDepth
  <1>4. ASSUME NEW c \in Cells, SelectCell(c) PROVE TypeOK'
    BY <1>4 DEF SelectCell
  <1>5. CASE ClearSelection
    BY <1>5 DEF ClearSelection
  <1> QED
    BY <1>1, <1>2, <1>3, <1>4, <1>5 DEF User, SetRegion, ReturnToScope

LEMMA EffectsTypeOK == TypeOK /\ RunEffects => TypeOK'
  <1> SUFFICES ASSUME TypeOK, RunEffects PROVE TypeOK'
    OBVIOUS
  <1>1. /\ dates' \subseteq Days /\ date' \in Days \cup {None}
        /\ selected' \in Cells \cup {None}
        /\ mapEnvelope' \in MapEnvelope \cup {None}
        /\ status' \in Statuses \cup {"unavailable", None}
    <2>1. CASE DeriveDue
      <3>1. dates' = availability[region] /\ availability \in Reports /\ region \in Regions
        BY <2>1 DEF RunEffects, TypeOK, DeriveDue
      <3>2. dates' \in SUBSET Days
        BY <3>1, ReportDays
      <3>3. date' \in Days \cup {None}
        BY <2>1, <3>2, DefaultDaysOffered DEF RunEffects
      <3> QED
        BY <2>1, <3>2, <3>3 DEF RunEffects
    <2>2. CASE ~DeriveDue
      BY <2>2 DEF RunEffects, TypeOK
    <2> QED
      BY <2>1, <2>2
  <1>2. /\ MapSeq \in Nat /\ ProfileSeq \in Nat
        /\ requestSeq <= MapSeq /\ MapSeq <= ProfileSeq
    BY DEF MapSeq, ProfileSeq, TypeOK
  <1>3. /\ mapCalls' \subseteq MapCall
        /\ \A call \in mapCalls' : call.seq <= ProfileSeq
    BY <1>2 DEF RunEffects, TypeOK, MapCall, MapDue
  <1>4. /\ profileCalls' \subseteq ProfileCall
        /\ \A call \in profileCalls' : call.seq <= ProfileSeq
    BY <1>2 DEF RunEffects, TypeOK, ProfileCall, ProfileWanted
  <1>5. busyMap' \in BOOLEAN /\ busyProfile' \in BOOLEAN
    BY DEF RunEffects
  <1>6. drawn' \in View
    BY DEF RunEffects, TypeOK, View, Rendered
  <1> QED
    BY <1>1, <1>2, <1>3, <1>4, <1>5, <1>6 DEF RunEffects, TypeOK, report

LEMMA AnswersTypeOK ==
  TypeOK /\ (AvailabilitySettles \/ MapSettles \/ ProfileSettles) => TypeOK'
  <1> SUFFICES ASSUME TypeOK, AvailabilitySettles \/ MapSettles \/ ProfileSettles
               PROVE TypeOK'
    OBVIOUS
  <1> USE DEF TypeOK, controls, report, display, network
  <1>1. CASE AvailabilitySettles
    BY <1>1 DEF AvailabilitySettles, AvailabilityArrives, AvailabilityFails
  <1>2. ASSUME NEW call \in mapCalls, NEW s \in Statuses, MapArrives(call, s)
        PROVE TypeOK'
    <2>1. mapEnvelope' \in MapEnvelope
      BY <1>2 DEF MapArrives, MapEnvelope, MapCall
    <2> QED
      BY <1>2, <2>1 DEF MapArrives, TakeMap
  <1>3. ASSUME NEW call \in mapCalls, MapFails(call) \/ MapDropped(call) PROVE TypeOK'
    BY <1>3 DEF MapFails, MapDropped, TakeMap
  <1>4. ASSUME NEW call \in profileCalls, ProfileArrives(call) PROVE TypeOK'
    <2>1. profileEnvelope' \in ProfileEnvelope
      BY <1>4 DEF ProfileArrives, ProfileEnvelope, ProfileCall
    <2> QED
      BY <1>4, <2>1 DEF ProfileArrives, TakeProfile
  <1>5. ASSUME NEW call \in profileCalls, ProfileFails(call) \/ ProfileDropped(call)
        PROVE TypeOK'
    BY <1>5 DEF ProfileFails, ProfileDropped, TakeProfile
  <1> QED
    BY <1>1, <1>2, <1>3, <1>4, <1>5 DEF MapSettles, ProfileSettles

\* Every reachable state of the hook is well typed, and no call is newer than
\* the counter that gates its answer.
THEOREM TypeCorrect == Spec => []TypeOK
  <1>1. TypeOK /\ [Next]_vars => TypeOK'
    <2> SUFFICES ASSUME TypeOK, [Next]_vars PROVE TypeOK'
      OBVIOUS
    <2>1. CASE UNCHANGED vars
      BY <2>1 DEF TypeOK, vars
    <2> QED
      BY <2>1, UserTypeOK, EffectsTypeOK, AnswersTypeOK DEF Next
  <1> QED
    BY InitTypeOK, <1>1, PTL DEF Spec

-----------------------------------------------------------------------------
(***************************************************************************)
(* The display invariants.  One lemma per conjunct of DisplayInv; in each, *)
(* the handlers leave `drawn', the calls and the counter alone, the        *)
(* effects are the one place where calls and `drawn' change together, and  *)
(* the answers change the display only.                                    *)
(***************************************************************************)

\* What the handlers leave alone.
LEMMA UserFrame ==
  ASSUME User
  PROVE  /\ UNCHANGED <<drawn, network, report>>
         /\ mapEnvelope' \in {mapEnvelope, None}
         /\ profileEnvelope' \in {profileEnvelope, None}
         /\ (mapEnvelope' # None => busyMap' = busyMap)
  BY DEF User, SetRegion, ReturnToScope, ResetTo, SetDate, SetDepth, SelectCell,
         ClearSelection, FlushNext, report, display, network

\* The numbers the effects hand out are new.
LEMMA FreshSeq ==
  ASSUME TypeOK
  PROVE  /\ MapDue => MapSeq = requestSeq + 1
         /\ ~MapDue => MapSeq = requestSeq
         /\ ProfileWanted => ProfileSeq = MapSeq + 1
         /\ ~ProfileWanted => ProfileSeq = MapSeq
         /\ MapSeq \in Nat /\ ProfileSeq \in Nat
         /\ requestSeq <= MapSeq /\ MapSeq <= ProfileSeq
  BY DEF TypeOK, MapSeq, ProfileSeq

LEMMA FieldStep == TypeOK /\ FieldInv /\ [Next]_vars => FieldInv'
  <1> SUFFICES ASSUME TypeOK, FieldInv, [Next]_vars PROVE FieldInv'
    OBVIOUS
  <1> USE DEF FieldInv, IsCurrent
  <1>1. CASE User
    BY <1>1, UserFrame DEF network
  <1>2. CASE RunEffects
    <2>1. drawn' = Rendered /\ requestSeq' = ProfileSeq
      BY <1>2 DEF RunEffects
    <2>2. ASSUME date # None
          PROVE  \A call \in mapCalls' : call.seq = requestSeq' =>
                   call.region = region /\ call.date = date /\ call.depth = depth
      <3>1. CASE MapDue
        <4> SUFFICES ASSUME NEW call \in mapCalls', call.seq = ProfileSeq
                     PROVE  call.region = region /\ call.date = date /\ call.depth = depth
          BY <2>1
        <4>1. call \notin mapCalls
          BY <3>1, FreshSeq DEF TypeOK, MapCall
        <4> QED
          BY <1>2, <3>1, <4>1 DEF RunEffects
      <3>2. CASE ~MapDue
        <4>1. mapCalls' = mapCalls
          BY <1>2, <3>2 DEF RunEffects
        <4>2. drawn.region = region /\ drawn.date = date /\ drawn.depth = depth
          BY <2>2, <3>2 DEF MapDue
        <4> SUFFICES ASSUME NEW call \in mapCalls, call.seq = ProfileSeq
                     PROVE  call.region = region /\ call.date = date /\ call.depth = depth
          BY <2>1, <4>1
        <4>3. call.seq = requestSeq
          BY FreshSeq DEF TypeOK, MapCall
        <4> QED
          BY <2>2, <4>2, <4>3
      <3> QED
        BY <3>1, <3>2
    <2>3. ASSUME date # None, ~busyMap', mapEnvelope' # None
          PROVE  /\ mapEnvelope'.region = region
                 /\ mapEnvelope'.date = date
                 /\ mapEnvelope'.depth = depth
      <3>1. ~DeriveDue /\ ~MapDue /\ ~busyMap /\ mapEnvelope' = mapEnvelope
        BY <1>2, <2>3 DEF RunEffects
      <3>2. drawn.region = region /\ drawn.date = date /\ drawn.depth = depth
        BY <2>3, <3>1 DEF MapDue
      <3> QED
        BY <2>3, <3>1, <3>2
    <2>4. /\ drawn'.region = region /\ drawn'.date = date /\ drawn'.depth = depth
      BY <2>1 DEF Rendered
    <2> QED
      BY <2>2, <2>3, <2>4
  <1>3. CASE AvailabilitySettles
    BY <1>3 DEF AvailabilitySettles, AvailabilityArrives, AvailabilityFails,
                display, network
  <1>4. ASSUME NEW call \in mapCalls, NEW s \in Statuses, MapArrives(call, s)
        PROVE  FieldInv'
    BY <1>4 DEF MapArrives, TakeMap
  <1>5. ASSUME NEW call \in mapCalls, MapFails(call) \/ MapDropped(call)
        PROVE  FieldInv'
    BY <1>5 DEF MapFails, MapDropped, TakeMap
  <1>6. CASE ProfileSettles
    BY <1>6 DEF ProfileSettles, ProfileArrives, ProfileFails, ProfileDropped, TakeProfile
  <1>7. CASE UNCHANGED vars
    BY <1>7 DEF vars
  <1> QED
    BY <1>1, <1>2, <1>3, <1>4, <1>5, <1>6, <1>7 DEF Next, MapSettles

LEMMA ReportFirstStep == TypeOK /\ ReportFirst /\ [Next]_vars => ReportFirst'
  <1> SUFFICES ASSUME TypeOK, ReportFirst, [Next]_vars PROVE ReportFirst'
    OBVIOUS
  <1> USE DEF ReportFirst
  <1>1. CASE User
    <2>1. UNCHANGED <<drawn, mapCalls, availability, availabilityState>>
      BY <1>1, UserFrame DEF network, report
    <2>2. availability = None => date' = None /\ dates' = {} /\ mapEnvelope' = None
      BY <1>1 DEF User, SetRegion, ReturnToScope, ResetTo, SetDate, SetDepth,
                  SelectCell, ClearSelection, display
    <2> QED
      BY <2>1, <2>2
  <1>2. CASE RunEffects
    <2>1. UNCHANGED <<availability, availabilityState>> /\ drawn' = Rendered
      BY <1>2 DEF RunEffects, report
    <2>2. ASSUME availability = None
          PROVE  /\ UNCHANGED <<date, dates, mapEnvelope, mapCalls>>
                 /\ date = None /\ dates = {}
      BY <1>2, <2>2 DEF RunEffects, DeriveDue, MapDue
    <2> QED
      BY <2>1, <2>2 DEF Rendered
  <1>3. CASE AvailabilitySettles
    BY <1>3, ExplorerAssumption DEF AvailabilitySettles, AvailabilityArrives,
       AvailabilityFails, controls, display, network
  <1>4. CASE MapSettles
    BY <1>4 DEF MapSettles, MapArrives, MapFails, MapDropped, TakeMap, controls, report
  <1>5. CASE ProfileSettles
    BY <1>5 DEF ProfileSettles, ProfileArrives, ProfileFails, ProfileDropped,
                TakeProfile, controls, report
  <1>6. CASE UNCHANGED vars
    BY <1>6 DEF vars
  <1> QED
    BY <1>1, <1>2, <1>3, <1>4, <1>5, <1>6 DEF Next

LEMMA BannerStep ==
  TypeOK /\ ReportFirst /\ BannerMatchesField /\ [Next]_vars => BannerMatchesField'
  <1> SUFFICES ASSUME TypeOK, ReportFirst, BannerMatchesField, [Next]_vars
               PROVE  BannerMatchesField'
    OBVIOUS
  <1> USE DEF BannerMatchesField
  <1>1. CASE User
    BY <1>1 DEF User, SetRegion, ReturnToScope, ResetTo, SetDate, SetDepth,
                SelectCell, ClearSelection, display
  <1>2. CASE RunEffects
    BY <1>2 DEF RunEffects
  <1>3. CASE AvailabilitySettles
    BY <1>3 DEF AvailabilitySettles, AvailabilityArrives, AvailabilityFails,
                ReportFirst, display
  <1>4. ASSUME NEW call \in mapCalls, NEW s \in Statuses, MapArrives(call, s)
        PROVE  BannerMatchesField'
    <2>1. mapEnvelope' \in MapEnvelope
      BY <1>4 DEF MapArrives, TypeOK, MapCall, MapEnvelope
    <2>2. mapEnvelope' # None
      BY <2>1, ExplorerAssumption DEF MapEnvelope
    <2> QED
      BY <1>4, <2>2 DEF MapArrives
  <1>5. ASSUME NEW call \in mapCalls, MapFails(call) \/ MapDropped(call)
        PROVE  BannerMatchesField'
    BY <1>5 DEF MapFails, MapDropped
  <1>6. CASE ProfileSettles
    BY <1>6 DEF ProfileSettles, ProfileArrives, ProfileFails, ProfileDropped, TakeProfile
  <1>7. CASE UNCHANGED vars
    BY <1>7 DEF vars
  <1> QED
    BY <1>1, <1>2, <1>3, <1>4, <1>5, <1>6, <1>7 DEF Next, MapSettles

LEMMA ProfileStep == TypeOK /\ ProfileInv /\ [Next]_vars => ProfileInv'
  <1> SUFFICES ASSUME TypeOK, ProfileInv, [Next]_vars PROVE ProfileInv'
    OBVIOUS
  <1> USE DEF ProfileInv, IsCurrent
  <1>1. CASE User
    <2>1. ASSUME date' = None, mapEnvelope' # None \/ selected' # None
          PROVE  \A call \in profileCalls : ~IsCurrent(call)
      BY <1>1, <2>1, ExplorerAssumption
         DEF User, SetRegion, ReturnToScope, ResetTo, SetDate, SetDepth, SelectCell,
             ClearSelection, display
    <2> QED
      BY <1>1, <2>1, UserFrame DEF network
  <1>2. CASE RunEffects
    <2> DEFINE asked == [seq |-> ProfileSeq, region |-> region, date |-> date,
                         cell |-> selected]
    <2>1. /\ drawn' = Rendered /\ requestSeq' = ProfileSeq
          /\ drawn'.region = region /\ drawn'.date = date
          /\ drawn'.selected = selected
      BY <1>2 DEF RunEffects, Rendered
    <2>2. \A call \in mapCalls' : call \in mapCalls \/ (MapDue /\ call.seq = MapSeq)
      BY <1>2 DEF RunEffects
    <2>3. \A call \in profileCalls' :
            call \in profileCalls \/ (ProfileWanted /\ call = asked)
      BY <1>2 DEF RunEffects
    <2>4. \A field \in mapCalls', call \in profileCalls' : field.seq # call.seq
      <3> SUFFICES ASSUME NEW field \in mapCalls', NEW call \in profileCalls'
                   PROVE  field.seq # call.seq
        OBVIOUS
      <3>1. \A old \in mapCalls \cup profileCalls : old.seq \in Nat /\ old.seq <= requestSeq
        BY DEF TypeOK, MapCall, ProfileCall
      <3> QED
        BY <2>2, <2>3, <3>1, FreshSeq DEF TypeOK
    <2>5. ASSUME NEW call \in profileCalls', call.seq = ProfileSeq, selected # None
          PROVE  /\ date # None
                 /\ call.region = region /\ call.date = date /\ call.cell = selected
      <3>1. CASE ProfileWanted
        <4>1. call \notin profileCalls
          BY <2>5, <3>1, FreshSeq DEF TypeOK, ProfileCall
        <4> QED
          BY <2>3, <3>1, <4>1 DEF ProfileWanted
      <3>2. CASE ~ProfileWanted
        <4>1. call \in profileCalls /\ call.seq = requestSeq
          BY <2>3, <2>5, <3>2, FreshSeq DEF TypeOK, ProfileCall
        <4>2. date # None
          BY <2>5, <4>1
        <4>3. drawn.region = region /\ drawn.date = date /\ drawn.selected = selected
          BY <2>5, <3>2, <4>2 DEF ProfileWanted, ProfileDue
        <4> QED
          BY <2>5, <4>1, <4>2, <4>3
      <3> QED
        BY <3>1, <3>2
    <2>6. ASSUME date' = None, mapEnvelope' # None \/ selected' # None
          PROVE  \A call \in profileCalls' : call.seq # ProfileSeq
      <3>1. ~DeriveDue
        BY <1>2, <2>6 DEF RunEffects
      <3>2. date = None /\ UNCHANGED <<mapEnvelope, selected>>
        BY <1>2, <2>6, <3>1 DEF RunEffects
      <3>3. ProfileSeq = requestSeq /\ profileCalls' = profileCalls
        BY <1>2, <3>2, FreshSeq DEF RunEffects, MapDue, ProfileWanted
      <3> QED
        BY <2>6, <3>2, <3>3
    <2>7. ASSUME selected # None, profileEnvelope' # None
          PROVE  /\ date # None
                 /\ profileEnvelope'.region = region
                 /\ profileEnvelope'.date = date
                 /\ profileEnvelope'.cell = selected
      <3>1. ~ProfileDue /\ profileEnvelope' = profileEnvelope
        BY <1>2, <2>7 DEF RunEffects
      <3>2. drawn.region = region /\ drawn.date = date /\ drawn.selected = selected
        BY <3>1 DEF ProfileDue
      <3> QED
        BY <2>7, <3>1, <3>2
    <2> QED
      BY <2>1, <2>4, <2>5, <2>6, <2>7
  <1>3. CASE AvailabilitySettles
    BY <1>3 DEF AvailabilitySettles, AvailabilityArrives, AvailabilityFails,
                controls, display, network
  <1>4. ASSUME NEW call \in mapCalls, NEW s \in Statuses, MapArrives(call, s)
        PROVE  ProfileInv'
    BY <1>4 DEF MapArrives, TakeMap, controls
  <1>5. ASSUME NEW call \in mapCalls, MapFails(call) \/ MapDropped(call)
        PROVE  ProfileInv'
    BY <1>5 DEF MapFails, MapDropped, TakeMap, controls
  <1>6. ASSUME NEW call \in profileCalls, ProfileArrives(call)
        PROVE  ProfileInv'
    BY <1>6 DEF ProfileArrives, TakeProfile, controls
  <1>7. ASSUME NEW call \in profileCalls, ProfileFails(call) \/ ProfileDropped(call)
        PROVE  ProfileInv'
    BY <1>7 DEF ProfileFails, ProfileDropped, TakeProfile, controls
  <1>8. CASE UNCHANGED vars
    BY <1>8 DEF vars
  <1> QED
    BY <1>1, <1>2, <1>3, <1>4, <1>5, <1>6, <1>7, <1>8 DEF Next, MapSettles, ProfileSettles

-----------------------------------------------------------------------------
\* What a call that can still be accepted would show is always right for the
\* page as drawn: the inductive invariant of the display.
THEOREM DisplayCorrect == Spec => []DisplayInv
  <1>1. Init => DisplayInv
    BY ExplorerAssumption DEF Init, DisplayInv, FieldInv, ProfileInv, ReportFirst,
                              BannerMatchesField
  <1>2. TypeOK /\ DisplayInv /\ [Next]_vars => DisplayInv'
    BY FieldStep, ProfileStep, ReportFirstStep, BannerStep DEF DisplayInv
  <1> QED
    BY <1>1, <1>2, TypeCorrect, PTL DEF Spec

\* A field at rest is the field of the region, day and depth the controls show.
THEOREM FieldHonest == Spec => []MapHonestWhenIdle
  <1>1. DisplayInv => MapHonestWhenIdle
    BY DEF DisplayInv, FieldInv, MapHonestWhenIdle, Settled, Rendered
  <1> QED
    BY <1>1, DisplayCorrect, PTL

\* The panel never shows another cell's, day's or region's profile.
THEOREM ProfileHonest == Spec => []ProfileMatchesSelection
  <1>1. DisplayInv => ProfileMatchesSelection
    BY DEF DisplayInv, ProfileInv, ProfileMatchesSelection, Settled, Rendered
  <1> QED
    BY <1>1, DisplayCorrect, PTL

\* The banner's status is the status of the field on display.
THEOREM BannerHonest == Spec => []BannerMatchesField
  <1>1. DisplayInv => BannerMatchesField
    BY DEF DisplayInv
  <1> QED
    BY <1>1, DisplayCorrect, PTL

\* An answer put on display is that of the youngest request under way: what is
\* still awaited was sent earlier and will be dropped.
THEOREM LatestKept == Spec => LatestWins
  <1> DEFINE calls == mapCalls \cup profileCalls
             Kept ==
               \A call \in (mapCalls \cup profileCalls) :
                 (call \notin mapCalls' \cup profileCalls' /\ display' # display) =>
                   \A other \in mapCalls' \cup profileCalls' : other.seq <= call.seq
  <1>1. TypeOK /\ [Next]_vars => [Kept]_vars
    <2> SUFFICES ASSUME TypeOK, [Next]_vars, NEW call \in calls,
                        call \notin calls', display' # display
                 PROVE  \A other \in calls' : other.seq <= call.seq
      OBVIOUS
    <2>1. ASSUME calls' \subseteq calls, call.seq = requestSeq
          PROVE  \A other \in calls' : other.seq <= call.seq
      BY <2>1 DEF TypeOK
    <2>2. ASSUME calls \subseteq calls' PROVE FALSE
      BY <2>2
    <2>3. CASE User
      BY <2>2, <2>3 DEF User, SetRegion, ReturnToScope, ResetTo, SetDate, SetDepth,
                        SelectCell, ClearSelection, network
    <2>4. CASE RunEffects
      BY <2>2, <2>4 DEF RunEffects
    <2>5. CASE AvailabilitySettles
      BY <2>2, <2>5 DEF AvailabilitySettles, AvailabilityArrives, AvailabilityFails, network
    <2>6. ASSUME NEW c \in mapCalls, NEW s \in Statuses, MapArrives(c, s)
          PROVE  calls' \subseteq calls /\ call.seq = requestSeq
      BY <2>6 DEF MapArrives, TakeMap, IsCurrent
    <2>7. ASSUME NEW c \in mapCalls, MapFails(c)
          PROVE  calls' \subseteq calls /\ call.seq = requestSeq
      BY <2>7 DEF MapFails, TakeMap, IsCurrent
    <2>8. ASSUME NEW c \in profileCalls, ProfileArrives(c) \/ ProfileFails(c)
          PROVE  calls' \subseteq calls /\ call.seq = requestSeq
      BY <2>8 DEF ProfileArrives, ProfileFails, TakeProfile, IsCurrent
    <2>9. ASSUME NEW c, MapDropped(c) \/ ProfileDropped(c)
          PROVE  FALSE
      BY <2>9 DEF MapDropped, ProfileDropped, TakeMap, TakeProfile, display
    <2>10. CASE UNCHANGED vars
      BY <2>10 DEF vars, display
    <2> QED
      BY <2>1, <2>3, <2>4, <2>5, <2>6, <2>7, <2>8, <2>9, <2>10
         DEF Next, MapSettles, ProfileSettles
  <1> QED
    BY <1>1, TypeCorrect, PTL DEF Spec, LatestWins
=============================================================================
