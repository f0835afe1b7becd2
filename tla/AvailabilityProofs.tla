--------------------------- MODULE AvailabilityProofs ---------------------------
(***************************************************************************)
(* Proofs about the capability report, for any list of regions, any store  *)
(* and window, while the model service changes its region and any number   *)
(* of builds write the demo cache.                                         *)
(***************************************************************************)
EXTENDS Availability, DemoCacheProofs, FiniteSetTheorems, SequenceTheorems

\* To the builder, a step of the report is a step of its own or nothing.
LEMMA BuilderMoves == [Next]_vars => [DemoNext]_demoVars
  BY Zenon DEF Next, vars, Begin, AskService, AskManifest, Describe, Judge, ServiceChanges,
     demoVars

LEMMA AtHandIsRegion ==
  ASSUME ReportTypeOK, stage \in {"live", "demo", "describe"}
  PROVE  AtHand \in Regions
  <1>1. Len(entries) \in Nat /\ Len(entries) + 1 \in 1 .. Len(Order)
    BY OrderAssumption DEF ReportTypeOK
  <1> QED
    BY <1>1, OrderAssumption DEF AtHand

\* A day of the store is the day a request for it is answered from.
LEMMA StoredDayPredicts ==
  ASSUME NEW r \in Regions, NEW d \in Store[r], ~(Index(r, d) + 1 < Window)
  PROVE  Predicts(r, d)
  <1>1. Store[r] \subseteq Nat /\ Window \in Nat
    BY StoreAssumption
  <1>2. Distance(d, d) = 0 /\ \A f \in Store[r] \ {d} : 0 < Distance(d, f) /\ 0 < Distance(f, d)
    BY <1>1 DEF Distance
  <1>3. d \in DayFor(r, d)
    BY <1>2 DEF DayFor
  <1>4. Index(r, d) \in Nat
    <2>1. {e \in Store[r] : e < d} \subseteq Store[r] /\ IsFiniteSet(Store[r])
      BY StoreAssumption
    <2> QED
      BY <2>1, FS_Subset, FS_CardinalityType DEF Index
  <1>5. Index(r, d) + 1 >= Window
    BY <1>1, <1>4
  <1> QED
    BY <1>3, <1>5 DEF Predicts, PredictedDays

\* A prediction is of one day of the store: the nearest to the date asked for, a day away
\* at most, with a whole window of stored days up to it.
THEOREM OneDayPredicted ==
  ASSUME NEW r \in Regions, NEW date \in Nat, NEW e \in PredictedDays(r, date)
  PROVE  /\ PredictedDays(r, date) = {e}
         /\ date <= e + 1 /\ e <= date + 1
         /\ \A f \in Store[r] : Distance(e, date) <= Distance(f, date)
         /\ Window <= Cardinality({f \in Store[r] : f <= e})
  <1>1. Store[r] \subseteq Nat /\ IsFiniteSet(Store[r]) /\ Window \in Nat
    BY StoreAssumption
  <1>2. e \in Store[r] /\ e \in DayFor(r, date) /\ Index(r, e) + 1 >= Window
    BY DEF PredictedDays, DayFor
  <1>3. \A f \in Store[r] : Distance(f, date) \in Nat
    BY <1>1 DEF Distance
  <1>4. ASSUME NEW f \in DayFor(r, date) PROVE f = e
    <2> SUFFICES ASSUME f # e PROVE FALSE
      OBVIOUS
    <2>1. f \in Store[r] /\ f \in Nat /\ e \in Nat
      BY <1>1, <1>2 DEF DayFor
    <2>2. Distance(e, date) < Distance(f, date) \/ (Distance(e, date) = Distance(f, date) /\ e < f)
      BY <1>2, <2>1 DEF DayFor
    <2>3. Distance(f, date) < Distance(e, date) \/ (Distance(f, date) = Distance(e, date) /\ f < e)
      BY <1>2, <2>1 DEF DayFor
    <2> QED
      BY <1>2, <1>3, <2>1, <2>2, <2>3
  <1>5. PredictedDays(r, date) = {e}
    BY <1>4 DEF PredictedDays
  <1>6. date <= e + 1 /\ e <= date + 1
    BY <1>1, <1>2 DEF DayFor, Distance
  <1>7. ASSUME NEW f \in Store[r] PROVE Distance(e, date) <= Distance(f, date)
    <2>1. f = e \/ Distance(e, date) < Distance(f, date) \/ Distance(e, date) = Distance(f, date)
      BY <1>2 DEF DayFor
    <2> QED
      BY <1>2, <1>3, <2>1
  <1>8. Window <= Cardinality({f \in Store[r] : f <= e})
    <2> DEFINE before == {f \in Store[r] : f < e}
    <2>1. {f \in Store[r] : f <= e} = before \cup {e} /\ e \notin before
      BY <1>1, <1>2
    <2>2. IsFiniteSet(before) /\ Cardinality(before) \in Nat
      BY <1>1, FS_Subset, FS_CardinalityType
    <2>3. Cardinality(before \cup {e}) = Cardinality(before) + 1
      BY <2>1, <2>2, FS_AddElement
    <2> QED
      BY <1>1, <1>2, <2>1, <2>2, <2>3 DEF Index
  <1> QED
    BY <1>5, <1>6, <1>7, <1>8


-----------------------------------------------------------------------------
(***************************************************************************)
(* What is seen in a step that does not end a report.                      *)
(***************************************************************************)
LEMMA Observed ==
  ASSUME Observe, stage' # "done"
  PROVE  /\ Servable' \subseteq could' /\ Unsettled' \subseteq could'
         /\ stage # "done" => could \subseteq could'
         /\ intact' \in BOOLEAN
         /\ intact' => Whole(manifest)' /\ (stage # "done" => intact)
  <1>1. could' = (IF stage = "done" THEN {} ELSE could) \cup Servable' \cup Unsettled'
    BY Zenon DEF Observe
  <1>2. intact' = ((stage = "done" \/ intact) /\ Whole(manifest)')
    BY Zenon DEF Observe
  <1>3. intact' \in BOOLEAN
    BY <1>2, Zenon
  <1>4. intact' => Whole(manifest)' /\ (stage # "done" => intact)
    BY <1>2, Zenon
  <1> QED
    BY <1>1, <1>3, <1>4

LEMMA CanBeServed ==
  ASSUME NEW r \in Regions, NEW d \in Dates,
         Readable(r, d) \/ (service = r /\ Predicts(r, d))
  PROVE  [region |-> r, date |-> d] \in Servable
  BY DEF Servable

\* What was accounted for stays so as the report grows.
LEMMA StaysAccounted ==
  ASSUME Observe, stage # "done" \/ stage' = "done", NEW r, NEW d, Accounted(r, d),
         stage = "done" => stage' = "done"
  PROVE  Accounted(r, d)'
  <1>1. could \subseteq could'
    <2>1. CASE stage' = "done"
      BY <2>1 DEF Observe
    <2>2. CASE stage' # "done"
      BY <2>2, Observed
    <2> QED
      BY <2>1, <2>2
  <1> QED
    BY <1>1 DEF Accounted

-----------------------------------------------------------------------------
(***************************************************************************)
(* The inductive invariant.                                                *)
(***************************************************************************)
LEMMA ReportInit == Init => ReportInv
  <1> SUFFICES ASSUME Init PROVE ReportInv
    OBVIOUS
  <1> USE DEF Init
  <1>1. entries \in Seq(Entry) /\ DOMAIN entries = {}
    OBVIOUS
  <1>2. ReportTypeOK
    BY <1>1, Zenon DEF ReportTypeOK
  <1> QED
    BY <1>1, <1>2 DEF ReportInv, EntriesInv, KnownInv, AcceptedWithManifest, ListedServed

\* Steps of the service and the builder: the report is left alone.
LEMMA OthersKeepReport ==
  ASSUME ReportInv, service' \in Regions \cup {None}, Observe,
         UNCHANGED <<stage, found, known, entries, verdict>>
  PROVE  ReportInv'
  <1> USE DEF ReportInv
  <1>1. intact' \in BOOLEAN /\ (intact' => intact \/ stage = "done")
                            /\ (stage = "done" => intact' = intact)
    <2>1. CASE stage = "done"
      BY <2>1, Zenon DEF Observe, ReportTypeOK
    <2>2. CASE stage # "done"
      BY <2>2, Observed, Zenon
    <2> QED
      BY <2>1, <2>2
  <1>2. could \subseteq could'
    <2>1. CASE stage = "done"
      BY <2>1 DEF Observe
    <2>2. CASE stage # "done"
      BY <2>2, Observed
    <2> QED
      BY <2>1, <2>2
  <1>3. \A r, d : Accounted(r, d) => Accounted(r, d)'
    BY StaysAccounted
  <1>4. ReportTypeOK'
    BY <1>1, Zenon DEF ReportTypeOK
  <1>5. EntriesInv'
    BY <1>1, Zenon DEF EntriesInv
  <1>6. KnownInv'
    <2>1. AtHand' = AtHand
      BY DEF AtHand
    <2> QED
      BY <1>2, <1>3, <2>1 DEF KnownInv
  <1>7. AcceptedWithManifest'
    <2>1. CASE stage = "done"
      BY <1>1, <2>1, Zenon DEF AcceptedWithManifest
    <2>2. CASE stage # "done"
      BY <2>2, Zenon DEF AcceptedWithManifest
    <2> QED
      BY <2>1, <2>2
  <1>8. ListedServed'
    BY <1>3 DEF ListedServed
  <1> QED
    BY <1>4, <1>5, <1>6, <1>7, <1>8

\* The manifest that is remembered after a look at it is a manifest, there is one if it
\* can be read, and its dates have been seen.
LEMMA RememberedSeen ==
  ASSUME DemoTypeOK, BuildInv, ReportInv, UNCHANGED <<service, demoVars>>, Observe,
         stage # "done", stage' # "done", known' = Remembered
  PROVE  /\ known' \in Manifest \cup {None}
         /\ known # None => known' = known
         /\ Whole(manifest) => known' # None
         /\ known' # None =>
              \A d \in known'.dates : [region |-> known'.region, date |-> d] \in could'
  <1>1. could \subseteq could' /\ Servable' \subseteq could' /\ Unsettled' \subseteq could'
    BY Observed
  <1>2. CASE known # None
    BY <1>1, <1>2 DEF Remembered, ReportInv, ReportTypeOK, KnownInv
  <1>3. CASE known = None /\ ~Whole(manifest)
    BY <1>3 DEF Remembered
  <1>4. CASE known = None /\ Whole(manifest)
    <2>1. known' = manifest /\ manifest \in Manifest /\ manifest # None
      BY <1>4, Zenon DEF Remembered, DemoTypeOK, Whole
    <2>2. ASSUME NEW d \in manifest.dates
          PROVE  [region |-> manifest.region, date |-> d] \in could'
      <3> DEFINE r == manifest.region
      <3>1. r \in Regions /\ d \in Dates /\ d \in Advertised(r)
        BY <1>4, <2>1 DEF Manifest, Advertised
      <3>2. CASE r \in dirty
        <4>1. [region |-> r, date |-> d] \in Unsettled'
          BY <3>1, <3>2 DEF Unsettled, demoVars
        <4> QED
          BY <1>1, <4>1
      <3>3. CASE r \notin dirty
        <4>1. Readable(r, d)
          BY <3>1, <3>3, OneBuildReadable DEF BuildInv, AdvertisedReadable
        <4>2. Servable' = Servable
          BY DEF Servable, Readable, demoVars
        <4> HIDE DEF r
        <4>3. [region |-> r, date |-> d] \in Servable
          BY <3>1, <4>1, CanBeServed
        <4> QED
          BY <1>1, <4>2, <4>3 DEF r
      <3> QED
        BY <3>2, <3>3
    <2> QED
      BY <1>4, <2>1, <2>2
  <1> QED
    BY <1>2, <1>3, <1>4

\* Within a report no verdict has been given.
LEMMA NoVerdictYet ==
  ASSUME stage' # "done" => verdict' = "none",
         stage' = "done" => UNCHANGED <<verdict, intact>> /\ AcceptedWithManifest
  PROVE  AcceptedWithManifest'
  BY Zenon DEF AcceptedWithManifest

LEMMA ReportStep ==
  ASSUME DemoTypeOK, BuildInv, ReportInv, [Next]_vars
  PROVE  ReportInv'
  <1> USE DEF ReportInv
  <1>1. DemoTypeOK'
    BY BuilderMoves, DemoTypeStep
  <1>2. \A r, d : (Observe /\ stage # "done" /\ Accounted(r, d)) => Accounted(r, d)'
    BY StaysAccounted
  <1>3. CASE Begin
    <2>1. ReportTypeOK'
      <3>1. intact' \in BOOLEAN /\ entries' \in Seq(Entry) /\ Len(entries') = 0
        BY <1>3, Observed DEF Begin
      <3>2. Len(entries') < Len(Order)
        BY <3>1, OrderAssumption
      <3> QED
        BY <1>3, <3>1, <3>2, Zenon DEF Begin, ReportTypeOK
    <2>2. DOMAIN entries' = {} /\ known' = None /\ stage' = "live" /\ verdict' = "none"
      BY <1>3 DEF Begin
    <2> QED
      BY <2>1, <2>2 DEF EntriesInv, KnownInv, AcceptedWithManifest, ListedServed
  <1>4. CASE AskService
    <2>1. /\ Observe /\ stage = "live" /\ stage' \in {"demo", "describe"}
          /\ found' = LiveDates(AtHand) /\ stage' # "done" /\ stage # "done"
          /\ UNCHANGED <<service, known, entries, verdict, demoVars>>
      BY <1>4, Zenon DEF AskService
    <2>2. AtHand' = AtHand /\ AtHand \in Regions
      BY <2>1, AtHandIsRegion DEF AtHand
    <2>3. found' \subseteq Dates /\ (found' # {} => service = AtHand)
      BY <2>1, <2>2, StoreAssumption DEF LiveDates
    <2>4. intact' \in BOOLEAN /\ (intact' => intact) /\ could \subseteq could'
          /\ Servable' \subseteq could'
      BY <2>1, Observed
    <2>5. ReportTypeOK'
      BY <2>1, <2>3, <2>4, Zenon DEF ReportTypeOK
    <2>6. EntriesInv'
      BY <2>1, <2>4, Zenon DEF EntriesInv
    <2>7. \A d \in found' : Accounted(AtHand, d)'
      <3> SUFFICES ASSUME NEW d \in found' PROVE Accounted(AtHand, d)'
        OBVIOUS
      <3>1. d \in Store[AtHand] /\ d \in Dates /\ service = AtHand
        BY <2>1, <2>2, <2>3 DEF LiveDates
      <3>2. CASE Index(AtHand, d) + 1 < Window
        BY <2>2, <3>1, <3>2 DEF Accounted
      <3>3. CASE ~(Index(AtHand, d) + 1 < Window)
        <4>1. Predicts(AtHand, d)
          BY <2>2, <3>1, <3>3, StoredDayPredicts
        <4>2. [region |-> AtHand, date |-> d] \in Servable
          BY <2>2, <3>1, <4>1, CanBeServed
        <4>3. Servable' = Servable
          BY <2>1 DEF Servable, Readable, demoVars
        <4> QED
          BY <2>2, <2>4, <4>2, <4>3 DEF Accounted
      <3> QED
        BY <3>2, <3>3
    <2>8. KnownInv'
      BY <2>1, <2>2, <2>4, <2>7 DEF KnownInv
    <2>9. ListedServed'
      BY <2>1, <1>2 DEF ListedServed
    <2> QED
      BY <2>1, <2>5, <2>6, <2>8, <2>9, NoVerdictYet
  <1>5. CASE AskManifest
    <2>1. /\ Observe /\ stage = "demo" /\ stage' = "describe"
          /\ stage' # "done" /\ stage # "done" /\ known' = Remembered
          /\ found' = IF known' # None /\ known'.region = AtHand THEN known'.dates ELSE {}
          /\ UNCHANGED <<service, entries, verdict, demoVars>>
      BY <1>5, Zenon DEF AskManifest
    <2>2. AtHand' = AtHand
      BY <2>1 DEF AtHand
    <2>3. /\ known' \in Manifest \cup {None}
          /\ known # None => known' = known
          /\ known' # None =>
               \A d \in known'.dates : [region |-> known'.region, date |-> d] \in could'
      BY <2>1, RememberedSeen
    <2>4. intact' \in BOOLEAN /\ (intact' => intact)
      BY <2>1, Observed
    <2>5. found' \subseteq Dates
      BY <2>1, <2>3 DEF Manifest
    <2>6. ReportTypeOK'
      BY <2>1, <2>3, <2>4, <2>5, Zenon DEF ReportTypeOK
    <2>7. EntriesInv'
      BY <2>1, <2>3, <2>4, Zenon DEF EntriesInv
    <2>8. \A d \in found' : Accounted(AtHand, d)'
      BY <2>1, <2>2, <2>3 DEF Accounted
    <2>9. KnownInv'
      BY <2>2, <2>3, <2>8 DEF KnownInv
    <2>10. ListedServed'
      BY <2>1, <1>2 DEF ListedServed
    <2> QED
      BY <2>1, <2>6, <2>7, <2>9, <2>10, NoVerdictYet
  <1>6. CASE Describe
    <2> DEFINE entry == [region |-> AtHand, dates |-> found,
                 provenance |-> IF found = {} THEN None ELSE Provenance(AtHand, known')]
    <2>1. /\ Observe /\ stage = "describe" /\ stage' \in {"sent", "live"}
          /\ stage' # "done" /\ stage # "done" /\ known' = Remembered
          /\ entries' = Append(entries, entry) /\ found' = {}
          /\ stage' = "live" => Len(entries') # Len(Order)
          /\ UNCHANGED <<service, verdict, demoVars>>
      BY <1>6, Zenon DEF Describe
    <2>2. AtHand \in Regions
      BY <2>1, AtHandIsRegion
    <2>3. /\ known' \in Manifest \cup {None}
          /\ known # None => known' = known
          /\ Whole(manifest) => known' # None
          /\ known' # None =>
               \A d \in known'.dates : [region |-> known'.region, date |-> d] \in could'
      BY <2>1, RememberedSeen
    <2>4. /\ intact' \in BOOLEAN /\ (intact' => intact)
          /\ intact' => Whole(manifest)'
      BY <2>1, Observed
    <2>5. Whole(manifest)' => known' # None
      BY <2>1, <2>3 DEF Whole, demoVars
    <2>6. /\ entry.provenance \in Nat \cup {None}
          /\ entry.provenance # None => known' # None /\ entry.provenance = known'.build
          /\ (known' # None /\ found # {}) => entry.provenance # None
      BY <2>3, StoreAssumption DEF Provenance, Manifest
    <2>7. entry \in Entry /\ entry.region = AtHand /\ entry.dates = found
      BY <2>2, <2>6 DEF Entry, ReportTypeOK
    <2> HIDE DEF entry
    <2>8. /\ entries' \in Seq(Entry) /\ Len(entries') = Len(entries) + 1
          /\ \A i \in DOMAIN entries' :
               (i \in DOMAIN entries /\ entries'[i] = entries[i]) \/ entries'[i] = entry
      BY <2>1, <2>7 DEF ReportTypeOK
    <2>9. ReportTypeOK'
      <3>1. Len(entries') \in Nat /\ Len(Order) \in Nat /\ Len(entries) < Len(Order)
        BY <2>1, <2>8, OrderAssumption DEF ReportTypeOK
      <3>2. stage' = "live" => Len(entries') < Len(Order)
        BY <2>1, <2>8, <3>1
      <3> QED
        BY <2>1, <2>3, <2>4, <2>8, <3>2, Zenon DEF ReportTypeOK
    <2>10. EntriesInv'
      <3> SUFFICES ASSUME NEW i \in DOMAIN entries'
                   PROVE  /\ entries'[i].provenance # None =>
                               known' # None /\ entries'[i].provenance = known'.build
                          /\ (intact' /\ entries'[i].dates # {}) => entries'[i].provenance # None
        BY <2>1, Zenon DEF EntriesInv
      <3>1. CASE entries'[i] = entry
        BY <2>4, <2>5, <2>6, <2>7, <3>1, Zenon
      <3>2. CASE i \in DOMAIN entries /\ entries'[i] = entries[i]
        BY <2>1, <2>3, <2>4, <3>2, Zenon DEF EntriesInv
      <3> QED
        BY <2>8, <3>1, <3>2
    <2>11. KnownInv'
      BY <2>1, <2>3 DEF KnownInv
    <2>12. ListedServed'
      <3> SUFFICES ASSUME NEW i \in DOMAIN entries', NEW d \in entries'[i].dates,
                          NEW r, r = entries'[i].region
                   PROVE  Accounted(r, d)'
        BY DEF ListedServed, Accounted
      <3>1. Accounted(r, d)
        <4>1. CASE entries'[i] = entry
          BY <2>1, <2>7, <4>1 DEF KnownInv
        <4>2. CASE i \in DOMAIN entries /\ entries'[i] = entries[i]
          BY <4>2 DEF ListedServed
        <4> QED
          BY <2>8, <4>1, <4>2
      <3> QED
        BY <2>1, <3>1, <1>2
    <2> QED
      BY <2>1, <2>9, <2>10, <2>11, <2>12, NoVerdictYet
  <1>7. CASE Judge
    <2>1. /\ stage = "sent" /\ stage' = "done" /\ stage # "done" /\ Observe
          /\ UNCHANGED <<service, found, known, entries, could, intact>>
      BY <1>7, Zenon DEF Judge, Observe
    <2>2. /\ verdict' \in {"accepted", "rejected"}
          /\ (\A i \in DOMAIN entries : entries[i].dates # {} => entries[i].provenance # None)
               => verdict' = "accepted"
      BY <1>7, Zenon DEF Judge
    <2>3. ReportTypeOK'
      BY <2>1, <2>2, Zenon DEF ReportTypeOK
    <2>4. EntriesInv' /\ AcceptedWithManifest'
      BY <2>1, <2>2, Zenon DEF EntriesInv, AcceptedWithManifest
    <2>5. KnownInv'
      BY <2>1 DEF KnownInv
    <2>6. ListedServed'
      BY <2>1 DEF ListedServed, Accounted
    <2> QED
      BY <2>1, <2>3, <2>4, <2>5, <2>6
  <1>8. CASE ServiceChanges
    BY <1>8, OthersKeepReport DEF ServiceChanges
  <1>9. CASE DemoNext /\ UNCHANGED <<service, stage, found, known, entries, verdict>> /\ Observe
    BY <1>9, OthersKeepReport DEF ReportTypeOK
  <1>10. CASE UNCHANGED vars
    <2>1. UNCHANGED <<service, stage, found, known, entries, verdict, intact, could, AtHand>>
      BY <1>10 DEF vars, reportVars, AtHand
    <2>2. ReportTypeOK' /\ EntriesInv' /\ AcceptedWithManifest'
      BY <2>1, Zenon DEF ReportTypeOK, EntriesInv, AcceptedWithManifest
    <2>3. KnownInv' /\ ListedServed'
      BY <2>1 DEF KnownInv, ListedServed, Accounted
    <2> QED
      BY <2>1, <2>2, <2>3
  <1> QED
    BY <1>3, <1>4, <1>5, <1>6, <1>7, <1>8, <1>9, <1>10, Zenon DEF Next

-----------------------------------------------------------------------------
(***************************************************************************)
(* The theorems.                                                           *)
(***************************************************************************)
\* The inductive invariant of the report, with that of the cache it reads: the report
\* tells of the manifest it remembers, and of dates that could be served.
THEOREM ReportCorrect == Spec => []ReportInv
  <1>1. Init => DemoTypeOK /\ BuildInv /\ ReportInv
    BY DemoTypeInit, BuildInit, ReportInit DEF Init
  <1>2. (DemoTypeOK /\ BuildInv /\ ReportInv) /\ [Next]_vars
          => (DemoTypeOK /\ BuildInv /\ ReportInv)'
    BY BuilderMoves, DemoTypeStep, BuildStep, ReportStep
  <1> QED
    BY <1>1, <1>2, PTL DEF Spec

\* The guard takes every report that was built while the manifest could be read.
THEOREM ManifestSuffices == Spec => []AcceptedWithManifest
  <1>1. ReportInv => AcceptedWithManifest
    BY DEF ReportInv
  <1> QED
    BY <1>1, ReportCorrect, PTL

\* Every date in the report could be served while it was built, or was in doubt, or is
\* one of the first days of a store.
THEOREM ListedCouldBeServed == Spec => []ListedServed
  <1>1. ReportInv => ListedServed
    BY DEF ReportInv
  <1> QED
    BY <1>1, ReportCorrect, PTL

\* All entries of a report tell of one manifest, whatever builds replace it meanwhile.
THEOREM OneManifestTold == Spec => []OneManifest
  <1>1. ReportInv => OneManifest
    <2> SUFFICES ASSUME ReportInv, NEW i \in DOMAIN entries, NEW j \in DOMAIN entries,
                        {entries[i].provenance, entries[j].provenance} \subseteq Nat
                 PROVE  entries[i].provenance = entries[j].provenance
      BY DEF OneManifest
    <2>1. entries[i].provenance # None /\ entries[j].provenance # None
      BY StoreAssumption
    <2> QED
      BY <2>1 DEF ReportInv, EntriesInv
  <1> QED
    BY <1>1, ReportCorrect, PTL
=============================================================================
