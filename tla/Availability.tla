----------------------------- MODULE Availability -----------------------------
(***************************************************************************)
(* The capability report of GET /availability: built region by region from *)
(* the model service and the manifest of the demo cache, both of which may *)
(* change meanwhile, and judged as a whole by the guard of the explorer's  *)
(* client.                                                                 *)
(***************************************************************************)
EXTENDS DemoCache, Sequences

CONSTANT Order  \* REGION_IDS: the regions in the order of the report

ASSUME OrderAssumption ==
  /\ Order \in Seq(Regions) /\ Order # <<>>
  /\ \A r \in Regions : \E i \in DOMAIN Order : Order[i] = r

VARIABLES
  service,  \* the region whose dates the model service lists, or None if it lists none
  stage,    \* where the handler is
  found,    \* the dates found for the region at hand
  known,    \* the manifest the request's DemoCache remembers, or None
  entries,  \* the report so far: sequence of [region, dates, provenance]
  verdict,  \* what the guard said of the last report: "none", "accepted", "rejected"
  intact,   \* history: the manifest could be read ever since the report was begun
  could     \* history: the [region, date] pairs that could be served since then, or were in doubt

reportVars == <<service, stage, found, known, entries, verdict, intact, could>>
vars == <<reportVars, demoVars>>

-----------------------------------------------------------------------------
\* What a request for a map could be answered with now.
Servable == {p \in [region : Regions, date : Dates] :
               \/ service = p.region /\ Predicts(p.region, p.date)
               \/ Readable(p.region, p.date)}

\* What an unfinished build has left in doubt.
Unsettled == [region : dirty, date : Dates]

\* From the report's beginning to its verdict.
Observe ==
  IF stage' = "done" THEN UNCHANGED <<intact, could>>
  ELSE /\ intact' = ((stage = "done" \/ intact) /\ Whole(manifest)')
       /\ could' = (IF stage = "done" THEN {} ELSE could) \cup Servable' \cup Unsettled'

ServiceChanges ==
  /\ service' \in (Regions \cup {None}) \ {service}
  /\ UNCHANGED <<stage, found, known, entries, verdict, demoVars>>
  /\ Observe

\* Mutant: the region the service names is not compared.
LiveDatesOfAny(r) == IF service = None THEN {} ELSE Store[service]
\* InferenceClient.available_dates.
LiveDates(r) == IF service = r THEN Store[r] ELSE {}

\* Mutant: the manifest is read anew each time.
RememberedNever == IF Whole(manifest) THEN manifest ELSE None
\* DemoCache.manifest: read until it can be read, then remembered.
Remembered ==
  IF known # None THEN known ELSE IF Whole(manifest) THEN manifest ELSE None

\* Mutant: provenance only from a manifest of the same region.
ProvenanceOfRegion(r, m) == IF m = None \/ m.region # r THEN None ELSE m.build
\* Grid and checkpoint of an entry that has dates, whatever region m is of.
Provenance(r, m) == IF m = None THEN None ELSE m.build

AtHand == Order[Len(entries) + 1]

Begin ==
  /\ stage = "done"
  /\ stage' = "live" /\ entries' = <<>> /\ known' = None /\ verdict' = "none"
  /\ UNCHANGED <<service, found, demoVars>>
  /\ Observe

AskService ==
  /\ stage = "live"
  /\ found' = LiveDates(AtHand)
  /\ stage' = IF found' = {} THEN "demo" ELSE "describe"
  /\ UNCHANGED <<service, known, entries, verdict, demoVars>>
  /\ Observe

AskManifest ==
  /\ stage = "demo"
  /\ known' = Remembered
  /\ found' = IF known' # None /\ known'.region = AtHand THEN known'.dates ELSE {}
  /\ stage' = "describe"
  /\ UNCHANGED <<service, entries, verdict, demoVars>>
  /\ Observe

\* _region_entry.
Describe ==
  /\ stage = "describe"
  /\ known' = Remembered
  /\ entries' = Append(entries,
       [region |-> AtHand, dates |-> found,
        provenance |-> IF found = {} THEN None ELSE Provenance(AtHand, known')])
  /\ found' = {}
  /\ stage' = IF Len(entries') = Len(Order) THEN "sent" ELSE "live"
  /\ UNCHANGED <<service, verdict, demoVars>>
  /\ Observe

\* expectAvailability: one entry with dates and no provenance spoils the report.
Judge ==
  /\ stage = "sent"
  /\ verdict' = IF \A i \in DOMAIN entries :
                     entries[i].dates # {} => entries[i].provenance # None
                THEN "accepted" ELSE "rejected"
  /\ stage' = "done"
  /\ UNCHANGED <<service, found, known, entries, demoVars>>
  /\ Observe

-----------------------------------------------------------------------------
Init ==
  /\ DemoInit
  /\ service \in Regions \cup {None}
  /\ stage = "done" /\ found = {} /\ known = None /\ entries = <<>> /\ verdict = "none"
  /\ intact = FALSE /\ could = {}

Next ==
  \/ Begin \/ AskService \/ AskManifest \/ Describe \/ Judge
  \/ ServiceChanges
  \/ DemoNext /\ UNCHANGED <<service, stage, found, known, entries, verdict>> /\ Observe

Spec == Init /\ [][Next]_vars

-----------------------------------------------------------------------------
\* A date that could be served at some moment since the report was begun, or was in
\* doubt; or one of the first days of a store, which the service lists and refuses.
Accounted(r, d) ==
  \/ [region |-> r, date |-> d] \in could
  \/ d \in Store[r] /\ Index(r, d) + 1 < Window

\* The explorer takes the report whenever the manifest could be read all along, though
\* it tells of one region and the service may list dates of another: only a build
\* that is writing it, or a cache that was never built, costs the explorer the
\* regions the model service has.
AcceptedWithManifest == (verdict # "none" /\ intact) => verdict = "accepted"

\* Every date in the report could be served at some moment while it was built, the
\* service coming and going and the builder writing; but for the first days of a
\* store, which the service lists and refuses, and regions whose build was unfinished.
ListedServed ==
  \A i \in DOMAIN entries : \A d \in entries[i].dates : Accounted(entries[i].region, d)

\* All entries tell of one checkpoint and grid, though the builder may replace the
\* manifest between two regions ("checkpoint identity and grid shape can never
\* disagree").
OneManifest ==
  \A i, j \in DOMAIN entries :
    {entries[i].provenance, entries[j].provenance} \subseteq Nat =>
      entries[i].provenance = entries[j].provenance

Entry == [region : Regions, dates : SUBSET Dates, provenance : Nat \cup {None}]
ReportTypeOK ==
  /\ service \in Regions \cup {None}
  /\ stage \in {"done", "live", "demo", "describe", "sent"}
  /\ found \subseteq Dates /\ known \in Manifest \cup {None}
  /\ entries \in Seq(Entry)
  /\ stage \in {"live", "demo", "describe"} => Len(entries) < Len(Order)
  /\ verdict \in {"none", "accepted", "rejected"} /\ intact \in BOOLEAN

\* The provenance in the entries is that of the manifest remembered; and while the
\* manifest can be read, no entry with dates lacks it.
EntriesInv ==
  \A i \in DOMAIN entries :
    /\ entries[i].provenance # None => known # None /\ entries[i].provenance = known.build
    /\ (stage # "done" /\ intact /\ entries[i].dates # {}) => entries[i].provenance # None

\* The dates of the manifest remembered, and those found so far, are accounted for.
KnownInv ==
  /\ (stage # "done" /\ known # None) =>
       \A d \in known.dates : [region |-> known.region, date |-> d] \in could
  /\ stage = "describe" => \A d \in found : Accounted(AtHand, d)

\* What the three properties rest on.
ReportInv ==
  /\ ReportTypeOK /\ EntriesInv /\ KnownInv
  /\ AcceptedWithManifest /\ ListedServed
  /\ stage # "done" => verdict = "none"
=============================================================================
