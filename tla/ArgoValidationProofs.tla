-------------------------- MODULE ArgoValidationProofs --------------------------
(***************************************************************************)
(* Proofs about the independent validation, for every time axis, temporal  *)
(* window and validation fraction, and whatever profiles the server has.   *)
(***************************************************************************)
EXTENDS ArgoValidation, FiniteSetTheorems, FunctionTheorems, TLAPS

-----------------------------------------------------------------------------
(***************************************************************************)
(* The elements of a finite set of numbers are counted through: there is   *)
(* one with k others below it, for every k.  So it has a least and a       *)
(* greatest element.                                                       *)
(***************************************************************************)
Below(S, d) == {e \in S : e < d}

LEMMA BelowGrows ==
  ASSUME NEW S \in SUBSET Nat, IsFiniteSet(S), NEW d \in S, NEW e \in Nat, d < e
  PROVE  /\ Cardinality(Below(S, d)) \in Nat /\ Cardinality(Below(S, e)) \in Nat
         /\ Cardinality(Below(S, d)) < Cardinality(Below(S, e))
  <1>1. Below(S, d) \subseteq S /\ Below(S, e) \subseteq S /\ d \notin Below(S, d)
    BY DEF Below
  <1>2. Below(S, d) \cup {d} \subseteq Below(S, e)
    <2>1. \A x \in S : x < d => x < e
      OBVIOUS
    <2> QED
      BY <2>1 DEF Below
  <1>3. IsFiniteSet(Below(S, d)) /\ IsFiniteSet(Below(S, e))
    BY <1>1, FS_Subset
  <1>4. Cardinality(Below(S, d) \cup {d}) = Cardinality(Below(S, d)) + 1
    BY <1>1, <1>3, FS_AddElement
  <1>5. Cardinality(Below(S, d) \cup {d}) <= Cardinality(Below(S, e))
    BY <1>2, <1>3, FS_Subset
  <1>6. Cardinality(Below(S, d)) \in Nat /\ Cardinality(Below(S, e)) \in Nat
    BY <1>3, FS_CardinalityType
  <1> QED
    BY <1>4, <1>5, <1>6

LEMMA BelowBounded ==
  ASSUME NEW S \in SUBSET Nat, IsFiniteSet(S), NEW d \in S
  PROVE  Cardinality(S) \in Nat /\ Cardinality(Below(S, d)) \in 0 .. Cardinality(S) - 1
  <1>1. Below(S, d) \cup {d} \subseteq S /\ d \notin Below(S, d) /\ Below(S, d) \subseteq S
    BY DEF Below
  <1>2. IsFiniteSet(Below(S, d))
    BY <1>1, FS_Subset
  <1>3. Cardinality(Below(S, d) \cup {d}) = Cardinality(Below(S, d)) + 1
    BY <1>1, <1>2, FS_AddElement
  <1>4. Cardinality(Below(S, d) \cup {d}) <= Cardinality(S)
    BY <1>1, FS_Subset
  <1>5. Cardinality(Below(S, d)) \in Nat /\ Cardinality(S) \in Nat
    BY <1>2, FS_CardinalityType
  <1> QED
    BY <1>3, <1>4, <1>5

LEMMA CountedThrough ==
  ASSUME NEW S \in SUBSET Nat, IsFiniteSet(S), NEW k \in 0 .. Cardinality(S) - 1
  PROVE  \E d \in S : Cardinality(Below(S, d)) = k
  <1> DEFINE n == Cardinality(S)
             f == [d \in S |-> Cardinality(Below(S, d))]
  <1>1. n \in Nat
    BY FS_CardinalityType
  <1>2. IsFiniteSet(0 .. n - 1) /\ Cardinality(0 .. n - 1) = n
    BY <1>1, FS_Interval
  <1>3. f \in Injection(S, 0 .. n - 1)
    <2>1. f \in [S -> 0 .. n - 1]
      BY BelowBounded
    <2>2. ASSUME NEW d \in S, NEW e \in S, f[d] = f[e] PROVE d = e
      <3>1. CASE d < e
        BY <2>2, <3>1, BelowGrows
      <3>2. CASE e < d
        BY <2>2, <3>2, BelowGrows
      <3> QED
        BY <3>1, <3>2
    <2> HIDE DEF f
    <2> QED
      BY <2>1, <2>2, Fun_IsInj
  <1>4. f \in Surjection(S, 0 .. n - 1)
    <2> HIDE DEF f
    <2> QED
      BY <1>2, <1>3, FS_Injection
  <1>5. \A j \in 0 .. n - 1 : \E d \in S : f[d] = j
    <2> HIDE DEF f, n
    <2> QED
      BY <1>4, Zenon DEF Surjection
  <1> QED
    BY <1>5

LEMMA MinMaxExist ==
  ASSUME NEW S \in SUBSET Nat, IsFiniteSet(S), S # {}
  PROVE  /\ Min(S) \in S /\ \A x \in S : Min(S) <= x
         /\ Max(S) \in S /\ \A x \in S : x <= Max(S)
  <1> DEFINE n == Cardinality(S)
  <1>1. n \in Nat /\ n # 0
    BY FS_CardinalityType, FS_EmptySet
  <1>2. PICK a \in S : Cardinality(Below(S, a)) = 0
    BY <1>1, CountedThrough
  <1>3. PICK b \in S : Cardinality(Below(S, b)) = n - 1
    BY <1>1, CountedThrough
  <1>4. \A x \in S : Cardinality(Below(S, x)) \in 0 .. n - 1
    BY BelowBounded
  <1> HIDE DEF n
  <1>5. \A x \in S : a <= x
    <2> SUFFICES ASSUME NEW x \in S, x < a PROVE FALSE
      OBVIOUS
    <2> QED
      BY <1>2, BelowGrows
  <1>6. \A x \in S : x <= b
    <2> SUFFICES ASSUME NEW x \in S, b < x PROVE FALSE
      OBVIOUS
    <2>1. Cardinality(Below(S, b)) < Cardinality(Below(S, x))
      BY BelowGrows
    <2>2. Cardinality(Below(S, x)) \in 0 .. n - 1
      BY <1>4
    <2> QED
      BY <1>1, <1>3, <2>1, <2>2
  <1> QED
    BY <1>5, <1>6 DEF Min, Max

-----------------------------------------------------------------------------
(***************************************************************************)
(* The split.                                                              *)
(***************************************************************************)
LEMMA Quotient ==
  ASSUME NEW a \in Nat, NEW n \in Nat, NEW b \in Nat \ {0}, b <= a, a <= n * b
  PROVE  a \div b \in 1 .. n
  <1> DEFINE q == a \div b
  <1>1. q \in Nat /\ b * q <= a /\ a < b * q + b
    OBVIOUS
  <1> HIDE DEF q
  <1>2. q # 0
    BY <1>1
  <1>3. ~(n < q)
    <2> SUFFICES ASSUME n + 1 <= q PROVE FALSE
      BY <1>1
    <2>1. b * (n + 1) <= b * q
      BY <1>1
    <2>2. b * (n + 1) = n * b + b
      OBVIOUS
    <2> QED
      BY <1>1, <2>1, <2>2
  <1>4. q \in 1 .. n
    BY <1>1, <1>2, <1>3
  <1> QED
    BY <1>4 DEF q

\* At least one sample is held out, and never more than there are, if there are any.
LEMMA HeldOutSamples ==
  ASSUME NEW n \in Nat \ {0}
  PROVE  NVal(n) \in Nat /\ 1 <= NVal(n) /\ NVal(n) <= n
         /\ (NSamples(n) >= 1 => NVal(n) <= NSamples(n))
         /\ (NSamples(n) < 1 => NVal(n) = 1)
  <1> DEFINE s == NSamples(n)
  <1>1. T \in Nat \ {0} /\ Den \in Nat \ {0} /\ Num \in 1 .. Den
    BY ArgoAssumption
  <1>2. s \in Int /\ s <= n
    BY <1>1 DEF NSamples
  <1> HIDE DEF s
  <1>3. CASE s < 1
    <2>1. s * Num <= 0
      BY <1>1, <1>2, <1>3
    <2>2. s * Num < Den
      BY <1>1, <1>2, <2>1
    <2> QED
      BY <1>2, <1>3, <2>2 DEF NVal, s
  <1>4. CASE s >= 1 /\ s * Num < Den
    BY <1>2, <1>4 DEF NVal, s
  <1>5. CASE s >= 1 /\ ~(s * Num < Den)
    <2>1. s \in Nat /\ s * Num \in Nat /\ Den <= s * Num /\ s * Num <= s * Den
      BY <1>1, <1>2, <1>5
    <2>2. (s * Num) \div Den \in 1 .. s
      BY <1>1, <2>1, Quotient
    <2>3. NVal(n) = (s * Num) \div Den
      BY <1>5 DEF NVal, s
    <2> QED
      BY <1>2, <1>5, <2>2, <2>3 DEF s
  <1> QED
    BY <1>2, <1>3, <1>4, <1>5

\* The first held-out position is one of the axis.
LEMMA FirstPosition ==
  ASSUME Cardinality(axis) \in Nat \ {0}
  PROVE  /\ FirstValPosition \in 0 .. Cardinality(axis) - 1
         /\ FirstValPosition = Cardinality(axis) - NVal(Cardinality(axis))
  <1> DEFINE n == Cardinality(axis)
  <1>1. NVal(n) \in Nat /\ 1 <= NVal(n) /\ NVal(n) <= n
    BY HeldOutSamples
  <1>2. T \in Nat
    BY ArgoAssumption
  <1>3. FirstValPosition = n - NVal(n)
    BY <1>1, <1>2 DEF FirstValPosition, NSamples
  <1> QED
    BY <1>1, <1>3

\* The days of the axis in their order.
LEMMA DaysInOrder ==
  ASSUME axis \subseteq Nat, IsFiniteSet(axis),
         NEW k \in 0 .. Cardinality(axis) - 1
  PROVE  /\ DayAt(k) \in axis /\ Position(DayAt(k)) = k
         /\ \A day \in axis : Position(day) < k => day < DayAt(k)
  <1>1. \E day \in axis : Position(day) = k
    BY CountedThrough DEF Position, Below
  <1>2. DayAt(k) \in axis /\ Position(DayAt(k)) = k
    BY <1>1 DEF DayAt
  <1>3. ASSUME NEW day \in axis, Position(day) < k, ~(day < DayAt(k))
        PROVE  FALSE
    <2> DEFINE v == DayAt(k)
    <2>0. v \in Nat /\ day \in Nat /\ ~(day < v)
      BY <1>2, <1>3
    <2> HIDE DEF v
    <2>1. v < day \/ v = day
      BY <2>0
    <2> USE DEF v
    <2>2. CASE DayAt(k) < day
      <3>1. Position(DayAt(k)) < Position(day) /\ Position(day) \in Nat
        BY <1>2, <2>2, BelowGrows DEF Position, Below
      <3> QED
        BY <1>2, <1>3, <3>1
    <2>3. CASE DayAt(k) = day
      BY <1>2, <1>3, <2>3
    <2> QED
      BY <2>1, <2>2, <2>3
  <1> QED
    BY <1>2, <1>3

\* Every day the training has as a target lies before the first held-out one.
LEMMA TargetsBefore ==
  ASSUME axis \subseteq Nat, IsFiniteSet(axis), axis # {}, NEW day \in TrainTargets
  PROVE  /\ DayAt(FirstValPosition) \in axis /\ day \in axis
         /\ day < DayAt(FirstValPosition)
  <1> DEFINE n == Cardinality(axis)
             v == FirstValPosition
  <1>1. n \in Nat \ {0}
    BY FS_CardinalityType, FS_EmptySet
  <1>2. v \in 0 .. n - 1
    BY <1>1, FirstPosition
  <1>3. NVal(n) \in Nat /\ T \in Nat \ {0} /\ NSamples(n) \in Int
    BY <1>1, HeldOutSamples, ArgoAssumption DEF NSamples
  <1>4. PICK i \in 0 .. NSamples(n) - NVal(n) - 1 : day = DayAt(i + T - 1)
    BY DEF TrainTargets, Target
  <1>5. v = NSamples(n) - NVal(n) + T - 1
    BY DEF FirstValPosition
  <1> HIDE DEF n, v
  <1>6. i + T - 1 \in 0 .. n - 1 /\ i + T - 1 < v
    BY <1>1, <1>2, <1>3, <1>4, <1>5
  <1>7. day \in axis /\ Position(day) = i + T - 1
    BY <1>4, <1>6, DaysInOrder DEF n
  <1>8. DayAt(v) \in axis /\ day < DayAt(v)
    BY <1>2, <1>6, <1>7, DaysInOrder DEF n
  <1> QED
    BY <1>7, <1>8 DEF v

\* A date in or after the held-out days is not compared with a day before them.
LEMMA NearestIsHeldOut ==
  ASSUME axis \subseteq Nat, NEW v \in axis, NEW date \in Nat, v <= date,
         NEW e \in DayOf(date)
  PROVE  ~(e < v)
  <1> SUFFICES ASSUME e < v PROVE FALSE
    OBVIOUS
  <1>1. e \in axis /\ e \in Nat /\ v \in Nat
    BY DEF DayOf
  <1>2. Gap(v, date) = date - v /\ Gap(e, date) = date - e
    BY <1>1 DEF Gap
  <1>3. Gap(e, date) < Gap(v, date) \/ Gap(e, date) = Gap(v, date)
    BY <1>1 DEF DayOf
  <1> QED
    BY <1>1, <1>2, <1>3

\* Compared with on the date before a day of the axis, an earlier day is the one next to it.
LEMMA NearestIsLast ==
  ASSUME axis \subseteq Nat, NEW v \in axis, NEW date \in Nat, date = v - 1,
         NEW e \in DayOf(date), e < v, NEW day \in axis
  PROVE  day <= e \/ v <= day
  <1> SUFFICES ASSUME e < day, day < v PROVE FALSE
    <2>1. e \in Nat /\ v \in Nat /\ day \in Nat
      BY DEF DayOf
    <2> QED
      BY <2>1
  <1>1. e \in Nat /\ v \in Nat /\ day \in Nat /\ e # day
    BY DEF DayOf
  <1>2. Gap(day, date) = date - day /\ Gap(e, date) = date - e
    BY <1>1 DEF Gap
  <1>3. Gap(e, date) < Gap(day, date) \/ Gap(e, date) = Gap(day, date)
    BY <1>1 DEF DayOf
  <1> QED
    BY <1>1, <1>2, <1>3

\* What was loaded has a date of its own, at most a day before the index's.
LEMMA DateNearIndex ==
  ASSUME NEW p \in Profiles, p.day \in Nat, Usable(p), Agrees(p)
  PROVE  EntryDate(p) \in Nat /\ p.day <= EntryDate(p) + 1
  <1>1. EntryDate(p) \in Nat
    BY ArgoAssumption DEF Usable, EntryDate
  <1>2. Gap(EntryDate(p), p.day) <= 1
    BY DEF Agrees
  <1> HIDE DEF EntryDate
  <1> QED
    BY <1>1, <1>2 DEF Gap

-----------------------------------------------------------------------------
(***************************************************************************)
(* Types.                                                                  *)
(***************************************************************************)
\* The axis is a finite set of numbers, for as long as the store is there.
LEMMA AxisType ==
  ASSUME ArgoTypeOK
  PROVE  axis \subseteq Nat /\ IsFiniteSet(axis) /\ axis # {}
  BY ArgoAssumption, FS_Subset DEF ArgoTypeOK

\* Nothing changes the axis, so nothing changes which days are held out.
LEMMA AxisStays ==
  ASSUME [Next]_vars
  PROVE  axis' = axis
  BY Zenon DEF Next, vars, Begin, CloseIndex, SelectRows, OpenFile, FetchFails, CloseFile,
     AllFetched, LoadFiles, WriteProfiles, BreakOff, Evaluate

LEMMA SelectedRows ==
  ASSUME NEW rows, rows \subseteq Profiles
  PROVE  /\ Selected(rows) \subseteq Profiles
         /\ \A p \in Selected(rows) : p.day # None /\ InWindow(p.day)
  BY DEF Selected

\* The counts of a report add up.
LEMMA CountsAdd ==
  ASSUME NEW ps \in SUBSET Profiles
  PROVE  Report(ps).n_matched + Report(ps).n_unmatched = Cardinality(ps)
  <1> DEFINE m == {p \in ps : Verdict(p) = "matched"}
  <1>1. IsFiniteSet(ps) /\ m \subseteq ps
    BY ArgoAssumption, FS_Subset
  <1>2. Report(ps).n_matched = Cardinality(m) /\ Report(ps).n_unmatched = Cardinality(ps \ m)
    BY DEF Report
  <1> HIDE DEF m
  <1>3. ps \cap m = m /\ IsFiniteSet(m)
    BY <1>1, FS_Subset
  <1>4. Cardinality(ps \ m) = Cardinality(ps) - Cardinality(m)
    BY <1>1, <1>3, FS_Difference
  <1>5. Cardinality(m) \in Nat /\ Cardinality(ps) \in Nat
    BY <1>1, <1>3, FS_CardinalityType
  <1> QED
    BY <1>2, <1>4, <1>5

LEMMA ArgoInit == Init => ValidationInv
  <1> SUFFICES ASSUME Init PROVE ValidationInv
    OBVIOUS
  <1> USE ArgoAssumption DEF Init
  <1>1. \A p \in Profiles : cached[p] = None
    OBVIOUS
  <1>2. ArgoTypeOK
    <2>1. axis \subseteq Days /\ axis # {} /\ runs \in 0 .. MaxRuns
      OBVIOUS
    <2>2. cached \in [Profiles -> {None, Torn, "whole"}]
      OBVIOUS
    <2>3. job \in [download : BOOLEAN, selected : SUBSET Profiles]
      BY Zenon
    <2> QED
      BY <1>1, <2>1, <2>2, <2>3, Zenon DEF ArgoTypeOK
  <1>3. SelectionInv
    BY DEF SelectionInv
  <1>4. FilesInv
    BY <1>1 DEF FilesInv
  <1> QED
    BY <1>2, <1>3, <1>4 DEF ValidationInv

\* With the axis stay the held-out days and what a report says.
LEMMA WindowStays ==
  ASSUME axis' = axis
  PROVE  /\ \A day : InWindow(day)' <=> InWindow(day)
         /\ Selected(index)' = Selected(index')
         /\ HeldOutProfiles' = HeldOutProfiles
         /\ Report(report.profiles)' = Report(report'.profiles)
  <1>1. \A day : Position(day)' = Position(day)
    BY DEF Position
  <1>2. \A day : InWindow(day)' <=> InWindow(day)
    BY Zenon DEF InWindow, DayAt, FirstValPosition, Position, NSamples, NVal
  <1>3. Selected(index)' = Selected(index')
    BY <1>2 DEF Selected
  <1>4. HeldOutProfiles' = HeldOutProfiles
    BY <1>2 DEF HeldOutProfiles
  <1>5. \A p : Verdict(p)' = Verdict(p)
    BY <1>1 DEF Verdict, DayOf
  <1>6. Report(report.profiles)' = Report(report'.profiles)
    BY <1>5 DEF Report
  <1> QED
    BY <1>2, <1>3, <1>4, <1>6

\* Steps that leave files and report alone need only keep the types of the rest.
LEMMA TypeFrame ==
  ASSUME ArgoTypeOK, UNCHANGED <<axis, cached, report>>,
         index' = None \/ index' \subseteq Profiles,
         stage' \in {"idle", "index", "select", "fetch", "file", "load", "write"},
         job' \in [download : BOOLEAN, selected : SUBSET Profiles],
         store' \in {None, Torn} \cup SUBSET Profiles,
         code' \in {None, 0, 1, 2}, runs' \in 0 .. MaxRuns,
         cut' \subseteq Profiles, indexCut' \in BOOLEAN
  PROVE  ArgoTypeOK'
  <1>1. \A day : InWindow(day)' <=> InWindow(day)
    BY WindowStays
  <1>2. \A p \in Profiles : cached'[p] # None => p.day # None /\ InWindow(p.day)'
    BY <1>1 DEF ArgoTypeOK
  <1> QED
    BY <1>2, Zenon DEF ArgoTypeOK

LEMMA ArgoTypeStep ==
  ASSUME ArgoTypeOK, ValidationInv, [Next]_vars
  PROVE  ArgoTypeOK'
  <1> USE ArgoAssumption
  <1>0. /\ index = None \/ index \subseteq Profiles
        /\ stage \in {"idle", "index", "select", "fetch", "file", "load", "write"}
        /\ job \in [download : BOOLEAN, selected : SUBSET Profiles]
        /\ store \in {None, Torn} \cup SUBSET Profiles
        /\ code \in {None, 0, 1, 2} /\ runs \in 0 .. MaxRuns
        /\ cut \subseteq Profiles /\ indexCut \in BOOLEAN
    BY Zenon DEF ArgoTypeOK
  <1>1. ASSUME NEW download \in BOOLEAN, Begin(download) PROVE ArgoTypeOK'
    <2>1. runs' \in 0 .. MaxRuns
      BY <1>0, <1>1 DEF Begin
    <2>2. job' \in [download : BOOLEAN, selected : SUBSET Profiles]
      BY <1>1, Zenon DEF Begin
    <2>3. index' = None \/ index' \subseteq Profiles
      BY <1>0, <1>1 DEF Begin
    <2>4. /\ stage' \in {"idle", "index", "select"} /\ code' \in {None, 0, 1, 2}
          /\ UNCHANGED <<axis, cached, store, report, cut, indexCut>>
      BY <1>0, <1>1, Zenon DEF Begin, Exit
    <2> QED
      BY <1>0, <2>1, <2>2, <2>3, <2>4, TypeFrame, Zenon
  <1>2. CASE CloseIndex
    BY <1>0, <1>2, TypeFrame, Zenon DEF CloseIndex
  <1>3. CASE SelectRows
    <2>1. Selected(index) \subseteq Profiles
      BY <1>3, SelectedRows DEF SelectRows, ValidationInv, SelectionInv
    <2>2. job' \in [download : BOOLEAN, selected : SUBSET Profiles]
      <3>1. job' = [job EXCEPT !.selected = Selected(index)]
        BY <1>3 DEF SelectRows
      <3> QED
        BY <1>0, <2>1, <3>1
    <2>3. /\ stage' \in {"idle", "fetch", "load"} /\ code' \in {None, 0, 1, 2}
          /\ UNCHANGED <<axis, index, cached, store, report, runs, cut, indexCut>>
      BY <1>0, <1>3, Zenon DEF SelectRows, Exit
    <2> QED
      BY <1>0, <2>2, <2>3, TypeFrame, Zenon
  <1>4. ASSUME NEW p \in Profiles, OpenFile(p) \/ CloseFile(p) PROVE ArgoTypeOK'
    <2>1. PICK v \in {Torn, "whole"} : cached' = [cached EXCEPT ![p] = v]
      BY <1>4 DEF OpenFile, CloseFile
    <2>2. /\ stage' \in {"file", "fetch"}
          /\ UNCHANGED <<axis, index, job, store, report, code, runs, cut, indexCut>>
      BY <1>4, Zenon DEF OpenFile, CloseFile
    <2>3. \A day : InWindow(day)' <=> InWindow(day)
      BY <2>2, WindowStays
    <2>4. p.day # None /\ InWindow(p.day)
      <3>1. CASE OpenFile(p)
        <4>1. p \in Selected(index) /\ index \subseteq Profiles
          BY <3>1 DEF OpenFile, ToFetch, ValidationInv, SelectionInv
        <4> QED
          BY <4>1, SelectedRows
      <3>2. CASE CloseFile(p)
        BY <3>2 DEF CloseFile, ArgoTypeOK
      <3> QED
        BY <1>4, <3>1, <3>2
    <2>5. cached' \in [Profiles -> {None, Torn, "whole"}]
      BY <2>1 DEF ArgoTypeOK
    <2>6. \A q \in Profiles : cached'[q] # None => q.day # None /\ InWindow(q.day)'
      BY <2>1, <2>3, <2>4 DEF ArgoTypeOK
    <2> QED
      BY <1>0, <2>2, <2>5, <2>6, Zenon DEF ArgoTypeOK
  <1>5. CASE FetchFails \/ AllFetched
    BY <1>0, <1>5, TypeFrame, Zenon DEF FetchFails, AllFetched, Exit
  <1>6. CASE LoadFiles
    <2>1. /\ stage' \in {"idle", "write"} /\ code' \in {None, 0, 1, 2} /\ store' \in {store, Torn}
          /\ UNCHANGED <<axis, index, cached, job, report, runs, cut, indexCut>>
      BY <1>0, <1>6, Zenon DEF LoadFiles, Exit
    <2>2. store' \in {None, Torn} \cup SUBSET Profiles
      BY <1>0, <2>1
    <2> QED
      BY <1>0, <2>1, <2>2, TypeFrame, Zenon
  <1>7. CASE WriteProfiles
    <2>1. store' \subseteq Profiles
      BY <1>0, <1>7 DEF WriteProfiles, Loaded
    <2> QED
      BY <1>0, <1>7, <2>1, TypeFrame, Zenon DEF WriteProfiles, Exit
  <1>8. CASE BreakOff
    <2>1. index' = None \/ index' \subseteq Profiles
      BY <1>0, <1>8 DEF BreakOff
    <2>2. cut' \subseteq Profiles
      BY <1>0, <1>8 DEF BreakOff
    <2>3. indexCut' \in BOOLEAN
      BY <1>0, <1>8, Zenon DEF BreakOff
    <2> QED
      BY <1>0, <1>8, <2>1, <2>2, <2>3, TypeFrame, Zenon DEF BreakOff
  <1>9. CASE Evaluate
    <2>1. /\ UNCHANGED <<axis, index, cached, stage, job, store, runs, cut, indexCut>>
          /\ code' \in {0, 1}
          /\ report' = report \/ (store \notin {None, Torn} /\ report' = Report(store))
      BY <1>9, Zenon DEF Evaluate
    <2>2. \A p \in Profiles : cached'[p] # None => p.day # None /\ InWindow(p.day)'
      BY <2>1, WindowStays DEF ArgoTypeOK
    <2>3. report' # None =>
            report'.n_matched + report'.n_unmatched = Cardinality(report'.profiles)
      <3>1. CASE report' = report
        BY <3>1 DEF ArgoTypeOK
      <3>2. CASE store \notin {None, Torn} /\ report' = Report(store)
        <4>1. store \in SUBSET Profiles
          BY <1>0, <3>2
        <4>2. Report(store).profiles = store
          BY DEF Report
        <4> QED
          BY <3>2, <4>1, <4>2, CountsAdd
      <3> QED
        BY <2>1, <3>1, <3>2
    <2> QED
      BY <1>0, <2>1, <2>2, <2>3, Zenon DEF ArgoTypeOK
  <1>10. CASE UNCHANGED vars
    BY <1>0, <1>10, TypeFrame, Zenon DEF vars
  <1> QED
    BY <1>1, <1>2, <1>3, <1>4, <1>5, <1>6, <1>7, <1>8, <1>9, <1>10, Zenon DEF Next

-----------------------------------------------------------------------------
(***************************************************************************)
(* What is selected, stored and reported.                                  *)
(***************************************************************************)
\* What is loaded of the rows selected is held out and usable.
LEMMA LoadedHeldOut ==
  ASSUME NEW rows, rows \subseteq Profiles
  PROVE  Loaded(Selected(rows)) \subseteq HeldOutProfiles
  BY SelectedRows DEF Loaded, HeldOutProfiles

LEMMA SelectionStep ==
  ASSUME ArgoTypeOK, ValidationInv, [Next]_vars
  PROVE  SelectionInv'
  <1> USE DEF SelectionInv
  <1>0. /\ HeldOutProfiles' = HeldOutProfiles /\ Selected(index)' = Selected(index')
        /\ Report(report.profiles)' = Report(report'.profiles)
        /\ SelectionInv /\ (index = None \/ index \subseteq Profiles)
    BY AxisStays, WindowStays DEF ValidationInv, ArgoTypeOK
  <1>1. ASSUME NEW download \in BOOLEAN, Begin(download) PROVE SelectionInv'
    <2>1. UNCHANGED <<store, report, indexCut>>
      BY <1>1 DEF Begin
    <2>2. stage' \notin {"fetch", "file", "load", "write"}
      BY <1>1, Zenon DEF Begin, Exit
    <2>3. /\ stage = "idle"
          /\ stage' \in {"select", "idle"} => index' = index
          /\ stage' = "select" => index # None
          /\ stage' \in {"select", "idle", "index"}
      BY <1>1, Zenon DEF Begin, Exit
    <2> QED
      BY <1>0, <2>1, <2>2, <2>3
  <1>2. CASE CloseIndex
    BY <1>0, <1>2 DEF CloseIndex
  <1>3. CASE SelectRows
    <2>1. /\ stage = "select" /\ stage' \in {"fetch", "load", "idle"}
          /\ UNCHANGED <<index, store, report, indexCut>>
      BY <1>3, Zenon DEF SelectRows, Exit
    <2>2. job'.selected = Selected(index)
      BY <1>3 DEF SelectRows, ArgoTypeOK
    <2> QED
      BY <1>0, <2>1, <2>2
  <1>4. CASE \E p \in Profiles : OpenFile(p) \/ CloseFile(p)
    <2>1. /\ stage \in {"fetch", "file"} /\ stage' \in {"fetch", "file"}
          /\ UNCHANGED <<index, job, store, report, indexCut>>
      BY <1>4, Zenon DEF OpenFile, CloseFile
    <2> QED
      BY <1>0, <2>1
  <1>5. CASE FetchFails \/ AllFetched
    <2>1. /\ stage = "fetch" /\ stage' \in {"idle", "load"}
          /\ UNCHANGED <<index, job, store, report, indexCut>>
      BY <1>5, Zenon DEF FetchFails, AllFetched, Exit
    <2> QED
      BY <1>0, <2>1
  <1>6. CASE LoadFiles
    <2>1. /\ stage = "load" /\ stage' \in {"idle", "write"} /\ store' \in {store, Torn}
          /\ UNCHANGED <<index, job, report, indexCut>>
      BY <1>6, Zenon DEF LoadFiles, Exit
    <2> QED
      BY <1>0, <2>1
  <1>7. CASE WriteProfiles
    <2>1. /\ stage = "write" /\ stage' = "idle" /\ store' = Loaded(Selected(index))
          /\ UNCHANGED <<index, job, report, indexCut>>
      BY <1>0, <1>7 DEF WriteProfiles, Exit
    <2>2. store' \subseteq HeldOutProfiles
      BY <1>0, <2>1, LoadedHeldOut
    <2> QED
      BY <1>0, <2>1, <2>2
  <1>8. CASE BreakOff
    <2>1. /\ stage # "idle" /\ stage' = "idle"
          /\ stage # "index" => index' = index
          /\ indexCut' = (indexCut \/ stage = "index")
          /\ UNCHANGED <<store, report>>
      BY <1>8, Zenon DEF BreakOff
    <2>2. ~indexCut' => index' \in {None, Profiles}
      BY <1>0, <2>1
    <2>3. stage' = "idle" /\ UNCHANGED <<store, report>>
      BY <2>1
    <2> QED
      BY <1>0, <2>2, <2>3
  <1>9. CASE Evaluate
    <2>1. /\ UNCHANGED <<index, stage, job, store, indexCut>>
          /\ report' = report \/ (store \notin {None, Torn} /\ report' = Report(store))
      BY <1>9, Zenon DEF Evaluate
    <2>2. Report(store).profiles = store
      BY DEF Report
    <2>3. report' # None =>
            report'.profiles \subseteq HeldOutProfiles /\ report' = Report(report'.profiles)
      BY <1>0, <2>1, <2>2
    <2> QED
      BY <1>0, <2>1, <2>3
  <1>10. CASE UNCHANGED vars
    BY <1>0, <1>10 DEF vars
  <1> QED
    BY <1>1, <1>2, <1>3, <1>4, <1>5, <1>6, <1>7, <1>8, <1>9, <1>10, Zenon DEF Next

-----------------------------------------------------------------------------
(***************************************************************************)
(* The cache of files.                                                     *)
(***************************************************************************)
LEMMA FilesStep ==
  ASSUME ArgoTypeOK, ValidationInv, [Next]_vars
  PROVE  FilesInv'
  <1> USE DEF FilesInv
  <1>0. FilesInv /\ None # Torn /\ "whole" \notin {None, Torn}
        /\ cached \in [Profiles -> {None, Torn, "whole"}] /\ cut \subseteq Profiles
    BY ArgoAssumption DEF ValidationInv, ArgoTypeOK
  \* Steps that leave the files alone and do not come to the loading.
  <1>1. ASSUME UNCHANGED <<cached, cut>>, stage # "file", stage' # "file",
               stage' \in {"load", "write"} => ~job'.download
        PROVE  FilesInv'
    BY <1>0, <1>1
  <1>2. CASE \E download \in BOOLEAN : Begin(download)
    <2>1. UNCHANGED <<cached, cut>> /\ stage = "idle" /\ stage' \in {"idle", "select", "index"}
      BY <1>2, Zenon DEF Begin, Exit
    <2> QED
      BY <1>1, <2>1
  <1>3. CASE CloseIndex
    BY <1>1, <1>3 DEF CloseIndex
  <1>4. CASE SelectRows
    <2>1. UNCHANGED <<cached, cut>> /\ stage = "select" /\ stage' \in {"fetch", "load", "idle"}
          /\ (stage' = "load" => ~job.download)
      BY <1>4, Zenon DEF SelectRows, Exit
    <2>2. job'.download = job.download
      BY <1>4 DEF SelectRows, ArgoTypeOK
    <2> QED
      BY <1>1, <2>1, <2>2
  <1>5. ASSUME NEW p \in Profiles, OpenFile(p) PROVE FilesInv'
    <2>1. /\ stage = "fetch" /\ stage' = "file" /\ cached[p] = None
          /\ cached' = [cached EXCEPT ![p] = Torn] /\ cut' = cut
      BY <1>5 DEF OpenFile, ToFetch
    <2> QED
      BY <1>0, <2>1
  <1>6. ASSUME NEW p \in Profiles, CloseFile(p) PROVE FilesInv'
    <2>1. /\ stage = "file" /\ stage' = "fetch" /\ cached[p] = Torn /\ p \notin cut
          /\ cached' = [cached EXCEPT ![p] = "whole"] /\ cut' = cut
      BY <1>6 DEF CloseFile
    <2> QED
      BY <1>0, <2>1
  <1>7. CASE FetchFails \/ WriteProfiles
    <2>1. UNCHANGED <<cached, cut>> /\ stage \in {"fetch", "write"} /\ stage' = "idle"
      BY <1>7, Zenon DEF FetchFails, WriteProfiles, Exit
    <2> QED
      BY <1>1, <2>1
  <1>8. CASE AllFetched \/ LoadFiles
    <2>1. /\ UNCHANGED <<cached, cut, job>>
          /\ \/ stage = "fetch" /\ ToFetch = {} /\ stage' = "load"
             \/ stage = "load" /\ stage' \in {"idle", "write"}
      BY <1>8, Zenon DEF AllFetched, LoadFiles, Exit
    <2>2. ToFetch' = ToFetch
      BY <2>1 DEF ToFetch
    <2> QED
      BY <1>0, <2>1, <2>2
  <1>9. CASE BreakOff
    <2>1. /\ stage' = "idle" /\ cached' = cached
          /\ cut' = cut \cup {p \in Profiles : stage = "file" /\ cached[p] = Torn}
      BY <1>9 DEF BreakOff
    <2>2. \A p \in Profiles : cached[p] = Torn => p \in cut'
      BY <1>0, <2>1
    <2>3. \A p \in cut' : cached[p] = Torn
      BY <1>0, <2>1
    <2> QED
      BY <2>1, <2>2, <2>3
  <1>10. CASE Evaluate \/ UNCHANGED vars
    <2>1. UNCHANGED <<cached, cut, job, stage>>
      BY <1>10, Zenon DEF Evaluate, vars
    <2>2. ToFetch' = ToFetch
      BY <2>1 DEF ToFetch
    <2> QED
      BY <1>0, <2>1, <2>2
  <1> QED
    BY <1>2, <1>3, <1>4, <1>5, <1>6, <1>7, <1>8, <1>9, <1>10, Zenon DEF Next

-----------------------------------------------------------------------------
(***************************************************************************)
(* The theorems.                                                           *)
(***************************************************************************)
\* The inductive invariant: every file, row, stored profile and report is of the held-out
\* days, whatever was broken off where.
THEOREM ValidationCorrect == Spec => []ValidationInv
  <1>1. ValidationInv /\ [Next]_vars => ValidationInv'
    BY ArgoTypeStep, SelectionStep, FilesStep DEF ValidationInv
  <1> QED
    BY <1>1, ArgoInit, PTL DEF Spec

\* Types; only files selected by some run are cached, and the counts of a report add up.
THEOREM ArgoTypeCorrect == Spec => []ArgoTypeOK
  <1>1. ValidationInv => ArgoTypeOK
    BY DEF ValidationInv
  <1> QED
    BY <1>1, ValidationCorrect, PTL

\* The only training target a profile is compared with is the last one, and only for
\* a profile indexed on the next day and dated before it by its file.
THEOREM OnlyTheLastTargetIsScored == Spec => []TrainedOnlyAtTheEdge
  <1>1. ArgoTypeOK /\ ValidationInv => TrainedOnlyAtTheEdge
    <2> SUFFICES ASSUME ArgoTypeOK, ValidationInv, report # None,
                        NEW p \in report.profiles, NEW e \in DayOf(EntryDate(p)) \cap TrainTargets
                 PROVE  /\ \A day \in TrainTargets : day <= e
                        /\ p.day \in axis /\ \A day \in axis : day <= e \/ p.day <= day
                        /\ EntryDate(p) = p.day - 1
      BY DEF TrainedOnlyAtTheEdge
    <2> DEFINE v == DayAt(FirstValPosition)
    <2>1. axis \subseteq Nat /\ IsFiniteSet(axis) /\ axis # {}
      BY AxisType
    <2>2. v \in axis /\ e < v
      BY <2>1, TargetsBefore
    <2>3. p \in Profiles /\ p.day # None /\ InWindow(p.day) /\ Usable(p) /\ Agrees(p)
      BY DEF ValidationInv, SelectionInv, HeldOutProfiles
    <2>4. p.day \in Nat /\ v <= p.day
      BY <2>3, ArgoAssumption DEF InWindow
    <2>5. EntryDate(p) \in Nat /\ p.day <= EntryDate(p) + 1
      BY <2>3, <2>4, DateNearIndex
    <2>6. \A day \in TrainTargets : day \in axis /\ day < v
      BY <2>1, TargetsBefore
    <2> HIDE DEF v
    <2>7. v \in Nat /\ ~(v <= EntryDate(p))
      BY <2>1, <2>2, <2>5, NearestIsHeldOut
    <2>8. v = p.day /\ EntryDate(p) = v - 1
      BY <2>4, <2>5, <2>7
    <2>9. \A day \in axis : day <= e \/ v <= day
      BY <2>1, <2>2, <2>5, <2>8, NearestIsLast
    <2>10. ASSUME NEW day \in TrainTargets PROVE day <= e
      <3>1. day \in axis /\ day < v
        BY <2>6
      <3>2. day \in Nat /\ v \in Nat
        BY <2>1, <2>7, <3>1
      <3>3. day <= e \/ v <= day
        BY <2>9, <3>1
      <3>4. ~(v <= day)
        BY <3>1, <3>2
      <3> QED
        BY <3>3, <3>4
    <2> QED
      BY <2>2, <2>8, <2>9, <2>10
  <1> QED
    BY <1>1, ArgoTypeCorrect, ValidationCorrect, PTL

\* The depths with good values: finitely many numbers, of levels with good raw values.
LEMMA GoodDepthsType ==
  ASSUME NEW p \in Profiles
  PROVE  /\ GoodDepths(p) \subseteq Nat /\ IsFiniteSet(GoodDepths(p))
         /\ \A z \in GoodDepths(p) : \E l \in {l \in p.levels : l.raw = "good"} : l.depth = z
  <1> DEFINE G == {l \in p.levels : Measured(l) # "none"}
             f == [l \in G |-> l.depth]
  <1>1. p.levels \subseteq Levels /\ IsFiniteSet(p.levels)
    BY ArgoAssumption
  <1>2. \A l \in G : l \in p.levels /\ l.raw = "good" /\ l.depth \in Nat
    BY <1>1 DEF Measured, Levels
  <1>3. GoodDepths(p) = {l.depth : l \in G}
    BY DEF GoodDepths
  <1>4. IsFiniteSet(G)
    BY <1>1, FS_Subset
  <1>5. f \in Surjection(G, GoodDepths(p))
    BY <1>3 DEF Surjection
  <1>6. IsFiniteSet(GoodDepths(p))
    <2> HIDE DEF f, G
    <2> QED
      BY <1>4, <1>5, FS_Surjection
  <1> QED
    BY <1>2, <1>3, <1>6

\* A model is never scored above the first or below the last good value of a profile.
THEOREM OnlyMeasuredDepthsCount == Spec => []NoExtrapolation
  <1>1. ArgoTypeOK /\ ValidationInv => NoExtrapolation
    <2> SUFFICES ASSUME ArgoTypeOK, ValidationInv, report # None, NEW s \in report.scored
                 PROVE  \E above, below \in {l \in s[1].levels : l.raw = "good"} :
                          above.depth <= s[2] /\ s[2] <= below.depth
                            /\ above.depth # below.depth
      BY DEF NoExtrapolation
    <2> DEFINE p == s[1]
               D == GoodDepths(p)
    <2>1. p \in Profiles /\ s[2] \in Observed(p)
      BY DEF ValidationInv, SelectionInv, HeldOutProfiles, Report
    <2>2. Cardinality(D) >= 2 \/ Observed(p) = {}
      <3>1. Cardinality(D) \in Nat
        BY <2>1, GoodDepthsType, FS_CardinalityType
      <3> HIDE DEF D
      <3>2. Cardinality(D) >= 2 \/ Cardinality(D) < 2
        BY <3>1
      <3> QED
        BY <3>2 DEF Observed, D
    <2>3. Min(D) <= s[2] /\ s[2] <= Max(D) /\ Cardinality(D) >= 2
      BY <2>1, <2>2 DEF Observed
    <2>4. D \subseteq Nat /\ IsFiniteSet(D)
      BY <2>1, GoodDepthsType
    <2>5. D # {}
      BY <2>3, FS_EmptySet
    <2> HIDE DEF D
    <2>6. Min(D) \in D /\ Max(D) \in D /\ \A x \in D : Min(D) <= x /\ x <= Max(D)
      BY <2>4, <2>5, MinMaxExist
    <2>7. Min(D) # Max(D)
      <3> SUFFICES ASSUME Min(D) = Max(D) PROVE FALSE
        OBVIOUS
      <3>0. \A x \in D : x = Min(D)
        <4> SUFFICES ASSUME NEW x \in D PROVE x = Min(D)
          OBVIOUS
        <4>1. x \in Nat /\ Min(D) \in Nat /\ Min(D) <= x /\ x <= Min(D)
          BY <2>4, <2>6
        <4> QED
          BY <4>1
      <3>1. D = {Min(D)}
        BY <2>6, <3>0
      <3>2. Cardinality(D) = 1
        BY <3>1, FS_Singleton
      <3> QED
        BY <2>3, <3>2
    <2>8. PICK above \in {l \in p.levels : l.raw = "good"} : above.depth = Min(D)
      BY <2>1, <2>6, GoodDepthsType DEF D
    <2>9. PICK below \in {l \in p.levels : l.raw = "good"} : below.depth = Max(D)
      BY <2>1, <2>6, GoodDepthsType DEF D
    <2> QED
      BY <2>3, <2>7, <2>8, <2>9
  <1> QED
    BY <1>1, ArgoTypeCorrect, ValidationCorrect, PTL

\* A run that downloads ends with every usable profile of the held-out days, but for
\* those whose own file was cut, unless the index was.
THEOREM NothingElseIsMissing == Spec => []CompleteUnlessCut
  <1>1. ArgoTypeOK /\ ValidationInv => CompleteUnlessCut
    <2> SUFFICES ASSUME ArgoTypeOK, ValidationInv, stage \in {"load", "write"},
                        job.download, ~indexCut
                 PROVE  {p \in Selected(Profiles) : Usable(p) /\ Agrees(p) /\ p \notin cut}
                          = Loaded(job.selected)
      BY DEF CompleteUnlessCut
    <2>1. index = Profiles /\ job.selected = Selected(Profiles)
      BY DEF ValidationInv, SelectionInv
    <2>2. Selected(Profiles) \subseteq Profiles
      BY SelectedRows
    <2>3. \A p \in job.selected : cached[p] \in {Torn, "whole"}
      BY <2>1, <2>2 DEF ValidationInv, FilesInv, ToFetch, ArgoTypeOK
    <2>4. \A p \in job.selected : p \in cut <=> cached[p] = Torn
      BY <2>1, <2>2 DEF ValidationInv, FilesInv
    <2> QED
      BY <2>1, <2>2, <2>3, <2>4, ArgoAssumption DEF Loaded
  <1> QED
    BY <1>1, ArgoTypeCorrect, ValidationCorrect, PTL
=============================================================================
