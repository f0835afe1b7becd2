--------------------------- MODULE TrainingDataProofs ---------------------------
(***************************************************************************)
(* Proofs about the way from the data services to the tensor store, for    *)
(* any channels, periods and chunk lengths, whatever downloads fail, are   *)
(* stopped or repeated, and whatever builds are interrupted.               *)
(***************************************************************************)
EXTENDS TrainingData, FiniteSetTheorems, FunctionTheorems, TLAPS

-----------------------------------------------------------------------------
(***************************************************************************)
(* The chunks of a period.                                                 *)
(***************************************************************************)
LEMMA MinOfTwo ==
  ASSUME NEW a \in Int, NEW b \in Int
  PROVE  Min({a, b}) = IF a <= b THEN a ELSE b
  <1> DEFINE m == IF a <= b THEN a ELSE b
  <1>1. m \in {a, b} /\ \A y \in {a, b} : m <= y
    OBVIOUS
  <1>2. \A x \in {a, b} : (\A y \in {a, b} : x <= y) => x = m
    OBVIOUS
  <1> HIDE DEF m
  <1>3. Min({a, b}) = m
    BY <1>1, <1>2 DEF Min
  <1> QED
    BY <1>3 DEF m

\* Multiples of the chunk length are at least that far apart.
LEMMA Apart ==
  ASSUME NEW i \in Nat, NEW j \in Nat, NEW n \in Nat, i < j
  PROVE  i * n + n <= j * n
  <1>1. PICK m \in Nat : j = i + 1 + m
    BY i < j
  <1>2. j * n = i * n + n + m * n /\ m * n \in Nat
    BY <1>1
  <1>3. i * n \in Nat
    OBVIOUS
  <1> QED
    BY <1>2, <1>3

\* What a chunk is.
LEMMA ChunkType ==
  ASSUME NEW p \in Periods, NEW k \in Chunks(p)
  PROVE  /\ k \in [first : Nat, last : Nat]
         /\ k.last = Min({k.first + ChunkDays - 1, p.end})
         /\ \E i \in Nat : /\ k.first = p.start + i * ChunkDays
                           /\ k.last < p.start + i * ChunkDays + ChunkDays
  <1>1. ChunkDays \in Nat \ {0} /\ p.start \in Nat /\ p.end \in Nat
    BY DataAssumption
  <1>2. PICK i \in 0 .. (p.end - p.start) :
          /\ p.start + i * ChunkDays <= p.end
          /\ k = [first |-> p.start + i * ChunkDays,
                  last  |-> Min({p.start + (i + 1) * ChunkDays - 1, p.end})]
    BY DEF Chunks
  <1>3. i \in Nat /\ i * ChunkDays \in Nat /\ (i + 1) * ChunkDays = i * ChunkDays + ChunkDays
    BY <1>1, <1>2
  <1>4. DEFINE a == p.start + (i + 1) * ChunkDays - 1
  <1>5. a = p.start + i * ChunkDays + ChunkDays - 1 /\ a \in Nat
    BY <1>1, <1>3
  <1> HIDE DEF a
  <1>6. k.last = IF a <= p.end THEN a ELSE p.end
    BY <1>1, <1>2, <1>5, MinOfTwo DEF a
  <1>7. k.last \in Nat /\ k.last <= a
    BY <1>1, <1>5, <1>6
  <1>8. k.first = p.start + i * ChunkDays /\ k.first \in Nat
    BY <1>1, <1>2, <1>3
  <1>9. k \in [first : Nat, last : Nat]
    BY <1>2, <1>7, <1>8
  <1>10. k.last = Min({k.first + ChunkDays - 1, p.end})
    <2>1. a = k.first + ChunkDays - 1
      BY <1>1, <1>3, <1>5, <1>8
    <2> QED
      BY <1>2, <2>1 DEF a
  <1> QED
    BY <1>1, <1>3, <1>5, <1>7, <1>8, <1>9, <1>10

\* Two chunks of a period are the same or have no day in common.
LEMMA ChunksDisjoint ==
  ASSUME NEW p \in Periods, NEW k \in Chunks(p), NEW m \in Chunks(p)
  PROVE  k = m \/ k.last < m.first \/ m.last < k.first
  <1>1. ChunkDays \in Nat /\ p.start \in Nat
    BY DataAssumption
  <1>2. k \in [first : Nat, last : Nat] /\ m \in [first : Nat, last : Nat]
    BY ChunkType
  <1>3. PICK i \in Nat : /\ k.first = p.start + i * ChunkDays
                         /\ k.last < p.start + i * ChunkDays + ChunkDays
    BY ChunkType
  <1>4. PICK j \in Nat : /\ m.first = p.start + j * ChunkDays
                         /\ m.last < p.start + j * ChunkDays + ChunkDays
    BY ChunkType
  <1>5. i * ChunkDays \in Nat /\ j * ChunkDays \in Nat
    BY <1>1
  <1>6. CASE i = j
    <2>1. k.first = m.first /\ k.last = m.last
      BY <1>3, <1>4, <1>6, ChunkType
    <2> QED
      BY <1>2, <2>1
  <1>7. CASE i < j
    <2>1. i * ChunkDays + ChunkDays <= j * ChunkDays
      BY <1>1, <1>7, Apart
    <2> QED
      BY <1>1, <1>2, <1>3, <1>4, <1>5, <2>1
  <1>8. CASE j < i
    <2>1. j * ChunkDays + ChunkDays <= i * ChunkDays
      BY <1>1, <1>8, Apart
    <2> QED
      BY <1>1, <1>2, <1>3, <1>4, <1>5, <2>1
  <1> QED
    BY <1>6, <1>7, <1>8

\* date_range_chunks asks for every day of the period in exactly one chunk, and for no
\* other day, whether or not the chunks come out even.
THEOREM EveryDayAskedOnce ==
  ASSUME NEW p \in Periods, NEW d \in Nat
  PROVE  /\ d \in p.start .. p.end <=> \E k \in Chunks(p) : k.first <= d /\ d <= k.last
         /\ \A k, m \in Chunks(p) :
              (k.first <= d /\ d <= k.last /\ m.first <= d /\ d <= m.last) => k = m
  <1>1. ChunkDays \in Nat \ {0} /\ p.start \in Nat /\ p.end \in Nat
    BY DataAssumption
  <1>2. ASSUME d \in p.start .. p.end PROVE \E k \in Chunks(p) : k.first <= d /\ d <= k.last
    <2> DEFINE n == d - p.start
               i == n \div ChunkDays
    <2>1. n \in Nat /\ n <= p.end - p.start /\ d = p.start + n
      BY <1>1, <1>2
    <2>2. i \in Nat /\ ChunkDays * i <= n /\ n < ChunkDays * i + ChunkDays
      BY <1>1, <2>1
    <2> HIDE DEF n, i
    <2>3. ChunkDays * i = i * ChunkDays /\ (i + 1) * ChunkDays = i * ChunkDays + ChunkDays
      BY <1>1, <2>2
    <2>4. i * ChunkDays \in Nat
      BY <1>1, <2>2
    <2>5. i <= i * ChunkDays
      <3>1. PICK c \in Nat : ChunkDays = 1 + c
        BY <1>1
      <3>2. i * ChunkDays = i + i * c /\ i * c \in Nat
        BY <2>2, <3>1
      <3> QED
        BY <2>2, <3>2
    <2> DEFINE first == p.start + i * ChunkDays
               a     == p.start + (i + 1) * ChunkDays - 1
    <2>6. first <= d /\ d <= a /\ d <= p.end /\ a \in Int /\ first <= p.end
      BY <1>1, <1>2, <2>1, <2>2, <2>3, <2>4
    <2>7. i \in 0 .. (p.end - p.start)
      BY <1>1, <2>1, <2>2, <2>3, <2>4, <2>5
    <2>8. [first |-> first, last |-> Min({a, p.end})] \in Chunks(p)
      BY <2>6, <2>7 DEF Chunks
    <2>9. d <= Min({a, p.end})
      BY <1>1, <2>6, MinOfTwo
    <2> QED
      BY <2>6, <2>8, <2>9
  <1>3. ASSUME NEW k \in Chunks(p), k.first <= d, d <= k.last PROVE d \in p.start .. p.end
    <2>1. k \in [first : Nat, last : Nat] /\ k.last = Min({k.first + ChunkDays - 1, p.end})
      BY ChunkType
    <2>2. PICK i \in Nat : k.first = p.start + i * ChunkDays
      BY ChunkType
    <2>3. i * ChunkDays \in Nat
      BY <1>1, <2>2
    <2>4. k.last <= p.end
      BY <1>1, <2>1, MinOfTwo
    <2> QED
      BY <1>1, <1>3, <2>1, <2>2, <2>3, <2>4
  <1>4. ASSUME NEW k \in Chunks(p), NEW m \in Chunks(p),
               k.first <= d, d <= k.last, m.first <= d, d <= m.last
        PROVE  k = m
    <2>1. k \in [first : Nat, last : Nat] /\ m \in [first : Nat, last : Nat]
      BY ChunkType
    <2>2. k = m \/ k.last < m.first \/ m.last < k.first
      BY ChunksDisjoint
    <2> QED
      BY <1>4, <2>1, <2>2
  <1> QED
    BY <1>2, <1>3, <1>4

-----------------------------------------------------------------------------
(***************************************************************************)
(* The copies of a chunk.                                                  *)
(***************************************************************************)
\* The first n copies of chunk k.
Numbered(k, n) == {[first |-> k.first, last |-> k.last, copy |-> c] : c \in 0 .. n - 1}

\* There are n of them, so that the next one is number n.
LEMMA NumberedCounts ==
  ASSUME NEW k, NEW n \in Nat
  PROVE  Cardinality(Numbered(k, n)) = n
  <1> DEFINE I == 0 .. n - 1
             f == [c \in I |-> [first |-> k.first, last |-> k.last, copy |-> c]]
  <1>1. IsFiniteSet(I) /\ Cardinality(I) = n
    BY FS_Interval
  <1>2. f \in Surjection(I, Numbered(k, n))
    BY DEF Surjection, Numbered
  <1>3. f \in Injection(I, Numbered(k, n))
    <2>1. f \in [I -> Numbered(k, n)]
      BY DEF Numbered
    <2>2. \A c, d \in I : f[c] = f[d] => c = d
      <3> SUFFICES ASSUME NEW c \in I, NEW d \in I, f[c] = f[d] PROVE c = d
        OBVIOUS
      <3>1. f[c].copy = c /\ f[d].copy = d
        OBVIOUS
      <3> QED
        BY <3>1
    <2> HIDE DEF f, I
    <2> QED
      BY <2>1, <2>2, Fun_IsInj
  <1> HIDE DEF f, I
  <1> QED
    BY <1>1, <1>2, <1>3, FS_Surjection

\* One more of them.
LEMMA NumberedGrows ==
  ASSUME NEW k, NEW n \in Nat
  PROVE  Numbered(k, n + 1) =
           Numbered(k, n) \cup {[first |-> k.first, last |-> k.last, copy |-> n]}
  <1>1. 0 .. (n + 1) - 1 = (0 .. n - 1) \cup {n}
    OBVIOUS
  <1> QED
    BY <1>1 DEF Numbered

LEMMA NoneNumbered ==
  ASSUME NEW k
  PROVE  Numbered(k, 0) = {}
  BY DEF Numbered

\* The invariant with the copies named.
LEMMA CopiesAre ==
  CopiesInv <=>
    /\ \A s \in Sources : \A f \in files[s] : \E p \in periods : \E k \in Chunks(p) :
         f.first = k.first /\ f.last = k.last
    /\ \A s \in Sources : \A p \in periods : \A k \in Chunks(p) : \E n \in 0 .. downloads :
         /\ CopiesOf(s, k) = Numbered(k, n)
         /\ (wanted # None /\ <<s, k>> \in wanted) => n < downloads
  BY DEF CopiesInv, Numbered

\* A new download: what was there is now older by one; a new chunk has no copies.
LEMMA StartKeepsCopies ==
  ASSUME DataTypeOK, CopiesInv, NEW q \in Periods,
         periods' = periods \cup {q}, downloads' = downloads + 1, UNCHANGED files
  PROVE  CopiesInv'
  <1>1. downloads \in Nat /\ periods \subseteq Periods
    BY DataAssumption DEF DataTypeOK
  <1>2. \A s, k : CopiesOf(s, k)' = CopiesOf(s, k)
    BY DEF CopiesOf
  <1>3. ASSUME NEW s \in Sources, NEW p \in periods', NEW k \in Chunks(p)
        PROVE  \E n \in 0 .. downloads : CopiesOf(s, k) = Numbered(k, n)
    <2>1. CASE CopiesOf(s, k) = {}
      BY <1>1, <2>1, NoneNumbered
    <2>2. CASE CopiesOf(s, k) # {}
      <3>1. PICK f \in files[s] : f.first = k.first /\ f.last = k.last
        BY <2>2 DEF CopiesOf
      <3>2. PICK r \in periods : \E m \in Chunks(r) : f.first = m.first /\ f.last = m.last
        BY <1>3 DEF CopiesInv
      <3>3. PICK m \in Chunks(r) : f.first = m.first /\ f.last = m.last
        BY <3>2
      <3>4. k = m
        <4>1. k \in [first : Nat, last : Nat] /\ m \in [first : Nat, last : Nat]
          BY <1>1, ChunkType
        <4>2. k.first = m.first /\ k.last = m.last
          BY <3>1, <3>3
        <4> QED
          BY <4>1, <4>2
      <3> QED
        BY <3>4, CopiesAre
    <2> QED
      BY <2>1, <2>2
  <1>4. ASSUME NEW s \in Sources, NEW p \in periods', NEW k \in Chunks(p)
        PROVE  \E n \in 0 .. downloads' :
                 /\ CopiesOf(s, k)' = Numbered(k, n)
                 /\ (wanted' # None /\ <<s, k>> \in wanted') => n < downloads'
    <2>1. PICK n \in 0 .. downloads : CopiesOf(s, k) = Numbered(k, n)
      BY <1>3
    <2>2. n \in 0 .. downloads' /\ n < downloads'
      BY <1>1
    <2> QED
      BY <1>2, <2>1, <2>2
  <1>5. \A s \in Sources : \A f \in files'[s] : \E p \in periods' : \E k \in Chunks(p) :
          f.first = k.first /\ f.last = k.last
    BY DEF CopiesInv
  <1> QED
    BY <1>4, <1>5 DEF CopiesInv, Numbered

\* A file arrives: it is the next copy of its chunk, which was still to be asked for.
LEMMA ArrivalKeepsCopies ==
  ASSUME DataTypeOK, CopiesInv, NEW s \in Sources, NEW p \in periods, NEW k \in Chunks(p),
         Subset(s, k)
  PROVE  CopiesInv'
  <1>1. /\ wanted # None /\ <<s, k>> \in wanted /\ wanted' = wanted \ {<<s, k>>}
        /\ files' = [files EXCEPT ![s] = @ \cup
              {[first |-> k.first, last |-> k.last, copy |-> NextCopy(s, k)]}]
        /\ UNCHANGED <<periods, downloads>>
    BY DEF Subset, Turn
  <1>2. downloads \in Nat /\ periods \subseteq Periods /\ files \in [Sources -> SUBSET File]
    BY DataAssumption DEF DataTypeOK
  <1>3. PICK n \in 0 .. downloads : CopiesOf(s, k) = Numbered(k, n) /\ n < downloads
    BY <1>1, CopiesAre
  <1> DEFINE new == [first |-> k.first, last |-> k.last, copy |-> n]
  <1>4. NextCopy(s, k) = n
    BY <1>2, <1>3, NumberedCounts DEF NextCopy
  <1>5. /\ files'[s] = files[s] \cup {new}
        /\ \A r \in Sources \ {s} : files'[r] = files[r]
    BY <1>1, <1>2, <1>4
  <1>6. ASSUME NEW r \in Sources, NEW f \in files'[r]
        PROVE  \E q \in periods : \E m \in Chunks(q) : f.first = m.first /\ f.last = m.last
    <2>1. CASE f \in files[r]
      BY <2>1 DEF CopiesInv
    <2>2. CASE f = new
      BY <2>2
    <2> QED
      BY <1>5, <2>1, <2>2
  <1>7. ASSUME NEW r \in Sources, NEW q \in periods, NEW m \in Chunks(q)
        PROVE  \E c \in 0 .. downloads :
                 /\ CopiesOf(r, m)' = Numbered(m, c)
                 /\ (wanted' # None /\ <<r, m>> \in wanted') => c < downloads
    <2>1. k \in [first : Nat, last : Nat] /\ m \in [first : Nat, last : Nat]
      BY <1>2, ChunkType
    <2>2. CASE r = s /\ m = k
      <3>1. CopiesOf(s, k)' = CopiesOf(s, k) \cup {new}
        BY <1>5 DEF CopiesOf
      <3>2. Numbered(k, n + 1) = Numbered(k, n) \cup {new}
        BY <1>2, NumberedGrows
      <3>3. n + 1 \in 0 .. downloads /\ <<s, k>> \notin wanted'
        BY <1>1, <1>2, <1>3
      <3>4. CopiesOf(r, m)' = Numbered(m, n + 1)
        BY <1>3, <2>2, <3>1, <3>2
      <3> QED
        BY <2>2, <3>3, <3>4
    <2>3. CASE ~(r = s /\ m = k)
      <3>1. CopiesOf(r, m)' = CopiesOf(r, m)
        <4>1. CASE r # s
          BY <1>5, <4>1 DEF CopiesOf
        <4>2. CASE r = s
          <5>1. k.first # m.first \/ k.last # m.last
            BY <2>1, <2>3, <4>2
          <5> QED
            BY <1>5, <4>2, <5>1 DEF CopiesOf
        <4> QED
          BY <4>1, <4>2
      <3>2. PICK c \in 0 .. downloads :
              /\ CopiesOf(r, m) = Numbered(m, c)
              /\ (wanted # None /\ <<r, m>> \in wanted) => c < downloads
        BY CopiesAre
      <3>3. <<r, m>> \in wanted' => <<r, m>> \in wanted
        BY <1>1
      <3> QED
        BY <1>1, <3>1, <3>2, <3>3
    <2> QED
      BY <2>2, <2>3
  <1> QED
    BY <1>1, <1>6, <1>7 DEF CopiesInv, Numbered

LEMMA CopiesStep ==
  ASSUME DataTypeOK, DataInv, [Next]_vars
  PROVE  CopiesInv'
  <1>0. CopiesInv
    BY DEF DataInv
  \* What the build does, and asking without success, leaves the files alone.
  <1>1. ASSUME UNCHANGED <<files, periods, downloads>>,
               wanted' = None \/ (wanted # None /\ wanted' \subseteq wanted) \/ wanted' = wanted
        PROVE  CopiesInv'
    <2>1. \A s, k : CopiesOf(s, k)' = CopiesOf(s, k)
      BY <1>1 DEF CopiesOf
    <2> QED
      BY <1>0, <1>1, <2>1 DEF CopiesInv
  <1>2. ASSUME NEW p \in Periods, NEW inputs \in BOOLEAN, NEW target \in BOOLEAN,
               StartDownload(p, inputs, target)
        PROVE  CopiesInv'
    BY <1>0, <1>2, StartKeepsCopies DEF StartDownload
  <1>3. ASSUME NEW s \in Sources, NEW p \in periods, NEW k \in Chunks(p),
               Subset(s, k) \/ SubsetFails(s, k)
        PROVE  CopiesInv'
    <2>1. CASE Subset(s, k)
      BY <1>0, <2>1, ArrivalKeepsCopies
    <2>2. CASE SubsetFails(s, k)
      BY <1>1, <2>2 DEF SubsetFails, Turn
    <2> QED
      BY <1>3, <2>1, <2>2
  <1>4. CASE EndDownload
    BY <1>1, <1>4 DEF EndDownload
  <1>5. CASE (\E loaded \in Loads : StartBuild(loaded)) \/ OpenPart \/ ClosePart \/ Interrupt \/ UNCHANGED vars
    <2>1. UNCHANGED loadVars
      BY <1>5, Zenon DEF StartBuild, OpenPart, ClosePart, Interrupt, vars
    <2> QED
      BY <1>1, <2>1 DEF loadVars
  <1> QED
    BY <1>2, <1>3, <1>4, <1>5, Zenon DEF Next

-----------------------------------------------------------------------------
(***************************************************************************)
(* Types.                                                                  *)
(***************************************************************************)
\* Days that were loaded stay loaded.
LEMMA TimesGrow ==
  ASSUME DataTypeOK, [Next]_vars
  PROVE  Times(Target) \subseteq Times(Target)'
  <1>1. files[Target] \subseteq files'[Target]
    <2>1. CASE \E s \in Sources : \E p \in periods : \E k \in Chunks(p) : Subset(s, k)
      BY <2>1 DEF Subset, DataTypeOK, Sources
    <2>2. CASE UNCHANGED files
      BY <2>2
    <2> QED
      BY <2>1, <2>2, Zenon DEF Next, vars, loadVars, StartDownload, SubsetFails, EndDownload,
         StartBuild, OpenPart, ClosePart, Interrupt
  <1> QED
    BY <1>1 DEF Times, Clean

\* What opening and closing a part do to the store.
LEMMA PartWritten ==
  ASSUME DataTypeOK, OpenPart \/ ClosePart
  PROVE  /\ tensor'[stage] = IF OpenPart THEN Torn ELSE result[stage]
         /\ \A part \in Parts \ {stage} : tensor'[part] = tensor[part]
         /\ DOMAIN tensor' = Parts /\ stage \in Parts
  <1>1. stage \in Parts /\ DOMAIN tensor = Parts
    BY DEF OpenPart, ClosePart, DataTypeOK
  <1>2. CASE OpenPart
    BY <1>1, <1>2 DEF OpenPart
  <1>3. CASE ClosePart
    <2>1. ~OpenPart
      BY <1>3 DEF OpenPart, ClosePart
    <2> QED
      BY <1>1, <1>3, <2>1 DEF ClosePart
  <1> QED
    BY <1>2, <1>3

LEMMA DataTypeStep ==
  ASSUME DataTypeOK, DataInv, [Next]_vars
  PROVE  DataTypeOK'
  <1> USE DataAssumption
  <1>0. Times(Target) \subseteq Times(Target)'
    BY TimesGrow
  <1>1. ASSUME NEW p \in Periods, NEW inputs \in BOOLEAN, NEW target \in BOOLEAN,
               StartDownload(p, inputs, target)
        PROVE  DataTypeOK'
    <2>1. /\ downloads' = downloads + 1 /\ downloads < MaxDownloads
          /\ periods' = periods \cup {p} /\ UNCHANGED <<files, buildVars>>
      BY <1>1 DEF StartDownload
    <2>2. wanted' \subseteq Catalog \X UNION {Chunks(q) : q \in periods'}
      BY <1>1 DEF StartDownload
    <2>3. periods' \subseteq Periods /\ IsFiniteSet(periods')
      BY <2>1, FS_AddElement DEF DataTypeOK
    <2>4. downloads' \in 0 .. MaxDownloads
      BY <2>1 DEF DataTypeOK
    <2>5. UNCHANGED <<files, tensor, stage, builds, dirty>>
      BY <2>1 DEF buildVars
    <2>6. Whole("X")' => tensor'["X"].days \subseteq Times(Target)'
      BY <1>0, <2>5 DEF DataTypeOK, Whole
    <2> QED
      BY <2>2, <2>3, <2>4, <2>5, <2>6, Zenon DEF DataTypeOK
  <1>2. ASSUME NEW s \in Sources, NEW p \in periods, NEW k \in Chunks(p),
               Subset(s, k) \/ SubsetFails(s, k)
        PROVE  DataTypeOK'
    <2>1. /\ wanted # None /\ wanted' \subseteq wanted
          /\ UNCHANGED <<periods, downloads, tensor, stage, builds, dirty>>
      BY <1>2 DEF Subset, SubsetFails, Turn, buildVars
    <2>2. files' \in [Sources -> SUBSET File]
      <3>1. CASE Subset(s, k)
        <4>1. k \in [first : Nat, last : Nat]
          BY ChunkType DEF DataTypeOK
        <4>2. NextCopy(s, k) \in Nat
          <5>1. PICK n \in 0 .. downloads : CopiesOf(s, k) = Numbered(k, n)
            BY CopiesAre DEF DataInv
          <5> QED
            BY <5>1, NumberedCounts DEF NextCopy
        <4>3. [first |-> k.first, last |-> k.last, copy |-> NextCopy(s, k)] \in File
          BY <4>1, <4>2 DEF File
        <4> QED
          BY <3>1, <4>3 DEF Subset, DataTypeOK
      <3>2. CASE SubsetFails(s, k)
        BY <3>2 DEF SubsetFails, DataTypeOK
      <3> QED
        BY <1>2, <3>1, <3>2
    <2>3. wanted' \subseteq Catalog \X UNION {Chunks(q) : q \in periods'}
      BY <2>1 DEF DataTypeOK
    <2>4. Whole("X")' => tensor'["X"].days \subseteq Times(Target)'
      BY <1>0, <2>1 DEF DataTypeOK, Whole
    <2> QED
      BY <2>1, <2>2, <2>3, <2>4, Zenon DEF DataTypeOK
  <1>3. CASE EndDownload \/ UNCHANGED vars
    <2>1. /\ wanted' \in {None, wanted}
          /\ UNCHANGED <<files, periods, downloads, tensor, stage, builds, dirty>>
      BY <1>3 DEF EndDownload, buildVars, loadVars, vars
    <2>2. Whole("X")' => tensor'["X"].days \subseteq Times(Target)'
      BY <1>0, <2>1 DEF DataTypeOK, Whole
    <2>3. wanted' = None \/ wanted' \subseteq Catalog \X UNION {Chunks(q) : q \in periods'}
      BY <2>1 DEF DataTypeOK
    <2> QED
      BY <2>1, <2>2, <2>3, Zenon DEF DataTypeOK
  <1>4. ASSUME NEW loaded \in Loads, StartBuild(loaded) PROVE DataTypeOK'
    <2>1. /\ builds' = builds + 1 /\ builds < MaxBuilds /\ stage' = "X" /\ dirty' = TRUE
          /\ tensor' = [tensor EXCEPT !["X"] = Torn]
          /\ UNCHANGED <<files, wanted, periods, downloads>>
      BY <1>4 DEF StartBuild, loadVars
    <2>2. DOMAIN tensor' = Parts /\ tensor'["X"] = Torn
      BY <2>1 DEF DataTypeOK, Parts
    <2>3. ~Whole("X")'
      BY <2>2 DEF Whole
    <2>4. builds' \in 0 .. MaxBuilds /\ stage' \in Parts
      BY <2>1 DEF DataTypeOK, Parts
    <2> QED
      BY <2>1, <2>2, <2>3, <2>4, Zenon DEF DataTypeOK
  <1>5. CASE OpenPart \/ ClosePart
    <2>1. /\ stage # None /\ stage' \in {stage, AfterPart(stage)}
          /\ dirty' \in {dirty, stage' # None}
          /\ UNCHANGED <<files, wanted, periods, downloads, builds>>
      BY <1>5 DEF OpenPart, ClosePart, loadVars
    <2>2. stage' \in Parts \cup {None} /\ dirty' \in BOOLEAN
      BY <2>1 DEF AfterPart, Parts, DataTypeOK
    <2>3. DOMAIN tensor' = Parts
      BY <1>5, PartWritten
    <2>4. Whole("X")' => tensor'["X"].days \subseteq Times(Target)'
      <3>1. CASE stage = "X"
        <4>1. tensor'["X"] \in {Torn, result["X"]}
          BY <1>5, <3>1, PartWritten
        <4>2. result["X"].days \subseteq Times(Target)'
          BY <1>0, <2>1 DEF DataInv, StoreInv
        <4> QED
          BY <4>1, <4>2 DEF Whole
      <3>2. CASE stage # "X"
        <4>1. tensor'["X"] = tensor["X"]
          BY <1>5, <3>2, PartWritten DEF Parts
        <4> QED
          BY <1>0, <4>1 DEF DataTypeOK, Whole
      <3> QED
        BY <3>1, <3>2
    <2> QED
      BY <2>1, <2>2, <2>3, <2>4, Zenon DEF DataTypeOK
  <1>6. CASE Interrupt
    <2>1. stage' = None /\ UNCHANGED <<files, wanted, periods, downloads, tensor, builds, dirty>>
      BY <1>6 DEF Interrupt, loadVars
    <2>2. Whole("X")' => tensor'["X"].days \subseteq Times(Target)'
      BY <1>0, <2>1 DEF DataTypeOK, Whole
    <2> QED
      BY <2>1, <2>2, Zenon DEF DataTypeOK
  <1> QED
    BY <1>1, <1>2, <1>3, <1>4, <1>5, <1>6, Zenon DEF Next

-----------------------------------------------------------------------------
(***************************************************************************)
(* The tensor store.                                                       *)
(***************************************************************************)
\* What a build computes is of one piece.
LEMMA BuiltOfOnePiece ==
  ASSUME DataTypeOK, NEW loaded \in Loads
  PROVE  OfOnePiece(Built(loaded)) /\ Built(loaded)["X"].days \subseteq Times(Target)
  <1> DEFINE days == CommonDays(loaded)
             b    == builds + 1
             t    == Built(loaded)
  <1>1. days \subseteq Times(Target) /\ Times(Target) \subseteq Nat
    BY DataAssumption DEF CommonDays, Times, DaysOf, Sources
  <1>2. b \in Nat /\ loaded \subseteq Channels /\ Ocean(loaded, days) \subseteq Cells
    BY DataAssumption DEF DataTypeOK, Loads, Ocean
  <1>3. t = [X     |-> [days |-> days, channels |-> loaded, build |-> b],
             Y     |-> [days |-> days, build |-> b],
             mask  |-> [cells |-> Ocean(loaded, days), build |-> b],
             stats |-> [build |-> b]]
    BY DEF Built
  <1>4. ASSUME NEW x \in Ocean(loaded, days)
        PROVE  /\ loaded = Channels
               /\ \A c \in Channels : \E seen \in SUBSET days :
                    /\ 2 * Cardinality(seen) >= Cardinality(days)
                    /\ \A d \in seen : x \in Finite[c][d]
    <2> HIDE DEF days
    <2>1. loaded = Channels
      BY DEF Ocean
    <2>2. ASSUME NEW c \in Channels
          PROVE  \E seen \in SUBSET days :
                   /\ 2 * Cardinality(seen) >= Cardinality(days)
                   /\ \A d \in seen : x \in Finite[c][d]
      <3> DEFINE seen == {d \in days : x \in Finite[c][d]}
      <3>1. 2 * Cardinality(seen) >= Cardinality(days)
        BY DEF Ocean
      <3>2. seen \in SUBSET days /\ \A d \in seen : x \in Finite[c][d]
        OBVIOUS
      <3> HIDE DEF seen
      <3> QED
        BY <3>1, <3>2
    <2> QED
      BY <2>1, <2>2
  <1> HIDE DEF days, b, t
  <1>5. /\ t["X"] = [days |-> days, channels |-> loaded, build |-> b]
        /\ t["Y"] = [days |-> days, build |-> b]
        /\ t["mask"] = [cells |-> Ocean(loaded, days), build |-> b]
        /\ t["stats"] = [build |-> b]
    BY <1>3
  <1>6. \A part \in Parts : t[part] \in Content(part)
    <2>1. days \subseteq Nat
      BY <1>1
    <2>2. t["X"] \in Content("X") /\ t["Y"] \in Content("Y")
      BY <1>2, <1>5, <2>1 DEF Content
    <2>3. t["mask"] \in Content("mask") /\ t["stats"] \in Content("stats")
      BY <1>2, <1>5 DEF Content
    <2> QED
      BY <2>2, <2>3 DEF Parts
  <1>7. /\ t["X"].days = days /\ t["Y"].days = days /\ t["X"].channels = loaded
        /\ \A part \in Parts : t[part].build = b
        /\ t["mask"].cells = Ocean(loaded, days)
    BY <1>5 DEF Parts
  <1>8. OfOnePiece(t)
    BY <1>4, <1>6, <1>7 DEF OfOnePiece, Parts
  <1> QED
    BY <1>1, <1>7, <1>8 DEF t

\* Whether a tensor store is of one piece depends on its four parts alone.
LEMMA SamePartsSamePiece ==
  ASSUME NEW t, NEW u, \A part \in Parts : t[part] = u[part], OfOnePiece(t)
  PROVE  OfOnePiece(u)
  <1>1. /\ u["X"] = t["X"] /\ u["Y"] = t["Y"] /\ u["mask"] = t["mask"]
        /\ u["stats"] = t["stats"]
    BY DEF Parts
  <1>2. \A part \in Parts : u[part] \in Content(part)
    BY DEF OfOnePiece
  <1>3. \A part \in {"Y", "mask", "stats"} : u[part].build = u["X"].build
    BY <1>1 DEF OfOnePiece
  <1> QED
    BY <1>1, <1>2, <1>3 DEF OfOnePiece

LEMMA StoreStep ==
  ASSUME DataTypeOK, DataInv, [Next]_vars
  PROVE  StoreInv'
  <1> USE DataAssumption
  <1>0. Times(Target) \subseteq Times(Target)' /\ StoreInv
    BY TimesGrow DEF DataInv
  <1>1. CASE UNCHANGED buildVars
    <2>1. UNCHANGED <<tensor, stage, result, dirty>> /\ Written' = Written
      BY <1>1 DEF buildVars, Written
    <2>2. stage # None => /\ dirty /\ OfOnePiece(result)
                          /\ result["X"].days \subseteq Times(Target)'
                          /\ \A part \in Written : tensor[part] = result[part]
      BY <1>0 DEF StoreInv
    <2>3. OfOnePiece(result)' <=> OfOnePiece(result')
      BY DEF OfOnePiece
    <2>4. OfOnePiece(tensor)' <=> OfOnePiece(tensor')
      BY DEF OfOnePiece
    <2> QED
      BY <1>0, <2>1, <2>2, <2>3, <2>4 DEF StoreInv
  <1>2. ASSUME NEW loaded \in Loads, StartBuild(loaded) PROVE StoreInv'
    <2>1. /\ stage' = "X" /\ dirty' = TRUE /\ result' = Built(loaded)
          /\ UNCHANGED loadVars
      BY <1>2 DEF StartBuild
    <2>2. OfOnePiece(result') /\ result'["X"].days \subseteq Times(Target)'
      BY <1>0, <2>1, BuiltOfOnePiece
    <2>3. Written' = {}
      BY <2>1 DEF Written
    <2>4. OfOnePiece(result)'
      BY <2>2 DEF OfOnePiece
    <2> QED
      BY <2>1, <2>2, <2>3, <2>4 DEF StoreInv
  <1>3. CASE ClosePart
    <2>1. /\ stage # None /\ stage \in Parts /\ stage' = AfterPart(stage)
          /\ (stage' = None \/ result' = result) /\ (dirty' <=> stage' # None)
      BY <1>3 DEF ClosePart, DataTypeOK
    <2>2. /\ OfOnePiece(result) /\ result["X"].days \subseteq Times(Target)
          /\ \A part \in Written : tensor[part] = result[part]
      BY <1>0, <2>1 DEF StoreInv
    <2>3. /\ tensor'[stage] = result[stage]
          /\ \A part \in Parts \ {stage} : tensor'[part] = tensor[part]
      <3>1. ~OpenPart
        BY <1>3 DEF OpenPart, ClosePart
      <3> QED
        BY <1>3, <3>1, PartWritten
    <2>4. CASE stage = "stats"
      <3>1. stage' = None /\ Written = {"X", "Y", "mask"}
        BY <2>1, <2>4 DEF AfterPart, Written
      <3>2. \A part \in Parts : result[part] = tensor'[part]
        BY <2>2, <2>3, <2>4, <3>1 DEF Parts
      <3>3. OfOnePiece(tensor')
        BY <2>2, <3>2, SamePartsSamePiece
      <3>4. OfOnePiece(tensor)'
        BY <3>3 DEF OfOnePiece
      <3> QED
        BY <2>1, <3>1, <3>4 DEF StoreInv
    <2>5. CASE stage # "stats"
      <3>1. /\ stage' # None /\ stage' \in Parts
            /\ Written' = Written \cup {stage} /\ stage' \notin Written'
            /\ Written' \subseteq Parts
        BY <2>1, <2>5 DEF AfterPart, Written, Parts
      <3>2. \A part \in Written' : tensor'[part] = result'[part]
        BY <2>1, <2>2, <2>3, <3>1
      <3>3. OfOnePiece(result)'
        BY <2>1, <2>2, <3>1 DEF OfOnePiece
      <3> QED
        BY <1>0, <2>1, <2>2, <3>1, <3>2, <3>3 DEF StoreInv
    <2> QED
      BY <2>4, <2>5
  <1>4. CASE OpenPart
    <2>1. stage # None /\ UNCHANGED <<stage, result, dirty>>
      BY <1>4 DEF OpenPart
    <2>2. /\ dirty /\ OfOnePiece(result) /\ result["X"].days \subseteq Times(Target)
          /\ \A part \in Written : tensor[part] = result[part]
      BY <1>0, <2>1 DEF StoreInv
    <2>3. Written' = Written /\ Written \subseteq Parts \ {stage}
      BY <1>4, <2>1, PartWritten DEF Written, Parts
    <2>4. \A part \in Written' : tensor'[part] = result'[part]
      BY <1>4, <2>1, <2>2, <2>3, PartWritten
    <2>5. OfOnePiece(result)'
      BY <2>1, <2>2 DEF OfOnePiece
    <2> QED
      BY <1>0, <2>1, <2>2, <2>4, <2>5 DEF StoreInv
  <1>5. CASE Interrupt
    BY <1>0, <1>5 DEF Interrupt, StoreInv
  <1> QED
    BY <1>1, <1>2, <1>3, <1>4, <1>5, Zenon DEF Next, vars, StartDownload, Subset, SubsetFails,
       EndDownload

-----------------------------------------------------------------------------
(***************************************************************************)
(* The theorems.                                                           *)
(***************************************************************************)
LEMMA DataInit == Init => DataInv
  <1> SUFFICES ASSUME Init PROVE DataInv
    OBVIOUS
  <1> USE DataAssumption DEF Init
  <1>1. \A part \in Parts : tensor[part] = None
    OBVIOUS
  <1>2. ~Whole("X")
    BY <1>1 DEF Whole, Parts
  <1>3. DataTypeOK
    <2>1. files \in [Sources -> SUBSET File] /\ DOMAIN tensor = Parts
      OBVIOUS
    <2>2. IsFiniteSet(periods) /\ downloads \in 0 .. MaxDownloads /\ builds \in 0 .. MaxBuilds
      BY FS_EmptySet
    <2> QED
      BY <1>2, <2>1, <2>2 DEF DataTypeOK
  <1>4. CopiesInv
    BY DEF CopiesInv
  <1>5. StoreInv
    BY <1>1 DEF StoreInv
  <1> QED
    BY <1>3, <1>4, <1>5 DEF DataInv

\* The inductive invariant: how often each chunk was loaded, and what a build has written.
THEOREM DataCorrect == Spec => []DataInv
  <1>1. DataInv /\ [Next]_vars => DataInv'
    BY DataTypeStep, CopiesStep, StoreStep DEF DataInv
  <1> QED
    BY <1>1, DataInit, PTL DEF Spec

\* Types; X never has a day that its target does not have a file for.
THEOREM DataTypeCorrect == Spec => []DataTypeOK
  <1>1. DataInv => DataTypeOK
    BY DEF DataInv
  <1> QED
    BY <1>1, DataCorrect, PTL

\* What a completed build leaves is of one piece, whatever builds were interrupted before.
THEOREM CompletedBuildAligned == Spec => []StoreAligned
  <1>1. DataTypeOK /\ DataInv => StoreAligned
    <2> SUFFICES ASSUME DataTypeOK, DataInv, ~dirty, Whole("X")
                 PROVE  /\ Whole("Y") /\ Whole("mask") /\ Whole("stats")
                        /\ tensor["X"].days = tensor["Y"].days
                        /\ \A part \in {"Y", "mask", "stats"} :
                             tensor[part].build = tensor["X"].build
      BY DEF StoreAligned
    <2>1. OfOnePiece(tensor)
      BY DEF DataInv, StoreInv, Whole, Parts
    <2>2. \A part \in Parts : tensor[part] # None /\ tensor[part] # Torn
      BY <2>1, DataAssumption DEF OfOnePiece
    <2> QED
      BY <2>1, <2>2 DEF OfOnePiece, Whole, Parts
  <1> QED
    BY <1>1, DataTypeCorrect, DataCorrect, PTL

\* A cell that is trained on has half of its days in every channel, none being left out.
THEOREM MaskedInWithData == Spec => []ValidCellsHaveData
  <1>1. DataTypeOK /\ DataInv => ValidCellsHaveData
    <2> SUFFICES ASSUME DataTypeOK, DataInv, ~dirty, Whole("mask")
                 PROVE  OfOnePiece(tensor)
      BY DEF ValidCellsHaveData, OfOnePiece
    <2> QED
      BY DEF DataInv, StoreInv, Whole, Parts
  <1> QED
    BY <1>1, DataTypeCorrect, DataCorrect, PTL

\* Downloads that are repeated for one period, at most four times in all, give every day
\* once.  The fifth leaves a copy the build does not recognise.
THEOREM FourDownloadsAgree ==
  ASSUME MaxDownloads <= 4
  PROVE  Spec => []RepeatedDownloadsAgree
  <1>1. DataTypeOK /\ DataInv => RepeatedDownloadsAgree
    <2> SUFFICES ASSUME DataTypeOK, DataInv, Cardinality(periods) <= 1,
                        NEW s \in Sources
                 PROVE  ~Ambiguous(s) /\ Times(s) = UNION {DaysOf(s, f) : f \in files[s]}
      BY DEF RepeatedDownloadsAgree
    <2>1. /\ downloads \in Nat /\ downloads <= MaxDownloads /\ MaxDownloads \in Nat
          /\ periods \subseteq Periods /\ files[s] \subseteq File
      BY DataAssumption DEF DataTypeOK
    <2>2. \A p, q \in periods : p = q
      <3> SUFFICES ASSUME NEW p \in periods, NEW q \in periods, p # q PROVE FALSE
        OBVIOUS
      <3>1. IsFiniteSet({p, q}) /\ Cardinality({p, q}) = 2
        <4>1. {p, q} = {p} \cup {q} /\ q \notin {p}
          OBVIOUS
        <4>2. IsFiniteSet({p}) /\ Cardinality({p}) = 1
          BY FS_Singleton
        <4>3. IsFiniteSet({p} \cup {q}) /\ Cardinality({p} \cup {q}) = Cardinality({p}) + 1
          BY <4>1, <4>2, FS_AddElement
        <4> QED
          BY <4>1, <4>2, <4>3
      <3>2. Cardinality({p, q}) <= Cardinality(periods) /\ Cardinality(periods) \in Nat
        BY FS_Subset, FS_CardinalityType DEF DataTypeOK
      <3> QED
        BY <3>1, <3>2
    \* Every file is one of the first four copies of a chunk, and the first is there.
    <2>3. ASSUME NEW f \in files[s]
          PROVE  \E p \in periods : \E k \in Chunks(p) :
                   /\ f.first = k.first /\ f.last = k.last /\ f.copy \in 0 .. 3
                   /\ [first |-> k.first, last |-> k.last, copy |-> 0] \in files[s]
      <3>1. PICK p \in periods : \E k \in Chunks(p) : f.first = k.first /\ f.last = k.last
        BY DEF DataInv, CopiesInv
      <3>2. PICK k \in Chunks(p) : f.first = k.first /\ f.last = k.last
        BY <3>1
      <3>3. PICK n \in 0 .. downloads : CopiesOf(s, k) = Numbered(k, n)
        BY CopiesAre DEF DataInv
      <3>4. f \in CopiesOf(s, k)
        BY <3>2 DEF CopiesOf
      <3>5. PICK c \in 0 .. n - 1 : f = [first |-> k.first, last |-> k.last, copy |-> c]
        BY <3>3, <3>4 DEF Numbered
      <3>6. f.copy = c /\ c \in 0 .. 3 /\ 0 \in 0 .. n - 1
        BY <2>1, <3>5
      <3>7. [first |-> k.first, last |-> k.last, copy |-> 0] \in CopiesOf(s, k)
        BY <3>3, <3>6 DEF Numbered
      <3>8. CopiesOf(s, k) \subseteq files[s]
        BY DEF CopiesOf
      <3> QED
        BY <3>2, <3>6, <3>7, <3>8
    <2>4. ASSUME NEW f \in Clean(s), NEW g \in Clean(s), f # g
          PROVE  DaysOf(s, f) \cap DaysOf(s, g) = {}
      <3>1. f \in files[s] /\ g \in files[s] /\ f \in File /\ g \in File
        BY <2>1 DEF Clean
      <3>2. PICK p \in periods : \E k \in Chunks(p) :
              f.first = k.first /\ f.last = k.last /\ f.copy \in 0 .. 3
        BY <2>3, <3>1
      <3>3. PICK k \in Chunks(p) : f.first = k.first /\ f.last = k.last /\ f.copy \in 0 .. 3
        BY <3>2
      <3>4. PICK q \in periods : \E m \in Chunks(q) :
              g.first = m.first /\ g.last = m.last /\ g.copy \in 0 .. 3
        BY <2>3, <3>1
      <3>5. PICK m \in Chunks(q) : g.first = m.first /\ g.last = m.last /\ g.copy \in 0 .. 3
        BY <3>4
      <3>6. f.copy = 0 /\ g.copy = 0
        BY <3>3, <3>5 DEF Clean
      <3>7. k # m
        <4> SUFFICES ASSUME k = m PROVE FALSE
          OBVIOUS
        <4>1. f.first = g.first /\ f.last = g.last /\ f.copy = g.copy
          BY <3>3, <3>5, <3>6
        <4>2. f = g
          BY <3>1, <4>1 DEF File
        <4> QED
          BY <2>4, <4>2
      <3>8. p \in Periods /\ m \in Chunks(p)
        BY <2>1, <2>2
      <3>9. f.last < g.first \/ g.last < f.first
        BY <3>3, <3>5, <3>7, <3>8, ChunksDisjoint
      <3>10. Offered[s] \subseteq Nat
        BY DataAssumption
      <3> SUFFICES ASSUME NEW d \in DaysOf(s, f) \cap DaysOf(s, g) PROVE FALSE
        OBVIOUS
      <3>11. d \in Nat /\ f.first <= d /\ d <= f.last /\ g.first <= d /\ d <= g.last
        BY <3>10 DEF DaysOf
      <3>12. f.first \in Nat /\ f.last \in Nat /\ g.first \in Nat /\ g.last \in Nat
        BY <3>1 DEF File
      <3> QED
        BY <3>9, <3>11, <3>12
    <2>5. ASSUME NEW f \in files[s]
          PROVE  \E g \in Clean(s) : DaysOf(s, g) = DaysOf(s, f)
      <3>1. PICK p \in periods : \E k \in Chunks(p) :
              /\ f.first = k.first /\ f.last = k.last
              /\ [first |-> k.first, last |-> k.last, copy |-> 0] \in files[s]
        BY <2>3
      <3>2. PICK k \in Chunks(p) :
              /\ f.first = k.first /\ f.last = k.last
              /\ [first |-> k.first, last |-> k.last, copy |-> 0] \in files[s]
        BY <3>1
      <3> DEFINE g == [first |-> k.first, last |-> k.last, copy |-> 0]
      <3>3. g \in Clean(s)
        BY <3>2 DEF Clean
      <3>4. DaysOf(s, g) = DaysOf(s, f)
        BY <3>2 DEF DaysOf
      <3> QED
        BY <3>3, <3>4
    <2>6. Clean(s) \subseteq files[s]
      BY DEF Clean
    <2>7. ~Ambiguous(s)
      BY <2>4 DEF Ambiguous
    <2>8. Times(s) = UNION {DaysOf(s, f) : f \in files[s]}
      BY <2>5, <2>6 DEF Times
    <2> QED
      BY <2>7, <2>8
  <1> QED
    BY <1>1, DataTypeCorrect, DataCorrect, PTL
=============================================================================
