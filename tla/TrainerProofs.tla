----------------------------- MODULE TrainerProofs -----------------------------
(***************************************************************************)
(* Proofs about the training runs, for any losses, tolerance, patience and *)
(* number of epochs, and any number of processes, each of which may be     *)
(* interrupted anywhere and go on from either checkpoint.                  *)
(***************************************************************************)
EXTENDS Trainer, TLAPS, FiniteSetTheorems, SequenceTheorems

-----------------------------------------------------------------------------
(***************************************************************************)
(* Types.                                                                  *)
(***************************************************************************)
Files == {"latest", "best"}

\* What TrainerTypeOK says of one file.
FileTypeOK(f) ==
  Whole(file[f]) =>
    /\ file[f] \in CheckpointType
    /\ Len(file[f].history) \in 1 .. Epochs
    /\ file[f].weights = file[f].history[Len(file[f].history)]

LEMMA TrainerTypeInit == Init => TrainerTypeOK
  <1> SUFFICES ASSUME Init PROVE TrainerTypeOK
    OBVIOUS
  <1>1. \A f \in Files : file[f] = None
    BY DEF Init, Files
  <1>2. stopping \in Stopping
    BY DEF Init, Stopping
  <1>3. history \in Seq(Loss) /\ Len(history) = 0
    BY DEF Init
  <1> QED
    BY <1>1, <1>2, <1>3, TrainerAssumption DEF Init, TrainerTypeOK, Files, Whole, Loss

\* A loss compares with the best loss as numbers do.
LEMMA LossTypes ==
  /\ Losses \subseteq Nat /\ NaN \notin Nat /\ NaN \notin Losses /\ Inf \notin Losses
  /\ None \notin Loss /\ Torn \notin Loss /\ MinDelta \in Nat /\ Inf \in Nat
  /\ \A l \in Losses : l < Inf - MinDelta /\ l < Inf
  <1>1. Losses \subseteq Nat /\ MinDelta \in Nat /\ Inf \in Nat /\ NaN \notin Nat
    BY TrainerAssumption
  <1>2. ASSUME NEW l \in Losses PROVE l < Inf - MinDelta /\ l < Inf
    <2>1. l \in Nat /\ l + MinDelta < Inf
      BY TrainerAssumption
    <2> QED
      BY <1>1, <2>1
  <1>3. Inf \notin Losses
    BY <1>1, <1>2
  <1>4. None \notin Loss /\ Torn \notin Loss
    BY TrainerAssumption DEF Loss
  <1> QED
    BY <1>1, <1>2, <1>3, <1>4

LEMMA StepTyped ==
  ASSUME NEW es \in Stopping, NEW loss \in Loss
  PROVE  /\ AfterStep(es, loss) \in Stopping
         /\ \/ /\ Below(loss, es.best - MinDelta) /\ loss \in Losses
               /\ AfterStep(es, loss).best = loss /\ AfterStep(es, loss).counter = 0
            \/ /\ ~Below(loss, es.best - MinDelta)
               /\ AfterStep(es, loss).best = es.best
               /\ AfterStep(es, loss).counter = es.counter + 1
  <1>1. es \in [best : Losses \cup {Inf}, counter : Nat]
    BY DEF Stopping
  <1>2. CASE Below(loss, es.best - MinDelta)
    <2>1. loss \in Losses
      BY <1>2 DEF Below, Loss
    <2> QED
      BY <1>2, <2>1 DEF AfterStep, Stopping
  <1>3. CASE ~Below(loss, es.best - MinDelta)
    <2>1. AfterStep(es, loss) = [es EXCEPT !.counter = @ + 1]
      BY <1>3 DEF AfterStep
    <2> QED
      BY <1>1, <1>3, <2>1 DEF Stopping
  <1> QED
    BY <1>2, <1>3

\* A process begins with a memory that is well typed.
LEMMA BeginTyped ==
  ASSUME TrainerTypeOK, NEW w \in Loss, NEW b \in Losses \cup {None}, NEW es \in Stopping,
         NEW h \in Seq(Loss), Len(h) <= Epochs, NEW r \in 0 .. MaxStarts,
         NEW l \in SUBSET (1 .. Epochs), Begin(w, b, es, h, r, l)
  PROVE  TrainerTypeOK'
  <1>1. starts' \in 0 .. MaxStarts /\ UNCHANGED <<file, manifest>>
    BY TrainerAssumption DEF Begin, TrainerTypeOK
  <1>2. stage' \in {"epoch", "ending"} /\ (stage' = "epoch" => Len(h) < Epochs)
    BY DEF Begin
  <1>3. /\ weights' = w /\ best' = b /\ stopping' = es /\ history' = h /\ run' = r /\ lost' = l
    BY DEF Begin
  <1> QED
    BY <1>1, <1>2, <1>3 DEF TrainerTypeOK

LEMMA CheckpointTyped ==
  ASSUME TrainerTypeOK, stage \in {"latest", "best"}
  PROVE  /\ Checkpoint \in CheckpointType
         /\ Len(Checkpoint.history) \in 1 .. Epochs
         /\ Checkpoint.weights = Checkpoint.history[Len(Checkpoint.history)]
  BY TrainerAssumption DEF TrainerTypeOK, Checkpoint, CheckpointType

LEMMA TrainerTypeStep ==
  ASSUME TrainerTypeOK, [Next]_vars
  PROVE  TrainerTypeOK'
  <1>0. /\ starts \in Nat /\ Epochs \in Nat /\ MaxStarts \in Nat /\ Len(history) \in Nat
    BY TrainerAssumption DEF TrainerTypeOK
  <1>1. CASE StartFresh
    <2>1. starts + 1 \in 0 .. MaxStarts
      BY <1>0, <1>1 DEF StartFresh, Begin
    <2>2. [best |-> Inf, counter |-> 0] \in Stopping
      BY DEF Stopping
    <2>3. <<>> \in Seq(Loss) /\ Len(<<>>) <= Epochs
      BY <1>0
    <2>4. /\ NaN \in Loss /\ None \in Losses \cup {None}
          /\ {} \in SUBSET (1 .. Epochs)
      BY DEF Loss
    <2>5. Begin(NaN, None, [best |-> Inf, counter |-> 0], <<>>, starts + 1, {})
      BY <1>1 DEF StartFresh
    <2> QED
      BY <2>1, <2>2, <2>3, <2>4, <2>5, BeginTyped
  <1>2. ASSUME NEW f \in Files, Resume(f) PROVE TrainerTypeOK'
    <2> DEFINE c == file[f]
    <2>1. /\ c \in CheckpointType /\ Len(c.history) \in 1 .. Epochs
      BY <1>2 DEF Resume, TrainerTypeOK, Files
    <2>2. Begin(c.weights, c.best, c.stopping, c.history, c.run, c.lost \cup {Len(c.history)})
      BY <1>2 DEF Resume, RestoredBestState
    <2> HIDE DEF c
    <2>3. /\ c.weights \in Loss /\ c.best \in Losses \cup {None} /\ c.stopping \in Stopping
          /\ c.history \in Seq(Loss) /\ Len(c.history) <= Epochs
          /\ c.run \in 0 .. MaxStarts
          /\ c.lost \cup {Len(c.history)} \in SUBSET (1 .. Epochs)
      BY <2>1, <1>0 DEF CheckpointType
    <2> QED
      BY <2>2, <2>3, BeginTyped
  <1>3. ASSUME NEW f \in Files, ResumeFails(f) PROVE TrainerTypeOK'
    BY <1>0, <1>3 DEF ResumeFails, memory, TrainerTypeOK, Files, IsBest, Whole
  <1>4. ASSUME NEW loss \in Loss, RunEpoch(loss) PROVE TrainerTypeOK'
    <2>1. /\ history' \in Seq(Loss) /\ Len(history') = Len(history) + 1
          /\ history'[Len(history')] = loss
      BY <1>4, AppendProperties DEF RunEpoch, TrainerTypeOK
    <2>2. Len(history) < Epochs
      BY <1>4 DEF RunEpoch, TrainerTypeOK
    <2>3. \A f \in Files : Whole(file'[f]) => file'[f] = file[f] /\ Whole(file[f])
      BY <1>4 DEF RunEpoch, TrainerTypeOK, Files, Whole
    <2>4. DOMAIN file' = Files
      BY <1>4 DEF RunEpoch, TrainerTypeOK, Files
    <2> QED
      BY <1>0, <1>4, <2>1, <2>2, <2>3, <2>4 DEF RunEpoch, TrainerTypeOK, Files
  <1>5. CASE CloseLatest
    <2>1. \A f \in Files : \/ file'[f] = Torn \/ file'[f] = file[f]
                           \/ f = "latest" /\ file'[f] = Checkpoint
      BY <1>5 DEF CloseLatest, TrainerTypeOK, Files
    <2>2. ~Whole(Torn)
      BY DEF Whole
    <2>3. \A f \in Files : FileTypeOK(f)'
      BY <1>5, <2>1, <2>2, CheckpointTyped DEF CloseLatest, TrainerTypeOK, Files, FileTypeOK
    <2>4. Whole(file'["best"]) => file'["best"] = file["best"]
      BY <1>5, <2>1, <2>2 DEF CloseLatest, Files
    <2>5. /\ stage' \in {"best", "step"} /\ (stage' = "best" => IsBest) /\ stage = "latest"
          /\ UNCHANGED <<memory, manifest, starts>> /\ DOMAIN file' = Files
      BY <1>5 DEF CloseLatest, Files
    <2> QED
      BY <2>3, <2>4, <2>5 DEF TrainerTypeOK, Files, FileTypeOK, memory, IsBest
  <1>6. CASE CloseBest
    <2>1. /\ file'["best"] = Checkpoint /\ file'["latest"] = file["latest"]
          /\ DOMAIN file' = Files
      BY <1>6 DEF CloseBest, TrainerTypeOK, Files
    <2>2. weights \in Losses
      BY <1>6 DEF CloseBest, TrainerTypeOK, IsBest, Below, Loss
    <2>3. \A f \in Files : FileTypeOK(f)'
      BY <1>6, <2>1, CheckpointTyped DEF CloseBest, TrainerTypeOK, Files, FileTypeOK
    <2>4. file'["best"].weights # NaN
      BY <2>1, <2>2, LossTypes DEF Checkpoint
    <2>5. /\ stage = "best" /\ stage' = "step" /\ best' = weights
          /\ UNCHANGED <<weights, stopping, history, run, lost, manifest, starts>>
      BY <1>6 DEF CloseBest
    <2> QED
      BY <2>1, <2>2, <2>3, <2>4, <2>5 DEF TrainerTypeOK, Files, FileTypeOK
  <1>7. CASE Step
    <2>1. stage = "step" /\ Len(history) >= 1 /\ history[Len(history)] \in Loss
      BY <1>7 DEF Step, TrainerTypeOK
    <2>2. stopping' \in Stopping
      BY <1>7, <2>1, StepTyped DEF Step, TrainerTypeOK
    <2>3. weights' \in Loss
      BY <1>7 DEF Step, TrainerTypeOK, Loss
    <2>4. stage' \in {"ending", "epoch"} /\ (stage' = "epoch" => Len(history) < Epochs)
      BY <1>0, <1>7 DEF Step
    <2>5. UNCHANGED <<best, history, run, lost, file, manifest, starts>>
      BY <1>7 DEF Step
    <2> QED
      BY <2>2, <2>3, <2>4, <2>5 DEF TrainerTypeOK
  <1>8. CASE OpenManifest \/ Interrupt
    BY <1>8 DEF OpenManifest, Interrupt, memory, TrainerTypeOK
  <1>9. CASE CloseManifest
    <2>1. Len(history) \in 0 .. Epochs /\ stopping.best \in Losses \cup {Inf}
      BY <1>0 DEF TrainerTypeOK, Stopping
    <2>2. manifest' \in [epochs_run : 0 .. Epochs, val_nll : Loss, best_val_loss : Losses \cup {Inf}]
      BY <1>9, <2>1 DEF CloseManifest, TrainerTypeOK
    <2>3. stage' = "off" /\ UNCHANGED <<memory, file, starts>>
      BY <1>9 DEF CloseManifest
    <2> QED
      BY <2>2, <2>3 DEF memory, TrainerTypeOK
  <1>10. CASE UNCHANGED vars
    BY <1>10 DEF vars, memory, TrainerTypeOK, IsBest
  <1> QED
    BY <1>1, <1>2, <1>3, <1>4, <1>5, <1>6, <1>7, <1>8, <1>9, <1>10 DEF Next, Files

\* Types: a checkpoint holds the weights its history ends with, a history is never longer
\* than the configuration asks for, and best.pt is never of a NaN.
THEOREM TrainerTypeCorrect == Spec => []TrainerTypeOK
  BY TrainerTypeInit, TrainerTypeStep, PTL DEF Spec

-----------------------------------------------------------------------------
(***************************************************************************)
(* What a memory knows of its best.                                        *)
(***************************************************************************)
LEMMA SeenIs ==
  ASSUME NEW c \in CheckpointType, NEW n \in Nat, n <= Len(c.history)
  PROVE  Seen(c, n) = (1 .. n) \ c.lost /\ IsFiniteSet(Seen(c, n))
  <1>1. Len(c.history) \in Nat
    BY DEF CheckpointType
  <1>2. Seen(c, n) = (1 .. n) \ c.lost
    BY <1>1 DEF Seen, Kept
  <1>3. IsFiniteSet(1 .. n)
    BY FS_Interval
  <1> QED
    BY <1>2, <1>3, FS_Subset

\* Who has seen the same epochs, with the same losses, knows the same of them.
LEMMA KnowsAgree ==
  ASSUME NEW c, NEW d, NEW n, NEW m, Knows(c, n), Seen(d, m) = Seen(c, n),
         \A i \in Seen(c, n) : d.history[i] = c.history[i],
         d.stopping = c.stopping, d.lost \subseteq 1 .. m, KnowsBest(d)
  PROVE  Knows(d, m)
  <1>1. Unbeaten(d, m)
    BY DEF Knows, Unbeaten
  <1>2. CountsRight(d, m)
    BY DEF Knows, CountsRight
  <1> QED
    BY <1>1, <1>2 DEF Knows

\* A fresh memory has seen nothing.
LEMMA KnowsNothing ==
  ASSUME NEW c, c.history = <<>>, c.lost = {}, c.stopping = [best |-> Inf, counter |-> 0]
  PROVE  Knows(c, 0)
  <1>1. Seen(c, 0) = {} /\ Cardinality(Seen(c, 0)) = 0
    BY FS_EmptySet DEF Seen
  <1>2. c.stopping.best = Inf /\ c.stopping.counter = 0
    OBVIOUS
  <1>3. KnowsBest(c) /\ Unbeaten(c, 0)
    BY <1>1, <1>2 DEF KnowsBest, Unbeaten
  <1>4. CountsRight(c, 0)
    BY <1>1, <1>2 DEF CountsRight
  <1> QED
    BY <1>3, <1>4 DEF Knows

\* Early stopping sees one epoch more: it is the new best, with its state already kept,
\* or the counter counts it.
LEMMA KnowsOneMore ==
  ASSUME NEW c \in CheckpointType, NEW d \in CheckpointType, NEW n \in Nat,
         Len(c.history) = n + 1, Knows(c, n), Below(c.history[n + 1], c.stopping.best) =>
           c.best = c.history[n + 1],
         d.history = c.history, d.lost = c.lost, d.best = c.best,
         d.stopping = AfterStep(c.stopping, c.history[n + 1])
  PROVE  Knows(d, n + 1)
  <1> DEFINE h == c.history
             S == Seen(c, n)
             loss == h[n + 1]
             es == c.stopping
  <1>1. /\ h \in Seq(Loss) /\ es \in Stopping /\ loss \in Loss
        /\ \A i \in 1 .. n + 1 : h[i] \in Loss
    BY DEF CheckpointType
  <1>2. /\ S = (1 .. n) \ c.lost /\ IsFiniteSet(S)
        /\ Seen(d, n + 1) = (1 .. n + 1) \ c.lost
    BY SeenIs
  <1>3. c.lost \subseteq 1 .. n
    BY DEF Knows
  <1>4. Seen(d, n + 1) = S \cup {n + 1} /\ n + 1 \notin S /\ S \subseteq 1 .. n
    BY <1>2, <1>3
  <1>5. /\ es.best \in Nat /\ es.best - MinDelta \in Int /\ MinDelta \in Nat
        /\ \A i \in S : h[i] # NaN => h[i] \in Nat
    <2>1. es.best \in Losses \cup {Inf}
      BY <1>1 DEF Stopping
    <2>2. \A i \in S : h[i] \in Losses \cup {NaN}
      BY <1>1, <1>4 DEF Loss
    <2>3. Losses \subseteq Nat /\ Inf \in Nat /\ MinDelta \in Nat
      BY LossTypes
    <2>4. es.best \in Nat
      BY <2>1, <2>3
    <2>5. \A a, b \in Nat : a - b \in Int
      OBVIOUS
    <2>6. es.best - MinDelta \in Int
      BY <2>3, <2>4, <2>5
    <2> QED
      BY <2>2, <2>3, <2>4, <2>6
  <1>6. d.lost \subseteq 1 .. n + 1
    BY <1>3
  <1>7. CASE Below(loss, es.best - MinDelta)
    <2>1. /\ d.stopping.best = loss /\ d.stopping.counter = 0 /\ loss \in Losses
          /\ loss \in Nat /\ loss < es.best - MinDelta
      BY <1>1, <1>7, StepTyped, LossTypes DEF Below
    <2>2. d.best = loss
      BY <1>5, <2>1, LossTypes DEF Below
    <2>3. \A i \in S : h[i] # NaN => h[i] >= es.best - MinDelta
      BY <1>5 DEF Knows, Unbeaten, Below
    <2>4. \A i \in S : h[i] # NaN => loss < h[i]
      BY <1>5, <2>1, <2>3
    <2>5. KnowsBest(d)
      BY <2>1, <2>2 DEF KnowsBest
    <2>6. Unbeaten(d, n + 1)
      BY <1>4, <1>5, <2>1, <2>4 DEF Unbeaten, Below
    <2>7. CountsRight(d, n + 1)
      <3>1. {j \in Seen(d, n + 1) : j > n + 1} = {}
        BY <1>4
      <3>2. Cardinality({j \in Seen(d, n + 1) : j > n + 1}) = 0
        BY <3>1, FS_EmptySet
      <3>3. \A j \in Seen(d, n + 1) : (j < n + 1 /\ d.history[j] # NaN) => loss < d.history[j]
        BY <1>4, <2>4
      <3> QED
        BY <1>4, <2>1, <3>2, <3>3 DEF CountsRight
    <2> QED
      BY <1>6, <2>5, <2>6, <2>7 DEF Knows
  <1>8. CASE ~Below(loss, es.best - MinDelta)
    <2>1. d.stopping.best = es.best /\ d.stopping.counter = es.counter + 1
      BY <1>1, <1>8, StepTyped
    <2>2. KnowsBest(d)
      BY <2>1 DEF Knows, KnowsBest
    <2>3. Unbeaten(d, n + 1)
      BY <1>4, <1>8, <2>1 DEF Knows, Unbeaten
    <2>4. CASE /\ es.best = Inf /\ es.counter = Cardinality(S)
               /\ \A i \in S : h[i] = NaN
      <3>1. loss = NaN
        BY <1>1, <1>8, <2>4, LossTypes DEF Loss, Below
      <3>2. Cardinality(Seen(d, n + 1)) = Cardinality(S) + 1
        BY <1>2, <1>4, FS_AddElement
      <3> QED
        BY <1>4, <1>6, <2>1, <2>2, <2>3, <2>4, <3>1, <3>2 DEF Knows, CountsRight
    <2>5. ASSUME NEW b \in S,
                 h[b] = es.best, es.counter = Cardinality({j \in S : j > b}),
                 \A j \in S : (j < b /\ h[j] # NaN) => h[b] < h[j]
          PROVE  Knows(d, n + 1)
      <3> DEFINE R == {j \in S : j > b}
      <3>1. IsFiniteSet(R) /\ n + 1 \notin R
        BY <1>2, <1>4, FS_Subset
      <3>2. {j \in Seen(d, n + 1) : j > b} = R \cup {n + 1}
        BY <1>4
      <3>3. Cardinality(R \cup {n + 1}) = Cardinality(R) + 1
        BY <3>1, FS_AddElement
      <3>4. d.stopping.counter = Cardinality({j \in Seen(d, n + 1) : j > b})
        BY <2>1, <2>5, <3>2, <3>3
      <3>5. \A j \in Seen(d, n + 1) : (j < b /\ d.history[j] # NaN) => d.history[b] < d.history[j]
        BY <1>4, <2>5
      <3>6. b \in Seen(d, n + 1) /\ d.history[b] = d.stopping.best
        BY <1>4, <2>1, <2>5
      <3> QED
        BY <1>6, <2>2, <2>3, <3>4, <3>5, <3>6 DEF Knows, CountsRight
    <2> QED
      BY <2>4, <2>5 DEF Knows, CountsRight
  <1> QED
    BY <1>7, <1>8

-----------------------------------------------------------------------------
(***************************************************************************)
(* The inductive invariant.                                                *)
(***************************************************************************)
LEMMA MemoryTyped ==
  ASSUME TrainerTypeOK
  PROVE  /\ Checkpoint \in CheckpointType
         /\ Checkpoint.history = history /\ Checkpoint.lost = lost /\ Checkpoint.best = best
         /\ Checkpoint.stopping = stopping /\ Checkpoint.run = run
         /\ Checkpoint.weights = weights
         /\ Len(history) \in Nat
  BY DEF TrainerTypeOK, Checkpoint, CheckpointType

LEMMA NextMemoryTyped ==
  ASSUME TrainerTypeOK'
  PROVE  /\ Checkpoint' \in CheckpointType
         /\ Checkpoint'.history = history' /\ Checkpoint'.lost = lost'
         /\ Checkpoint'.best = best' /\ Checkpoint'.stopping = stopping'
  BY DEF TrainerTypeOK, Checkpoint, CheckpointType

LEMMA TrainerInit == Init => TrainerInv
  <1> SUFFICES ASSUME Init PROVE TrainerInv
    OBVIOUS
  <1>1. ~Whole(file["latest"]) /\ ~Whole(file["best"]) /\ ~Whole(manifest) /\ stage = "off"
    BY DEF Init, Whole
  <1> QED
    BY <1>1, TrainerTypeInit DEF TrainerInv, FilesInv, ProcessInv, StoppedWithBest, AmidEpoch

\* While the files and the number of starts stay, the files keep their part.
LEMMA FilesStay ==
  ASSUME FilesInv, starts' >= starts, starts \in Nat, starts' \in Nat, TrainerTypeOK,
         UNCHANGED file
  PROVE  FilesInv'
  <1>1. \A f \in {"latest", "best"} : Whole(file[f]) => file[f].run <= starts'
    BY DEF FilesInv, TrainerTypeOK, CheckpointType
  <1> QED
    BY <1>1 DEF FilesInv, Whole

\* The process has begun with a memory that knows its best, and best.pt of the same run.
LEMMA BeginInv ==
  ASSUME TrainerTypeOK, TrainerTypeOK', TrainerInv,
         NEW w, NEW b, NEW es, NEW h, NEW r, NEW l, Begin(w, b, es, h, r, l),
         r <= starts', Knows(Checkpoint, Len(history))', es.counter < Patience,
         (Whole(file["best"]) /\ file["best"].run = r) => file["best"].weights <= es.best
  PROVE  TrainerInv'
  <1>1. /\ starts' = starts + 1 /\ stage' = IF Len(h) < Epochs THEN "epoch" ELSE "ending"
        /\ stopping' = es /\ history' = h /\ run' = r /\ UNCHANGED <<file, manifest>>
    BY DEF Begin
  <1>2. starts \in Nat /\ starts' \in Nat /\ starts' >= starts
    BY <1>1 DEF TrainerTypeOK
  <1>3. FilesInv'
    BY <1>1, <1>2, FilesStay DEF TrainerInv
  <1>4. ProcessInv'
    BY <1>1 DEF ProcessInv, AmidEpoch, Whole
  <1>5. StoppedWithBest'
    BY <1>1 DEF TrainerInv, StoppedWithBest, Whole
  <1> QED
    BY <1>3, <1>4, <1>5 DEF TrainerInv

LEMMA FreshInv ==
  ASSUME TrainerTypeOK, TrainerTypeOK', TrainerInv, StartFresh
  PROVE  TrainerInv'
  <1>1. Begin(NaN, None, [best |-> Inf, counter |-> 0], <<>>, starts + 1, {})
    BY DEF StartFresh
  <1>2. /\ starts' = starts + 1 /\ history' = <<>> /\ lost' = {}
        /\ stopping' = [best |-> Inf, counter |-> 0] /\ starts' \in Nat
    BY <1>1 DEF Begin, TrainerTypeOK
  <1>3. Knows(Checkpoint', 0)
    BY <1>2, KnowsNothing DEF Checkpoint
  <1>4. Knows(Checkpoint, Len(history))'
    BY <1>2, <1>3 DEF Knows, KnowsBest, Unbeaten, CountsRight, Seen, Kept, Below
  <1>5. Whole(file["best"]) => file["best"].run # starts + 1
    BY DEF TrainerTypeOK, CheckpointType, TrainerInv, FilesInv
  <1>6. 0 < Patience
    BY TrainerAssumption
  <1> QED
    BY <1>1, <1>2, <1>4, <1>5, <1>6, BeginInv

LEMMA ResumeInv ==
  ASSUME TrainerTypeOK, TrainerTypeOK', TrainerInv, NEW f \in Files, Resume(f)
  PROVE  TrainerInv'
  <1> DEFINE c == file[f]
             n == Len(c.history) - 1
  <1>1. /\ c \in CheckpointType /\ Len(c.history) \in 1 .. Epochs /\ c.run <= starts
        /\ c.stopping.counter < Patience /\ Knows(c, n)
    BY DEF Resume, TrainerTypeOK, Files, TrainerInv, FilesInv
  <1>2. Begin(c.weights, c.best, c.stopping, c.history, c.run, c.lost \cup {Len(c.history)})
    BY DEF Resume, RestoredBestState
  <1>3. /\ history' = c.history /\ lost' = c.lost \cup {n + 1} /\ stopping' = c.stopping
        /\ best' = c.best /\ starts' = starts + 1
    BY <1>1, <1>2 DEF Begin, CheckpointType
  <1>4. n \in Nat /\ n + 1 = Len(c.history) /\ starts \in Nat /\ c.run \in Nat
    BY <1>1 DEF CheckpointType, TrainerTypeOK
  <1>5. (Whole(file["best"]) /\ file["best"].run = c.run) =>
          file["best"].weights <= c.stopping.best
    <2>1. CASE f = "latest"
      BY <2>1 DEF TrainerInv, FilesInv, Resume
    <2>2. CASE f = "best"
      <3>1. Whole(file["best"]) =>
              /\ file["best"].weights \in Losses \cup {NaN} /\ file["best"].weights # NaN
              /\ c.stopping.best \in Losses \cup {Inf}
        BY <1>1, <2>2 DEF TrainerTypeOK, CheckpointType, Loss, Stopping
      <3>2. Whole(file["best"]) => file["best"].weights < c.stopping.best
        BY <2>2 DEF TrainerInv, FilesInv
      <3>3. Losses \subseteq Nat /\ Inf \in Nat
        BY LossTypes
      <3>4. \A a, b \in Nat : a < b => a <= b
        OBVIOUS
      <3>5. Whole(file["best"]) => file["best"].weights \in Nat /\ c.stopping.best \in Nat
        BY <3>1, <3>3
      <3> QED
        BY <3>2, <3>4, <3>5
    <2> QED
      BY <2>1, <2>2 DEF Files
  <1> DEFINE d == Checkpoint'
  <1>6. /\ d \in CheckpointType /\ d.history = c.history /\ d.lost = c.lost \cup {n + 1}
        /\ d.stopping = c.stopping /\ d.best = c.best
    BY <1>3, NextMemoryTyped
  <1> HIDE DEF c, n, d
  <1>7. Seen(c, n) = (1 .. n) \ c.lost /\ Seen(d, n + 1) = (1 .. n + 1) \ d.lost
    BY <1>1, <1>4, <1>6, SeenIs
  <1>8. c.lost \subseteq 1 .. n /\ KnowsBest(c)
    BY <1>1 DEF Knows
  <1>9. Knows(d, n + 1)
    <2>1. Seen(d, n + 1) = Seen(c, n) /\ d.lost \subseteq 1 .. n + 1
      BY <1>4, <1>6, <1>7, <1>8
    <2>2. KnowsBest(d)
      BY <1>6, <1>8 DEF KnowsBest
    <2> QED
      BY <1>1, <1>6, <2>1, <2>2, KnowsAgree
  <1>10. Knows(Checkpoint, Len(history))'
    BY <1>3, <1>4, <1>9 DEF d, Knows, KnowsBest, Unbeaten, CountsRight, Seen, Kept, Below
  <1>11. c.run <= starts'
    BY <1>1, <1>3, <1>4
  <1> QED
    BY <1>1, <1>2, <1>5, <1>10, <1>11, BeginInv DEF c

LEMMA RunEpochInv ==
  ASSUME TrainerTypeOK, TrainerTypeOK', TrainerInv, NEW loss \in Loss, RunEpoch(loss)
  PROVE  TrainerInv'
  <1> DEFINE c == Checkpoint
             d == Checkpoint'
             n == Len(history)
  <1>1. /\ stage = "epoch" /\ stage' = "latest" /\ history' = Append(history, loss)
        /\ UNCHANGED <<best, stopping, manifest, starts, run, lost>>
        /\ file'["latest"] = Torn /\ file'["best"] = file["best"]
    BY DEF RunEpoch, TrainerTypeOK
  <1>2. /\ n \in Nat /\ Len(history') = n + 1 /\ \A i \in 1 .. n : history'[i] = history[i]
    BY <1>1, AppendProperties DEF TrainerTypeOK
  <1>3. /\ c \in CheckpointType /\ c.history = history /\ c.lost = lost /\ c.stopping = stopping
        /\ d \in CheckpointType /\ d.history = history' /\ d.lost = lost /\ d.stopping = stopping
        /\ d.best = c.best
    BY <1>1, MemoryTyped, NextMemoryTyped
  <1>4. Knows(c, n)
    BY <1>1 DEF TrainerInv, ProcessInv, AmidEpoch
  <1>5. Seen(c, n) = (1 .. n) \ lost /\ Seen(d, n) = (1 .. n) \ lost
    BY <1>2, <1>3, SeenIs
  <1>6. KnowsBest(d) /\ d.lost \subseteq 1 .. n
    BY <1>3, <1>4 DEF Knows, KnowsBest
  <1>7. \A i \in Seen(c, n) : d.history[i] = c.history[i]
    BY <1>2, <1>3, <1>5
  <1>8. Knows(d, n)
    BY <1>3, <1>4, <1>5, <1>6, <1>7, KnowsAgree
  <1>9. FilesInv'
    BY <1>1 DEF TrainerInv, FilesInv, Whole
  <1>10. Knows(Checkpoint', Len(history') - 1)
    BY <1>2, <1>8
  <1>11. ProcessInv'
    BY <1>1, <1>10 DEF TrainerInv, ProcessInv, AmidEpoch, Whole
  <1> QED
    BY <1>1, <1>9, <1>11 DEF TrainerInv, StoppedWithBest, Whole

LEMMA CloseLatestInv ==
  ASSUME TrainerTypeOK, TrainerTypeOK', TrainerInv, CloseLatest
  PROVE  TrainerInv'
  <1>1. /\ stage = "latest" /\ stage' = IF IsBest THEN "best" ELSE "step"
        /\ UNCHANGED <<weights, best, stopping, history, run, lost, manifest, starts>>
        /\ file'["latest"] = Checkpoint
        /\ file'["best"] = IF IsBest THEN Torn ELSE file["best"]
    BY DEF CloseLatest, memory
  <1>2. Checkpoint' = Checkpoint /\ IsBest' = IsBest
    BY <1>1 DEF Checkpoint, IsBest
  <1>3. /\ Checkpoint.history = history /\ Checkpoint.stopping = stopping
        /\ Checkpoint.run = run
    BY DEF Checkpoint
  <1>4. /\ Knows(Checkpoint, Len(history) - 1) /\ run <= starts /\ stopping.counter < Patience
        /\ (Whole(file["best"]) /\ file["best"].run = run) =>
             file["best"].weights <= stopping.best
    BY <1>1 DEF TrainerInv, ProcessInv, AmidEpoch
  <1>5. FilesInv'
    <2>1. /\ file'["latest"].run <= starts' /\ file'["latest"].stopping.counter < Patience
          /\ Knows(file'["latest"], Len(file'["latest"].history) - 1)
      BY <1>1, <1>3, <1>4
    <2>2. Whole(file'["best"]) => file'["best"] = file["best"]
      BY <1>1 DEF Whole
    <2>3. (Whole(file'["best"]) /\ file'["latest"].run = file'["best"].run) =>
            file'["best"].weights <= file'["latest"].stopping.best
      BY <1>1, <1>3, <1>4, <2>2
    <2> QED
      BY <1>1, <2>1, <2>2, <2>3 DEF TrainerInv, FilesInv
  <1>6. ProcessInv'
    <2>1. (Whole(file'["best"]) /\ file'["best"].run = run') =>
            file'["best"].weights <= stopping'.best
      BY <1>1, <1>4 DEF Whole
    <2>2. stage' = "best" => file'["latest"].stopping = stopping'
      BY <1>1, <1>3
    <2>3. ~(stage' = "step" /\ IsBest')
      BY <1>1, <1>2
    <2> QED
      BY <1>1, <1>2, <1>4, <2>1, <2>2, <2>3 DEF ProcessInv, AmidEpoch
  <1> QED
    BY <1>1, <1>5, <1>6 DEF TrainerInv, StoppedWithBest

LEMMA CloseBestInv ==
  ASSUME TrainerTypeOK, TrainerTypeOK', TrainerInv, CloseBest
  PROVE  TrainerInv'
  <1> DEFINE c == Checkpoint
             d == Checkpoint'
             n == Len(history) - 1
  <1>1. /\ stage = "best" /\ stage' = "step" /\ best' = weights
        /\ UNCHANGED <<weights, stopping, history, run, lost, manifest, starts>>
        /\ file'["best"] = c /\ file'["latest"] = file["latest"]
    BY DEF CloseBest, TrainerTypeOK
  <1>2. weights < stopping.best /\ weights \in Losses
    BY <1>1 DEF TrainerTypeOK, IsBest, Below, Loss
  <1>3. weights <= stopping.best
    <2>1. weights \in Nat /\ stopping.best \in Nat
      BY <1>2, LossTypes DEF TrainerTypeOK, Stopping
    <2> QED
      BY <1>2, <2>1
  <1>4. /\ c.history = history /\ c.lost = lost /\ c.stopping = stopping /\ c.run = run
        /\ c.weights = weights
        /\ d.history = history /\ d.lost = lost /\ d.stopping = stopping /\ d.best = weights
    BY <1>1, MemoryTyped, NextMemoryTyped
  <1>5. /\ Knows(c, n) /\ run <= starts /\ stopping.counter < Patience
        /\ file["latest"].stopping = stopping
    BY <1>1 DEF TrainerInv, ProcessInv, AmidEpoch
  <1> HIDE DEF c, d
  <1>6. Knows(d, n)
    <2>1. Seen(d, n) = Seen(c, n)
      BY <1>4 DEF Seen
    <2>2. KnowsBest(d) /\ d.lost \subseteq 1 .. n
      BY <1>2, <1>3, <1>4, <1>5 DEF Knows, KnowsBest
    <2> QED
      BY <1>4, <1>5, <2>1, <2>2, KnowsAgree
  <1>7. FilesInv'
    <2>1. /\ file'["best"].run <= starts' /\ file'["best"].stopping.counter < Patience
          /\ Knows(file'["best"], Len(file'["best"].history) - 1)
      BY <1>1, <1>4, <1>5
    <2>2. /\ file'["best"].weights < file'["best"].stopping.best
          /\ file'["best"].weights <= file'["latest"].stopping.best
      BY <1>1, <1>2, <1>3, <1>4, <1>5
    <2> QED
      BY <1>1, <2>1, <2>2 DEF TrainerInv, FilesInv
  <1>8. ProcessInv'
    <2>1. Knows(Checkpoint', Len(history') - 1)
      BY <1>1, <1>6 DEF d
    <2>2. file'["best"].weights <= stopping'.best /\ file'["best"].weights = weights'
      BY <1>1, <1>3, <1>4
    <2> QED
      BY <1>1, <1>5, <2>1, <2>2 DEF ProcessInv, AmidEpoch
  <1> QED
    BY <1>1, <1>7, <1>8 DEF TrainerInv, StoppedWithBest

LEMMA StepInv ==
  ASSUME TrainerTypeOK, TrainerTypeOK', TrainerInv, Step
  PROVE  TrainerInv'
  <1> DEFINE c == Checkpoint
             d == Checkpoint'
             n == Len(history) - 1
             Stop == stopping'.counter >= Patience
  <1>1. /\ stage = "step" /\ stopping' = AfterStep(stopping, history[n + 1])
        /\ weights' = IF Stop /\ best # None THEN best ELSE weights
        /\ stage' = IF Stop \/ Len(history) >= Epochs THEN "ending" ELSE "epoch"
        /\ UNCHANGED <<best, history, run, lost, file, manifest, starts>>
    BY DEF Step, TrainerTypeOK
  <1>2. /\ n \in Nat /\ Len(history) = n + 1 /\ weights = history[n + 1] /\ weights \in Loss
        /\ Len(history) \in Nat /\ Epochs \in Nat
        /\ stopping \in Stopping /\ stopping' \in Stopping
        /\ Patience \in Nat /\ stopping'.counter \in Nat
    BY <1>1, TrainerAssumption DEF TrainerTypeOK, Stopping
  <1>3. /\ c \in CheckpointType /\ c.history = history /\ c.lost = lost /\ c.stopping = stopping
        /\ c.best = best
        /\ d \in CheckpointType /\ d.history = history /\ d.lost = lost /\ d.stopping = stopping'
        /\ d.best = best
    BY <1>1, MemoryTyped, NextMemoryTyped
  <1>4. /\ Knows(c, n) /\ run <= starts
        /\ IsBest => best = weights /\ file["best"].weights = weights
        /\ (Whole(file["best"]) /\ file["best"].run = run) =>
             file["best"].weights <= stopping.best
    BY <1>1 DEF TrainerInv, ProcessInv, AmidEpoch
  <1>5. Below(c.history[n + 1], c.stopping.best) => c.best = c.history[n + 1]
    BY <1>2, <1>3, <1>4 DEF IsBest
  <1>6. Knows(d, n + 1)
    <2> HIDE DEF c, d, n
    <2> QED
      BY <1>1, <1>2, <1>3, <1>4, <1>5, KnowsOneMore
  <1>7. FilesInv'
    BY <1>1, FilesStay DEF TrainerInv, TrainerTypeOK
  <1>8. (Whole(file["best"]) /\ file["best"].run = run) =>
          file["best"].weights <= stopping'.best
    <2>1. CASE Below(weights, stopping.best - MinDelta)
      <3>1. weights \in Losses /\ stopping'.best = weights /\ weights \in Nat
        BY <1>1, <1>2, <2>1, StepTyped, LossTypes
      <3>2. IsBest
        <4>1. stopping.best \in Nat /\ MinDelta \in Nat /\ weights < stopping.best - MinDelta
          BY <1>2, <2>1, LossTypes DEF Stopping, Below
        <4>2. weights < stopping.best
          BY <3>1, <4>1
        <4> QED
          BY <2>1, <4>2 DEF IsBest, Below
      <3> QED
        BY <1>4, <3>1, <3>2
    <2>2. CASE ~Below(weights, stopping.best - MinDelta)
      <3>1. stopping'.best = stopping.best
        BY <1>1, <1>2, <2>2, StepTyped
      <3> QED
        BY <1>4, <3>1
    <2> QED
      BY <2>1, <2>2
  <1>9. (Stop /\ stopping'.best # Inf) => weights' # NaN /\ weights' <= stopping'.best
    <2>1. stopping'.best # Inf => best \in Losses /\ best <= stopping'.best
      BY <1>3, <1>6 DEF Knows, KnowsBest
    <2>2. NaN \notin Losses /\ None \notin Losses
      BY LossTypes DEF Loss
    <2> QED
      BY <1>1, <2>1, <2>2
  <1>10. ProcessInv'
    <2>1. Knows(Checkpoint', Len(history'))
      BY <1>1, <1>2, <1>6
    <2>2. stage' = "epoch" => stopping'.counter < Patience
      BY <1>1, <1>2
    <2>3. stage' = "ending" /\ Len(history) < Epochs => Stop
      BY <1>1, <1>2
    <2>4. stage' \in {"ending", "epoch"}
      BY <1>1
    <2> QED
      BY <1>1, <1>4, <1>8, <1>9, <2>1, <2>2, <2>3, <2>4 DEF ProcessInv, AmidEpoch
  <1> QED
    BY <1>1, <1>7, <1>10 DEF TrainerInv, StoppedWithBest

LEMMA TrainerStep ==
  ASSUME TrainerTypeOK, TrainerInv, [Next]_vars
  PROVE  TrainerInv'
  <1>0. TrainerTypeOK'
    BY TrainerTypeStep
  <1>1. ASSUME UNCHANGED <<memory, file, manifest>>, stage' \in {stage, "off"},
               starts' \in {starts, starts + 1}
        PROVE  TrainerInv'
    <2>1. starts \in Nat /\ starts' \in Nat /\ starts' >= starts
      BY <1>1 DEF TrainerTypeOK
    <2>2. FilesInv'
      BY <1>1, <2>1, FilesStay DEF TrainerInv
    <2>3. Checkpoint' = Checkpoint /\ IsBest' = IsBest
      BY <1>1 DEF memory, Checkpoint, IsBest
    <2>4. stage # "off" => run <= starts'
      BY <1>0, <2>1 DEF TrainerInv, ProcessInv, TrainerTypeOK
    <2>5. ProcessInv'
      BY <1>1, <2>3, <2>4 DEF TrainerInv, ProcessInv, AmidEpoch, memory, Whole
    <2> QED
      BY <1>0, <1>1, <2>2, <2>5 DEF TrainerInv, StoppedWithBest, Whole
  <1>2. CASE OpenManifest \/ CloseManifest
    <2>1. /\ stage \in {"ending", "manifest"} /\ stage' \in {"manifest", "off"}
          /\ UNCHANGED <<weights, best, stopping, history, run, lost, file, starts>>
      BY <1>2 DEF OpenManifest, CloseManifest, memory
    <2>2. FilesInv'
      BY <2>1, FilesStay DEF TrainerInv, TrainerTypeOK
    <2>3. Checkpoint' = Checkpoint
      BY <2>1 DEF Checkpoint
    <2>4. ProcessInv'
      BY <2>1, <2>3 DEF TrainerInv, ProcessInv, AmidEpoch, Whole
    <2>5. StoppedWithBest'
      <3>1. CASE OpenManifest
        BY <3>1 DEF OpenManifest, StoppedWithBest, Whole
      <3>2. CASE CloseManifest
        <4>1. /\ manifest' = [epochs_run |-> Len(history), val_nll |-> weights,
                              best_val_loss |-> stopping.best]
              /\ stage = "manifest"
          BY <3>2 DEF CloseManifest
        <4> QED
          BY <4>1 DEF TrainerInv, ProcessInv, StoppedWithBest
      <3> QED
        BY <1>2, <3>1, <3>2
    <2> QED
      BY <1>0, <2>2, <2>4, <2>5 DEF TrainerInv
  <1>3. CASE Interrupt \/ UNCHANGED vars \/ \E f \in Files : ResumeFails(f)
    BY <1>1, <1>3 DEF Interrupt, vars, ResumeFails
  <1> QED
    BY <1>0, <1>2, <1>3, FreshInv, ResumeInv, RunEpochInv, CloseLatestInv, CloseBestInv, StepInv
       DEF Next, Files

\* The inductive invariant: files and memory stay of one mind about the best and the
\* patience, whichever file a process goes on from and wherever it is interrupted.
THEOREM TrainerCorrect == Spec => []TrainerInv
  BY TrainerTypeInit, TrainerTypeStep, TrainerInit, TrainerStep, PTL DEF Spec

\* A run that stopped early ends with the best model.
THEOREM StopsWithBest == Spec => []StoppedWithBest
  <1>1. TrainerInv => StoppedWithBest
    BY DEF TrainerInv
  <1> QED
    BY <1>1, TrainerCorrect, PTL

\* What best.pt holds is at most the best loss the latest checkpoint names, and no epoch
\* that early stopping has seen beats that by MinDelta.
LEMMA BestIsKept ==
  ASSUME TrainerTypeOK, TrainerInv
  PROVE  BestKept
  <1> DEFINE c == file["latest"]
             w == file["best"].weights
  <1> SUFFICES ASSUME Whole(file["latest"]), Whole(file["best"]), c.run = file["best"].run,
                      NEW i \in Kept(c.history, c.lost) \ {Len(c.history)}
               PROVE  ~Below(c.history[i], w - MinDelta)
    BY DEF BestKept
  <1>1. /\ c \in CheckpointType /\ w \in Losses /\ Len(c.history) \in Nat
        /\ c.stopping.best \in Losses \cup {Inf}
    BY DEF TrainerTypeOK, CheckpointType, Stopping, Loss
  <1>2. w <= c.stopping.best /\ Unbeaten(c, Len(c.history) - 1)
    BY DEF TrainerInv, FilesInv, Knows
  <1>3. i \in Seen(c, Len(c.history) - 1)
    BY <1>1 DEF Seen, Kept
  <1>4. ~Below(c.history[i], c.stopping.best - MinDelta)
    BY <1>2, <1>3 DEF Unbeaten
  <1>5. c.history[i] \in Loss
    BY <1>1 DEF Kept, CheckpointType
  <1>6. Losses \subseteq Nat /\ Inf \in Nat /\ MinDelta \in Nat
    BY LossTypes
  <1>7. w \in Nat /\ c.stopping.best \in Nat /\ c.history[i] \in Nat \cup {NaN}
    BY <1>1, <1>5, <1>6 DEF Loss
  <1> HIDE DEF c, w
  <1>8. \A x, y, z, m \in Nat : y <= z /\ ~(x < z - m) => ~(x < y - m)
    OBVIOUS
  <1> QED
    BY <1>2, <1>4, <1>6, <1>7, <1>8 DEF Below

\* best.pt holds an epoch that no other epoch beats by more than MinDelta, but for the
\* epochs a run was resumed from.
THEOREM BestStaysKept == Spec => []BestKept
  BY TrainerTypeCorrect, TrainerCorrect, BestIsKept, PTL

\* The counter counts what it should, so a run neither stops early nor goes on too long.
LEMMA PatienceIsKept ==
  ASSUME TrainerTypeOK, TrainerInv
  PROVE  PatienceKept
  <1> DEFINE c      == Checkpoint
             kept   == Kept(history, lost)
             After(i) == {j \in kept : j > i}
             Recent == {i \in kept : Cardinality(After(i)) < Patience}
  <1>1. /\ c.history = history /\ c.stopping = stopping /\ Len(history) \in Nat
        /\ Seen(c, Len(history)) = kept
    BY MemoryTyped DEF Seen, Kept
  <1>2. IsFiniteSet(kept) /\ kept \subseteq Nat
    BY <1>1, MemoryTyped, SeenIs
  <1>3. stopping.counter \in Nat /\ Patience \in Nat \ {0}
    BY TrainerAssumption DEF TrainerTypeOK, Stopping
  <1>4. \A i : IsFiniteSet(After(i)) /\ Cardinality(After(i)) \in Nat
                 /\ Cardinality(After(i)) <= Cardinality(kept)
    BY <1>2, FS_Subset, FS_CardinalityType
  <1>5. ASSUME stage \in {"epoch", "ending"} PROVE Unbeaten(c, Len(history)) /\ CountsRight(c, Len(history))
    BY <1>1, <1>5 DEF TrainerInv, ProcessInv, AmidEpoch, Knows
  <1>6. ASSUME stage = "epoch", Cardinality(kept) >= Patience
        PROVE  \E i \in Recent : /\ history[i] # NaN
                                 /\ \A j \in kept : (j < i /\ history[j] # NaN) => history[i] < history[j]
    <2>1. stopping.counter < Patience
      BY <1>6 DEF TrainerInv, ProcessInv
    <2>2. stopping.counter # Cardinality(kept)
      BY <1>3, <1>6, <2>1
    <2>3. PICK b \in kept :
            /\ history[b] = stopping.best /\ stopping.counter = Cardinality(After(b))
            /\ \A j \in kept : (j < b /\ history[j] # NaN) => history[b] < history[j]
      BY <1>1, <1>5, <1>6, <2>2 DEF CountsRight
    <2>4. b \in Recent
      BY <2>1, <2>3
    <2>5. history[b] # NaN
      BY <2>3, LossTypes DEF TrainerTypeOK, Stopping
    <2> QED
      BY <2>3, <2>4, <2>5
  <1>7. ASSUME stage = "ending", Len(history) < Epochs
        PROVE  /\ Cardinality(kept) >= Patience
               /\ \A i \in Recent : history[i] # NaN =>
                    \E j \in kept : /\ j < i /\ history[j] # NaN
                                    /\ ~Below(history[i], history[j] - MinDelta)
    <2>1. stopping.counter >= Patience
      BY <1>7 DEF TrainerInv, ProcessInv
    <2>2. CASE /\ stopping.counter = Cardinality(kept)
               /\ \A i \in kept : history[i] = NaN
      BY <2>1, <2>2
    <2>3. ASSUME NEW b \in kept,
                 history[b] = stopping.best, stopping.counter = Cardinality(After(b))
          PROVE  /\ Cardinality(kept) >= Patience
                 /\ \A i \in Recent : history[i] # NaN =>
                      \E j \in kept : /\ j < i /\ history[j] # NaN
                                      /\ ~Below(history[i], history[j] - MinDelta)
      <3>1. Cardinality(After(b)) >= Patience /\ Cardinality(After(b)) \in Nat
        BY <1>4, <2>1, <2>3
      <3>2. Cardinality(kept) >= Patience
        <4>1. Cardinality(kept) \in Nat /\ Cardinality(After(b)) <= Cardinality(kept)
          BY <1>2, <1>4, FS_CardinalityType
        <4> HIDE DEF After, kept
        <4> QED
          BY <3>1, <4>1, <1>3
      <3>3. ASSUME NEW i \in Recent PROVE b < i
        <4>1. i \in kept /\ i \in Nat /\ b \in Nat /\ Cardinality(After(i)) < Patience
          BY <1>2, <2>3
        <4>2. CASE i <= b
          <5>1. After(b) \in SUBSET After(i)
            BY <1>2, <4>1, <4>2
          <5>2. Cardinality(After(b)) <= Cardinality(After(i)) /\ Cardinality(After(i)) \in Nat
            BY <1>4, <5>1, FS_Subset
          <5> HIDE DEF After, kept
          <5> QED
            BY <3>1, <4>1, <5>2, <1>3
        <4> QED
          BY <4>1, <4>2
      <3>4. history[b] # NaN
        BY <2>3, LossTypes DEF TrainerTypeOK, Stopping
      <3>5. \A i \in Recent : ~Below(history[i], history[b] - MinDelta)
        BY <1>1, <1>5, <1>7, <2>3 DEF Unbeaten
      <3> QED
        BY <3>2, <3>3, <3>4, <3>5
    <2> QED
      BY <1>1, <1>5, <1>7, <2>2, <2>3 DEF CountsRight
  <1> QED
    BY <1>6, <1>7 DEF PatienceKept

\* A run goes on only while one of the last Patience epochs it has seen beat all it had
\* seen before, and stops early only if none of them beat them by MinDelta.
THEOREM PatienceStaysKept == Spec => []PatienceKept
  BY TrainerTypeCorrect, TrainerCorrect, PatienceIsKept, PTL
==============================================================================
