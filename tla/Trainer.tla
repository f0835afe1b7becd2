------------------------------- MODULE Trainer -------------------------------
(***************************************************************************)
(* A training run on a machine that may disappear: the epochs, early       *)
(* stopping, the checkpoints latest.pt and best.pt, which are written in   *)
(* place, the run manifest, and how an interrupted run is taken up again.  *)
(*                                                                         *)
(* A loss is a natural or NaN; weights are known by their validation loss. *)
(***************************************************************************)
EXTENDS Integers, Sequences, FiniteSets

CONSTANTS
  Losses,    \* losses an epoch can end with
  NaN,       \* a loss that compares with nothing
  Inf,       \* float("inf"): above every loss
  MinDelta,  \* min_delta
  Patience,  \* early_stopping_patience
  Epochs,    \* epochs of the configuration
  MaxStarts, \* bound: processes started
  None,      \* no value, no file
  Torn       \* what a file is from its opening to its closing

ASSUME TrainerAssumption ==
  /\ Losses \subseteq Nat /\ MinDelta \in Nat /\ Inf \in Nat
  /\ \A l \in Losses : l + MinDelta < Inf
  /\ Patience \in Nat \ {0} /\ Epochs \in Nat /\ MaxStarts \in Nat
  /\ NaN \notin Nat /\ {None, Torn} \cap (Nat \cup {NaN}) = {} /\ None # Torn

VARIABLES
  stage,    \* what the process is about to do; "off" when there is none
  weights,  \* the model's weights (with the optimizer's state)
  best,     \* best_model_state
  stopping, \* early_stopping: [best, counter]
  history,  \* the validation losses of the epochs so far
  file,     \* file["latest"], file["best"]: the checkpoints
  manifest, \* run_manifest.json
  starts,   \* processes started
  run,      \* History: the fresh start this process goes back to
  lost      \* History: epochs of the history that the early stopping has not seen

memory == <<weights, best, stopping, history, run, lost>>
vars == <<stage, memory, file, manifest, starts>>

Loss    == Losses \cup {NaN}
Whole(f) == f \notin {None, Torn}
\* loss < bound: false of a NaN.
Below(loss, bound) == loss # NaN /\ loss < bound

-----------------------------------------------------------------------------
\* Mutant: the counter goes on over an improvement.
StepKeepingCounter(es, loss) ==
  IF Below(loss, es.best - MinDelta) THEN [es EXCEPT !.best = loss]
                                     ELSE [es EXCEPT !.counter = @ + 1]
\* EarlyStopping.step.
AfterStep(es, loss) ==
  IF Below(loss, es.best - MinDelta) THEN [best |-> loss, counter |-> 0]
                                     ELSE [es EXCEPT !.counter = @ + 1]

\* Mutant: the model best.pt was saved with is only looked for.
ForgetsBest(c) == None
\* The best state load_checkpoint restores.
RestoredBestState(c) == c.best

\* A process with the given memory, which runs the epochs it has not run yet.
Begin(w, b, es, h, r, l) ==
  /\ stage = "off" /\ starts < MaxStarts
  /\ starts' = starts + 1
  /\ stage' = IF Len(h) < Epochs THEN "epoch" ELSE "ending"
  /\ weights' = w /\ best' = b /\ stopping' = es /\ history' = h
  /\ run' = r /\ lost' = l
  /\ UNCHANGED <<file, manifest>>

\* run_training without a checkpoint.  The weights are the initialisation's.
StartFresh ==
  Begin(NaN, None, [best |-> Inf, counter |-> 0], <<>>, starts + 1, {})

\* ... with one: it was saved before early_stopping.step saw its epoch.
Resume(f) ==
  /\ Whole(file[f])
  /\ LET c == file[f]
     IN  Begin(c.weights, RestoredBestState(c), c.stopping, c.history,
               c.run, c.lost \cup {Len(c.history)})

\* The file is missing (exit code 2), or torch.load cannot read it.
ResumeFails(f) ==
  /\ stage = "off" /\ starts < MaxStarts /\ ~Whole(file[f])
  /\ starts' = starts + 1
  /\ UNCHANGED <<stage, memory, file, manifest>>

\* train_epoch and validate; torch.save opens latest.pt.
RunEpoch(loss) ==
  /\ stage = "epoch"
  /\ weights' = loss
  /\ history' = Append(history, loss)
  /\ file' = [file EXCEPT !["latest"] = Torn]
  /\ stage' = "latest"
  /\ UNCHANGED <<best, stopping, manifest, starts, run, lost>>

Checkpoint ==
  [weights |-> weights, best |-> best, stopping |-> stopping, history |-> history,
   run |-> run, lost |-> lost]

\* Mutant: every improvement over the epoch before is a best.
BetterThanLast ==
  Len(history) = 1 \/ Below(weights, IF history[Len(history) - 1] = NaN THEN Inf
                                     ELSE history[Len(history) - 1])
IsBest == Below(weights, stopping.best)

CloseLatest ==
  /\ stage = "latest"
  /\ file' = [latest |-> Checkpoint, best |-> IF IsBest THEN Torn ELSE file["best"]]
  /\ stage' = IF IsBest THEN "best" ELSE "step"
  /\ UNCHANGED <<memory, manifest, starts>>

\* The best state in memory is replaced after the checkpoint took the old one.
CloseBest ==
  /\ stage = "best"
  /\ file' = [file EXCEPT !["best"] = Checkpoint]
  /\ best' = weights
  /\ stage' = "step"
  /\ UNCHANGED <<weights, stopping, history, run, lost, manifest, starts>>

\* Early stopping: on a stop the best state goes back into the model.
Step ==
  /\ stage = "step"
  /\ stopping' = AfterStep(stopping, history[Len(history)])
  /\ LET Stop == stopping'.counter >= Patience
     IN  /\ weights' = IF Stop /\ best # None THEN best ELSE weights
         /\ stage' = IF Stop \/ Len(history) >= Epochs THEN "ending" ELSE "epoch"
  /\ UNCHANGED <<best, history, run, lost, file, manifest, starts>>

\* The model is validated once more, and the manifest is written.
OpenManifest ==
  /\ stage = "ending"
  /\ manifest' = Torn
  /\ stage' = "manifest"
  /\ UNCHANGED <<memory, file, starts>>

CloseManifest ==
  /\ stage = "manifest"
  /\ manifest' = [epochs_run |-> Len(history), val_nll |-> weights,
                  best_val_loss |-> stopping.best]
  /\ stage' = "off"
  /\ UNCHANGED <<memory, file, starts>>

\* The kernel is interrupted, or its machine goes away.
Interrupt ==
  /\ stage # "off"
  /\ stage' = "off"
  /\ UNCHANGED <<memory, file, manifest, starts>>

-----------------------------------------------------------------------------
Init ==
  /\ stage = "off" /\ starts = 0 /\ manifest = None
  /\ weights = NaN /\ best = None /\ history = <<>> /\ run = 0 /\ lost = {}
  /\ stopping = [best |-> Inf, counter |-> 0]
  /\ file = [f \in {"latest", "best"} |-> None]

Next ==
  \/ StartFresh
  \/ \E f \in {"latest", "best"} : Resume(f) \/ ResumeFails(f)
  \/ \E loss \in Loss : RunEpoch(loss)
  \/ CloseLatest \/ CloseBest \/ Step
  \/ OpenManifest \/ CloseManifest
  \/ Interrupt

Spec == Init /\ [][Next]_vars

-----------------------------------------------------------------------------
\* LoadedModel and evaluate_argo: the weights a checkpoint is served with.
ServedWeights(c) == IF c.best # None THEN c.best ELSE c.weights

\* The epochs of a history that early stopping has seen.
Kept(h, l) == 1 .. Len(h) \ l

Stopping == [best : Losses \cup {Inf}, counter : Nat]
CheckpointType ==
  [weights : Loss, best : Losses \cup {None}, stopping : Stopping, history : Seq(Loss),
   run : 0 .. MaxStarts, lost : SUBSET (1 .. Epochs)]

\* Types; a checkpoint holds the weights its history ends with, a history is never
\* longer than the configuration asks for, and best.pt is never of a NaN.
TrainerTypeOK ==
  /\ stage \in {"off", "epoch", "latest", "best", "step", "ending", "manifest"}
  /\ weights \in Loss /\ best \in Losses \cup {None}
  /\ stopping \in Stopping /\ history \in Seq(Loss) /\ Len(history) <= Epochs
  /\ stage = "epoch" => Len(history) < Epochs
  /\ stage \in {"latest", "best", "step"} =>
       Len(history) >= 1 /\ weights = history[Len(history)]
  /\ stage = "best" => IsBest
  /\ manifest \in {None, Torn} \cup
       [epochs_run : 0 .. Epochs, val_nll : Loss, best_val_loss : Losses \cup {Inf}]
  /\ starts \in 0 .. MaxStarts /\ run \in 0 .. MaxStarts /\ lost \subseteq 1 .. Epochs
  /\ DOMAIN file = {"latest", "best"}
  /\ \A f \in {"latest", "best"} : Whole(file[f]) =>
       /\ file[f] \in CheckpointType
       /\ Len(file[f].history) \in 1 .. Epochs
       /\ file[f].weights = file[f].history[Len(file[f].history)]
  /\ Whole(file["best"]) => file["best"].weights # NaN

\* best.pt holds an epoch that no other epoch beats by more than MinDelta, whatever
\* was interrupted where, but for the epochs a run was resumed from: their losses the
\* early stopping never saw.
BestKept ==
  (/\ Whole(file["latest"]) /\ Whole(file["best"])
   /\ file["latest"].run = file["best"].run
   /\ stage \notin {"latest", "best"}) =>
    LET h == file["latest"].history
    IN  \A i \in Kept(h, file["latest"].lost) \ {Len(h)} :
          ~Below(h[i], file["best"].weights - MinDelta)

\* A run goes on only while one of the last Patience epochs it has seen beat all it
\* had seen before, and stops early only if none of them beat them by MinDelta: being
\* interrupted neither wastes its patience nor its time.
PatienceKept ==
  LET kept     == Kept(history, lost)
      Recent   == {i \in kept : Cardinality({j \in kept : j > i}) < Patience}
      Before(i) == {j \in kept : j < i /\ history[j] # NaN}
  IN  /\ (stage = "epoch" /\ Cardinality(kept) >= Patience) =>
           \E i \in Recent : history[i] # NaN /\ \A j \in Before(i) : history[i] < history[j]
      /\ (stage = "ending" /\ Len(history) < Epochs) =>
           /\ Cardinality(kept) >= Patience
           /\ \A i \in Recent : history[i] # NaN =>
                \E j \in Before(i) : ~Below(history[i], history[j] - MinDelta)

\* A run that stopped early ends with the best model: the manifest's final loss is at
\* most the best loss it names, also if the run that found the best was interrupted.
StoppedWithBest ==
  (Whole(manifest) /\ manifest.epochs_run < Epochs /\ manifest.best_val_loss # Inf) =>
    /\ manifest.val_nll # NaN
    /\ manifest.val_nll <= manifest.best_val_loss

\* The epochs of a memory, or a checkpoint, that its early stopping has seen of the first n.
Seen(c, n) == Kept(c.history, c.lost) \cap 1 .. n

\* The state that goes back into the model is as good as the best loss named; no epoch
\* seen beats that by MinDelta; and the counter counts the epochs seen since the one
\* that had it, which had beaten all before it.
KnowsBest(c) == c.stopping.best # Inf => c.best \in Losses /\ c.best <= c.stopping.best
Unbeaten(c, n) == \A i \in Seen(c, n) : ~Below(c.history[i], c.stopping.best - MinDelta)
CountsRight(c, n) ==
  \/ /\ c.stopping.best = Inf /\ c.stopping.counter = Cardinality(Seen(c, n))
     /\ \A i \in Seen(c, n) : c.history[i] = NaN
  \/ \E b \in Seen(c, n) :
       /\ c.history[b] = c.stopping.best
       /\ c.stopping.counter = Cardinality({j \in Seen(c, n) : j > b})
       /\ \A j \in Seen(c, n) : (j < b /\ c.history[j] # NaN) => c.history[b] < c.history[j]
Knows(c, n) ==
  c.lost \subseteq 1 .. n /\ KnowsBest(c) /\ Unbeaten(c, n) /\ CountsRight(c, n)

\* A file was saved before early stopping saw its last epoch.
FilesInv ==
  /\ \A f \in {"latest", "best"} : Whole(file[f]) =>
       /\ file[f].run <= starts /\ file[f].stopping.counter < Patience
       /\ Knows(file[f], Len(file[f].history) - 1)
  /\ Whole(file["best"]) => file["best"].weights < file["best"].stopping.best
  /\ (Whole(file["latest"]) /\ Whole(file["best"]) /\ file["latest"].run = file["best"].run) =>
       file["best"].weights <= file["latest"].stopping.best

\* A process, from its start to the manifest.
AmidEpoch == stage \in {"latest", "best", "step"}
ProcessInv ==
  /\ stage # "off" =>
       /\ run <= starts
       /\ Knows(Checkpoint, IF AmidEpoch THEN Len(history) - 1 ELSE Len(history))
       /\ (Whole(file["best"]) /\ file["best"].run = run) =>
            file["best"].weights <= stopping.best
  /\ stage = "best" => file["latest"].stopping = stopping
  /\ (stage = "step" /\ IsBest) => best = weights /\ file["best"].weights = weights
  /\ (stage = "epoch" \/ AmidEpoch) => stopping.counter < Patience
  /\ (stage \in {"ending", "manifest"} /\ Len(history) < Epochs) =>
       /\ stopping.counter >= Patience
       /\ stopping.best # Inf => weights # NaN /\ weights <= stopping.best

\* What the three properties rest on: files and memory stay of one mind about the best
\* and the patience, whichever file a process goes on from and wherever it is interrupted.
TrainerInv == TrainerTypeOK /\ FilesInv /\ ProcessInv /\ StoppedWithBest

\* "preferring the validated best_state_dict": what best.pt is served with is what its
\* val_loss was measured of, the one the demo manifest and the page name.
ServedAsAdvertised ==
  Whole(file["best"]) => ServedWeights(file["best"]) = file["best"].weights
=============================================================================
