# A verification development for OceanEmbed

OceanEmbed reconstructs subsurface temperature fields of the North Indian Ocean
from satellite data with a neural network, serves the predictions over HTTP and
shows them in a web explorer. This directory holds TLA+ specifications of the
parts where the order of events decides what a user sees, the TLC runs that check
them on small instances, and proofs, checked by TLAPS, for every instance.
`PROJECT.json` lists the components, runs, seeded bugs, hazards, findings and
theorems, and maps every definition to the lines it models.

## 1. Inventory

The path of a request: the **explorer hook** in the browser calls the **backend**
through the **API client**; the backend's **rate limiter** counts it, a **route**
answers it from its TTL cache, from the **model service** (through the **inference
client**), or from the **demo cache**, a directory that the **demo cache builder**
fills offline with the same model code. The model comes from the **trainer**, which
reads the tensor store that **data acquisition** and the **training-set build** left.

| component | state it keeps | operations | interacts by |
| --- | --- | --- | --- |
| Explorer hook (`useOceanExplorer.ts`, `ExplorerPage.tsx`, controls) | region, date, depth, dates, report, selected cell, the field and profile on display, banner status, two loading flags, one sequence number | setRegion, setDate, setDepth, selectCell, clearSelection, "Return to", four effects, three kinds of answers | effects on state changes; promises of the client |
| API client (`client.ts`) | none between calls | getMap, getProfile, getAvailability, getHistory, contract guards | fetch with a 15 s abort |
| Rate limiter (`ratelimit.py`, 429 handler in `main.py`) | a deque of stamps per address, a lock | allow, remaining, reset, retry_after | sync dependency on pool threads; exception handler on the event loop |
| Ocean routes (`map.py`, `profile.py`, `envelope.py`, `validation.py`) | one TTL cache per route | get_ocean_map, get_ocean_profile | pool threads share the caches; HTTP to the model service; files of the demo cache |
| Inference client (`inference_client.py`) | an HTTP client and a TTL cache per request | predict_map, predict_profile, available_dates, health | HTTP with a 30 s timeout |
| Availability, history, health | none | available_dates, build_report | the cascade live service, then manifest |
| Demo cache reader (`cache.py`) | the manifest, once read | get_map, get_profile, available_dates | files |
| Metadata database (`session.py`, `models.py`) | engine and session maker, lazily | probe, metadata route | SQL |
| Model service (`server.py`, `service.py`) | the service object or the reason there is none | /health, /predict, /predict_profile | HTTP; tensor store, checkpoint |
| Demo cache builder (`build_demo_cache.py`) | its loop | build_demo_cache | files, one manifest for all regions |
| Trainer (`trainer.py`, `train_colab_entry.py`, the notebook) | model, optimizer, early stopping, best state, history; latest.pt, best.pt, run_manifest.json | train, save, load, resume, write the manifest | files; the machine may disappear |
| Dataset and splits (`dataset.py`) | none | windows, chronological split | tensor store |
| Data acquisition, training-set build (`download_historical.py`, `copernicus.py`, `build_training_dataset.py`) | netCDF files; X, Y, mask, statistics | chunks, downloads, harmonisation, common days, mask, save | network, files |
| ARGO acquisition (`acquire_argo.py`, `argo_acquire.py`) | cached index and profile files; profiles.json | window, selection, fetch, parse, write | network, files |
| ARGO evaluation (`argo.py`, `evaluate_argo.py`) | argo_report.json | interpolation, nearest cell and day, scores | files |
| Network and losses | tensors | forward, loss | none |

What is hard, and what would make each part correct:

* **Explorer hook.** Answers come in any order, after newer calls, after a region
  change, or fail late; React runs effects after a render, and other events can come
  between a state update and its effects. Correct: what is on display belongs to
  what is selected; a loading flag goes down; the banner speaks of the field shown.
* **Rate limiter.** Threads read the clock before they take the lock, so stamps
  are appended out of order; the 429 handler reads the deque again later. Correct:
  the budget holds in every window; waiting for Retry-After is enough.
* **Routes, inference client, reader.** Concurrent handlers fill shared caches while
  the service starts, fails, hangs or restarts with another region and a builder
  rewrites the files. Correct: an answer is for its query; live before demo; no
  failure while some source could serve; every request is answered.
* **Availability and history.** Two sources of dates with different meanings.
  Correct: what is advertised is served.
* **Builder.** Three kinds of files written one after another, interrupted
  anywhere, several regions under one manifest. Correct: the manifest lists only
  what is there, readable and its own.
* **Trainer.** State is captured before it is updated, files are overwritten in
  place, the machine dies. Correct: best.pt holds the best epoch; what is served is
  what was measured; interruptions cost an epoch at most.
* **Data path.** Downloads fail and are repeated, builds overwrite several files one
  after another, two programs compute the same split on their own, a profile has one date
  in the index and another in its file. Correct: every day once; the files of one store
  belong together; the ARGO validation keeps to the days held out, up to the one day
  the dates may differ by.

`PROJECT.json` has the 40 hazards found in the code, each at its line, with the
properties that cover it or the reason none does.

## 2. Modules

| module | models | state and actions |
| --- | --- | --- |
| `Explorer` | the hook and the page's controls | one variable per `useState`/`useRef`; one action per handler (`SetRegion`, `ReturnToScope`, `SetDate`, `SetDepth`, `SelectCell`, `ClearSelection`), `RunEffects` for the effects of one render, an action per outcome of each call |
| `RateLimiter` | limiter and 429 handler | clock, deques, threads; `Arrive` (key and clock are read), `Admit`/`Refuse` (the locked section), `ReadClockForRetry`, `SendRetryAfter`, `Remaining`, `Reset`, `Tick` |
| `InferenceService` | the day a prediction uses | pure operators on the store: `DayFor`, `PredictedDays`, `Predicts` |
| `DemoCache` (extends it) | the cache directory, the builder, what a reader finds | one action per write, split in opening and closing the file, `Interrupt` at any point |
| `OceanRoutes` (extends it) | both routes on several threads, TTL caches, the service's states, and the directory of `DemoCache` being written meanwhile | one action per step of a handler: `Reject`, `Replay`, `Miss`, `CallBreaks`/`CallReturns`, `ServeLive`, `Crash`, `ReadCoordinates`/`NoCoordinates`, `ServeDemo`/`NoValues`, `Finish`; `MLChanges`, `Tick` |
| `HonestAnswer` | the promise of a route, without calls, caches, files and exceptions | `Ask`, `AnswerAtOnce`, `Answer`, `Done`, `SourcesChange`, `Forget`; implemented by `OceanRoutes` |
| `Availability` (extends `DemoCache`) | GET /availability, region by region, and the client's guard on it, while the service changes and a builder writes | `Begin`, `AskService`, `AskManifest`, `Describe`, `Judge`, `ServiceChanges` |
| `Trainer` | a training run: epochs, early stopping, checkpoints, manifest, resume | `StartFresh`, `Resume`, `ResumeFails`, `RunEpoch`, `CloseLatest`, `CloseBest`, `Step`, `OpenManifest`, `CloseManifest`, `Interrupt` |
| `ArgoValidation` | the split, the acquisition of profiles, the report | pure operators for split, selection, QC, dates, interpolation; one action per step of `acquire_argo`, with `BreakOff` anywhere; `Evaluate` |
| `TrainingData` | downloads and the build of the tensor store | `StartDownload`, `Subset`, `SubsetFails`, `EndDownload`; `StartBuild`, `OpenPart`, `ClosePart`, `Interrupt` |
| `MCExplorer`, `MCRateLimiter`, `MCOceanRoutes`, `MCAvailability`, `MCArgoValidation`, `MCTrainingData` | instances for TLC (`Trainer` needs none, `DemoCache` is checked within `Availability`) | |
| `ExplorerProofs`, `RateLimiterProofs`, `DemoCacheProofs`, `OceanRoutesProofs`, `AvailabilityProofs`, `TrainerProofs`, `ArgoValidationProofs`, `TrainingDataProofs` | theorems about the module they are named after | |

Abstractions worth knowing:

* *React.* `drawn` is what the last render showed; an effect is due when one of its
  dependencies differs from it. After a click, select change or submit, React
  renders and runs the effects before the next task, which `sync` expresses: nothing
  else moves until `RunEffects`. State set by a promise callback or an effect is
  rendered by a later task, so any handler and any answer can come first, on the page
  as it was drawn. All due effects run in one action, in the order the hook declares
  them; what they compute uses the render's values. `SelectCell` asks for a field in
  the state, not in the last render, which allows a pick one task early.
* *Calls.* A call without an answer is a record in `mapCalls` or `profileCalls`;
  answers are taken in any order; each is answered or fails, because the client
  aborts it after 15 s. The report is fetched once.
* *Deque.* The deque of a key is its log of stamps and the number popped from the
  left, so that the budget can be stated over all admissions of the past. `PrunesTo`
  is the loop of `_prune`: it stops at the first stamp inside the window, whatever
  lies behind it.
* *MaxStall* bounds how long a thread can be held up between reading the clock and
  the locked section. Nothing in the code bounds it; the properties are stated with it,
  and for a thread that is never held up (0) they are the full promise.
  `remaining` and `reset`, which only tests call, are actions like the others.
* *Files* hold the number of the build that wrote them, or are torn from opening to
  closing. `np.savez` and `write_text` write in place, so a reader or an interruption
  can find them so. The reader's existence test and its reading of the grid are one
  step: files never disappear, so the test's outcome is the same then.
* *TTL caches.* One function from keys to payloads with ticks left; a full cache
  drops any entry of its route (`cachetools`, external, drops the least recent).
* *Model service.* `down` refuses, `hung` never answers, `degraded` runs without a
  model (503), `faulty` fails or returns a body that is no JSON or whose planes do
  not fit, `ready` serves one region with one checkpoint. It changes between them at
  any time: crashes, restarts with another configuration, reloads.
* *Payloads* say which query they are of and, for the properties, whether they are
  live or demo, who made them and for which day. `steady` is a history variable: the
  sources that could serve a thread's query ever since it came.
* Store days are midnights and dates naturals, as in the tensor store.
* *Weights* are known by their validation loss, a natural or NaN; two epochs of the
  same loss are the same weights. A checkpoint carries two history variables: the fresh
  start it goes back to, and the epochs its run was resumed from, which early stopping
  never saw because `save_checkpoint` comes before `early_stopping.step`.
* *Profiles* have a day in the index and, apart from it, one in their file (`filed`, none if
  its QC flag is bad) with the half of that day; a place as the validator or the index
  sees it, and levels with their QC flags. A file's day may be any; `Agrees` is the
  comparison of both dates by which `load_gdac_files` skips the misdated. Whole and torn are all that is known of a
  cached file; a file that was opened when a download broke is torn for good.
* *Downloads.* copernicusmarine (external) puts a file in its place when it is whole
  and numbers repeated ones. A chunk's call can fail for any reason; the program goes on.
  The chunk length is one constant, though it is an argument of every run: a period
  repeated with another length overlaps itself, as two periods do, and no property
  speaks of those. In the build, reading a channel's files can fail too (`Loads`), which passes the
  channel over, as missing files do. Each part of the store is emptied and written in
  steps of their own, so a build can end between two parts: X new and Y old, both whole.
* *Demo manifest.* Its epoch and loss are read again from the checkpoint when it is written
  (`build_demo_cache.py:107-108`); the model knows a build by its number only.

## 3. Runs

| run | instance | checks | result |
| --- | --- | --- | --- |
| `ExplorerPage` | 2 regions, one without data or both with, 2 days, 2 depths, 2 cells, 5 requests | `TypeOK`, `MapHonestWhenIdle`, `ProfileMatchesSelection`, `BannerMatchesField`, `LatestWins`, `DisplayInv`; `MapSettlesWithoutSelection`, `ProfileSettlesAtOneDepth` | holds, 483 thousand states |
| `ExplorerSkeleton` | 3 requests | `SkeletonsEnd` | violated: finding 1 |
| `RateLimiterBudget` | 2 threads, a direct client, limit 2, window 4, 2 ticks a second, stall 2, clock to 9 | `TypeOK`, `BudgetKept`, `LimiterInv`, `DirectRetrySuffices` | holds |
| `OceanRoutesSafety` | 2 threads, 3 queries, a service that fails, serves, or serves another region, a shipped cache and a build over it, TTL caches of one entry and one tick | `TypeOK`, `OwnAnswer`, `FailsOnlyWithoutSource`, `LiveFirst`, `RoutesInv`, `KeepsPromise` | holds, 1.66 million states |
| `OceanRoutesLiveness` | 2 threads, an invalid query too, a service that can be down, hang, or run without a model, a shipped cache | `EveryRequestAnswered`, `LiveInTheEnd` | holds |
| `AvailabilityReports` | 2 regions of 4 and 2 days, window 2, a shipped cache, 2 builds with step 0 or 2, a service of either region or none | of the directory `AdvertisedWritten`, `AdvertisedReadable`, `ListedFromOneBuild`, `BuildInv`; of the report `AcceptedWithManifest`, `ListedServed`, `OneManifest`, `ReportInv` | holds, 1.31 million states |
| `TrainerRuns` | losses 0, 1, 3 and NaN, min_delta 1, patience 2, 5 epochs, 3 processes | `BestKept`, `PatienceKept`, `StoppedWithBest`, `TrainerInv` | holds, 852 thousand states |
| `TrainerServed` | 2 epochs, 1 process | `ServedAsAdvertised` | violated: finding 2 |
| `ArgoReport` | every set of up to 7 days as time axis, window 3, two fifths held out, 8 profiles, some dated off their index row by a day, two, or by an afternoon, 2 runs | `TrainedOnlyAtTheEdge`, `NoExtrapolation`, `CompleteUnlessCut`, `ValidationInv` | holds, 816 thousand states |
| `ArgoTrained` | the same | `HeldOut` | violated: finding 4 |
| `TrainingData` | 2 channels and the target over 5 days, 2 overlapping periods, chunks of 2 days, 2 downloads, 2 builds | `RepeatedDownloadsAgree`, `StoreAligned`, `ValidCellsHaveData`, `DataInv` | holds, 734 thousand states |
| `FifthDownload` | 1 channel and the target, 1 period, 5 downloads | `RepeatedDownloadsAgree` | violated: finding 3 |

**Bounds.** The hook compares sequence numbers only for equality with the last one and
its controls only for equality, so two values of each kind and five requests contain
every pattern of an outdated call of each kind, its replacement, and a region change
there and back. The limiter's run spans more than two windows with a limit of two, so
that stamps leave the window, are shielded by late ones, and a second batch is
admitted; a second has two ticks, so that truncation shows. Builds: two, over a
shipped cache, give a complete and an interrupted build in either order, over the same
or another region. Routes: one place in a cache for two queries forces evictions;
two threads suffice because a handler shares nothing but the caches and the files.
The report: two regions, so that the manifest is of one and the service of the other,
and the same two builds, so that the manifest changes twice under one report; four days
in steps of two, or all of them, give builds that skip a refused first day or do not meet it.
Trainer: with min_delta 1, loss 0 improves on 1 only for `is_best`, and on 3 for early
stopping too; five epochs let patience run out, be reset, and run out after a resume;
three processes resume from either file, also one already resumed.
ARGO: 7 days with every pattern of gaps cover one and two held-out samples, a fraction
that is truncated, and fewer days than a window; the profiles have each
fate a profile can have, and file dates on either side of the index date, at the edge of
the tolerance and beyond it. Training data: the periods share a day, in different chunks; two
downloads repeat a period or overlap, and the theorem carries the first up to four; five
are needed to break it (`FifthDownload`).
Where theorems exist (section 4) the bounds do not matter: they cover every safety
property and invariant of the passing runs.

The invariants the proofs are by (`DisplayInv`, `LimiterInv`, `BuildInv`, `RoutesInv`,
`ReportInv`, `TrainerInv`, `ValidationInv`, `DataInv`) are checked by the runs too, where
their mutants show that they speak of the code. The last four contain their
module's type invariant.

**Fairness.** Explorer: React eventually renders a set state (`RunEffects`), and every
call is settled because the client aborts it (`AvailabilitySettles`, `MapSettles`,
`ProfileSettles`); the user owes nothing. Routes: a pool thread runs its handler to the
end, the call included because the inference client has a timeout, and time passes;
clients, the service and the builder owe nothing. The other runs check safety only.
`MaxSeq`, `MaxClock`, `MaxBuilds`, `MaxStarts`, `MaxRuns` and `MaxDownloads` are the
bounds of unbounded counters; the first stops only the user.

**Deadlock** checking is off where the environment may rest: no user at the page, no
request, no build, no program running.

**Refinement.** `KeepsPromise` says that `OceanRoutes` implements `HonestAnswer`, as a
PROPERTY of `OceanRoutesSafety`. A query is asked when its thread has it; `able` is
`steady` until the handler has its answer; the answer given is read off the payload or
the error; `kept` is what the TTL caches would repeat. Calls, waiting, reading of files
and the builder's work are stutters or changes of the sources. What the promise allows is
what a client can count on: the answer is of its query; live unless the model failed
meanwhile; an error only if both sources failed meanwhile, or the model's answer was
broken, which is the exception `FailsOnlyWithoutSource` names too; a repeated answer only if it was given before.

### What the violated runs show

1. `SkeletonsEnd`: map and profile calls draw numbers from one counter, and a flag is
   lowered only by the call with the last number. Changing the depth while a profile
   loads outdates the profile's call, which nothing replaces: the panel shows
   "Reconstructing profile…" for good. The other way round, picking a cell while a new
   field loads drops that field: the old one stays under the new depth's title, since
   the page shows the flag only without a field. Changing the date with a cell selected
   runs both effects in one pass, the profile's last, so the field's answer is always
   dropped: the old day's field stays. `MapHonestWhenIdle` speaks only of a hook with
   the map's flag down, which it is not then. `MapSettlesWithoutSelection` and
   `ProfileSettlesAtOneDepth` say when the flags do go down.
2. `ServedAsAdvertised`: `save_checkpoint` puts `best_model_state` into the checkpoint
   before the new best replaces it. best.pt of the second improvement holds the weights
   of the first under the key that `LoadedModel` and `evaluate_argo.py` prefer, beside
   the second's epoch and loss, which the demo manifest and the page then name. The one
   epoch for which it is right is the first best, where the key is None. `BestKept` says
   what does hold: the *other* key, `model_state_dict`, is the best epoch's, up to
   min_delta and up to the epochs a run was resumed from. `StoppedWithBest` says why
   nobody notices in the manifest: the process that trained has the right best in memory.
3. `RepeatedDownloadsAgree`, with five downloads: `_is_clean_nc` knows the suffixes
   `_(1)` to `_(3)` and says "etc.". The fifth download of a period leaves `name_(4).nc`,
   which is read beside `name.nc`: each of its days is there twice, and the selection by
   time cannot be made. `FourDownloadsAgree` proves that four are harmless.
4. `HeldOut`: `load_gdac_files` takes a file dated up to one day before or after its index
   row, and rows are selected by the index date only. A profile indexed on the first held-out
   day whose file says the day before is stored under that day, which the validator matches
   to the last training target, though `acquire_argo.py:6-7` says that the training
   period is never included. `TrainedOnlyAtTheEdge` says that it can happen with no other day,
   and only where the axis has no gap between the two.

Seen while reading or modelling, and not runs. *Explorer and backend:* a region change
outdates nothing, so towards a region without data the late field of the old one is shown
for a while (`useOceanExplorer.ts:97`). Behind a proxy the 429 handler computes
Retry-After for the peer address while the limiter counts by X-Forwarded-For
(`main.py:81`). There is one manifest for all regions, and payloads take their metadata
from it whatever its region (`cache.py:100`); an entry of the report does too
(`availability.py:66-84`). The history lists the first six days of the store, which
`predict` refuses (`service.py:130`; `ListedServed` excepts them). Without a whole
manifest the client rejects the whole report though the service has data
(`AcceptedWithManifest` has the condition). The docstring of `inference_client.py` (lines 7-9)
turns malformed payloads into typed errors, yet `resp.json()` at line 194 is outside
any `try` and the length of `log_var` rows is not checked, so both end as an uncaught
error without trying the demo cache (`Crash` models it, and `FailsOnlyWithoutSource` and
the promise have it as their one exception); `map.py:38` counts on a cache
of the client that is empty on every request; a replay of demo data is labelled
`cached_data`, where `README.md:221` promises the label `fallback_demo`. So `LiveFirst`, which
goes by the label, does not speak of replays; `LiveInTheEnd` bounds those.
*ARGO:* `argo_acquire.py:21-22` prefers adjusted values and falls back to raw ones, while
the code drops a level with a bad raw flag even if its adjusted one is good (`Measured`);
`int(round(juld))` gives an afternoon's profile the next day's date, and the validator
takes the nearest day within one, so a profile may be compared with a field one day off;
a file torn by a broken download is never fetched again
and drops out silently; with any match `n_profiles` counts the matched only; fewer days than
a window still hold out one sample; windows are by position, so they straddle gaps.
*Training data:* `chunk_months = 0` never
ends (`download_historical.py:64`; `DataAssumption` excludes it); overlapping periods make the build fail in the selection by time; no common day overwrites the store
with an empty one before the summary fails; statistics are over all days although the log
says training data only; `--save-format netcdf` uses variables only the other branch
sets; the download exits with 0 whatever failed; the mask's threshold is called a strict
majority and admits exactly half. *Notebook:* Cell 9 copies the data only if its target is
missing, so a copy torn by an interruption is used; Cell 7 is one comment line.

## 4. Proofs

Every leaf is checked by SMT or Zenon, the temporal steps by LS4. Assumptions are the
`ASSUME`s of the modules, which TLC evaluates in the runs: typing of the constants; that
`None`, `Torn` and the like are none of the values they stand beside; that a profile has
finitely many levels, that limit, patience, window, chunk length and cache size are positive. No theorem assumes
a bound but `FourDownloadsAgree`, which is about one; the bounds of the counters stay
parameters.

The library's induction theorems cannot be used, as they take an operator as a parameter;
where a least element is needed, `LeastNatural` takes it from the well-foundedness of the
naturals' order.

Each module proves an inductive invariant, checked by TLC first, and draws the
properties from it. The step proofs go action by action, with a frame lemma for the
actions that leave the matter alone.

**ExplorerProofs.** The display properties are not
inductive: whether the field at rest is right depends on which answers can still be
accepted. The strengthening `DisplayInv` says of a call with the last number that it
asks for what was *drawn*, and the same of the field at rest (`FieldInv`); for profiles,
that the last number can be a profile's only while a day is selected, and that map and
profile calls have different numbers (`ProfileInv`); and that nothing is on display
before the report (`ReportFirst`). `FieldStep`, `ProfileStep`, `ReportFirstStep` and
`BannerStep` preserve the four parts, one step per action; `DisplayCorrect` joins them,
and `FieldHonest`, `ProfileHonest` and `BannerHonest` are its consequences. `LatestKept` is
the action property: types suffice, since no call has a number above the counter's.
`OneDefaultDay` says that the derive effect finds exactly one day where there are any.

**RateLimiterProofs.** `LimiterTypeCorrect` includes that a deque never exceeds the
limit. `LimiterInvCorrect`, and with it `BudgetHolds`, rests on the fact that whatever was
popped was out of the window at
a past clock and stays so, and that a thread's stamp is at most `MaxStall` old
(`LateAtMostMaxStall`): an admission finds the stamp `Limit` places back popped.
`DirectRetryWorks` proves the action property from `RetryInv`: an unexpired promise
covers the leftmost stamp of a full deque (`SentPromiseCovers`), and only an admission,
which voids the promise, can fill it again (`PruningKeepsRetryInv`). `PruningEndsOnce`
shows that `PrunesTo` is a loop: it has one end, whatever the order of the stamps.

**DemoCacheProofs.** What a reader finds between builds depends on what a running build
has written: `JobInv` counts the days done off against those to do, and requires the grid
before the manifest. A file is only ever overwritten by a later build of the same region,
which is marked as unfinished first (`FilesEffect`, `ListedStays`); so the closing of the
manifest is the one step where `ListedFromOneBuild` is earned, and there `JobInv` gives it.
`ListedCanBeRead` needs no induction of its own: files of one build that the builder chose
from the store are readable (`OneBuildReadable`).

**OceanRoutesProofs.** The routes run beside the builder, whose steps are `DemoNext`
(`DemoMoves`), so types of the directory come from `DemoCacheProofs`. The other threads
enter an answer only through the caches, hence `CacheInv`; `ReplyInv` says what a handler
was told, and that a failure outdates "the live model was able all along"; `SteadyInv`
says that what was able all along is able now, so that a handler that finds nothing has
found a moment without a source (`NoAnswerNotAble`). `HandlersMoveOne` and `OtherThreads`
reduce a step to the thread that moved. `RoutesCorrect` gives `OwnAnswerSent`,
`NoNeedlessFailure`, whose exception is the handler that was told of a broken body, and `LiveGoesFirst`.
`PromiseKept` is the refinement: `PromiseInit` for the initial states,
`StepPromised` for the steps: arrivals map to `Ask` (`ArrivalPromised`), a handler's last
step to `AnswerAtOnce` or `Answer`, the end to `Done` (`HandlerPromised`), service, builder and
clock to `SourcesChange`, `Forget` or a stutter (`OthersPromised`), with `RoutesInv` for what
the answer is and `steady` for what may be answered.

**AvailabilityProofs.** A report is many reads of a manifest that changes. `ReportInv`
says that what is remembered is one whole manifest whose days were all within reach since
the request began (`KnownInv`), that each entry takes its provenance from it, and has one as
long as a manifest was readable throughout (`EntriesInv`). `StoredDayPredicts` is the
arithmetic of the tolerance: a day of the store past the first window is predicted from
itself; `OneDayPredicted` says the same of any date. `StaysAccounted` says that a day once accounted for stays so, since `could` only grows.

**TrainerProofs.** What early stopping knows is a fact about the history (`Knows`): the
best loss is that of an epoch seen, nothing seen beats it by min_delta, the counter
counts the epochs since. Checkpoints are written before early stopping sees their epoch, so
a file knows one epoch less than its history has (`FilesInv`), memory likewise until
`Step` (`ProcessInv`), and a resumed process loses that epoch (`lost`). The proof is that
reading back what a file knows gives what a process needs, wherever the last one ended.

**ArgoValidationProofs.** `OnlyTheLastTargetIsScored` is the arithmetic of two programs that
compute one split on their own: positions in a finite axis are found by counting. Instead
of an induction `CountedThrough` proves that the positions of a finite set of
days are all of 1 to its size by comparing cardinalities: an injection into a set as large is
onto. From it follow the first held-out day (`FirstPosition`) and that every target of
the training lies before it (`TargetsBefore`). A profile is stored at most a day before its
index day (`DateNearIndex`); dated on or after the first held-out day, its nearest day
is held out (`NearestIsHeldOut`); dated the day before, its nearest day is no target but
the last before the window (`NearestIsLast`). `SelectionInv` says that only
held-out profiles reach the report, through runs broken off anywhere; `FilesInv`, that a
file is torn only while it is written, or for good.

**TrainingDataProofs.** `CopiesInv`: the copies of a chunk's file are numbered without
holes, at most one per download, and one fewer while the chunk is still to come. With
four downloads the numbers end at 3, which the filter knows, so one file of a chunk is
left, and chunks of one period are disjoint (`ChunksDisjoint`): `FourDownloadsAgree`.
`EveryDayAskedOnce`: the chunks of a period cover its days and no others.
`StoreInv`: what a build has written is its result, in the order of writing, whether or not the
part at hand is open yet, and a store
no build is at is empty or of one piece.

**Only model-checked:** liveness (`MapSettlesWithoutSelection`, `ProfileSettlesAtOneDepth`,
`EveryRequestAnswered`, `LiveInTheEnd`), which is out of the prover's reach under fairness.
The operators of `InferenceService` and of the split are proved about where the theorems
need them, not for themselves. Of `Spec` the refinement uses no fairness, as `HonestAnswer`
has none. The violated runs are counterexamples and need no proof.

## 5. Not modelled

Rendering, tensors, losses, scores and regridding (floating point, no discrete state);
schemas, offline verifiers and deployment; the metadata database, which nothing writes at
run time; the client's guards of other bodies than the report, which compare shapes; the
interior of `cachetools`; the service's readings of configuration. A proxied client is in
`RateLimiter` but not in its run, whose state space would be too large with it.

## 6. Plan

Every safety property the runs check is proved. What would say more, in this order:

1. `DemoCache`: as an action property, that a manifest is replaced only by one of a later
   build; and of the trainer, that a resume never goes back further than one epoch behind
   the last whole `latest.pt`.
2. An abstract specification of the tensor store (a whole store replaced by another),
   implemented by `TrainingData` between builds, and proved as `PromiseKept` is.
3. Lemmas that state more operators for themselves: `Observed` (between two good levels, and
   at them), `Chosen` (of the builder), `FirstValPosition` against `TrainTargets` in both
   directions: no held-out day is given away either.
4. A proxied client in the limiter's run, should its state space allow.
