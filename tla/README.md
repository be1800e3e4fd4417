# Verification of NPD Video Factory V2

TLA+ models of the video factory: what a reviewed and approved render is, how work
survives a crash, what a provider call may cost and who may make it, what an edit
may change, and what the rules that judge one piece of data add up to. The models
are translated from the Python sources; `PROJECT.json` maps each definition to its
lines. Paths below are relative to the repository, `app/` is `apps/api/app/`.

## 1. Inventory

The system is a FastAPI application, one worker process, a renderer service, a
PostgreSQL database, Redis lists and an object store. Requests write rows in
transactions at READ COMMITTED; long work is a row plus an id on a Redis list that
the worker moves to a processing list while it runs.

| Component | State | Operations | What makes it correct |
|---|---|---|---|
| Timeline (`timeline_repository.py`, `timeline_logic.py`) | `timelines` (version, approval columns), snapshots, commands | create from an analysis, mutate, restore | an edit builds on the version its editor saw, moves the version and withdraws what was approved or rendered for the old one; what plays is what was kept |
| Production package (`production_repository.py`, `production_db.py`) | package (current tuple, current approval), subtitle sets, mixes, renders, approvals | refresh, replace subtitles or mix, create, cancel, start, complete and fail a render, request and decide an approval | usable renders and open approvals are of the current tuple; a final render was approved |
| Production service and worker loops (`production_service.py`, `npd_worker/main.py`) | two Redis lists per queue, the worker's local job, objects, asset rows | enqueue, recover, claim, process, release | no queued work is forgotten; a completed render's stored output is the registered one |
| Cues, mix, manifest, QC (`production_logic.py`, `production_audio.py`, `production_qc.py`) | none | derive and check cues, rights, gaps; narrate, mix, inspect | voices take turns; a file that passes shows the cut |
| Video jobs (`main.py:create_video_job`, `repositories.py:PostgresJobStore`, `npd_worker/pipeline.py`) | jobs, idempotency keys, assets, job directory, objects, two Redis lists | create under a key, claim, run the pipeline with resumption, register artifacts, fail | one job per key, one delivery, progress never goes back, artifacts match their checksums |
| Platform repository (`repositories.py`) | workspaces, projects, versions, usage and cost rows | resolve a context, initial versions, meter an operation | rows two callers may make at once are made once |
| Provider safety ledger (`provider_safety_repository.py`) | operation, budget-day and circuit rows | reserve, mark dispatch, release, record attempt, finish, recover | budget columns are the sums of their operations; settled operations stay settled |
| Controller and runner (`provider_safety*.py`, `provider_single_dispatch.py`) | the caller's loop variables; the in-memory ledger | `execute` with retries, `_run_protocol` | no second dispatch, no attempt beyond the reservation, spending within the ceilings |
| Provider adapters (`openai_*_provider.py`, `assemblyai_*.py`) | trace of a request, one job per adapter | send, wait, parse, map | evidence of what was sent is true; every word and frame is kept, once |
| Executor plane and activation (`executor_*.py`, `runtime_*.py`, `provider_secret_resolver.py`) | the role of a database, markers, a lock, receipts | activate, run one operation, hand over a credential, close | one secret, one request, true receipts; the role closes |
| Configuration (`config.py`, `main.py`, `npd_worker/main.py`) | settings, wiring, the provider registry | validate, wire, seed | nothing calls out without the verified gate; no fixture in production |
| Previews (`timeline_service.py`) | preview rows, a Redis list | request, process, cancel | a preview shown is of its version; a stale one stays stale |
| Publishing (`publishing_*.py`) | publications, receipts | reserve under a key, validate, finalise, replay | what is published was approved, current, cleared and is the cut |
| Agent Hub bridge (`bridge_*.py`) | requests, events, deliveries | draft projects, deliver with retries, recover | one draft per request; delivery at least once |
| Auto edit and vision (`auto_edit_*.py`, `vision_*.py`) | uploads, staged files, analyses | store parts, complete, analyse, reframe | a completed upload is what was announced; one call per fingerprint |
| Media intelligence (`media_intelligence_*.py`) | plans, items, resolution jobs | plan, resolve, materialise | plans are possible and affordable; states agree; one charge per resolution |
| Trends and ideas (`trend_*.py`) | signals, clusters, ideas, queue items | collect, group, refresh, select | repeated refreshes agree; clusters are disjoint |
| Analytics (`analytics_*.py`) | synchronisations, snapshots, assessments | schedule, collect, retry, assess | one snapshot per success; a missing metric is no zero |
| Authentication, media validation, acceptance builders, renderer, ComfyUI bridge, web, scripts | none, or none the API relies on | | not modelled, section 6 |

Interaction: routes call services, services call repositories (one transaction per
call) and push ids to Redis; the worker pops ids, calls services and repositories,
the renderer over HTTP and the object store; provider calls go through the
controller, which books every step in the ledger; schedulers in the worker's process
push what has become due. What is hard here:

- two transactions that each check something the other one changes (an edit and a
  render request, two completions of one upload, two callers making one row);
- a row that commits and an id that is not pushed, a loop that dies holding an id,
  an exception that drops it;
- late completions of work that was cancelled, superseded or recovered;
- re-runs over files and objects an earlier attempt left behind;
- an acknowledgement lost after a commit, where the caller cannot tell;
- a deadline that cancels an adapter at any wait, when the evidence must still say
  whether the request left;
- money: several attempts reserved ahead, settled once by whoever comes first, on
  the day of the reservation;
- tolerances: 34 ms of cues, 50 ms of pictures, half a second of file, a microsecond
  of words, and words without any duration.

`PROJECT.json` lists each of these at its line under `hazards`, with the properties
aimed at it, and every component with its status.

## 2. Modules

| Module | Models | Extends |
|---|---|---|
| `Production` | the tables of the timeline and its package, one action per transaction | |
| `RenderWorker` | row-then-push delivery, the worker's render loop, files and objects | `Production`, `WorkQueue` |
| `EditRace` | `commit_mutation` and `create_render` split at their row locks | `Production` |
| `Publishing` | a publication transaction by transaction beside `Production` | `Production` |
| `VideoJobs` | creation under a key, delivery, the pipeline | |
| `WorkQueue` | the two Redis lists of a queue, as operators | |
| `Orders` | a finite set in the order the program sorts it by, as operators | |
| `Preview`, `Webhook`, `AnalyticsSync`, `Media` | the rows, schedulers, recovery and worker of each queue | `WorkQueue` |
| `Services` | the five queues of one worker process side by side | `VideoJobs` and the four above |
| `Outbox` | abstract: what such a queue promises | |
| `ProviderLedger` | the ledger's transactions | |
| `ProviderCalls` | the retry loop and the single-dispatch runner over the ledger | `ProviderLedger` |
| `ProviderWire` | the in-memory controller around the HTTP adapters | |
| `ExecutionPlane` | activation, executor, credential, runner and timer of one operation | |
| `Configuration` | settings, wiring of both processes, the provider registry | |
| `Bridge`, `Platform`, `Trends` | API requests made of several transactions | |
| `AutoEdit`, `Analyses` | uploads over one folder; analyses by fingerprint | |
| `TimelineEdits` | the first version and the operations of an edit, with their editors | |
| `Studio` | the nine modules above, from `ProviderWire` to `TimelineEdits`, side by side, with the properties they promise together | those nine |
| `Transcripts` | response to words, words to positive intervals | |
| `Reframing` | sampled frames, tracks, crops and their cost | |
| `Deliverables` | cut, cues, mix, narration, file, QC, rights and platform limits | |
| `MediaPlanning` | strategies, fallbacks, candidates and approvals of a plan | |
| `Learning` | assessment of a snapshot and its insights | |
| `Evaluations` | the last five as alternatives of one specification | those five |
| `ProductionProofs`, `ReleaseProofs`, `ProviderProofs`, `ListProofs`, `QueueProofs`, `ServicesProofs`, `TimelineProofs`, `StudioProofs` | theorems | their modules, TLAPS |
| `MC...` | model values, data and symmetry for TLC, and the routing of a run | the modules they name |

Operators whose name says what a bug would do (`StaleButReady`, `KeptProbe`,
`AffordableByCommitted`, ...) are altered copies of the definition that follows
them. They are part of no specification: each is what the mutation check puts in
place of that definition to see a property fail.

**Production.** A *tuple* (timeline version, subtitle set, audio mix) identifies
what is rendered. `timeline`, `package`, `render` and `approval` are the rows;
`worker` holds the render the worker is processing. `CommitMutation` is
`commit_mutation` with its updates of approvals, renders and the package;
`InvalidateTo` is `_invalidate_locked` followed by the new tuple. A missing row has
status `"none"`; ids are never reused. The worker's local step (`StartRender`,
`CompleteRender`, `FailRender`, `RecordCosts`) keeps the order of `process()`.

**RenderWorker** adds what lies between the transactions: an id that is stored but
not yet pushed (`pushing`), the two lists (`redis`), the worker's program counter
(`proc`), the object under the render's key and the asset row that records its
checksum. `RecoverRead` and `Requeue` are the two halves of
`recover_production_render_jobs`, since requests may push between them. A failed
push or a raised error takes the id off Redis; the history variable `lost` names
those renders. Its specification implies `Production!Spec` (checked as a property
of a run), so the properties of `Production` hold for it.

**EditRace** splits the only two transactions that lock the timeline and package
rows in opposite roles: `edit` and `create` hold what each transaction has read and
what it will write when it commits. An update sees the rows committed at its
statement; the flush writes the columns that differ from the loaded row.

**Publishing.** `create` reads the package, reads the render, reserves the
publication under its key, checks and finalises, each in its own transaction, while
the package goes on moving. The history variable `published` says whether the
render was usable at the later of the two reads.

**VideoJobs** keeps `run_job` as a table: per artifact its stage, its progress,
whether an existing file is looked for before or after the advance, and which
artifacts are recorded next. `disk`, `object` and `asset` hold each artifact's
content in the job directory, in the store and in its row; content is a model value,
`"fixed"` where the pipeline is deterministic and `"torn"` when a crash cuts a
write short. Requests look up their key, insert, and enqueue in separate steps.

**The queues.** `WorkQueue` is what they share: push, claim, release, and the
recovery that empties the processing list and moves each unfinished id to the end.
Each module adds its rows and its `process`. A request stores the row and pushes
next; the worker recovers, claims, starts the row, does the work, ends the row and
releases the id; a scheduler reads what is due and pushes it. Crashes, refused
pushes and database errors share one bound. `...Lost` names the ids a fault dropped
in a place no recovery looks at until the next start. `Webhook` and `AnalyticsSync`
are shown to implement `Outbox`, with the receiver's inbox and the snapshots as its
effects.

**ProviderLedger** has the operation, budget and circuit rows and `today`. Each
transaction begins by updating the one control row (`_lock_control`), except
`record_attempt`, which locks the row it changes; so each is one action. Here any
caller may run any of them at any time. The attempt rows are their number and the
sum of their charges. **ProviderCalls** adds the callers: between two transactions a
call works from what it remembers. A transaction may raise after it committed or
without having committed (`Raises`). `Recharge` is the handler a successful attempt
falls into when its booking raises; `RecoverStale` is the recovery at API start.

**ProviderWire** is the controller the tests and the development set-up run, with the
adapters inside: each wait of an adapter is a step the controller's deadline may cut,
and `wAttempt` remembers what the trace said and whether the request had left.
**ExecutionPlane** follows one governed operation over its host: the role opened
before its marker is written, the wrapper, the executor's lock, the one-shot
resolver, the runner's evidence and the fail-safe timer, with a death anywhere.

**Bridge, Platform, Trends, AutoEdit, Analyses** are requests of several
transactions. Handlers overlap, are repeated and die; AutoEdit's files are inodes
behind names, since overlapping completions share `assembled.bin`.

**TimelineEdits** lays the first version out from the analysis (scenes, cuts with
their padding, words, plan media) and applies the operations to it; editors look at a
version and commit against it. A clip is its place, its source and its speed, so that
what it shows can be compared instant by instant.

**Transcripts, Reframing, Deliverables, MediaPlanning, Learning** compute. Each is
the chain of checks and conversions one value passes through, in units in which the
code's tolerances are exact: half microseconds of a provider's time, milliseconds of
media, the frame's width over a fixed number, tenths, percents. What a service
outside the program returns (a response, a rendered file, stock candidates, metrics)
is chosen from a set of instances that reach every refusal and both sides of each
tolerance.

## 3. Runs

| Run | States (about) | Shows |
|---|---|---|
| `production` | 480 000 | the properties of `Production` over three renders, two approvals, two versions |
| `render_worker` | 590 000 | delivery with a crash or a lost push implements `Production`, forgets nothing else |
| `release` | 1 580 000 | publications beside edits and reviews; overlapping edit and render request at the grain of row locks |
| `provider_calls` | 1 900 000 | three calls, one key that may be called again, one raised transaction, crashes, midnight |
| `services` | 970 000 | the five queues and the five evaluations, one in each behaviour |
| `studio` | 660 000 | the API's requests of several transactions, the wire, the plane and the settings, one in each behaviour |
| `liveness` | 110 s | everything that was not dropped settles, through its faults; the role closes |
| `edit_race_stale`, `video_jobs_requeue`, `provider_calls_ceiling`, `timeline_cuts`, `upload_overlap` | | the findings of section 4 |

`services` and `studio` route a behaviour to one component because the components
share no row, list or file there; those that share some are composed (`Production`
with its worker, its race and its publications; the calls with the ledger; the
runner with its host; uploads with the analyses of their asset by name). `Services`
says what the routing rests on: its specification is the conjunction of the five,
each of which constrains its own variables only, and the theorems of section 5 about it
hold for all of them running at once.

### Properties

- *Production*: `LiveRendersAreCurrent` (a queued, running, reviewable or ready
  render is of the current tuple), `ApprovalsHold` (one approval in force, shown on
  the timeline row, of the tuple a passing review showed), `FinalRendersAreApproved`,
  and `DeadRendersStayDead` (no late worker step revives a stale, cancelled or failed
  render).
- *RenderWorker*: `NoRenderForgotten` (an incomplete row is on a list, being pushed
  or processed, or will be found by the next start), `CompletedOutputIsRegistered`
  (the object of a completed render is the one its asset row describes), and
  refinement of `Production`.
- *release*: `LiveRendersMatchPackage`, the part of `LiveRendersAreCurrent` that
  the package row's lock still guarantees; `PublicationsAreSafe`.
- *Calls*: `SentAsReserved` (one dispatch per single-dispatch key, on the books, and
  no attempt beyond the reservation), `WithinDailyLimit`, `ChargesMatchAttempts`,
  `BooksAddUp`, `ProbesAreOpen`, `OutcomesStay`; for the in-memory controller and its
  adapters `CallsAreToldTruly`; for the plane `PlaneIsTold`; for the wiring
  `WiringIsGated`.
- *Queues*: `NothingForgotten`, `AttemptsAreCounted`, `PreviewsAreCurrent`,
  `MediaIsAccounted`, `JobsAreSingle`, `SettledStays`, `OutboxesImplemented`.
- *Requests*: `OneDraftPerRequest`, `AutoEditIsAccounted`, `QueueRunsAgree`,
  `RowsAreSingle`, `TimelinesKeepWhatPlays`, `EndedStays`.
- *Evaluations*: `TranscriptsAreFaithful` (every word once, in the provider's time and
  no other), `DeliverablesHold` (voices take turns; what is published shows the cut and
  is cleared), `ChoicesHold` (frames tell their scene, crops follow within bounds, the
  cost was reserved, plans are possible and affordable, a missing metric is no zero).
- *Liveness*: `PipelinesSettle`, `QueuesSettle`, `RoleCloses`.

### Bounds, and why they are enough

- `Renders`, `Approvals`: three and two in `production`: a review render, the final
  one made from its approval, and one that a later edit supersedes; a withdrawn and a
  current approval. `MaxVersion` and `MaxMixVersion` 2: an old and a current
  version of each; the properties compare a row with the current tuple only. The
  proofs have no such bound.
- Fault bounds (`...MaxFaults`, `MaxCrashes`, `MaxFailures`): 1 where several items or
  requests are in play, 2 and more in the liveness runs, which need a crash during the
  recovery from a crash.
- `Contents`: two values, so that a repeated attempt may differ from the first.
- Provider runs: two operations of the retry loop on two circuits, with reservations
  of 4 and 2 against a daily limit of 4, so that the limit is met exactly and would
  be exceeded; two attempts; two days; a circuit that opens at the second
  failure; an operation of the runner on the circuit of the second. On the wire three
  calls, two of one key, three days, a threshold of one failure and a cool-down of a day,
  so that a half-open circuit and a booking on another day occur.
- A provider reports no more than its estimate. The code does not compare the actual
  cost with the estimate (`provider_safety.py:1784`); the models say so where it matters.
- `LeaseHolds` is TRUE: `config.py` refuses a lease shorter than the retry and
  timeout bounds together plus a minute, so a live call is never recovered.
- Requests of the studio: two handlers, two keys or fingerprints, one more call than
  handlers; three signals, so that a late one may join two clusters; timelines of 12
  units with two editors and three versions.
- Evaluations: transcripts of up to three words in two segments, apart, adjacent or a unit over
  each other, with points on, before and after boundaries; up to three frames and three subjects; cuts of up to three clips
  on two tracks, two cues; plans of two scenes; metric sets that leave each factor out.

Deadlock is not checked: every run ends in states where the bounds are used up and
all work is settled.

### Fairness

The liveness run assumes weak fairness of the push that follows a stored row (the
request's coroutine runs on), of the steps of the worker's queue loops and schedulers,
which include its restart (`docker-compose.yml` restarts the container unless it is
stopped), of the API's next step, of time (a back-off ends, a window is over), and of
the fail-safe timer, which systemd starts again. No fairness is assumed of users:
edits, requests, cancellations, crashes, failures and expiry may never happen. Crashes
are bounded, so the worker is up for long enough in the end. The loops poll with a
timeout and take any id on their list, which is what weak fairness of the claim says.

## 4. Findings

Each is a run whose property restates what a document says and which TLC refutes.

1. `timeline_cuts`: the padding that keeps a silence decision clear of speech is taken
   back when the timeline is cut, so a word at its edge loses a part
   (`timeline_logic.py:41`; `README.md:40` "never cut through words").
2. `edit_race_stale`: a render request that overlaps an edit leaves a queued render
   of the old version.
3. `video_jobs_requeue`: a job whose `run_job` raises leaves both lists and is not
   requeued by the restart.
4. `provider_calls_ceiling`: a successful provider attempt whose booking raises is
   charged a second time, past the ceilings.
5. `upload_overlap`: two overlapping completions of one upload assemble into one file,
   and the second rewrites what the first verified and is about to store.

Seen while modelling, in the models where they have an effect, and no run of their own
because no document promises otherwise or the case is minor:

- `validate_subtitles` asks each cue to start no more than 34 ms before the end of the
  previous one, so a cue shorter than that may lie before it; voices still take turns,
  which is what `VoicesTakeTurns` states.
- `validate_timeline_renderability` and the publication count different clips (active
  and visible, not disabled whatever the track); the second set contains the first.
- The manifest rounds the frame rate and QC compares with the exact one, so a
  fractional rate never passes.
- A vision call needs exactly the approved number of frames, so media too short to
  yield them always fail; several objects of one label in a frame give several crop
  keyframes at one time.
- Overlaps of a microsecond between words are within the code's float tolerance and
  pass in a strict projection.
- `assess_winner` accepts an average view duration without the video's duration as
  retention evidence though the factor is then unknown (`analytics_logic.py:193`).
- With `TTS_PROVIDER=openai` the video pipeline calls its voice outside the safety
  controller; `AUDIO_TTS_PROVIDER=openai` with the kill switch engaged is accepted as a
  setting and keeps the worker from starting; rules that compare `app_env` with
  `production` do so in two ways, and what is stated of production holds for the exact
  spelling.
- `_finish` of an older call clears the in-memory controller's half-open flag while a
  probe is still out; the durable ledger keeps the probe's key instead.
- The worker's resolution service has no controller, so a ComfyUI workflow is refused
  and never executes.
- `request.json` is reused when the file exists, though a crash may have cut it short
  (`pipeline.py:942`); `VideoJobs` has the torn file.


## 5. Proofs

Checked by TLAPS for every value of the constants that the modules' named assumptions
allow. Those only say that bounds are naturals, that `None` is no id and no content,
that the two contents the pipeline makes of itself are no content of a provider, that
`CircuitOf`, `Estimate` and the plan of an item are total, that a retry policy makes at
least one attempt (`provider_safety.py:293`), that a budget in force is positive
(`provider_safety.py:344`), that settings have the fields and values `config.py` declares,
and that renders, synchronisations, deliveries, preview sizes, media items, candidates,
calls of the wire, trend signals and the clips of a cut are finitely many, since they are
counted, sorted or read at once. Of what is computed they give the types of the inputs, as
the request models do, and what those models or the steps before guarantee: a resolver's
priorities name each source once (`media_intelligence_models.py:123`), the scenes of an
analysis do not overlap (they may leave gaps where a shot is too short to be one,
`auto_edit_logic.py:40`), a strategy is scored for each variant that may be asked for, and the
0.05 s by which a word may leave its segment are two units or more (a unit is a microsecond, or
a millisecond of a job). One is about the world: a spoken cue lasts at least 34 ms, fitted or not. Cues may start that much
before the one above them ends, and a voice shorter than that could end before it.

| Module | Theorems | Established |
|---|---|---|
| `ProductionProofs` | `TypeCorrect`, `LiveRendersCurrent`, `ApprovalsHolding`, `FinalApproved`, `DeadStayDead` | all properties of `production` |
| `ReleaseProofs` | `DeliveryImplementsProduction`, `RendersRemembered`, `OutputsRegistered`, `DeliveredRendersCurrent` | all properties of `render_worker`, and the theorems above for the delivered system |
| | `PublicationsSafe`, `RacingRendersMatch` | all properties of `release` |
| `ProviderProofs` | `LedgerTypes`, `BooksSum`, `ProbesOpen`, `OutcomesKept` | the books, whoever calls the ledger |
| | `CallsImplementLedger`, `CallsKeepTheBooks`, `CallsSendAsReserved`, `CallsChargeAttempts`, `CallsKeepTheLimit` | all properties of `provider_calls` |
| `QueueProofs` | `SyncsAreCounted`, `SyncsRemembered`, `SyncsImplementOutbox`, `SendsAreCovered`, `DeliveriesRemembered`, `DeliveriesImplementOutbox` | synchronisations and deliveries |
| | `OneJobForOneKey`, `JobsAreDeliveredOnce`, `ReviewableJobsMatch`, `JobsRemembered`, `JobsNeverStepBack` | video jobs |
| `ServicesProofs` | `PreviewsShowTheirVersions`, `PreviewsRemembered`, `PreviewsStayStale`, `ItemsFollow`, `ResolutionsArePaidOnce`, `PublishableIsAllowed` | previews and media resolutions |
| | `ServicesHaveTypes`, `ServicesForgetNothing`, `ServicesCountAttempts`, `ServicesImplementOutboxes`, `ServicesShowCurrentPreviews`, `ServicesAccountForMedia`, `ServicesKeepJobsSingle`, `ServicesStaySettled` | all properties of the queues in `services` |
| | `EvaluationsHear`, `EvaluationsDeliver`, `EvaluationsChoose` | `TranscriptsAreFaithful`, `DeliverablesHold` and `ChoicesHold` |
| `ListProofs` | lemmas on the two lists, on sorted sets and on extremes of sets | used by all the others but `ProductionProofs` and `ProviderProofs` |
| `TimelineProofs` | `EditsAreKept`, `TimelinesHold` | timelines |
| `StudioProofs` | `BridgeDrafts`, `PlatformRows`, `UploadsAccounted`, `UploadsStayRejected`, `AnalysesAccounted`, `AnalysesStay`, `PlaneTold`, `ConfigurationGated`, `WireTold`, `QueueRunsAgreeHolds` | each kind of request, the plane, the settings, the wire and trends |
| | `StudioDrafts`, `StudioAutoEdit`, `StudioRows`, `StudioPlane`, `StudioCalls`, `StudioWiring`, `StudioTimelines`, `StudioQueueRuns`, `StudioTypes`, `StudioEnds` | all properties of `studio` |

**Production.** None of the properties is inductive alone. `IInv` joins them with what
links the rows: the approval the package names exists, is of the package's tuple, and
that tuple is the timeline's current one (`CurrentApproval`); an approval a final
render names was requested (`ApprovalExists`), so a later request cannot reuse its row;
a queued or running row has no QC outcome yet, and a cancelled row carries its flag
(`RowHistory`), so a late completion cannot make it usable; and the render the worker
holds is in a status its step expects (`WorkerRow`). Two lemmas carry the step:
`InvalidationStep` (an edit or refresh leaves nothing live) and `RowStep` (a change of
one render row that revives nothing).

**RenderWorker.** Each step of the delivered system is a step of `Production` or leaves
its rows alone; so `DeliveryImplementsProduction` holds, and with it everything proved
of `Production`. Its invariant `WInv` adds to `IInv` that what the process
works on is what `worker` holds in `Production` (`ProcHoldsJob`), and that between
storing and completing, the object and the asset row are those of this attempt
(`FilesOfAttempt`). A render is forgotten only by losing its last id, and the places
that drop one are the release of a finished row and the faults that `lost` records.

**Overlapping edit and render.** With the row locks as they are, `LiveRendersAreCurrent`
fails (finding 2). What remains is that a live render is of the tuple its *package*
names. An edit that did not see a new render leaves it live and leaves the package's tuple
alone. `RaceInv` adds which rows exist: a render request that holds the package row has
found one, a live render has a package, and the worker's render is running or stale
(`RaceRows`).

**Publishing.** The order of the reads is what the proof turns on: the package is read
first and the render later, and a render read as ready and final at that moment was,
by `IInv`, of the current tuple and approved then. That makes it inductive that a
validating publication read a usable render, whatever the package does afterwards.

**ProviderLedger.** The two sums need lemmas about `Total`, a sum over all operations:
its running sums exist and are unique (`RunExists`, `RunUnique`, each by the least
operation where they would fail), so a sum of sums splits (`TotalAdds`) and a change at
one operation changes the sum by as much (`TotalOfChange`). A step on one row moves a
budget column and its sum alike; `Recover` settles any set of operations at once, and
`TotalAdds` splits the open reservations into those that stay and those recovered. It
follows that the `max(0, ...)` of the code never hides a difference. `OutcomesKept`
needs that a marked operation has a row (`MarkedRows`), since a grant starts a row
afresh. The specification proved about lets any caller run any transaction with any
amount; TLC reaches it through the callers, which the next module shows implement it.

**ProviderCalls.** Every step of a caller is a transaction of the ledger or none
(`CallsImplementLedger`), also when the transaction raises after its commit.
`DispatchInv` says what a key's marker implies for the one call that may hold it;
`RetryInv` that at most one running call holds a retry key and that what it has sent is
what its loop counts; `ChargeInv` that the caller's sum and the row's attempt charges
agree, except for a successful attempt charged again after its booking raised
(finding 4, the keys in `recharged`), which the properties except as well.
`CallsChargeAttempts` assumes `LeaseHolds`, the rule of `config.py` that keeps recovery
away from a live call. For `CallsKeepTheLimit` an open reservation covers every
attempt it may be charged (`RowCovered`), so that the callers' transactions are
`Frugal`: a grant checks the limit, and every other one moves the sum of a day's
columns down or not at all (`DayWithin`).

**Synchronisations and deliveries.** The counting properties compare effects (snapshots,
sends) with attempts of the row. They become inductive with what an attempt implies: the
row it works on is running (`SyncHeld`, `DeliveryHeld`), a row that may be attempted
once more has an attempt left or a fault that paid for it, and a row that says running
though nobody attempts it was left so by such a fault (`AttemptsPaid`, `PostsPaid`).
That nothing is forgotten needs what a recovery has read and not yet pushed
(`SyncsRead`, `DeliveriesRead`). `Outbox` is implemented by mapping the row to its abstract
status and the effects to what the receiver has; a retry, a requeueing or a lost
answer is a stutter.

**Video jobs.** `JobInv` follows one id through the request and the worker. `Placed`: a
stored job is on the queue once, or the only one in process, or in the hands of the one
request that pushes it; so `DeliveredOnce`, which counts the three, is a matter of
list lemmas. `Answered`: what an answer and a receipt name is stored, and they name the
same. `Recorded` orders the ten artifacts by the step of the pipeline that records them,
and says that those before the worker's position have an asset row that describes the
object; a re-run starts at the first row again, so this must hold whatever an earlier
attempt left on disk. `JobsNeverStepBack` follows since `Advanced` takes maxima.

**Previews.** `PreviewInv` needs what an invalidation leaves behind in a running attempt:
the row is void and carries the cancel flag (`PVoided`), which is why no later step
makes it ready; the row of an attempt is not ready (`PAttempt`), so a second attempt
that stores another file under the same key does not change a ready preview's object.

**Media.** Five facts tie an item to its jobs: the job of an attempt is running, its asset
is registered before it is metered and metered before it completes (`MAttempt`); the items
of a plan are saved together, before any of them has a job or an asset (`MSaved`); made
media is recorded under the plan of its item (`MRecorded`); a resolved item shows the asset
of a job of its own that succeeded (`MResolved`), and one that is resolving has an open
job (`MResolving`). A plan that does not block publishing has an asset, so by `MSaved` its
items are saved and so resolved, and by `MResolved` each shows an asset, which is the
owned upload or is recorded under a plan whose assets are all allowed (`MRecorded`).

**The five queues together.** `ServicesSpec` is the conjunction of five specifications with
disjoint variables, so each composed theorem is the conjunction of the parts', a
temporal step.

**Lists.** `Without` (Redis `LREM`) is a filter, so what it keeps and how long it is are
shown by the least prefix where they would fail; the other lemmas say what push, claim,
release and recovery do to the sets of ids on the two lists.

**Requests.** A handler of `Bridge` knows only what it read. `BridgeInv` says what its
position implies of the rows (`HandlersHold`): past the project it works for the request
that owns it, and past the version it names one that exists. Until two handlers have
overlapped, no two of them work for one key (`HandlersApart`) and the first version is the
only one (`FirstDraftOnly`); an event more than the first was paid for by a failure
(`EventsPaid`). `PlatformInv` says the same of callers that looked before they wrote: the
unique keys of the rows make the second writer read the first one's, and a version current
is the last one. `UInv` ties a completed upload to its asset. `AInv` gives a fingerprint to
at most one running request, the one whose insert or claim won; what that request has
called, metered and saved is what the row's status and the counters say at its position
(`RequestHolds`, `PrintHolds`), and only a commit whose answer was lost puts a succeeded row
before a failing request (`ambiguous`).

**Execution plane.** Executors exclude each other by their lock, but a later activation
may start another. What makes the request single is the resolver: it hands the credential
to one wrapper ever (`xSpent`), and a wrapper sends only with one of its own (`RunHolds`).
While it executes, the ledger and the evidence are what its position says (`PlaneHolds`);
what was sent was announced before and is denied by nothing written later (`Announced`);
and a revocation the final preflight saw is one before any intent.

**Configuration.** That settings `Settings` accepts name an external provider only with the
bundle and the gate of that provider is a finite case analysis of its rules. `CInv` carries
it to both processes, which start only with settings they accept and keep them, and to the
registry, which a start of the API makes current.

**ProviderWire.** `WireInv` ties a trace to the wire (`TraceHolds`: a state short of
`possibly_sent` only before the dispatch), the record of the last attempt to the call it is
of (`RecordHolds`), and the day's columns to its calls: the reservation is a number of
attempts for each open call, and the committed column counts the charges of the ended ones,
at most one per attempt. So the code's guard at zero never hides a difference, and what is
committed stays under what was admitted.

**Sorted sets.** What the code sorts is a finite set with a strict total order (equal keys
fall back on names, ids or positions), and `InOrder` lists it by rank: the member with n - 1
before it is the n-th. That every rank is taken by exactly one member, so that the list has
each member once and in order, is shown once (`ByRank`), by the least rank that is not taken;
pairs, numbers and what stands at given positions of a sequence follow.

**TimelineEdits.** `EditInv` says that a request whose expected version is still the last
holds what it builds on that version (`EditorHolds`): the comparison of `commit_mutation`
under the row lock is all that orders editors, and appending never changes what an earlier
version says. Two chains of lemmas follow the data. What the cuts leave of a scene is a list of
disjoint windows in order that contain exactly the instants outside every cut, by
induction over the cuts; the clips laid from them follow each other on the timeline, so an
instant of the first version maps to one kept instant of the source and back, and captions and
plan media stay aligned with it. And an operation touches the tracks of its clip only: a split
yields two clips that show, instant for instant, what the one showed, at any speed; a locked
track is the same after any batch.

**Trends.** `TrendInv` says what the rows of clusters hold between refreshes. Groups of
`cluster_signals` are disjoint and cover the signals, by induction over the signals placed;
two groups never share a topic, because a group with the topic is certain to be the most
similar, so the keys of a refresh are apart. That two refreshes find one run is an argument
about what each read: while nothing disturbs, the second computes the same groups, keys,
versions and ideas (`generate_ideas` finds its variants there), so its ranking is the run that
is stored already.

**Deliverables.** `VInv` carries the checks along the chain: the cues fit when the render
starts and are not replaced later; each spoken cue ends within its own, and no cue ends before
one above it does but for the tolerance, which with the least length of a voice gives
`VoicesTakeTurns` by induction over the cues between two. A picture is never more than 50 ms
away because the clip that ends last among those started before an instant covers it, or the
check of the next start would have failed (`PictureIsNear`).

**Reframing.** `SamplesAre`: thinning n sorted candidates to m frames rounds the multiples of
(n - 1)/(m - 1), which are more than 1 apart, so no frame is taken twice and both ends are.
`SmoothedHolds`: a step of the bounded average stays between its last point and its target, so
the crop stays between places where the subject was seen, and moves by the jump at most. The cost
of an answer is bounded by the token ceilings it was accepted under. `PrimaryIs` shows that
there is a best subject: `Better` is a strict total order, as tracks of one name and category
are one track.

**MediaPlanning, Learning.** A plan's items are functions of its request, so `UInv` says they
are those the request yields; the sum of the costs is a recursive function over the items,
unfolded step by step. A class compares a weighted sum of scores with the weights of what is
known, so strong factors alone cannot fall under the threshold, whatever is missing.

**Transcripts.** `IsHeard` says what both adapters leave: words and segments in order but for a
unit of overlap, each segment with the words assigned to it, and a word with duration in reach
of no other segment. That the words, segment after segment, are those received in their order
(`AllWordsHeard`) is not what the code checks: it assigns word by word. It follows once every
point stands at the start of a word of its segment (`Hosted`, which the strict policy gives
trivially and the derived one by refusing loose points): a word assigned to an earlier segment
than the word before it would be in reach of that later segment as well, as the tolerance is
two units at least (`SegmentsFollow`). The parts of a run are the multiples of its interval's
length over their number, rounded down, so each starts where the one before it ends and
together they fill the interval (`RunIsFilled`, `DerivedFills`); a word that changes shares
its start with a point. Within a segment the derived words do not overlap at all. Between
segments they may, by the unit that ordered windows allow: `_validate_positive_projection`
looks at one segment at a time.

**All of them.** `StudioSpec` is the conjunction of nine specifications with disjoint
variables, and its theorems those of the parts. `EvSpec` follows one rule in each behaviour;
its invariants are the invariant of the rule that is followed, and the resting state of the rest.

Only model-checked: every liveness property, since fairness and `ENABLED` are beyond the prover.

## 6. What the models leave out

- Progress columns, event rows, alerts and listings; labels, wording and styles.
- The five files of a render are one: `_persist_asset` treats them alike.
- Pixels and sound. What the renderer, the voices, the providers and stock libraries
  return is chosen; the frames of the renderer, loudness and ducking are not modelled.
- Loading and hashing the documents of an owner gate, pinned hashes and rights evidence
  of provider calls: checks that can only refuse a call earlier. The models let a call
  be refused at any time before its dispatch marker.
- Scores, confidences, queries and prompts: parameters where a rule reads them.
- `purge_expired_operations`, which only tests call.

Components not modelled, with the reason:

- *Human authentication*: a read-only registry loaded at start; no state changes.
- *Acceptance flows and evidence*: builders of one file of evidence each, run once by a
  person, from data the models already have.
- *Media security, validation and storage*: a validation of one file at a time; the
  object store is an atomic map from key to content in every model that uses it.
- *Renderer*, *ComfyUI bridge*: one request each, without state of their own that the
  API relies on; the models choose their outcome.
- *Studio web*, *scripts, migrations, deployment*: the browser interface, shell, schema
  and containers. The constraints the migrations create are guards of the models, and
  the restart policy of the containers is the fairness of section 3.

Of the components marked `partly` the note in `PROJECT.json` says what is missing.

## 7. Plan

1. An ambiguous commit of the last stage in `VideoJobs`, after which `fail()`
   overwrites a completed job (`repositories.py:888`).
2. The renderer as an actor that may outlive its caller and write over the files of the
   next attempt (`pipeline.py:886`).
3. The metrics of the platforms as they are normalised, and highlights of an analysis.
