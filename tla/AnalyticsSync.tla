---------------------------- MODULE AnalyticsSync ----------------------------
(***************************************************************************)
(* Synchronisations of a publication's metrics: rows of analytics_syncs    *)
(* (analytics_repository.py), attempted by AnalyticsSyncProcessor.process  *)
(* (analytics_service.py) on the worker, made due by a scheduler and       *)
(* recovered when the worker starts.  A synchronisation is named by its    *)
(* Idempotency-Key; its snapshot stands for the metric points, features,   *)
(* assessment and insights stored with it in one transaction.              *)
(***************************************************************************)
EXTENDS WorkQueue

CONSTANTS
    Syncs,              \* keys, positive numbers
    SMaxAttempts,       \* ANALYTICS_MAX_ATTEMPTS
    SMaxFaults          \* bound on crashes, lost pushes and database errors

ASSUME AnalyticsSyncConstants ==
    /\ Syncs \subseteq Nat \ {0} /\ IsFiniteSet(Syncs)
    /\ SMaxAttempts \in Nat \ {0} /\ SMaxFaults \in Nat

VARIABLES
    sync,               \* rows: [status, attempts, due]
    sRedis,             \* the analytics queue and its processing list
    sPushing,           \* syncs a request has stored as queued and not pushed
    sScheduler,         \* ids the scheduler has made due and not pushed
    sWorker,            \* [pc, job, ids]
    snapshots,          \* number of metric snapshots of each sync
    sLost,              \* history: ids that left Redis before they settled
    sFaults             \* faults so far

sVars == <<sync, sRedis, sPushing, sScheduler, sWorker, snapshots, sLost, sFaults>>

SyncSettled == {"succeeded", "failed", "not_configured"}
SIdle == [pc |-> "down", job |-> 0, ids |-> <<>>]
SUp == sWorker.pc \notin {"down", "recovering"}

SInit ==
    /\ sync = [s \in Syncs |-> [status |-> "none", attempts |-> 0, due |-> FALSE]]
    /\ sRedis = EmptyQueue
    /\ sPushing = {}
    /\ sScheduler = <<>>
    /\ sWorker = SIdle
    /\ snapshots = [s \in Syncs |-> 0]
    /\ sLost = {}
    /\ sFaults = 0

SFault == sFaults < SMaxFaults /\ sFaults' = sFaults + 1

-----------------------------------------------------------------------------
\* reserve_sync: at most one row for a key, for now or for later.  A replay
\* returns the row and pushes nothing.
CreateSync(s, status) ==
    /\ sync[s].status = "none"
    /\ sync' = [sync EXCEPT ![s].status = status]
    /\ sPushing' = IF status = "queued" THEN sPushing \cup {s} ELSE sPushing
    /\ UNCHANGED <<sRedis, sScheduler, sWorker, snapshots, sLost, sFaults>>

PushSync(s) ==
    /\ s \in sPushing
    /\ sPushing' = sPushing \ {s}
    /\ sRedis' = Pushed(sRedis, s)
    /\ UNCHANGED <<sync, sScheduler, sWorker, snapshots, sLost, sFaults>>

PushSyncFails(s) ==
    /\ s \in sPushing
    /\ SFault
    /\ sPushing' = sPushing \ {s}
    /\ sLost' = sLost \cup {s}
    /\ UNCHANGED <<sync, sRedis, sScheduler, sWorker, snapshots>>

-----------------------------------------------------------------------------
Waiting(row) == row.status \in {"scheduled", "retry_scheduled"}

\* recover_incomplete_sync_ids.  (Mutant: queued ones are taken to be on the list.)
IncompleteButQueued == {s \in Syncs : sync[s].status = "running" \/ (Waiting(sync[s]) /\ sync[s].due)}
IncompleteSyncs ==
    {s \in Syncs : \/ sync[s].status \in {"queued", "running"}
                   \/ Waiting(sync[s]) /\ sync[s].due}

RecoverSyncsRead ==
    /\ sWorker.pc = "down"
    /\ \E ids \in Recoverable(sRedis, IncompleteSyncs) :
          sWorker' = [sWorker EXCEPT !.pc = "recovering", !.ids = ids]
    /\ sync' = [s \in Syncs |->
          IF sync[s].status = "running" THEN [sync[s] EXCEPT !.status = "queued"] ELSE sync[s]]
    /\ UNCHANGED <<sRedis, sPushing, sScheduler, snapshots, sLost, sFaults>>

RecoverSyncs ==
    /\ sWorker.pc = "recovering"
    /\ sRedis' = Requeued(sRedis, sWorker.ids)
    /\ sLost' = sLost \ ToSet(sWorker.ids)
    /\ sWorker' = [sWorker EXCEPT !.pc = "waiting", !.ids = <<>>]
    /\ UNCHANGED <<sync, sPushing, sScheduler, snapshots, sFaults>>

TakeSync ==
    /\ sWorker.pc = "waiting"
    /\ sRedis.queue # <<>>
    /\ sRedis' = Claimed(sRedis)
    /\ sWorker' = [sWorker EXCEPT !.pc = "taken", !.job = NextId(sRedis)]
    /\ UNCHANGED <<sync, sPushing, sScheduler, snapshots, sLost, sFaults>>

\* claim: a queued sync, or one whose time has come though the scheduler has
\* not been there.  process goes on with a row it finds running, whoever left
\* it so.  (Mutants: whatever the status; also one without a provider.)
SyncClaimableAnyway(row) == row.status # "none" /\ row.status # "running"
SyncClaimableUnconfigured(row) ==
    row.status \in {"queued", "not_configured"} \/ (Waiting(row) /\ row.due)
SyncClaimable(row) == row.status = "queued" \/ (Waiting(row) /\ row.due)

\* (Mutant: the status is one no reader knows.)
SyncStarted(row) == [status |-> "running", attempts |-> row.attempts + 1, due |-> FALSE]

ClaimSync ==
    /\ sWorker.pc = "taken"
    /\ sync' = IF SyncClaimable(sync[sWorker.job])
               THEN [sync EXCEPT ![sWorker.job] = SyncStarted(@)]
               ELSE sync
    /\ sWorker' = [sWorker EXCEPT !.pc = IF sync'[sWorker.job].status = "running"
                                         THEN "collecting" ELSE "over"]
    /\ UNCHANGED <<sRedis, sPushing, sScheduler, snapshots, sLost, sFaults>>

\* The provider answers, has no adapter, or is rate limited or in error.
Collect ==
    /\ sWorker.pc = "collecting"
    /\ \E answer \in {"collected", "unconfigured", "retrying"} :
          sWorker' = [sWorker EXCEPT !.pc = answer]
    /\ UNCHANGED <<sync, sRedis, sPushing, sScheduler, snapshots, sLost, sFaults>>

\* complete: the snapshot and the status together.
SnapshotTaken == [snapshots EXCEPT ![sWorker.job] = @ + 1]

CompleteSync ==
    /\ sWorker.pc = "collected"
    /\ sync[sWorker.job].status = "running"
    /\ sync' = [sync EXCEPT ![sWorker.job].status = "succeeded"]
    /\ snapshots' = SnapshotTaken
    /\ sWorker' = [sWorker EXCEPT !.pc = "over"]
    /\ UNCHANGED <<sRedis, sPushing, sScheduler, sLost, sFaults>>

\* complete raises: one more attempt that failed.
CompleteSyncRaises ==
    /\ sWorker.pc = "collected"
    /\ SFault
    /\ sWorker' = [sWorker EXCEPT !.pc = "retrying"]
    /\ UNCHANGED <<sync, sRedis, sPushing, sScheduler, snapshots, sLost>>

TerminalFailure ==
    /\ sWorker.pc = "unconfigured"
    /\ sync' = [sync EXCEPT ![sWorker.job].status = "not_configured"]
    /\ sWorker' = [sWorker EXCEPT !.pc = "over"]
    /\ UNCHANGED <<sRedis, sPushing, sScheduler, snapshots, sLost, sFaults>>

\* schedule_retry.  (Mutant: attempts are compared with the wrong bound.)
SyncExhaustedLate(row) == row.attempts > SMaxAttempts
SyncExhausted(row) == row.attempts >= SMaxAttempts

ScheduleRetry ==
    /\ sWorker.pc = "retrying"
    /\ sync' = [sync EXCEPT ![sWorker.job].status =
          IF SyncExhausted(sync[sWorker.job]) THEN "failed" ELSE "retry_scheduled"]
    /\ sWorker' = [sWorker EXCEPT !.pc = "over"]
    /\ UNCHANGED <<sRedis, sPushing, sScheduler, snapshots, sLost, sFaults>>

\* A transaction outside the try block, or the one that books the failure, raises.
SyncProcessRaises ==
    /\ sWorker.pc \in {"taken", "collecting", "unconfigured", "retrying"}
    /\ SFault
    /\ sWorker' = [sWorker EXCEPT !.pc = "over"]
    /\ sLost' = sLost \cup {sWorker.job}
    /\ UNCHANGED <<sync, sRedis, sPushing, sScheduler, snapshots>>

ReleaseSync ==
    /\ sWorker.pc = "over"
    /\ sRedis' = Released(sRedis, sWorker.job)
    /\ sWorker' = [SIdle EXCEPT !.pc = "waiting"]
    /\ UNCHANGED <<sync, sPushing, sScheduler, snapshots, sLost, sFaults>>

-----------------------------------------------------------------------------
\* scheduled_for or next_retry_at passes.
SyncDue(s) ==
    /\ Waiting(sync[s]) /\ ~sync[s].due
    /\ sync' = [sync EXCEPT ![s].due = TRUE]
    /\ UNCHANGED <<sRedis, sPushing, sScheduler, sWorker, snapshots, sLost, sFaults>>

\* run_analytics_due_scheduler.
ActivateDueSyncs ==
    /\ SUp
    /\ sScheduler = <<>>
    /\ LET due == {s \in Syncs : Waiting(sync[s]) /\ sync[s].due}
       IN  /\ due # {}
           /\ sScheduler' \in SetToSeqs(due)
           /\ sync' = [s \in Syncs |-> IF s \in due THEN [sync[s] EXCEPT !.status = "queued"]
                                       ELSE sync[s]]
    /\ UNCHANGED <<sRedis, sPushing, sWorker, snapshots, sLost, sFaults>>

PushDueSync ==
    /\ sScheduler # <<>>
    /\ sRedis' = Pushed(sRedis, Head(sScheduler))
    /\ sScheduler' = Tail(sScheduler)
    /\ UNCHANGED <<sync, sPushing, sWorker, snapshots, sLost, sFaults>>

SyncWorkerCrash ==
    /\ sWorker.pc # "down"
    /\ SFault
    /\ sWorker' = SIdle
    /\ sScheduler' = <<>>
    /\ UNCHANGED <<sync, sRedis, sPushing, snapshots, sLost>>

-----------------------------------------------------------------------------
SyncWorkerStep ==
    \/ RecoverSyncsRead \/ RecoverSyncs \/ TakeSync \/ ClaimSync \/ Collect
    \/ CompleteSync \/ TerminalFailure \/ ScheduleRetry \/ ReleaseSync

SyncSchedulerStep == ActivateDueSyncs \/ PushDueSync

SNext ==
    \/ \E s \in Syncs : \/ \E status \in {"queued", "scheduled"} : CreateSync(s, status)
                        \/ PushSync(s) \/ PushSyncFails(s) \/ SyncDue(s)
    \/ SyncWorkerStep \/ SyncSchedulerStep
    \/ CompleteSyncRaises \/ SyncProcessRaises \/ SyncWorkerCrash

\* As for webhooks: pushes, time, the worker and its scheduler go on.
SFairness ==
    /\ \A s \in Syncs : WF_sVars(PushSync(s)) /\ WF_sVars(SyncDue(s))
    /\ WF_sVars(SyncWorkerStep)
    /\ WF_sVars(SyncSchedulerStep)

SSpec == SInit /\ [][SNext]_sVars /\ SFairness

-----------------------------------------------------------------------------
(* Properties.                                                             *)

\* Rows, lists and positions have their types.
STypeOK ==
    /\ sync \in [Syncs -> [status : {"none", "scheduled", "queued", "running",
                                     "retry_scheduled"} \cup SyncSettled,
                           attempts : Nat, due : BOOLEAN]]
    /\ sRedis \in [queue : Seq(Syncs), processing : Seq(Syncs)]
    /\ sPushing \subseteq Syncs
    /\ sScheduler \in Seq(Syncs)
    /\ sWorker.job \in Syncs \cup {0}

\* However often a sync is interrupted, repeated and recovered, it leaves one
\* snapshot when it succeeds and none otherwise.
OneSnapshotPerSuccess ==
    \A s \in Syncs : snapshots[s] = IF sync[s].status = "succeeded" THEN 1 ELSE 0

\* The documentation promises an end at the maximum of attempts; what the code
\* ensures is that attempts beyond it are paid for by faults.
ExtraAttemptsAreFaults == \A s \in Syncs : sync[s].attempts <= SMaxAttempts + sFaults

\* While a worker runs, a queued or running sync is on its way to the worker,
\* in its hands, or its id was dropped.
NoSyncForgotten ==
    SUp => \A s \in Syncs : sync[s].status \in {"queued", "running"} =>
              \/ s \in Queued(sRedis) \cup sPushing \cup ToSet(sScheduler) \cup sLost
              \/ sWorker.job = s /\ sWorker.pc # "over"

\* Every sync whose id is not dropped settles, one scheduled for later too.
SyncsSettle ==
    \A s \in Syncs : sync[s].status # "none" ~> sync[s].status \in SyncSettled \/ s \in sLost

\* The analytics queue takes its snapshot before it calls a sync done, and
\* never takes a verdict back.
SyncOutbox == INSTANCE Outbox WITH
    Items <- Syncs,
    effects <- {s \in Syncs : snapshots[s] > 0},
    verdict <- [s \in Syncs |->
        CASE sync[s].status = "none" -> "absent"
          [] sync[s].status = "succeeded" -> "done"
          [] sync[s].status \in {"failed", "not_configured"} -> "dead"
          [] OTHER -> "open"]

SyncsTakeEffect == SyncOutbox!OutboxSpec
=============================================================================
