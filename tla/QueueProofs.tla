----------------------------- MODULE QueueProofs -----------------------------
(***************************************************************************)
(* Proofs about AnalyticsSync.tla and Webhook.tla, for any finite sets of  *)
(* synchronisations and deliveries, any maximum of attempts and any number *)
(* of faults: attempts cover what was sent, nothing is forgotten, and both *)
(* queues implement Outbox.tla.  Then about VideoJobs.tla: one job for one *)
(* key, one delivery of an id, nothing forgotten, nothing taken back, and  *)
(* recorded artifacts that are the stored ones.                            *)
(***************************************************************************)
EXTENDS VideoJobs, AnalyticsSync, Webhook, ListProofs

-----------------------------------------------------------------------------
(* Synchronisations: the inductive invariant.                              *)

SyncRow ==
    [status : {"none", "scheduled", "queued", "running", "retry_scheduled"} \cup SyncSettled,
     attempts : Nat, due : BOOLEAN]

SWorkerRow ==
    [pc : {"down", "recovering", "waiting", "taken", "collecting", "collected",
           "unconfigured", "retrying", "over"},
     job : Syncs \cup {0}, ids : Seq(Syncs)]

SyncTypes ==
    /\ sync \in [Syncs -> SyncRow]
    /\ sRedis \in Lists(Syncs)
    /\ sPushing \in SUBSET Syncs
    /\ sScheduler \in Seq(Syncs)
    /\ sWorker \in SWorkerRow
    /\ snapshots \in [Syncs -> Nat]
    /\ sLost \in SUBSET Syncs
    /\ sFaults \in Nat

\* The worker is in the middle of an attempt at s.
Attempting(s) ==
    sWorker.job = s /\ sWorker.pc \in {"collecting", "collected", "unconfigured", "retrying"}

\* Between attempts the worker holds nothing; during one, the row it holds is
\* running and nobody else writes it.
SyncHeld ==
    /\ sWorker.pc \notin {"down", "recovering", "waiting"} => sWorker.job \in Syncs
    /\ sWorker.pc \in {"down", "recovering", "waiting"} => sWorker.job = 0
    /\ \A s \in Syncs : Attempting(s) => sync[s].status = "running"

\* A row that may be attempted once more has an attempt left, or a fault paid
\* for it: a running row that no worker attempts was left so by a fault.
AttemptsPaid ==
    \A s \in Syncs :
        /\ sync[s].attempts <= SMaxAttempts + sFaults
        /\ sync[s].status \in {"none", "scheduled", "queued", "retry_scheduled"} =>
              sync[s].attempts < SMaxAttempts + sFaults
        /\ sync[s].status = "running" /\ ~ Attempting(s) =>
              sync[s].attempts < SMaxAttempts + sFaults

\* While the worker recovers, it knows the ids that are on no list.
SyncsRead ==
    sWorker.pc = "recovering" =>
        \A s \in Syncs : sync[s].status \in {"queued", "running"} =>
            s \in Queued(sRedis) \cup ToSet(sWorker.ids) \cup sPushing \cup sLost

SyncInv ==
    /\ SyncTypes
    /\ SyncHeld
    /\ AttemptsPaid
    /\ OneSnapshotPerSuccess
    /\ SyncsRead
    /\ NoSyncForgotten

-----------------------------------------------------------------------------
\* At first no synchronisation exists and the worker is down.
LEMMA SyncInitInv == SInit => SyncInv
<1> SUFFICES ASSUME SInit PROVE SyncInv
  OBVIOUS
<1>1. <<>> \in Seq(Syncs)
  BY EmptySeq
<1>2. SyncTypes
  BY <1>1 DEF SInit, SyncTypes, SyncRow, SWorkerRow, SIdle, EmptyQueue, Lists
<1>3. SyncHeld /\ AttemptsPaid /\ OneSnapshotPerSuccess
  BY AnalyticsSyncConstants
     DEF SInit, SyncHeld, AttemptsPaid, OneSnapshotPerSuccess, Attempting, SIdle
<1>4. SyncsRead /\ NoSyncForgotten
  BY DEF SInit, SyncsRead, NoSyncForgotten, SUp, SIdle
<1> QED
  BY <1>2, <1>3, <1>4 DEF SyncInv

\* A step that leaves the rows, the worker and the faults as they are.
LEMMA ListStep ==
    ASSUME SyncInv, UNCHANGED <<sync, sWorker, snapshots, sFaults>>
    PROVE  SyncHeld' /\ AttemptsPaid' /\ OneSnapshotPerSuccess'
BY DEF SyncInv, SyncHeld, AttemptsPaid, OneSnapshotPerSuccess, Attempting

\* Requests, the pushes they make, and the time that passes.
LEMMA RequestKeepsInv ==
    ASSUME SyncInv, NEW s \in Syncs,
           \/ \E status \in {"queued", "scheduled"} : CreateSync(s, status)
           \/ PushSync(s) \/ PushSyncFails(s) \/ SyncDue(s)
    PROVE  SyncInv'
<1>0. /\ SyncTypes /\ SyncHeld /\ AttemptsPaid /\ OneSnapshotPerSuccess
      /\ SyncsRead /\ NoSyncForgotten
  BY DEF SyncInv
<1>t. sync[s] \in SyncRow
  BY <1>0 DEF SyncTypes
<1>1. ASSUME NEW status \in {"queued", "scheduled"}, CreateSync(s, status) PROVE SyncInv'
  <2>1. [sync[s] EXCEPT !.status = status] \in SyncRow
    BY <1>t DEF SyncRow
  <2>2. SyncTypes'
    BY <1>0, <1>1, <2>1 DEF CreateSync, SyncTypes
  <2>3. SyncHeld' /\ AttemptsPaid' /\ OneSnapshotPerSuccess'
    BY <1>0, <1>1, <1>t
       DEF CreateSync, SyncTypes, SyncRow, SyncHeld, AttemptsPaid, OneSnapshotPerSuccess,
           Attempting
  <2>4. SyncsRead' /\ NoSyncForgotten'
    BY <1>0, <1>1, <1>t DEF CreateSync, SyncTypes, SyncRow, SyncsRead, NoSyncForgotten, SUp
  <2> QED
    BY <2>2, <2>3, <2>4 DEF SyncInv
<1>2. ASSUME PushSync(s) PROVE SyncInv'
  <2>1. sRedis' \in Lists(Syncs) /\ Queued(sRedis') = Queued(sRedis) \cup {s}
    BY <1>0, <1>2, PushedLists DEF PushSync, SyncTypes
  <2>2. SyncTypes'
    BY <1>0, <1>2, <1>t, <2>1 DEF PushSync, SyncTypes
  <2>3. SyncsRead' /\ NoSyncForgotten'
    BY <1>0, <1>2, <2>1 DEF PushSync, SyncsRead, NoSyncForgotten, SUp
  <2> QED
    BY <1>2, <2>2, <2>3, ListStep DEF SyncInv, PushSync
<1>3. ASSUME PushSyncFails(s) PROVE SyncInv'
  <2>1. SyncTypes'
    BY <1>0, <1>3 DEF PushSyncFails, SFault, SyncTypes
  <2>2. SyncHeld' /\ AttemptsPaid' /\ OneSnapshotPerSuccess'
    BY <1>0, <1>3, AnalyticsSyncConstants
       DEF PushSyncFails, SFault, SyncTypes, SyncRow, SyncHeld, AttemptsPaid,
           OneSnapshotPerSuccess, Attempting
  <2>3. SyncsRead' /\ NoSyncForgotten'
    BY <1>0, <1>3 DEF PushSyncFails, SyncsRead, NoSyncForgotten, SUp
  <2> QED
    BY <2>1, <2>2, <2>3 DEF SyncInv
<1>4. ASSUME SyncDue(s) PROVE SyncInv'
  <2>1. [sync[s] EXCEPT !.due = TRUE] \in SyncRow
    BY <1>t DEF SyncRow
  <2>2. SyncTypes'
    BY <1>0, <1>4, <2>1 DEF SyncDue, SyncTypes
  <2>3. \A r \in Syncs : sync'[r].status = sync[r].status /\ sync'[r].attempts = sync[r].attempts
    BY <1>0, <1>4, <1>t DEF SyncDue, SyncTypes, SyncRow
  <2>4. SyncHeld' /\ AttemptsPaid' /\ OneSnapshotPerSuccess'
    BY <1>0, <1>4, <2>3
       DEF SyncDue, SyncHeld, AttemptsPaid, OneSnapshotPerSuccess, Attempting
  <2>5. SyncsRead' /\ NoSyncForgotten'
    BY <1>0, <1>4, <2>3 DEF SyncDue, SyncsRead, NoSyncForgotten, SUp
  <2> QED
    BY <2>2, <2>4, <2>5 DEF SyncInv
<1> QED
  BY <1>1, <1>2, <1>3, <1>4

\* A restart: the rows and the processing list are read, then the queue is
\* rebuilt.
LEMMA RecoveryKeepsInv ==
    ASSUME SyncInv, RecoverSyncsRead \/ RecoverSyncs
    PROVE  SyncInv'
<1>0. /\ SyncTypes /\ SyncHeld /\ AttemptsPaid /\ OneSnapshotPerSuccess
      /\ SyncsRead /\ NoSyncForgotten
  BY DEF SyncInv
<1>1. CASE RecoverSyncsRead
  <2>1. PICK ids \in Recoverable(sRedis, IncompleteSyncs) :
            sWorker' = [sWorker EXCEPT !.pc = "recovering", !.ids = ids]
    BY <1>1 DEF RecoverSyncsRead
  <2>2. IncompleteSyncs \in SUBSET Syncs /\ IsFiniteSet(IncompleteSyncs)
    BY FS_Subset, AnalyticsSyncConstants DEF IncompleteSyncs
  <2>3. /\ ids \in Seq(Syncs)
        /\ IncompleteSyncs \subseteq ToSet(ids)
    <3>1. sRedis.processing \in Seq(Syncs)
      BY <1>0 DEF SyncTypes, Lists
    <3>2. ids \in Seq(Syncs) /\ ToSet(ids) = ToSet(sRedis.processing) \cup IncompleteSyncs
      BY <2>1, <2>2, <3>1, RecoverableIds
    <3> QED
      BY <3>2
  <2>4. /\ sWorker' \in SWorkerRow
        /\ sWorker'.pc = "recovering" /\ sWorker'.ids = ids /\ sWorker'.job = sWorker.job
    BY <1>0, <2>1, <2>3 DEF SyncTypes, SWorkerRow
  <2>5. /\ sync' \in [Syncs -> SyncRow]
        /\ \A s \in Syncs :
              /\ sync'[s].attempts = sync[s].attempts
              /\ sync'[s].status = IF sync[s].status = "running" THEN "queued"
                                   ELSE sync[s].status
    <3>1. \A s \in Syncs : sync[s] \in SyncRow /\ [sync[s] EXCEPT !.status = "queued"] \in SyncRow
      BY <1>0 DEF SyncTypes, SyncRow
    <3>2. \A s \in Syncs : sync'[s] = IF sync[s].status = "running"
                                      THEN [sync[s] EXCEPT !.status = "queued"] ELSE sync[s]
      BY <1>1 DEF RecoverSyncsRead
    <3>3. sync' \in [Syncs -> SyncRow]
      BY <1>1, <3>1 DEF RecoverSyncsRead
    <3> QED
      BY <3>1, <3>2, <3>3 DEF SyncRow
  <2>6. SyncTypes'
    BY <1>0, <1>1, <2>4, <2>5 DEF RecoverSyncsRead, SyncTypes
  <2>h. sWorker.pc = "down" /\ UNCHANGED <<snapshots, sFaults>>
    BY <1>1 DEF RecoverSyncsRead
  <2>s. SyncHeld'
    BY <1>0, <2>h, <2>4 DEF SyncHeld, Attempting
  <2>7. AttemptsPaid' /\ OneSnapshotPerSuccess'
    BY <1>0, <2>h, <2>4, <2>5 DEF AttemptsPaid, OneSnapshotPerSuccess, Attempting
  <2>8. SyncsRead' /\ NoSyncForgotten'
    BY <2>3, <2>4, <2>5 DEF IncompleteSyncs, SyncsRead, NoSyncForgotten, SUp
  <2> QED
    BY <2>6, <2>s, <2>7, <2>8 DEF SyncInv
<1>2. CASE RecoverSyncs
  <2>1. sWorker.ids \in Seq(Syncs) /\ <<>> \in Seq(Syncs)
    BY <1>0, EmptySeq DEF SyncTypes, SWorkerRow
  <2>2. /\ sRedis' \in Lists(Syncs)
        /\ Queued(sRedis') = Queued(sRedis) \cup ToSet(sWorker.ids)
    BY <1>0, <1>2, <2>1, RequeuedLists DEF RecoverSyncs, SyncTypes
  <2>3. /\ sWorker' \in SWorkerRow /\ sWorker'.pc = "waiting" /\ sWorker'.job = sWorker.job
        /\ sWorker.pc = "recovering"
    BY <1>0, <1>2, <2>1 DEF RecoverSyncs, SyncTypes, SWorkerRow
  <2>4. SyncTypes'
    BY <1>0, <1>2, <2>2, <2>3 DEF RecoverSyncs, SyncTypes
  <2>5. SyncHeld' /\ AttemptsPaid' /\ OneSnapshotPerSuccess'
    BY <1>0, <1>2, <2>3
       DEF RecoverSyncs, SyncHeld, AttemptsPaid, OneSnapshotPerSuccess, Attempting
  <2>6. SyncsRead' /\ NoSyncForgotten'
    BY <1>0, <1>2, <2>2, <2>3 DEF RecoverSyncs, SyncsRead, NoSyncForgotten, SUp
  <2> QED
    BY <2>4, <2>5, <2>6 DEF SyncInv
<1> QED
  BY <1>1, <1>2

\* The worker claims an id and its row, and asks the provider.
LEMMA ClaimKeepsInv ==
    ASSUME SyncInv, TakeSync \/ ClaimSync \/ Collect
    PROVE  SyncInv'
<1>0. /\ SyncTypes /\ SyncHeld /\ AttemptsPaid /\ OneSnapshotPerSuccess
      /\ SyncsRead /\ NoSyncForgotten
  BY DEF SyncInv
<1> DEFINE j == sWorker.job
<1>1. CASE TakeSync
  <2>1. /\ NextId(sRedis) \in Syncs
        /\ sRedis' \in Lists(Syncs)
        /\ Queued(sRedis) = Queued(sRedis') \cup {NextId(sRedis)}
    BY <1>0, <1>1, ClaimedLists DEF TakeSync, SyncTypes
  <2>2. /\ sWorker' \in SWorkerRow /\ sWorker.pc = "waiting"
        /\ sWorker'.pc = "taken" /\ sWorker'.job = NextId(sRedis)
        /\ sWorker.job \notin Syncs
    BY <1>0, <1>1, <2>1, AnalyticsSyncConstants DEF TakeSync, SyncTypes, SWorkerRow, SyncHeld
  <2>3. SyncTypes'
    BY <1>0, <1>1, <2>1, <2>2 DEF TakeSync, SyncTypes
  <2>4. SyncHeld' /\ AttemptsPaid' /\ OneSnapshotPerSuccess'
    BY <1>0, <1>1, <2>1, <2>2
       DEF TakeSync, SyncHeld, AttemptsPaid, OneSnapshotPerSuccess, Attempting
  <2>5. SyncsRead' /\ NoSyncForgotten'
    BY <1>0, <1>1, <2>1, <2>2 DEF TakeSync, SyncsRead, NoSyncForgotten, SUp
  <2> QED
    BY <2>3, <2>4, <2>5 DEF SyncInv
<1>2. CASE ClaimSync
  <2>1. sWorker.pc = "taken" /\ j \in Syncs /\ sync[j] \in SyncRow
    BY <1>0, <1>2 DEF ClaimSync, SyncHeld, SyncTypes
  <2>2. SyncStarted(sync[j]) \in SyncRow
    BY <2>1 DEF SyncStarted, SyncRow
  <2>3. /\ sync' \in [Syncs -> SyncRow]
        /\ \A s \in Syncs : s # j => sync'[s] = sync[s]
        /\ SyncClaimable(sync[j]) =>
              /\ sync'[j].status = "running"
              /\ sync'[j].attempts = sync[j].attempts + 1
              /\ sync[j].status \in {"queued", "scheduled", "retry_scheduled"}
        /\ ~ SyncClaimable(sync[j]) => sync'[j] = sync[j] /\ sync[j].status # "queued"
    BY <1>0, <1>2, <2>1, <2>2 DEF ClaimSync, SyncTypes, SyncStarted, SyncClaimable, Waiting
  <2>4. /\ sWorker' \in SWorkerRow /\ sWorker'.job = j
        /\ sWorker'.pc = IF sync'[j].status = "running" THEN "collecting" ELSE "over"
    BY <1>0, <1>2 DEF ClaimSync, SyncTypes, SWorkerRow
  <2>5. SyncTypes'
    BY <1>0, <1>2, <2>3, <2>4 DEF ClaimSync, SyncTypes
  <2>6. SyncHeld'
    BY <1>0, <2>1, <2>3, <2>4 DEF SyncHeld, Attempting
  <2>7. AttemptsPaid'
    <3> SUFFICES ASSUME NEW s \in Syncs
                 PROVE  /\ sync'[s].attempts <= SMaxAttempts + sFaults'
                        /\ sync'[s].status \in {"none", "scheduled", "queued",
                                                "retry_scheduled"} =>
                              sync'[s].attempts < SMaxAttempts + sFaults'
                        /\ sync'[s].status = "running" /\ ~ Attempting(s)' =>
                              sync'[s].attempts < SMaxAttempts + sFaults'
      BY DEF AttemptsPaid
    <3>1. /\ sFaults' = sFaults /\ sFaults \in Nat /\ sync[s].attempts \in Nat
          /\ SMaxAttempts \in Nat
      BY <1>0, <1>2, AnalyticsSyncConstants DEF ClaimSync, SyncTypes, SyncRow
    <3>2. CASE s # j
      BY <1>0, <2>1, <2>3, <2>4, <3>1, <3>2 DEF AttemptsPaid, Attempting
    <3>3. CASE s = j
      BY <1>0, <2>1, <2>3, <2>4, <3>1, <3>3 DEF AttemptsPaid, Attempting
    <3> QED
      BY <3>2, <3>3
  <2>8. OneSnapshotPerSuccess'
    BY <1>0, <1>2, <2>1, <2>3 DEF ClaimSync, OneSnapshotPerSuccess
  <2>9. SyncsRead' /\ NoSyncForgotten'
    BY <1>0, <1>2, <2>1, <2>3, <2>4 DEF ClaimSync, SyncsRead, NoSyncForgotten, SUp
  <2> QED
    BY <2>5, <2>6, <2>7, <2>8, <2>9 DEF SyncInv
<1>3. CASE Collect
  <2>1. PICK answer \in {"collected", "unconfigured", "retrying"} :
            sWorker' = [sWorker EXCEPT !.pc = answer]
    BY <1>3 DEF Collect
  <2>2. /\ sWorker' \in SWorkerRow /\ sWorker.pc = "collecting"
        /\ sWorker'.pc = answer /\ sWorker'.job = j
    BY <1>0, <1>3, <2>1 DEF Collect, SyncTypes, SWorkerRow
  <2>3. SyncTypes'
    BY <1>0, <1>3, <2>2 DEF Collect, SyncTypes
  <2>4. SyncHeld' /\ AttemptsPaid' /\ OneSnapshotPerSuccess'
    BY <1>0, <1>3, <2>2
       DEF Collect, SyncHeld, AttemptsPaid, OneSnapshotPerSuccess, Attempting
  <2>5. SyncsRead' /\ NoSyncForgotten'
    BY <1>0, <1>3, <2>2 DEF Collect, SyncsRead, NoSyncForgotten, SUp
  <2> QED
    BY <2>3, <2>4, <2>5 DEF SyncInv
<1> QED
  BY <1>1, <1>2, <1>3

\* The attempt ends: with a snapshot, a verdict, another attempt to come, or an
\* error nobody handles.
LEMMA AttemptKeepsInv ==
    ASSUME SyncInv,
           \/ CompleteSync \/ CompleteSyncRaises \/ TerminalFailure \/ ScheduleRetry
           \/ SyncProcessRaises \/ ReleaseSync
    PROVE  SyncInv'
<1>0. /\ SyncTypes /\ SyncHeld /\ AttemptsPaid /\ OneSnapshotPerSuccess
      /\ SyncsRead /\ NoSyncForgotten
  BY DEF SyncInv
<1> DEFINE j == sWorker.job
<1>f. SMaxAttempts \in Nat \ {0} /\ sFaults \in Nat /\ \A s \in Syncs : sync[s].attempts \in Nat
  BY <1>0, AnalyticsSyncConstants DEF SyncTypes, SyncRow
<1>v. ASSUME NEW status \in SyncSettled \cup {"retry_scheduled"},
             j \in Syncs, sync[j].status = "running",
             sync' = [sync EXCEPT ![j].status = status],
             sWorker' = [sWorker EXCEPT !.pc = "over"],
             status = "retry_scheduled" => sync[j].attempts < SMaxAttempts,
             snapshots' \in [Syncs -> Nat],
             \A s \in Syncs : snapshots'[s] = IF s = j /\ status = "succeeded"
                                              THEN snapshots[s] + 1 ELSE snapshots[s],
             UNCHANGED <<sRedis, sPushing, sScheduler, sLost, sFaults>>
      PROVE  SyncInv'
  <2>1. [sync[j] EXCEPT !.status = status] \in SyncRow
    BY <1>0, <1>v DEF SyncTypes, SyncRow
  <2>2. /\ sync' \in [Syncs -> SyncRow]
        /\ \A s \in Syncs : s # j => sync'[s] = sync[s]
        /\ sync'[j].status = status /\ sync'[j].attempts = sync[j].attempts
    BY <1>0, <1>v, <2>1 DEF SyncTypes, SyncRow
  <2>3. sWorker' \in SWorkerRow /\ sWorker'.pc = "over" /\ sWorker'.job = j
    BY <1>0, <1>v DEF SyncTypes, SWorkerRow
  <2>4. SyncTypes'
    BY <1>0, <1>v, <2>2, <2>3 DEF SyncTypes
  <2>5. SyncHeld'
    BY <1>v, <2>3 DEF SyncHeld, Attempting
  <2>6. AttemptsPaid'
    BY <1>0, <1>f, <1>v, <2>2, <2>3 DEF AttemptsPaid, Attempting, SyncSettled
  <2>7. OneSnapshotPerSuccess'
    BY <1>0, <1>v, <2>2 DEF OneSnapshotPerSuccess
  <2>8. SyncsRead' /\ NoSyncForgotten'
    <3>1. sWorker.pc \notin {"down", "recovering"}
      BY <1>0, <1>v, AnalyticsSyncConstants DEF SyncHeld
    <3> QED
      BY <1>0, <1>v, <2>2, <2>3, <3>1 DEF SyncsRead, NoSyncForgotten, SUp, SyncSettled
  <2> QED
    BY <2>4, <2>5, <2>6, <2>7, <2>8 DEF SyncInv
<1>1. CASE CompleteSync
  <2>1. j \in Syncs /\ sync[j].status = "running"
    BY <1>0, <1>1 DEF CompleteSync, SyncHeld
  <2>2. /\ snapshots' \in [Syncs -> Nat]
        /\ \A s \in Syncs : snapshots'[s] = IF s = j THEN snapshots[s] + 1 ELSE snapshots[s]
    BY <1>0, <1>1, <2>1 DEF CompleteSync, SnapshotTaken, SyncTypes
  <2> QED
    BY <1>1, <1>v, <2>1, <2>2 DEF CompleteSync, SyncSettled
<1>2. CASE CompleteSyncRaises
  <2>1. /\ sWorker' \in SWorkerRow /\ sWorker.pc = "collected"
        /\ sWorker'.pc = "retrying" /\ sWorker'.job = j
    BY <1>0, <1>2 DEF CompleteSyncRaises, SyncTypes, SWorkerRow
  <2>2. SyncTypes'
    BY <1>0, <1>2, <2>1 DEF CompleteSyncRaises, SFault, SyncTypes
  <2>3. SyncHeld' /\ AttemptsPaid' /\ OneSnapshotPerSuccess'
    BY <1>0, <1>2, <1>f, <2>1
       DEF CompleteSyncRaises, SFault, SyncHeld, AttemptsPaid, OneSnapshotPerSuccess, Attempting
  <2>4. SyncsRead' /\ NoSyncForgotten'
    BY <1>0, <1>2, <2>1 DEF CompleteSyncRaises, SyncsRead, NoSyncForgotten, SUp
  <2> QED
    BY <2>2, <2>3, <2>4 DEF SyncInv
<1>3. CASE TerminalFailure
  <2>1. j \in Syncs /\ sync[j].status = "running"
    BY <1>0, <1>3 DEF TerminalFailure, SyncHeld, Attempting
  <2>2. snapshots' = snapshots /\ snapshots \in [Syncs -> Nat]
    BY <1>0, <1>3 DEF TerminalFailure, SyncTypes
  <2> QED
    BY <1>3, <1>v, <2>1, <2>2 DEF TerminalFailure, SyncSettled
<1>4. CASE ScheduleRetry
  <2> DEFINE next == IF SyncExhausted(sync[j]) THEN "failed" ELSE "retry_scheduled"
  <2>1. j \in Syncs /\ sync[j].status = "running"
    BY <1>0, <1>4 DEF ScheduleRetry, SyncHeld, Attempting
  <2>2. snapshots' = snapshots /\ snapshots \in [Syncs -> Nat]
    BY <1>0, <1>4 DEF ScheduleRetry, SyncTypes
  <2>3. /\ next \in SyncSettled \cup {"retry_scheduled"} /\ next # "succeeded"
        /\ next = "retry_scheduled" => sync[j].attempts < SMaxAttempts
    BY <1>f, <2>1 DEF SyncExhausted, SyncSettled
  <2>4. sync' = [sync EXCEPT ![j].status = next]
    BY <1>4 DEF ScheduleRetry
  <2> HIDE DEF next
  <2> QED
    BY <1>4, <1>v, <2>1, <2>2, <2>3, <2>4 DEF ScheduleRetry
<1>5. CASE SyncProcessRaises
  <2>1. /\ sWorker' \in SWorkerRow /\ j \in Syncs
        /\ sWorker.pc \notin {"down", "recovering"}
        /\ sWorker'.pc = "over" /\ sWorker'.job = j
    BY <1>0, <1>5 DEF SyncProcessRaises, SyncTypes, SWorkerRow, SyncHeld
  <2>2. SyncTypes'
    BY <1>0, <1>5, <2>1 DEF SyncProcessRaises, SFault, SyncTypes
  <2>3. SyncHeld' /\ AttemptsPaid' /\ OneSnapshotPerSuccess'
    BY <1>0, <1>5, <1>f, <2>1
       DEF SyncProcessRaises, SFault, SyncHeld, AttemptsPaid, OneSnapshotPerSuccess, Attempting
  <2>4. SyncsRead' /\ NoSyncForgotten'
    BY <1>0, <1>5, <2>1 DEF SyncProcessRaises, SyncsRead, NoSyncForgotten, SUp
  <2> QED
    BY <2>2, <2>3, <2>4 DEF SyncInv
<1>6. CASE ReleaseSync
  <2>1. /\ sWorker' = [pc |-> "waiting", job |-> 0, ids |-> <<>>]
        /\ sWorker.pc = "over" /\ <<>> \in Seq(Syncs)
    BY <1>6, EmptySeq DEF ReleaseSync, SIdle
  <2>2. sWorker' \in SWorkerRow /\ sWorker'.pc = "waiting" /\ sWorker'.job = 0
    BY <2>1 DEF SWorkerRow
  <2>3. sRedis' \in Lists(Syncs) /\ Queued(sRedis') = Queued(sRedis)
    BY <1>0, <1>6, ReleasedLists DEF ReleaseSync, SyncTypes
  <2>4. SyncTypes'
    BY <1>0, <1>6, <2>2, <2>3 DEF ReleaseSync, SyncTypes
  <2>5. SyncHeld' /\ AttemptsPaid' /\ OneSnapshotPerSuccess'
    BY <1>0, <1>6, <2>1, <2>2, AnalyticsSyncConstants
       DEF ReleaseSync, SyncHeld, AttemptsPaid, OneSnapshotPerSuccess, Attempting
  <2>6. SyncsRead' /\ NoSyncForgotten'
    BY <1>0, <1>6, <2>1, <2>2, <2>3 DEF ReleaseSync, SyncsRead, NoSyncForgotten, SUp
  <2> QED
    BY <2>4, <2>5, <2>6 DEF SyncInv
<1> QED
  BY <1>1, <1>2, <1>3, <1>4, <1>5, <1>6

\* The scheduler, and a crash of the process it shares with the worker.
LEMMA SchedulerKeepsInv ==
    ASSUME SyncInv, SyncSchedulerStep \/ SyncWorkerCrash
    PROVE  SyncInv'
<1>0. /\ SyncTypes /\ SyncHeld /\ AttemptsPaid /\ OneSnapshotPerSuccess
      /\ SyncsRead /\ NoSyncForgotten
  BY DEF SyncInv
<1>1. CASE ActivateDueSyncs
  <2> DEFINE due == {s \in Syncs : Waiting(sync[s]) /\ sync[s].due}
  <2>1. /\ sScheduler' \in SetToSeqs(due) /\ sScheduler = <<>> /\ SUp
        /\ sync' = [s \in Syncs |-> IF s \in due THEN [sync[s] EXCEPT !.status = "queued"]
                                    ELSE sync[s]]
        /\ UNCHANGED <<sRedis, sPushing, sWorker, snapshots, sLost, sFaults>>
    BY <1>1 DEF ActivateDueSyncs
  <2>2. due \in SUBSET Syncs /\ IsFiniteSet(due)
    BY FS_Subset, AnalyticsSyncConstants
  <2>3. sScheduler' \in Seq(Syncs) /\ ToSet(sScheduler') = due
    <3>1. sScheduler' \in Seq(due) /\ ToSet(sScheduler') = due
      BY <2>1, <2>2, EnumerationIds
    <3> QED
      BY <2>2, <3>1, SeqMonotonic
  <2>4. \A s \in due : sync[s].status \in {"scheduled", "retry_scheduled"}
    BY DEF Waiting
  <2> HIDE DEF due
  <2>5. /\ sync' \in [Syncs -> SyncRow]
        /\ \A s \in Syncs \ due : sync'[s] = sync[s]
        /\ \A s \in due : sync'[s].status = "queued" /\ sync'[s].attempts = sync[s].attempts
    <3>1. \A s \in Syncs : sync[s] \in SyncRow /\ [sync[s] EXCEPT !.status = "queued"] \in SyncRow
      BY <1>0 DEF SyncTypes, SyncRow
    <3>2. sync' \in [Syncs -> SyncRow]
      BY <2>1, <3>1
    <3> QED
      BY <2>1, <2>2, <3>1, <3>2 DEF SyncRow
  <2>6. SyncTypes'
    BY <1>0, <2>1, <2>3, <2>5 DEF SyncTypes
  <2>7. SyncHeld' /\ AttemptsPaid' /\ OneSnapshotPerSuccess'
    BY <1>0, <2>1, <2>2, <2>4, <2>5
       DEF SyncHeld, AttemptsPaid, OneSnapshotPerSuccess, Attempting
  <2>8. SyncsRead' /\ NoSyncForgotten'
    <3>1. ToSet(<<>>) = {}
      BY DEF ToSet
    <3> QED
      BY <1>0, <2>1, <2>2, <2>3, <2>5, <3>1 DEF SyncsRead, NoSyncForgotten, SUp
  <2> QED
    BY <2>6, <2>7, <2>8 DEF SyncInv
<1>2. CASE PushDueSync
  <2>1. /\ Head(sScheduler) \in Syncs /\ sScheduler' \in Seq(Syncs)
        /\ ToSet(sScheduler) = {Head(sScheduler)} \cup ToSet(sScheduler')
    BY <1>0, <1>2, TailIds DEF PushDueSync, SyncTypes
  <2>2. sRedis' \in Lists(Syncs) /\ Queued(sRedis') = Queued(sRedis) \cup {Head(sScheduler)}
    BY <1>0, <1>2, <2>1, PushedLists DEF PushDueSync, SyncTypes
  <2>3. SyncTypes'
    BY <1>0, <1>2, <2>1, <2>2 DEF PushDueSync, SyncTypes
  <2>4. SyncsRead' /\ NoSyncForgotten'
    BY <1>0, <1>2, <2>1, <2>2 DEF PushDueSync, SyncsRead, NoSyncForgotten, SUp
  <2> QED
    BY <1>2, <2>3, <2>4, ListStep DEF SyncInv, PushDueSync
<1>3. CASE SyncWorkerCrash
  <2>1. <<>> \in Seq(Syncs) /\ SMaxAttempts \in Nat /\ sFaults \in Nat
    BY <1>0, AnalyticsSyncConstants, EmptySeq DEF SyncTypes
  <2>2. sWorker' \in SWorkerRow /\ sWorker'.pc = "down" /\ sWorker'.job = 0
    BY <1>3, <2>1 DEF SyncWorkerCrash, SIdle, SWorkerRow
  <2>3. SyncTypes'
    BY <1>0, <1>3, <2>1, <2>2 DEF SyncWorkerCrash, SFault, SyncTypes
  <2>4. SyncHeld' /\ OneSnapshotPerSuccess'
    BY <1>0, <1>3, <2>2, AnalyticsSyncConstants
       DEF SyncWorkerCrash, SyncHeld, OneSnapshotPerSuccess, Attempting
  <2>5. AttemptsPaid'
    <3>1. \A s \in Syncs : sync[s].attempts \in Nat
      BY <1>0 DEF SyncTypes, SyncRow
    <3> QED
      BY <1>0, <1>3, <2>1, <2>2, <3>1 DEF SyncWorkerCrash, SFault, AttemptsPaid, Attempting
  <2>6. SyncsRead' /\ NoSyncForgotten'
    BY <2>2 DEF SyncsRead, NoSyncForgotten, SUp
  <2> QED
    BY <2>3, <2>4, <2>5, <2>6 DEF SyncInv
<1> QED
  BY <1>1, <1>2, <1>3 DEF SyncSchedulerStep

\* Every step keeps the invariant.
LEMMA SyncNextInv == SyncInv /\ [SNext]_sVars => SyncInv'
<1> SUFFICES ASSUME SyncInv, [SNext]_sVars PROVE SyncInv'
  OBVIOUS
<1>1. CASE UNCHANGED sVars
  BY <1>1 DEF sVars, SyncInv, SyncTypes, SyncHeld, AttemptsPaid, Attempting,
              OneSnapshotPerSuccess, SyncsRead, NoSyncForgotten, SUp
<1>2. CASE SNext
  BY <1>2, RequestKeepsInv, RecoveryKeepsInv, ClaimKeepsInv, AttemptKeepsInv,
     SchedulerKeepsInv DEF SNext, SyncWorkerStep
<1> QED
  BY <1>1, <1>2

\* The invariant holds in every reachable state.
LEMMA SyncInvariant == SSpec => []SyncInv
<1> QED
  BY SyncInitInv, SyncNextInv, PTL DEF SSpec

-----------------------------------------------------------------------------
(* Synchronisations: the theorems.                                         *)

\* However often a synchronisation is interrupted, repeated and recovered, it
\* has one snapshot when it succeeded and none otherwise, and the attempts
\* beyond the configured number are at most as many as the faults
\* (analytics_repository.py, complete and schedule_retry).
THEOREM SyncsAreCounted == SSpec => [](OneSnapshotPerSuccess /\ ExtraAttemptsAreFaults)
<1>1. SyncInv => OneSnapshotPerSuccess /\ ExtraAttemptsAreFaults
  BY DEF SyncInv, AttemptsPaid, ExtraAttemptsAreFaults
<1> QED
  BY <1>1, SyncInvariant, PTL

\* Rows, lists and positions have their types (analytics_syncs and its queue).
THEOREM SyncsHaveTypes == SSpec => []STypeOK
<1>1. SyncInv => STypeOK
  BY DEF SyncInv, SyncTypes, STypeOK, SyncRow, SWorkerRow, Lists
<1> QED
  BY <1>1, SyncInvariant, PTL

\* While the worker is up, each queued or running synchronisation is on its
\* way, in the worker's hands, or one a fault is known to have dropped
\* (recover_analytics_sync_jobs).
THEOREM SyncsRemembered == SSpec => []NoSyncForgotten
<1>1. SyncInv => NoSyncForgotten
  BY DEF SyncInv
<1> QED
  BY <1>1, SyncInvariant, PTL

-----------------------------------------------------------------------------
(* Synchronisations: the refinement.                                       *)

Verdict(row) ==
    CASE row.status = "none" -> "absent"
      [] row.status = "succeeded" -> "done"
      [] row.status \in {"failed", "not_configured"} -> "dead"
      [] OTHER -> "open"

Verdicts == [s \in Syncs |-> Verdict(sync[s])]
Effects == {s \in Syncs : snapshots[s] > 0}

\* One row changes.
LEMMA VerdictStep ==
    ASSUME NEW s \in Syncs, \A r \in Syncs \ {s} : sync'[r] = sync[r],
           NEW v, Verdict(sync'[s]) = v
    PROVE  Verdicts' = [Verdicts EXCEPT ![s] = v]
BY DEF Verdicts, Verdict

\* A row that was open and stays so, or keeps its verdict, changes nothing.
LEMMA VerdictsStay ==
    ASSUME \A s \in Syncs : Verdict(sync'[s]) = Verdict(sync[s]), snapshots' = snapshots
    PROVE  UNCHANGED <<Verdicts, Effects>>
BY DEF Verdicts, Effects, Verdict

\* What the outbox's actions are in the synchronisations' own terms.
LEMMA OutboxStep ==
    ASSUME NEW s \in Syncs,
           \/ /\ Verdicts[s] = "absent"
              /\ Verdicts' = [Verdicts EXCEPT ![s] = "open"]
              /\ Effects' = Effects
           \/ /\ Verdicts[s] = "open"
              /\ Verdicts' = [Verdicts EXCEPT ![s] = "done"]
              /\ Effects' = Effects \cup {s}
           \/ /\ Verdicts[s] = "open"
              /\ Verdicts' = [Verdicts EXCEPT ![s] = "dead"]
              /\ Effects' = Effects
    PROVE  SyncOutbox!OutboxNext
BY DEF SyncOutbox!OutboxNext, SyncOutbox!Accept, SyncOutbox!Conclude, SyncOutbox!GiveUp,
       Verdicts, Effects, Verdict

\* At first the outbox is empty.
LEMMA SyncInitMaps == SInit => SyncOutbox!OutboxInit
BY DEF SInit, SyncOutbox!OutboxInit

\* Every step of the queue is one of the outbox, or leaves it alone.
LEMMA SyncStepMaps ==
    ASSUME SyncInv, [SNext]_sVars
    PROVE  [SyncOutbox!OutboxNext]_SyncOutbox!outboxVars
<1>0. /\ SyncTypes /\ SyncHeld /\ OneSnapshotPerSuccess
      /\ sync \in [Syncs -> SyncRow] /\ snapshots \in [Syncs -> Nat]
  BY DEF SyncInv, SyncTypes
<1>u. ASSUME UNCHANGED <<Verdicts, Effects>>
      PROVE  [SyncOutbox!OutboxNext]_SyncOutbox!outboxVars
  BY <1>u DEF SyncOutbox!outboxVars, Verdicts, Effects, Verdict
<1>s. ASSUME sync' = sync, snapshots' = snapshots
      PROVE  UNCHANGED <<Verdicts, Effects>>
  BY <1>s DEF Verdicts, Effects
<1>o. \A row : row.status \in {"scheduled", "queued", "running", "retry_scheduled"} =>
            Verdict(row) = "open"
  BY DEF Verdict
<1> DEFINE j == sWorker.job
<1>1. ASSUME NEW s \in Syncs, NEW status \in {"queued", "scheduled"}, CreateSync(s, status)
      PROVE  SyncOutbox!OutboxNext
  <2>1. Verdict(sync[s]) = "absent" /\ Verdict(sync'[s]) = "open"
    BY <1>0, <1>1 DEF CreateSync, Verdict, SyncRow
  <2>2. \A r \in Syncs \ {s} : sync'[r] = sync[r]
    BY <1>0, <1>1 DEF CreateSync
  <2>3. Verdicts' = [Verdicts EXCEPT ![s] = "open"]
    BY <2>1, <2>2, VerdictStep
  <2>4. Effects' = Effects /\ Verdicts[s] = "absent"
    BY <1>1, <2>1 DEF CreateSync, Verdicts, Effects
  <2> QED
    BY <2>3, <2>4, OutboxStep
<1>2. ASSUME NEW s \in Syncs, SyncDue(s) PROVE UNCHANGED <<Verdicts, Effects>>
  <2>1. \A r \in Syncs : Verdict(sync'[r]) = Verdict(sync[r])
    BY <1>0, <1>2 DEF SyncDue, Verdict, SyncRow
  <2> QED
    BY <1>2, <2>1, VerdictsStay DEF SyncDue
<1>3. CASE RecoverSyncsRead
  <2>1. \A r \in Syncs : Verdict(sync'[r]) = Verdict(sync[r])
    BY <1>0, <1>3 DEF RecoverSyncsRead, Verdict, SyncRow
  <2>2. snapshots' = snapshots
    BY <1>3 DEF RecoverSyncsRead
  <2> QED
    BY <1>u, <2>1, <2>2, VerdictsStay
<1>4. CASE ActivateDueSyncs
  <2>1. \A r \in Syncs : \/ sync'[r] = sync[r]
                         \/ Waiting(sync[r]) /\ sync'[r].status = "queued"
    BY <1>0, <1>4 DEF ActivateDueSyncs, SyncRow
  <2>2. \A r \in Syncs : Verdict(sync'[r]) = Verdict(sync[r])
    BY <1>o, <2>1 DEF Waiting
  <2>3. snapshots' = snapshots
    BY <1>4 DEF ActivateDueSyncs
  <2> QED
    BY <1>u, <2>2, <2>3, VerdictsStay
<1>5. CASE ClaimSync
  <2>1. j \in Syncs
    BY <1>0, <1>5 DEF ClaimSync, SyncHeld
  <2>2. \A r \in Syncs : sync'[r] = sync[r] \/ /\ SyncClaimable(sync[r])
                                               /\ sync'[r] = SyncStarted(sync[r])
    BY <1>0, <1>5, <2>1 DEF ClaimSync
  <2>3. \A r \in Syncs : Verdict(sync'[r]) = Verdict(sync[r])
    <3>1. \A r \in Syncs : SyncStarted(sync[r]).status = "running"
      BY DEF SyncStarted
    <3> QED
      BY <1>o, <2>2, <3>1 DEF SyncClaimable, Waiting
  <2>4. snapshots' = snapshots
    BY <1>5 DEF ClaimSync
  <2> QED
    BY <1>u, <2>3, <2>4, VerdictsStay
<1>6. ASSUME NEW status \in SyncSettled \cup {"retry_scheduled"},
             j \in Syncs, sync[j].status = "running",
             sync' = [sync EXCEPT ![j].status = status]
      PROVE  /\ Verdicts[j] = "open"
             /\ \A r \in Syncs \ {j} : sync'[r] = sync[r]
             /\ Verdict(sync'[j]) = CASE status = "succeeded" -> "done"
                                      [] status = "retry_scheduled" -> "open"
                                      [] OTHER -> "dead"
  BY <1>0, <1>6 DEF Verdicts, Verdict, SyncRow, SyncSettled
<1>7. CASE CompleteSync
  <2>1. j \in Syncs /\ sync[j].status = "running"
    BY <1>0, <1>7 DEF CompleteSync, SyncHeld
  <2>2. /\ Verdicts[j] = "open" /\ Verdict(sync'[j]) = "done"
        /\ \A r \in Syncs \ {j} : sync'[r] = sync[r]
    BY <1>6, <1>7, <2>1 DEF CompleteSync, SyncSettled
  <2>3. Verdicts' = [Verdicts EXCEPT ![j] = "done"]
    BY <2>1, <2>2, VerdictStep
  <2>4. Effects' = Effects \cup {j}
    BY <1>0, <1>7, <2>1 DEF CompleteSync, SnapshotTaken, Effects
  <2> QED
    BY <2>1, <2>2, <2>3, <2>4, OutboxStep
<1>8. CASE TerminalFailure
  <2>1. j \in Syncs /\ sync[j].status = "running"
    BY <1>0, <1>8 DEF TerminalFailure, SyncHeld, Attempting
  <2>2. /\ Verdicts[j] = "open" /\ Verdict(sync'[j]) = "dead"
        /\ \A r \in Syncs \ {j} : sync'[r] = sync[r]
    BY <1>6, <1>8, <2>1 DEF TerminalFailure, SyncSettled
  <2>3. Verdicts' = [Verdicts EXCEPT ![j] = "dead"]
    BY <2>1, <2>2, VerdictStep
  <2>4. Effects' = Effects
    BY <1>8 DEF TerminalFailure, Effects
  <2> QED
    BY <2>1, <2>2, <2>3, <2>4, OutboxStep
<1>9. CASE ScheduleRetry
  <2> DEFINE next == IF SyncExhausted(sync[j]) THEN "failed" ELSE "retry_scheduled"
  <2>1. /\ j \in Syncs /\ sync[j].status = "running"
        /\ next \in {"failed", "retry_scheduled"}
        /\ sync' = [sync EXCEPT ![j].status = next] /\ snapshots' = snapshots
    BY <1>0, <1>9 DEF ScheduleRetry, SyncHeld, Attempting
  <2> HIDE DEF next
  <2>2. /\ Verdicts[j] = "open"
        /\ \A r \in Syncs \ {j} : sync'[r] = sync[r]
        /\ Verdict(sync'[j]) = IF next = "failed" THEN "dead" ELSE "open"
    BY <1>6, <2>1 DEF SyncSettled
  <2>3. CASE next = "failed"
    <3>1. Verdicts' = [Verdicts EXCEPT ![j] = "dead"]
      BY <2>1, <2>2, <2>3, VerdictStep
    <3>2. Effects' = Effects
      BY <2>1 DEF Effects
    <3> QED
      BY <2>1, <2>2, <3>1, <3>2, OutboxStep
  <2>4. CASE next = "retry_scheduled"
    <3>1. \A r \in Syncs : Verdict(sync'[r]) = Verdict(sync[r])
      BY <2>1, <2>2, <2>4 DEF Verdicts
    <3> QED
      BY <1>u, <2>1, <3>1, VerdictsStay
  <2> QED
    BY <2>1, <2>3, <2>4
<1>10. CASE UNCHANGED <<sync, snapshots>>
  BY <1>s, <1>u, <1>10
<1>11. \/ UNCHANGED <<sync, snapshots>>
       \/ \E s \in Syncs : \/ \E status \in {"queued", "scheduled"} : CreateSync(s, status)
                           \/ SyncDue(s)
       \/ RecoverSyncsRead \/ ClaimSync \/ CompleteSync \/ TerminalFailure \/ ScheduleRetry
       \/ ActivateDueSyncs
  BY DEF SNext, SyncWorkerStep, SyncSchedulerStep, sVars, PushSync, PushSyncFails, RecoverSyncs,
         TakeSync, Collect, ReleaseSync, PushDueSync, CompleteSyncRaises, SyncProcessRaises,
         SyncWorkerCrash
<1> QED
  BY <1>1, <1>2, <1>3, <1>4, <1>5, <1>7, <1>8, <1>9, <1>10, <1>11, <1>u

\* The analytics queue is an at-least-once outbox: a synchronisation is done
\* only with its snapshot taken, and no verdict is taken back.
THEOREM SyncsImplementOutbox == SSpec => SyncsTakeEffect
<1>1. SInit => SyncOutbox!OutboxInit
  BY SyncInitMaps
<1>2. SyncInv /\ [SNext]_sVars => [SyncOutbox!OutboxNext]_SyncOutbox!outboxVars
  BY SyncStepMaps
<1> QED
  BY <1>1, <1>2, SyncInvariant, PTL DEF SSpec, SyncsTakeEffect, SyncOutbox!OutboxSpec

-----------------------------------------------------------------------------
(* Deliveries: the inductive invariant.                                    *)

DeliveryRow ==
    [status : {"none", "queued", "running", "retry_scheduled", "succeeded", "failed"},
     attempts : Nat, due : BOOLEAN]

DWorkerRow ==
    [pc : {"down", "recovering", "waiting", "taken", "sending", "accepted", "refused", "over"},
     job : Deliveries \cup {0}, ids : Seq(Deliveries)]

DeliveryTypes ==
    /\ delivery \in [Deliveries -> DeliveryRow]
    /\ dRedis \in Lists(Deliveries)
    /\ dPushing \in SUBSET Deliveries
    /\ dScheduler \in Seq(Deliveries)
    /\ dWorker \in DWorkerRow
    /\ dInbox \in [Deliveries -> Nat]
    /\ dSends \in [Deliveries -> Nat]
    /\ dLost \in SUBSET Deliveries
    /\ dFaults \in Nat

\* The worker is in the middle of an attempt at d; it has posted it.
Trying(d) == dWorker.job = d /\ dWorker.pc \in {"sending", "accepted", "refused"}
Posted(d) == dWorker.job = d /\ dWorker.pc \in {"accepted", "refused"}

\* Between attempts the worker holds nothing; during one, the row it holds is
\* running, and what was accepted has been received.
DeliveryHeld ==
    /\ dWorker.pc \notin {"down", "recovering", "waiting"} => dWorker.job \in Deliveries
    /\ dWorker.pc \in {"down", "recovering", "waiting"} => dWorker.job = 0
    /\ \A d \in Deliveries : Trying(d) => delivery[d].status = "running"
    /\ dWorker.pc = "accepted" => dInbox[dWorker.job] > 0

\* A delivery that may be attempted again has an attempt left, or a fault paid
\* for it; one that may be posted without another attempt has its attempt, or
\* a fault paid for the post.
PostsPaid ==
    \A d \in Deliveries :
        /\ dSends[d] <= delivery[d].attempts + dFaults
        /\ delivery[d].attempts <= DMaxAttempts + dFaults
        /\ delivery[d].status \in {"none", "queued", "retry_scheduled"} =>
              delivery[d].attempts < DMaxAttempts + dFaults
        /\ delivery[d].status = "running" /\ ~ Trying(d) =>
              delivery[d].attempts < DMaxAttempts + dFaults
        /\ delivery[d].status = "running" /\ ~ Posted(d) =>
              dSends[d] < delivery[d].attempts + dFaults

\* While the worker recovers, it knows the ids that are on no list.
DeliveriesRead ==
    dWorker.pc = "recovering" =>
        \A d \in Deliveries : DOpen(d) =>
            d \in Queued(dRedis) \cup ToSet(dWorker.ids) \cup dPushing \cup dLost

DeliveryInv ==
    /\ DeliveryTypes
    /\ DeliveryHeld
    /\ PostsPaid
    /\ DeliveriesRead
    /\ NoDeliveryForgotten

-----------------------------------------------------------------------------
\* At first there is no delivery and the worker is down.
LEMMA DeliveryInitInv == DInit => DeliveryInv
<1> SUFFICES ASSUME DInit PROVE DeliveryInv
  OBVIOUS
<1>1. <<>> \in Seq(Deliveries)
  BY EmptySeq
<1>2. DeliveryTypes
  BY <1>1 DEF DInit, DeliveryTypes, DeliveryRow, DWorkerRow, DIdle, EmptyQueue, Lists
<1>3. DeliveryHeld /\ PostsPaid
  BY WebhookConstants DEF DInit, DeliveryHeld, PostsPaid, Trying, Posted, DIdle
<1>4. DeliveriesRead /\ NoDeliveryForgotten
  BY DEF DInit, DeliveriesRead, NoDeliveryForgotten, DUp, DIdle
<1> QED
  BY <1>2, <1>3, <1>4 DEF DeliveryInv

\* The numbers the invariant compares.
LEMMA DeliveryNumbers ==
    ASSUME DeliveryTypes
    PROVE  /\ DMaxAttempts \in Nat \ {0} /\ dFaults \in Nat /\ 0 \notin Deliveries
           /\ \A d \in Deliveries : /\ delivery[d] \in DeliveryRow
                                    /\ delivery[d].attempts \in Nat
                                    /\ dSends[d] \in Nat /\ dInbox[d] \in Nat
BY WebhookConstants DEF DeliveryTypes, DeliveryRow

\* A claim makes the row a running one with one more attempt.
LEMMA StartedRow ==
    ASSUME NEW row \in DeliveryRow
    PROVE  /\ Started(row) \in DeliveryRow
           /\ Started(row).status = "running"
           /\ Started(row).attempts = row.attempts + 1
<1> DEFINE n == row.attempts + 1
<1>1. n \in Nat
  BY DEF DeliveryRow
<1>2. Started(row) = [row EXCEPT !.status = "running", !.attempts = n, !.due = FALSE]
  BY DEF Started
<1> HIDE DEF n
<1>3. Started(row) = [status |-> "running", attempts |-> n, due |-> FALSE]
  BY <1>2 DEF DeliveryRow
<1> QED
  BY <1>1, <1>3 DEF DeliveryRow, n

\* A step that leaves the rows, the worker, the books and the faults alone.
LEMMA ListsOnly ==
    ASSUME DeliveryInv, UNCHANGED <<delivery, dWorker, dBooks, dFaults>>
    PROVE  DeliveryHeld' /\ PostsPaid'
BY DEF DeliveryInv, DeliveryHeld, PostsPaid, Trying, Posted, dBooks

\* Requests, the pushes they make, and the time that passes.
LEMMA EventKeepsInv ==
    ASSUME DeliveryInv, NEW d \in Deliveries,
           CreateDelivery(d) \/ PushDelivery(d) \/ PushDeliveryFails(d) \/ DeliveryDue(d)
    PROVE  DeliveryInv'
<1>0. DeliveryTypes /\ DeliveryHeld /\ PostsPaid /\ DeliveriesRead /\ NoDeliveryForgotten
  BY DEF DeliveryInv
<1>t. /\ DMaxAttempts \in Nat \ {0} /\ dFaults \in Nat /\ 0 \notin Deliveries
      /\ \A r \in Deliveries : /\ delivery[r] \in DeliveryRow
                               /\ delivery[r].attempts \in Nat
                               /\ dSends[r] \in Nat /\ dInbox[r] \in Nat
  BY <1>0, DeliveryNumbers
<1>1. CASE CreateDelivery(d)
  <2>1. [delivery[d] EXCEPT !.status = "queued"] \in DeliveryRow
    BY <1>t DEF DeliveryRow
  <2>2. /\ delivery' \in [Deliveries -> DeliveryRow]
        /\ \A r \in Deliveries : r # d => delivery'[r] = delivery[r]
        /\ delivery'[d].status = "queued" /\ delivery'[d].attempts = delivery[d].attempts
        /\ delivery[d].status = "none"
    BY <1>0, <1>1, <1>t, <2>1 DEF CreateDelivery, DeliveryTypes, DeliveryRow
  <2>3. DeliveryTypes'
    BY <1>0, <1>1, <2>2 DEF CreateDelivery, DeliveryTypes, dBooks
  <2>4. DeliveryHeld'
    BY <1>0, <1>1, <2>2 DEF CreateDelivery, DeliveryHeld, Trying, dBooks
  <2>5. PostsPaid'
    BY <1>0, <1>1, <2>2 DEF CreateDelivery, PostsPaid, Trying, Posted, dBooks
  <2>6. DeliveriesRead' /\ NoDeliveryForgotten'
    BY <1>0, <1>1, <2>2 DEF CreateDelivery, DeliveriesRead, NoDeliveryForgotten, DUp, DOpen
  <2> QED
    BY <2>3, <2>4, <2>5, <2>6 DEF DeliveryInv
<1>2. CASE PushDelivery(d)
  <2>1. dRedis' \in Lists(Deliveries) /\ Queued(dRedis') = Queued(dRedis) \cup {d}
    BY <1>0, <1>2, PushedLists DEF PushDelivery, DeliveryTypes
  <2>2. DeliveryTypes'
    BY <1>0, <1>2, <2>1 DEF PushDelivery, DeliveryTypes, dBooks
  <2>3. DeliveriesRead' /\ NoDeliveryForgotten'
    BY <1>0, <1>2, <2>1 DEF PushDelivery, DeliveriesRead, NoDeliveryForgotten, DUp, DOpen
  <2> QED
    BY <1>2, <2>2, <2>3, ListsOnly DEF DeliveryInv, PushDelivery
<1>3. CASE PushDeliveryFails(d)
  <2>1. DeliveryTypes'
    BY <1>0, <1>3 DEF PushDeliveryFails, DFault, DeliveryTypes, dBooks
  <2>2. DeliveryHeld'
    BY <1>0, <1>3 DEF PushDeliveryFails, DeliveryHeld, Trying, dBooks
  <2>3. PostsPaid'
    BY <1>0, <1>3, <1>t DEF PushDeliveryFails, DFault, PostsPaid, Trying, Posted, dBooks
  <2>4. DeliveriesRead' /\ NoDeliveryForgotten'
    BY <1>0, <1>3 DEF PushDeliveryFails, DeliveriesRead, NoDeliveryForgotten, DUp, DOpen
  <2> QED
    BY <2>1, <2>2, <2>3, <2>4 DEF DeliveryInv
<1>4. CASE DeliveryDue(d)
  <2>1. [delivery[d] EXCEPT !.due = TRUE] \in DeliveryRow
    BY <1>t DEF DeliveryRow
  <2>2. DeliveryTypes'
    BY <1>0, <1>4, <2>1 DEF DeliveryDue, DeliveryTypes, dBooks
  <2>3. \A r \in Deliveries : /\ delivery'[r].status = delivery[r].status
                              /\ delivery'[r].attempts = delivery[r].attempts
    BY <1>0, <1>4, <1>t DEF DeliveryDue, DeliveryTypes, DeliveryRow
  <2>4. DeliveryHeld' /\ PostsPaid'
    BY <1>0, <1>4, <2>3 DEF DeliveryDue, DeliveryHeld, PostsPaid, Trying, Posted, dBooks
  <2>5. DeliveriesRead' /\ NoDeliveryForgotten'
    BY <1>0, <1>4, <2>3 DEF DeliveryDue, DeliveriesRead, NoDeliveryForgotten, DUp, DOpen
  <2> QED
    BY <2>2, <2>4, <2>5 DEF DeliveryInv
<1> QED
  BY <1>1, <1>2, <1>3, <1>4

\* A restart: the rows and the processing list are read, then the queue is
\* rebuilt.
LEMMA RestartKeepsInv ==
    ASSUME DeliveryInv, RecoverDeliveriesRead \/ RecoverDeliveries
    PROVE  DeliveryInv'
<1>0. DeliveryTypes /\ DeliveryHeld /\ PostsPaid /\ DeliveriesRead /\ NoDeliveryForgotten
  BY DEF DeliveryInv
<1>1. CASE RecoverDeliveriesRead
  <2>1. PICK ids \in Recoverable(dRedis, IncompleteDeliveries) :
            dWorker' = [dWorker EXCEPT !.pc = "recovering", !.ids = ids]
    BY <1>1 DEF RecoverDeliveriesRead
  <2>2. IncompleteDeliveries \in SUBSET Deliveries /\ IsFiniteSet(IncompleteDeliveries)
    BY FS_Subset, WebhookConstants DEF IncompleteDeliveries
  <2>3. ids \in Seq(Deliveries) /\ IncompleteDeliveries \subseteq ToSet(ids)
    <3>1. dRedis.processing \in Seq(Deliveries)
      BY <1>0 DEF DeliveryTypes, Lists
    <3>2. /\ ids \in Seq(Deliveries)
          /\ ToSet(ids) = ToSet(dRedis.processing) \cup IncompleteDeliveries
      BY <2>1, <2>2, <3>1, RecoverableIds
    <3> QED
      BY <3>2
  <2>4. /\ dWorker' \in DWorkerRow
        /\ dWorker'.pc = "recovering" /\ dWorker'.ids = ids /\ dWorker'.job = dWorker.job
    BY <1>0, <2>1, <2>3 DEF DeliveryTypes, DWorkerRow
  <2>5. /\ delivery' \in [Deliveries -> DeliveryRow]
        /\ \A d \in Deliveries :
              /\ delivery'[d].attempts = delivery[d].attempts
              /\ delivery'[d].status = IF delivery[d].status = "running" THEN "queued"
                                       ELSE delivery[d].status
    <3>1. \A d \in Deliveries : /\ delivery[d] \in DeliveryRow
                                /\ [delivery[d] EXCEPT !.status = "queued"] \in DeliveryRow
      BY <1>0 DEF DeliveryTypes, DeliveryRow
    <3>2. \A d \in Deliveries :
              delivery'[d] = IF delivery[d].status = "running"
                             THEN [delivery[d] EXCEPT !.status = "queued"] ELSE delivery[d]
      BY <1>1 DEF RecoverDeliveriesRead
    <3>3. delivery' \in [Deliveries -> DeliveryRow]
      BY <1>1, <3>1 DEF RecoverDeliveriesRead
    <3> QED
      BY <3>1, <3>2, <3>3 DEF DeliveryRow
  <2>6. DeliveryTypes'
    BY <1>0, <1>1, <2>4, <2>5 DEF RecoverDeliveriesRead, DeliveryTypes, dBooks
  <2>7. dWorker.pc = "down" /\ UNCHANGED <<dInbox, dSends, dFaults>>
    BY <1>1 DEF RecoverDeliveriesRead, dBooks
  <2>8. DeliveryHeld'
    BY <1>0, <2>4, <2>7 DEF DeliveryHeld, Trying
  <2>9. PostsPaid'
    BY <1>0, <2>4, <2>5, <2>7 DEF PostsPaid, Trying, Posted
  <2>10. DeliveriesRead' /\ NoDeliveryForgotten'
    BY <2>3, <2>4, <2>5 DEF IncompleteDeliveries, DeliveriesRead, NoDeliveryForgotten, DUp, DOpen
  <2> QED
    BY <2>6, <2>8, <2>9, <2>10 DEF DeliveryInv
<1>2. CASE RecoverDeliveries
  <2>1. dWorker.ids \in Seq(Deliveries) /\ <<>> \in Seq(Deliveries)
    BY <1>0, EmptySeq DEF DeliveryTypes, DWorkerRow
  <2>2. /\ dRedis' \in Lists(Deliveries)
        /\ Queued(dRedis') = Queued(dRedis) \cup ToSet(dWorker.ids)
    BY <1>0, <1>2, <2>1, RequeuedLists DEF RecoverDeliveries, DeliveryTypes
  <2>3. /\ dWorker' \in DWorkerRow /\ dWorker'.pc = "waiting" /\ dWorker'.job = dWorker.job
        /\ dWorker.pc = "recovering"
    BY <1>0, <1>2, <2>1 DEF RecoverDeliveries, DeliveryTypes, DWorkerRow
  <2>4. DeliveryTypes'
    BY <1>0, <1>2, <2>2, <2>3 DEF RecoverDeliveries, DeliveryTypes, dBooks
  <2>5. DeliveryHeld' /\ PostsPaid'
    BY <1>0, <1>2, <2>3
       DEF RecoverDeliveries, DeliveryHeld, PostsPaid, Trying, Posted, dBooks
  <2>6. DeliveriesRead' /\ NoDeliveryForgotten'
    BY <1>0, <1>2, <2>2, <2>3
       DEF RecoverDeliveries, DeliveriesRead, NoDeliveryForgotten, DUp, DOpen
  <2> QED
    BY <2>4, <2>5, <2>6 DEF DeliveryInv
<1> QED
  BY <1>1, <1>2

\* The worker claims an id and its row, and posts the event.
LEMMA PostKeepsInv ==
    ASSUME DeliveryInv, TakeDelivery \/ ClaimDelivery \/ Deliver
    PROVE  DeliveryInv'
<1>0. DeliveryTypes /\ DeliveryHeld /\ PostsPaid /\ DeliveriesRead /\ NoDeliveryForgotten
  BY DEF DeliveryInv
<1>t. /\ DMaxAttempts \in Nat \ {0} /\ dFaults \in Nat /\ 0 \notin Deliveries
      /\ \A r \in Deliveries : /\ delivery[r] \in DeliveryRow
                               /\ delivery[r].attempts \in Nat
                               /\ dSends[r] \in Nat /\ dInbox[r] \in Nat
  BY <1>0, DeliveryNumbers
<1> DEFINE j == dWorker.job
<1>1. CASE TakeDelivery
  <2>1. /\ NextId(dRedis) \in Deliveries
        /\ dRedis' \in Lists(Deliveries)
        /\ Queued(dRedis) = Queued(dRedis') \cup {NextId(dRedis)}
    BY <1>0, <1>1, ClaimedLists DEF TakeDelivery, DeliveryTypes
  <2>2. /\ dWorker' \in DWorkerRow /\ dWorker.pc = "waiting"
        /\ dWorker'.pc = "taken" /\ dWorker'.job = NextId(dRedis)
        /\ dWorker.job \notin Deliveries
    BY <1>0, <1>1, <1>t, <2>1 DEF TakeDelivery, DeliveryTypes, DWorkerRow, DeliveryHeld
  <2>3. DeliveryTypes'
    BY <1>0, <1>1, <2>1, <2>2 DEF TakeDelivery, DeliveryTypes, dBooks
  <2>4. DeliveryHeld' /\ PostsPaid'
    BY <1>0, <1>1, <2>1, <2>2
       DEF TakeDelivery, DeliveryHeld, PostsPaid, Trying, Posted, dBooks
  <2>5. DeliveriesRead' /\ NoDeliveryForgotten'
    BY <1>0, <1>1, <2>1, <2>2 DEF TakeDelivery, DeliveriesRead, NoDeliveryForgotten, DUp, DOpen
  <2> QED
    BY <2>3, <2>4, <2>5 DEF DeliveryInv
<1>2. CASE ClaimDelivery
  <2>1. dWorker.pc = "taken" /\ j \in Deliveries
    BY <1>0, <1>2 DEF ClaimDelivery, DeliveryHeld
  <2>2. /\ Started(delivery[j]) \in DeliveryRow
        /\ Started(delivery[j]).status = "running"
        /\ Started(delivery[j]).attempts = delivery[j].attempts + 1
    BY <1>t, <2>1, StartedRow
  <2>3. /\ delivery' \in [Deliveries -> DeliveryRow]
        /\ \A d \in Deliveries : d # j => delivery'[d] = delivery[d]
        /\ delivery[j].status = "queued" =>
              /\ delivery'[j].status = "running"
              /\ delivery'[j].attempts = delivery[j].attempts + 1
        /\ delivery[j].status # "queued" => delivery'[j] = delivery[j]
    BY <1>0, <1>2, <2>1, <2>2 DEF ClaimDelivery, DeliveryTypes, Claimable
  <2>4. /\ dWorker' \in DWorkerRow /\ dWorker'.job = j
        /\ dWorker'.pc = IF delivery'[j].status = "running" THEN "sending" ELSE "over"
    BY <1>0, <1>2 DEF ClaimDelivery, DeliveryTypes, DWorkerRow
  <2>5. UNCHANGED <<dRedis, dPushing, dScheduler, dInbox, dSends, dLost, dFaults>>
    BY <1>2 DEF ClaimDelivery, dBooks
  <2>6. DeliveryTypes'
    BY <1>0, <2>3, <2>4, <2>5 DEF DeliveryTypes
  <2>7. DeliveryHeld'
    BY <1>0, <2>1, <2>3, <2>4 DEF DeliveryHeld, Trying
  <2>8. PostsPaid'
    <3> SUFFICES ASSUME NEW d \in Deliveries
                 PROVE  /\ dSends'[d] <= delivery'[d].attempts + dFaults'
                        /\ delivery'[d].attempts <= DMaxAttempts + dFaults'
                        /\ delivery'[d].status \in {"none", "queued", "retry_scheduled"} =>
                              delivery'[d].attempts < DMaxAttempts + dFaults'
                        /\ delivery'[d].status = "running" /\ ~ Trying(d)' =>
                              delivery'[d].attempts < DMaxAttempts + dFaults'
                        /\ delivery'[d].status = "running" /\ ~ Posted(d)' =>
                              dSends'[d] < delivery'[d].attempts + dFaults'
      BY DEF PostsPaid
    <3>1. CASE d # j
      BY <1>0, <2>1, <2>3, <2>4, <2>5, <3>1 DEF PostsPaid, Trying, Posted
    <3>2. CASE d = j
      BY <1>0, <1>t, <2>1, <2>3, <2>4, <2>5, <3>2 DEF PostsPaid, Trying, Posted
    <3> QED
      BY <3>1, <3>2
  <2>9. DeliveriesRead' /\ NoDeliveryForgotten'
    BY <1>0, <2>1, <2>3, <2>4, <2>5 DEF DeliveriesRead, NoDeliveryForgotten, DUp, DOpen
  <2> QED
    BY <2>6, <2>7, <2>8, <2>9 DEF DeliveryInv
<1>3. CASE Deliver
  <2>1. PICK got \in {0, 1}, answer \in {"accepted", "refused"} :
            Post(got, answer) /\ (answer = "accepted" => got = 1)
    BY <1>3 DEF Deliver
  <2>2. dWorker.pc = "sending" /\ j \in Deliveries
    BY <1>0, <2>1 DEF Post, DeliveryHeld
  <2>3. /\ dWorker' \in DWorkerRow /\ dWorker'.pc = answer /\ dWorker'.job = j
    BY <1>0, <2>1 DEF Post, DeliveryTypes, DWorkerRow
  <2>4. /\ dSends' \in [Deliveries -> Nat] /\ dInbox' \in [Deliveries -> Nat]
        /\ \A d \in Deliveries : d # j => dSends'[d] = dSends[d] /\ dInbox'[d] = dInbox[d]
        /\ dSends'[j] = dSends[j] + 1 /\ dInbox'[j] = dInbox[j] + got
    BY <1>0, <1>t, <2>1, <2>2 DEF Post, DeliveryTypes
  <2>5. UNCHANGED <<delivery, dRedis, dPushing, dScheduler, dLost, dFaults>>
    BY <2>1 DEF Post
  <2>6. DeliveryTypes'
    BY <1>0, <2>3, <2>4, <2>5 DEF DeliveryTypes
  <2>7. DeliveryHeld'
    BY <1>0, <1>t, <2>1, <2>2, <2>3, <2>4, <2>5 DEF DeliveryHeld, Trying
  <2>8. PostsPaid'
    <3> SUFFICES ASSUME NEW d \in Deliveries
                 PROVE  /\ dSends'[d] <= delivery'[d].attempts + dFaults'
                        /\ delivery'[d].attempts <= DMaxAttempts + dFaults'
                        /\ delivery'[d].status \in {"none", "queued", "retry_scheduled"} =>
                              delivery'[d].attempts < DMaxAttempts + dFaults'
                        /\ delivery'[d].status = "running" /\ ~ Trying(d)' =>
                              delivery'[d].attempts < DMaxAttempts + dFaults'
                        /\ delivery'[d].status = "running" /\ ~ Posted(d)' =>
                              dSends'[d] < delivery'[d].attempts + dFaults'
      BY DEF PostsPaid
    <3>1. CASE d # j
      BY <1>0, <2>2, <2>3, <2>4, <2>5, <3>1 DEF PostsPaid, Trying, Posted
    <3>2. CASE d = j
      <4>1. delivery[j].status = "running"
        BY <1>0, <2>2 DEF DeliveryHeld, Trying
      <4> QED
        BY <1>0, <1>t, <2>2, <2>3, <2>4, <2>5, <3>2, <4>1 DEF PostsPaid, Trying, Posted
    <3> QED
      BY <3>1, <3>2
  <2>9. DeliveriesRead' /\ NoDeliveryForgotten'
    BY <1>0, <2>2, <2>3, <2>5 DEF DeliveriesRead, NoDeliveryForgotten, DUp, DOpen
  <2> QED
    BY <2>6, <2>7, <2>8, <2>9 DEF DeliveryInv
<1> QED
  BY <1>1, <1>2, <1>3

\* The attempt ends: with a verdict, another attempt to come, or an error
\* nobody handles.
LEMMA VerdictKeepsInv ==
    ASSUME DeliveryInv,
           \/ FinishDelivery \/ FinishDeliveryRaises \/ FailOrRetryDelivery
           \/ DeliveryProcessRaises \/ ReleaseDelivery
    PROVE  DeliveryInv'
<1>0. DeliveryTypes /\ DeliveryHeld /\ PostsPaid /\ DeliveriesRead /\ NoDeliveryForgotten
  BY DEF DeliveryInv
<1>t. /\ DMaxAttempts \in Nat \ {0} /\ dFaults \in Nat /\ 0 \notin Deliveries
      /\ \A r \in Deliveries : /\ delivery[r] \in DeliveryRow
                               /\ delivery[r].attempts \in Nat
                               /\ dSends[r] \in Nat /\ dInbox[r] \in Nat
  BY <1>0, DeliveryNumbers
<1> DEFINE j == dWorker.job
<1>v. ASSUME NEW status \in {"succeeded", "failed", "retry_scheduled"},
             j \in Deliveries, delivery[j].status = "running",
             delivery' = [delivery EXCEPT ![j].status = status],
             dWorker' = [dWorker EXCEPT !.pc = "over"],
             status = "retry_scheduled" => delivery[j].attempts < DMaxAttempts,
             UNCHANGED <<dRedis, dPushing, dScheduler, dInbox, dSends, dLost, dFaults>>
      PROVE  DeliveryInv'
  <2>1. [delivery[j] EXCEPT !.status = status] \in DeliveryRow
    BY <1>t, <1>v DEF DeliveryRow
  <2>2. /\ delivery' \in [Deliveries -> DeliveryRow]
        /\ \A d \in Deliveries : d # j => delivery'[d] = delivery[d]
        /\ delivery'[j].status = status /\ delivery'[j].attempts = delivery[j].attempts
    BY <1>0, <1>t, <1>v, <2>1 DEF DeliveryTypes, DeliveryRow
  <2>3. dWorker' \in DWorkerRow /\ dWorker'.pc = "over" /\ dWorker'.job = j
    BY <1>0, <1>v DEF DeliveryTypes, DWorkerRow
  <2>4. DeliveryTypes'
    BY <1>0, <1>v, <2>2, <2>3 DEF DeliveryTypes
  <2>5. DeliveryHeld'
    BY <1>v, <2>3 DEF DeliveryHeld, Trying
  <2>6. PostsPaid'
    BY <1>0, <1>t, <1>v, <2>2, <2>3 DEF PostsPaid, Trying, Posted
  <2>7. DeliveriesRead' /\ NoDeliveryForgotten'
    <3>1. dWorker.pc \notin {"down", "recovering"}
      BY <1>0, <1>t, <1>v DEF DeliveryHeld
    <3> QED
      BY <1>0, <1>v, <2>2, <2>3, <3>1 DEF DeliveriesRead, NoDeliveryForgotten, DUp, DOpen
  <2> QED
    BY <2>4, <2>5, <2>6, <2>7 DEF DeliveryInv
<1>1. CASE FinishDelivery
  <2>1. j \in Deliveries /\ delivery[j].status = "running"
    BY <1>0, <1>1 DEF FinishDelivery, DeliveryHeld, Trying
  <2> QED
    BY <1>1, <1>v, <2>1 DEF FinishDelivery, dBooks
<1>2. CASE FinishDeliveryRaises
  <2>1. /\ dWorker' \in DWorkerRow /\ dWorker.pc = "accepted"
        /\ dWorker'.pc = "refused" /\ dWorker'.job = j
    BY <1>0, <1>2 DEF FinishDeliveryRaises, DeliveryTypes, DWorkerRow
  <2>2. DeliveryTypes'
    BY <1>0, <1>2, <2>1 DEF FinishDeliveryRaises, DFault, DeliveryTypes, dBooks
  <2>3. DeliveryHeld'
    BY <1>0, <1>2, <2>1 DEF FinishDeliveryRaises, DeliveryHeld, Trying, dBooks
  <2>4. PostsPaid'
    BY <1>0, <1>2, <1>t, <2>1
       DEF FinishDeliveryRaises, DFault, PostsPaid, Trying, Posted, dBooks
  <2>5. DeliveriesRead' /\ NoDeliveryForgotten'
    BY <1>0, <1>2, <2>1
       DEF FinishDeliveryRaises, DeliveriesRead, NoDeliveryForgotten, DUp, DOpen
  <2> QED
    BY <2>2, <2>3, <2>4, <2>5 DEF DeliveryInv
<1>3. CASE FailOrRetryDelivery
  <2> DEFINE next == IF Exhausted(delivery[j]) THEN "failed" ELSE "retry_scheduled"
  <2>1. j \in Deliveries /\ delivery[j].status = "running"
    BY <1>0, <1>3 DEF FailOrRetryDelivery, DeliveryHeld, Trying
  <2>2. /\ next \in {"succeeded", "failed", "retry_scheduled"}
        /\ next = "retry_scheduled" => delivery[j].attempts < DMaxAttempts
    BY <1>t, <2>1 DEF Exhausted
  <2>3. delivery' = [delivery EXCEPT ![j].status = next]
    BY <1>3 DEF FailOrRetryDelivery
  <2> HIDE DEF next
  <2> QED
    BY <1>3, <1>v, <2>1, <2>2, <2>3 DEF FailOrRetryDelivery, dBooks
<1>4. CASE DeliveryProcessRaises
  <2>1. /\ dWorker' \in DWorkerRow /\ j \in Deliveries
        /\ dWorker.pc \notin {"down", "recovering"}
        /\ dWorker'.pc = "over" /\ dWorker'.job = j
    BY <1>0, <1>4 DEF DeliveryProcessRaises, DeliveryTypes, DWorkerRow, DeliveryHeld
  <2>2. DeliveryTypes'
    BY <1>0, <1>4, <2>1 DEF DeliveryProcessRaises, DFault, DeliveryTypes, dBooks
  <2>3. DeliveryHeld'
    BY <1>0, <1>4, <2>1 DEF DeliveryProcessRaises, DeliveryHeld, Trying, dBooks
  <2>4. PostsPaid'
    BY <1>0, <1>4, <1>t, <2>1
       DEF DeliveryProcessRaises, DFault, PostsPaid, Trying, Posted, dBooks
  <2>5. DeliveriesRead' /\ NoDeliveryForgotten'
    BY <1>0, <1>4, <2>1
       DEF DeliveryProcessRaises, DeliveriesRead, NoDeliveryForgotten, DUp, DOpen
  <2> QED
    BY <2>2, <2>3, <2>4, <2>5 DEF DeliveryInv
<1>5. CASE ReleaseDelivery
  <2>1. /\ dWorker' = [pc |-> "waiting", job |-> 0, ids |-> <<>>]
        /\ dWorker.pc = "over" /\ <<>> \in Seq(Deliveries)
    BY <1>5, EmptySeq DEF ReleaseDelivery, DIdle
  <2>2. dWorker' \in DWorkerRow /\ dWorker'.pc = "waiting" /\ dWorker'.job = 0
    BY <2>1 DEF DWorkerRow
  <2>3. dRedis' \in Lists(Deliveries) /\ Queued(dRedis') = Queued(dRedis)
    BY <1>0, <1>5, ReleasedLists DEF ReleaseDelivery, DeliveryTypes
  <2>4. DeliveryTypes'
    BY <1>0, <1>5, <2>2, <2>3 DEF ReleaseDelivery, DeliveryTypes, dBooks
  <2>5. DeliveryHeld' /\ PostsPaid'
    BY <1>0, <1>5, <1>t, <2>1, <2>2
       DEF ReleaseDelivery, DeliveryHeld, PostsPaid, Trying, Posted, dBooks
  <2>6. DeliveriesRead' /\ NoDeliveryForgotten'
    BY <1>0, <1>5, <2>1, <2>2, <2>3
       DEF ReleaseDelivery, DeliveriesRead, NoDeliveryForgotten, DUp, DOpen
  <2> QED
    BY <2>4, <2>5, <2>6 DEF DeliveryInv
<1> QED
  BY <1>1, <1>2, <1>3, <1>4, <1>5

\* The scheduler, and a crash of the process it shares with the worker.
LEMMA DueKeepsInv ==
    ASSUME DeliveryInv, WebhookSchedulerStep \/ WebhookWorkerCrash
    PROVE  DeliveryInv'
<1>0. DeliveryTypes /\ DeliveryHeld /\ PostsPaid /\ DeliveriesRead /\ NoDeliveryForgotten
  BY DEF DeliveryInv
<1>t. /\ DMaxAttempts \in Nat \ {0} /\ dFaults \in Nat /\ 0 \notin Deliveries
      /\ \A r \in Deliveries : /\ delivery[r] \in DeliveryRow
                               /\ delivery[r].attempts \in Nat
                               /\ dSends[r] \in Nat /\ dInbox[r] \in Nat
  BY <1>0, DeliveryNumbers
<1>1. CASE ActivateDueDeliveries
  <2> DEFINE due == {d \in Deliveries : delivery[d].status = "retry_scheduled" /\ delivery[d].due}
  <2>1. /\ dScheduler' \in SetToSeqs(due) /\ dScheduler = <<>> /\ DUp
        /\ delivery' = [d \in Deliveries |->
               IF d \in due THEN [delivery[d] EXCEPT !.status = "queued", !.due = FALSE]
               ELSE delivery[d]]
        /\ UNCHANGED <<dRedis, dPushing, dWorker, dInbox, dSends, dLost, dFaults>>
    BY <1>1 DEF ActivateDueDeliveries, dBooks
  <2>2. due \in SUBSET Deliveries /\ IsFiniteSet(due)
    BY FS_Subset, WebhookConstants
  <2>3. dScheduler' \in Seq(Deliveries) /\ ToSet(dScheduler') = due
    <3>1. dScheduler' \in Seq(due) /\ ToSet(dScheduler') = due
      BY <2>1, <2>2, EnumerationIds
    <3> QED
      BY <2>2, <3>1, SeqMonotonic
  <2>4. \A d \in due : delivery[d].status = "retry_scheduled"
    OBVIOUS
  <2> HIDE DEF due
  <2>5. /\ delivery' \in [Deliveries -> DeliveryRow]
        /\ \A d \in Deliveries \ due : delivery'[d] = delivery[d]
        /\ \A d \in due : /\ delivery'[d].status = "queued"
                          /\ delivery'[d].attempts = delivery[d].attempts
    <3>1. \A d \in Deliveries :
              [delivery[d] EXCEPT !.status = "queued", !.due = FALSE] \in DeliveryRow
      BY <1>t DEF DeliveryRow
    <3>2. delivery' \in [Deliveries -> DeliveryRow]
      BY <1>t, <2>1, <3>1
    <3> QED
      BY <1>t, <2>1, <2>2, <3>1, <3>2 DEF DeliveryRow
  <2>6. DeliveryTypes'
    BY <1>0, <2>1, <2>3, <2>5 DEF DeliveryTypes
  <2>7. DeliveryHeld' /\ PostsPaid'
    BY <1>0, <1>t, <2>1, <2>2, <2>4, <2>5 DEF DeliveryHeld, PostsPaid, Trying, Posted
  <2>8. DeliveriesRead' /\ NoDeliveryForgotten'
    <3>1. ToSet(<<>>) = {}
      BY DEF ToSet
    <3> QED
      BY <1>0, <2>1, <2>2, <2>3, <2>5, <3>1 DEF DeliveriesRead, NoDeliveryForgotten, DUp, DOpen
  <2> QED
    BY <2>6, <2>7, <2>8 DEF DeliveryInv
<1>2. CASE PushDueDelivery
  <2>1. /\ Head(dScheduler) \in Deliveries /\ dScheduler' \in Seq(Deliveries)
        /\ ToSet(dScheduler) = {Head(dScheduler)} \cup ToSet(dScheduler')
    BY <1>0, <1>2, TailIds DEF PushDueDelivery, DeliveryTypes
  <2>2. dRedis' \in Lists(Deliveries) /\ Queued(dRedis') = Queued(dRedis) \cup {Head(dScheduler)}
    BY <1>0, <1>2, <2>1, PushedLists DEF PushDueDelivery, DeliveryTypes
  <2>3. DeliveryTypes'
    BY <1>0, <1>2, <2>1, <2>2 DEF PushDueDelivery, DeliveryTypes, dBooks
  <2>4. DeliveriesRead' /\ NoDeliveryForgotten'
    BY <1>0, <1>2, <2>1, <2>2
       DEF PushDueDelivery, DeliveriesRead, NoDeliveryForgotten, DUp, DOpen
  <2> QED
    BY <1>2, <2>3, <2>4, ListsOnly DEF DeliveryInv, PushDueDelivery
<1>3. CASE WebhookWorkerCrash
  <2>1. <<>> \in Seq(Deliveries)
    BY EmptySeq
  <2>2. dWorker' \in DWorkerRow /\ dWorker'.pc = "down" /\ dWorker'.job = 0
    BY <1>3, <2>1 DEF WebhookWorkerCrash, DIdle, DWorkerRow
  <2>3. DeliveryTypes'
    BY <1>0, <1>3, <2>1, <2>2 DEF WebhookWorkerCrash, DFault, DeliveryTypes, dBooks
  <2>4. DeliveryHeld'
    BY <1>0, <1>3, <1>t, <2>2 DEF WebhookWorkerCrash, DeliveryHeld, Trying
  <2>5. PostsPaid'
    BY <1>0, <1>3, <1>t, <2>2
       DEF WebhookWorkerCrash, DFault, PostsPaid, Trying, Posted, dBooks
  <2>6. DeliveriesRead' /\ NoDeliveryForgotten'
    BY <2>2 DEF DeliveriesRead, NoDeliveryForgotten, DUp
  <2> QED
    BY <2>3, <2>4, <2>5, <2>6 DEF DeliveryInv
<1> QED
  BY <1>1, <1>2, <1>3 DEF WebhookSchedulerStep

\* Every step keeps the invariant.
LEMMA DeliveryNextInv == DeliveryInv /\ [DNext]_dVars => DeliveryInv'
<1> SUFFICES ASSUME DeliveryInv, [DNext]_dVars PROVE DeliveryInv'
  OBVIOUS
<1>1. CASE UNCHANGED dVars
  BY <1>1 DEF dVars, DeliveryInv, DeliveryTypes, DeliveryHeld, PostsPaid, Trying, Posted,
              DeliveriesRead, NoDeliveryForgotten, DUp, DOpen
<1>2. CASE DNext
  BY <1>2, EventKeepsInv, RestartKeepsInv, PostKeepsInv, VerdictKeepsInv, DueKeepsInv
     DEF DNext, WebhookWorkerStep
<1> QED
  BY <1>1, <1>2

\* The invariant holds in every reachable state.
LEMMA DeliveryInvariant == DSpec => []DeliveryInv
<1> QED
  BY DeliveryInitInv, DeliveryNextInv, PTL DEF DSpec

-----------------------------------------------------------------------------
(* Deliveries: the theorems.                                               *)

\* What was posted is covered by counted attempts but for one post a fault, and
\* attempts go past the configured number by at most one a fault
\* (bridge_repository.py, claim_delivery and fail_or_retry_delivery).
THEOREM SendsAreCovered == DSpec => []AttemptsCoverSends
<1>1. DeliveryInv => AttemptsCoverSends
  BY DEF DeliveryInv, PostsPaid, AttemptsCoverSends
<1> QED
  BY <1>1, DeliveryInvariant, PTL

\* Rows, lists and positions have their types (webhook_deliveries and its queue).
THEOREM DeliveriesHaveTypes == DSpec => []DTypeOK
<1>1. DeliveryInv => DTypeOK
  BY DEF DeliveryInv, DeliveryTypes, DTypeOK, DeliveryRow, DWorkerRow, Lists
<1> QED
  BY <1>1, DeliveryInvariant, PTL

\* While the worker is up, each open delivery is on its way, in the worker's
\* hands, or one a fault is known to have dropped (recover_webhook_deliveries).
THEOREM DeliveriesRemembered == DSpec => []NoDeliveryForgotten
<1>1. DeliveryInv => NoDeliveryForgotten
  BY DEF DeliveryInv
<1> QED
  BY <1>1, DeliveryInvariant, PTL

-----------------------------------------------------------------------------
(* Deliveries: the refinement.                                             *)

DeliveryVerdict(row) ==
    CASE row.status = "none" -> "absent"
      [] row.status = "succeeded" -> "done"
      [] row.status = "failed" -> "dead"
      [] OTHER -> "open"

DeliveryVerdicts == [d \in Deliveries |-> DeliveryVerdict(delivery[d])]
Received == {d \in Deliveries : dInbox[d] > 0}

\* One row changes.
LEMMA OneVerdict ==
    ASSUME NEW d \in Deliveries, \A r \in Deliveries \ {d} : delivery'[r] = delivery[r],
           NEW v, DeliveryVerdict(delivery'[d]) = v
    PROVE  DeliveryVerdicts' = [DeliveryVerdicts EXCEPT ![d] = v]
BY DEF DeliveryVerdicts, DeliveryVerdict

\* Rows that keep their verdict change nothing.
LEMMA SameVerdicts ==
    ASSUME \A d \in Deliveries : DeliveryVerdict(delivery'[d]) = DeliveryVerdict(delivery[d])
    PROVE  DeliveryVerdicts' = DeliveryVerdicts
BY DEF DeliveryVerdicts, DeliveryVerdict

\* What the outbox's actions are in the deliveries' own terms.
LEMMA WebhookOutboxStep ==
    ASSUME NEW d \in Deliveries,
           \/ /\ DeliveryVerdicts[d] = "absent"
              /\ DeliveryVerdicts' = [DeliveryVerdicts EXCEPT ![d] = "open"]
              /\ Received' = Received
           \/ /\ DeliveryVerdicts[d] = "open"
              /\ DeliveryVerdicts' = DeliveryVerdicts
              /\ Received' = Received \cup {d}
           \/ /\ DeliveryVerdicts[d] = "open"
              /\ DeliveryVerdicts' = [DeliveryVerdicts EXCEPT ![d] = "done"]
              /\ d \in Received /\ Received' = Received
           \/ /\ DeliveryVerdicts[d] = "open"
              /\ DeliveryVerdicts' = [DeliveryVerdicts EXCEPT ![d] = "dead"]
              /\ Received' = Received
    PROVE  WebhookOutbox!OutboxNext
BY DEF WebhookOutbox!OutboxNext, WebhookOutbox!Accept, WebhookOutbox!Effect,
       WebhookOutbox!Conclude, WebhookOutbox!GiveUp, DeliveryVerdicts, Received, DeliveryVerdict

\* At first the outbox is empty.
LEMMA WebhookInitMaps == DInit => WebhookOutbox!OutboxInit
BY DEF DInit, WebhookOutbox!OutboxInit

\* Every step of the queue is one of the outbox, or leaves it alone.
LEMMA WebhookStepMaps ==
    ASSUME DeliveryInv, [DNext]_dVars
    PROVE  [WebhookOutbox!OutboxNext]_WebhookOutbox!outboxVars
<1>0. /\ DeliveryTypes /\ DeliveryHeld
      /\ delivery \in [Deliveries -> DeliveryRow] /\ dInbox \in [Deliveries -> Nat]
  BY DEF DeliveryInv, DeliveryTypes
<1>u. ASSUME DeliveryVerdicts' = DeliveryVerdicts, Received' = Received
      PROVE  [WebhookOutbox!OutboxNext]_WebhookOutbox!outboxVars
  BY <1>u DEF WebhookOutbox!outboxVars, DeliveryVerdicts, Received, DeliveryVerdict
<1>r. ASSUME dInbox' = dInbox PROVE Received' = Received
  BY <1>r DEF Received
<1>o. \A row : row.status \in {"queued", "running", "retry_scheduled"} =>
            DeliveryVerdict(row) = "open"
  BY DEF DeliveryVerdict
<1> DEFINE j == dWorker.job
<1>1. ASSUME NEW d \in Deliveries, CreateDelivery(d) PROVE WebhookOutbox!OutboxNext
  <2>1. /\ DeliveryVerdict(delivery[d]) = "absent" /\ DeliveryVerdict(delivery'[d]) = "open"
        /\ \A r \in Deliveries \ {d} : delivery'[r] = delivery[r]
    BY <1>0, <1>1 DEF CreateDelivery, DeliveryVerdict, DeliveryRow
  <2>2. DeliveryVerdicts' = [DeliveryVerdicts EXCEPT ![d] = "open"]
    BY <2>1, OneVerdict
  <2>3. DeliveryVerdicts[d] = "absent" /\ Received' = Received
    BY <1>1, <2>1 DEF CreateDelivery, DeliveryVerdicts, Received, dBooks
  <2> QED
    BY <2>2, <2>3, WebhookOutboxStep
<1>2. ASSUME NEW d \in Deliveries, DeliveryDue(d)
      PROVE  [WebhookOutbox!OutboxNext]_WebhookOutbox!outboxVars
  <2>1. \A r \in Deliveries : DeliveryVerdict(delivery'[r]) = DeliveryVerdict(delivery[r])
    BY <1>0, <1>2 DEF DeliveryDue, DeliveryVerdict, DeliveryRow
  <2> QED
    BY <1>2, <1>r, <1>u, <2>1, SameVerdicts DEF DeliveryDue, dBooks
<1>3. CASE RecoverDeliveriesRead
  <2>1. \A r \in Deliveries : DeliveryVerdict(delivery'[r]) = DeliveryVerdict(delivery[r])
    BY <1>0, <1>3 DEF RecoverDeliveriesRead, DeliveryVerdict, DeliveryRow
  <2> QED
    BY <1>3, <1>r, <1>u, <2>1, SameVerdicts DEF RecoverDeliveriesRead, dBooks
<1>4. CASE ActivateDueDeliveries
  <2>1. \A r \in Deliveries :
            \/ delivery'[r] = delivery[r]
            \/ delivery[r].status = "retry_scheduled" /\ delivery'[r].status = "queued"
    BY <1>0, <1>4 DEF ActivateDueDeliveries, DeliveryRow
  <2>2. \A r \in Deliveries : DeliveryVerdict(delivery'[r]) = DeliveryVerdict(delivery[r])
    BY <1>o, <2>1
  <2> QED
    BY <1>4, <1>r, <1>u, <2>2, SameVerdicts DEF ActivateDueDeliveries, dBooks
<1>5. CASE ClaimDelivery
  <2>1. j \in Deliveries /\ delivery[j] \in DeliveryRow
    BY <1>0, <1>5 DEF ClaimDelivery, DeliveryHeld
  <2>2. Started(delivery[j]).status = "running"
    BY <2>1, StartedRow
  <2>3. \A r \in Deliveries :
            \/ delivery'[r] = delivery[r]
            \/ delivery[r].status = "queued" /\ delivery'[r].status = "running"
    BY <1>0, <1>5, <2>1, <2>2 DEF ClaimDelivery, Claimable
  <2>4. \A r \in Deliveries : DeliveryVerdict(delivery'[r]) = DeliveryVerdict(delivery[r])
    BY <1>o, <2>3
  <2> QED
    BY <1>5, <1>r, <1>u, <2>4, SameVerdicts DEF ClaimDelivery, dBooks
<1>6. CASE Deliver
  <2>1. PICK got \in {0, 1}, answer \in {"accepted", "refused"} : Post(got, answer)
    BY <1>6 DEF Deliver
  <2>2. j \in Deliveries /\ DeliveryVerdicts[j] = "open"
    BY <1>0, <1>o, <2>1 DEF Post, DeliveryHeld, Trying, DeliveryVerdicts
  <2>3. DeliveryVerdicts' = DeliveryVerdicts
    BY <2>1 DEF Post, DeliveryVerdicts
  <2>4. CASE got = 1
    <3>1. Received' = Received \cup {j}
      BY <1>0, <2>1, <2>2, <2>4 DEF Post, Received
    <3> QED
      BY <2>2, <2>3, <3>1, WebhookOutboxStep
  <2>5. CASE got = 0
    <3>1. Received' = Received
      BY <1>0, <2>1, <2>2, <2>5 DEF Post, Received
    <3> QED
      BY <1>u, <2>3, <3>1
  <2> QED
    BY <2>4, <2>5
<1>7. ASSUME NEW status \in {"succeeded", "failed", "retry_scheduled"},
             j \in Deliveries, delivery[j].status = "running",
             delivery' = [delivery EXCEPT ![j].status = status]
      PROVE  /\ DeliveryVerdicts[j] = "open"
             /\ \A r \in Deliveries \ {j} : delivery'[r] = delivery[r]
             /\ DeliveryVerdict(delivery'[j]) = CASE status = "succeeded" -> "done"
                                                  [] status = "retry_scheduled" -> "open"
                                                  [] OTHER -> "dead"
  BY <1>0, <1>7 DEF DeliveryVerdicts, DeliveryVerdict, DeliveryRow
<1>8. CASE FinishDelivery
  <2>1. /\ j \in Deliveries /\ delivery[j].status = "running" /\ j \in Received
        /\ delivery' = [delivery EXCEPT ![j].status = "succeeded"] /\ dInbox' = dInbox
    BY <1>0, <1>8 DEF FinishDelivery, DeliveryHeld, Trying, Received, dBooks
  <2>2. /\ DeliveryVerdicts[j] = "open" /\ DeliveryVerdict(delivery'[j]) = "done"
        /\ \A r \in Deliveries \ {j} : delivery'[r] = delivery[r]
    BY <1>7, <2>1
  <2>3. DeliveryVerdicts' = [DeliveryVerdicts EXCEPT ![j] = "done"]
    BY <2>1, <2>2, OneVerdict
  <2> QED
    BY <1>r, <2>1, <2>2, <2>3, WebhookOutboxStep
<1>9. CASE FailOrRetryDelivery
  <2> DEFINE next == IF Exhausted(delivery[j]) THEN "failed" ELSE "retry_scheduled"
  <2>1. /\ j \in Deliveries /\ delivery[j].status = "running"
        /\ next \in {"failed", "retry_scheduled"}
        /\ delivery' = [delivery EXCEPT ![j].status = next] /\ dInbox' = dInbox
    BY <1>0, <1>9 DEF FailOrRetryDelivery, DeliveryHeld, Trying, dBooks
  <2> HIDE DEF next
  <2>2. /\ DeliveryVerdicts[j] = "open"
        /\ \A r \in Deliveries \ {j} : delivery'[r] = delivery[r]
        /\ DeliveryVerdict(delivery'[j]) = IF next = "failed" THEN "dead" ELSE "open"
    BY <1>7, <2>1
  <2>3. CASE next = "failed"
    <3>1. DeliveryVerdicts' = [DeliveryVerdicts EXCEPT ![j] = "dead"]
      BY <2>1, <2>2, <2>3, OneVerdict
    <3> QED
      BY <1>r, <2>1, <2>2, <3>1, WebhookOutboxStep
  <2>4. CASE next = "retry_scheduled"
    <3>1. \A r \in Deliveries : DeliveryVerdict(delivery'[r]) = DeliveryVerdict(delivery[r])
      BY <2>1, <2>2, <2>4 DEF DeliveryVerdicts
    <3> QED
      BY <1>r, <1>u, <2>1, <3>1, SameVerdicts
  <2> QED
    BY <2>1, <2>3, <2>4
<1>10. CASE UNCHANGED <<delivery, dInbox>>
  BY <1>10, <1>r, <1>u DEF DeliveryVerdicts
<1>11. \/ UNCHANGED <<delivery, dInbox>>
       \/ \E d \in Deliveries : CreateDelivery(d) \/ DeliveryDue(d)
       \/ RecoverDeliveriesRead \/ ClaimDelivery \/ Deliver \/ FinishDelivery
       \/ FailOrRetryDelivery \/ ActivateDueDeliveries
  BY DEF DNext, WebhookWorkerStep, WebhookSchedulerStep, dVars, dBooks, PushDelivery,
         PushDeliveryFails, RecoverDeliveries, TakeDelivery, ReleaseDelivery, PushDueDelivery,
         FinishDeliveryRaises, DeliveryProcessRaises, WebhookWorkerCrash
<1> QED
  BY <1>1, <1>2, <1>3, <1>4, <1>5, <1>6, <1>8, <1>9, <1>10, <1>11

\* The webhook queue is an at-least-once outbox: a delivery is done only after
\* the receiver had its event, and no verdict is taken back.
THEOREM DeliveriesImplementOutbox == DSpec => DeliversAtLeastOnce
<1>1. DInit => WebhookOutbox!OutboxInit
  BY WebhookInitMaps
<1>2. DeliveryInv /\ [DNext]_dVars => [WebhookOutbox!OutboxNext]_WebhookOutbox!outboxVars
  BY WebhookStepMaps
<1> QED
  BY <1>1, <1>2, DeliveryInvariant, PTL DEF DSpec, DeliversAtLeastOnce, WebhookOutbox!OutboxSpec

-----------------------------------------------------------------------------
(* Video jobs: the inductive invariant.                                    *)

JobRow == [status : {"none", "queued", "running"} \cup JTerminal,
           stage : DOMAIN StageOrder, progress : 0 .. 100]
RequestRow == [pc : {"start", "insert", "enqueue", "done", "failed"},
               key : Keys \cup {None}, job : Jobs \cup {None}]
Working == {"row", "write", "store", "record", "finish"}
Busy == Working \cup {"claimed", "settled"}
WorkerRow == [pc : Busy \cup {"down", "waiting"}, job : Jobs \cup {None},
              row : 1 .. 9, rec : 1 .. 2]
FileTable == [Jobs -> [Files -> JContents \cup {None, "fixed", "torn"}]]

JTypes ==
    /\ jJob \in [Jobs -> JobRow]
    /\ jReceipt \in [Keys -> Jobs \cup {None}]
    /\ jRequest \in [Requests -> RequestRow]
    /\ jRedis \in Lists(Jobs)
    /\ jWorker \in WorkerRow
    /\ jDisk \in FileTable /\ jObject \in FileTable /\ jAsset \in FileTable
    /\ jFailures \in Nat

\* A row that has not ended is not at the stage of a failure.
Unfailed == \A j \in Jobs : jJob[j].stage = "failed" => jJob[j].status = "failed"

\* What an answered request and a receipt name is stored.
Stored(j) == j \in Jobs /\ jJob[j].status # "none"
Answered ==
    /\ \A k \in Keys : jReceipt[k] # None => Stored(jReceipt[k])
    /\ \A q \in Requests :
          /\ jRequest[q].pc \in {"start", "insert"} <=> jRequest[q].job = None
          /\ jRequest[q].job # None => Stored(jRequest[q].job)
          /\ Keyed(q) /\ jRequest[q].job # None => ReceiptOf(q) = jRequest[q].job

\* Where each id is: on the queue once, being pushed by one request, or the
\* only one in process.
Pushing(q) == jRequest[q].pc = "enqueue"
Placed ==
    /\ IsInjective(jRedis.queue)
    /\ \A j \in ToSet(jRedis.queue) : Stored(j)
    /\ jRedis.processing = <<>>
       \/ \E j \in Jobs : /\ jRedis.processing = <<j>>
                          /\ Stored(j) /\ j \notin ToSet(jRedis.queue)
    /\ \A q \in Requests : Pushing(q) =>
          jRequest[q].job \notin ToSet(jRedis.queue) \cup ToSet(jRedis.processing)
    /\ \A p, q \in Requests :
          Pushing(p) /\ Pushing(q) /\ jRequest[p].job = jRequest[q].job => p = q

\* What the worker holds.
Holding ==
    /\ jWorker.pc = "waiting" => jRedis.processing = <<>>
    /\ jWorker.pc \in Busy => Stored(jWorker.job) /\ jRedis.processing = <<jWorker.job>>
    /\ jWorker.pc \in Working => jJob[jWorker.job].status \notin JTerminal
    /\ jWorker.pc = "settled" => jJob[jWorker.job].status \in JTerminal
    /\ jWorker.pc = "claimed" => jWorker.row = 1
    /\ jWorker.pc \in {"claimed", "row", "write"} => jWorker.rec = 1
    /\ jWorker.pc \in {"store", "record"} => jWorker.rec \in DOMAIN Current.records
    /\ jWorker.pc = "finish" => jWorker.row = 9

\* The artifacts are recorded in this order; those before the worker's step
\* are recorded already.
Recorder == [request |-> 1, script |-> 2, storyboard |-> 3, voice |-> 4, subtitles |-> 5,
             assets |-> 6, manifest |-> 7, video |-> 9, qc |-> 10]
StepNo == IF jWorker.pc = "finish" THEN 11 ELSE jWorker.row + jWorker.rec - 1
Matches(j, f) == jAsset[j][f] # None /\ jObject[j][f] = jAsset[j][f]

Recorded ==
    LET j == jWorker.job IN
    /\ jWorker.pc \in Working =>
          \A f \in Files : Recorder[f] < StepNo => Matches(j, f)
    /\ jWorker.pc \in {"store", "record"} => jDisk[j][Current.file] # None
    /\ jWorker.pc \in {"row", "write", "store", "record"} /\ jWorker.row = 9 =>
          jDisk[j]["video"] # None
    /\ jWorker.pc = "record" => jObject[j][Recording] = jDisk[j][Recording]

JobInv ==
    /\ JTypes /\ Unfailed /\ Answered /\ Placed /\ Holding /\ Recorded
    /\ ReviewableArtifactsMatch /\ NoJobForgotten

-----------------------------------------------------------------------------
(* Video jobs: the pipeline and the lists.                                 *)

\* What the table of the pipeline says, row by row.
LEMMA PipelineRows ==
    /\ DOMAIN Pipeline = 1 .. 9 /\ Len(Pipeline) = 9
    /\ Files = {"request", "script", "storyboard", "voice", "subtitles", "assets",
                "manifest", "video", "qc"}
    /\ \A i \in 1 .. 9 :
          /\ Pipeline[i].file \in Files
          /\ Pipeline[i].stage \in DOMAIN StageOrder \ {"failed"}
          /\ Pipeline[i].progress \in 0 .. 100
          /\ Pipeline[i].file = "request" <=> i = 1
          /\ Pipeline[i].file = "video" <=> i = 8
          /\ i # 8 => Pipeline[i].records # <<>> /\ 1 \in DOMAIN Pipeline[i].records
          /\ i <= 7 => Pipeline[i].records = <<Pipeline[i].file>>
          /\ i = 8 => Pipeline[i].records = <<>>
          /\ i = 9 => Pipeline[i].records = <<"video", "qc">> /\ Pipeline[i].file = "qc"
          /\ Pipeline[i].reuse \in {"before", "after", "never"}
          /\ i \in {8, 9} => Pipeline[i].reuse # "after"
<1>1. DOMAIN Pipeline = 1 .. 9 /\ Len(Pipeline) = 9
  BY DEF Pipeline
<1>2. /\ Pipeline[1] = Row("request", "queued", 0, "before", <<"request">>)
      /\ Pipeline[2] = Row("script", "scripting", 10, "before", <<"script">>)
      /\ Pipeline[3] = Row("storyboard", "storyboarding", 20, "before", <<"storyboard">>)
      /\ Pipeline[4] = Row("voice", "generating_voice", 30, "before", <<"voice">>)
      /\ Pipeline[5] = Row("subtitles", "generating_subtitles", 40, "never", <<"subtitles">>)
      /\ Pipeline[6] = Row("assets", "resolving_assets", 50, "never", <<"assets">>)
      /\ Pipeline[7] = Row("manifest", "building_manifest", 60, "after", <<"manifest">>)
      /\ Pipeline[8] = Row("video", "rendering", 70, "before", <<>>)
      /\ Pipeline[9] = Row("qc", "quality_check", 95, "never", <<"video", "qc">>)
  BY DEF Pipeline
<1> DEFINE row(i) == Pipeline[i]
<1>3. /\ row(1).file = "request" /\ row(2).file = "script" /\ row(3).file = "storyboard"
      /\ row(4).file = "voice" /\ row(5).file = "subtitles" /\ row(6).file = "assets"
      /\ row(7).file = "manifest" /\ row(8).file = "video" /\ row(9).file = "qc"
  BY <1>2 DEF Row
<1>4. Files = {"request", "script", "storyboard", "voice", "subtitles", "assets",
               "manifest", "video", "qc"}
  BY <1>1, <1>3 DEF Files
<1>5. ASSUME NEW i \in 1 .. 9
      PROVE  /\ row(i).file \in Files
             /\ row(i).file = "request" <=> i = 1
             /\ row(i).file = "video" <=> i = 8
             /\ i = 9 => row(i).file = "qc"
  BY <1>3, <1>4
<1>6. ASSUME NEW i \in 1 .. 9
      PROVE  /\ row(i).progress \in 0 .. 100
             /\ row(i).reuse \in {"before", "after", "never"}
             /\ i \in {8, 9} => row(i).reuse # "after"
  <2>1. /\ row(1).progress = 0 /\ row(2).progress = 10 /\ row(3).progress = 20
        /\ row(4).progress = 30 /\ row(5).progress = 40 /\ row(6).progress = 50
        /\ row(7).progress = 60 /\ row(8).progress = 70 /\ row(9).progress = 95
    BY <1>2 DEF Row
  <2>2. /\ row(1).reuse = "before" /\ row(2).reuse = "before" /\ row(3).reuse = "before"
        /\ row(4).reuse = "before" /\ row(5).reuse = "never" /\ row(6).reuse = "never"
        /\ row(7).reuse = "after" /\ row(8).reuse = "before" /\ row(9).reuse = "never"
    BY <1>2 DEF Row
  <2> HIDE DEF row
  <2>3. row(i).progress \in 0 .. 100
    BY <2>1
  <2>4. /\ row(i).reuse \in {"before", "after", "never"}
        /\ i \in {8, 9} => row(i).reuse # "after"
    BY <2>2
  <2> QED
    BY <2>3, <2>4
<1>7. DOMAIN StageOrder = {"queued", "scripting", "storyboarding", "generating_voice",
          "generating_subtitles", "resolving_assets", "building_manifest", "rendering",
          "quality_check", "awaiting_review", "failed"}
  BY DEF StageOrder
<1>8. \A i \in 1 .. 9 : row(i).stage \in DOMAIN StageOrder \ {"failed"}
  <2>1. /\ row(1).stage = "queued" /\ row(2).stage = "scripting"
        /\ row(3).stage = "storyboarding" /\ row(4).stage = "generating_voice"
        /\ row(5).stage = "generating_subtitles" /\ row(6).stage = "resolving_assets"
        /\ row(7).stage = "building_manifest" /\ row(8).stage = "rendering"
        /\ row(9).stage = "quality_check"
    BY <1>2 DEF Row
  <2> QED
    BY <1>7, <2>1
<1>9. /\ \A i \in 1 .. 7 : row(i).records = <<row(i).file>>
      /\ row(8).records = <<>> /\ row(9).records = <<"video", "qc">>
  BY <1>2 DEF Row
<1>10. ASSUME NEW i \in 1 .. 9
       PROVE  /\ i # 8 => row(i).records # <<>> /\ 1 \in DOMAIN row(i).records
              /\ i <= 7 => row(i).records = <<row(i).file>>
              /\ i = 8 => row(i).records = <<>>
              /\ i = 9 => row(i).records = <<"video", "qc">>
  <2>1. CASE i <= 7
    <3>1. row(i).records = <<row(i).file>>
      BY <1>9, <2>1
    <3> HIDE DEF row
    <3> QED
      BY <2>1, <3>1
  <2>2. CASE i \in {8, 9}
    <3> HIDE DEF row
    <3> QED
      BY <1>9, <2>2
  <2> QED
    BY <2>1, <2>2
<1> QED
  BY <1>1, <1>4, <1>5, <1>6, <1>8, <1>10

\* Each artifact is recorded at a step of its own.
LEMMA RecorderSteps ==
    /\ \A f \in Files : Recorder[f] \in 1 .. 10 /\ Recorder[f] # 8
    /\ \A f, g \in Files : Recorder[f] = Recorder[g] => f = g
    /\ \A i \in 1 .. 7 : Recorder[Pipeline[i].file] = i
    /\ Recorder["video"] = 9 /\ Recorder["qc"] = 10
<1>1. Files = {"request", "script", "storyboard", "voice", "subtitles", "assets",
               "manifest", "video", "qc"}
  BY PipelineRows
<1>2. /\ Pipeline[1].file = "request" /\ Pipeline[2].file = "script"
      /\ Pipeline[3].file = "storyboard" /\ Pipeline[4].file = "voice"
      /\ Pipeline[5].file = "subtitles" /\ Pipeline[6].file = "assets"
      /\ Pipeline[7].file = "manifest"
  BY DEF Pipeline, Row
<1>3. /\ Recorder["request"] = 1 /\ Recorder["script"] = 2 /\ Recorder["storyboard"] = 3
      /\ Recorder["voice"] = 4 /\ Recorder["subtitles"] = 5 /\ Recorder["assets"] = 6
      /\ Recorder["manifest"] = 7 /\ Recorder["video"] = 9 /\ Recorder["qc"] = 10
  BY DEF Recorder
<1> HIDE DEF Recorder
<1>4. \A f \in Files : Recorder[f] \in 1 .. 10 /\ Recorder[f] # 8
  BY <1>1, <1>3
<1>5. ASSUME NEW f \in Files, NEW g \in Files, Recorder[f] = Recorder[g] PROVE f = g
  BY <1>1, <1>3, <1>5
<1>6. \A i \in 1 .. 7 : i \in {1, 2, 3, 4, 5, 6, 7}
  OBVIOUS
<1>7. \A i \in 1 .. 7 : Recorder[Pipeline[i].file] = i
  BY <1>2, <1>3, <1>6
<1> QED
  BY <1>3, <1>4, <1>5, <1>7

\* Where the worker records, it records the artifact of its step.
LEMMA RecordingStep ==
    ASSUME jWorker \in WorkerRow, jWorker.rec \in DOMAIN Current.records
    PROVE  /\ Recording \in Files /\ Recorder[Recording] = jWorker.row + jWorker.rec - 1
           /\ jWorker.row # 8
           /\ jWorker.row <= 7 => jWorker.rec = 1 /\ Len(Current.records) = 1
           /\ jWorker.row = 9 => Len(Current.records) = 2
           /\ Recording = IF jWorker.row = 9 /\ jWorker.rec = 1 THEN "video" ELSE Current.file
<1>1. jWorker.row \in 1 .. 9 /\ jWorker.rec \in 1 .. 2
  BY DEF WorkerRow
<1>2. CASE jWorker.row \in 1 .. 7
  <2>1. Current.records = <<Current.file>> /\ Current.file \in Files
    BY <1>2, PipelineRows DEF Current
  <2>2. jWorker.rec = 1 /\ Recording = Current.file /\ Len(Current.records) = 1
    BY <2>1 DEF Recording
  <2> QED
    BY <1>2, <2>1, <2>2, RecorderSteps DEF Current
<1>3. CASE jWorker.row = 8
  BY <1>3, PipelineRows DEF Current
<1>4. CASE jWorker.row = 9
  <2>1. Current.records = <<"video", "qc">> /\ Current.file = "qc"
    BY <1>4, PipelineRows DEF Current
  <2>2. Recording = IF jWorker.rec = 1 THEN "video" ELSE "qc"
    BY <1>1, <2>1 DEF Recording
  <2> QED
    BY <1>1, <1>4, <2>1, <2>2, RecorderSteps, PipelineRows
<1> QED
  BY <1>1, <1>2, <1>3, <1>4

\* One file of one job is replaced.
Replaced(t, j, f, c) == [t EXCEPT ![j][f] = c]

LEMMA FileStep ==
    ASSUME NEW t \in FileTable, NEW j \in Jobs, NEW f \in Files,
           NEW c \in JContents \cup {None, "fixed", "torn"}
    PROVE  /\ Replaced(t, j, f, c) \in FileTable
           /\ Replaced(t, j, f, c)[j][f] = c
           /\ \A i \in Jobs, g \in Files :
                 i # j \/ g # f => Replaced(t, j, f, c)[i][g] = t[i][g]
<1>1. t[j] \in [Files -> JContents \cup {None, "fixed", "torn"}]
  BY DEF FileTable
<1> DEFINE row == [t[j] EXCEPT ![f] = c]
<1>2. /\ row \in [Files -> JContents \cup {None, "fixed", "torn"}] /\ row[f] = c
      /\ \A g \in Files : g # f => row[g] = t[j][g]
  BY <1>1
<1>3. Replaced(t, j, f, c) = [t EXCEPT ![j] = row]
  BY DEF Replaced
<1> HIDE DEF row
<1> QED
  BY <1>2, <1>3 DEF FileTable

\* A list of one id.
LEMMA SingleIds == ASSUME NEW x PROVE ToSet(<<x>>) = {x} /\ ToSet(<<>>) = {}
BY DEF ToSet

\* LREM of the only id.
LEMMA SingleRelease ==
    ASSUME NEW q \in Lists(Jobs), NEW x \in Jobs, q.processing = <<x>>
    PROVE  Released(q, x) \in Lists(Jobs) /\ Released(q, x) = [q EXCEPT !.processing = <<>>]
<1>1. /\ Without(<<x>>, {x}) \in Seq(Jobs)
      /\ ToSet(Without(<<x>>, {x})) = {}
  <2>1. <<x>> \in Seq(Jobs)
    OBVIOUS
  <2>2. /\ Without(<<x>>, {x}) \in Seq(Jobs)
        /\ ToSet(Without(<<x>>, {x})) = ToSet(<<x>>) \ {x}
    BY <2>1, WithoutIds
  <2> QED
    BY <2>2, SingleIds
<1>2. Without(<<x>>, {x}) = <<>>
  BY <1>1, IdsOfList
<1> QED
  BY <1>2, ReleasedLists DEF Released, Lists

\* A push of a new id.
LEMMA PushInjective ==
    ASSUME NEW S, NEW s \in Seq(S), NEW x \in S, IsInjective(s), x \notin ToSet(s)
    PROVE  IsInjective(Append(s, x))
<1>1. /\ Len(s) \in Nat /\ DOMAIN s = 1 .. Len(s) /\ DOMAIN Append(s, x) = 1 .. Len(s) + 1
      /\ \A i \in 1 .. Len(s) : Append(s, x)[i] = s[i]
      /\ Append(s, x)[Len(s) + 1] = x
  BY LenProperties, AppendProperties
<1>2. \A i \in 1 .. Len(s) : s[i] # x
  BY <1>1 DEF ToSet
<1>3. \A i \in 1 .. Len(s) + 1 : i \in 1 .. Len(s) \/ i = Len(s) + 1
  BY <1>1
<1> QED
  BY <1>1, <1>2, <1>3 DEF IsInjective

\* A claim from a list without repetitions.
LEMMA ClaimInjective ==
    ASSUME NEW S, NEW s \in Seq(S), s # <<>>, IsInjective(s)
    PROVE  IsInjective(Front(s)) /\ Last(s) \notin ToSet(Front(s))
<1>1. Len(s) \in Nat \ {0} /\ DOMAIN s = 1 .. Len(s)
  BY LenProperties, EmptySeq
<1>2. /\ Front(s) \in Seq(S) /\ Len(Front(s)) = Len(s) - 1
      /\ \A i \in 1 .. Len(s) - 1 : Front(s)[i] = s[i]
  BY <1>1, SubSeqProperties, LenProperties DEF Front
<1>3. DOMAIN Front(s) = 1 .. Len(s) - 1
  BY <1>2, LenProperties
<1>4. \A i \in 1 .. Len(s) - 1 : i \in 1 .. Len(s) /\ i # Len(s)
  <2>1. \A n \in Nat : \A i \in 1 .. n - 1 : i \in 1 .. n /\ i # n
    OBVIOUS
  <2> QED
    BY <1>1, <2>1
<1>5. IsInjective(Front(s))
  BY <1>1, <1>2, <1>3, <1>4 DEF IsInjective
<1>6. Last(s) \notin ToSet(Front(s))
  <2>1. Len(s) \in 1 .. Len(s)
    BY <1>1
  <2> QED
    BY <1>1, <1>2, <1>3, <1>4, <2>1 DEF IsInjective, ToSet, Last
<1> QED
  BY <1>5, <1>6

-----------------------------------------------------------------------------
(* Video jobs: the invariant is inductive.                                 *)

\* It holds at first.
LEMMA JobInitInv == JInit => JobInv
<1> SUFFICES ASSUME JInit PROVE JobInv
  OBVIOUS
<1> USE VideoJobConstants
<1>1. JTypes
  <2>1. <<>> \in Seq(Jobs)
    BY EmptySeq
  <2>2. jJob \in [Jobs -> JobRow]
    BY DEF JInit, NoVideoJob, JobRow, StageOrder, JTerminal
  <2>3. jRequest \in [Requests -> RequestRow]
    BY DEF JInit, RequestRow
  <2>4. jRedis \in Lists(Jobs) /\ jWorker \in WorkerRow
    BY <2>1 DEF JInit, EmptyQueue, Lists, JDown, WorkerRow
  <2> QED
    BY <2>2, <2>3, <2>4 DEF JInit, JTypes, FileTable
<1>2. Unfailed /\ Answered /\ ReviewableArtifactsMatch /\ NoJobForgotten
  BY DEF JInit, NoVideoJob, Unfailed, Answered, Keyed, ReceiptOf, ReviewableArtifactsMatch,
         NoJobForgotten
<1>3. Placed /\ Holding /\ Recorded
  <2>1. ToSet(<<>>) = {}
    BY SingleIds
  <2>2. IsInjective(<<>>)
    BY DEF IsInjective
  <2> QED
    BY <2>1, <2>2 DEF JInit, EmptyQueue, JDown, Placed, Pushing, Holding, Recorded,
                      Working, Busy
<1> QED
  BY <1>1, <1>2, <1>3 DEF JobInv

\* A step of the API leaves the worker and the files alone, and stored rows as
\* they are.
LEMMA ApiFrame ==
    ASSUME JobInv, UNCHANGED <<jWorker, jFiles, jFailures>>,
           jRedis' = jRedis \/ jRedis'.processing = jRedis.processing,
           \A j \in Jobs : Stored(j) => jJob'[j] = jJob[j],
           \A j \in Jobs : ~Stored(j) => jJob'[j].status \in {"none", "queued"}
    PROVE  Holding' /\ Recorded' /\ ReviewableArtifactsMatch'
<1>1. Holding'
  BY DEF JobInv, Holding, Busy, Working, Current, Stored, jFiles
<1>2. Recorded'
  BY DEF JobInv, Recorded, Matches, StepNo, Working, Current, Recording, jFiles
<1>3. ReviewableArtifactsMatch'
  BY DEF JobInv, ReviewableArtifactsMatch, Stored, jFiles
<1> QED
  BY <1>1, <1>2, <1>3

\* A request is answered, or its job inserted, pushed or dropped; a key expires.
LEMMA ApiKeepsInv ==
    ASSUME JobInv,
           \/ \E q \in Requests : Lookup(q) \/ Insert(q) \/ Enqueue(q) \/ EnqueueFails(q)
           \/ \E k \in Keys : Expire(k)
    PROVE  JobInv'
<1> USE VideoJobConstants
<1>0. JTypes /\ Unfailed /\ Answered /\ Placed /\ Holding /\ Recorded
      /\ ReviewableArtifactsMatch /\ NoJobForgotten
  BY DEF JobInv
<1>s. \A i \in Jobs : Stored(i) <=> jJob[i].status # "none"
  BY DEF Stored
<1>r. \A q \in Requests :
         /\ jRequest[q] \in RequestRow
         /\ jRequest[q].key \in Keys \cup {None} /\ jRequest[q].job \in Jobs \cup {None}
  BY <1>0 DEF JTypes, RequestRow
<1>1. ASSUME NEW q \in Requests, Lookup(q) \/ (Insert(q) /\ UNCHANGED <<jJob, jReceipt>>)
      PROVE  JobInv'
  <2>1. /\ UNCHANGED <<jJob, jReceipt, jExpired, jRedis, jWorker, jFiles, jLost, jFailures>>
        /\ jRequest[q].pc \in {"start", "insert"}
    BY <1>1 DEF Lookup, Insert
  <2>2. \/ jRequest' = [jRequest EXCEPT ![q].pc = "insert"]
        \/ /\ Keyed(q) /\ ReceiptOf(q) # None
           /\ jRequest' = [jRequest EXCEPT ![q].pc = "done", ![q].job = ReceiptOf(q)]
    <3>1. CASE Lookup(q)
      BY <3>1 DEF Lookup
    <3>2. CASE Insert(q) /\ UNCHANGED <<jJob, jReceipt>>
      <4>1. CASE Keyed(q) /\ ReceiptOf(q) # None
        BY <3>2, <4>1 DEF Insert
      <4>2. CASE ~(Keyed(q) /\ ReceiptOf(q) # None)
        <5>1. PICK j \in Jobs : InsertFresh(q, j)
          BY <3>2, <4>2 DEF Insert
        <5>2. jJob'[j].status = "queued" /\ jJob[j].status = "none"
          BY <1>0, <5>1 DEF InsertFresh, JTypes, JobRow
        <5> QED
          BY <3>2, <5>2
      <4> QED
        BY <4>1, <4>2
    <3> QED
      BY <1>1, <3>1, <3>2
  <2>3. ReceiptOf(q) # None /\ Keyed(q) => ReceiptOf(q) \in Jobs /\ Stored(ReceiptOf(q))
    BY <1>0, <1>r DEF Answered, ReceiptOf, Keyed, Stored
  <2>4. jRequest' \in [Requests -> RequestRow]
    BY <1>0, <1>r, <2>2, <2>3 DEF JTypes, RequestRow
  <2>5. /\ \A p \in Requests \ {q} : jRequest'[p] = jRequest[p]
        /\ jRequest'[q].key = jRequest[q].key
        /\ \/ jRequest'[q].pc = "insert" /\ jRequest'[q].job = jRequest[q].job
           \/ /\ jRequest'[q].pc = "done" /\ jRequest'[q].job = ReceiptOf(q)
              /\ ReceiptOf(q) # None /\ Keyed(q)
    BY <1>0, <1>r, <2>2 DEF JTypes, RequestRow
  <2>6. JTypes' /\ Unfailed'
    BY <1>0, <2>1, <2>4 DEF JTypes, Unfailed, jFiles
  <2>7. Answered'
    BY <1>0, <2>1, <2>3, <2>5 DEF Answered, Stored, Keyed, ReceiptOf
  <2>8. Placed'
    BY <1>0, <2>1, <2>5 DEF Placed, Stored, Pushing
  <2>9. NoJobForgotten'
    BY <1>0, <2>1, <2>5 DEF NoJobForgotten
  <2> QED
    BY <1>0, <2>1, <2>6, <2>7, <2>8, <2>9, ApiFrame DEF JobInv, Stored
<1>2. ASSUME NEW q \in Requests, NEW j \in Jobs, Insert(q), InsertFresh(q, j),
             ~(Keyed(q) /\ ReceiptOf(q) # None)
      PROVE  JobInv'
  <2>1. /\ UNCHANGED <<jExpired, jRedis, jWorker, jFiles, jLost, jFailures>>
        /\ jRequest[q].pc = "insert" /\ jJob[j].status = "none" /\ ~Stored(j)
        /\ jJob' = [jJob EXCEPT ![j].status = "queued"]
        /\ jReceipt' = IF Keyed(q) THEN [jReceipt EXCEPT ![jRequest[q].key] = j] ELSE jReceipt
        /\ jRequest' = [jRequest EXCEPT ![q].pc = "enqueue", ![q].job = j]
    BY <1>2 DEF Insert, InsertFresh, Stored
  <2>2. /\ jJob' \in [Jobs -> JobRow] /\ jJob'[j].status = "queued"
        /\ jJob'[j].stage = jJob[j].stage
        /\ \A i \in Jobs \ {j} : jJob'[i] = jJob[i]
    BY <1>0, <2>1 DEF JTypes, JobRow
  <2>3. /\ jRequest' \in [Requests -> RequestRow]
        /\ \A p \in Requests \ {q} : jRequest'[p] = jRequest[p]
        /\ jRequest'[q].key = jRequest[q].key
        /\ jRequest'[q].pc = "enqueue" /\ jRequest'[q].job = j
    BY <1>0, <1>r, <2>1 DEF JTypes, RequestRow
  <2>4. /\ jReceipt' \in [Keys -> Jobs \cup {None}]
        /\ Keyed(q) => jReceipt'[jRequest[q].key] = j /\ jReceipt[jRequest[q].key] = None
        /\ \A k \in Keys : k # jRequest[q].key \/ ~Keyed(q) => jReceipt'[k] = jReceipt[k]
    BY <1>0, <1>2, <1>r, <2>1 DEF JTypes, Keyed, ReceiptOf
  <2>5. \A i : Stored(i)' <=> Stored(i) \/ i = j
    BY <2>2 DEF Stored
  <2>6. JTypes' /\ Unfailed'
    BY <1>0, <2>1, <2>2, <2>3, <2>4 DEF JTypes, Unfailed, jFiles
  <2>7. Answered'
    <3>1. \A k \in Keys : jReceipt'[k] # None => Stored(jReceipt[k])'
      <4>1. \A k \in Keys : jReceipt'[k] = jReceipt[k] \/ jReceipt'[k] = j
        BY <2>4
      <4>2. \A k \in Keys : jReceipt[k] # None =>
               jReceipt[k] \in Jobs /\ jJob[jReceipt[k]].status # "none"
        BY <1>0 DEF Answered, Stored
      <4> QED
        BY <2>1, <2>2, <4>1, <4>2 DEF Stored
    <3>2. ASSUME NEW p \in Requests
          PROVE  /\ jRequest'[p].pc \in {"start", "insert"} <=> jRequest'[p].job = None
                 /\ jRequest'[p].job # None => Stored(jRequest[p].job)'
      <4>1. /\ jRequest[p].pc \in {"start", "insert"} <=> jRequest[p].job = None
            /\ jRequest[p].job # None =>
                  jRequest[p].job \in Jobs /\ jJob[jRequest[p].job].status # "none"
        BY <1>0 DEF Answered, Stored
      <4>2. jRequest'[p] = jRequest[p] \/ (jRequest'[p].pc = "enqueue" /\ jRequest'[p].job = j)
        BY <2>3
      <4>3. j # None
        OBVIOUS
      <4> QED
        BY <2>1, <2>2, <4>1, <4>2, <4>3 DEF Stored
    <3>3. ASSUME NEW p \in Requests, jRequest'[p].key # None, jRequest'[p].job # None
          PROVE  jReceipt'[jRequest'[p].key] = jRequest'[p].job
      <4>1. CASE p = q
        BY <2>3, <2>4, <3>3, <4>1 DEF Keyed
      <4>2. CASE p # q
        <5>1. jReceipt[jRequest[p].key] = jRequest[p].job /\ jRequest[p].job # None
          BY <1>0, <2>3, <3>3, <4>2 DEF Answered, Keyed, ReceiptOf
        <5>2. jRequest[p].key \in Keys
          BY <1>r, <2>3, <3>3, <4>2
        <5>3. jRequest[p].key # jRequest[q].key \/ ~Keyed(q)
          BY <2>4, <5>1
        <5> QED
          BY <2>3, <2>4, <4>2, <5>1, <5>2, <5>3
      <4> QED
        BY <4>1, <4>2
    <3> QED
      BY <3>1, <3>2, <3>3 DEF Answered, Keyed, ReceiptOf, Stored
  <2>8. Placed'
    <3>1. j \notin ToSet(jRedis.queue) \cup ToSet(jRedis.processing)
      <4>1. j \notin ToSet(jRedis.queue)
        BY <1>0, <2>1 DEF Placed
      <4>2. ASSUME NEW i \in Jobs, jRedis.processing = <<i>>, Stored(i)
            PROVE  j \notin ToSet(jRedis.processing)
        BY <2>1, <4>2, SingleIds
      <4>3. jRedis.processing = <<>> => j \notin ToSet(jRedis.processing)
        BY SingleIds
      <4> QED
        BY <1>0, <4>1, <4>2, <4>3 DEF Placed
    <3>2. \A p \in Requests : Pushing(p) => jRequest[p].job # j
      BY <1>0, <2>1 DEF Answered, Pushing
    <3>3. \A p \in Requests : Pushing(p)' <=> Pushing(p) \/ p = q
      BY <2>3 DEF Pushing
    <3>4. IsInjective(jRedis'.queue) /\ \A i \in ToSet(jRedis'.queue) : Stored(i)'
      BY <1>0, <2>1, <2>5 DEF Placed
    <3>5. jRedis'.processing = <<>>
          \/ \E i \in Jobs : /\ jRedis'.processing = <<i>>
                             /\ Stored(i)' /\ i \notin ToSet(jRedis'.queue)
      BY <1>0, <2>1, <2>5 DEF Placed
    <3>6. \A p \in Requests : Pushing(p)' =>
             jRequest'[p].job \notin ToSet(jRedis'.queue) \cup ToSet(jRedis'.processing)
      BY <1>0, <2>1, <2>3, <3>1, <3>3 DEF Placed
    <3>7. \A p, r \in Requests :
             Pushing(p)' /\ Pushing(r)' /\ jRequest'[p].job = jRequest'[r].job => p = r
      BY <1>0, <2>3, <3>2, <3>3 DEF Placed
    <3> QED
      BY <3>4, <3>5, <3>6, <3>7 DEF Placed, Stored, Pushing
  <2>9. NoJobForgotten'
    BY <1>0, <2>1, <2>2, <2>3 DEF NoJobForgotten
  <2> QED
    BY <1>s, <2>1, <2>2, <2>6, <2>7, <2>8, <2>9, ApiFrame DEF JobInv, Stored
<1>3. ASSUME NEW q \in Requests, Enqueue(q) \/ EnqueueFails(q)
      PROVE  JobInv'
  <2> DEFINE j == jRequest[q].job
             next == IF Enqueue(q) THEN "done" ELSE "failed"
  <2>1. /\ UNCHANGED <<jJob, jReceipt, jExpired, jWorker, jFiles>> /\ Pushing(q)
        /\ jRequest' = [jRequest EXCEPT ![q].pc = next]
    BY <1>3 DEF Enqueue, EnqueueFails, Pushing
  <2>2. Stored(j) /\ j \in Jobs /\ j # None
    BY <1>0, <1>r, <2>1 DEF Answered, Pushing, Stored
  <2>3. /\ jRequest' \in [Requests -> RequestRow]
        /\ \A p \in Requests \ {q} : jRequest'[p] = jRequest[p]
        /\ jRequest'[q].key = jRequest[q].key /\ jRequest'[q].job = j
        /\ jRequest'[q].pc \in {"done", "failed"}
    BY <1>0, <1>r, <2>1 DEF JTypes, RequestRow
  <2>4. \A p \in Requests : Pushing(p)' <=> Pushing(p) /\ p # q
    BY <2>1, <2>3 DEF Pushing
  <2>5. Answered' /\ Unfailed'
    BY <1>0, <2>1, <2>2, <2>3 DEF Answered, Unfailed, Stored, Keyed, ReceiptOf, Pushing
  <2>6. CASE Enqueue(q)
    <3>1. /\ jRedis' = Pushed(jRedis, j) /\ UNCHANGED <<jLost, jFailures>>
      BY <2>6 DEF Enqueue
    <3>2. /\ jRedis' \in Lists(Jobs) /\ Queued(jRedis') = Queued(jRedis) \cup {j}
          /\ jRedis'.processing = jRedis.processing /\ jRedis'.queue = Append(jRedis.queue, j)
      <4>1. jRedis \in Lists(Jobs)
        BY <1>0 DEF JTypes
      <4>2. jRedis' \in Lists(Jobs) /\ Queued(jRedis') = Queued(jRedis) \cup {j}
        BY <2>2, <3>1, <4>1, PushedLists
      <4>3. jRedis' = [jRedis EXCEPT !.queue = Append(jRedis.queue, j)]
        BY <3>1 DEF Pushed
      <4> QED
        BY <4>1, <4>2, <4>3 DEF Lists
    <3>3. IsInjective(jRedis'.queue)
      <4>1. j \notin ToSet(jRedis.queue) /\ jRedis.queue \in Seq(Jobs)
        BY <1>0, <2>1 DEF Placed, JTypes, Lists
      <4> QED
        BY <1>0, <2>2, <3>2, <4>1, PushInjective DEF Placed
    <3>4. Placed'
      <4>1. j \notin ToSet(jRedis.processing)
        BY <1>0, <2>1 DEF Placed
      <4>2. jRedis'.processing = <<>>
            \/ \E i \in Jobs : /\ jRedis'.processing = <<i>>
                               /\ Stored(i) /\ i \notin ToSet(jRedis'.queue)
        BY <1>0, <3>2, <4>1, SingleIds DEF Placed, Queued
      <4>3. \A p \in Requests : Pushing(p) /\ p # q => jRequest[p].job # j
        BY <1>0, <2>1 DEF Placed
      <4>4. \A p \in Requests : Pushing(p)' =>
               jRequest'[p].job \notin ToSet(jRedis'.queue) \cup ToSet(jRedis'.processing)
        BY <1>0, <2>3, <2>4, <3>2, <4>3 DEF Placed, Queued
      <4>5. \A p, r \in Requests :
               Pushing(p)' /\ Pushing(r)' /\ jRequest'[p].job = jRequest'[r].job => p = r
        BY <1>0, <2>3, <2>4 DEF Placed
      <4>6. \A i \in ToSet(jRedis'.queue) : Stored(i)
        BY <1>0, <2>2, <3>2 DEF Placed, Queued
      <4> QED
        BY <2>1, <3>3, <4>2, <4>4, <4>5, <4>6 DEF Placed, Stored, Pushing
    <3>5. JTypes'
      BY <1>0, <2>1, <2>3, <3>1, <3>2 DEF JTypes, jFiles
    <3>6. NoJobForgotten'
      BY <1>0, <2>1, <2>3, <3>1, <3>2 DEF NoJobForgotten, Queued
    <3> QED
      BY <2>1, <2>5, <3>1, <3>2, <3>4, <3>5, <3>6, <1>s, ApiFrame DEF JobInv
  <2>7. CASE EnqueueFails(q)
    <3>1. /\ jRedis' = jRedis /\ jLost' = jLost \cup {j} /\ jFailures' = jFailures + 1
      BY <2>7 DEF EnqueueFails
    <3>2. JTypes'
      BY <1>0, <2>1, <2>3, <3>1 DEF JTypes, jFiles
    <3>3. Placed'
      BY <1>0, <2>1, <2>3, <2>4, <3>1 DEF Placed, Stored, Pushing
    <3>4. NoJobForgotten'
      BY <1>0, <2>1, <2>3, <3>1 DEF NoJobForgotten
    <3>5. Holding' /\ Recorded' /\ ReviewableArtifactsMatch'
      BY <1>0, <2>1, <3>1
         DEF Holding, Busy, Working, Stored, Current, Recorded, Matches, StepNo, Recording,
             ReviewableArtifactsMatch, jFiles
    <3> QED
      BY <2>5, <3>2, <3>3, <3>4, <3>5 DEF JobInv
  <2> QED
    BY <1>3, <2>6, <2>7
<1>4. ASSUME NEW k \in Keys, Expire(k) PROVE JobInv'
  <2>1. UNCHANGED <<jJob, jReceipt, jRequest, jRedis, jWorker, jFiles, jLost, jFailures>>
    BY <1>4 DEF Expire
  <2>2. JTypes' /\ Unfailed' /\ Answered' /\ Placed' /\ NoJobForgotten'
    BY <1>0, <2>1 DEF JTypes, Unfailed, Answered, Placed, NoJobForgotten, Stored, Keyed,
                      ReceiptOf, Pushing, jFiles
  <2> QED
    BY <2>1, <2>2, ApiFrame, <1>s DEF JobInv
<1>5. ASSUME NEW q \in Requests, Insert(q) PROVE JobInv'
  <2>1. CASE Keyed(q) /\ ReceiptOf(q) # None
    <3>1. UNCHANGED <<jJob, jReceipt>>
      BY <1>5, <2>1 DEF Insert
    <3> QED
      BY <1>1, <1>5, <3>1
  <2>2. CASE ~(Keyed(q) /\ ReceiptOf(q) # None)
    BY <1>2, <1>5, <2>2 DEF Insert
  <2> QED
    BY <2>1, <2>2
<1> QED
  BY <1>1, <1>3, <1>4, <1>5

\* A worker that recovers, claims, lets go or dies changes no row, and no file
\* of a job that awaits review.
LEMMA DeliveryKeepsInv ==
    ASSUME JobInv, Recover \/ Claim \/ Release \/ RunJobRaises \/ Crash
    PROVE  JobInv'
<1> USE VideoJobConstants
<1>0. JTypes /\ Unfailed /\ Answered /\ Placed /\ Holding /\ Recorded
      /\ ReviewableArtifactsMatch /\ NoJobForgotten
  BY DEF JobInv
<1>t. /\ jRedis \in Lists(Jobs) /\ jRedis.queue \in Seq(Jobs) /\ jRedis.processing \in Seq(Jobs)
      /\ jWorker \in WorkerRow /\ jFailures \in Nat
      /\ JDown \in WorkerRow /\ [JDown EXCEPT !.pc = "waiting"] \in WorkerRow
  BY <1>0 DEF JTypes, Lists, WorkerRow, JDown
<1>d. /\ JDown.pc = "down" /\ [JDown EXCEPT !.pc = "waiting"].pc = "waiting"
      /\ "down" \notin Busy \cup Working /\ "waiting" \notin Busy \cup Working
  BY DEF JDown, Busy, Working
\* The worker ends idle: nothing is left to show of what it holds.
<1>i. ASSUME jTables' = jTables, jWorker' \in {JDown, [JDown EXCEPT !.pc = "waiting"]},
             jWorker'.pc = "waiting" => jRedis'.processing = <<>>,
             jObject' = jObject, jAsset' = jAsset
      PROVE  /\ Unfailed' /\ Answered' /\ Holding' /\ Recorded'
             /\ ReviewableArtifactsMatch'
  <2>1. UNCHANGED <<jJob, jReceipt, jExpired, jRequest>>
    BY <1>i DEF jTables
  <2>2. Unfailed' /\ Answered' /\ ReviewableArtifactsMatch'
    BY <1>0, <1>i, <2>1
       DEF Unfailed, Answered, Stored, Keyed, ReceiptOf, ReviewableArtifactsMatch
  <2>3. Holding'
    BY <1>i, <1>d DEF Holding, Working, Busy, JDown
  <2>4. Recorded'
    BY <1>i, <1>d DEF Recorded, Working, Busy, JDown
  <2> QED
    BY <2>2, <2>3, <2>4
<1>1. CASE Recover
  <2>1. /\ jRedis' = [queue |-> jRedis.queue \o jRedis.processing, processing |-> <<>>]
        /\ jWorker' = [JDown EXCEPT !.pc = "waiting"]
        /\ UNCHANGED <<jTables, jFiles, jLost, jFailures>>
    BY <1>1 DEF Recover
  <2>2. jRedis' \in Lists(Jobs)
        /\ ToSet(jRedis'.queue) = ToSet(jRedis.queue) \cup ToSet(jRedis.processing)
    <3>1. <<>> \in Seq(Jobs)
      BY EmptySeq
    <3> QED
      BY <1>t, <2>1, <3>1, ConcatIds DEF Lists
  <2>3. IsInjective(jRedis'.queue)
    <3>1. CASE jRedis.processing = <<>>
      <4>1. jRedis.queue \o <<>> = jRedis.queue
        BY <1>t
      <4> QED
        BY <1>0, <2>1, <3>1, <4>1 DEF Placed
    <3>2. ASSUME NEW j \in Jobs, jRedis.processing = <<j>>, j \notin ToSet(jRedis.queue)
          PROVE  IsInjective(jRedis'.queue)
      <4>1. jRedis.queue \o <<j>> = Append(jRedis.queue, j)
        BY <1>t
      <4> QED
        BY <1>0, <1>t, <2>1, <3>2, <4>1, PushInjective DEF Placed
    <3> QED
      BY <1>0, <3>1, <3>2 DEF Placed
  <2>4. Placed'
    <3>1. \A i \in ToSet(jRedis'.queue) : Stored(i)
      <4>1. \A i \in ToSet(jRedis.processing) : Stored(i)
        BY <1>0, SingleIds DEF Placed
      <4> QED
        BY <1>0, <2>2, <4>1 DEF Placed
    <3>2. \A q \in Requests : Pushing(q) =>
             jRequest[q].job \notin ToSet(jRedis'.queue) \cup ToSet(jRedis'.processing)
      BY <1>0, <2>1, <2>2, SingleIds DEF Placed
    <3> QED
      BY <1>0, <2>1, <2>3, <3>1, <3>2 DEF Placed, Stored, Pushing, jTables
  <2>5. NoJobForgotten'
    BY <1>0, <2>1, <2>2 DEF NoJobForgotten, jTables
  <2>6. JTypes'
    BY <1>0, <1>t, <2>1, <2>2 DEF JTypes, jTables, jFiles
  <2> QED
    BY <1>i, <2>1, <2>4, <2>5, <2>6 DEF JobInv, jFiles
<1>2. CASE Claim
  <2> DEFINE j == NextId(jRedis)
  <2>1. /\ jRedis.queue # <<>> /\ jRedis' = Claimed(jRedis) /\ jWorker.pc = "waiting"
        /\ jWorker' = [JDown EXCEPT !.pc = "claimed", !.job = j]
        /\ UNCHANGED <<jTables, jFiles, jLost, jFailures>>
    BY <1>2 DEF Claim
  <2>2. /\ j \in Jobs /\ jRedis' \in Lists(Jobs)
        /\ ToSet(jRedis.queue) = ToSet(jRedis'.queue) \cup {j}
    BY <1>t, <2>1, ClaimedLists DEF Queued
  <2>3. jRedis'.queue = Front(jRedis.queue) /\ jRedis'.processing = <<j>>
    <3>1. <<j>> \o jRedis.processing = <<j>>
      <4>1. jRedis.processing = <<>>
        BY <1>0, <2>1 DEF Holding
      <4>2. <<j>> \in Seq(Jobs)
        BY <2>2
      <4> QED
        BY <4>1, <4>2
    <3> QED
      BY <2>1, <3>1 DEF Claimed
  <2>4. IsInjective(jRedis'.queue) /\ j \notin ToSet(jRedis'.queue)
    BY <1>0, <1>t, <2>1, <2>3, ClaimInjective DEF Placed, NextId
  <2>5. Stored(j)
    BY <1>0, <2>2 DEF Placed
  <2>6. Placed'
    <3>1. \A q \in Requests : Pushing(q) =>
             jRequest[q].job \notin ToSet(jRedis'.queue) \cup ToSet(jRedis'.processing)
      BY <1>0, <2>2, <2>3, SingleIds DEF Placed
    <3>2. \A i \in ToSet(jRedis'.queue) : Stored(i)
      BY <1>0, <2>2 DEF Placed
    <3> QED
      BY <1>0, <2>1, <2>2, <2>3, <2>4, <2>5, <3>1, <3>2 DEF Placed, Stored, Pushing, jTables
  <2>7. NoJobForgotten'
    <3>1. ToSet(jRedis'.processing) = {j} /\ jRedis.processing = <<>>
      BY <1>0, <2>1, <2>3, SingleIds DEF Holding
    <3>2. ToSet(jRedis.queue) \cup ToSet(jRedis.processing)
             = ToSet(jRedis'.queue) \cup ToSet(jRedis'.processing)
      BY <2>2, <3>1, SingleIds
    <3> QED
      BY <1>0, <2>1, <3>2 DEF NoJobForgotten, jTables
  <2>8. /\ jWorker' \in WorkerRow /\ jWorker'.pc = "claimed" /\ jWorker'.job = j
        /\ jWorker'.row = 1 /\ jWorker'.rec = 1
    <3> HIDE DEF j
    <3>1. jWorker' = [pc |-> "claimed", job |-> j, row |-> 1, rec |-> 1]
      BY <2>1 DEF JDown
    <3> QED
      BY <2>2, <3>1 DEF WorkerRow, Busy
  <2>9. JTypes'
    BY <1>0, <2>1, <2>2, <2>8 DEF JTypes, jTables, jFiles
  <2>10. Holding' /\ Recorded'
    BY <2>1, <2>2, <2>3, <2>5, <2>8 DEF Holding, Recorded, Working, Busy, Stored, jTables
  <2>11. Unfailed' /\ Answered' /\ ReviewableArtifactsMatch'
    BY <1>0, <2>1 DEF Unfailed, Answered, Stored, Keyed, ReceiptOf, ReviewableArtifactsMatch,
                      jTables, jFiles
  <2> QED
    BY <2>6, <2>7, <2>9, <2>10, <2>11 DEF JobInv
\* LREM empties the processing list.
<1>r. ASSUME jTables' = jTables, jWorker.pc \in Busy, jRedis' = Released(jRedis, jWorker.job),
             \/ jLost' = jLost /\ jJob[jWorker.job].status \in JTerminal
             \/ jLost' = jLost \cup {jWorker.job}
      PROVE  jRedis' \in Lists(Jobs) /\ jRedis'.processing = <<>> /\ Placed' /\ NoJobForgotten'
  <2> DEFINE j == jWorker.job
  <2>1. Stored(j) /\ j \in Jobs /\ jRedis.processing = <<j>>
    BY <1>0, <1>r DEF Holding, Stored
  <2>2. jRedis' \in Lists(Jobs) /\ jRedis' = [jRedis EXCEPT !.processing = <<>>]
    BY <1>t, <1>r, <2>1, SingleRelease
  <2>3. jRedis'.processing = <<>> /\ jRedis'.queue = jRedis.queue
    BY <1>t, <2>2 DEF Lists
  <2>4. UNCHANGED <<jJob, jReceipt, jExpired, jRequest>>
    BY <1>r DEF jTables
  <2>5. Placed'
    BY <1>0, <2>3, <2>4, SingleIds DEF Placed, Stored, Pushing
  <2>6. NoJobForgotten'
    BY <1>0, <1>r, <2>1, <2>3, <2>4, SingleIds DEF NoJobForgotten, JTerminal
  <2> QED
    BY <2>2, <2>3, <2>5, <2>6
<1>3. CASE Release
  <2>1. /\ jWorker.pc = "settled" /\ jRedis' = Released(jRedis, jWorker.job)
        /\ jWorker' = [JDown EXCEPT !.pc = "waiting"]
        /\ UNCHANGED <<jTables, jFiles, jLost, jFailures>>
    BY <1>3 DEF Release
  <2>2. jRedis' \in Lists(Jobs) /\ jRedis'.processing = <<>> /\ Placed' /\ NoJobForgotten'
    <3>1. jJob[jWorker.job].status \in JTerminal
      BY <1>0, <2>1 DEF Holding
    <3>2. jWorker.pc \in Busy
      BY <2>1 DEF Busy
    <3> QED
      BY <1>r, <2>1, <3>1, <3>2
  <2>3. JTypes'
    BY <1>0, <1>t, <2>1, <2>2 DEF JTypes, jTables, jFiles
  <2> QED
    BY <1>i, <2>1, <2>2, <2>3 DEF JobInv, jFiles
<1>4. CASE RunJobRaises
  <2>1. /\ jWorker.pc \in Busy /\ jRedis' = Released(jRedis, jWorker.job) /\ jWorker' = JDown
        /\ jLost' = jLost \cup {jWorker.job} /\ jFailures' = jFailures + 1
        /\ UNCHANGED <<jTables, jFiles>>
    BY <1>4 DEF RunJobRaises, Busy, Working
  <2>2. jRedis' \in Lists(Jobs) /\ jRedis'.processing = <<>> /\ Placed' /\ NoJobForgotten'
    BY <1>r, <2>1
  <2>3. JTypes'
    BY <1>0, <1>t, <2>1, <2>2 DEF JTypes, jTables, jFiles
  <2> QED
    BY <1>i, <2>1, <2>2, <2>3 DEF JobInv, jFiles
<1>5. CASE Crash
  <2>1. /\ jFailures' = jFailures + 1 /\ jWorker' = JDown
        /\ UNCHANGED <<jTables, jRedis, jObject, jAsset, jLost>>
        /\ jDisk' \in IF jWorker.pc = "write" /\ ~Keeps
                      THEN {jDisk, [jDisk EXCEPT ![jWorker.job][Current.file] = "torn"]}
                      ELSE {jDisk}
    BY <1>5 DEF Crash
  <2>2. jDisk' \in FileTable
    <3>1. jDisk' = jDisk \/ (jWorker.pc = "write"
                             /\ jDisk' = [jDisk EXCEPT ![jWorker.job][Current.file] = "torn"])
      BY <2>1
    <3>2. jWorker.pc = "write" => jWorker.job \in Jobs
      BY <1>0 DEF Holding, Busy, Working, Stored
    <3>3. Current.file \in Files
      BY <1>t, PipelineRows DEF Current, WorkerRow
    <3> QED
      <4>1. jDisk \in FileTable
        BY <1>0 DEF JTypes
      <4>2. jWorker.pc = "write" =>
               Replaced(jDisk, jWorker.job, Current.file, "torn") \in FileTable
        BY <3>2, <3>3, <4>1, FileStep
      <4> QED
        BY <3>1, <4>1, <4>2 DEF Replaced
  <2>3. JTypes'
    BY <1>0, <1>t, <2>1, <2>2 DEF JTypes, jTables
  <2>4. Placed' /\ NoJobForgotten'
    BY <1>0, <2>1 DEF Placed, Stored, Pushing, NoJobForgotten, jTables
  <2> QED
    BY <1>i, <1>d, <2>1, <2>3, <2>4 DEF JobInv
<1> QED
  BY <1>1, <1>2, <1>3, <1>4, <1>5

\* A step of the pipeline may change its job's row, and no other.
LEMMA RowFrame ==
    ASSUME JobInv, jWorker.pc \in Busy, UNCHANGED <<jReceipt, jRequest, jRedis, jLost>>,
           \A i \in Jobs : i # jWorker.job => jJob'[i] = jJob[i],
           jJob'[jWorker.job].status # "none"
    PROVE  Answered' /\ Placed' /\ NoJobForgotten'
<1>0. /\ Answered /\ Placed /\ NoJobForgotten /\ Stored(jWorker.job)
      /\ jRedis.processing = <<jWorker.job>>
  BY DEF JobInv, Holding
<1>1. \A i : Stored(i) => Stored(i)'
  BY DEF Stored
<1>2. Answered'
  <2>1. \A k \in Keys : jReceipt[k] # None => Stored(jReceipt[k])'
    BY <1>0, <1>1 DEF Answered
  <2>2. \A q \in Requests : jRequest[q].job # None => Stored(jRequest[q].job)'
    BY <1>0, <1>1 DEF Answered
  <2> QED
    BY <1>0, <2>1, <2>2 DEF Answered, Stored, Keyed, ReceiptOf
<1>3. Placed'
  <2>1. \A i \in ToSet(jRedis.queue) : Stored(i)'
    BY <1>0, <1>1 DEF Placed
  <2>2. jRedis.processing = <<>>
        \/ \E i \in Jobs : /\ jRedis.processing = <<i>>
                           /\ Stored(i)' /\ i \notin ToSet(jRedis.queue)
    BY <1>0, <1>1 DEF Placed
  <2> QED
    BY <1>0, <2>1, <2>2 DEF Placed, Stored, Pushing
<1>4. NoJobForgotten'
  <2>1. jWorker.job \in ToSet(jRedis.processing)
    BY <1>0, SingleIds
  <2> QED
    BY <1>0, <2>1 DEF NoJobForgotten
<1> QED
  BY <1>2, <1>3, <1>4

\* While a job's pipeline is at work, only its own files change, and what
\* awaits review stays as it was.
LEMMA FilesFrame ==
    ASSUME JobInv, jWorker.pc \in Working,
           \A i \in Jobs : i # jWorker.job => jJob'[i] = jJob[i],
           \A i \in Jobs : i # jWorker.job =>
              jObject'[i] = jObject[i] /\ jAsset'[i] = jAsset[i],
           jJob'[jWorker.job].status # "awaiting_review"
    PROVE  ReviewableArtifactsMatch'
BY DEF JobInv, ReviewableArtifactsMatch

\* What a step of the pipeline relies on.
LEMMA PipelineFacts ==
    ASSUME JobInv, jWorker.pc \in Working
    PROVE  /\ jWorker.job \in Jobs /\ jJob[jWorker.job] \in JobRow
           /\ jJob[jWorker.job].status \in {"queued", "running"}
           /\ jJob[jWorker.job].stage # "failed"
           /\ jWorker.row \in 1 .. 9 /\ jWorker.rec \in 1 .. 2
           /\ jWorker.pc \in Busy
           /\ Current.file \in Files /\ Current.stage \in DOMAIN StageOrder \ {"failed"}
           /\ Current.progress \in 0 .. 100
<1>1. jWorker.pc \in Busy /\ Stored(jWorker.job) /\ jWorker \in WorkerRow /\ jJob \in [Jobs -> JobRow]
      /\ jJob[jWorker.job].status \notin JTerminal /\ Unfailed
  BY DEF JobInv, JTypes, Holding, Busy
<1>2. jWorker.job \in Jobs /\ jJob[jWorker.job] \in JobRow
  BY <1>1 DEF Stored
<1>3. jJob[jWorker.job].status \in {"queued", "running"}
  BY <1>1, <1>2 DEF JobRow, JTerminal, Stored
<1>4. jJob[jWorker.job].stage # "failed"
  BY <1>1, <1>2, <1>3 DEF Unfailed
<1>5. jWorker.row \in 1 .. 9 /\ jWorker.rec \in 1 .. 2
  BY <1>1 DEF WorkerRow
<1> QED
  BY <1>1, <1>2, <1>3, <1>4, <1>5, PipelineRows DEF Current

\* The worker looks at the row, and begins or lets go.
LEMMA BeginKeepsInv == ASSUME JobInv, Begin PROVE JobInv'
<1>0. JTypes /\ Unfailed /\ Holding /\ Recorded /\ ReviewableArtifactsMatch
  BY DEF JobInv
<1>1. /\ jWorker.pc = "claimed" /\ UNCHANGED <<jTables, jRedis, jFiles, jLost, jFailures>>
      /\ jWorker' = [jWorker EXCEPT !.pc =
                        IF jJob[jWorker.job].status \in JTerminal THEN "settled" ELSE "row"]
  BY DEF Begin
<1>2. jWorker.pc \in Busy /\ Stored(jWorker.job) /\ jWorker.row = 1 /\ jWorker.rec = 1
  BY <1>0, <1>1 DEF Holding, Busy
<1>3. /\ jWorker' \in WorkerRow /\ jWorker'.row = 1 /\ jWorker'.rec = 1
      /\ jWorker'.job = jWorker.job
      /\ jWorker'.pc = IF jJob[jWorker.job].status \in JTerminal THEN "settled" ELSE "row"
  BY <1>0, <1>1, <1>2 DEF JTypes, WorkerRow, Busy, Working
<1>4. JTypes' /\ Unfailed'
  BY <1>0, <1>1, <1>3 DEF JTypes, Unfailed, jTables, jFiles
<1>5. Answered' /\ Placed' /\ NoJobForgotten'
  <2>1. UNCHANGED <<jJob, jReceipt, jRequest, jRedis, jLost>>
    BY <1>1 DEF jTables
  <2> QED
    BY <1>2, <2>1, RowFrame DEF Stored
<1>6. Holding'
  BY <1>0, <1>1, <1>2, <1>3 DEF Holding, Stored, Busy, Working, jTables
<1>7. Recorded'
  BY <1>3, RecorderSteps DEF Recorded, StepNo, Working
<1>8. ReviewableArtifactsMatch'
  BY <1>0, <1>1 DEF ReviewableArtifactsMatch, jTables, jFiles
<1> QED
  BY <1>4, <1>5, <1>6, <1>7, <1>8 DEF JobInv

\* The worker's next position after a row.
LEMMA AfterRowPlace ==
    ASSUME jWorker \in WorkerRow, jWorker.pc \in {"row", "write"}, jWorker.rec = 1,
           jWorker' = AfterRow
    PROVE  /\ jWorker' \in WorkerRow /\ jWorker'.job = jWorker.job /\ jWorker'.rec = 1
           /\ \/ jWorker.row = 8 /\ jWorker'.row = 9 /\ jWorker'.pc = "row"
              \/ /\ jWorker.row # 8 /\ jWorker'.row = jWorker.row /\ jWorker'.pc = "store"
                 /\ 1 \in DOMAIN Current.records
<1>1. jWorker.row \in 1 .. 9
  BY DEF WorkerRow
<1>2. CASE jWorker.row = 8
  <2>1. jWorker' = [jWorker EXCEPT !.pc = "row", !.row = 9]
    BY <1>2, PipelineRows DEF AfterRow, Current
  <2>2. jWorker' \in WorkerRow
    <3>1. jWorker' = [pc |-> "row", job |-> jWorker.job, row |-> 9, rec |-> jWorker.rec]
      BY <2>1 DEF WorkerRow
    <3>2. jWorker.job \in Jobs \cup {None} /\ jWorker.rec \in 1 .. 2
      BY DEF WorkerRow
    <3> QED
      BY <3>1, <3>2 DEF WorkerRow, Busy, Working
  <2>3. /\ jWorker'.job = jWorker.job /\ jWorker'.rec = 1 /\ jWorker'.row = 9
        /\ jWorker'.pc = "row"
    BY <2>1 DEF WorkerRow
  <2> QED
    BY <1>2, <2>2, <2>3
<1>3. CASE jWorker.row # 8
  <2>1. Current.records # <<>> /\ 1 \in DOMAIN Current.records
    BY <1>1, <1>3, PipelineRows DEF Current
  <2>2. jWorker' = [jWorker EXCEPT !.pc = "store", !.rec = 1]
    BY <2>1 DEF AfterRow
  <2> QED
    BY <1>3, <2>1, <2>2 DEF WorkerRow, Busy, Working
<1> QED
  BY <1>2, <1>3

\* A row ends with its file there: what a skipped row and a written one share.
LEMMA RowDone ==
    ASSUME JobInv, jWorker.pc \in {"row", "write"}, jWorker' = AfterRow,
           UNCHANGED <<jTables, jRedis, jObject, jAsset, jLost, jFailures>>,
           jDisk' \in FileTable, jDisk'[jWorker.job][Current.file] # None,
           jWorker.row = 9 => jDisk'[jWorker.job]["video"] # None
    PROVE  JobInv'
<1>0. JTypes /\ Unfailed /\ Holding /\ Recorded /\ jWorker \in WorkerRow /\ jWorker.rec = 1
  BY DEF JobInv, JTypes, Holding
<1>1. /\ jWorker' \in WorkerRow /\ jWorker'.job = jWorker.job /\ jWorker'.rec = 1
      /\ \/ jWorker.row = 8 /\ jWorker'.row = 9 /\ jWorker'.pc = "row"
         \/ /\ jWorker.row # 8 /\ jWorker'.row = jWorker.row /\ jWorker'.pc = "store"
            /\ 1 \in DOMAIN Current.records
  BY <1>0, AfterRowPlace
<1>2. jWorker.pc \in Working /\ jWorker.job \in Jobs /\ jWorker.row \in 1 .. 9
      /\ jWorker.pc \in Busy
      /\ jJob[jWorker.job].status \in {"queued", "running"}
  BY PipelineFacts DEF Working
<1>3. UNCHANGED <<jJob, jReceipt, jExpired, jRequest>>
  BY DEF jTables
<1>4. JTypes' /\ Unfailed'
  BY <1>0, <1>1, <1>3 DEF JTypes, Unfailed
<1>5. Answered' /\ Placed' /\ NoJobForgotten'
  BY <1>2, <1>3, RowFrame
<1>6. ReviewableArtifactsMatch'
  BY <1>2, <1>3, FilesFrame
<1>7. Holding'
  BY <1>0, <1>1, <1>2, <1>3 DEF Holding, Stored, Busy, Working, Current
<1>8. Recorded'
  <2>1. \A f \in Files : Recorder[f] < jWorker'.row => Recorder[f] < jWorker.row
    BY <1>1, <1>2, RecorderSteps
  <2>2. /\ jWorker.pc # "finish" /\ StepNo = jWorker.row
        /\ jWorker'.pc # "finish" /\ StepNo' = jWorker'.row
    BY <1>0, <1>1, <1>2 DEF StepNo
  <2>3. \A f \in Files : Recorder[f] < StepNo' => Matches(jWorker.job, f)
    BY <1>0, <1>2, <2>1, <2>2 DEF Recorded
  <2>4. jWorker.row = 8 => Current.file = "video"
    BY PipelineRows DEF Current
  <2>5. jWorker'.row = 9 => jDisk'[jWorker.job]["video"] # None
    BY <1>1, <2>4
  <2>6. jWorker'.pc = "store" => Current' = Current
    BY <1>1 DEF Current
  <2> QED
    BY <1>1, <2>3, <2>5, <2>6 DEF Recorded, Matches
<1> QED
  BY <1>4, <1>5, <1>6, <1>7, <1>8 DEF JobInv

\* A row is skipped, when its file is there.
LEMMA SkipKeepsInv == ASSUME JobInv, Skip PROVE JobInv'
<1>1. /\ jWorker.pc = "row" /\ Current.reuse = "before" /\ Reusable /\ jWorker' = AfterRow
      /\ UNCHANGED <<jTables, jRedis, jDisk, jObject, jAsset, jLost, jFailures>>
  BY DEF Skip, jFiles
<1>2. jDisk \in FileTable /\ jWorker.row \in 1 .. 9
  BY DEF JobInv, JTypes, WorkerRow
<1>3. OnDisk # None
  BY <1>1 DEF Reusable
<1>4. jWorker.row # 9
  BY <1>1, PipelineRows DEF Current, Pipeline, Row
<1> QED
  BY <1>1, <1>2, <1>3, <1>4, RowDone DEF OnDisk

\* The file of a row is made, or kept.
LEMMA WriteKeepsInv == ASSUME JobInv, Write PROVE JobInv'
<1> USE VideoJobConstants
<1>1. /\ jWorker.pc = "write" /\ jWorker' = AfterRow
      /\ UNCHANGED <<jTables, jRedis, jObject, jAsset, jLost, jFailures>>
      /\ \/ Keeps /\ jDisk' = jDisk
         \/ \E c \in Made(Current.file) : jDisk' = [jDisk EXCEPT ![jWorker.job][Current.file] = c]
  BY DEF Write
<1>2. /\ jDisk \in FileTable /\ jWorker.row \in 1 .. 9 /\ jWorker.job \in Jobs
      /\ Current.file \in Files
  BY <1>1, PipelineFacts DEF JobInv, JTypes, WorkerRow, Working
<1>3. jWorker.row = 9 => jDisk[jWorker.job]["video"] # None
  BY <1>1 DEF JobInv, Recorded
<1>4. CASE Keeps /\ jDisk' = jDisk
  <2>1. OnDisk # None
    BY <1>4 DEF Keeps, Reusable
  <2> QED
    BY <1>1, <1>2, <1>3, <1>4, <2>1, RowDone DEF OnDisk
<1>5. ASSUME NEW c \in Made(Current.file),
             jDisk' = [jDisk EXCEPT ![jWorker.job][Current.file] = c]
      PROVE  JobInv'
  <2>1. c \in JContents \cup {None, "fixed", "torn"} /\ c # None
    BY DEF Made
  <2>2. /\ jDisk' \in FileTable /\ jDisk'[jWorker.job][Current.file] = c
        /\ \A g \in Files : g # Current.file =>
              jDisk'[jWorker.job][g] = jDisk[jWorker.job][g]
    <3>1. jDisk' = Replaced(jDisk, jWorker.job, Current.file, c)
      BY <1>5 DEF Replaced
    <3> QED
      BY <1>2, <2>1, <3>1, FileStep
  <2>3. jWorker.row = 9 => Current.file # "video" /\ "video" \in Files
    BY <1>2, PipelineRows DEF Current
  <2> QED
    BY <1>1, <1>3, <2>1, <2>2, <2>3, RowDone
<1> QED
  BY <1>1, <1>4, <1>5

\* What a row becomes when it advances.
LEMMA AdvancedRow ==
    ASSUME NEW row \in JobRow, NEW stage \in DOMAIN StageOrder, NEW progress \in 0 .. 100
    PROVE  /\ Advanced(row, stage, progress) \in JobRow
           /\ Advanced(row, stage, progress) # row =>
                 /\ Advanced(row, stage, progress).status = "running"
                 /\ Advanced(row, stage, progress).stage = stage
           /\ row.status \in JTerminal => Advanced(row, stage, progress) = row
           /\ Advanced(row, stage, progress).progress >= row.progress
           /\ StageOrder[Advanced(row, stage, progress).stage] >= StageOrder[row.stage]
<1>1. row.stage \in DOMAIN StageOrder /\ row.progress \in 0 .. 100
  BY DEF JobRow
<1>2. \A s \in DOMAIN StageOrder : StageOrder[s] \in Nat
  BY DEF StageOrder
<1> QED
  BY <1>1, <1>2 DEF Advanced, JobRow

\* The row of the table follows the pipeline.
LEMMA AdvanceKeepsInv == ASSUME JobInv, Advance PROVE JobInv'
<1> USE VideoJobConstants
<1> DEFINE j == jWorker.job
<1>0. JTypes /\ Unfailed /\ Holding /\ Recorded /\ jWorker \in WorkerRow
  BY DEF JobInv, JTypes
<1>1. /\ jWorker.pc = "row" /\ jWorker' = [jWorker EXCEPT !.pc = "write"]
      /\ jJob' = IF Current.file = "request" THEN jJob
                 ELSE [jJob EXCEPT ![j] = Advanced(@, Current.stage, Current.progress)]
      /\ jDisk' = IF Current.file = "video" THEN [jDisk EXCEPT ![j]["video"] = None] ELSE jDisk
      /\ UNCHANGED <<jReceipt, jExpired, jRequest, jRedis, jObject, jAsset, jLost, jFailures>>
  BY DEF Advance
<1>2. /\ j \in Jobs /\ jJob[j] \in JobRow /\ jJob[j].status \in {"queued", "running"}
      /\ jJob[j].stage # "failed" /\ jWorker.row \in 1 .. 9 /\ jWorker.pc \in Busy
      /\ Current.stage \in DOMAIN StageOrder \ {"failed"} /\ Current.progress \in 0 .. 100
      /\ jWorker.pc \in Working
  BY <1>1, PipelineFacts DEF Working
<1>3. /\ jWorker' \in WorkerRow /\ jWorker'.pc = "write" /\ jWorker'.job = j
      /\ jWorker'.row = jWorker.row /\ jWorker'.rec = jWorker.rec
  BY <1>0, <1>1 DEF WorkerRow, Busy, Working
<1>4. /\ jJob' \in [Jobs -> JobRow] /\ \A i \in Jobs : i # j => jJob'[i] = jJob[i]
      /\ jJob'[j].status \in {"queued", "running"} /\ jJob'[j].stage # "failed"
  <2>1. CASE Current.file = "request"
    BY <1>0, <1>1, <1>2, <2>1 DEF JTypes
  <2>2. CASE Current.file # "request"
    <3> DEFINE next == Advanced(jJob[j], Current.stage, Current.progress)
    <3>1. next \in JobRow /\ next.status \in {"queued", "running"} /\ next.stage # "failed"
      <4>1. next = Advanced(jJob[j], Current.stage, Current.progress)
        OBVIOUS
      <4> HIDE DEF next
      <4>2. /\ next \in JobRow
            /\ next = jJob[j] \/ (next.status = "running" /\ next.stage = Current.stage)
        <5>1. /\ jJob[j] \in JobRow /\ Current.stage \in DOMAIN StageOrder
              /\ Current.progress \in 0 .. 100
          BY <1>2
        <5> DEFINE up == Advanced(jJob[j], Current.stage, Current.progress)
        <5>2. up \in JobRow /\ (up = jJob[j] \/ (up.status = "running" /\ up.stage = Current.stage))
          <6>3. up \in JobRow
            BY <5>1, AdvancedRow
          <6> DEFINE row == jJob[j]
          <6>4. row \in JobRow
            BY <5>1
          <6>5. \/ Advanced(row, Current.stage, Current.progress) = row
                \/ /\ Advanced(row, Current.stage, Current.progress).status = "running"
                   /\ Advanced(row, Current.stage, Current.progress).stage = Current.stage
            <7> HIDE DEF row
            <7> QED
              BY <6>4 DEF Advanced, JobRow
          <6> QED
            BY <6>3, <6>4, <6>5
        <5>3. next = up
          BY <4>1
        <5> HIDE DEF up
        <5> QED
          BY <5>2, <5>3
      <4> QED
        BY <1>2, <4>2
    <3>2. jJob' = [jJob EXCEPT ![j] = next]
      BY <1>1, <2>2
    <3> HIDE DEF next
    <3> QED
      BY <1>0, <1>2, <3>1, <3>2 DEF JTypes
  <2> QED
    BY <2>1, <2>2
<1>5. jDisk' \in FileTable
  <2>1. "video" \in Files /\ jDisk \in FileTable
    BY <1>0, PipelineRows DEF JTypes
  <2>2. Replaced(jDisk, j, "video", None) \in FileTable
    BY <1>2, <2>1, FileStep
  <2> QED
    BY <1>1, <2>1, <2>2 DEF Replaced
<1>6. JTypes' /\ Unfailed'
  <2>1. Unfailed'
    BY <1>0, <1>4 DEF Unfailed
  <2> QED
    BY <1>0, <1>1, <1>3, <1>4, <1>5, <2>1 DEF JTypes
<1>7. Answered' /\ Placed' /\ NoJobForgotten'
  BY <1>1, <1>2, <1>4, RowFrame
<1>8. ReviewableArtifactsMatch'
  BY <1>1, <1>2, <1>4, FilesFrame
<1>9. Holding'
  BY <1>0, <1>1, <1>2, <1>3, <1>4 DEF Holding, Stored, Busy, Working, JTerminal
<1>10. Recorded'
  <2>1. jWorker.row = 9 => jDisk' = jDisk
    BY <1>1, <1>2, PipelineRows DEF Current
  <2>2. StepNo' = StepNo
    BY <1>1, <1>3 DEF StepNo
  <2> QED
    BY <1>0, <1>1, <1>2, <1>3, <2>1, <2>2 DEF Recorded, Matches
<1> QED
  BY <1>6, <1>7, <1>8, <1>9, <1>10 DEF JobInv

\* put_file.
LEMMA PutKeepsInv == ASSUME JobInv, PutFile PROVE JobInv'
<1> DEFINE j == jWorker.job
<1>0. JTypes /\ Unfailed /\ Holding /\ Recorded /\ jWorker \in WorkerRow
  BY DEF JobInv, JTypes
<1>1. /\ jWorker.pc = "store" /\ jWorker' = [jWorker EXCEPT !.pc = "record"]
      /\ jObject' = [jObject EXCEPT ![j][Recording] = jDisk[j][Recording]]
      /\ UNCHANGED <<jTables, jRedis, jDisk, jAsset, jLost, jFailures>>
      /\ UNCHANGED <<jJob, jReceipt, jExpired, jRequest>>
  BY DEF PutFile, jTables
<1>2. /\ j \in Jobs /\ jJob[j].status \in {"queued", "running"}
      /\ jWorker.row \in 1 .. 9 /\ jWorker.rec \in 1 .. 2
      /\ jWorker.pc \in Busy /\ jWorker.pc \in Working
  BY <1>1, PipelineFacts DEF Working
<1>3. /\ jWorker' \in WorkerRow /\ jWorker'.pc = "record" /\ jWorker'.job = j
      /\ jWorker'.row = jWorker.row /\ jWorker'.rec = jWorker.rec
  BY <1>0, <1>1 DEF WorkerRow, Busy, Working
<1>4. /\ jWorker.rec \in DOMAIN Current.records /\ Recording \in Files
      /\ Recorder[Recording] = jWorker.row + jWorker.rec - 1
  BY <1>0, <1>1, RecordingStep DEF Holding
<1>5. /\ jObject' \in FileTable /\ jObject'[j][Recording] = jDisk[j][Recording]
      /\ \A i \in Jobs, g \in Files : i # j \/ g # Recording => jObject'[i][g] = jObject[i][g]
  <2>1. jObject \in FileTable /\ jDisk[j][Recording] \in JContents \cup {None, "fixed", "torn"}
    BY <1>0, <1>2, <1>4 DEF JTypes, FileTable
  <2>2. jObject' = Replaced(jObject, j, Recording, jDisk[j][Recording])
    BY <1>1 DEF Replaced
  <2> QED
    BY <1>2, <1>4, <2>1, <2>2, FileStep
<1>6. JTypes' /\ Unfailed'
  BY <1>0, <1>1, <1>3, <1>5 DEF JTypes, Unfailed
<1>7. Answered' /\ Placed' /\ NoJobForgotten'
  BY <1>1, <1>2, RowFrame
<1>8. ReviewableArtifactsMatch'
  <2>1. \A i \in Jobs : jJob[i].status = "awaiting_review" => i # j
    BY <1>2
  <2> QED
    BY <1>1, <1>5, <2>1 DEF JobInv, ReviewableArtifactsMatch
<1>9. Holding'
  BY <1>0, <1>1, <1>2, <1>3, <1>4 DEF Holding, Stored, Busy, Working, Current
<1>10. Recorded'
  <2>1. StepNo' = StepNo /\ StepNo = Recorder[Recording]
    BY <1>1, <1>3, <1>4 DEF StepNo
  <2>2. Recorder[Recording] \in Nat
    BY <1>4, RecorderSteps
  <2>3. \A f \in Files : Recorder[f] < StepNo => f # Recording
    BY <2>1, <2>2
  <2>4. \A f \in Files : Recorder[f] < StepNo' => Matches(j, f)'
    BY <1>0, <1>1, <1>2, <1>3, <1>5, <2>1, <2>3 DEF Recorded, Matches
  <2>5. Recording' = Recording /\ Current' = Current
    BY <1>3 DEF Recording, Current
  <2> QED
    BY <1>0, <1>1, <1>2, <1>3, <1>5, <2>4, <2>5 DEF Recorded, Matches
<1> QED
  BY <1>6, <1>7, <1>8, <1>9, <1>10 DEF JobInv

\* The worker's next position after an artifact is recorded.
LEMMA AfterRecordPlace ==
    ASSUME jWorker \in WorkerRow, jWorker.pc = "record", jWorker.rec \in DOMAIN Current.records,
           jWorker' = AfterRecord
    PROVE  /\ jWorker' \in WorkerRow /\ jWorker'.job = jWorker.job
           /\ \A f \in Files : Recorder[f] < StepNo' => f = Recording \/ Recorder[f] < StepNo
           /\ \/ /\ jWorker.row = 9 /\ jWorker.rec = 1 /\ jWorker'.pc = "store"
                 /\ jWorker'.row = 9 /\ jWorker'.rec = 2
              \/ jWorker.row = 9 /\ jWorker'.pc = "finish" /\ jWorker'.row = 9
              \/ /\ jWorker.row \in 1 .. 7 /\ jWorker'.pc = "row"
                 /\ jWorker'.row = jWorker.row + 1 /\ jWorker'.rec = 1
<1>1. /\ jWorker.row \in 1 .. 9 /\ jWorker.rec \in 1 .. 2 /\ jWorker.row # 8
      /\ jWorker.row <= 7 => jWorker.rec = 1 /\ Len(Current.records) = 1
      /\ jWorker.row = 9 => Len(Current.records) = 2
      /\ Recording \in Files /\ Recorder[Recording] = jWorker.row + jWorker.rec - 1
      /\ jWorker.job \in Jobs \cup {None}
  BY RecordingStep DEF WorkerRow
<1>2. CASE jWorker.row = 9 /\ jWorker.rec = 1
  <2>l. Len(Current.records) = 2
    BY <1>1, <1>2
  <2>0. jWorker.rec < Len(Current.records)
    BY <1>2, <2>l
  <2>1. jWorker' = [jWorker EXCEPT !.pc = "store", !.rec = @ + 1]
    BY <2>0 DEF AfterRecord
  <2>2. jWorker' = [pc |-> "store", job |-> jWorker.job, row |-> 9, rec |-> 2]
    <3>1. jWorker.rec + 1 = 2
      BY <1>2
    <3> QED
      BY <1>2, <2>1, <3>1 DEF WorkerRow
  <2>3. StepNo' = 10 /\ StepNo = 9
    BY <1>2, <2>2 DEF StepNo
  <2>4. \A f \in Files : Recorder[f] < 10 => f = Recording \/ Recorder[f] < 9
    BY <1>1, <1>2, RecorderSteps
  <2> QED
    BY <1>1, <1>2, <2>2, <2>3, <2>4 DEF WorkerRow, Busy, Working
<1>3. CASE jWorker.row = 9 /\ jWorker.rec = 2
  <2>l. Len(Current.records) = 2 /\ Len(Pipeline) = 9
    BY <1>1, <1>3, PipelineRows
  <2>0. ~(jWorker.rec < Len(Current.records)) /\ ~(jWorker.row < Len(Pipeline))
    BY <1>3, <2>l
  <2>1. jWorker' = [jWorker EXCEPT !.pc = "finish"]
    BY <2>0 DEF AfterRecord
  <2>2. jWorker' = [pc |-> "finish", job |-> jWorker.job, row |-> 9, rec |-> 2]
    BY <1>3, <2>1 DEF WorkerRow
  <2>3. StepNo' = 11 /\ StepNo = 10
    BY <1>3, <2>2 DEF StepNo
  <2>4. \A f \in Files : f = Recording \/ Recorder[f] < 10
    BY <1>1, <1>3, RecorderSteps
  <2> QED
    BY <1>1, <1>3, <2>2, <2>3, <2>4 DEF WorkerRow, Busy, Working
<1>4. CASE jWorker.row \in 1 .. 7
  <2>l. Len(Current.records) = 1 /\ Len(Pipeline) = 9 /\ jWorker.rec = 1
    BY <1>1, <1>4, PipelineRows
  <2>0. ~(jWorker.rec < Len(Current.records)) /\ jWorker.row < Len(Pipeline)
    BY <1>4, <2>l
  <2>1. jWorker' = [jWorker EXCEPT !.pc = "row", !.row = @ + 1, !.rec = 1]
    BY <2>0 DEF AfterRecord
  <2>2. jWorker' = [pc |-> "row", job |-> jWorker.job, row |-> jWorker.row + 1, rec |-> 1]
    BY <2>1 DEF WorkerRow
  <2>3. StepNo' = jWorker.row + 1 /\ StepNo = jWorker.row
    BY <1>1, <1>4, <2>2 DEF StepNo
  <2>4. \A f \in Files : Recorder[f] < jWorker.row + 1 => f = Recording \/ Recorder[f] < jWorker.row
    BY <1>1, <1>4, RecorderSteps
  <2>5. jWorker' \in WorkerRow
    BY <1>1, <1>4, <2>2 DEF WorkerRow, Busy, Working
  <2> QED
    BY <1>1, <1>4, <2>2, <2>3, <2>4, <2>5
<1> QED
  BY <1>1, <1>2, <1>3, <1>4

\* add_artifact.
LEMMA RecordKeepsInv == ASSUME JobInv, AddArtifact PROVE JobInv'
<1> USE VideoJobConstants
<1> DEFINE j == jWorker.job
<1>0. JTypes /\ Unfailed /\ Holding /\ Recorded /\ jWorker \in WorkerRow
  BY DEF JobInv, JTypes
<1>1. /\ jWorker.pc = "record" /\ jWorker' = AfterRecord
      /\ jAsset' = [jAsset EXCEPT ![j][Recording] = jDisk[j][Recording]]
      /\ UNCHANGED <<jTables, jRedis, jDisk, jObject, jLost, jFailures>>
      /\ UNCHANGED <<jJob, jReceipt, jExpired, jRequest>>
  BY DEF AddArtifact, jTables
<1>2. /\ j \in Jobs /\ jJob[j].status \in {"queued", "running"}
      /\ jWorker.row \in 1 .. 9 /\ jWorker.rec \in 1 .. 2
      /\ jWorker.pc \in Busy /\ jWorker.pc \in Working
  BY <1>1, PipelineFacts DEF Working
<1>3. jWorker.rec \in DOMAIN Current.records
  BY <1>0, <1>1 DEF Holding
<1>4. /\ Recording \in Files
      /\ Recording = IF jWorker.row = 9 /\ jWorker.rec = 1 THEN "video" ELSE Current.file
  BY <1>0, <1>3, RecordingStep
<1>5. /\ jWorker' \in WorkerRow /\ jWorker'.job = j
      /\ \A f \in Files : Recorder[f] < StepNo' => f = Recording \/ Recorder[f] < StepNo
      /\ \/ /\ jWorker.row = 9 /\ jWorker.rec = 1 /\ jWorker'.pc = "store"
            /\ jWorker'.row = 9 /\ jWorker'.rec = 2
         \/ jWorker.row = 9 /\ jWorker'.pc = "finish" /\ jWorker'.row = 9
         \/ /\ jWorker.row \in 1 .. 7 /\ jWorker'.pc = "row"
            /\ jWorker'.row = jWorker.row + 1 /\ jWorker'.rec = 1
  BY <1>0, <1>1, <1>3, AfterRecordPlace
<1>6. jDisk[j][Recording] # None /\ jObject[j][Recording] = jDisk[j][Recording]
  BY <1>0, <1>1, <1>4 DEF Recorded
<1>7. /\ jAsset' \in FileTable /\ jAsset'[j][Recording] = jDisk[j][Recording]
      /\ \A i \in Jobs, g \in Files : i # j \/ g # Recording => jAsset'[i][g] = jAsset[i][g]
  <2>1. jAsset \in FileTable /\ jDisk[j][Recording] \in JContents \cup {None, "fixed", "torn"}
    BY <1>0, <1>2, <1>4 DEF JTypes, FileTable
  <2>2. jAsset' = Replaced(jAsset, j, Recording, jDisk[j][Recording])
    BY <1>1 DEF Replaced
  <2> QED
    BY <1>2, <1>4, <2>1, <2>2, FileStep
<1>8. JTypes' /\ Unfailed'
  BY <1>0, <1>1, <1>5, <1>7 DEF JTypes, Unfailed
<1>9. Answered' /\ Placed' /\ NoJobForgotten'
  BY <1>1, <1>2, RowFrame
<1>10. ReviewableArtifactsMatch'
  <2>1. \A i \in Jobs : jJob[i].status = "awaiting_review" => i # j
    BY <1>2
  <2> QED
    BY <1>1, <1>7, <2>1 DEF JobInv, ReviewableArtifactsMatch
<1>11. Holding'
  <2>1. jWorker'.pc = "store" => jWorker'.rec \in DOMAIN Current'.records
    <3>1. Pipeline[9].records = <<"video", "qc">>
      BY PipelineRows
    <3> QED
      BY <1>5, <3>1 DEF Current
  <2> QED
    BY <1>0, <1>1, <1>2, <1>5, <2>1 DEF Holding, Stored, Busy, Working, JTerminal
<1>12. Recorded'
  <2>1. \A f \in Files : Recorder[f] < StepNo =>
           jAsset[j][f] # None /\ jObject[j][f] = jAsset[j][f]
    BY <1>0, <1>2 DEF Recorded, Matches
  <2>2. \A f \in Files : Recorder[f] < StepNo' =>
           jAsset'[j][f] # None /\ jObject'[j][f] = jAsset'[j][f]
    <3> SUFFICES ASSUME NEW f \in Files, Recorder[f] < StepNo'
                 PROVE  jAsset'[j][f] # None /\ jObject'[j][f] = jAsset'[j][f]
      OBVIOUS
    <3>1. CASE f = Recording
      BY <1>1, <1>6, <1>7, <3>1
    <3>2. CASE f # Recording
      <4>1. Recorder[f] < StepNo
        BY <1>5, <3>2
      <4>2. jAsset'[j][f] = jAsset[j][f]
        BY <1>2, <1>7, <3>2
      <4> QED
        BY <1>1, <2>1, <4>1, <4>2
    <3> QED
      BY <3>1, <3>2
  <2>3. jWorker'.pc = "store" => jDisk[j][Current'.file] # None
    <3>1. jWorker'.pc = "store" => Current' = Current
      BY <1>5 DEF Current
    <3> QED
      BY <1>0, <1>1, <3>1 DEF Recorded
  <2>4. jWorker'.row = 9 => jDisk[j]["video"] # None
    <3>1. jWorker'.row = 9 => jWorker.row = 9
      BY <1>5
    <3> QED
      BY <1>0, <1>1, <3>1 DEF Recorded
  <2>5. jWorker'.pc # "record"
    BY <1>5
  <2> QED
    BY <1>1, <1>5, <2>2, <2>3, <2>4, <2>5 DEF Recorded, Matches
<1> QED
  BY <1>8, <1>9, <1>10, <1>11, <1>12 DEF JobInv

\* The last write of the pipeline, or a failure of any of its steps.
LEMMA EndKeepsInv == ASSUME JobInv, Finish \/ ChecksumConflict \/ StepFails PROVE JobInv'
<1> DEFINE j == jWorker.job
<1>0. JTypes /\ Unfailed /\ Holding /\ Recorded /\ jWorker \in WorkerRow
  BY DEF JobInv, JTypes
<1>1. /\ jWorker.pc \in Working /\ jWorker' = [jWorker EXCEPT !.pc = "settled"]
      /\ \/ /\ jWorker.pc = "finish"
            /\ jJob' = [jJob EXCEPT ![j] = [status |-> "awaiting_review",
                                            stage |-> "awaiting_review", progress |-> 100]]
         \/ jJob' = [jJob EXCEPT ![j].status = "failed", ![j].stage = "failed"]
      /\ UNCHANGED <<jReceipt, jExpired, jRequest, jRedis, jDisk, jObject, jAsset,
                     jLost, jFailures>>
  BY DEF Finish, ChecksumConflict, StepFails, FailJob, Working, jFiles
<1>2. /\ j \in Jobs /\ jJob[j] \in JobRow /\ jJob[j].status \in {"queued", "running"}
      /\ jWorker.row \in 1 .. 9 /\ jWorker.rec \in 1 .. 2 /\ jWorker.pc \in Busy
  BY <1>1, PipelineFacts
<1>3. /\ jWorker' \in WorkerRow /\ jWorker'.pc = "settled" /\ jWorker'.job = j
      /\ jWorker'.row = jWorker.row /\ jWorker'.rec = jWorker.rec
  BY <1>0, <1>1 DEF WorkerRow, Busy
<1>4. /\ jJob' \in [Jobs -> JobRow] /\ \A i \in Jobs : i # j => jJob'[i] = jJob[i]
      /\ jJob'[j].status \in JTerminal
      /\ jJob'[j].stage = "failed" => jJob'[j].status = "failed"
      /\ jJob'[j].status = "awaiting_review" => jWorker.pc = "finish"
  <2>1. CASE jJob' = [jJob EXCEPT ![j] = [status |-> "awaiting_review",
                                          stage |-> "awaiting_review", progress |-> 100]]
             /\ jWorker.pc = "finish"
    <3>1. [status |-> "awaiting_review", stage |-> "awaiting_review", progress |-> 100] \in JobRow
      BY DEF JobRow, JTerminal, StageOrder
    <3> QED
      BY <1>0, <1>2, <2>1, <3>1 DEF JTypes, JTerminal
  <2>2. CASE jJob' = [jJob EXCEPT ![j].status = "failed", ![j].stage = "failed"]
    <3> DEFINE row == [jJob[j] EXCEPT !.status = "failed", !.stage = "failed"]
    <3>1. row \in JobRow /\ row.status = "failed"
      BY <1>2 DEF JobRow, JTerminal, StageOrder
    <3>2. jJob' = [jJob EXCEPT ![j] = row]
      BY <1>0, <1>2, <2>2 DEF JTypes, JobRow
    <3> HIDE DEF row
    <3> QED
      BY <1>0, <1>2, <3>1, <3>2 DEF JTypes, JTerminal
  <2> QED
    BY <1>1, <2>1, <2>2
<1>5. JTypes' /\ Unfailed'
  <2>1. Unfailed'
    BY <1>0, <1>4 DEF Unfailed
  <2> QED
    BY <1>0, <1>1, <1>3, <1>4, <2>1 DEF JTypes
<1>6. Answered' /\ Placed' /\ NoJobForgotten'
  BY <1>1, <1>2, <1>4, RowFrame DEF JTerminal
<1>7. ReviewableArtifactsMatch'
  <2>1. jWorker.pc = "finish" => \A f \in Files : Matches(j, f)
    BY <1>0, <1>1, RecorderSteps DEF Recorded, StepNo
  <2>2. \A i \in Jobs : i # j => (jJob'[i].status = "awaiting_review" =>
           \A f \in Files : jAsset'[i][f] # None /\ jObject'[i][f] = jAsset'[i][f])
    BY <1>1, <1>4 DEF JobInv, ReviewableArtifactsMatch
  <2>3. jJob'[j].status = "awaiting_review" =>
           \A f \in Files : jAsset'[j][f] # None /\ jObject'[j][f] = jAsset'[j][f]
    BY <1>1, <1>4, <2>1 DEF Matches
  <2> QED
    BY <2>2, <2>3 DEF ReviewableArtifactsMatch
<1>8. Holding'
  BY <1>0, <1>1, <1>2, <1>3, <1>4 DEF Holding, Stored, Busy, Working, JTerminal
<1>9. Recorded'
  BY <1>3 DEF Recorded, Working
<1> QED
  BY <1>5, <1>6, <1>7, <1>8, <1>9 DEF JobInv

\* Every step keeps the invariant.
LEMMA JobNextInv == JobInv /\ [JNext]_jVars => JobInv'
<1> SUFFICES ASSUME JobInv, [JNext]_jVars PROVE JobInv'
  OBVIOUS
<1>1. CASE UNCHANGED jVars
  BY <1>1 DEF jVars, JobInv, JTypes, Unfailed, Answered, Placed, Holding, Recorded, Stored,
              Keyed, ReceiptOf, Pushing, Current, Recording, Matches, StepNo,
              ReviewableArtifactsMatch, NoJobForgotten
<1>2. CASE JNext
  BY <1>2, ApiKeepsInv, DeliveryKeepsInv, BeginKeepsInv, SkipKeepsInv, WriteKeepsInv,
     AdvanceKeepsInv, PutKeepsInv, RecordKeepsInv, EndKeepsInv DEF JNext, Api, Run
<1> QED
  BY <1>1, <1>2

\* The invariant holds in every reachable state.
LEMMA JobInvariant == JSpec => []JobInv
<1> QED
  BY JobInitInv, JobNextInv, PTL DEF JSpec

-----------------------------------------------------------------------------
(* Video jobs: the theorems.                                               *)

\* Rows, lists and files keep their types.
THEOREM VideoJobTypes == JSpec => []JTypeOK
<1>1. JobInv => JTypeOK
  <2> SUFFICES ASSUME JTypes PROVE JTypeOK
    BY DEF JobInv
  <2>1. jWorker.row \in DOMAIN Pipeline
    BY PipelineRows DEF JTypes, WorkerRow
  <2>2. \A t \in {jDisk, jObject, jAsset} : t \in FileTable
    BY DEF JTypes
  <2> QED
    BY <2>1, <2>2 DEF JTypes, JTypeOK, JobRow, RequestRow, Lists, FileTable
<1> QED
  BY <1>1, JobInvariant, PTL

\* Requests that carry the same Idempotency-Key are answered with the same
\* job, however they overlap and whenever the key expires (job_store.py, create).
THEOREM OneJobForOneKey == JSpec => []SameKeySameJob
<1>1. JobInv => SameKeySameJob
  BY DEF JobInv, Answered, SameKeySameJob, Keyed, ReceiptOf
<1> QED
  BY <1>1, JobInvariant, PTL

\* No job is in Redis twice, and none that is still to be pushed is there
\* (npd_worker/main.py, the video queue's lists).
THEOREM JobsAreDeliveredOnce == JSpec => []DeliveredOnce
<1>1. JobInv => DeliveredOnce
  <2> SUFFICES ASSUME JobInv PROVE DeliveredOnce
    OBVIOUS
  <2>0. Placed /\ jRedis.queue \in Seq(Jobs) /\ jRedis.processing \in Seq(Jobs)
    BY DEF JobInv, JTypes, Lists
  <2> DEFINE held == jRedis.queue \o jRedis.processing
  <2>1. ToSet(held) = ToSet(jRedis.queue) \cup ToSet(jRedis.processing)
    BY <2>0, ConcatIds
  <2>2. IsInjective(held)
    <3>1. CASE jRedis.processing = <<>>
      <4>1. jRedis.queue \o <<>> = jRedis.queue
        BY <2>0
      <4> QED
        BY <2>0, <3>1, <4>1 DEF Placed
    <3>2. ASSUME NEW j \in Jobs, jRedis.processing = <<j>>, j \notin ToSet(jRedis.queue)
          PROVE  IsInjective(held)
      <4>1. jRedis.queue \o <<j>> = Append(jRedis.queue, j)
        BY <2>0
      <4> QED
        BY <2>0, <3>2, <4>1, PushInjective DEF Placed
    <3> QED
      BY <2>0, <3>1, <3>2 DEF Placed
  <2> QED
    BY <2>0, <2>1, <2>2 DEF DeliveredOnce, Placed, Pushing
<1> QED
  BY <1>1, JobInvariant, PTL

\* The stored objects of a job that awaits review are those recorded, whatever
\* crashes and re-runs wrote under the same keys (run_job, register_artifact).
THEOREM ReviewableJobsMatch == JSpec => []ReviewableArtifactsMatch
<1>1. JobInv => ReviewableArtifactsMatch
  BY DEF JobInv
<1> QED
  BY <1>1, JobInvariant, PTL

\* A stored, unfinished job is on its way, or one of the known drops.
THEOREM JobsRemembered == JSpec => []NoJobForgotten
<1>1. JobInv => NoJobForgotten
  BY DEF JobInv
<1> QED
  BY <1>1, JobInvariant, PTL

\* No step takes a job back: its progress and its stage never decrease, and a
\* job that ended stays as it ended (advance, finish and fail of the job store).
THEOREM JobsNeverStepBack == JSpec => JobsMoveForward
<1> DEFINE Forward == \A j \in Jobs :
        /\ jJob'[j].progress >= jJob[j].progress
        /\ StageOrder[jJob'[j].stage] >= StageOrder[jJob[j].stage]
        /\ jJob[j].status \in JTerminal => jJob'[j] = jJob[j]
<1>1. JobInv /\ [JNext]_jVars => [Forward]_jVars
  <2> SUFFICES ASSUME JobInv, [JNext]_jVars PROVE Forward
    OBVIOUS
  <2>0. /\ jJob \in [Jobs -> JobRow] /\ Unfailed
        /\ \A i \in Jobs : jJob[i].progress \in 0 .. 100 /\ jJob[i].stage \in DOMAIN StageOrder
        /\ \A s \in DOMAIN StageOrder : StageOrder[s] \in 0 .. 1000
        /\ \A s \in DOMAIN StageOrder : s # "failed" => StageOrder[s] \in 0 .. 100
        /\ StageOrder["awaiting_review"] = 100 /\ StageOrder["failed"] = 1000
    BY DEF JobInv, JTypes, JobRow, StageOrder
  <2>r. \A k \in Jobs : /\ jJob[k].progress \in 0 .. 100
                        /\ StageOrder[jJob[k].stage] \in 0 .. 1000
                        /\ jJob[k].progress >= jJob[k].progress
                        /\ StageOrder[jJob[k].stage] >= StageOrder[jJob[k].stage]
    BY <2>0
  <2>q. \A k \in Jobs : jJob[k].stage # "failed" => StageOrder[jJob[k].stage] \in 0 .. 100
    <3> SUFFICES ASSUME NEW k \in Jobs, jJob[k].stage # "failed"
                 PROVE  StageOrder[jJob[k].stage] \in 0 .. 100
      OBVIOUS
    <3> DEFINE s == jJob[k].stage
    <3>1. s \in DOMAIN StageOrder /\ s # "failed"
      BY <2>0
    <3> HIDE DEF s
    <3>2. StageOrder[s] \in 0 .. 100
      BY <2>0, <3>1
    <3> QED
      BY <3>2 DEF s
  <2>1. CASE jJob' = jJob
    BY <2>r, <2>1
  <2>2. ASSUME NEW i \in Jobs, \A k \in Jobs : k # i => jJob'[k] = jJob[k],
               jJob'[i].progress >= jJob[i].progress,
               StageOrder[jJob'[i].stage] >= StageOrder[jJob[i].stage],
               jJob[i].status \notin JTerminal
        PROVE  Forward
    BY <2>r, <2>2
  <2>3. ASSUME NEW q \in Requests, Insert(q) PROVE Forward
    <3>1. CASE UNCHANGED jJob
      BY <2>1, <3>1
    <3>2. ASSUME NEW i \in Jobs, InsertFresh(q, i) PROVE Forward
      <4>1. /\ jJob'[i].progress = jJob[i].progress /\ jJob'[i].stage = jJob[i].stage
            /\ \A k \in Jobs : k # i => jJob'[k] = jJob[k]
            /\ jJob[i].status = "none"
        BY <2>0, <3>2 DEF InsertFresh, JobRow
      <4>2. jJob'[i].progress >= jJob[i].progress
            /\ StageOrder[jJob'[i].stage] >= StageOrder[jJob[i].stage]
            /\ jJob[i].status \notin JTerminal
        BY <2>r, <4>1 DEF JTerminal
      <4> HIDE DEF Forward
      <4> QED
        BY <2>2, <4>1, <4>2
    <3> QED
      BY <2>3, <3>1, <3>2 DEF Insert
  <2> DEFINE i == jWorker.job
  <2>4. jWorker.pc \in Working =>
           /\ i \in Jobs /\ jJob[i] \in JobRow /\ jJob[i].status \notin JTerminal
           /\ jJob[i].stage # "failed"
           /\ Current.stage \in DOMAIN StageOrder /\ Current.progress \in 0 .. 100
    BY PipelineFacts DEF JTerminal
  <2>i. jWorker.pc \in Working =>
           /\ jJob[i].progress \in 0 .. 100 /\ jJob[i].progress >= jJob[i].progress
           /\ StageOrder[jJob[i].stage] \in 0 .. 100
    <3> SUFFICES ASSUME jWorker.pc \in Working PROVE
           /\ jJob[i].progress \in 0 .. 100 /\ jJob[i].progress >= jJob[i].progress
           /\ StageOrder[jJob[i].stage] \in 0 .. 100
      OBVIOUS
    <3>1. i \in Jobs /\ jJob[i].stage # "failed"
      BY <2>4
    <3> HIDE DEF i
    <3>4. StageOrder[jJob[i].stage] \in 0 .. 100
      BY <2>q, <3>1
    <3> QED
      BY <2>r, <3>1, <3>4
  <2>5. CASE Advance
    <3>1. jWorker.pc \in Working
      BY <2>5 DEF Advance, Working
    <3>2. CASE Current.file = "request"
      BY <2>1, <2>5, <3>2 DEF Advance
    <3>3. CASE Current.file # "request"
      <4> DEFINE next == Advanced(jJob[i], Current.stage, Current.progress)
      <4>1. next = Advanced(jJob[i], Current.stage, Current.progress)
        OBVIOUS
      <4>2. jJob' = [jJob EXCEPT ![i] = next]
        BY <2>5, <3>3 DEF Advance
      <4> HIDE DEF next
      <4>3. /\ next.progress >= jJob[i].progress
            /\ StageOrder[next.stage] >= StageOrder[jJob[i].stage]
        BY <2>4, <3>1, <4>1, AdvancedRow
      <4>4. jJob'[i] = next /\ \A k \in Jobs : k # i => jJob'[k] = jJob[k]
        BY <2>0, <2>4, <3>1, <4>2
      <4> HIDE DEF i
      <4> QED
        BY <2>2, <2>4, <3>1, <4>3, <4>4
    <3> QED
      BY <3>2, <3>3
  <2>6. CASE Finish
    <3>1. jWorker.pc \in Working
      BY <2>6 DEF Finish, Working
    <3>2. /\ jJob'[i].progress = 100 /\ jJob'[i].stage = "awaiting_review"
          /\ \A k \in Jobs : k # i => jJob'[k] = jJob[k]
      BY <2>0, <2>4, <2>6, <3>1 DEF Finish
    <3>3. /\ jJob'[i].progress >= jJob[i].progress
          /\ StageOrder[jJob'[i].stage] >= StageOrder[jJob[i].stage]
      BY <2>0, <2>i, <3>1, <3>2
    <3> HIDE DEF i
    <3> QED
      BY <2>2, <2>4, <3>1, <3>2, <3>3
  <2>7. CASE ChecksumConflict \/ StepFails
    <3>1. jWorker.pc \in Working /\ FailJob
      BY <2>7 DEF ChecksumConflict, StepFails, Working
    <3>2. /\ jJob'[i].progress = jJob[i].progress /\ jJob'[i].stage = "failed"
          /\ \A k \in Jobs : k # i => jJob'[k] = jJob[k]
      BY <2>0, <2>4, <3>1 DEF FailJob, JobRow
    <3>3. /\ jJob'[i].progress >= jJob[i].progress
          /\ StageOrder[jJob'[i].stage] >= StageOrder[jJob[i].stage]
      BY <2>0, <2>i, <3>1, <3>2
    <3> HIDE DEF i
    <3> QED
      BY <2>2, <2>4, <3>1, <3>2, <3>3
  <2>8. \/ jJob' = jJob \/ (\E q \in Requests : Insert(q))
        \/ Advance \/ Finish \/ ChecksumConflict \/ StepFails
    BY DEF JNext, Api, Run, jVars, jTables, Lookup, Enqueue, EnqueueFails, Expire, Recover,
           Claim, Begin, Skip, Write, PutFile, AddArtifact, Release, RunJobRaises, Crash
  <2> QED
    BY <2>1, <2>3, <2>5, <2>6, <2>7, <2>8
<1>2. JSpec => [][Forward]_jVars
  BY <1>1, JobInvariant, PTL DEF JSpec
<1> QED
  BY <1>2 DEF JobsMoveForward
=============================================================================
