----------------------------- MODULE VideoJobs ------------------------------
(***************************************************************************)
(* Vertical-short video jobs: creation under an Idempotency-Key            *)
(* (create_video_job, PostgresJobStore.create), delivery over two Redis    *)
(* lists (npd_worker/main.py), and the worker's pipeline (run_job), which  *)
(* writes each artifact to the job directory, stores it under an object    *)
(* key that depends on the job and the file name only, and records it.     *)
(*                                                                         *)
(* One worker process runs the video queue.  The pipeline is the table     *)
(* Pipeline; narration.wav and its timing file are one row.  Source assets *)
(* are unchanging project files and are left out.                          *)
(***************************************************************************)
EXTENDS WorkQueue

CONSTANTS
    Jobs,           \* job ids
    Keys,           \* Idempotency-Key values
    Requests,       \* POST /api/v1/video-jobs requests
    JContents,      \* what synthesis and rendering may produce; not "fixed", "torn"
    None,           \* no member of the sets above
    JMaxFailures    \* bound on crashes, failed pushes and database outages

ASSUME VideoJobConstants ==
    /\ None \notin Jobs \cup Keys \cup JContents \cup {"fixed", "torn"}
    /\ JContents \cap {"fixed", "torn"} = {}
    /\ JMaxFailures \in Nat

VARIABLES
    jJob,           \* the jobs table: [status, stage, progress]
    jReceipt,       \* idempotency_keys: key -> job id
    jExpired,       \* keys whose receipt is past expires_at
    jRequest,       \* each request: [pc, key, job]
    jRedis,         \* [queue, processing]
    jWorker,        \* [pc, job, row, rec]
    jDisk,          \* file of each artifact in the job directory
    jObject,        \* object under each artifact's key
    jAsset,         \* checksum in each artifact's asset row
    jLost,          \* history: jobs whose id left Redis before they settled
    jFailures       \* faults so far

jVars == <<jJob, jReceipt, jExpired, jRequest, jRedis, jWorker, jDisk, jObject, jAsset,
           jLost, jFailures>>
jTables == <<jJob, jReceipt, jExpired, jRequest>>
jFiles == <<jDisk, jObject, jAsset>>

-----------------------------------------------------------------------------
\* models.py, STAGE_ORDER.
StageOrder ==
    [queued |-> 0, scripting |-> 10, storyboarding |-> 20, generating_voice |-> 30,
     generating_subtitles |-> 40, resolving_assets |-> 50, building_manifest |-> 60,
     rendering |-> 70, quality_check |-> 90, awaiting_review |-> 100, failed |-> 1000]

JTerminal == {"awaiting_review", "failed"}

\* run_job, row by row: the file made, the stage and progress advanced to, the
\* artifacts recorded afterwards, and whether an existing file is looked for
\* before the advance (and spares it), after it, or never.
Row(file, stage, progress, reuse, records) ==
    [file |-> file, stage |-> stage, progress |-> progress,
     reuse |-> reuse, records |-> records]

Pipeline == <<
    Row("request", "queued", 0, "before", <<"request">>),
    Row("script", "scripting", 10, "before", <<"script">>),
    Row("storyboard", "storyboarding", 20, "before", <<"storyboard">>),
    Row("voice", "generating_voice", 30, "before", <<"voice">>),
    Row("subtitles", "generating_subtitles", 40, "never", <<"subtitles">>),
    Row("assets", "resolving_assets", 50, "never", <<"assets">>),
    Row("manifest", "building_manifest", 60, "after", <<"manifest">>),
    Row("video", "rendering", 70, "before", <<>>),
    Row("qc", "quality_check", 95, "never", <<"video", "qc">>) >>

Files == {Pipeline[i].file : i \in DOMAIN Pipeline}

\* What making a file may give: synthesis and rendering vary between runs.
Made(file) == IF file \in {"voice", "video"} THEN JContents ELSE {"fixed"}

NoVideoJob == [status |-> "none", stage |-> "queued", progress |-> 0]
JDown == [pc |-> "down", job |-> None, row |-> 1, rec |-> 1]

JInit ==
    /\ jJob = [j \in Jobs |-> NoVideoJob]
    /\ jReceipt = [k \in Keys |-> None]
    /\ jExpired = {}
    /\ jRequest \in [Requests -> {[pc |-> "start", key |-> k, job |-> None] :
                                     k \in Keys \cup {None}}]
    /\ jRedis = EmptyQueue
    /\ jWorker = JDown
    /\ jDisk = [j \in Jobs |-> [f \in Files |-> None]]
    /\ jObject = jDisk
    /\ jAsset = jDisk
    /\ jLost = {}
    /\ jFailures = 0

-----------------------------------------------------------------------------
(* The API.                                                                *)

Keyed(q) == jRequest[q].key # None
ReceiptOf(q) == jReceipt[jRequest[q].key]

\* create: the receipt is looked up in a session of its own; an expired one
\* does not count.
Lookup(q) ==
    /\ jRequest[q].pc = "start"
    /\ jRequest' = IF Keyed(q) /\ ReceiptOf(q) # None /\ jRequest[q].key \notin jExpired
                   THEN [jRequest EXCEPT ![q].pc = "done", ![q].job = ReceiptOf(q)]
                   ELSE [jRequest EXCEPT ![q].pc = "insert"]
    /\ UNCHANGED <<jJob, jReceipt, jExpired, jRedis, jWorker, jFiles, jLost, jFailures>>

\* The insertion.  A receipt of the same key, expired or not, makes it fail
\* on the primary key, and the job of that receipt is the answer.
InsertFresh(q, j) ==
    /\ jJob[j].status = "none"
    /\ jJob' = [jJob EXCEPT ![j].status = "queued"]
    /\ jReceipt' = IF Keyed(q) THEN [jReceipt EXCEPT ![jRequest[q].key] = j] ELSE jReceipt
    /\ jRequest' = [jRequest EXCEPT ![q].pc = "enqueue", ![q].job = j]

InsertIgnoringConflict(q) ==
    /\ jRequest[q].pc = "insert"
    /\ \E j \in Jobs : InsertFresh(q, j)
    /\ UNCHANGED <<jExpired, jRedis, jWorker, jFiles, jLost, jFailures>>
Insert(q) ==
    /\ jRequest[q].pc = "insert"
    /\ IF Keyed(q) /\ ReceiptOf(q) # None
       THEN /\ jRequest' = [jRequest EXCEPT ![q].pc = "done", ![q].job = ReceiptOf(q)]
            /\ UNCHANGED <<jJob, jReceipt>>
       ELSE \E j \in Jobs : InsertFresh(q, j)
    /\ UNCHANGED <<jExpired, jRedis, jWorker, jFiles, jLost, jFailures>>

\* Only the request whose candidate was stored pushes it.
EnqueueAnyway(q) ==
    /\ jRequest[q].pc \in {"enqueue", "done"}
    /\ jRequest' = [jRequest EXCEPT ![q].pc = "failed"]
    /\ jRedis' = Pushed(jRedis, jRequest[q].job)
    /\ UNCHANGED <<jJob, jReceipt, jExpired, jWorker, jFiles, jLost, jFailures>>
Enqueue(q) ==
    /\ jRequest[q].pc = "enqueue"
    /\ jRequest' = [jRequest EXCEPT ![q].pc = "done"]
    /\ jRedis' = Pushed(jRedis, jRequest[q].job)
    /\ UNCHANGED <<jJob, jReceipt, jExpired, jWorker, jFiles, jLost, jFailures>>

\* The API process dies, or the push fails, after the job is stored.
EnqueueFails(q) ==
    /\ jRequest[q].pc = "enqueue"
    /\ jFailures < JMaxFailures
    /\ jFailures' = jFailures + 1
    /\ jRequest' = [jRequest EXCEPT ![q].pc = "failed"]
    /\ jLost' = jLost \cup {jRequest[q].job}
    /\ UNCHANGED <<jJob, jReceipt, jExpired, jRedis, jWorker, jFiles>>

\* 24 hours pass.
Expire(k) ==
    /\ jReceipt[k] # None
    /\ k \notin jExpired
    /\ jExpired' = jExpired \cup {k}
    /\ UNCHANGED <<jJob, jReceipt, jRequest, jRedis, jWorker, jFiles, jLost, jFailures>>

-----------------------------------------------------------------------------
(* The worker process.                                                     *)

\* recover_inflight: only the processing list is read, PostgreSQL is not.
RecoverDropping ==
    /\ jWorker.pc = "down"
    /\ jRedis' = [jRedis EXCEPT !.processing = <<>>]
    /\ jWorker' = [JDown EXCEPT !.pc = "waiting"]
    /\ UNCHANGED <<jTables, jFiles, jLost, jFailures>>
Recover ==
    /\ jWorker.pc = "down"
    /\ jRedis' = [queue |-> jRedis.queue \o jRedis.processing, processing |-> <<>>]
    /\ jWorker' = [JDown EXCEPT !.pc = "waiting"]
    /\ UNCHANGED <<jTables, jFiles, jLost, jFailures>>

Claim ==
    /\ jWorker.pc = "waiting"
    /\ jRedis.queue # <<>>
    /\ jRedis' = Claimed(jRedis)
    /\ jWorker' = [JDown EXCEPT !.pc = "claimed", !.job = NextId(jRedis)]
    /\ UNCHANGED <<jTables, jFiles, jLost, jFailures>>

\* run_job leaves a terminal job alone.
Begin ==
    /\ jWorker.pc = "claimed"
    /\ jWorker' = [jWorker EXCEPT !.pc =
                     IF jJob[jWorker.job].status \in JTerminal THEN "settled" ELSE "row"]
    /\ UNCHANGED <<jTables, jRedis, jFiles, jLost, jFailures>>

\* advance: not for a terminal job, and never backwards.
AdvancedAlways(row, stage, progress) ==
    [status |-> "running", stage |-> stage, progress |-> progress]
Advanced(row, stage, progress) ==
    IF \/ row.status \in JTerminal
       \/ StageOrder[stage] < StageOrder[row.stage]
       \/ progress < row.progress
    THEN row
    ELSE [status |-> "running", stage |-> stage, progress |-> progress]

Current == Pipeline[jWorker.row]
OnDisk == jDisk[jWorker.job][Current.file]

\* Every file that is looked for is validated, request.json apart.
Reusable ==
    IF Current.file = "request" THEN OnDisk # None ELSE OnDisk \notin {None, "torn"}

AfterRow ==
    IF Current.records # <<>> THEN [jWorker EXCEPT !.pc = "store", !.rec = 1]
    ELSE [jWorker EXCEPT !.pc = "row", !.row = @ + 1]

Skip ==
    /\ jWorker.pc = "row"
    /\ Current.reuse = "before"
    /\ Reusable
    /\ jWorker' = AfterRow
    /\ UNCHANGED <<jTables, jRedis, jFiles, jLost, jFailures>>

\* probe_video can reject a sound final.mp4, when ffprobe itself fails; what it
\* rejects is unlinked.  request.json is written without an advance.
Advance ==
    /\ jWorker.pc = "row"
    /\ Current.reuse = "before" => ~Reusable \/ Current.file = "video"
    /\ jJob' = IF Current.file = "request" THEN jJob
               ELSE [jJob EXCEPT ![jWorker.job] = Advanced(@, Current.stage, Current.progress)]
    /\ jDisk' = IF Current.file = "video" THEN [jDisk EXCEPT ![jWorker.job].video = None]
                ELSE jDisk
    /\ jWorker' = [jWorker EXCEPT !.pc = "write"]
    /\ UNCHANGED <<jReceipt, jExpired, jRequest, jRedis, jObject, jAsset, jLost, jFailures>>

Keeps == Current.reuse = "after" /\ Reusable

Write ==
    /\ jWorker.pc = "write"
    /\ \/ Keeps /\ UNCHANGED jDisk
       \/ /\ ~Keeps
          /\ \E c \in Made(Current.file) :
                jDisk' = [jDisk EXCEPT ![jWorker.job][Current.file] = c]
    /\ jWorker' = AfterRow
    /\ UNCHANGED <<jTables, jRedis, jObject, jAsset, jLost, jFailures>>

\* register_artifact: put_file overwrites the object ...
Recording == Current.records[jWorker.rec]
PutFile ==
    /\ jWorker.pc = "store"
    /\ jObject' = [jObject EXCEPT ![jWorker.job][Recording] = jDisk[jWorker.job][Recording]]
    /\ jWorker' = [jWorker EXCEPT !.pc = "record"]
    /\ UNCHANGED <<jTables, jRedis, jDisk, jAsset, jLost, jFailures>>

\* ... then add_artifact compares it with the asset row.
Changed == jAsset[jWorker.job][Recording] \notin {None, jDisk[jWorker.job][Recording]}
AfterRecord ==
    IF jWorker.rec < Len(Current.records)
    THEN [jWorker EXCEPT !.pc = "store", !.rec = @ + 1]
    ELSE IF jWorker.row < Len(Pipeline)
    THEN [jWorker EXCEPT !.pc = "row", !.row = @ + 1, !.rec = 1]
    ELSE [jWorker EXCEPT !.pc = "finish"]

AddArtifactUnchecked ==
    /\ jWorker.pc = "record"
    /\ jAsset' = [jAsset EXCEPT ![jWorker.job][Recording] =
                    IF @ = None THEN jDisk[jWorker.job][Recording] ELSE @]
    /\ jWorker' = AfterRecord
    /\ UNCHANGED <<jTables, jRedis, jDisk, jObject, jLost, jFailures>>
AddArtifact ==
    /\ jWorker.pc = "record"
    /\ ~Changed
    /\ jAsset' = [jAsset EXCEPT ![jWorker.job][Recording] = jDisk[jWorker.job][Recording]]
    /\ jWorker' = AfterRecord
    /\ UNCHANGED <<jTables, jRedis, jDisk, jObject, jLost, jFailures>>

Finish ==
    /\ jWorker.pc = "finish"
    /\ jJob' = [jJob EXCEPT ![jWorker.job] =
                  [status |-> "awaiting_review", stage |-> "awaiting_review", progress |-> 100]]
    /\ jWorker' = [jWorker EXCEPT !.pc = "settled"]
    /\ UNCHANGED <<jReceipt, jExpired, jRequest, jRedis, jFiles, jLost, jFailures>>

\* fail does not look at the status it overwrites; progress stays.
FailJob ==
    /\ jJob' = [jJob EXCEPT ![jWorker.job].status = "failed", ![jWorker.job].stage = "failed"]
    /\ jWorker' = [jWorker EXCEPT !.pc = "settled"]

ChecksumConflict ==
    /\ jWorker.pc = "record"
    /\ Changed
    /\ FailJob
    /\ UNCHANGED <<jReceipt, jExpired, jRequest, jRedis, jFiles, jLost, jFailures>>

\* A provider, the renderer, QC, the object store or the database fails.
StepFails ==
    /\ jWorker.pc \in {"row", "write", "store", "record", "finish"}
    /\ FailJob
    /\ UNCHANGED <<jReceipt, jExpired, jRequest, jRedis, jFiles, jLost, jFailures>>

\* The finally clause of run_video_queue takes the id off the list, which
\* holds it once.
Release ==
    /\ jWorker.pc = "settled"
    /\ jRedis' = Released(jRedis, jWorker.job)
    /\ jWorker' = [JDown EXCEPT !.pc = "waiting"]
    /\ UNCHANGED <<jTables, jFiles, jLost, jFailures>>

\* run_job raises (the database refuses get or fail).  Nothing catches it: the
\* finally clause takes the id off the list and the whole worker ends.
RunJobRaises ==
    /\ jWorker.pc \in {"claimed", "row", "write", "store", "record", "finish"}
    /\ jFailures < JMaxFailures
    /\ jFailures' = jFailures + 1
    /\ jRedis' = Released(jRedis, jWorker.job)
    /\ jLost' = jLost \cup {jWorker.job}
    /\ jWorker' = JDown
    /\ UNCHANGED <<jTables, jFiles>>

\* The process is killed; a file it was writing may be cut short.
Crash ==
    /\ jWorker.pc # "down"
    /\ jFailures < JMaxFailures
    /\ jFailures' = jFailures + 1
    /\ jWorker' = JDown
    /\ jDisk' \in IF jWorker.pc = "write" /\ ~Keeps
                 THEN {jDisk, [jDisk EXCEPT ![jWorker.job][Current.file] = "torn"]}
                 ELSE {jDisk}
    /\ UNCHANGED <<jTables, jRedis, jObject, jAsset, jLost>>

-----------------------------------------------------------------------------
Api == \E q \in Requests : Lookup(q) \/ Insert(q) \/ Enqueue(q)

Run ==
    \/ Recover \/ Claim \/ Begin
    \/ Skip \/ Advance \/ Write \/ PutFile \/ AddArtifact \/ ChecksumConflict
    \/ Finish \/ Release

JNext ==
    \/ Api
    \/ \E q \in Requests : EnqueueFails(q)
    \/ \E k \in Keys : Expire(k)
    \/ Run
    \/ StepFails
    \/ RunJobRaises
    \/ Crash

\* Docker restarts the worker; requests and the worker keep running.
JFairness == WF_jVars(Api) /\ WF_jVars(Run)

JSpec == JInit /\ [][JNext]_jVars /\ JFairness

-----------------------------------------------------------------------------
(* Properties.                                                             *)

\* Rows, lists and files have their types.
JTypeOK ==
    /\ jJob \in [Jobs -> [status : {"none", "queued", "running"} \cup JTerminal,
                         stage : DOMAIN StageOrder, progress : 0 .. 100]]
    /\ jReceipt \in [Keys -> Jobs \cup {None}]
    /\ jRequest \in [Requests -> [pc : {"start", "insert", "enqueue", "done", "failed"},
                                 key : Keys \cup {None}, job : Jobs \cup {None}]]
    /\ jRedis \in [queue : Seq(Jobs), processing : Seq(Jobs)]
    /\ jWorker.row \in DOMAIN Pipeline
    /\ \A t \in {jDisk, jObject, jAsset} :
          t \in [Jobs -> [Files -> JContents \cup {None, "fixed", "torn"}]]

\* Two answered requests with the same Idempotency-Key, however they overlap
\* and whenever the key expires, are answered with the same job.
SameKeySameJob ==
    \A p, q \in Requests :
        /\ jRequest[p].key = jRequest[q].key /\ Keyed(p)
        /\ jRequest[p].job # None /\ jRequest[q].job # None
        => jRequest[p].job = jRequest[q].job

\* A job is in Redis at most once, so no two runs of it can overlap or follow
\* each other needlessly.
DeliveredOnce ==
    LET held == jRedis.queue \o jRedis.processing IN
    /\ IsInjective(held)
    /\ \A q \in Requests : jRequest[q].pc = "enqueue" => jRequest[q].job \notin ToSet(held)

\* docs/ARCHITECTURE.md, "Progress and stage transitions are monotonic": over
\* any number of crashes and re-runs a job never steps back, and nothing
\* follows awaiting_review or failed.
JobsMoveForward ==
    [][\A j \in Jobs :
        /\ jJob'[j].progress >= jJob[j].progress
        /\ StageOrder[jJob'[j].stage] >= StageOrder[jJob[j].stage]
        /\ jJob[j].status \in JTerminal => jJob'[j] = jJob[j]]_jVars

\* Every artifact of a job that awaits review is recorded, and the object a
\* reader gets is the one whose checksum was recorded, even when an earlier
\* run stored other bytes under the same key.
ReviewableArtifactsMatch ==
    \A j \in Jobs : jJob[j].status = "awaiting_review" =>
        \A f \in Files : jAsset[j][f] # None /\ jObject[j][f] = jAsset[j][f]

\* A stored, unfinished job is on the queue or about to be, in the worker's
\* hands, or left in the processing list by a crash; the only other ones were
\* dropped by a failed push or by an exception out of run_job.
NoJobForgotten ==
    \A j \in Jobs : jJob[j].status \in {"queued", "running"} =>
        \/ j \in ToSet(jRedis.queue) \cup ToSet(jRedis.processing) \cup jLost
        \/ \E q \in Requests : jRequest[q].pc = "enqueue" /\ jRequest[q].job = j

\* Every job that was not dropped reaches review or failure.
JobsSettle ==
    \A j \in Jobs :
        jJob[j].status = "queued" ~> jJob[j].status \in JTerminal \/ j \in jLost

\* docs/OPERATIONS.md: "Worker restart: claimed IDs are requeued": a restarted
\* worker that waits for work has every started, unfinished job on its queue.
ClaimedJobsAreRequeued ==
    jWorker.pc = "waiting" =>
        \A j \in Jobs : jJob[j].status = "running" => j \in ToSet(jRedis.queue)
=============================================================================
