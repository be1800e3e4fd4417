------------------------------- MODULE Preview -------------------------------
(***************************************************************************)
(* Proxy previews of timeline versions: the rows of preview_jobs, one for  *)
(* each timeline version and picture size (timeline_repository.py), the    *)
(* requests that create, repeat and cancel them, and the worker that       *)
(* renders them (PreviewService.process in timeline_service.py).           *)
(*                                                                         *)
(* Each transaction is one step, and so is each call of the worker between *)
(* two of them; a request stores the row first and pushes its id next.     *)
(***************************************************************************)
EXTENDS WorkQueue

CONSTANTS
    PSizes,         \* picture sizes
    PMaxVersion,    \* bound on timeline versions
    PMaxRequests,   \* bound on the preview requests that queue a row
    PMaxFaults,     \* bound on crashes, lost pushes and raised errors
    PContents       \* what an attempt may render, as positive checksums

ASSUME PreviewConstants ==
    /\ IsFiniteSet(PSizes) /\ PContents \subseteq Nat \ {0}
    /\ PMaxVersion \in Nat \ {0} /\ PMaxRequests \in Nat /\ PMaxFaults \in Nat

VARIABLES
    pTimeline,      \* [version, latest] of the timeline row
    preview,        \* the rows
    pRedis,         \* preview queue and processing list
    pPushing,       \* for each row, the requests that have yet to push its id
    pWorker,        \* the worker: [pc, job, file, ids]
    pObject,        \* content under each preview's object key
    pAsset,         \* checksum in each preview's asset row
    pLost,          \* history: rows whose id left Redis before they settled
    pCount          \* [requests, faults], counted for the bounds

pRows == <<pTimeline, preview>>
pVars == <<pTimeline, preview, pRedis, pPushing, pWorker, pObject, pAsset, pLost, pCount>>

Previews == (1 .. PMaxVersion) \X PSizes
NoPreview == <<0, 0>>
PreviewStatus == {"none", "queued", "running", "ready", "stale", "cancelled", "failed"}
PIncomplete(p) == preview[p].status \in {"queued", "running"}

\* cancel: cancellation_requested; void: invalidated_at; output: output_asset_id.
NewPreview == [status |-> "queued", cancel |-> FALSE, void |-> FALSE, output |-> 0, error |-> ""]

PIdle == [pc |-> "down", job |-> NoPreview, file |-> 0, ids |-> <<>>]

PInit ==
    /\ pTimeline = [version |-> 1, latest |-> NoPreview]
    /\ preview = [p \in Previews |-> [NewPreview EXCEPT !.status = "none"]]
    /\ pRedis = EmptyQueue
    /\ pPushing = [p \in Previews |-> 0]
    /\ pWorker = PIdle
    /\ pObject = [p \in Previews |-> 0]
    /\ pAsset = [p \in Previews |-> 0]
    /\ pLost = {}
    /\ pCount = [requests |-> 0, faults |-> 0]

PFault == pCount.faults < PMaxFaults /\ pCount' = [pCount EXCEPT !.faults = @ + 1]

-----------------------------------------------------------------------------
(* Requests.                                                               *)

\* commit_mutation: every preview of the timeline that may still be used is
\* invalidated.
Invalidated(p) ==
    IF preview[p].status \in {"queued", "running", "ready"}
    THEN [preview[p] EXCEPT !.status = "stale", !.cancel = TRUE, !.void = TRUE]
    ELSE preview[p]

NextVersionOnly == [pTimeline EXCEPT !.version = @ + 1]
NextVersion == [version |-> pTimeline.version + 1, latest |-> NoPreview]

EditTimeline ==
    /\ pTimeline.version < PMaxVersion
    /\ pTimeline' = NextVersion
    /\ preview' = [p \in Previews |-> Invalidated(p)]
    /\ UNCHANGED <<pRedis, pPushing, pWorker, pObject, pAsset, pLost, pCount>>

\* create_preview: a first request makes a row, whatever the version ...
FirstRequest(p) == preview[p].status = "none"

\* ... and a repeated one resets the row of the current version, if the last
\* attempt failed or was cancelled.
Resettable(p) ==
    p[1] = pTimeline.version /\ preview[p].status \in {"failed", "cancelled"}

RequestPreview(p) ==
    /\ pCount.requests < PMaxRequests
    /\ p[1] <= pTimeline.version
    /\ FirstRequest(p) \/ Resettable(p)
    /\ preview' = [preview EXCEPT ![p] = NewPreview]
    /\ pTimeline' = IF p[1] = pTimeline.version THEN [pTimeline EXCEPT !.latest = p] ELSE pTimeline
    /\ pPushing' = [pPushing EXCEPT ![p] = @ + 1]
    /\ pCount' = [pCount EXCEPT !.requests = @ + 1]
    /\ pLost' = pLost \ {p}
    /\ UNCHANGED <<pRedis, pWorker, pObject, pAsset>>

\* enqueue: the push that follows, unless the process dies or Redis refuses.
PushPreview(p) ==
    /\ pPushing[p] > 0
    /\ pPushing' = [pPushing EXCEPT ![p] = @ - 1]
    /\ pRedis' = Pushed(pRedis, p)
    /\ UNCHANGED <<pRows, pWorker, pObject, pAsset, pLost, pCount>>

PushPreviewFails(p) ==
    /\ pPushing[p] > 0
    /\ PFault
    /\ pPushing' = [pPushing EXCEPT ![p] = @ - 1]
    /\ pLost' = pLost \cup {p}
    /\ UNCHANGED <<pRows, pRedis, pWorker, pObject, pAsset>>

Cancelled(row) ==
    [row EXCEPT !.cancel = TRUE, !.status = IF @ = "queued" THEN "cancelled" ELSE @]

CancelPreview(p) ==
    /\ preview[p].status # "none"
    /\ ~preview[p].cancel
    /\ preview' = [preview EXCEPT ![p] = Cancelled(@)]
    /\ UNCHANGED <<pTimeline, pRedis, pPushing, pWorker, pObject, pAsset, pLost, pCount>>

-----------------------------------------------------------------------------
(* The worker.                                                             *)

RecoverPreviewsRead ==
    /\ pWorker.pc = "down"
    /\ \E ids \in Recoverable(pRedis, {p \in Previews : PIncomplete(p)}) :
          pWorker' = [pWorker EXCEPT !.pc = "recovering", !.ids = ids]
    /\ UNCHANGED <<pRows, pRedis, pPushing, pObject, pAsset, pLost, pCount>>

RecoverPreviews ==
    /\ pWorker.pc = "recovering"
    /\ pRedis' = Requeued(pRedis, pWorker.ids)
    /\ pLost' = pLost \ ToSet(pWorker.ids)
    /\ pWorker' = [pWorker EXCEPT !.pc = "waiting", !.ids = <<>>]
    /\ UNCHANGED <<pRows, pPushing, pObject, pAsset, pCount>>

ClaimPreview ==
    /\ pWorker.pc = "waiting"
    /\ pRedis.queue # <<>>
    /\ pRedis' = Claimed(pRedis)
    /\ pWorker' = [pWorker EXCEPT !.pc = "claimed", !.job = NextId(pRedis)]
    /\ UNCHANGED <<pRows, pPushing, pObject, pAsset, pLost, pCount>>

\* process: a preview read as finished is left alone.  (Mutant: one found
\* running is taken to be somebody else's.)
ToDoQueued(p) == preview[p].status = "queued"
ToDo(p) == PIncomplete(p)

LookAtPreview ==
    /\ pWorker.pc = "claimed"
    /\ pWorker' = [pWorker EXCEPT !.pc = IF ToDo(pWorker.job) THEN "starting" ELSE "over"]
    /\ UNCHANGED <<pRows, pRedis, pPushing, pObject, pAsset, pLost, pCount>>

\* _set_preview_state: a preview that was cancelled or invalidated takes that
\* status instead, while the attempt goes on.
SetState(p, status) ==
    [preview EXCEPT ![p].status =
        IF preview[p].void THEN "stale" ELSE IF preview[p].cancel THEN "cancelled" ELSE status]

StartPreview ==
    /\ pWorker.pc = "starting"
    /\ preview' = SetState(pWorker.job, "running")
    /\ pWorker' = [pWorker EXCEPT !.pc = IF preview'[pWorker.job].status = "running"
                                         THEN "fetching" ELSE "over"]
    /\ UNCHANGED <<pTimeline, pRedis, pPushing, pObject, pAsset, pLost, pCount>>

\* set_preview_progress 35, 85 and 95: after the downloads, after the renderer
\* returns, and after the asset row is there.
ReportProgress ==
    /\ pWorker.pc \in {"fetching", "rendered", "registered"}
    /\ preview' = SetState(pWorker.job, preview[pWorker.job].status)
    /\ pWorker' = [pWorker EXCEPT !.pc = CASE @ = "fetching" -> "rendering"
                                           [] @ = "rendered" -> "storing"
                                           [] OTHER -> "completing"]
    /\ UNCHANGED <<pTimeline, pRedis, pPushing, pObject, pAsset, pLost, pCount>>

RenderPreview ==
    /\ pWorker.pc = "rendering"
    /\ \E c \in PContents : pWorker' = [pWorker EXCEPT !.pc = "rendered", !.file = c]
    /\ UNCHANGED <<pRows, pRedis, pPushing, pObject, pAsset, pLost, pCount>>

\* The attempt asks before each download and while the renderer runs; the
\* answer is acted on in a later transaction.
NoticeCancel ==
    /\ pWorker.pc \in {"fetching", "rendering"}
    /\ preview[pWorker.job].cancel \/ preview[pWorker.job].void
    /\ pWorker' = [pWorker EXCEPT !.pc = "cancelling"]
    /\ UNCHANGED <<pRows, pRedis, pPushing, pObject, pAsset, pLost, pCount>>

StorePreview ==
    /\ pWorker.pc = "storing"
    /\ pObject' = [pObject EXCEPT ![pWorker.job] = pWorker.file]
    /\ pWorker' = [pWorker EXCEPT !.pc = "stored"]
    /\ UNCHANGED <<pRows, pRedis, pPushing, pAsset, pLost, pCount>>

\* register_asset refuses a checksum other than the row's.  (Mutant: it keeps
\* the row and goes on.)
SameOutputAlways(p) == TRUE
SameOutput(p) == pAsset[p] \in {0, pWorker.file}

RegisterPreview ==
    /\ pWorker.pc = "stored"
    /\ IF SameOutput(pWorker.job)
       THEN /\ pAsset' = [pAsset EXCEPT ![pWorker.job] = IF @ = 0 THEN pWorker.file ELSE @]
            /\ pWorker' = [pWorker EXCEPT !.pc = "registered"]
       ELSE /\ pWorker' = [pWorker EXCEPT !.pc = "failing"]
            /\ UNCHANGED pAsset
    /\ UNCHANGED <<pRows, pRedis, pPushing, pObject, pLost, pCount>>

CompletePreview ==
    /\ pWorker.pc = "completing"
    /\ preview' = [SetState(pWorker.job, "ready") EXCEPT ![pWorker.job].output = pAsset[pWorker.job]]
    /\ pWorker' = [pWorker EXCEPT !.pc = "over"]
    /\ UNCHANGED <<pTimeline, pRedis, pPushing, pObject, pAsset, pLost, pCount>>

\* A download, the renderer, the storage or the database raises.
AttemptRaises ==
    /\ pWorker.pc \in {"fetching", "rendering", "rendered", "storing", "stored", "registered", "completing"}
    /\ PFault
    /\ pWorker' = [pWorker EXCEPT !.pc = "failing"]
    /\ UNCHANGED <<pRows, pRedis, pPushing, pObject, pAsset, pLost>>

\* fail_preview, in the transaction after.  (Mutant: it does not look at the row.)
FailedAnyway(row, code) == [row EXCEPT !.status = "failed", !.error = code]
FailedPreview(row, code) ==
    IF row.cancel THEN [row EXCEPT !.status = IF row.void THEN "stale" ELSE "cancelled"]
    ELSE [row EXCEPT !.status = "failed", !.error = code]

FailPreview ==
    /\ pWorker.pc \in {"cancelling", "failing"}
    /\ preview' = [preview EXCEPT ![pWorker.job] = FailedPreview(@,
          IF pWorker.pc = "cancelling" THEN "PREVIEW_CANCELLED" ELSE "PREVIEW_RENDER_FAILED")]
    /\ pWorker' = [pWorker EXCEPT !.pc = "over"]
    /\ UNCHANGED <<pTimeline, pRedis, pPushing, pObject, pAsset, pLost, pCount>>

\* process itself raises (the database refuses the first or the last
\* transaction); run_preview_queue logs it and releases the id all the same.
ProcessRaises ==
    /\ pWorker.pc \in {"claimed", "starting", "cancelling", "failing"}
    /\ PFault
    /\ pWorker' = [pWorker EXCEPT !.pc = "over"]
    /\ pLost' = pLost \cup {pWorker.job}
    /\ UNCHANGED <<pRows, pRedis, pPushing, pObject, pAsset>>

ReleasePreview ==
    /\ pWorker.pc = "over"
    /\ pRedis' = Released(pRedis, pWorker.job)
    /\ pWorker' = [PIdle EXCEPT !.pc = "waiting"]
    /\ UNCHANGED <<pRows, pPushing, pObject, pAsset, pLost, pCount>>

PreviewWorkerCrash ==
    /\ pWorker.pc # "down"
    /\ PFault
    /\ pWorker' = PIdle
    /\ UNCHANGED <<pRows, pRedis, pPushing, pObject, pAsset, pLost>>

-----------------------------------------------------------------------------
PreviewWorkerStep ==
    \/ RecoverPreviewsRead \/ RecoverPreviews \/ ClaimPreview \/ LookAtPreview
    \/ StartPreview \/ ReportProgress \/ RenderPreview \/ NoticeCancel
    \/ StorePreview \/ RegisterPreview \/ CompletePreview \/ FailPreview
    \/ ReleasePreview

PNext ==
    \/ EditTimeline
    \/ \E p \in Previews : \/ RequestPreview(p) \/ CancelPreview(p)
                           \/ PushPreview(p) \/ PushPreviewFails(p)
    \/ PreviewWorkerStep
    \/ AttemptRaises \/ ProcessRaises \/ PreviewWorkerCrash

\* The API runs the push of a stored row; the worker is restarted and polls,
\* and its calls return or raise.
PFairness ==
    /\ \A p \in Previews : WF_pVars(PushPreview(p))
    /\ WF_pVars(PreviewWorkerStep)

PSpec == PInit /\ [][PNext]_pVars /\ PFairness

-----------------------------------------------------------------------------
(* Properties.                                                             *)

\* Rows, lists and the worker's position have their types.
PTypeOK ==
    /\ pTimeline \in [version : 1 .. PMaxVersion, latest : Previews \cup {NoPreview}]
    /\ preview \in [Previews -> [status : PreviewStatus, cancel : BOOLEAN, void : BOOLEAN,
                                 output : PContents \cup {0},
                                 error : {"", "PREVIEW_CANCELLED", "PREVIEW_RENDER_FAILED"}]]
    /\ pRedis \in [queue : Seq(Previews), processing : Seq(Previews)]
    /\ pPushing \in [Previews -> Nat]
    /\ pWorker.job \in Previews \cup {NoPreview}
    /\ pObject \in [Previews -> PContents \cup {0}]
    /\ pAsset \in [Previews -> PContents \cup {0}]
    /\ pLost \subseteq Previews

\* Once an edit has invalidated a preview, no attempt that was under way, no
\* cancellation and no repeated request brings it back.
StalePreviewsStayStale ==
    [][\A p \in Previews : preview[p].status = "stale" => preview'[p].status = "stale"]_pVars

\* The preview the timeline offers as its latest is of the current version, and
\* if it is ready the stored file is the one its asset row describes.
LatestPreviewIsCurrent ==
    pTimeline.latest # NoPreview => pTimeline.latest[1] = pTimeline.version

\* A ready preview shows the file its asset row describes, although an earlier
\* attempt may have stored another one under the same key.
ReadyPreviewIsRegistered ==
    \A p \in Previews : preview[p].status = "ready" =>
        preview[p].output # 0 /\ pObject[p] = preview[p].output

\* While a worker runs, an unfinished preview is queued, about to be, in the
\* worker's hands, or its id was dropped by a failed push or a raised error.
NoPreviewForgotten ==
    pWorker.pc # "down" =>
        \A p \in Previews : PIncomplete(p) =>
            \/ p \in Queued(pRedis) \cup ToSet(pWorker.ids) \cup pLost
            \/ pPushing[p] > 0
            \/ pWorker.job = p /\ pWorker.pc # "over"

\* Every requested preview whose id is not dropped settles, and a dropped one
\* does after a restart.
PreviewsSettle ==
    \A p \in Previews :
        PIncomplete(p) /\ (p \notin pLost \/ pWorker.pc = "recovering") ~>
            ~PIncomplete(p) \/ p \in pLost
=============================================================================
