---------------------------- MODULE MCLiveness ------------------------------
(* Everything a queue of the worker must eventually settle, and the role   *)
(* of the executor's host that must close, in one run.  They share no row  *)
(* and no list, so each behaviour follows one and the rest stay initial.   *)
EXTENDS Preview, Webhook, AnalyticsSync, Media, ExecutionPlane, TLC

CONSTANTS None, Renders, Jobs, Requests

VARIABLES
    service,
    rTimeline, rPackage, rApproval, rRender, rWorker, rRedis, rPushing, rProc,
    rObject, rAsset, rLost, rCrashes,
    jJob, jReceipt, jExpired, jRequest, jRedis, jWorker, jDisk, jObject, jAsset,
    jLost, jFailures

rVars == <<rTimeline, rPackage, rApproval, rRender, rWorker, rRedis, rPushing, rProc,
           rObject, rAsset, rLost, rCrashes>>
jVars == <<jJob, jReceipt, jExpired, jRequest, jRedis, jWorker, jDisk, jObject, jAsset,
           jLost, jFailures>>

MCPlanOf == 1 :> 1 @@ 2 :> 1

R == INSTANCE RenderWorker WITH
    Approvals <- {}, Contents <- {"x"}, MaxVersion <- 1, MaxMixVersion <- 1, MaxCrashes <- 2,
    timeline <- rTimeline, package <- rPackage, approval <- rApproval, render <- rRender,
    worker <- rWorker, redis <- rRedis, pushing <- rPushing, proc <- rProc,
    object <- rObject, asset <- rAsset, lost <- rLost, crashes <- rCrashes

J == INSTANCE VideoJobs WITH
    Keys <- {}, JContents <- {"x"}, JMaxFailures <- 3

MCInit ==
    /\ service \in {"render", "video", "preview", "webhook", "sync", "media", "plane"}
    /\ R!WInit /\ J!JInit /\ PInit /\ DInit /\ SInit /\ MInit /\ XInit

Only(s, A) == service = s /\ A /\ UNCHANGED service
Render(A) == Only("render", A) /\ UNCHANGED <<jVars, pVars, dVars, sVars, mVars, xVars>>
Video(A) == Only("video", A) /\ UNCHANGED <<rVars, pVars, dVars, sVars, mVars, xVars>>
OfPreview(A) == Only("preview", A) /\ UNCHANGED <<rVars, jVars, dVars, sVars, mVars, xVars>>
OfWebhook(A) == Only("webhook", A) /\ UNCHANGED <<rVars, jVars, pVars, sVars, mVars, xVars>>
OfSync(A) == Only("sync", A) /\ UNCHANGED <<rVars, jVars, pVars, dVars, mVars, xVars>>
OfMedia(A) == Only("media", A) /\ UNCHANGED <<rVars, jVars, pVars, dVars, sVars, xVars>>
OfPlane(A) == Only("plane", A) /\ UNCHANGED <<rVars, jVars, pVars, dVars, sVars, mVars>>

MCNext ==
    \/ Render(R!WNext) \/ Video(J!JNext) \/ OfPreview(PNext)
    \/ OfWebhook(DNext) \/ OfSync(SNext) \/ OfMedia(MNext)
    \/ OfPlane(XNext)

mcVars == <<service, rVars, jVars, pVars, dVars, sVars, mVars, xVars>>

\* Only one queue moves in a behaviour, so a disjunction of the queues' fair
\* actions is fair exactly when that queue's own action is.
MCFairness ==
    /\ WF_mcVars(\/ Render(R!WorkerStep) \/ Video(J!Run)
                 \/ OfPreview(PreviewWorkerStep) \/ OfWebhook(WebhookWorkerStep)
                 \/ OfSync(SyncWorkerStep) \/ OfMedia(MediaWorkerStep)
                 \/ OfPlane(XHostStep))
    /\ WF_mcVars(\/ Video(J!Api)
                 \/ OfWebhook(WebhookSchedulerStep) \/ OfSync(SyncSchedulerStep))
    /\ WF_mcVars(\/ \E r \in Renders : Render(R!Push(r))
                 \/ \E p \in Previews : OfPreview(PushPreview(p)))
    /\ \A i \in 1..2 :
          /\ WF_mcVars(\/ i \in Deliveries /\ OfWebhook(PushDelivery(i))
                       \/ i \in Syncs /\ OfSync(PushSync(i))
                       \/ \E j \in MJobs : j[1] = i /\ OfMedia(PushResolution(j)))
          /\ WF_mcVars(\/ i \in Deliveries /\ OfWebhook(DeliveryDue(i))
                       \/ i \in Syncs /\ OfSync(SyncDue(i)))

MCSpec == MCInit /\ [][MCNext]_mcVars /\ MCFairness

-----------------------------------------------------------------------------
\* Every render and every video job that is not dropped reaches its end,
\* through crashes, re-runs and failed steps.
PipelinesSettle == R!RendersSettle /\ J!JobsSettle

\* So does every preview, webhook delivery, synchronisation and resolution,
\* retries and the scheduler included.
QueuesSettle == PreviewsSettle /\ DeliveriesSettle /\ SyncsSettle /\ ResolutionsSettle
=============================================================================
