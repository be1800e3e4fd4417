-------------------------------- MODULE Media --------------------------------
(***************************************************************************)
(* Media plans and their resolution: MediaPlanningService.create,          *)
(* MediaResolutionService.enqueue and process, the repository behind them  *)
(* and the worker's resolution queue.                                      *)
(*                                                                         *)
(* A plan's items, their strategies and candidates are chosen by scoring   *)
(* that is left out.  An item either reuses the uploaded asset, which every*)
(* plan of the project shares, or has media made for it; no shipped        *)
(* provider makes media eligible for production.                           *)
(***************************************************************************)
EXTENDS WorkQueue

CONSTANTS
    MPlans,             \* plans: one for each request fingerprint
    MItems,             \* their items
    MPlanOf,            \* the plan of each item
    MReusing,           \* items whose strategy is user_asset
    MCandidates,        \* stock candidates an item may be resolved with
    MOwned,             \* whether the upload's rights are owned or licensed
    MMaxFaults          \* bound on crashes, lost pushes and database errors

ASSUME MediaConstants ==
    /\ MPlanOf \in [MItems -> MPlans] /\ 0 \notin MPlans
    /\ MReusing \subseteq MItems /\ IsFiniteSet(MItems)
    /\ MCandidates \subseteq Nat \ {0} /\ IsFiniteSet(MCandidates)
    /\ MOwned \in BOOLEAN
    /\ MMaxFaults \in Nat

\* A resolution job is one (item, candidate): the fingerprint is unique.
MJobs == {j \in MItems \X ({0} \cup MCandidates) : (j[1] \in MReusing) <=> (j[2] = 0)}
NoJob == <<0, 0>>
Upload == NoJob
AssetOf(j) == IF j[1] \in MReusing THEN Upload ELSE j
MAssets == MJobs \cup {Upload}

VARIABLES
    mPlan,              \* status of each plan, "none" before it is requested
    mPlanning,          \* plans whose request is still being planned
    mItem,              \* rows: [status, selected, attention]
    mJob,               \* status of each job
    mOwner,             \* provenance rows: the plan an asset is recorded under, 0 for none
    mRegistered,        \* assets in the platform's registry
    mCosts,             \* cost records of each job
    mRedis,             \* the resolution queue and its processing list
    mPushing,           \* jobs an API request has stored and not pushed
    mWorker,            \* [pc, job, ids]
    mLost,              \* history: jobs that left Redis before they settled
    mFaults             \* faults so far

mVars == <<mPlan, mPlanning, mItem, mJob, mOwner, mRegistered, mCosts,
           mRedis, mPushing, mWorker, mLost, mFaults>>
mPlans == <<mPlan, mPlanning>>
mBooks == <<mOwner, mRegistered, mCosts>>

MOpen(j) == mJob[j] \in {"queued", "running"}
MIdle == [pc |-> "down", job |-> NoJob, ids |-> <<>>]
ItemsOf(p) == {i \in MItems : MPlanOf[i] = p}

\* publishing_allowed: eligible for production, with rights to use it.
Allowed(asset) == asset = Upload /\ MOwned

MInit ==
    /\ mPlan = [p \in MPlans |-> "none"]
    /\ mPlanning = {}
    /\ mItem = [i \in MItems |-> [status |-> "absent", selected |-> {}, attention |-> FALSE]]
    /\ mJob = [j \in MJobs |-> "none"]
    /\ mOwner = [a \in MAssets |-> 0]
    /\ mRegistered = {Upload}
    /\ mCosts = [j \in MJobs |-> 0]
    /\ mRedis = EmptyQueue
    /\ mPushing = {}
    /\ mWorker = MIdle
    /\ mLost = {}
    /\ mFaults = 0

MFault == mFaults < MMaxFaults /\ mFaults' = mFaults + 1

-----------------------------------------------------------------------------
(* Planning: three transactions of one request.                            *)

CreatePlan(p) ==
    /\ mPlan[p] = "none"
    /\ mPlan' = [mPlan EXCEPT ![p] = "draft"]
    /\ mPlanning' = mPlanning \cup {p}
    /\ UNCHANGED <<mItem, mJob, mBooks, mRedis, mPushing, mWorker, mLost, mFaults>>

\* save_plan_items; an item may need approval for its estimate.  Metering the
\* search comes last: when it raises, the plan has failed with its items saved.
SavePlanItems(p) ==
    /\ p \in mPlanning
    /\ \E costly \in SUBSET (ItemsOf(p) \ MReusing) :
          mItem' = [i \in MItems |->
              IF MPlanOf[i] # p THEN mItem[i]
              ELSE [mItem[i] EXCEPT !.status = IF i \in costly THEN "needs_approval" ELSE "planned",
                                    !.attention = i \in costly]]
    /\ mPlanning' = mPlanning \ {p}
    /\ \/ UNCHANGED <<mPlan, mFaults>>
       \/ MFault /\ mPlan' = [mPlan EXCEPT ![p] = "failed"]
    /\ UNCHANGED <<mJob, mBooks, mRedis, mPushing, mWorker, mLost>>

\* Searching or saving raises: the plan has failed without items.
PlanningFails(p) ==
    /\ p \in mPlanning
    /\ MFault
    /\ mPlan' = [mPlan EXCEPT ![p] = "failed"]
    /\ mPlanning' = mPlanning \ {p}
    /\ UNCHANGED <<mItem, mJob, mBooks, mRedis, mPushing, mWorker, mLost>>

\* The API process dies: the draft stays as it is, and so do rows not pushed.
MediaApiCrash ==
    /\ mPlanning # {} \/ mPushing # {}
    /\ MFault
    /\ mPlanning' = {}
    /\ mLost' = mLost \cup mPushing
    /\ mPushing' = {}
    /\ UNCHANGED <<mPlan, mItem, mJob, mBooks, mRedis, mWorker>>

-----------------------------------------------------------------------------
(* Requests to resolve an item.                                            *)

EnqueueResolution(j) ==
    LET i == j[1]
        costly == mItem[i].status = "needs_approval"
    IN  /\ mItem[i].status # "absent"
        /\ mJob[j] = "none"
        /\ mJob' = [mJob EXCEPT ![j] = IF costly THEN "needs_approval" ELSE "queued"]
        /\ mItem' = [mItem EXCEPT ![i].status = IF costly THEN @ ELSE "resolving",
                                  ![i].attention = @ \/ costly]
        /\ mPushing' = IF costly THEN mPushing ELSE mPushing \cup {j}
        /\ UNCHANGED <<mPlans, mBooks, mRedis, mWorker, mLost, mFaults>>

PushResolution(j) ==
    /\ j \in mPushing
    /\ mPushing' = mPushing \ {j}
    /\ mRedis' = Pushed(mRedis, j)
    /\ UNCHANGED <<mPlans, mItem, mJob, mBooks, mWorker, mLost, mFaults>>

-----------------------------------------------------------------------------
(* The worker.                                                             *)

RecoverResolutionsRead ==
    /\ mWorker.pc = "down"
    /\ \E ids \in Recoverable(mRedis, {j \in MJobs : MOpen(j)}) :
          mWorker' = [mWorker EXCEPT !.pc = "recovering", !.ids = ids]
    /\ UNCHANGED <<mPlans, mItem, mJob, mBooks, mRedis, mPushing, mLost, mFaults>>

RecoverResolutions ==
    /\ mWorker.pc = "recovering"
    /\ mRedis' = Requeued(mRedis, mWorker.ids)
    /\ mLost' = mLost \ ToSet(mWorker.ids)
    /\ mWorker' = [mWorker EXCEPT !.pc = "waiting", !.ids = <<>>]
    /\ UNCHANGED <<mPlans, mItem, mJob, mBooks, mPushing, mFaults>>

TakeResolution ==
    /\ mWorker.pc = "waiting"
    /\ mRedis.queue # <<>>
    /\ mRedis' = Claimed(mRedis)
    /\ mWorker' = [mWorker EXCEPT !.pc = "taken", !.job = NextId(mRedis)]
    /\ UNCHANGED <<mPlans, mItem, mJob, mBooks, mPushing, mLost, mFaults>>

\* process: a settled job is left alone, any other is run (again).
\* (Mutant: a job found running is taken to be someone else's.)
TerminalOrRunning(j) == ~(mJob[j] = "queued")
Terminal(j) == ~MOpen(j)

BeginResolution ==
    /\ mWorker.pc = "taken"
    /\ IF Terminal(mWorker.job)
       THEN mWorker' = [mWorker EXCEPT !.pc = "over"] /\ UNCHANGED mJob
       ELSE /\ mJob' = [mJob EXCEPT ![mWorker.job] = "running"]
            /\ mWorker' = [mWorker EXCEPT !.pc = "making"]
    /\ UNCHANGED <<mPlans, mItem, mBooks, mRedis, mPushing, mLost, mFaults>>

\* _materialize, put_file and register_asset: the object key names the job, so
\* a second attempt finds the first one's asset; or a check or the provider raises.
MakeMedia ==
    /\ mWorker.pc = "making"
    /\ \/ /\ mRegistered' = mRegistered \cup {AssetOf(mWorker.job)}
          /\ mWorker' = [mWorker EXCEPT !.pc = "metering"]
       \/ mWorker' = [mWorker EXCEPT !.pc = "failing"] /\ UNCHANGED mRegistered
    /\ UNCHANGED <<mPlans, mItem, mJob, mOwner, mCosts, mRedis, mPushing, mLost, mFaults>>

\* The made media costs more than the plan allows.
CostNeedsApproval ==
    /\ mWorker.pc = "making"
    /\ mWorker.job[1] \notin MReusing
    /\ mJob' = [mJob EXCEPT ![mWorker.job] = "needs_approval"]
    /\ mItem' = [mItem EXCEPT ![mWorker.job[1]].status = "needs_approval",
                              ![mWorker.job[1]].attention = TRUE]
    /\ mWorker' = [mWorker EXCEPT !.pc = "over"]
    /\ UNCHANGED <<mPlans, mBooks, mRedis, mPushing, mLost, mFaults>>

\* record_provider_operation.  (Mutant: every attempt is metered.)
MeteredAlways(n) == n + 1
Metered(n) == IF n = 0 THEN 1 ELSE n

MeterResolution ==
    /\ mWorker.pc = "metering"
    /\ mCosts' = [mCosts EXCEPT ![mWorker.job] = Metered(@)]
    /\ mWorker' = [mWorker EXCEPT !.pc = "completing"]
    /\ UNCHANGED <<mPlans, mItem, mJob, mOwner, mRegistered, mRedis, mPushing, mLost, mFaults>>

\* complete_resolution: an asset keeps the provenance row it has.
CompleteResolution ==
    LET j == mWorker.job
        asset == AssetOf(j)
    IN  /\ mWorker.pc = "completing"
        /\ mOwner' = [mOwner EXCEPT ![asset] = IF @ = 0 THEN MPlanOf[j[1]] ELSE @]
        /\ mJob' = [mJob EXCEPT ![j] = "succeeded"]
        /\ mItem' = [mItem EXCEPT ![j[1]] = [status |-> "resolved", selected |-> {asset},
                                             attention |-> ~Allowed(asset)]]
        /\ mWorker' = [mWorker EXCEPT !.pc = "over"]
        /\ UNCHANGED <<mPlans, mRegistered, mCosts, mRedis, mPushing, mLost, mFaults>>

\* Metering or completing raises.
ResolutionRaises ==
    /\ mWorker.pc \in {"metering", "completing"}
    /\ MFault
    /\ mWorker' = [mWorker EXCEPT !.pc = "failing"]
    /\ UNCHANGED <<mPlans, mItem, mJob, mBooks, mRedis, mPushing, mLost>>

\* mark_resolution_failed.  (Mutants: the item is not told; or with
\* a status get_plan does not know.)
FailedJobOnly(row) == row
FailedItemUnknown(row) == [row EXCEPT !.status = "error", !.attention = TRUE]
FailedItem(row) == [row EXCEPT !.status = "failed", !.attention = TRUE]

FailResolution ==
    /\ mWorker.pc = "failing"
    /\ mJob' = [mJob EXCEPT ![mWorker.job] = "failed"]
    /\ mItem' = [mItem EXCEPT ![mWorker.job[1]] = FailedItem(@)]
    /\ mWorker' = [mWorker EXCEPT !.pc = "over"]
    /\ UNCHANGED <<mPlans, mBooks, mRedis, mPushing, mLost, mFaults>>

\* A transaction outside of the try, or of its handlers, raises: the loop logs it.
ResolutionEscapes ==
    /\ mWorker.pc \in {"taken", "failing"}
    /\ MFault
    /\ mWorker' = [mWorker EXCEPT !.pc = "over"]
    /\ mLost' = mLost \cup {mWorker.job}
    /\ UNCHANGED <<mPlans, mItem, mJob, mBooks, mRedis, mPushing>>

ReleaseResolution ==
    /\ mWorker.pc = "over"
    /\ mRedis' = Released(mRedis, mWorker.job)
    /\ mWorker' = [MIdle EXCEPT !.pc = "waiting"]
    /\ UNCHANGED <<mPlans, mItem, mJob, mBooks, mPushing, mLost, mFaults>>

MediaWorkerCrash ==
    /\ mWorker.pc # "down"
    /\ MFault
    /\ mWorker' = MIdle
    /\ UNCHANGED <<mPlans, mItem, mJob, mBooks, mRedis, mPushing, mLost>>

-----------------------------------------------------------------------------
MediaWorkerStep ==
    \/ RecoverResolutionsRead \/ RecoverResolutions \/ TakeResolution \/ BeginResolution
    \/ MakeMedia \/ CostNeedsApproval \/ MeterResolution \/ CompleteResolution
    \/ FailResolution \/ ReleaseResolution

MNext ==
    \/ \E p \in MPlans : CreatePlan(p) \/ SavePlanItems(p) \/ PlanningFails(p)
    \/ \E j \in MJobs : EnqueueResolution(j) \/ PushResolution(j)
    \/ MediaWorkerStep
    \/ MediaApiCrash \/ ResolutionRaises \/ ResolutionEscapes \/ MediaWorkerCrash

\* The API pushes what it stored; the worker is restarted and polls.
MFairness ==
    /\ \A j \in MJobs : WF_mVars(PushResolution(j))
    /\ WF_mVars(MediaWorkerStep)

MSpec == MInit /\ [][MNext]_mVars /\ MFairness

-----------------------------------------------------------------------------
(* Properties.                                                             *)

\* Rows, lists and positions have their types.
MTypeOK ==
    /\ mPlan \in [MPlans -> {"none", "draft", "failed"}]
    /\ mItem \in [MItems -> [status : {"absent", "planned", "needs_approval", "resolving",
                                       "resolved", "failed"},
                             selected : SUBSET MAssets, attention : BOOLEAN]]
    /\ mJob \in [MJobs -> {"none", "queued", "running", "succeeded", "failed", "needs_approval"}]
    /\ mRedis \in [queue : Seq(MJobs), processing : Seq(MJobs)]
    /\ mWorker.job \in MJobs \cup {NoJob}

\* An item that says it is being resolved has a job that is not over, and one
\* that says it is resolved has a job that succeeded with the asset it shows.
ItemsFollowTheirJobs ==
    \A i \in MItems :
        /\ mItem[i].status = "resolving" => \E j \in MJobs : j[1] = i /\ MOpen(j)
        /\ mItem[i].status = "resolved" =>
              \E j \in MJobs : /\ j[1] = i /\ mJob[j] = "succeeded"
                               /\ AssetOf(j) \in mItem[i].selected \cap mRegistered
                               /\ mOwner[AssetOf(j)] # 0

\* publishing_blocked of get_plan.  (Mutant: a plan without assets is not held back.)
PublishingHeld(p) ==
    LET assets == {a \in MAssets : mOwner[a] = p}
    IN  \/ \E i \in ItemsOf(p) : mItem[i].status \notin {"resolved", "absent"}
        \/ \E a \in assets : ~Allowed(a)
PublishingBlocked(p) ==
    LET assets == {a \in MAssets : mOwner[a] = p}
    IN  \/ \E i \in ItemsOf(p) : mItem[i].status \notin {"resolved", "absent"}
        \/ assets = {}
        \/ \E a \in assets : ~Allowed(a)

\* Whatever was resolved under which plan first, a plan that does not block
\* publishing shows, for each of its items, an asset that may be published.
PublishableMeansAllowed ==
    \A p \in MPlans : mPlan[p] # "none" /\ ~PublishingBlocked(p) =>
        \A i \in ItemsOf(p) :
            mItem[i].selected # {} /\ \A a \in mItem[i].selected : Allowed(a)

\* However often a resolution is run, the project is charged for it once, and a
\* resolution that succeeded was charged.
OneCostPerResolution ==
    \A j \in MJobs : mCosts[j] <= 1 /\ (mJob[j] = "succeeded" => mCosts[j] = 1)

\* Every resolution whose id is not dropped ends.
ResolutionsSettle == \A j \in MJobs : MOpen(j) ~> ~MOpen(j) \/ j \in mLost
=============================================================================
