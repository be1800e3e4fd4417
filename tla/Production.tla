----------------------------- MODULE Production -----------------------------
(***************************************************************************)
(* The production package of one project: the editable timeline it is      *)
(* bound to, its subtitle and audio versions, its review approvals and its *)
(* render jobs, as PostgreSQL keeps them (apps/api/app/                    *)
(* production_repository.py and commit_mutation of timeline_repository.py).*)
(*                                                                         *)
(* Every action is one database transaction, taken as atomic: each locks   *)
(* the row it decides on.  EditRace.tla splits the two transactions that   *)
(* lock different rows.  The render worker is one process(); its rows are  *)
(* seen here only through start_render, complete_render and fail_render.   *)
(*                                                                         *)
(* A version id is minted together with a version number, so the number    *)
(* stands for both; version 0 is NULL.                                     *)
(***************************************************************************)
EXTENDS Integers, FiniteSets

CONSTANTS
    Renders,        \* ids of production_render_jobs rows
    Approvals,      \* ids of production_approvals rows
    None,           \* SQL NULL in an id column
    MaxVersion,     \* bound on the timeline's version counter
    MaxMixVersion   \* bound on the subtitle and audio version counters

ASSUME ProductionConstants ==
    /\ None \notin Renders \cup Approvals
    /\ MaxVersion \in Nat \ {0}
    /\ MaxMixVersion \in Nat \ {0}

VARIABLES
    timeline,       \* [version, approval_status, approved] of the timelines row
    package,        \* [bind, approval, review, final] of the packages row
    approval,       \* the approvals table
    render,         \* the render jobs table
    worker          \* where process() is, and on which render

vars == <<timeline, package, approval, render, worker>>

-----------------------------------------------------------------------------
Version == 0 .. MaxVersion
MixVersion == 0 .. MaxMixVersion

\* The tuple an approval or a render is bound to.
Bind == [timeline : Version, subtitle : MixVersion, audio : MixVersion]
NoBind == [timeline |-> 0, subtitle |-> 0, audio |-> 0]

LiveStatus == {"queued", "running", "awaiting_review", "ready"}
DeadStatus == {"stale", "cancelled", "failed", "failed_qc"}
RenderStatus == {"none"} \cup LiveStatus \cup DeadStatus
PendingApproval == {"awaiting_review", "approved"}
Decision == {"approved", "changes_requested", "rejected"}
ApprovalStatus == {"none", "awaiting_review"} \cup Decision

TimelineRow ==
    [version : 1 .. MaxVersion,
     approval_status : {"draft", "awaiting_review", "approved", "changes_requested"},
     approved : Version]
PackageRow ==
    [bind : Bind, approval : Approvals \cup {None},
     review : Renders \cup {None}, final : Renders \cup {None}]
RenderRow ==
    [status : RenderStatus, kind : {"review", "final"}, bind : Bind,
     approval : Approvals \cup {None}, cancel : BOOLEAN,
     qc : {"pending", "passed", "failed"}]
ApprovalRow ==
    [status : ApprovalStatus, bind : Bind, review : Renders \cup {None}]
NoRenderRow ==
    [status |-> "none", kind |-> "review", bind |-> NoBind,
     approval |-> None, cancel |-> FALSE, qc |-> "pending"]
NoApprovalRow == [status |-> "none", bind |-> NoBind, review |-> None]
Idle == [at |-> "idle", render |-> None]

\* create_timeline has stored version 1; no package yet.
Init ==
    /\ timeline = [version |-> 1, approval_status |-> "draft", approved |-> 0]
    /\ package = [bind |-> NoBind, approval |-> None, review |-> None, final |-> None]
    /\ approval = [a \in Approvals |-> NoApprovalRow]
    /\ render = [r \in Renders |-> NoRenderRow]
    /\ worker = Idle

-----------------------------------------------------------------------------
(* What the transactions share.                                            *)

PackageExists == package.bind.timeline # 0

\* _assert_current_timeline: the timeline row is read without a lock.
CurrentTimeline ==
    PackageExists /\ package.bind.timeline = timeline.version

\* UPDATE production_render_jobs SET status = 'stale' WHERE status IN (...).
\* (StaleButReady is the mutant whose list forgets 'ready'.)
StaleButReady(rows) ==
    [r \in Renders |->
        IF rows[r].status \in LiveStatus \ {"ready"}
        THEN [rows[r] EXCEPT !.status = "stale", !.cancel = TRUE]
        ELSE rows[r]]
Stale(rows) ==
    [r \in Renders |->
        IF rows[r].status \in LiveStatus
        THEN [rows[r] EXCEPT !.status = "stale", !.cancel = TRUE]
        ELSE rows[r]]

\* Withdraw the approvals in ids that are awaiting_review or approved.
Withdraw(rows, ids) ==
    [a \in Approvals |->
        IF a \in ids /\ rows[a].status \in PendingApproval
        THEN [rows[a] EXCEPT !.status = "changes_requested"]
        ELSE rows[a]]

DraftKeepingVersion(tl) == [tl EXCEPT !.approval_status = "draft"]
Draft(tl) == [tl EXCEPT !.approval_status = "draft", !.approved = 0]
Cleared(pkg) == [pkg EXCEPT !.approval = None, !.review = None, !.final = None]

\* _invalidate_locked, then the package moves to bind.
InvalidateKeepingApproval(bind) ==
    /\ UNCHANGED approval
    /\ render' = Stale(render)
    /\ timeline' = Draft(timeline)
    /\ package' = [Cleared(package) EXCEPT !.bind = bind]
InvalidateTo(bind) ==
    /\ approval' = Withdraw(approval, {package.approval})
    /\ render' = Stale(render)
    /\ timeline' = Draft(timeline)
    /\ package' = [Cleared(package) EXCEPT !.bind = bind]

\* _assert_approval_current.
ApprovalIsCurrentOrPending(a) ==
    /\ approval[a].bind = package.bind
    /\ package.approval = a
    /\ approval[a].status \in PendingApproval
ApprovalIsCurrent(a) ==
    /\ approval[a].bind = package.bind
    /\ package.approval = a
    /\ approval[a].status = "approved"

-----------------------------------------------------------------------------
(* The edit and package operations.                                        *)

\* commit_mutation withdraws every open approval of the package, not only the
\* current one, and leaves the package at the version it was built from.
CommitMutation ==
    /\ timeline.version < MaxVersion
    /\ timeline' = [Draft(timeline) EXCEPT !.version = timeline.version + 1]
    /\ IF PackageExists
       THEN /\ approval' = Withdraw(approval, Approvals)
            /\ render' = Stale(render)
            /\ package' = Cleared(package)
       ELSE UNCHANGED <<approval, render, package>>
    /\ UNCHANGED worker

\* create_or_refresh: the timeline version v was read in a session of its own
\* at some earlier moment, so v is any version the timeline has had.
CreateOrRefreshPackage(v) ==
    /\ v \in 1 .. timeline.version
    /\ package.bind.timeline # v
    /\ IF PackageExists
       THEN /\ package.bind.subtitle < MaxMixVersion
            /\ package.bind.audio < MaxMixVersion
            /\ InvalidateTo([timeline |-> v,
                             subtitle |-> package.bind.subtitle + 1,
                             audio |-> package.bind.audio + 1])
       ELSE /\ package' = [Cleared(package) EXCEPT !.bind =
                              [timeline |-> v, subtitle |-> 1, audio |-> 1]]
            /\ UNCHANGED <<timeline, approval, render>>
    /\ UNCHANGED worker

ReplaceSubtitles ==
    /\ CurrentTimeline
    /\ package.bind.subtitle < MaxMixVersion
    /\ InvalidateTo([package.bind EXCEPT !.subtitle = package.bind.subtitle + 1])
    /\ UNCHANGED worker

ReplaceAudioMix ==
    /\ CurrentTimeline
    /\ package.bind.audio < MaxMixVersion
    /\ InvalidateTo([package.bind EXCEPT !.audio = package.bind.audio + 1])
    /\ UNCHANGED worker

QueuedRow(kind, a) ==
    [NoRenderRow EXCEPT !.status = "queued", !.kind = kind,
                        !.bind = package.bind, !.approval = a]

CreateReviewRender(r) ==
    /\ CurrentTimeline
    /\ render[r].status = "none"
    /\ render' = [render EXCEPT ![r] = QueuedRow("review", None)]
    /\ package' = [package EXCEPT !.review = r]
    /\ UNCHANGED <<timeline, approval, worker>>

CreateFinalRender(r, a) ==
    /\ CurrentTimeline
    /\ ApprovalIsCurrent(a)
    /\ render[r].status = "none"
    /\ render' = [render EXCEPT ![r] = QueuedRow("final", a)]
    /\ package' = [package EXCEPT !.final = r]
    /\ UNCHANGED <<timeline, approval, worker>>

\* A running render only gets the flag; the worker acts on it.
CancelRender(r) ==
    /\ render[r].status \in {"queued", "running"}
    /\ render' = [render EXCEPT ![r].cancel = TRUE,
                     ![r].status = IF @ = "queued" THEN "cancelled" ELSE @]
    /\ UNCHANGED <<timeline, package, approval, worker>>

\* request_approval's condition on the review render.
AnyReview(r) ==
    /\ render[r].kind = "review"
    /\ render[r].bind = package.bind
ReviewPassed(r) ==
    /\ render[r].kind = "review"
    /\ render[r].status = "awaiting_review"
    /\ render[r].qc = "passed"
    /\ render[r].bind = package.bind

\* The new request supersedes the current approval, not the final renders.
RequestApproval(a, r) ==
    /\ CurrentTimeline
    /\ ReviewPassed(r)
    /\ approval[a].status = "none"
    /\ approval' = [Withdraw(approval, {package.approval}) EXCEPT ![a] =
                       [status |-> "awaiting_review", bind |-> package.bind, review |-> r]]
    /\ package' = [package EXCEPT !.approval = a]
    /\ timeline' = [timeline EXCEPT !.approval_status = "awaiting_review", !.approved = 0]
    /\ UNCHANGED <<render, worker>>

\* decide_approval does not look at the timeline's current version.  The
\* mutant copies the decision to the timeline row as it is.
DecideApprovalVerbatim(a, decision) ==
    /\ PackageExists
    /\ package.approval = a
    /\ approval[a].status = "awaiting_review"
    /\ approval' = [approval EXCEPT ![a].status = decision]
    /\ timeline' = [timeline EXCEPT !.approval_status = decision]
    /\ UNCHANGED <<package, render, worker>>
DecideApproval(a, decision) ==
    /\ PackageExists
    /\ package.approval = a
    /\ approval[a].status = "awaiting_review"
    /\ approval[a].bind = package.bind
    /\ approval' = [approval EXCEPT ![a].status = decision]
    /\ timeline' = IF decision = "approved"
                   THEN [timeline EXCEPT !.approval_status = "approved",
                                         !.approved = package.bind.timeline]
                   ELSE [timeline EXCEPT !.approval_status = "changes_requested",
                                         !.approved = 0]
    /\ UNCHANGED <<package, render, worker>>

-----------------------------------------------------------------------------
(* The render worker.                                                      *)

\* start_render: also re-runs a render that a crash left running.
StartRender(r) ==
    /\ worker = Idle
    /\ render[r].status \in {"queued", "running"}
    /\ IF render[r].cancel
       THEN /\ render' = [render EXCEPT ![r].status = "cancelled"]
            /\ UNCHANGED worker
       ELSE /\ render' = [render EXCEPT ![r].status = "running"]
            /\ worker' = [at |-> "rendering", render |-> r]
    /\ UNCHANGED <<timeline, package, approval>>

\* complete_render, with the row a late completion must not revive.
CompletedRowIgnoringStale(row) ==
    IF row.cancel /\ row.status # "stale"
    THEN [row EXCEPT !.status = "cancelled"]
    ELSE [row EXCEPT !.status = IF row.kind = "review" THEN "awaiting_review" ELSE "ready",
                     !.qc = "passed"]
CompletedRow(row) ==
    IF row.cancel \/ row.status = "stale"
    THEN [row EXCEPT !.status = IF row.status = "stale" THEN "stale" ELSE "cancelled"]
    ELSE [row EXCEPT !.status = IF row.kind = "review" THEN "awaiting_review" ELSE "ready",
                     !.qc = "passed"]

CompleteRender(r) ==
    /\ worker = [at |-> "rendering", render |-> r]
    /\ render' = [render EXCEPT ![r] = CompletedRow(render[r])]
    /\ worker' = [worker EXCEPT !.at = "recording_costs"]
    /\ UNCHANGED <<timeline, package, approval>>

\* fail_render: a stale row stays stale, every other row is overwritten.
FailedRow(row, code) ==
    IF row.status = "stale" THEN row
    ELSE [row EXCEPT
            !.status = IF row.cancel \/ code = "RENDER_CANCELLED" THEN "cancelled"
                       ELSE IF code = "QC_FAILED" THEN "failed_qc" ELSE "failed",
            !.qc = IF code = "QC_FAILED" THEN "failed" ELSE @]

\* An exception inside process().  RenderCancelledError is raised only after
\* the flag was read as set; recording costs can raise nothing but others.
FailRender(r, code) ==
    /\ worker.render = r
    /\ \/ worker.at = "rendering" /\ (code = "RENDER_CANCELLED" => render[r].cancel)
       \/ worker.at = "recording_costs" /\ code = "PRODUCTION_RENDER_FAILED"
    /\ render' = [render EXCEPT ![r] = FailedRow(render[r], code)]
    /\ worker' = Idle
    /\ UNCHANGED <<timeline, package, approval>>

\* _record_costs succeeds and process() returns.
RecordCosts ==
    /\ worker.at = "recording_costs"
    /\ worker' = Idle
    /\ UNCHANGED <<timeline, package, approval, render>>

\* The worker process dies; its row keeps the status it has.
WorkerCrash ==
    /\ worker # Idle
    /\ worker' = Idle
    /\ UNCHANGED <<timeline, package, approval, render>>

-----------------------------------------------------------------------------
FailureCode == {"RENDER_CANCELLED", "QC_FAILED", "PRODUCTION_RENDER_FAILED"}

Edit ==
    \/ CommitMutation
    \/ \E v \in 1 .. MaxVersion : CreateOrRefreshPackage(v)
    \/ ReplaceSubtitles
    \/ ReplaceAudioMix

Review ==
    \/ \E r \in Renders : CreateReviewRender(r)
    \/ \E r \in Renders, a \in Approvals : CreateFinalRender(r, a)
    \/ \E r \in Renders : CancelRender(r)
    \/ \E r \in Renders, a \in Approvals : RequestApproval(a, r)
    \/ \E a \in Approvals, d \in Decision : DecideApproval(a, d)

Work ==
    \/ \E r \in Renders : StartRender(r)
    \/ \E r \in Renders : CompleteRender(r)
    \/ \E r \in Renders, c \in FailureCode : FailRender(r, c)
    \/ RecordCosts
    \/ WorkerCrash

Next == Edit \/ Review \/ Work

Spec == Init /\ [][Next]_vars

-----------------------------------------------------------------------------
(* Properties.                                                             *)

\* Every row and pointer has its column's type.
TypeOK ==
    /\ timeline \in TimelineRow
    /\ package \in PackageRow
    /\ approval \in [Approvals -> ApprovalRow]
    /\ render \in [Renders -> RenderRow]
    /\ worker \in [at : {"idle", "rendering", "recording_costs"},
                   render : Renders \cup {None}]

\* A render that is queued, running, awaiting review or ready was made from
\* the subtitle, audio and timeline versions the package has now, and the
\* package is at the timeline's current version: commit_mutation and
\* _invalidate_locked leave no render of an older tuple usable, whatever the
\* worker was doing when the edit came.
LiveRendersAreCurrent ==
    \A r \in Renders : render[r].status \in LiveStatus =>
        /\ render[r].bind = package.bind
        /\ CurrentTimeline

\* An approval that is open or granted is the package's current approval and
\* is bound to the current tuple; so at most one approval is ever in force.
OneApprovalInForce ==
    \A a \in Approvals : approval[a].status \in PendingApproval =>
        /\ package.approval = a
        /\ approval[a].bind = package.bind
        /\ CurrentTimeline

\* The approval state shown on the timeline row, which five different
\* transactions write, is the state of the package's current approval.
TimelineShowsApproval ==
    /\ timeline.approval_status =
          IF package.approval = None THEN "draft"
          ELSE IF approval[package.approval].status = "rejected" THEN "changes_requested"
          ELSE approval[package.approval].status
    /\ timeline.approved =
          IF timeline.approval_status = "approved" THEN timeline.version ELSE 0

\* The tuple a person approved is the one that a review render with passing
\* QC showed them.
ApprovalShowsReviewedTuple ==
    \A a \in Approvals : approval[a].status # "none" =>
        LET r == approval[a].review IN
        /\ r \in Renders
        /\ render[r].kind = "review"
        /\ render[r].qc = "passed"
        /\ render[r].bind = approval[a].bind

\* What an approval means, in one property.
ApprovalsHold == OneApprovalInForce /\ TimelineShowsApproval /\ ApprovalShowsReviewedTuple

\* A usable final render was authorised by an approval of exactly its tuple,
\* which is still approved unless a newer request for that tuple replaced it.
FinalRendersAreApproved ==
    \A r \in Renders :
        render[r].status \in LiveStatus /\ render[r].kind = "final" =>
            LET a == render[r].approval IN
            /\ a \in Approvals
            /\ approval[a].bind = render[r].bind
            /\ package.approval # None
            /\ package.approval = a => approval[a].status = "approved"

\* No later edit, late completion, failure or restart changes the status of a
\* render once it is stale, cancelled, failed or failed_qc.
DeadRendersStayDead ==
    [][\A r \in Renders :
        render[r].status \in DeadStatus => render'[r].status = render[r].status]_vars
=============================================================================
