-------------------------- MODULE ProductionProofs --------------------------
(***************************************************************************)
(* Proofs about Production.tla for any sets of renders and approvals and   *)
(* any bounds.                                                             *)
(***************************************************************************)
EXTENDS Production, TLAPS

-----------------------------------------------------------------------------
(* The inductive invariant.                                                *)

\* What process() may find in the row it holds.
WorkerRow ==
    /\ worker.at = "idle" => worker = Idle
    /\ worker.at # "idle" => worker.render \in Renders
    /\ worker.at = "rendering" =>
          /\ render[worker.render].status \in {"running", "stale"}
          /\ render[worker.render].qc = "pending"
    /\ worker.at = "recording_costs" =>
          render[worker.render].status \in {"awaiting_review", "ready", "stale", "cancelled"}

\* What the flags of a row say about its status.
RowHistory ==
    \A r \in Renders :
        /\ render[r].status = "cancelled" => render[r].cancel
        /\ render[r].status \in {"none", "queued", "running"} => render[r].qc = "pending"

\* The approval a final render names has been requested.
ApprovalExists ==
    \A r \in Renders : render[r].approval # None =>
        approval[render[r].approval].status # "none"

\* The package's approval exists, is of the current tuple, and the package
\* that has one is current.
CurrentApproval ==
    package.approval # None =>
        /\ approval[package.approval].status # "none"
        /\ approval[package.approval].bind = package.bind
        /\ CurrentTimeline

IInv ==
    /\ TypeOK
    /\ WorkerRow
    /\ RowHistory
    /\ ApprovalExists
    /\ CurrentApproval
    /\ LiveRendersAreCurrent
    /\ OneApprovalInForce
    /\ TimelineShowsApproval
    /\ ApprovalShowsReviewedTuple
    /\ FinalRendersAreApproved

-----------------------------------------------------------------------------
(* Facts about the shared pieces.                                          *)

\* Marking renders stale gives rows again.
LEMMA StaleType ==
    ASSUME NEW rows \in [Renders -> RenderRow]
    PROVE  Stale(rows) \in [Renders -> RenderRow]
BY DEF Stale, RenderRow, RenderStatus, DeadStatus

\* Withdrawing approvals gives rows again.
LEMMA WithdrawType ==
    ASSUME NEW rows \in [Approvals -> ApprovalRow], NEW ids
    PROVE  Withdraw(rows, ids) \in [Approvals -> ApprovalRow]
BY DEF Withdraw, ApprovalRow, ApprovalStatus, Decision

\* Version-binding tuples used by the actions are tuples.
LEMMA BindType ==
    /\ NoBind \in Bind
    /\ \A t \in Version, s, m \in MixVersion :
          [timeline |-> t, subtitle |-> s, audio |-> m] \in Bind
BY ProductionConstants DEF NoBind, Bind, Version, MixVersion

\* NULL is a version.
LEMMA ZeroVersion == 0 \in Version
BY ProductionConstants DEF Version

\* Writing the two approval columns of a timeline row.
LEMMA TimelineUpdate ==
    ASSUME NEW tl \in TimelineRow, NEW v \in Version,
           NEW s \in {"draft", "awaiting_review", "approved", "changes_requested"}
    PROVE  [tl EXCEPT !.approval_status = s, !.approved = v] \in TimelineRow
<1> SUFFICES ASSUME NEW X, TimelineRow = [version : X,
                 approval_status : {"draft", "awaiting_review", "approved", "changes_requested"},
                 approved : Version]
             PROVE  [tl EXCEPT !.approval_status = s, !.approved = v] \in TimelineRow
  BY DEF TimelineRow
<1> QED
  OBVIOUS

\* A timeline row reset to draft is a timeline row of the same version.
LEMMA DraftType ==
    ASSUME NEW tl \in TimelineRow
    PROVE  /\ Draft(tl) \in TimelineRow
           /\ Draft(tl).version = tl.version
           /\ Draft(tl).approval_status = "draft"
           /\ Draft(tl).approved = 0
<1>1. Draft(tl) \in TimelineRow
  BY ZeroVersion, TimelineUpdate DEF Draft
<1> QED
  BY <1>1 DEF Draft, TimelineRow

\* A cleared package is a package, and so is one moved to another tuple.
LEMMA ClearedType ==
    ASSUME NEW pkg \in PackageRow, NEW b \in Bind
    PROVE  /\ Cleared(pkg) \in PackageRow
           /\ [Cleared(pkg) EXCEPT !.bind = b] \in PackageRow
BY DEF Cleared, PackageRow

\* complete_render writes a row.
LEMMA CompletedRowType ==
    ASSUME NEW row \in RenderRow
    PROVE  CompletedRow(row) \in RenderRow
<1>1. CASE row.cancel \/ row.status = "stale"
  BY <1>1 DEF CompletedRow, RenderRow, RenderStatus, DeadStatus
<1>2. CASE ~(row.cancel \/ row.status = "stale")
  BY <1>2 DEF CompletedRow, RenderRow, RenderStatus, LiveStatus
<1> QED
  BY <1>1, <1>2

\* fail_render writes a row.
LEMMA FailedRowType ==
    ASSUME NEW row \in RenderRow, NEW code
    PROVE  FailedRow(row, code) \in RenderRow
<1>1. CASE row.status = "stale"
  BY <1>1 DEF FailedRow
<1>2. CASE row.status # "stale"
  BY <1>2 DEF FailedRow, RenderRow, RenderStatus, DeadStatus
<1> QED
  BY <1>1, <1>2

\* create_render inserts a row.
LEMMA QueuedRowType ==
    ASSUME NEW kind \in {"review", "final"}, NEW a \in Approvals \cup {None},
           package.bind \in Bind
    PROVE  QueuedRow(kind, a) \in RenderRow
BY BindType DEF QueuedRow, NoRenderRow, RenderRow, RenderStatus, LiveStatus

-----------------------------------------------------------------------------
(* Type correctness.                                                       *)

\* The initial rows have their types.
LEMMA InitType == Init => TypeOK
BY ProductionConstants, BindType
DEF Init, TypeOK, TimelineRow, PackageRow, Version, RenderRow, ApprovalRow, NoRenderRow, NoApprovalRow,
    RenderStatus, ApprovalStatus, Idle

\* Every transaction writes values of the columns' types.
LEMMA NextType == TypeOK /\ [Next]_vars => TypeOK'
<1> SUFFICES ASSUME TypeOK, [Next]_vars PROVE TypeOK'
  OBVIOUS
<1>0. /\ timeline \in TimelineRow
      /\ package \in PackageRow
      /\ package.bind \in Bind
      /\ package.bind.timeline \in Version
      /\ package.bind.subtitle \in MixVersion
      /\ package.bind.audio \in MixVersion
      /\ timeline.version \in 1 .. MaxVersion
      /\ \A r \in Renders : render[r] \in RenderRow
      /\ \A a \in Approvals : approval[a] \in ApprovalRow
  BY DEF TypeOK, PackageRow, Bind, TimelineRow
<1>inv. ASSUME NEW b \in Bind, InvalidateTo(b), UNCHANGED worker PROVE TypeOK'
  <2>1. timeline' \in TimelineRow
    BY <1>inv, <1>0, DraftType DEF InvalidateTo
  <2>2. package' \in PackageRow
    BY <1>inv, <1>0, ClearedType DEF InvalidateTo
  <2> QED
    BY <1>inv, <2>1, <2>2, StaleType, WithdrawType DEF InvalidateTo, TypeOK
<1>1. CASE CommitMutation
  <2>1. timeline' \in TimelineRow
    <3>1. timeline.version + 1 \in 1 .. MaxVersion
      BY <1>1, <1>0, ProductionConstants DEF CommitMutation
    <3> QED
      BY <1>1, <1>0, <3>1, DraftType DEF CommitMutation, TimelineRow
  <2>2. package' \in PackageRow
    BY <1>1, <1>0, ClearedType DEF CommitMutation
  <2> QED
    BY <1>1, <2>1, <2>2, StaleType, WithdrawType DEF CommitMutation, TypeOK
<1>2. ASSUME NEW v \in 1 .. MaxVersion, CreateOrRefreshPackage(v) PROVE TypeOK'
  <2>1. v \in Version
    BY DEF Version
  <2>2. CASE PackageExists
    <3> DEFINE b == [timeline |-> v, subtitle |-> package.bind.subtitle + 1,
                     audio |-> package.bind.audio + 1]
    <3>1. package.bind.subtitle + 1 \in MixVersion /\ package.bind.audio + 1 \in MixVersion
      BY <1>2, <1>0, <2>2, ProductionConstants DEF CreateOrRefreshPackage, MixVersion
    <3>2. b \in Bind
      BY <2>1, <3>1, BindType
    <3>3. InvalidateTo(b) /\ UNCHANGED worker
      BY <1>2, <2>2 DEF CreateOrRefreshPackage
    <3> QED
      BY <3>2, <3>3, <1>inv
  <2>3. CASE ~PackageExists
    <3>1. [timeline |-> v, subtitle |-> 1, audio |-> 1] \in Bind
      BY <2>1, ProductionConstants DEF Bind, MixVersion
    <3>2. package' \in PackageRow
      BY <1>2, <1>0, <2>3, <3>1, ClearedType DEF CreateOrRefreshPackage
    <3> QED
      BY <1>2, <2>3, <3>2 DEF CreateOrRefreshPackage, TypeOK
  <2> QED
    BY <2>2, <2>3
<1>3. CASE ReplaceSubtitles
  <2> DEFINE b == [package.bind EXCEPT !.subtitle = package.bind.subtitle + 1]
  <2>1. b \in Bind
    BY <1>3, <1>0, ProductionConstants DEF ReplaceSubtitles, Bind, MixVersion
  <2>2. InvalidateTo(b) /\ UNCHANGED worker
    BY <1>3 DEF ReplaceSubtitles
  <2> QED
    BY <2>1, <2>2, <1>inv
<1>4. CASE ReplaceAudioMix
  <2> DEFINE b == [package.bind EXCEPT !.audio = package.bind.audio + 1]
  <2>1. b \in Bind
    BY <1>4, <1>0, ProductionConstants DEF ReplaceAudioMix, Bind, MixVersion
  <2>2. InvalidateTo(b) /\ UNCHANGED worker
    BY <1>4 DEF ReplaceAudioMix
  <2> QED
    BY <2>1, <2>2, <1>inv
<1>5. ASSUME NEW r \in Renders, CreateReviewRender(r) PROVE TypeOK'
  <2>1. QueuedRow("review", None) \in RenderRow
    BY <1>0, QueuedRowType
  <2>2. package' \in PackageRow
    BY <1>5, <1>0 DEF CreateReviewRender, PackageRow
  <2> QED
    BY <1>5, <2>1, <2>2 DEF CreateReviewRender, TypeOK
<1>6. ASSUME NEW r \in Renders, NEW a \in Approvals, CreateFinalRender(r, a) PROVE TypeOK'
  <2>1. QueuedRow("final", a) \in RenderRow
    BY <1>0, QueuedRowType
  <2>2. package' \in PackageRow
    BY <1>6, <1>0 DEF CreateFinalRender, PackageRow
  <2> QED
    BY <1>6, <2>1, <2>2 DEF CreateFinalRender, TypeOK
<1>7. ASSUME NEW r \in Renders, CancelRender(r) PROVE TypeOK'
  <2> DEFINE s == IF render[r].status = "queued" THEN "cancelled" ELSE render[r].status
  <2>1. s \in RenderStatus
    BY <1>0 DEF RenderRow, RenderStatus, DeadStatus
  <2>2. [render[r] EXCEPT !.cancel = TRUE, !.status = s] \in RenderRow
    BY <1>0, <2>1 DEF RenderRow
  <2>3. render' = [render EXCEPT ![r] = [render[r] EXCEPT !.cancel = TRUE, !.status = s]]
    BY <1>7, <1>0 DEF CancelRender, TypeOK, RenderRow
  <2> QED
    BY <1>7, <2>2, <2>3 DEF CancelRender, TypeOK
<1>8. ASSUME NEW r \in Renders, NEW a \in Approvals, RequestApproval(a, r) PROVE TypeOK'
  <2>1. [status |-> "awaiting_review", bind |-> package.bind, review |-> r] \in ApprovalRow
    BY <1>0 DEF ApprovalRow, ApprovalStatus
  <2>2. Withdraw(approval, {package.approval}) \in [Approvals -> ApprovalRow]
    BY WithdrawType DEF TypeOK
  <2>3. approval' \in [Approvals -> ApprovalRow]
    BY <1>8, <2>1, <2>2 DEF RequestApproval
  <2>4. timeline' \in TimelineRow
    BY <1>8, <1>0, ZeroVersion, TimelineUpdate DEF RequestApproval
  <2>5. package' \in PackageRow
    BY <1>8, <1>0 DEF RequestApproval, PackageRow
  <2> QED
    BY <1>8, <2>3, <2>4, <2>5 DEF RequestApproval, TypeOK
<1>9. ASSUME NEW a \in Approvals, NEW d \in Decision, DecideApproval(a, d) PROVE TypeOK'
  <2>1. timeline' \in TimelineRow
    BY <1>9, <1>0, ZeroVersion, TimelineUpdate DEF DecideApproval
  <2>2. approval' \in [Approvals -> ApprovalRow]
    BY <1>9, <1>0 DEF DecideApproval, TypeOK, ApprovalRow, ApprovalStatus
  <2> QED
    BY <1>9, <2>1, <2>2 DEF DecideApproval, TypeOK
<1>10. ASSUME NEW r \in Renders, StartRender(r) PROVE TypeOK'
  <2>1. render' \in [Renders -> RenderRow]
    BY <1>10, <1>0 DEF StartRender, TypeOK, RenderRow, RenderStatus, LiveStatus, DeadStatus
  <2> QED
    BY <1>10, <2>1 DEF StartRender, TypeOK
<1>11. ASSUME NEW r \in Renders, CompleteRender(r) PROVE TypeOK'
  BY <1>11, <1>0, CompletedRowType DEF CompleteRender, TypeOK
<1>12. ASSUME NEW r \in Renders, NEW c \in FailureCode, FailRender(r, c) PROVE TypeOK'
  BY <1>12, <1>0, FailedRowType DEF FailRender, TypeOK, Idle
<1>13. CASE RecordCosts
  BY <1>13 DEF RecordCosts, TypeOK, Idle
<1>14. CASE WorkerCrash
  BY <1>14 DEF WorkerCrash, TypeOK, Idle
<1>15. CASE UNCHANGED vars
  BY <1>15 DEF vars, TypeOK
<1> QED
  BY <1>1, <1>2, <1>3, <1>4, <1>5, <1>6, <1>7, <1>8, <1>9, <1>10, <1>11, <1>12,
     <1>13, <1>14, <1>15
  DEF Next, Edit, Review, Work

\* Every reachable state of the package, its approvals, renders and worker is
\* well typed.
THEOREM TypeCorrect == Spec => []TypeOK
BY InitType, NextType, PTL DEF Spec

-----------------------------------------------------------------------------
(* The inductive step, one lemma per way a transaction disturbs the tables.*)

\* Stale touches the status and the flag only, and no row it returns is live.
LEMMA StaleFacts ==
    ASSUME NEW rows \in [Renders -> RenderRow], NEW r \in Renders
    PROVE  /\ Stale(rows)[r].status =
                 IF rows[r].status \in LiveStatus THEN "stale" ELSE rows[r].status
           /\ Stale(rows)[r].status \notin LiveStatus
           /\ rows[r].cancel => Stale(rows)[r].cancel
           /\ Stale(rows)[r].bind = rows[r].bind
           /\ Stale(rows)[r].kind = rows[r].kind
           /\ Stale(rows)[r].approval = rows[r].approval
           /\ Stale(rows)[r].qc = rows[r].qc
<1>1. rows[r] \in RenderRow
  OBVIOUS
<1>2. CASE rows[r].status \in LiveStatus
  BY <1>1, <1>2 DEF Stale, RenderRow, LiveStatus
<1>3. CASE rows[r].status \notin LiveStatus
  BY <1>1, <1>3 DEF Stale
<1> QED
  BY <1>2, <1>3

\* Withdraw touches the status of open approvals only.
LEMMA WithdrawFacts ==
    ASSUME NEW rows \in [Approvals -> ApprovalRow], NEW ids, NEW a \in Approvals
    PROVE  /\ Withdraw(rows, ids)[a].status =
                 IF a \in ids /\ rows[a].status \in PendingApproval
                 THEN "changes_requested" ELSE rows[a].status
           /\ Withdraw(rows, ids)[a].bind = rows[a].bind
           /\ Withdraw(rows, ids)[a].review = rows[a].review
<1>1. rows[a] \in ApprovalRow
  OBVIOUS
<1>2. CASE a \in ids /\ rows[a].status \in PendingApproval
  BY <1>1, <1>2 DEF Withdraw, ApprovalRow
<1>3. CASE ~(a \in ids /\ rows[a].status \in PendingApproval)
  BY <1>1, <1>3 DEF Withdraw
<1> QED
  BY <1>2, <1>3

\* Every invalidation, by an edit of the timeline, the subtitles or the audio
\* mix or by a refresh, keeps the invariant: it leaves no live render and no
\* open approval, and resets the timeline row.
LEMMA InvalidationStep ==
    ASSUME IInv, TypeOK', UNCHANGED worker, NEW ids,
           render' = Stale(render),
           approval' = Withdraw(approval, ids),
           \A a \in Approvals : approval[a].status \in PendingApproval => a \in ids,
           package'.approval = None,
           timeline'.approval_status = "draft",
           timeline'.approved = 0
    PROVE  IInv'
<1>1. /\ render \in [Renders -> RenderRow]
      /\ approval \in [Approvals -> ApprovalRow]
  BY DEF IInv, TypeOK
<1>2. \A r \in Renders :
          /\ render'[r].status = IF render[r].status \in LiveStatus THEN "stale"
                                 ELSE render[r].status
          /\ render'[r].status \notin LiveStatus
          /\ render[r].cancel => render'[r].cancel
          /\ render'[r].bind = render[r].bind
          /\ render'[r].kind = render[r].kind
          /\ render'[r].approval = render[r].approval
          /\ render'[r].qc = render[r].qc
  BY <1>1, StaleFacts
<1>3. \A a \in Approvals :
          /\ approval'[a].status = IF approval[a].status \in PendingApproval
                                   THEN "changes_requested" ELSE approval[a].status
          /\ approval'[a].bind = approval[a].bind
          /\ approval'[a].review = approval[a].review
  BY <1>1, WithdrawFacts
<1>4. WorkerRow'
  BY <1>2 DEF IInv, WorkerRow, LiveStatus, Idle
<1>5. RowHistory'
  BY <1>2 DEF IInv, RowHistory, LiveStatus
<1>e. ApprovalExists'
  <2>1. \A r \in Renders : render[r].approval \in Approvals \cup {None}
    BY <1>1 DEF RenderRow
  <2> QED
    BY <1>2, <1>3, <2>1 DEF IInv, ApprovalExists
<1>6. CurrentApproval'
  BY DEF CurrentApproval
<1>7. LiveRendersAreCurrent' /\ FinalRendersAreApproved'
  BY <1>2 DEF LiveRendersAreCurrent, FinalRendersAreApproved
<1>8. OneApprovalInForce'
  BY <1>3 DEF OneApprovalInForce, PendingApproval
<1>9. TimelineShowsApproval'
  BY DEF TimelineShowsApproval
<1>10. ApprovalShowsReviewedTuple'
  BY <1>2, <1>3 DEF IInv, ApprovalShowsReviewedTuple, PendingApproval
<1> QED
  BY <1>4, <1>5, <1>e, <1>6, <1>7, <1>8, <1>9, <1>10 DEF IInv

\* A transaction on one render row keeps the invariant when it revives no row,
\* keeps what the row is bound to, and keeps a passed QC.
LEMMA RowStep ==
    ASSUME IInv, TypeOK', WorkerRow', UNCHANGED <<timeline, package, approval>>,
           NEW r \in Renders, NEW row \in RenderRow,
           render' = [render EXCEPT ![r] = row],
           row.bind = render[r].bind,
           row.kind = render[r].kind,
           row.approval = render[r].approval,
           row.status \in LiveStatus => render[r].status \in LiveStatus,
           render[r].qc = "passed" => row.qc = "passed",
           row.status = "cancelled" => row.cancel,
           row.status \in {"none", "queued", "running"} => row.qc = "pending"
    PROVE  IInv'
<1>1. render \in [Renders -> RenderRow]
  BY DEF IInv, TypeOK
<1>2. /\ render'[r] = row
      /\ \A q \in Renders \ {r} : render'[q] = render[q]
  BY <1>1
<1>3. RowHistory' /\ ApprovalExists'
  BY <1>2 DEF IInv, RowHistory, ApprovalExists
<1>4. CurrentTimeline' = CurrentTimeline
  BY DEF CurrentTimeline, PackageExists
<1>5. CurrentApproval'
  BY <1>4 DEF IInv, CurrentApproval
<1>6. LiveRendersAreCurrent'
  BY <1>2, <1>4 DEF IInv, LiveRendersAreCurrent
<1>7. OneApprovalInForce'
  BY <1>4 DEF IInv, OneApprovalInForce
<1>8. TimelineShowsApproval'
  BY DEF IInv, TimelineShowsApproval
<1>9. ApprovalShowsReviewedTuple'
  <2> SUFFICES ASSUME NEW a \in Approvals, approval[a].status # "none"
               PROVE  /\ approval[a].review \in Renders
                      /\ render'[approval[a].review].kind = "review"
                      /\ render'[approval[a].review].qc = "passed"
                      /\ render'[approval[a].review].bind = approval[a].bind
    BY DEF ApprovalShowsReviewedTuple
  <2>1. /\ approval[a].review \in Renders
        /\ render[approval[a].review].kind = "review"
        /\ render[approval[a].review].qc = "passed"
        /\ render[approval[a].review].bind = approval[a].bind
    BY DEF IInv, ApprovalShowsReviewedTuple
  <2> QED
    BY <1>2, <2>1
<1>10. FinalRendersAreApproved'
  BY <1>2 DEF IInv, FinalRendersAreApproved
<1> QED
  BY <1>3, <1>5, <1>6, <1>7, <1>8, <1>9, <1>10 DEF IInv

\* The initial state satisfies the invariant.
LEMMA InitInv == Init => IInv
<1> SUFFICES ASSUME Init PROVE IInv
  OBVIOUS
<1>1. TypeOK
  BY InitType
<1>2. /\ \A r \in Renders : render[r].status = "none" /\ render[r].qc = "pending"
      /\ \A a \in Approvals : approval[a].status = "none"
      /\ package.approval = None
      /\ worker = Idle
      /\ timeline.approval_status = "draft" /\ timeline.approved = 0
  BY DEF Init, NoRenderRow, NoApprovalRow
<1>3. WorkerRow /\ RowHistory /\ ApprovalExists
  BY <1>2 DEF WorkerRow, RowHistory, ApprovalExists, Idle, Init, NoRenderRow
<1>4. LiveRendersAreCurrent /\ FinalRendersAreApproved
  BY <1>2 DEF LiveRendersAreCurrent, FinalRendersAreApproved, LiveStatus
<1>5. CurrentApproval /\ OneApprovalInForce /\ ApprovalShowsReviewedTuple
  BY <1>2 DEF CurrentApproval, OneApprovalInForce, ApprovalShowsReviewedTuple, PendingApproval
<1>6. TimelineShowsApproval
  BY <1>2 DEF TimelineShowsApproval
<1> QED
  BY <1>1, <1>3, <1>4, <1>5, <1>6 DEF IInv

\* Every step of the API and of the worker keeps the invariant.
LEMMA NextInv == IInv /\ [Next]_vars => IInv'
<1> SUFFICES ASSUME IInv, [Next]_vars PROVE IInv'
  OBVIOUS
<1>t. TypeOK /\ TypeOK'
  BY NextType DEF IInv
<1>0. /\ timeline \in TimelineRow
      /\ package \in PackageRow
      /\ package.bind \in Bind
      /\ render \in [Renders -> RenderRow]
      /\ approval \in [Approvals -> ApprovalRow]
      /\ \A r \in Renders : render[r] \in RenderRow
      /\ \A a \in Approvals : approval[a] \in ApprovalRow
  BY <1>t DEF TypeOK, PackageRow
<1>n. ~PackageExists =>
          /\ package.approval = None
          /\ \A r \in Renders : render[r].status \notin LiveStatus
          /\ \A a \in Approvals : approval[a].status \notin PendingApproval
  BY DEF IInv, CurrentApproval, LiveRendersAreCurrent, OneApprovalInForce, CurrentTimeline
<1>inv. ASSUME NEW b \in Bind, InvalidateTo(b), UNCHANGED worker PROVE IInv'
  <2>1. package'.approval = None
    BY <1>inv, <1>0 DEF InvalidateTo, Cleared, PackageRow
  <2>2. timeline'.approval_status = "draft" /\ timeline'.approved = 0
    BY <1>inv, <1>0, DraftType DEF InvalidateTo
  <2>3. \A a \in Approvals : approval[a].status \in PendingApproval => a \in {package.approval}
    BY DEF IInv, OneApprovalInForce
  <2> QED
    BY <1>inv, <1>t, <2>1, <2>2, <2>3, InvalidationStep DEF InvalidateTo
<1>1. CASE CommitMutation
  <2>1. timeline'.approval_status = "draft" /\ timeline'.approved = 0
    BY <1>1, <1>0, DraftType DEF CommitMutation, TimelineRow
  <2>2. CASE PackageExists
    <3>1. package'.approval = None
      BY <1>1, <1>0, <2>2 DEF CommitMutation, Cleared, PackageRow
    <3> QED
      BY <1>1, <1>t, <2>1, <2>2, <3>1, InvalidationStep DEF CommitMutation
  <2>3. CASE ~PackageExists
    <3>1. UNCHANGED <<approval, render, package, worker>>
      BY <1>1, <2>3 DEF CommitMutation
    <3>2. WorkerRow' /\ RowHistory' /\ ApprovalExists' /\ ApprovalShowsReviewedTuple'
      BY <3>1 DEF IInv, WorkerRow, RowHistory, ApprovalExists, ApprovalShowsReviewedTuple, Idle
    <3>3. CurrentApproval' /\ LiveRendersAreCurrent' /\ OneApprovalInForce' /\ FinalRendersAreApproved'
      BY <3>1, <1>n, <2>3
      DEF CurrentApproval, LiveRendersAreCurrent, OneApprovalInForce, FinalRendersAreApproved
    <3>4. TimelineShowsApproval'
      BY <3>1, <1>n, <2>1, <2>3 DEF TimelineShowsApproval
    <3> QED
      BY <1>t, <3>2, <3>3, <3>4 DEF IInv
  <2> QED
    BY <2>2, <2>3
<1>2. ASSUME NEW v \in 1 .. MaxVersion, CreateOrRefreshPackage(v) PROVE IInv'
  <2>1. CASE PackageExists
    <3> DEFINE b == [timeline |-> v, subtitle |-> package.bind.subtitle + 1,
                     audio |-> package.bind.audio + 1]
    <3>1. InvalidateTo(b) /\ UNCHANGED worker
      BY <1>2, <2>1 DEF CreateOrRefreshPackage
    <3>2. package'.bind = b /\ package'.bind \in Bind
      BY <3>1, <1>0, <1>t DEF InvalidateTo, Cleared, TypeOK, PackageRow
    <3> QED
      BY <3>1, <3>2, <1>inv
  <2>2. CASE ~PackageExists
    <3>1. UNCHANGED <<timeline, approval, render, worker>> /\ package'.approval = None
      BY <1>2, <1>0, <2>2 DEF CreateOrRefreshPackage, Cleared, PackageRow
    <3>2. WorkerRow' /\ RowHistory' /\ ApprovalExists' /\ ApprovalShowsReviewedTuple'
      BY <3>1 DEF IInv, WorkerRow, RowHistory, ApprovalExists, ApprovalShowsReviewedTuple, Idle
    <3>3. CurrentApproval' /\ LiveRendersAreCurrent' /\ OneApprovalInForce' /\ FinalRendersAreApproved'
      BY <3>1, <1>n, <2>2
      DEF CurrentApproval, LiveRendersAreCurrent, OneApprovalInForce, FinalRendersAreApproved
    <3>4. TimelineShowsApproval'
      BY <3>1, <1>n, <2>2 DEF IInv, TimelineShowsApproval
    <3> QED
      BY <1>t, <3>2, <3>3, <3>4 DEF IInv
  <2> QED
    BY <2>1, <2>2
<1>3. CASE ReplaceSubtitles
  <2> DEFINE b == [package.bind EXCEPT !.subtitle = package.bind.subtitle + 1]
  <2>1. InvalidateTo(b) /\ UNCHANGED worker
    BY <1>3 DEF ReplaceSubtitles
  <2>2. package'.bind = b /\ package'.bind \in Bind
    BY <2>1, <1>0, <1>t DEF InvalidateTo, Cleared, TypeOK, PackageRow
  <2> QED
    BY <2>1, <2>2, <1>inv
<1>4. CASE ReplaceAudioMix
  <2> DEFINE b == [package.bind EXCEPT !.audio = package.bind.audio + 1]
  <2>1. InvalidateTo(b) /\ UNCHANGED worker
    BY <1>4 DEF ReplaceAudioMix
  <2>2. package'.bind = b /\ package'.bind \in Bind
    BY <2>1, <1>0, <1>t DEF InvalidateTo, Cleared, TypeOK, PackageRow
  <2> QED
    BY <2>1, <2>2, <1>inv
<1>cr. ASSUME NEW r \in Renders, NEW kind \in {"review", "final"},
              NEW a \in Approvals \cup {None},
              CurrentTimeline, render[r].status = "none",
              kind = "final" => a \in Approvals /\ ApprovalIsCurrent(a),
              kind = "review" => a = None,
              render' = [render EXCEPT ![r] = QueuedRow(kind, a)],
              package'.bind = package.bind, package'.approval = package.approval,
              UNCHANGED <<timeline, approval, worker>>
       PROVE  IInv'
  <2>1. /\ render'[r].status = "queued"
        /\ render'[r].kind = kind
        /\ render'[r].bind = package.bind
        /\ render'[r].approval = a
        /\ render'[r].qc = "pending"
        /\ \A q \in Renders \ {r} : render'[q] = render[q]
    BY <1>cr, <1>0 DEF QueuedRow, NoRenderRow
  <2>2. CurrentTimeline'
    BY <1>cr DEF CurrentTimeline, PackageExists
  <2>3. WorkerRow'
    BY <1>cr, <2>1 DEF IInv, WorkerRow, Idle
  <2>4. RowHistory' /\ ApprovalExists'
    BY <1>cr, <2>1 DEF IInv, RowHistory, ApprovalExists, ApprovalIsCurrent
  <2>5. CurrentApproval'
    BY <1>cr, <2>2 DEF IInv, CurrentApproval
  <2>6. LiveRendersAreCurrent'
    BY <1>cr, <2>1, <2>2 DEF IInv, LiveRendersAreCurrent
  <2>7. OneApprovalInForce'
    BY <1>cr, <2>2 DEF IInv, OneApprovalInForce
  <2>8. TimelineShowsApproval'
    BY <1>cr DEF IInv, TimelineShowsApproval
  <2>9. ApprovalShowsReviewedTuple'
    <3>1. render[r].qc = "pending"
      BY <1>cr DEF IInv, RowHistory
    <3>2. \A q \in Renders : render[q].qc = "passed" => render'[q] = render[q]
      BY <2>1, <3>1
    <3> QED
      BY <1>cr, <3>2 DEF IInv, ApprovalShowsReviewedTuple
  <2>10. FinalRendersAreApproved'
    <3> SUFFICES ASSUME NEW q \in Renders, render'[q].status \in LiveStatus,
                        render'[q].kind = "final"
                 PROVE  /\ render'[q].approval \in Approvals
                        /\ approval[render'[q].approval].bind = render'[q].bind
                        /\ package.approval # None
                        /\ package.approval = render'[q].approval =>
                              approval[render'[q].approval].status = "approved"
      BY <1>cr DEF FinalRendersAreApproved
    <3>1. CASE q = r
      BY <1>cr, <2>1, <3>1, ProductionConstants DEF ApprovalIsCurrent
    <3>2. CASE q # r
      BY <1>cr, <2>1, <3>2 DEF IInv, FinalRendersAreApproved
    <3> QED
      BY <3>1, <3>2
  <2> QED
    BY <1>t, <2>3, <2>4, <2>5, <2>6, <2>7, <2>8, <2>9, <2>10 DEF IInv
<1>5. ASSUME NEW r \in Renders, CreateReviewRender(r) PROVE IInv'
  <2>1. package'.bind = package.bind /\ package'.approval = package.approval
    BY <1>5, <1>0 DEF CreateReviewRender, PackageRow
  <2> QED
    BY <1>5, <2>1, <1>cr DEF CreateReviewRender
<1>6. ASSUME NEW r \in Renders, NEW a \in Approvals, CreateFinalRender(r, a) PROVE IInv'
  <2>1. package'.bind = package.bind /\ package'.approval = package.approval
    BY <1>6, <1>0 DEF CreateFinalRender, PackageRow
  <2> QED
    BY <1>6, <2>1, <1>cr DEF CreateFinalRender
<1>7. ASSUME NEW r \in Renders, CancelRender(r) PROVE IInv'
  <2> DEFINE s == IF render[r].status = "queued" THEN "cancelled" ELSE render[r].status
             row == [render[r] EXCEPT !.cancel = TRUE, !.status = s]
  <2>1. s \in RenderStatus
    BY <1>0 DEF RenderRow, RenderStatus, DeadStatus
  <2>2. /\ row \in RenderRow
        /\ row.status = s /\ row.cancel
        /\ row.bind = render[r].bind /\ row.kind = render[r].kind
        /\ row.approval = render[r].approval /\ row.qc = render[r].qc
    BY <1>0, <2>1 DEF RenderRow
  <2>3. render' = [render EXCEPT ![r] = row]
    BY <1>7, <1>0 DEF CancelRender, RenderRow
  <2>4. render[r].status \in {"queued", "running"} /\ UNCHANGED <<timeline, package, approval, worker>>
    BY <1>7 DEF CancelRender
  <2>5. render[r].qc = "pending"
    BY <2>4 DEF IInv, RowHistory
  <2>6. WorkerRow'
    BY <1>0, <2>2, <2>3, <2>4 DEF IInv, WorkerRow, Idle
  <2> HIDE DEF row
  <2> QED
    BY <1>t, <2>2, <2>3, <2>4, <2>5, <2>6, RowStep DEF LiveStatus
<1>8. ASSUME NEW r \in Renders, NEW a \in Approvals, RequestApproval(a, r) PROVE IInv'
  <2> DEFINE w == Withdraw(approval, {package.approval})
             new == [status |-> "awaiting_review", bind |-> package.bind, review |-> r]
  <2>1. w \in [Approvals -> ApprovalRow]
    BY <1>0, WithdrawType
  <2>2. /\ approval'[a] = new
        /\ \A q \in Approvals \ {a} :
              /\ approval'[q].status = IF q = package.approval /\ approval[q].status \in PendingApproval
                                       THEN "changes_requested" ELSE approval[q].status
              /\ approval'[q].bind = approval[q].bind
              /\ approval'[q].review = approval[q].review
    <3>1. approval' = [w EXCEPT ![a] = new]
      BY <1>8 DEF RequestApproval
    <3>2. approval'[a] = new /\ \A q \in Approvals \ {a} : approval'[q] = w[q]
      BY <2>1, <3>1
    <3> QED
      BY <1>0, <3>2, WithdrawFacts
  <2>3. /\ package'.approval = a /\ package'.bind = package.bind
        /\ timeline'.version = timeline.version
        /\ timeline'.approval_status = "awaiting_review" /\ timeline'.approved = 0
        /\ UNCHANGED <<render, worker>>
    BY <1>8, <1>0 DEF RequestApproval, PackageRow, TimelineRow
  <2>4. CurrentTimeline'
    BY <1>8, <2>3 DEF RequestApproval, CurrentTimeline, PackageExists
  <2>5. WorkerRow' /\ RowHistory'
    BY <2>3 DEF IInv, WorkerRow, RowHistory, Idle
  <2>e. ApprovalExists'
    <3>1. \A q \in Renders : render[q].approval \in Approvals \cup {None}
      BY <1>0 DEF RenderRow
    <3> QED
      BY <2>2, <2>3, <3>1 DEF IInv, ApprovalExists
  <2>6. CurrentApproval'
    BY <2>2, <2>3, <2>4 DEF CurrentApproval
  <2>7. LiveRendersAreCurrent'
    BY <2>3, <2>4 DEF IInv, LiveRendersAreCurrent
  <2>8. OneApprovalInForce'
    BY <2>2, <2>3, <2>4 DEF IInv, OneApprovalInForce, PendingApproval
  <2>9. TimelineShowsApproval'
    BY <2>2, <2>3, ProductionConstants DEF TimelineShowsApproval
  <2>10. ApprovalShowsReviewedTuple'
    <3> SUFFICES ASSUME NEW q \in Approvals, approval'[q].status # "none"
                 PROVE  /\ approval'[q].review \in Renders
                        /\ render[approval'[q].review].kind = "review"
                        /\ render[approval'[q].review].qc = "passed"
                        /\ render[approval'[q].review].bind = approval'[q].bind
      BY <2>3 DEF ApprovalShowsReviewedTuple
    <3>1. CASE q = a
      BY <1>8, <2>2, <3>1 DEF RequestApproval, ReviewPassed
    <3>2. CASE q # a
      <4>1. approval[q].status # "none"
        BY <2>2, <3>2 DEF PendingApproval
      <4> QED
        BY <2>2, <3>2, <4>1 DEF IInv, ApprovalShowsReviewedTuple
    <3> QED
      BY <3>1, <3>2
  <2>11. FinalRendersAreApproved'
    <3> SUFFICES ASSUME NEW q \in Renders, render[q].status \in LiveStatus,
                        render[q].kind = "final"
                 PROVE  /\ render[q].approval \in Approvals
                        /\ approval'[render[q].approval].bind = render[q].bind
                        /\ a # None
                        /\ a # render[q].approval
      BY <2>3 DEF FinalRendersAreApproved
    <3>1. /\ render[q].approval \in Approvals
          /\ approval[render[q].approval].bind = render[q].bind
          /\ render[q].bind = package.bind
          /\ PackageExists
      BY DEF IInv, FinalRendersAreApproved, LiveRendersAreCurrent, CurrentTimeline
    <3>2. a # render[q].approval
      BY <1>8, <3>1, ProductionConstants DEF RequestApproval, IInv, ApprovalExists
    <3> QED
      BY <2>2, <3>1, <3>2, ProductionConstants
  <2> QED
    BY <1>t, <2>5, <2>e, <2>6, <2>7, <2>8, <2>9, <2>10, <2>11 DEF IInv
<1>9. ASSUME NEW a \in Approvals, NEW d \in Decision, DecideApproval(a, d) PROVE IInv'
  <2>1. /\ approval'[a].status = d
        /\ approval'[a].bind = approval[a].bind
        /\ approval'[a].review = approval[a].review
        /\ \A q \in Approvals \ {a} : approval'[q] = approval[q]
    BY <1>9, <1>0 DEF DecideApproval, ApprovalRow
  <2>2. UNCHANGED <<package, render, worker>> /\ package.approval = a
    BY <1>9 DEF DecideApproval
  <2>3. CurrentTimeline
    BY <2>2, ProductionConstants DEF IInv, CurrentApproval
  <2>4. /\ timeline'.version = timeline.version
        /\ timeline'.approval_status = IF d = "approved" THEN "approved" ELSE "changes_requested"
        /\ timeline'.approved = IF d = "approved" THEN timeline.version ELSE 0
    BY <1>9, <1>0, <2>3 DEF DecideApproval, TimelineRow, CurrentTimeline
  <2>5. CurrentTimeline'
    BY <2>2, <2>3, <2>4 DEF CurrentTimeline, PackageExists
  <2>6. WorkerRow' /\ RowHistory'
    BY <2>2 DEF IInv, WorkerRow, RowHistory, Idle
  <2>7. ApprovalExists'
    <3>1. \A q \in Renders : render[q].approval \in Approvals \cup {None}
      BY <1>0 DEF RenderRow
    <3> QED
      BY <2>1, <2>2, <3>1 DEF IInv, ApprovalExists, Decision
  <2>8. CurrentApproval'
    BY <1>9, <2>1, <2>2, <2>5 DEF CurrentApproval, DecideApproval, Decision
  <2>9. LiveRendersAreCurrent'
    BY <2>2, <2>5 DEF IInv, LiveRendersAreCurrent
  <2>10. OneApprovalInForce'
    BY <1>9, <2>1, <2>2, <2>5 DEF IInv, OneApprovalInForce, DecideApproval
  <2>11. TimelineShowsApproval'
    BY <2>1, <2>2, <2>4, ProductionConstants DEF TimelineShowsApproval, Decision
  <2>12. ApprovalShowsReviewedTuple'
    BY <1>9, <2>1, <2>2 DEF IInv, ApprovalShowsReviewedTuple, DecideApproval
  <2>13. FinalRendersAreApproved'
    BY <1>9, <2>1, <2>2 DEF IInv, FinalRendersAreApproved, DecideApproval
  <2> QED
    BY <1>t, <2>6, <2>7, <2>8, <2>9, <2>10, <2>11, <2>12, <2>13 DEF IInv
<1>10. ASSUME NEW r \in Renders, StartRender(r) PROVE IInv'
  <2>1. /\ render[r].status \in {"queued", "running"} /\ worker = Idle
        /\ UNCHANGED <<timeline, package, approval>>
    BY <1>10 DEF StartRender
  <2>2. render[r].qc = "pending"
    BY <2>1 DEF IInv, RowHistory
  <2>3. CASE render[r].cancel
    <3> DEFINE row == [render[r] EXCEPT !.status = "cancelled"]
    <3>1. /\ row \in RenderRow
          /\ row.status = "cancelled" /\ row.cancel
          /\ row.bind = render[r].bind /\ row.kind = render[r].kind
          /\ row.approval = render[r].approval /\ row.qc = render[r].qc
      BY <1>0, <2>3 DEF RenderRow, RenderStatus, DeadStatus
    <3>2. render' = [render EXCEPT ![r] = row] /\ worker' = Idle
      BY <1>10, <2>1, <2>3 DEF StartRender
    <3>3. WorkerRow'
      BY <3>2 DEF WorkerRow, Idle
    <3> HIDE DEF row
    <3> QED
      BY <1>t, <2>1, <2>2, <3>1, <3>2, <3>3, RowStep DEF LiveStatus
  <2>4. CASE ~render[r].cancel
    <3> DEFINE row == [render[r] EXCEPT !.status = "running"]
    <3>1. /\ row \in RenderRow
          /\ row.status = "running"
          /\ row.bind = render[r].bind /\ row.kind = render[r].kind
          /\ row.approval = render[r].approval /\ row.qc = render[r].qc
      BY <1>0 DEF RenderRow, RenderStatus, LiveStatus
    <3>2. render' = [render EXCEPT ![r] = row] /\ worker' = [at |-> "rendering", render |-> r]
      BY <1>10, <2>4 DEF StartRender
    <3>3. render'[r] = row
      BY <1>0, <3>2
    <3>4. WorkerRow'
      BY <2>2, <3>1, <3>2, <3>3 DEF WorkerRow, Idle
    <3> HIDE DEF row
    <3> QED
      BY <1>t, <2>1, <2>2, <3>1, <3>2, <3>4, RowStep DEF LiveStatus
  <2> QED
    BY <2>3, <2>4
<1>11. ASSUME NEW r \in Renders, CompleteRender(r) PROVE IInv'
  <2> DEFINE row == CompletedRow(render[r])
  <2>1. /\ worker = [at |-> "rendering", render |-> r]
        /\ worker' = [at |-> "recording_costs", render |-> r]
        /\ render' = [render EXCEPT ![r] = row]
        /\ UNCHANGED <<timeline, package, approval>>
    BY <1>11 DEF CompleteRender
  <2>2. render[r].status \in {"running", "stale"} /\ render[r].qc = "pending"
    BY <2>1 DEF IInv, WorkerRow
  <2>3. row \in RenderRow
    BY <1>0, CompletedRowType
  <2>4. /\ row.bind = render[r].bind /\ row.kind = render[r].kind
        /\ row.approval = render[r].approval
        /\ row.status \in {"awaiting_review", "ready", "stale", "cancelled"}
        /\ row.status = "cancelled" => row.cancel
        /\ row.status \in LiveStatus => render[r].status \in LiveStatus
    <3>1. CASE render[r].cancel \/ render[r].status = "stale"
      BY <1>0, <2>2, <3>1 DEF CompletedRow, RenderRow, LiveStatus
    <3>2. CASE ~(render[r].cancel \/ render[r].status = "stale")
      BY <1>0, <2>2, <3>2 DEF CompletedRow, RenderRow, LiveStatus
    <3> QED
      BY <3>1, <3>2
  <2>5. render'[r] = row
    BY <1>0, <2>1
  <2>6. WorkerRow'
    BY <2>1, <2>4, <2>5 DEF WorkerRow
  <2> HIDE DEF row
  <2> QED
    BY <1>t, <2>1, <2>2, <2>3, <2>4, <2>6, RowStep
<1>12. ASSUME NEW r \in Renders, NEW c \in FailureCode, FailRender(r, c) PROVE IInv'
  <2> DEFINE row == FailedRow(render[r], c)
  <2>1. /\ worker.render = r /\ worker.at \in {"rendering", "recording_costs"}
        /\ worker' = Idle
        /\ render' = [render EXCEPT ![r] = row]
        /\ UNCHANGED <<timeline, package, approval>>
        /\ c = "RENDER_CANCELLED" => render[r].cancel
        /\ worker.at = "recording_costs" => c = "PRODUCTION_RENDER_FAILED"
    BY <1>12 DEF FailRender
  <2>2. worker.at = "rendering" => render[r].qc = "pending"
    BY <2>1 DEF IInv, WorkerRow
  <2>3. row \in RenderRow
    BY <1>0, FailedRowType
  <2>4. /\ row.bind = render[r].bind /\ row.kind = render[r].kind
        /\ row.approval = render[r].approval
        /\ row.status \in DeadStatus
        /\ row.status = "cancelled" => row.cancel
        /\ render[r].qc = "passed" => row.qc = "passed"
    <3>1. CASE render[r].status = "stale"
      BY <3>1 DEF FailedRow, DeadStatus
    <3>2. CASE render[r].status # "stale"
      BY <1>0, <2>1, <2>2, <3>2 DEF FailedRow, RenderRow, DeadStatus
    <3> QED
      BY <3>1, <3>2
  <2>5. WorkerRow'
    BY <2>1 DEF WorkerRow, Idle
  <2> HIDE DEF row
  <2> QED
    BY <1>t, <2>1, <2>3, <2>4, <2>5, RowStep DEF LiveStatus, DeadStatus
<1>w. ASSUME UNCHANGED <<timeline, package, approval, render>>, WorkerRow' PROVE IInv'
  <2>1. RowHistory' /\ ApprovalExists' /\ ApprovalShowsReviewedTuple'
        /\ FinalRendersAreApproved' /\ TimelineShowsApproval'
    BY <1>w DEF IInv, RowHistory, ApprovalExists, ApprovalShowsReviewedTuple,
                FinalRendersAreApproved, TimelineShowsApproval
  <2>2. CurrentTimeline' = CurrentTimeline
    BY <1>w DEF CurrentTimeline, PackageExists
  <2>3. CurrentApproval' /\ LiveRendersAreCurrent' /\ OneApprovalInForce'
    BY <1>w, <2>2 DEF IInv, CurrentApproval, LiveRendersAreCurrent, OneApprovalInForce
  <2> QED
    BY <1>w, <1>t, <2>1, <2>3 DEF IInv
<1>13. CASE RecordCosts
  BY <1>13, <1>w DEF RecordCosts, WorkerRow, Idle
<1>14. CASE WorkerCrash
  BY <1>14, <1>w DEF WorkerCrash, WorkerRow, Idle
<1>15. CASE UNCHANGED vars
  <2>1. WorkerRow'
    BY <1>15 DEF vars, IInv, WorkerRow, Idle
  <2> QED
    BY <1>15, <1>w, <2>1 DEF vars
<1> QED
  BY <1>1, <1>2, <1>3, <1>4, <1>5, <1>6, <1>7, <1>8, <1>9, <1>10, <1>11, <1>12,
     <1>13, <1>14, <1>15
  DEF Next, Edit, Review, Work

-----------------------------------------------------------------------------
(* What the invariant gives.                                               *)

\* The inductive invariant holds in every reachable state.
LEMMA Invariant == Spec => []IInv
BY InitInv, NextInv, PTL DEF Spec

\* However edits, refreshes, renders, cancellations, failures and crashes
\* interleave as whole transactions, a usable render is one of the current
\* tuple: commit_mutation and _invalidate_locked miss none.
THEOREM LiveRendersCurrent == Spec => []LiveRendersAreCurrent
<1>1. IInv => LiveRendersAreCurrent
  BY DEF IInv
<1> QED
  BY <1>1, Invariant, PTL

\* At most one approval is in force, and it is of the current tuple.
THEOREM ApprovalInForce == Spec => []OneApprovalInForce
<1>1. IInv => OneApprovalInForce
  BY DEF IInv
<1> QED
  BY <1>1, Invariant, PTL

\* The approval columns of the timeline row always agree with the approval.
THEOREM TimelineApproval == Spec => []TimelineShowsApproval
<1>1. IInv => TimelineShowsApproval
  BY DEF IInv
<1> QED
  BY <1>1, Invariant, PTL

\* What was approved is what a passing review render showed.
THEOREM ReviewedTuple == Spec => []ApprovalShowsReviewedTuple
<1>1. IInv => ApprovalShowsReviewedTuple
  BY DEF IInv
<1> QED
  BY <1>1, Invariant, PTL

\* The three together: what a run checks as one property.
THEOREM ApprovalsHolding == Spec => []ApprovalsHold
BY ApprovalInForce, TimelineApproval, ReviewedTuple, PTL DEF ApprovalsHold

\* No usable final render lacks an approval of its tuple.
THEOREM FinalApproved == Spec => []FinalRendersAreApproved
<1>1. IInv => FinalRendersAreApproved
  BY DEF IInv
<1> QED
  BY <1>1, Invariant, PTL

\* A stale, cancelled or failed render never comes back, whichever order the
\* worker's last step and the other transactions take.
THEOREM DeadStayDead == Spec => DeadRendersStayDead
<1> DEFINE Kept == \A r \in Renders :
               render[r].status \in DeadStatus => render'[r].status = render[r].status
<1>1. ASSUME IInv, [Next]_vars PROVE Kept \/ UNCHANGED vars
  <2> SUFFICES ASSUME NEW q \in Renders, render[q].status \in DeadStatus, Next
               PROVE  render'[q].status = render[q].status
    BY <1>1
  <2>0. /\ render \in [Renders -> RenderRow]
        /\ \A r \in Renders : render[r] \in RenderRow
    BY <1>1 DEF IInv, TypeOK
  <2>d. render[q].status \notin LiveStatus /\ render[q].status # "none"
    BY DEF DeadStatus, LiveStatus
  <2>s. render' = Stale(render) => render'[q].status = render[q].status
    BY <2>0, <2>d, StaleFacts
  <2>1. CASE Edit
    BY <2>1, <2>s DEF Edit, CommitMutation, CreateOrRefreshPackage, ReplaceSubtitles,
                      ReplaceAudioMix, InvalidateTo
  <2>2. CASE Review
    <3>1. ASSUME NEW r \in Renders, CreateReviewRender(r) PROVE render'[q] = render[q]
      BY <2>0, <2>d, <3>1 DEF CreateReviewRender
    <3>2. ASSUME NEW r \in Renders, NEW a \in Approvals, CreateFinalRender(r, a)
          PROVE  render'[q] = render[q]
      BY <2>0, <2>d, <3>2 DEF CreateFinalRender
    <3>3. ASSUME NEW r \in Renders, CancelRender(r) PROVE render'[q] = render[q]
      BY <2>0, <2>d, <3>3 DEF CancelRender, LiveStatus
    <3> QED
      BY <2>2, <3>1, <3>2, <3>3 DEF Review, RequestApproval, DecideApproval
  <2>3. ASSUME NEW r \in Renders, StartRender(r) PROVE render'[q] = render[q]
    BY <2>0, <2>d, <2>3 DEF StartRender, LiveStatus
  <2>4. ASSUME NEW r \in Renders, CompleteRender(r) PROVE render'[q].status = render[q].status
    <3>1. CASE q = r
      <4>1. render[q].status = "stale"
        BY <1>1, <2>4, <2>d, <3>1 DEF CompleteRender, IInv, WorkerRow, LiveStatus
      <4>2. CompletedRow(render[q]).status = "stale"
        BY <2>0, <4>1 DEF CompletedRow, RenderRow
      <4> QED
        BY <2>0, <2>4, <3>1, <4>1, <4>2 DEF CompleteRender
    <3>2. CASE q # r
      BY <2>0, <2>4, <3>2 DEF CompleteRender
    <3> QED
      BY <3>1, <3>2
  <2>5. ASSUME NEW r \in Renders, NEW c \in FailureCode, FailRender(r, c)
        PROVE  render'[q].status = render[q].status
    <3>1. CASE q = r
      <4>1. render[q].status \in {"stale", "cancelled"}
        BY <1>1, <2>5, <2>d, <3>1 DEF FailRender, IInv, WorkerRow, LiveStatus
      <4>2. render[q].status = "cancelled" => render[q].cancel
        BY <1>1 DEF IInv, RowHistory
      <4>3. FailedRow(render[q], c).status = render[q].status
        BY <2>0, <4>1, <4>2 DEF FailedRow, RenderRow
      <4> QED
        BY <2>0, <2>5, <3>1, <4>3 DEF FailRender
    <3>2. CASE q # r
      BY <2>0, <2>5, <3>2 DEF FailRender
    <3> QED
      BY <3>1, <3>2
  <2>6. CASE Work
    BY <2>3, <2>4, <2>5, <2>6 DEF Work, RecordCosts, WorkerCrash
  <2> QED
    BY <2>1, <2>2, <2>6 DEF Next
<1>2. Spec => [][IInv /\ [Next]_vars]_vars
  BY Invariant, PTL DEF Spec
<1> QED
  BY <1>1, <1>2, PTL DEF DeadRendersStayDead
=============================================================================
