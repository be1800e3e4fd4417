------------------------------ MODULE Services ------------------------------
(***************************************************************************)
(* The queues one worker process serves (services/worker/npd_worker/       *)
(* main.py): video jobs, previews, webhook deliveries, synchronisations    *)
(* and media resolutions.  They share no row and no list, so together they *)
(* behave as each of them does alone; what they promise is stated of all.  *)
(***************************************************************************)
EXTENDS VideoJobs, Preview, Webhook, AnalyticsSync, Media

ServicesSpec == JSpec /\ PSpec /\ DSpec /\ SSpec /\ MSpec

-----------------------------------------------------------------------------
(* What the queues have in common, and what each promises of its own.      *)

\* Rows, lists and counters keep their types.
TypesHold == JTypeOK /\ PTypeOK /\ DTypeOK /\ STypeOK /\ MTypeOK

\* No queue forgets work that its row calls unfinished, whatever is pushed,
\* claimed, recovered or dropped by a crash in between.
NothingForgotten ==
    NoJobForgotten /\ NoPreviewForgotten /\ NoDeliveryForgotten /\ NoSyncForgotten

\* Attempts are counted for what was really sent: every call that may have
\* reached the receiver has its attempt, the attempts past the maximum are
\* those of faults, and a synchronisation that succeeded took one snapshot.
AttemptsAreCounted == AttemptsCoverSends /\ ExtraAttemptsAreFaults /\ OneSnapshotPerSuccess

\* Webhook deliveries and synchronisations both implement the at-least-once
\* outbox.
OutboxesImplemented == DeliversAtLeastOnce /\ SyncsTakeEffect

\* One preview per version and size is the latest one, and it shows the
\* version it was made for with the object its asset row describes.
PreviewsAreCurrent == LatestPreviewIsCurrent /\ ReadyPreviewIsRegistered

\* The items and the state of a plan agree with their resolution jobs, what is
\* publishable is allowed, and no resolution is paid for twice.
MediaIsAccounted == ItemsFollowTheirJobs /\ PublishableMeansAllowed /\ OneCostPerResolution

\* One Idempotency-Key is one job, in Redis at most once, and a reviewable job's
\* artifacts are those of its request.
JobsAreSingle == SameKeySameJob /\ DeliveredOnce /\ ReviewableArtifactsMatch

\* Neither a late step of a preview's worker nor a re-run of a job's pipeline
\* takes back what was settled.
SettledStays == StalePreviewsStayStale /\ JobsMoveForward
=============================================================================
