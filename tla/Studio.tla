------------------------------- MODULE Studio -------------------------------
(***************************************************************************)
(* Requests of the API that do their work in several transactions, and the *)
(* process and the host they run in: bridge drafts, uploads, analyses, the *)
(* content queue, platform rows, timelines, provider calls, the execution  *)
(* plane and the settings.  They share no row, so together they behave as  *)
(* each of them does alone; what they promise is stated of all.            *)
(***************************************************************************)
EXTENDS Bridge, AutoEdit, Analyses, Trends, Platform, TimelineEdits,
        ProviderWire, ExecutionPlane, Configuration

StudioSpec ==
    BSpec /\ USpec /\ ASpec /\ TSpec /\ PfSpec /\ ESpec /\ WSpec /\ XSpec /\ CSpec

-----------------------------------------------------------------------------
(* What each kind of request promises.                                     *)

\* Rows, files and handlers keep their types.
TypesHold == BTypeOK /\ UTypeOK

\* However often and by however many handlers a bridge request is sent, the
\* project is one request's, without overlap it has one draft, and only a
\* failure reopens its event.
OneDraftPerRequest == OneRequestOwnsTheProject /\ OneDraftWithoutOverlap /\ EventsAreReopened

\* A completed upload names its asset, and one fingerprint of it is one provider
\* call, paid and complete when it succeeded.
AutoEditIsAccounted == CompletedNamesAnAsset /\ OneCallPerFingerprint /\ SucceededIsComplete

\* The first version shows what the analysis kept, and an edit changes what it
\* says and nothing else.
TimelinesKeepWhatPlays == FirstVersionShowsWhatWasKept /\ EditsKeepTheRest

\* Refreshes that overlap, repeat or die leave disjoint clusters, and those of
\* unchanged data find one run.
QueueRunsAgree == FreshClustersAreDisjoint /\ ReplaysAgree

\* Platform rows that two callers may make at once are made once: contexts,
\* initial versions, the draft of a selected idea, the cost of an operation.
RowsAreSingle ==
    ContextsAreKept /\ OneInitialVersion /\ SelectedOnceWithDraft /\ OneCostPerOperation

\* One governed operation sends once, with a credential handed over once and the
\* host's consent, and its receipts and evidence tell what was done.
PlaneIsTold == ClaimsAreTrue /\ OneSecretOneRequest /\ RevocationHolds

\* A rejected upload stays rejected and a succeeded analysis succeeded, whatever
\* late handler still writes.
EndedStays == RejectedStaysRejected /\ SucceededStays
=============================================================================
