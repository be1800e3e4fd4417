------------------------------ MODULE Evaluations ------------------------------
(***************************************************************************)
(* The rules that judge one piece of data and keep no row of their own:    *)
(* transcripts, reframing, deliverables, media plans and learning.  They   *)
(* share nothing, so a behaviour follows one of them and the rest stay     *)
(* initial.                                                                *)
(***************************************************************************)
EXTENDS Transcripts, Reframing, Deliverables, MediaPlanning, Learning

VARIABLE evaluation

evVars == <<evaluation, hVars, gVars, vVars, uVars, lVars>>

\* A rule that is not followed stands before one of its inputs.
HStill == /\ hResponse = CHOOSE r \in HResponses : TRUE
          /\ hService = "openai" /\ hPolicy = "strict" /\ hNear = {}
          /\ hHeard = <<>> /\ hTold = <<>> /\ hPc = "called"
GStill == /\ gRequest = CHOOSE r \in GRequests : TRUE
          /\ gTimes = <<>> /\ gSeen = <<>> /\ gScenes = <<>> /\ gTrack = NoSubject
          /\ gKeyframes = <<>> /\ gStrategy = "none" /\ gCharged = 0 /\ gPc = "asked"
VStill == /\ vCut = CHOOSE c \in VCuts : TRUE
          /\ vCues = <<>> /\ vMix = Voiced /\ vProfile = "none" /\ vSpoken = <<>>
          /\ vFile = NoFile /\ vRequest = NoPost /\ vPc = "cut"
UStill == /\ uRequest = [priority |-> <<>>, allowed |-> {}, ceiling |-> 0]
          /\ uScenes = <<>> /\ uReady = {} /\ uPrice = [g \in Generated |-> Unpriced]
          /\ uFound = <<>> /\ uItems = <<>> /\ uPlan = "planning"
LStill == /\ lMetrics = {} /\ lViews = 0 /\ lHours = 0
          /\ lValues = CHOOSE v \in LValues : TRUE
          /\ lFeatures = {} /\ lState = "new" /\ lScore = 0 /\ lInsights = {}

EvInit ==
    /\ evaluation \in {"transcript", "reframing", "deliverable", "plan", "learning"}
    /\ IF evaluation = "transcript" THEN HInit ELSE HStill
    /\ IF evaluation = "reframing" THEN GInit ELSE GStill
    /\ IF evaluation = "deliverable" THEN VInit ELSE VStill
    /\ IF evaluation = "plan" THEN UInit ELSE UStill
    /\ IF evaluation = "learning" THEN LInit ELSE LStill

\* Nothing is judged.
EvStill == evaluation = "none" /\ HStill /\ GStill /\ VStill /\ UStill /\ LStill

EvaluateWith(topic, A) == evaluation = topic /\ A /\ UNCHANGED evaluation

EvNext ==
    \/ EvaluateWith("transcript", HNext) /\ UNCHANGED <<gVars, vVars, uVars, lVars>>
    \/ EvaluateWith("reframing", GNext) /\ UNCHANGED <<hVars, vVars, uVars, lVars>>
    \/ EvaluateWith("deliverable", VNext) /\ UNCHANGED <<hVars, gVars, uVars, lVars>>
    \/ EvaluateWith("plan", UNext) /\ UNCHANGED <<hVars, gVars, vVars, lVars>>
    \/ EvaluateWith("learning", LNext) /\ UNCHANGED <<hVars, gVars, vVars, uVars>>

EvSpec == EvInit /\ [][EvNext]_evVars

-----------------------------------------------------------------------------
(* Properties, each with the types of what it is about.                    *)

\* EveryWordOnce and TimesAreTheProviders, of the words edits are cut by.
TranscriptsAreFaithful == HTypeOK /\ EveryWordOnce /\ TimesAreTheProviders

\* What is published is the cut, cleared, with voices that take turns.
DeliverablesHold ==
    VTypeOK /\ VoicesTakeTurns /\ PublishedShowsTheCut /\ PublishedIsCleared

\* Crops follow their subject and frames tell their scene at the reserved cost;
\* plans stay possible and affordable; a missing metric is no zero.
ChoicesHold ==
    /\ GTypeOK /\ FramesTellTheirScene /\ CropFollows /\ CostWasReserved
    /\ PlansStayPossible /\ PlansAreAffordable
    /\ MissingIsNotZero
=============================================================================
