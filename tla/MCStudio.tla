------------------------------ MODULE MCStudio ------------------------------
(* Requests of the API that do their work in several transactions.  They   *)
(* share no row, so each behaviour follows one kind of them and the rest   *)
(* stay initial.                                                           *)
EXTENDS Studio, TLC

VARIABLE route

studioVars == <<route, bVars, uVars, aVars, tVars, pfVars, eVars, wVars, xVars, cVars>>

MCExpected == [n \in UParts |-> 1]
MCBase == "v" :> "e"
MCTopic == <<1, 2, 3>>
MCTokens == <<{1, 2, 3}, {4, 5, 6}, {2, 3, 4}>>
MCScoreOf(group) == 10 * Cardinality(group)
MCScores == <<5, 3>>

\* Analyses to lay out, and the one whose timeline is also edited.
MCLaidOut ==
    [words : {{<<1, 3>>}, {<<3, 4>>, <<8, 10>>}}, silences : {{<<3, 8>>}, {<<0, 4>>, <<6, 11>>}},
     boundaries : {{}, {5}, {6, 7}}, padding : {<<1, 1>>, <<0, 1>>},
     broll : {<<2, 7, 20>>, <<4, 5, 20>>}]
MCEdited ==
    [words |-> {<<1, 3>>}, silences |-> {<<4, 8>>}, boundaries |-> {}, padding |-> <<1, 1>>,
     broll |-> <<2, 7, 20>>]
MCAnalyses == MCLaidOut \cup {MCEdited}

\* Calls under one circuit, two of them with one key; the production gate allows
\* one attempt in a window.
MCKind == 1 :> "asr" @@ 2 :> "vision" @@ 3 :> "asr"
MCKey == 1 :> "a" @@ 2 :> "b" @@ 3 :> "a"
MCGated == [rights |-> TRUE, attempts |-> 1, 
           gate |-> {[from |-> 1, until |-> 2, keys |-> {"a", "c"}]}]
MCPolicies ==
    {[rights |-> TRUE, attempts |-> 2, gate |-> {}],
     [rights |-> FALSE, attempts |-> 1, gate |-> {}], MCGated}

\* The defaults, a deployment with its calls closed, and two with a verified gate.
MCDevelopment ==
    [on |-> {"trendFixture", "editFixture", "visionFixture", "analyticsFixture", "kill",
             "humanApproval", "humanApi"},
     env |-> "development", asr |-> "fixture", signals |-> "fixture", vision |-> "fixture",
     stock |-> "contract", image |-> "contract", video |-> "contract", audio |-> "espeak",
     tts |-> "espeak", scanner |-> "fixture", storage |-> "local", webhook |-> "disabled",
     limits |-> "none", gate |-> "openai-vision"]
MCDeployed ==
    [MCDevelopment EXCEPT !.on = {"kill", "humanApproval", "humanApi", "storageKeys", "openaiKey"},
     !.env = "production", !.asr = "contract", !.signals = "ffmpeg", !.vision = "contract",
     !.scanner = "clamd", !.storage = "s3"]
MCWithGate(s) == [s EXCEPT !.on = (@ \cup {"bundle", "external", "paid"}) \ {"kill"}]
MCGatedVision == MCWithGate([MCDeployed EXCEPT !.vision = "openai", !.limits = "vision", !.tts = "openai"])
MCGatedSpeech == MCWithGate([MCDeployed EXCEPT !.asr = "openai", !.limits = "asr", !.gate = "openai-transcription"])
MCBases == {MCDevelopment, MCDeployed, MCGatedVision, MCGatedSpeech}

MCInit ==
    /\ route \in {"bridge", "upload", "analysis", "trends", "platform", "timeline", "calls", "job",
                 "plane", "settings"}
    /\ BInit /\ UInit /\ AInit /\ TInit /\ PfInit /\ EInit /\ WInit /\ XInit /\ CInit
    /\ route # "settings" => cEnv = MCDevelopment
    /\ route \notin {"calls", "job"} => wPolicy = MCGated
    /\ route # "timeline" => eAnalysis = MCEdited

OnRoute(r, A) == route = r /\ A /\ UNCHANGED route
OfBridge(A) == OnRoute("bridge", A) /\ UNCHANGED <<uVars, aVars, tVars, pfVars, eVars, wVars, xVars, cVars>>
OfUpload(A) == OnRoute("upload", A) /\ UNCHANGED <<bVars, aVars, tVars, pfVars, eVars, wVars, xVars, cVars>>
OfAnalysis(A) == OnRoute("analysis", A) /\ UNCHANGED <<bVars, uVars, tVars, pfVars, eVars, wVars, xVars, cVars>>
OfTrends(A) == OnRoute("trends", A) /\ UNCHANGED <<bVars, uVars, aVars, pfVars, eVars, wVars, xVars, cVars>>
OfPlatform(A) == OnRoute("platform", A) /\ UNCHANGED <<bVars, uVars, aVars, tVars, eVars, wVars, xVars, cVars>>
OfCalls(A) == OnRoute("calls", A) /\ UNCHANGED <<bVars, uVars, aVars, tVars, pfVars, eVars, xVars, cVars>>
OfJob(A) == OnRoute("job", A) /\ UNCHANGED <<bVars, uVars, aVars, tVars, pfVars, eVars, xVars, cVars>>
OfTimeline(A) == OnRoute("timeline", A) /\ UNCHANGED <<bVars, uVars, aVars, tVars, pfVars, wVars, xVars, cVars>>
OfPlane(A) == OnRoute("plane", A) /\ UNCHANGED <<bVars, uVars, aVars, tVars, pfVars, eVars, wVars, cVars>>
OfSettings(A) ==
    OnRoute("settings", A) /\ UNCHANGED <<bVars, uVars, aVars, tVars, pfVars, eVars, wVars, xVars>>

MCNext ==
    \/ OfBridge(BNext)
    \/ OfUpload(UNext)
    \/ OfAnalysis(ANext)
    \/ OfTrends(TNext)
    \/ OfPlatform(PfNext)
    \/ OfTimeline(ENext /\ (eRequests' > 0 => eAnalysis = MCEdited))
    \/ OfCalls(WCallNext)
    \/ OfJob(WJobNext)
    \/ OfPlane(XNext)
    \/ OfSettings(CNext)

MCSpec == MCInit /\ [][MCNext]_studioVars
=============================================================================
