---------------------------- MODULE MCServices ------------------------------
(* The queues of Services.tla in one run, with the rules of Evaluations,   *)
(* which have none: they share no row and no list, so each behaviour       *)
(* follows one of them and the rest stay initial.                          *)
EXTENDS Services, Evaluations, TLC

-----------------------------------------------------------------------------
(* Responses: up to three words, on, off and across segment boundaries,    *)
(* out of order, without duration, inverted or without a time.             *)

MCMarks == {0, 4, 6, 7, 8, 14}
MCWindows ==
    {w \in [start : MCMarks, end : MCMarks] : w.start <= w.end}
        \cup {[start |-> 4, end |-> 2], [start |-> NoTime, end |-> 4]}
MCSegments ==
    {<<[start |-> 0, end |-> 14]>>,
     <<[start |-> 0, end |-> 6], [start |-> 6, end |-> 14]>>,
     <<[start |-> 0, end |-> 8], [start |-> 6, end |-> 14]>>,
     <<[start |-> 0, end |-> 4], [start |-> 8, end |-> 14]>>,
     <<[start |-> 4, end |-> 4]>>}
Close(words) == \A i \in 2 .. Len(words) : words[i].start >= words[i - 1].end - 2
MCResponses ==
    [segments : MCSegments,
     words : {ws \in [1 .. 3 -> MCWindows] : Close(ws)} \cup [1 .. 1 -> MCWindows]]

-----------------------------------------------------------------------------
(* Frames: one to three scenes of a short clip, one with a gap, and        *)
(* subjects that jump.                                                     *)

MCTiles ==
    {<<[from |-> 0, to |-> 12]>>,
     <<[from |-> 0, to |-> 4], [from |-> 4, to |-> 12]>>,
     <<[from |-> 0, to |-> 2], [from |-> 2, to |-> 6], [from |-> 7, to |-> 12]>>}
MCOverrides == <<[time |-> 9, x |-> 400, y |-> 0], [time |-> 3, x |-> 800, y |-> 0],
                 [time |-> 9, x |-> 0, y |-> 0]>>
MCRequests ==
    [length : {12}, scenes : MCTiles, interval : {1, 2, 4}, frames : {1, 3}, trust : {5},
     jump : {320}, floor : {2800}, overrides : {<<>>, MCOverrides}]
See(who, category, confidence, x, y) ==
    [who |-> who, category |-> category, confidence |-> confidence, x |-> x, y |-> y]
MCSightings ==
    {<<>>,
     <<See(1, "person", 9, 400, 3600)>>,
     <<See(1, "person", 6, 2800, 800), See(2, "product", 9, 800, 800)>>,
     <<See(1, "person", 9, 800, 1600), See(1, "person", 9, 3600, 1600),
       See(3, "logo", 9, 0, 0), See(2, "product", 4, 0, 0)>>}
MCUsages ==
    {[input |-> 16384, cached |-> 0, output |-> 4096],
     [input |-> 16385, cached |-> 0, output |-> 1],
     [input |-> 10, cached |-> 20, output |-> 4097]}

-----------------------------------------------------------------------------
(* Cuts: whole, with gaps below and above the tolerance, with a disabled   *)
(* track or clip, a missing asset, music for a picture, fractional frames, *)
(* too long a subtitle, too short a one and too short a video.             *)

Clip == [kind |-> "video", start |-> 0, length |-> 2000, asset |-> "a",
         trackOff |-> FALSE, off |-> FALSE, opaque |-> TRUE, chars |-> 0]
Shot(start, length, asset) ==
    [Clip EXCEPT !.start = start, !.length = length, !.asset = asset]
Told(start, length, chars) ==
    [Shot(start, length, NoAsset) EXCEPT !.kind = "subtitles", !.chars = chars]
Script == {Told(0, 900, 20), Told(880, 1400, 30)}
Cut(length, clips) == [length |-> length, rate |-> 3000, clips |-> clips]
MCCuts ==
    {Cut(2000, Script \cup clips) : clips \in
        {{Clip},
         {Shot(0, 1000, "a"), Shot(1040, 910, "b")},
         {Shot(0, 1000, "a"), Shot(1060, 940, "b")},
         {Shot(0, 1900, "a")},
         {Clip, [Shot(0, 2000, "c") EXCEPT !.trackOff = TRUE]},
         {Clip, [Shot(0, 2000, "gone") EXCEPT !.opaque = FALSE]},
         {[Clip EXCEPT !.off = TRUE], Shot(0, 2000, "m")}}}
    \cup {[Cut(2000, Script \cup {Clip}) EXCEPT !.rate = 2997],
          Cut(2000, {Told(0, 900, 110), Clip}),
          Cut(2000, {Told(0, 40, 10), Clip}),
          Cut(900, {Told(0, 900, 10), Shot(0, 900, "b")})}
Owned(content) ==
    [here |-> TRUE, content |-> content, rights |-> "owned", license |-> FALSE, eligible |-> TRUE]
MCAssets ==
    "a" :> Owned("video")
    @@ "b" :> [Owned("image") EXCEPT !.rights = "licensed", !.license = TRUE]
    @@ "c" :> [Owned("video") EXCEPT !.rights = "unknown"]
    @@ "gone" :> [Owned("video") EXCEPT !.here = FALSE]
    @@ "m" :> [Owned("audio") EXCEPT !.rights = "royalty_free"]
    @@ "n" :> [Owned("audio") EXCEPT !.rights = "licensed"]
    @@ "f" :> [Owned("audio") EXCEPT !.eligible = FALSE]
Cues(windows) ==
    [i \in DOMAIN windows |-> [start |-> windows[i][1], end |-> windows[i][2], chars |-> 20]]
MCOffers ==
    {Cues(<< <<0, 1000>>, <<970, 1000>>, <<967, 2010>> >>),
     Cues(<< <<0, 95>>, <<100, 2000>> >>),
     Cues(<< <<0, 1000>>, <<900, 2000>> >>)}
MCMixes ==
    {[voice |-> FALSE, music |-> NoAsset], [voice |-> FALSE, music |-> "m"],
     [voice |-> TRUE, music |-> "n"], [voice |-> TRUE, music |-> "f"]}
MCMisfits == {-5, 30}
MCFaults ==
    {[field |-> f[1], value |-> f[2]] : f \in
        {<<"none", 0>>, <<"length", 400>>, <<"length", -600>>, <<"profile", "square">>,
         <<"rate", 2500>>, <<"codecs", "vp9_opus_48000">>, <<"drift", 300>>, <<"black", 11>>,
         <<"peak", 0>>, <<"broken", 1>>, <<"bytes", 9999>>}}
Posted == [platform |-> "youtube", thumbnail |-> NoAsset, fits |-> TRUE, bytes |-> 5]
MCPosts ==
    {Posted, [Posted EXCEPT !.platform = "tiktok", !.thumbnail = "b"],
     [Posted EXCEPT !.platform = "tiktok", !.thumbnail = "a"],
     [Posted EXCEPT !.fits = FALSE], [Posted EXCEPT !.bytes = 2001]}

-----------------------------------------------------------------------------
(* Plans of a few scenes, and snapshots with all or some of the metrics.   *)

MCPriorities ==
    {<<"user_asset", "licensed_stock", "internal_library", "ai_image", "ai_video", "motion_graphic">>,
     <<"ai_video", "ai_image", "licensed_stock">>,
     <<"internal_library">>}
MCScenes == {<<"video", "image", "video">>, <<"image", "image">>}
MCPrices == {Unpriced, 30, 70}
Find(id, semantic, overlap) == [id |-> id, semantic |-> semantic, overlap |-> overlap]
MCFinds == {<<>>, <<Find(1, 5, 3), Find(2, 5, 4), Find(3, 6, 0)>>}

MCAllMetrics ==
    {"views", "hours", "average_duration", "duration", "completion_rate", "likes", "shares",
     "saves", "ctr", "followers", "revenue", "cost", "rpm"}
MCMetricSets ==
    {MCAllMetrics, MCAllMetrics \ {"duration", "completion_rate"}, MCAllMetrics \ {"views"},
     {"views", "hours", "completion_rate", "likes", "shares"},
     {"views", "hours", "average_duration", "likes"},
     {"views", "hours", "completion_rate", "duration", "average_duration", "ctr"}}
MCValues ==
    {[f \in Factors |-> v] : v \in {80, 20, 60}}
        \cup {[f \in Factors |-> IF f \in {"velocity", "retention"} THEN 150 ELSE 10]}
MCFeatures ==
    {{}, {"hook", "subtitle_style", "publishing_window"}, {"voice_profile", "duration"}}

-----------------------------------------------------------------------------
(* One of the queues, or one of the rules.                                 *)

VARIABLE service

serviceVars == <<service, jVars, pVars, dVars, sVars, mVars, evVars>>

MCPlanOf == 1 :> 1 @@ 2 :> 2 @@ 3 :> 2

MCInit ==
    /\ service \in {"video", "preview", "webhook", "sync", "media", "evaluation"}
    /\ JInit /\ PInit /\ DInit /\ SInit /\ MInit
    /\ hNear \in {{}, 1 .. 3}
    /\ IF service = "evaluation" THEN EvInit ELSE EvStill
    /\ IF service = "video" THEN jRequest["q1"].key # None
       ELSE \A q \in Requests : jRequest[q].key = None

\* Job ids are drawn in order, and with two of them nothing more fails.
IdsInOrder == jJob["j1"].status = "none" => jJob["j2"].status = "none"
TwoJobs == \A j \in Jobs : jJob[j].status # "none"
NoFault == jFailures = 0 /\ \A j \in Jobs : \A f \in DOMAIN jDisk[j] : jDisk[j][f] # "y"

Only(s, A) == service = s /\ A /\ UNCHANGED service
OfVideo(A) == Only("video", A) /\ UNCHANGED <<pVars, dVars, sVars, mVars, evVars>>
OfPreview(A) == Only("preview", A) /\ UNCHANGED <<jVars, dVars, sVars, mVars, evVars>>
OfWebhook(A) == Only("webhook", A) /\ UNCHANGED <<jVars, pVars, sVars, mVars, evVars>>
OfSync(A) == Only("sync", A) /\ UNCHANGED <<jVars, pVars, dVars, mVars, evVars>>
OfMedia(A) == Only("media", A) /\ UNCHANGED <<jVars, pVars, dVars, sVars, evVars>>
OfEvaluation(A) == Only("evaluation", A) /\ UNCHANGED <<jVars, pVars, dVars, sVars, mVars>>

MCNext ==
    \/ OfVideo(JNext /\ IdsInOrder' /\ (TwoJobs' => NoFault'))
    \/ OfPreview(PNext)
    \/ OfWebhook(DNext)
    \/ OfSync(SNext)
    \/ OfMedia(MNext)
    \/ OfEvaluation(EvNext)

MCSpec == MCInit /\ [][MCNext]_serviceVars
=============================================================================
