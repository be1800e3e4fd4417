------------------------------ MODULE Reframing ------------------------------
(***************************************************************************)
(* What a vision analysis computes: the times it samples, the provider's   *)
(* structured answer about exactly those frames and what the answer costs  *)
(* (openai_vision_provider.py), then scenes, subject tracks and crop plans *)
(* (vision_logic.py).                                                      *)
(*                                                                         *)
(* Times are milliseconds, positions counted so that 1 is the width of the *)
(* frame over GWidth: the moves of a short track come out even.  The       *)
(* vertical axis is moved like the horizontal one, but stays above the     *)
(* subtitles.  Sizes of boxes, texts and crop scales are left out, and so  *)
(* are the rounded averages of scenes.                                     *)
(***************************************************************************)
EXTENDS Integers, FiniteSets, Sequences, FiniteSetsExt, Orders

CONSTANTS
    GRequests,      \* [length, scenes, interval, frames, trust, jump, floor, overrides]:
                    \* scenes a sequence of [from, to], overrides one of [time, x, y]
                    \* for the aspect ratio that is planned
    GSightings,     \* what is seen in one frame: sequences of
                    \* [who, category, confidence, x, y]
    GUsages,        \* token counts [input, cached, output]
    GWidth

VARIABLES
    gRequest,
    gTimes,         \* sampled times, in order
    gSeen,          \* the provider's answer: sightings by frame index
    gScenes,        \* sequence of [scene, frames]
    gTrack,         \* the subject followed: [who, category], or NoSubject
    gKeyframes,     \* crop centres [time, x, y] of the plan
    gStrategy,
    gCharged,       \* actual cost, in half millionths of a VND
    gPc

gVars == <<gRequest, gTimes, gSeen, gScenes, gTrack, gKeyframes, gStrategy, gCharged, gPc>>

NoSubject == [who |-> 0, category |-> "none"]

\* Categories by name.
CategoryOrder == [building |-> 1, face |-> 2, logo |-> 3, object |-> 4,
                  person |-> 5, product |-> 6, text |-> 7]

\* Scenes follow each other, with gaps where a shot is too short to be one.
SceneLists(length) ==
    {s \in Seq([from : 0 .. length, to : 0 .. length]) :
        /\ \A k \in DOMAIN s : s[k].from < s[k].to
        /\ \A j, k \in DOMAIN s : j < k => s[j].to <= s[k].from}
Places == 0 .. GWidth

ASSUME ReframingConstants ==
    /\ GWidth \in Nat
    /\ \A r \in GRequests :
          /\ {r.length, r.interval, r.frames} \subseteq Nat \ {0}
          /\ r.scenes \in SceneLists(r.length)
          /\ r.trust \in Nat /\ r.jump \in Nat /\ r.floor \in Int
          /\ r.overrides \in Seq([time : Nat, x : Places, y : Places])
    /\ GSightings \subseteq Seq([who : Nat, category : DOMAIN CategoryOrder, confidence : Nat,
                                 x : Places, y : Places])
    /\ GUsages \subseteq [input : Nat, cached : Nat, output : Nat]

-----------------------------------------------------------------------------
(* Samples: the middles of scenes and a grid, thinned to a maximum.        *)

RoundedQuotient(a, b) ==
    LET q == a \div b
        r == a % b
    IN  IF 2 * r > b \/ (2 * r = b /\ q % 2 = 1) THEN q + 1 ELSE q

Candidates(r) ==
    LET middles == {Min({r.length - 1, (r.scenes[k].from + r.scenes[k].to) \div 2}) :
                       k \in DOMAIN r.scenes}
        first == Min({r.interval \div 2, r.length - 1})
        Grid(n) == {first + k * r.interval : k \in 0 .. n - 1}
        points == {n \in 1 .. r.length : /\ first + (n - 1) * r.interval < r.length
                                         /\ Cardinality(middles \cup Grid(n - 1)) < 3 * r.frames}
    IN  middles \cup UNION {Grid(n) : n \in points}

SampleTimes(r) ==
    LET ordered == InOrder(Candidates(r), <)
        n == Len(ordered)
    IN  IF n <= r.frames THEN ordered
        ELSE IF r.frames = 1 THEN <<ordered[n \div 2 + 1]>>
        ELSE InOrder({ordered[RoundedQuotient(i * (n - 1), r.frames - 1) + 1] :
                         i \in 0 .. r.frames - 1}, <)

\* Exactly the approved number of frames is sent, or nothing is.
Sample ==
    /\ gPc = "asked"
    /\ gTimes' = SampleTimes(gRequest)
    /\ gPc' = IF Len(gTimes') = gRequest.frames THEN "sent" ELSE "failed"
    /\ UNCHANGED <<gRequest, gSeen, gScenes, gTrack, gKeyframes, gStrategy, gCharged>>

-----------------------------------------------------------------------------
(* The answer and its cost, with the rates and ceilings the gate demands.  *)

InputCeiling == 16384
OutputCeiling == 4096
EstimatedCost == 2 * 500 * 1000000

UsageAccepted(u) == u.input <= InputCeiling /\ u.output <= OutputCeiling
ActualCost(u) ==
    LET cached == Min({u.cached, u.input})
    IN  2 * 6565 * (u.input - cached) + 1313 * cached + 2 * 52520 * u.output

\* One record for each frame, whatever their order; a missing or a repeated
\* index, and usage above a ceiling, fail the call.
Answer ==
    /\ gPc = "sent"
    /\ \E indexes \in SUBSET (1 .. gRequest.frames), repeated \in BOOLEAN, u \in GUsages :
       \E seen \in [indexes -> GSightings] :
          IF indexes = DOMAIN gTimes /\ ~repeated /\ UsageAccepted(u)
          THEN /\ gSeen' = [i \in DOMAIN gTimes |-> seen[i]]
               /\ gCharged' = ActualCost(u)
               /\ gPc' = "answered"
          ELSE /\ gPc' = "failed"
               /\ UNCHANGED <<gSeen, gCharged>>
    /\ UNCHANGED <<gRequest, gTimes, gScenes, gTrack, gKeyframes, gStrategy>>

-----------------------------------------------------------------------------
(* Scenes, tracks and the crop plan.                                       *)

\* Scenes of the base analysis that a frame gives evidence of.
VisionScenes(times) ==
    LET FramesOf(s) == {i \in DOMAIN times : s.from <= times[i] /\ times[i] < s.to}
        shown == [k \in DOMAIN gRequest.scenes |->
                     [scene |-> k, frames |-> FramesOf(gRequest.scenes[k])]]
    IN  Entries(shown, {k \in DOMAIN shown : shown[k].frames # {}})

\* Sightings of one subject, over the frames in order.
Followed(o) == o.confidence >= gRequest.trust /\ o.category \notin {"text", "logo"}
Sighting(p) == gSeen[p[1]][p[2]]
Shows(subject) ==
    {p \in UNION {{i} \X DOMAIN gSeen[i] : i \in DOMAIN gSeen} :
        /\ Followed(Sighting(p))
        /\ Sighting(p).who = subject.who /\ Sighting(p).category = subject.category}
Observations(subject) ==
    LET order == InOrder(Shows(subject), Earlier)
    IN  [n \in DOMAIN order |->
            [time |-> gTimes[order[n][1]], x |-> Sighting(order[n]).x,
             y |-> Sighting(order[n]).y, confidence |-> Sighting(order[n]).confidence]]
Subjects ==
    {[who |-> o.who, category |-> o.category] :
        o \in {p \in UNION {{gSeen[i][n] : n \in DOMAIN gSeen[i]} : i \in DOMAIN gSeen} : Followed(p)}}

\* Confidence times continuity, then confidence; the first in name order wins.
Trust(obs) ==
    LET sum[n \in 0 .. Len(obs)] == IF n = 0 THEN 0 ELSE sum[n - 1] + obs[n].confidence
    IN  sum[Len(obs)]
Better(s, t) ==
    LET a == Observations(s)
        b == Observations(t)
        scoreA == Trust(a) * Min({Len(a), Len(gSeen)}) * Len(b)
        scoreB == Trust(b) * Min({Len(b), Len(gSeen)}) * Len(a)
        meanA == Trust(a) * Len(b)
        meanB == Trust(b) * Len(a)
        Named(u) == <<u.who, CategoryOrder[u.category]>>
    IN  \/ scoreA > scoreB
        \/ scoreA = scoreB /\ meanA > meanB
        \/ scoreA = scoreB /\ meanA = meanB /\ Earlier(Named(s), Named(t))
Primary ==
    IF Subjects = {} THEN NoSubject
    ELSE CHOOSE s \in Subjects : \A t \in Subjects \ {s} : Better(s, t)

\* _bounded_ema: towards the subject by 45% of the way, no further than the jump.
Clamp(v, low, high) == Max({low, Min({high, v})})
\* (Mutant: all of its way when it jumps far.)
TowardAtOnce(previous, target) ==
    Clamp(previous + (9 * (target - previous)) \div 20, 0, GWidth)
Toward(previous, target) ==
    Clamp(previous + Clamp((9 * (target - previous)) \div 20, -gRequest.jump, gRequest.jump), 0, GWidth)
Smoothed(obs) ==
    LET High(y) == Min({y, Max({GWidth \div 2, gRequest.floor})})
        path[n \in 1 .. Len(obs)] ==
            IF n = 1 THEN [time |-> obs[1].time, x |-> obs[1].x, y |-> High(obs[1].y)]
            ELSE [time |-> obs[n].time, x |-> Toward(path[n - 1].x, obs[n].x),
                  y |-> Toward(path[n - 1].y, High(obs[n].y))]
    IN  [n \in 1 .. Len(obs) |-> path[n]]

Centered == [n \in 1 .. 2 |-> [time |-> IF n = 1 THEN 0 ELSE gRequest.length - 1,
                               x |-> GWidth \div 2, y |-> GWidth \div 2]]

\* By their times, equal ones as given.
Overridden ==
    LET crops == gRequest.overrides
        order == InOrder({<<crops[i].time, i>> : i \in DOMAIN crops}, Earlier)
    IN  [n \in DOMAIN order |-> crops[order[n][2]]]

\* The owner's crops before the subject's, and the centre without either.
Plan ==
    /\ gPc = "answered"
    /\ gScenes' = VisionScenes(gTimes)
    /\ gTrack' = Primary
    /\ IF gRequest.overrides # <<>>
       THEN gStrategy' = "manual_override" /\ gKeyframes' = Overridden
       ELSE IF Primary # NoSubject
       THEN gStrategy' = "subject_track" /\ gKeyframes' = Smoothed(Observations(Primary))
       ELSE gStrategy' = "center_crop" /\ gKeyframes' = Centered
    /\ gPc' = "planned"
    /\ UNCHANGED <<gRequest, gTimes, gSeen, gCharged>>

GInit ==
    /\ gRequest \in GRequests
    /\ gTimes = <<>> /\ gSeen = <<>> /\ gScenes = <<>>
    /\ gTrack = NoSubject /\ gKeyframes = <<>> /\ gStrategy = "none"
    /\ gCharged = 0 /\ gPc = "asked"

GNext == Sample \/ Answer \/ Plan

-----------------------------------------------------------------------------
GTypeOK ==
    /\ gPc \in {"asked", "sent", "answered", "planned", "failed"}
    /\ gTrack = NoSubject \/ gTrack \in Subjects
    /\ \A n \in DOMAIN gKeyframes : gKeyframes[n].x \in 0 .. GWidth /\ gKeyframes[n].y \in 0 .. GWidth

\* Thinning keeps the ends: the frames sent are different moments inside the
\* media, from its first candidate to its last, and every one of them is evidence
\* of one scene, or of none where its shot is too short to be a scene.
FramesTellTheirScene ==
    /\ gPc \in {"sent", "answered", "planned"} =>
          /\ \A i \in DOMAIN gTimes : gTimes[i] \in 0 .. gRequest.length - 1
          /\ \A i \in 2 .. Len(gTimes) : gTimes[i - 1] < gTimes[i]
          /\ gRequest.frames > 1 => {Min(Candidates(gRequest)), Max(Candidates(gRequest))}
                                        \subseteq {gTimes[i] : i \in DOMAIN gTimes}
    /\ gPc = "planned" =>
          \A i \in DOMAIN gTimes :
              Cardinality({k \in DOMAIN gScenes : i \in gScenes[k].frames})
                = IF \E k \in DOMAIN gRequest.scenes :
                        gTimes[i] \in gRequest.scenes[k].from .. gRequest.scenes[k].to - 1
                  THEN 1 ELSE 0

\* The crop moves forward in time, never by more than the jump, never over the
\* subtitles, and stays between places where its one subject was seen.
CropFollows ==
    gStrategy = "subject_track" =>
        LET seen == Observations(gTrack)
            xs == {seen[n].x : n \in DOMAIN seen}
        IN  \A n \in DOMAIN gKeyframes :
              /\ gKeyframes[n].x \in Min(xs) .. Max(xs)
              /\ gKeyframes[n].y <= Max({GWidth \div 2, gRequest.floor})
              /\ n > 1 => /\ gKeyframes[n - 1].time <= gKeyframes[n].time
                          /\ gKeyframes[n].x - gKeyframes[n - 1].x \in -gRequest.jump .. gRequest.jump
                          /\ gKeyframes[n].y - gKeyframes[n - 1].y \in -gRequest.jump .. gRequest.jump

\* What an accepted answer costs was reserved before the call.
CostWasReserved == gCharged <= EstimatedCost
=============================================================================
