----------------------------- MODULE Deliverables -----------------------------
(***************************************************************************)
(* What the checks on the way from a cut to a publication add up to:       *)
(* cues and mix of the package, the render's preconditions, narration and  *)
(* file (production_logic.py, production_audio.py, production_qc.py), then *)
(* rights and platform limits (publishing_logic.py).  Versions, approvals  *)
(* and the rows in between are Production's and Publishing's.              *)
(*                                                                         *)
(* Times are milliseconds, frame rates hundredths of a frame.  Inputs keep *)
(* off a float tolerance's exact value.  Renderer and voice are outside    *)
(* the program: they deliver what was asked with some of the deviations    *)
(* the program measures.                                                   *)
(***************************************************************************)
EXTENDS Integers, FiniteSets, Sequences, SequencesExt, FiniteSetsExt, Orders

CONSTANTS
    VCuts,      \* [length, rate, clips], clips a set of [kind, start, length,
                \* asset, trackOff, off, opaque, chars]
    VAssets,    \* function from ids to [here, content, rights, license, eligible]
    VOffers,    \* cue lists an owner sends: sequences of [start, end, chars]
    VMixes,     \* [voice, music]
    VSpeech,    \* lengths of a spoken cue
    VMisfits,   \* how far a fitted chunk is off its length
    VFaults,    \* what is wrong with a rendered file: [field, value]
    VRequests   \* [platform, thumbnail, fits, bytes]

\* Cues have two ends; a voice takes longer for one than cues may overlap,
\* fitted or not.
ASSUME DeliverableConstants ==
    /\ \A cut \in VCuts :
          /\ cut.length \in Int /\ IsFiniteSet(cut.clips)
          /\ \A c \in cut.clips : c.start \in Nat /\ c.length \in Nat /\ c.chars \in Nat
    /\ \A cues \in VOffers : cues # <<>> /\ cues \in Seq([start : Nat, end : Nat, chars : Nat])
    /\ \A length \in VSpeech : length \in Nat /\ length >= 34
    /\ \A misfit \in VMisfits : misfit \in Int /\ 80 + misfit >= 34

VARIABLES
    vCut, vCues, vMix, vProfile,
    vSpoken,    \* narration: sequence of [start, end, speed], speed in percent
    vFile,      \* what ffprobe and the signal filters measure
    vRequest, vPc

vVars == <<vCut, vCues, vMix, vProfile, vSpoken, vFile, vRequest, vPc>>

NoAsset == "none"
NoFile == [profile |-> "none"]
NoPost == [platform |-> "none"]
Voiced == [voice |-> TRUE, music |-> NoAsset]

-----------------------------------------------------------------------------
(* Cues and mix of the package.                                            *)

\* Three lines of 34 characters with the default style.
Characters == 102

\* (Mutant: the order of cues is the sender's.)
CuesFitAnyhow(cues) == \A i \in DOMAIN cues :
    cues[i].end <= vCut.length + 34 /\ cues[i].chars <= Characters
CuesFit(cues) == \A i \in DOMAIN cues :
    /\ i > 1 => cues[i].start >= cues[i - 1].end - 34
    /\ cues[i].end <= vCut.length + 34
    /\ cues[i].chars <= Characters

\* One cue for each subtitle clip of 50 ms, the earliest first.
CueOf(c) == [start |-> c.start, end |-> Min({vCut.length, c.start + c.length}),
             chars |-> Min({180, c.chars})]
ToldClips == {c \in vCut.clips : /\ c.kind = "subtitles" /\ ~c.trackOff /\ ~c.off /\ c.chars > 0
                            /\ CueOf(c).end - c.start >= 50}
DerivedCues == InOrder({CueOf(c) : c \in ToldClips}, LAMBDA a, b : a.start < b.start)

\* Of two clips that start together, one is too early for the other.
CreatePackage ==
    /\ vPc = "cut"
    /\ IF /\ ToldClips # {} /\ \A c, d \in ToldClips : c.start = d.start => c = d
          /\ CuesFit(DerivedCues)
       THEN vCues' = DerivedCues /\ vMix' = Voiced /\ vPc' = "package"
       ELSE vPc' = "refused" /\ UNCHANGED <<vCues, vMix>>
    /\ UNCHANGED <<vCut, vProfile, vSpoken, vFile, vRequest>>

\* An owner's cues and mix replace them, or are refused and change nothing.
ReplaceCues ==
    /\ vPc = "package"
    /\ \E cues \in VOffers : CuesFit(cues) /\ vCues' = cues
    /\ UNCHANGED <<vCut, vMix, vProfile, vSpoken, vFile, vRequest, vPc>>

MusicCleared(a) ==
    /\ a.here /\ a.content = "audio"
    /\ a.rights \in {"owned", "licensed", "public_domain", "royalty_free"}
    /\ a.rights = "licensed" => a.license

ReplaceMix ==
    /\ vPc = "package"
    /\ \E mix \in VMixes :
          /\ mix.music # NoAsset => MusicCleared(VAssets[mix.music])
          /\ mix.voice \/ mix.music # NoAsset
          /\ vMix' = mix
    /\ UNCHANGED <<vCut, vCues, vProfile, vSpoken, vFile, vRequest, vPc>>

-----------------------------------------------------------------------------
(* The render.                                                             *)

Active(cut) == {c \in cut.clips : c.kind = "video" /\ ~c.trackOff /\ ~c.off}
Visible(cut) == {c \in Active(cut) : c.opaque}
ClipEnd(c) == c.start + c.length

\* validate_timeline_renderability: gaps of up to 50 ms pass.
\* (Mutant: what is missing at the end is no gap.)
NoGapsBetween(cut) ==
    LET clips == Visible(cut)
    IN  clips # {} /\ \A c \in clips :
            c.start <= Max({0} \cup {ClipEnd(d) : d \in {e \in clips : e.start < c.start}}) + 50
NoGaps(cut) ==
    LET clips == Visible(cut)
        CoveredBefore(t) == Max({0} \cup {ClipEnd(c) : c \in {d \in clips : d.start < t}})
    IN  /\ clips # {}
        /\ \A c \in clips : c.start <= CoveredBefore(c.start) + 50
        /\ Max({ClipEnd(c) : c \in clips}) >= cut.length - 50

\* Everything active is downloaded, and what is seen must be a picture or a
\* video; the music's asset is not there for clips.
Renderable ==
    LET fetched == {c.asset : c \in Active(vCut)} \ {NoAsset}
        seen == {c.asset : c \in Visible(vCut)}
        music == {vMix.music} \ {NoAsset}
    IN  /\ \A a \in fetched \cup music : VAssets[a].here
        /\ NoGaps(vCut)
        /\ seen \subseteq fetched \ music
        /\ CuesFit(vCues)
        /\ \A a \in music : MusicCleared(VAssets[a])
        /\ \A a \in seen : VAssets[a].eligible /\ VAssets[a].content \in {"image", "video"}

StartRender ==
    /\ vPc = "package"
    /\ \E p \in {"vertical", "landscape"} : vProfile' = p
    /\ vPc' = IF Renderable THEN "narration" ELSE "failed"
    /\ UNCHANGED <<vCut, vCues, vMix, vSpoken, vFile, vRequest>>

\* A cue spoken too slowly is sped up, by at most 35%, to end 20 ms early.
MostSpeed == 135
FitLength(slot) == Max({80, slot - 20})
SpeedUp(length, slot) == (100 * length) \div FitLength(slot)

\* synthesize_narration, one cue after the other.
Narrate ==
    LET i == Len(vSpoken) + 1
    IN  /\ vPc = "narration"
        /\ IF ~vMix.voice \/ i > Len(vCues)
           THEN vPc' = "mixed" /\ UNCHANGED vSpoken
           ELSE \E length \in VSpeech, misfit \in VMisfits :
                  LET cue == vCues[i]
                      slot == cue.end - cue.start
                      late == length > slot
                      chunk == IF late THEN FitLength(slot) + misfit ELSE length
                      end == cue.start + chunk
                  IN  IF /\ late => SpeedUp(length, slot) <= MostSpeed
                         /\ end <= cue.end /\ end <= vCut.length
                      THEN /\ vSpoken' = Append(vSpoken,
                                [start |-> cue.start, end |-> end,
                                 speed |-> IF late THEN SpeedUp(length, slot) ELSE 100])
                           /\ UNCHANGED vPc
                      ELSE vPc' = "failed" /\ UNCHANGED vSpoken
        /\ UNCHANGED <<vCut, vCues, vMix, vProfile, vFile, vRequest>>

\* The manifest names whole frames.
WholeRate(rate) == (rate + 50) \div 100
MadeFile ==
    [profile |-> vProfile, rate |-> 100 * WholeRate(vCut.rate), length |-> vCut.length,
     codecs |-> "h264_aac_48000", drift |-> 0, black |-> 0, freeze |-> 0, silence |-> 0,
     dark |-> 0, peak |-> -10, broken |-> 0, bytes |-> 10000]

Render ==
    /\ vPc = "mixed"
    /\ \E f \in VFaults :
          vFile' = IF f.field = "none" THEN MadeFile
                   ELSE IF f.field = "length" THEN [MadeFile EXCEPT !.length = @ + f.value]
                   ELSE [MadeFile EXCEPT ![f.field] = f.value]
    /\ vPc' = "rendered"
    /\ UNCHANGED <<vCut, vCues, vMix, vProfile, vSpoken, vRequest>>

Near(a, b, most) == a - b \in -most .. most

\* FullProductionQC.inspect: shares in percent, peak in tenths of a dB.
QCPasses(f) ==
    /\ f.bytes >= 10000
    /\ f.profile = vProfile
    /\ Near(f.rate, vCut.rate, 2) /\ Near(f.length, vCut.length, 500)
    /\ f.codecs = "h264_aac_48000" /\ f.drift <= 250
    /\ f.black <= 10 /\ f.freeze <= 15 /\ f.silence <= 80 /\ f.dark <= 10
    /\ f.peak >= -350 /\ f.peak < 0
    /\ f.broken = 0

Inspect ==
    /\ vPc = "rendered"
    /\ vPc' = IF QCPasses(vFile) THEN "ready" ELSE "failed"
    /\ UNCHANGED <<vCut, vCues, vMix, vProfile, vSpoken, vFile, vRequest>>

-----------------------------------------------------------------------------
(* The publication, under the limits of publishing-capabilities.json.      *)

Limits(platform) ==
    [profiles |-> IF platform = "tiktok" THEN {"vertical"} ELSE {"vertical", "landscape"},
     shortest |-> 1000, longest |-> 180000, largest |-> 2000]

\* Every clip that is not disabled, whatever its track, the music and the
\* thumbnail.  (Mutant: music was checked when it was mixed.)
SourceAssetsUnmixed(request) ==
    ({c.asset : c \in {d \in vCut.clips : ~d.off}} \cup {request.thumbnail}) \ {NoAsset}
SourceAssets(request) ==
    ({c.asset : c \in {d \in vCut.clips : ~d.off}} \cup {vMix.music, request.thumbnail}) \ {NoAsset}

RightsVerified(a) ==
    /\ a.here /\ a.eligible
    /\ a.rights \in {"owned", "licensed", "public_domain", "royalty_free", "verified"}
    /\ a.rights = "licensed" => a.license

PlatformTakes(request) ==
    LET limits == Limits(request.platform)
    IN  /\ vProfile \in limits.profiles
        /\ limits.shortest <= vFile.length /\ vFile.length <= limits.longest
        /\ 1 <= request.bytes /\ request.bytes <= limits.largest
        /\ request.fits
        /\ request.thumbnail # NoAsset => VAssets[request.thumbnail].here
                                          /\ VAssets[request.thumbnail].content = "image"

Publish ==
    /\ vPc = "ready"
    /\ \E request \in VRequests :
          /\ vRequest' = request
          /\ vPc' = IF /\ SourceAssets(request) # {}
                       /\ \A a \in SourceAssets(request) : RightsVerified(VAssets[a])
                       /\ PlatformTakes(request)
                    THEN "published" ELSE "blocked"
    /\ UNCHANGED <<vCut, vCues, vMix, vProfile, vSpoken, vFile>>

VInit ==
    /\ vCut \in VCuts
    /\ vCues = <<>> /\ vMix = Voiced /\ vProfile = "none" /\ vSpoken = <<>>
    /\ vFile = NoFile /\ vRequest = NoPost /\ vPc = "cut"

VNext ==
    \/ CreatePackage \/ ReplaceCues \/ ReplaceMix
    \/ StartRender \/ Narrate \/ Render \/ Inspect
    \/ Publish

-----------------------------------------------------------------------------
VTypeOK ==
    /\ vPc \in {"cut", "package", "narration", "mixed", "rendered", "ready", "published",
                "blocked", "refused", "failed"}
    /\ Len(vSpoken) <= Len(vCues)
    /\ vPc \in {"ready", "published", "blocked"} => vFile # NoFile /\ vCues # <<>>

\* Cues may overlap by 34 ms and a short cue may even lie before the one above
\* it, but voices take turns: what is spoken for one cue is over, but for those
\* 34 ms, before any later cue speaks, inside the media and never at more than the
\* accepted speed.
VoicesTakeTurns ==
    \A i, j \in DOMAIN vSpoken :
        /\ vSpoken[i].end <= vCut.length /\ vSpoken[i].speed <= MostSpeed
        /\ i < j => vSpoken[j].start >= vSpoken[i].end - 34

\* What is published is the cut: at every moment a picture is there or less than
\* 50 ms away, the file is as long as the cut but for half a second, at its rate
\* and in the profile the platform takes.
PublishedShowsTheCut ==
    vPc = "published" =>
        /\ \A t \in {0} \cup {ClipEnd(c) : c \in Visible(vCut)} :
              t < vCut.length - 50 => \E c \in Visible(vCut) : c.start <= t + 50 /\ ClipEnd(c) > t
        /\ Near(vFile.length, vCut.length, 500) /\ Near(vFile.rate, vCut.rate, 2)
        /\ 1000 <= vFile.length /\ vFile.length <= 180000
        /\ vFile.profile \in Limits(vRequest.platform).profiles

\* Everything seen or heard in a publication was there to be checked, is cleared
\* under the publishing policy, and the music under the stricter one of the mix.
PublishedIsCleared ==
    vPc = "published" =>
        /\ \A a \in {c.asset : c \in Visible(vCut)} :
              RightsVerified(VAssets[a]) /\ VAssets[a].content \in {"image", "video"}
        /\ vMix.music # NoAsset => /\ VAssets[vMix.music].eligible
                                   /\ MusicCleared(VAssets[vMix.music])
        /\ vRequest.thumbnail # NoAsset => VAssets[vRequest.thumbnail].content = "image"
=============================================================================
