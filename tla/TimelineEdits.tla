--------------------------- MODULE TimelineEdits ----------------------------
(***************************************************************************)
(* What a timeline shows and what edits make of it: the first version,     *)
(* laid out from an analysis (timeline_logic.py, build_initial_timeline,   *)
(* over the silence decisions of auto_edit_logic.py), and the operations   *)
(* of TimelineService.mutate and restore, requested by editors that looked *)
(* at some version (apply_operations, commit_mutation).                    *)
(*                                                                         *)
(* Times are whole units of 50 ms, the shortest window the code keeps.     *)
(* Labels, crops, transforms, volumes and evidence are left out; a segment *)
(* of the transcript is one word.  A request names a clip by its place in  *)
(* the snapshot it is applied to.                                          *)
(***************************************************************************)
EXTENDS Integers, Sequences, SequencesExt, FiniteSetsExt, Orders

CONSTANTS
    EEnd,           \* duration of the source
    EAnalyses,      \* [words, silences, boundaries, padding, broll] of the analyses
    EMinSilence,    \* minimum_silence_duration
    Editors,
    ETimes,         \* the instants an operation may name
    EMaxVersions,   \* bound on versions
    EMaxRequests    \* bound on requests

ASSUME EditConstants ==
    /\ EEnd \in Nat \ {0} /\ ETimes \subseteq Nat
    /\ \A a \in EAnalyses :
          /\ a.words \subseteq Int \X Int /\ IsFiniteSet(a.words)
          /\ a.silences \subseteq Int \X Int /\ IsFiniteSet(a.silences)
          /\ a.boundaries \subseteq Int /\ IsFiniteSet(a.boundaries)
          /\ a.padding \in Int \X Int /\ a.broll \in Int \X Int \X (Nat \ {0})

VARIABLES
    eAnalysis,      \* the succeeded analysis the timeline is made from
    eVersions,      \* timeline_versions: [tracks, type, ops, restored], by version
    eEditor,        \* [pc, expected, row]
    eRequests

eVars == <<eAnalysis, eVersions, eEditor, eRequests>>

-----------------------------------------------------------------------------
(* The analysis.                                                           *)

ELater(a, b) == IF a > b THEN a ELSE b
EEarlier(a, b) == IF a < b THEN a ELSE b
Overlaps(v, w) == EEarlier(v[2], w[2]) > ELater(v[1], w[1])

\* build_scenes: the intervals between shot boundaries, those under 80 ms left out.
Scenes(a) ==
    LET points == InOrder({0, EEnd} \cup {b \in a.boundaries : 0 < b /\ b < EEnd}, <)
    IN  FlattenSeq([n \in 1 .. Len(points) - 1 |->
            IF points[n + 1] - points[n] >= 2 THEN <<<<points[n], points[n + 1]>>>> ELSE <<>>])

\* build_silence_decisions: each silence without its padding, enabled when what
\* is left is long enough and holds no speech.
Decision(a, raw) ==
    LET shrunk == <<raw[1] + a.padding[1], raw[2] - a.padding[2]>>
        conflicts == \E w \in a.words : Overlaps(shrunk, w)
    IN  [at |-> shrunk, padding |-> a.padding, conflicts |-> conflicts,
         enabled |-> ~conflicts /\ shrunk[2] - shrunk[1] >= EMinSilence]

\* The cuts of the timeline: each enabled decision with its padding once more.
Cuts(a) ==
    LET decisions == {Decision(a, raw) : raw \in a.silences}
    IN  InOrder({<<ELater(0, d.at[1] - d.padding[1]), EEarlier(EEnd, d.at[2] + d.padding[2])>> :
                    d \in {d \in decisions : d.enabled /\ ~d.conflicts}}, Earlier)

\* _subtract_intervals
BeforeOnly(window, cut) ==
    IF ~Overlaps(window, cut) THEN <<window>>
    ELSE IF cut[1] > window[1] THEN <<<<window[1], cut[1]>>>> ELSE <<>>
Pieces(window, cut) ==
    IF ~Overlaps(window, cut) THEN <<window>>
    ELSE (IF cut[1] > window[1] THEN <<<<window[1], cut[1]>>>> ELSE <<>>)
         \o (IF cut[2] < window[2] THEN <<<<cut[2], window[2]>>>> ELSE <<>>)

Subtracted(windows, cut) == FlattenSeq([n \in DOMAIN windows |-> Pieces(windows[n], cut)])

\* What the cuts leave of a window, one after the other.
SubtractedAll(window, cuts) ==
    LET left[n \in 0 .. Len(cuts)] ==
            IF n = 0 THEN <<window>> ELSE Subtracted(left[n - 1], cuts[n])
    IN  left[Len(cuts)]

SourceWindows(a) ==
    LET scenes == Scenes(a)
        kept == FlattenSeq([n \in DOMAIN scenes |-> SubtractedAll(scenes[n], Cuts(a))])
    IN  IF kept = <<>> THEN <<<<0, EEnd>>>> ELSE kept

-----------------------------------------------------------------------------
(* The first version.                                                      *)

Clip(kind, from, to, start) ==
    [kind |-> kind, from |-> from, to |-> to, start |-> start, duration |-> to - from,
     speed |-> 1, disabled |-> FALSE]

ClipEnd(clip) == clip.start + clip.duration

\* One clip after the other.
Laid(kind, windows) ==
    LET cursor[n \in 0 .. Len(windows)] ==
            IF n = 0 THEN 0 ELSE cursor[n - 1] + (windows[n][2] - windows[n][1])
    IN  [n \in DOMAIN windows |-> Clip(kind, windows[n][1], windows[n][2], cursor[n - 1])]

\* The speech of each word under the part of each clip that shows it.
Spoken(w, clip) ==
    LET from == ELater(w[1], clip.from)
        to == EEarlier(w[2], clip.to)
    IN  IF to > from THEN <<Clip("subtitle", from, to, clip.start + (from - clip.from))>> ELSE <<>>
Subtitles(a, source) ==
    LET words == InOrder(a.words, Earlier)
    IN  FlattenSeq([n \in DOMAIN words |->
                       FlattenSeq([m \in DOMAIN source |-> Spoken(words[n], source[m])])])

\* _map_source_time
MappedTime(t, source) ==
    LET holding == {n \in DOMAIN source : source[n].from <= t /\ t <= source[n].to}
        earlier == {n \in DOMAIN source : source[n].to < t}
    IN  IF holding # {} THEN source[Min(holding)].start + (t - source[Min(holding)].from)
        ELSE IF earlier # {} THEN ClipEnd(source[Max(earlier)])
        ELSE 0

\* The selected media of a plan item, where its placement is mapped to; a
\* placement whose picture was cut gets half a second.
BrollUnbounded(a, source) ==
    LET start == MappedTime(a.broll[1], source)
        mapped == MappedTime(a.broll[2], source)
        end == IF mapped > start THEN mapped ELSE start + ELater(10, a.broll[2] - a.broll[1])
    IN  <<Clip("broll", 0, EEarlier(a.broll[3], ELater(1, end - start)), start)>>
Broll(a, source) ==
    LET main == ELater(2, ClipEnd(Last(source)))
        start == MappedTime(a.broll[1], source)
        mapped == MappedTime(a.broll[2], source)
        end == IF mapped > start THEN mapped
               ELSE EEarlier(main, start + ELater(10, a.broll[2] - a.broll[1]))
        length == ELater(1, EEarlier(main - start, end - start))
    IN  IF main - start < 1 THEN <<>>
        ELSE <<Clip("broll", 0, EEarlier(a.broll[3], length), start)>>

Track(type, clips) == [type |-> type, locked |-> FALSE, disabled |-> FALSE, clips |-> clips]

\* The locked metadata track has no clips and is left out.
InitialTracks(a) ==
    LET windows == SourceWindows(a)
        source == Laid("source", windows)
    IN  <<Track("video", source), Track("video", Broll(a, source)),
          Track("text", Subtitles(a, source)), Track("audio", Laid("original_audio", windows))>>

-----------------------------------------------------------------------------
(* Operations.                                                             *)

EKeep == -1
Places(tracks) == UNION {{i} \X DOMAIN tracks[i].clips : i \in DOMAIN tracks}

TrackStates(tracks) ==
    [type : {"set_track_state"}, track : DOMAIN tracks, locked : BOOLEAN, disabled : BOOLEAN]

ClipOperations(tracks) ==
    UNION {[type : {"move", "duplicate"}, at : {p}, start : ETimes \cup {EKeep}, target : DOMAIN tracks] \cup
           [type : {"trim"}, at : {p}, from : ETimes \cup {EKeep}, to : ETimes \cup {EKeep},
            start : ETimes \cup {EKeep}] \cup
           [type : {"split"}, at : {p}, time : ETimes] \cup
           [type : {"delete"}, at : {p}] \cup
           [type : {"reorder"}, at : {p}, index : {1}] \cup
           [type : {"disable"}, at : {p}, disabled : BOOLEAN] \cup
           [type : {"set_clip_properties"}, at : {p}, speed : {1, 2}] : p \in Places(tracks)}

Or(value, otherwise) == IF value = EKeep THEN otherwise ELSE value
Length(clip) == (clip.to - clip.from) \div clip.speed
Resized(clip) == [clip EXCEPT !.duration = Length(clip)]

\* Moved and duplicated clips go to the end of a track that is not locked and
\* of the same type.
ReceivesAnyway(tracks, i, j) == tracks[j].type = tracks[i].type
Receives(tracks, i, j) == ~tracks[j].locked /\ tracks[j].type = tracks[i].type

LeftOf(clip, time) ==
    Resized([clip EXCEPT !.to = clip.from + (time - clip.start) * clip.speed])
RightOfUnscaled(clip, time) ==
    [clip EXCEPT !.from = clip.from + (time - clip.start), !.start = time,
                 !.duration = ClipEnd(clip) - time]
RightOf(clip, time) ==
    [clip EXCEPT !.from = clip.from + (time - clip.start) * clip.speed, !.start = time,
                 !.duration = ClipEnd(clip) - time]

\* The tracks after an operation on the clip at a place of a track, none when
\* it is refused.
OnClip(tracks, op) ==
    LET i == op.at[1]
        n == op.at[2]
        clips == tracks[i].clips
        clip == clips[n]
        With(new) == {[tracks EXCEPT ![i].clips = new]}
        Changed(new) == With(ReplaceAt(clips, n, new))
    IN  CASE op.type = "move" ->
                LET moved == [clip EXCEPT !.start = Or(op.start, @)] IN
                IF op.target = i THEN Changed(moved)
                ELSE IF ~Receives(tracks, i, op.target) THEN {}
                ELSE {[tracks EXCEPT ![i].clips = RemoveAt(clips, n),
                                     ![op.target].clips = Append(@, moved)]}
          [] op.type = "duplicate" ->
                LET copy == [clip EXCEPT !.start = Or(op.start, ClipEnd(clip))] IN
                IF op.target # i /\ ~Receives(tracks, i, op.target) THEN {}
                ELSE {[tracks EXCEPT ![op.target].clips = Append(@, copy)]}
          [] op.type = "trim" ->
                LET new == [clip EXCEPT !.from = Or(op.from, @), !.to = Or(op.to, @),
                                        !.start = Or(op.start, @)]
                IN
                IF new.to <= new.from THEN {} ELSE Changed(Resized(new))
          [] op.type = "split" ->
                IF op.time <= clip.start \/ op.time >= ClipEnd(clip) THEN {}
                ELSE With(InsertAt(ReplaceAt(clips, n, LeftOf(clip, op.time)), n + 1,
                                   RightOf(clip, op.time)))
          [] op.type = "delete" -> With(RemoveAt(clips, n))
          [] op.type = "reorder" ->
                With(InsertAt(RemoveAt(clips, n), EEarlier(op.index, Len(clips)), clip))
          [] op.type = "disable" -> Changed([clip EXCEPT !.disabled = op.disabled])
          [] op.type = "set_clip_properties" -> Changed(Resized([clip EXCEPT !.speed = op.speed]))

\* TimelineClip's validation, with its tolerance; nothing shorter than a unit.
ValidClip(clip) ==
    /\ clip.to > clip.from /\ clip.duration > 0
    /\ clip.kind # "subtitle" => Length(clip) - clip.duration \in -1 .. 1

ValidTracks(tracks) == \A p \in Places(tracks) : ValidClip(tracks[p[1]].clips[p[2]])

\* apply_operations, one operation.
AppliedAnyway(tracks, op) ==
    IF op.type = "set_track_state"
    THEN {[tracks EXCEPT ![op.track].locked = op.locked, ![op.track].disabled = op.disabled]}
    ELSE OnClip(tracks, op)
Applied(tracks, op) ==
    IF op.type = "set_track_state"
    THEN {[tracks EXCEPT ![op.track].locked = op.locked, ![op.track].disabled = op.disabled]}
    ELSE IF tracks[op.at[1]].locked THEN {}
    ELSE OnClip(tracks, op)

\* A batch is refused as a whole when one of its operations is.
AppliedAll(tracks, ops) ==
    LET after[n \in 0 .. Len(ops)] ==
            IF n = 0 THEN {tracks} ELSE UNION {Applied(s, ops[n]) : s \in after[n - 1]}
    IN  {t \in after[Len(ops)] : ValidTracks(t)}

\* One operation, or one after a track's state was set.
Batches(tracks) ==
    {<<op>> : op \in TrackStates(tracks) \cup ClipOperations(tracks)} \cup
    {<<s, op>> : s \in {s \in TrackStates(tracks) : ~s.disabled},
                 op \in {op \in ClipOperations(tracks) : op.type \in {"delete", "split"}}}

-----------------------------------------------------------------------------
(* Requests.                                                               *)

EIdle == [pc |-> "idle", expected |-> 0, row |-> <<>>]
ECurrent == eVersions[Len(eVersions)]
EVersion(tracks, type, ops, restored) ==
    [tracks |-> tracks, type |-> type, ops |-> ops, restored |-> restored]

EInit ==
    /\ eAnalysis \in EAnalyses
    /\ eVersions = <<>>
    /\ eEditor = [e \in Editors |-> EIdle]
    /\ eRequests = 0

\* TimelineService.create; a second request finds the timeline.
CreateTimeline ==
    /\ eVersions = <<>>
    /\ eVersions' = <<EVersion(InitialTracks(eAnalysis), "initialize", <<>>, 0)>>
    /\ UNCHANGED <<eAnalysis, eEditor, eRequests>>

\* The editor gets the timeline; the request will name its version.
LookAtTimeline(e) ==
    /\ eEditor[e].pc = "idle"
    /\ eVersions # <<>> /\ Len(eVersions) < EMaxVersions
    /\ eRequests < EMaxRequests
    /\ eRequests' = eRequests + 1
    /\ eEditor' = [eEditor EXCEPT ![e].pc = "looked", ![e].expected = Len(eVersions)]
    /\ UNCHANGED <<eAnalysis, eVersions>>

\* mutate reads the timeline in a transaction of its own and applies the batch.
Mutate(e) ==
    /\ eEditor[e].pc = "looked"
    /\ \E ops \in Batches(ECurrent.tracks) :
         \E tracks \in AppliedAll(ECurrent.tracks, ops) :
            eEditor' = [eEditor EXCEPT ![e].pc = "committing",
                                       ![e].row = EVersion(tracks, "edit", ops, 0)]
    /\ UNCHANGED <<eAnalysis, eVersions, eRequests>>

\* The batch is refused, or nothing asked.
MutateRefused(e) ==
    /\ eEditor[e].pc = "looked"
    /\ eEditor' = [eEditor EXCEPT ![e] = EIdle]
    /\ UNCHANGED <<eAnalysis, eVersions, eRequests>>

\* restore reads an old version.
Restore(e) ==
    /\ eEditor[e].pc = "looked"
    /\ \E v \in DOMAIN eVersions :
         eEditor' = [eEditor EXCEPT ![e].pc = "committing",
                                    ![e].row = EVersion(eVersions[v].tracks, "restore", <<>>, v)]
    /\ UNCHANGED <<eAnalysis, eVersions, eRequests>>

\* commit_mutation: the version must still be the one the request named.
ExpectedOrOlder(e) == Len(eVersions) >= eEditor[e].expected
Expected(e) == Len(eVersions) = eEditor[e].expected

CommitVersion(e) ==
    /\ eEditor[e].pc = "committing"
    /\ eVersions' = IF Expected(e) THEN Append(eVersions, eEditor[e].row) ELSE eVersions
    /\ eEditor' = [eEditor EXCEPT ![e] = EIdle]
    /\ UNCHANGED <<eAnalysis, eRequests>>

ENext ==
    \/ CreateTimeline
    \/ \E e \in Editors :
         LookAtTimeline(e) \/ Mutate(e) \/ MutateRefused(e) \/ Restore(e) \/ CommitVersion(e)

ESpec == EInit /\ [][ENext]_eVars

-----------------------------------------------------------------------------
(* Properties.                                                             *)

\* What a clip shows: the instants of the timeline with those of its source.
Shown(clip) ==
    {<<clip.start + t, clip.from + t * clip.speed>> : t \in 0 .. clip.duration - 1}
ShownBy(clips) == UNION {Shown(clips[n]) : n \in {n \in DOMAIN clips : ~clips[n].disabled}}
Within(windows) == UNION {w[1] .. w[2] - 1 : w \in windows}

\* The first version shows every instant of the scenes that no cut removes, in
\* order and without a gap, or the whole source when nothing is left; the
\* sound and each word's subtitle go with their picture, and media of the
\* plan end with it.
FirstVersionShowsWhatWasKept ==
    eVersions # <<>> =>
        LET tracks == eVersions[1].tracks
            picture == ShownBy(tracks[1].clips)
            kept == Within(ToSet(Scenes(eAnalysis))) \ Within(ToSet(Cuts(eAnalysis)))
        IN  /\ {p[2] : p \in picture} = IF kept = {} THEN 0 .. EEnd - 1 ELSE kept
            /\ {p[1] : p \in picture} = 0 .. Cardinality(picture) - 1
            /\ \A p, q \in picture : p[1] < q[1] => p[2] < q[2]
            /\ ShownBy(tracks[4].clips) = picture
            /\ ShownBy(tracks[3].clips) = {p \in picture : p[2] \in Within(eAnalysis.words)}
            /\ \A p \in ShownBy(tracks[2].clips) : p[1] < ELater(2, Cardinality(picture))

\* No committed edit is lost: each version is the one before it with exactly
\* its own operations applied, or the version it restores.
EditsBuildOnTheLast ==
    \A v \in 2 .. Len(eVersions) :
        IF eVersions[v].type = "restore"
        THEN eVersions[v].tracks = eVersions[eVersions[v].restored].tracks
        ELSE eVersions[v].tracks \in AppliedAll(eVersions[v - 1].tracks, eVersions[v].ops)

\* A split changes nothing of what plays, at any speed; a change of order
\* neither.
SplitsShowTheSame ==
    \A v \in 2 .. Len(eVersions) :
        eVersions[v].type = "edit" /\ eVersions[v].ops[1].type \in {"split", "reorder"} =>
            \A i \in DOMAIN eVersions[v].tracks :
                ShownBy(eVersions[v].tracks[i].clips) = ShownBy(eVersions[v - 1].tracks[i].clips)

\* An edit leaves the clips of a locked track alone, as source and as target,
\* unless the same request unlocks it.
LockedTracksKeep ==
    \A v \in 2 .. Len(eVersions) :
        eVersions[v].type = "edit" =>
            \A i \in DOMAIN eVersions[v].tracks :
                \/ ~eVersions[v - 1].tracks[i].locked
                \/ \E op \in ToSet(eVersions[v].ops) :
                      op.type = "set_track_state" /\ op.track = i /\ ~op.locked
                \/ eVersions[v].tracks[i].clips = eVersions[v - 1].tracks[i].clips

\* What an edit may and may not change.
EditsKeepTheRest == EditsBuildOnTheLast /\ SplitsShowTheSame /\ LockedTracksKeep

\* README.md: "non-destructive silence decisions that never cut through words":
\* no cut of a timeline removes a part of a word.
CutsSpareSpeech ==
    eVersions # <<>> =>
        \A n \in DOMAIN Cuts(eAnalysis) : \A w \in eAnalysis.words :
            ~Overlaps(Cuts(eAnalysis)[n], w)
=============================================================================
