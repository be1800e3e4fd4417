----------------------------- MODULE Transcripts -----------------------------
(***************************************************************************)
(* From a provider's word timings to the words an edit is built on:        *)
(* the response checks of openai_transcription_provider.py (canonical      *)
(* times, ordered windows, one segment for each word) and of               *)
(* assemblyai_transcription_provider.py, then the strict projection of     *)
(* auto_edit_providers.py or the derived one of asr_derived_timing.py.     *)
(*                                                                         *)
(* Received times count half units, transcripts whole ones: a unit is the  *)
(* sixth decimal that canonical times are rounded to (the millisecond, of  *)
(* a job).  Words are known by their position.  A difference that equals a *)
(* float tolerance exactly may count or not: hNear has the positions where *)
(* it does.                                                                *)
(***************************************************************************)
EXTENDS Integers, FiniteSets, Sequences, SequencesExt, FiniteSetsExt, Orders

CONSTANTS
    HResponses,     \* [segments, words], sequences of [start, end]
    HLength,        \* duration of the media
    HTolerance      \* 0.05 seconds

HWindow == [start : Int, end : Int]

ASSUME TranscriptConstants ==
    /\ HResponses \subseteq [segments : Seq(HWindow), words : Seq(HWindow)]
    /\ HLength \in Nat
    /\ HTolerance \in Nat /\ HTolerance >= 2

VARIABLES
    hService,       \* "openai" or "assemblyai"
    hPolicy,        \* word_timing_policy: "strict" or "derived"
    hResponse,
    hNear,
    hHeard,         \* the provider's transcript: sequence of [start, end, words]
    hTold,          \* its projection, for scenes, silences and edits
    hPc

hVars == <<hService, hPolicy, hResponse, hNear, hHeard, hTold, hPc>>

\* A time that is missing, not a number or negative.
NoTime == -9

Rounded(t) == (t + 1) \div 2
NearBy(a, b, i) == \/ a - b \in {-1, 0, 1} /\ i \in hNear
                   \/ a = b

-----------------------------------------------------------------------------
(* openai_transcription_provider.py                                        *)

\* A word without duration must stand where its neighbour ends or starts.
AtNeighbour(items, i, point) ==
    LET Touches(t) == \/ t - point \in {-1, 0, 1}
                      \/ t - point \in {-2, 2} /\ i \in hNear
    IN  \/ i > 1 /\ Touches(items[i - 1].end)
        \/ i < Len(items) /\ Touches(items[i + 1].start)

\* One rejected time refuses the whole response.
UsableTimes(items, kind) == \A i \in DOMAIN items :
    LET s == items[i].start
        e == items[i].end
    IN  /\ 0 <= s /\ s <= e /\ e <= 2 * (HLength + HTolerance)
        /\ s = e => kind = "word" /\ AtNeighbour(items, i, s)
        /\ s < e => Rounded(s) < Rounded(e)

Canonical(items) ==
    [i \in DOMAIN items |-> [start |-> Rounded(items[i].start), end |-> Rounded(items[i].end)]]

\* Each window starts no more than a unit before the end of the one before it.
Ordered(windows) == \A i \in DOMAIN windows :
    /\ windows[i].end <= HLength + HTolerance
    /\ i > 1 => \/ windows[i].start >= windows[i - 1].end
                \/ NearBy(windows[i].start, windows[i - 1].end, i)

Within(word, segment, i) ==
    LET reach == IF i \in hNear THEN HTolerance ELSE HTolerance - 1
    IN  word.start >= segment.start - reach /\ word.end <= segment.end + reach

\* The segments a word belongs to: one, or the word refuses the response.  A
\* point on a boundary belongs to the segment it starts.
SegmentsFor(words, segments, i) ==
    LET w == words[i]
        candidates == {k \in DOMAIN segments : Within(w, segments[k], i)}
        starting == {k \in candidates : NearBy(w.start, segments[k].start, i)}
        holding == {k \in candidates : segments[k].start <= w.start /\ w.start < segments[k].end}
        final == {k \in candidates : k = Len(segments) /\ w.start = segments[k].end}
    IN  IF w.start < w.end \/ candidates = {} THEN candidates
        ELSE IF Cardinality(starting) = 1 THEN starting
        ELSE IF Cardinality(holding) = 1 THEN holding
        ELSE IF Cardinality(candidates) > 1 /\ final # {} THEN final
        ELSE candidates

Numbered(words) ==
    [i \in DOMAIN words |-> [id |-> i, start |-> words[i].start, end |-> words[i].end]]

\* _map_response: no segment is left without a word.
Mapped(response) ==
    LET words == Canonical(response.words)
        segments == Canonical(response.segments)
        WordsOf(k) ==
            Entries(Numbered(words), {i \in DOMAIN words : SegmentsFor(words, segments, i) = {k}})
    IN  IF /\ UsableTimes(response.segments, "segment") /\ UsableTimes(response.words, "word")
           /\ Ordered(segments) /\ Ordered(words)
           /\ \A i \in DOMAIN words : Cardinality(SegmentsFor(words, segments, i)) = 1
           /\ \A k \in DOMAIN segments : WordsOf(k) # <<>>
        THEN [k \in DOMAIN segments |->
                 [start |-> segments[k].start, end |-> segments[k].end, words |-> WordsOf(k)]]
        ELSE <<>>

\* AssemblyAITranscriptionProvider: whole units only, in order, in one segment.
JobMapped(response) ==
    LET words == Canonical(response.words)
    IN  IF /\ words # <<>>
           /\ \A i \in DOMAIN words :
              /\ response.words[i].start \in 0 .. 2 * HLength
              /\ response.words[i].start % 2 = 0 /\ response.words[i].end % 2 = 0
              /\ words[i].start < words[i].end /\ words[i].end <= HLength + 1
              /\ i > 1 => words[i - 1].end <= words[i].start
        THEN <<[start |-> words[1].start, end |-> Last(words).end, words |-> Numbered(words)]>>
        ELSE <<>>

-----------------------------------------------------------------------------
(* Words as positive intervals.                                            *)

IsPoint(w) == w.start = w.end

\* require_positive_duration_transcript: accepted as it is, or not at all.
Strict(segments) == \A k \in DOMAIN segments :
    LET s == segments[k]
        EndBefore(i) == Max({s.start} \cup {s.words[j].end : j \in 1 .. i - 1})
    IN  /\ s.start < s.end
        /\ \A i \in DOMAIN s.words :
              /\ ~IsPoint(s.words[i]) /\ Within(s.words[i], s, s.words[i].id)
              /\ \/ s.words[i].start >= EndBefore(i)
                 \/ NearBy(s.words[i].start, EndBefore(i), s.words[i].id)

\* The points that stand with word i, before it and at its start, and the word
\* after them: the only interval they may share.
RunStart(words, i) ==
    Min({a \in 1 .. i : \A j \in a .. i - 1 : IsPoint(words[j]) /\ words[j].start = words[i].start})
RunEnd(words, i) ==
    Min({j \in i .. Len(words) :
            j = Len(words) \/ ~IsPoint(words[j]) \/ words[j].start # words[i].start})
Anchored(words, i) ==
    LET s == words[RunEnd(words, i)] IN ~IsPoint(s) /\ s.start = words[i].start

\* Bounds k of the parts that word i's run splits its interval into.
\* (Mutant: the word that has the interval gets no part of it.)
PartBoundForPoints(words, i, k) ==
    LET parts == RunEnd(words, i) - RunStart(words, i)
        s == words[RunEnd(words, i)]
    IN  words[i].start + ((s.end - words[i].start) * k) \div (IF parts = 0 THEN 1 ELSE parts)
PartBound(words, i, k) ==
    LET parts == RunEnd(words, i) - RunStart(words, i) + 1
        s == words[RunEnd(words, i)]
    IN  words[i].start + ((s.end - words[i].start) * k) \div parts

Derived(words) == [i \in DOMAIN words |->
    LET offset == i - RunStart(words, i)
    IN  [words[i] EXCEPT !.start = PartBound(words, i, offset),
                         !.end = PartBound(words, i, offset + 1)]]

\* _validate_positive_projection, and what the derivation refuses on its way.
\* (Mutant: a point may take the silence before the word after it.)
DerivableOverSilence(segment) ==
    LET words == Derived(segment.words)
    IN  /\ segment.start < segment.end
        /\ \A i \in DOMAIN words :
              /\ words[i].start < words[i].end
              /\ segment.start <= words[i].start /\ words[i].end <= segment.end
              /\ i > 1 => words[i - 1].end <= words[i].start
Derivable(segment) ==
    LET words == Derived(segment.words)
    IN  /\ segment.start < segment.end
        /\ \A i \in DOMAIN words :
              /\ Anchored(segment.words, i)
              /\ words[i].start < words[i].end
              /\ segment.start <= words[i].start /\ words[i].end <= segment.end
              /\ i > 1 => words[i - 1].end <= words[i].start

-----------------------------------------------------------------------------
HInit ==
    /\ hService \in {"openai", "assemblyai"}
    /\ hPolicy \in {"strict", "derived"}
    /\ hResponse \in HResponses
    /\ hNear \in SUBSET DOMAIN hResponse.words
    /\ hHeard = <<>> /\ hTold = <<>> /\ hPc = "called"

\* The adapter maps the response, or its call fails.
Hear ==
    /\ hPc = "called"
    /\ hHeard' = IF hService = "openai" THEN Mapped(hResponse) ELSE JobMapped(hResponse)
    /\ hPc' = IF hHeard' = <<>> THEN "failed" ELSE "heard"
    /\ UNCHANGED <<hService, hPolicy, hResponse, hNear, hTold>>

\* analyze_asset projects it for its consumers, or the analysis fails.
Project ==
    /\ hPc = "heard"
    /\ LET told == IF hPolicy = "strict" THEN Strict(hHeard)
                   ELSE \A k \in DOMAIN hHeard : Derivable(hHeard[k])
       IN  /\ hPc' = IF told THEN "told" ELSE "failed"
           /\ hTold' = IF ~told THEN <<>>
                       ELSE IF hPolicy = "strict" THEN hHeard
                       ELSE [k \in DOMAIN hHeard |->
                                [hHeard[k] EXCEPT !.words = Derived(hHeard[k].words)]]
    /\ UNCHANGED <<hService, hPolicy, hResponse, hNear, hHeard>>

HNext == Hear \/ Project

-----------------------------------------------------------------------------
AllWords(segments) == FlattenSeq([k \in DOMAIN segments |-> segments[k].words])

HTypeOK ==
    /\ hPc \in {"called", "heard", "told", "failed"}
    /\ hPc \in {"called", "failed"} => hTold = <<>>
    /\ \A k \in DOMAIN hHeard : hHeard[k].start < hHeard[k].end

\* No word is lost, repeated or moved to another segment's turn, whatever
\* boundaries it falls on.
EveryWordOnce ==
    hPc = "told" =>
        [i \in DOMAIN AllWords(hTold) |-> AllWords(hTold)[i].id]
            = [i \in DOMAIN hResponse.words |-> i]

Filled(words) == UNION {w.start .. w.end - 1 : w \in {words[i] : i \in DOMAIN words}}

\* What consumers cut by: positive intervals, in order across segments, that
\* fill the time the provider heard words in and nothing else.
TimesAreTheProviders ==
    hPc = "told" =>
        LET heard == AllWords(hHeard)
            told == AllWords(hTold)
            FirstOfSegment(i) == \E k \in DOMAIN hTold : told[i] = hTold[k].words[1]
        IN  /\ \A i \in DOMAIN told : told[i].start < told[i].end
            /\ Filled(told) = Filled(heard)
            /\ \A i \in DOMAIN told :
                  \* a unit of overlap passes in a strict projection and between segments
                  /\ i > 1 => told[i].start >= told[i - 1].end
                                  - (IF hPolicy = "strict" \/ FirstOfSegment(i) THEN 1 ELSE 0)
                  \* and only words that share an interval with points change
                  /\ told[i] # heard[i] =>
                        \E j \in DOMAIN heard :
                            IsPoint(heard[j]) /\ heard[j].start = heard[i].start
=============================================================================
