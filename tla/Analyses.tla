------------------------------ MODULE Analyses ------------------------------
(***************************************************************************)
(* Analyses of uploaded media: AutoEditAnalysisService.analyze and         *)
(* VisionAnalysisService.analyze over the rows of their repositories.  An  *)
(* analysis is named by its fingerprint; the request that stores the row   *)
(* runs it to its end, and every other one is answered with the row.       *)
(* Nothing runs an analysis again: a row left behind by a crash stays.     *)
(***************************************************************************)
EXTENDS Naturals, Sequences, FiniteSets

CONSTANTS
    AEdits,             \* fingerprints of auto-edit analyses
    AVisions,           \* fingerprints of vision analyses
    ABase,              \* the auto-edit analysis each of those is based on
    ARequests,          \* concurrent requests
    AMaxCalls, AMaxFaults

ASSUME AnalysisConstants ==
    /\ ABase \in [AVisions -> AEdits] /\ AEdits \cap AVisions = {}
    /\ AMaxCalls \in Nat /\ AMaxFaults \in Nat

VARIABLES
    aRow,               \* rows: [status, results], results written so often
    aRequest,           \* requests: [pc, print, signals]
    aProvider,          \* provider call of each analysis
    aCalls,             \* history: provider calls made for each
    aMetered,           \* usage rows of each
    aHistory            \* history: [calls, faults, ambiguous]

aVars == <<aRow, aRequest, aProvider, aCalls, aMetered, aHistory>>

APrints == AEdits \cup AVisions
AIdle == [pc |-> "idle", print |-> "none", signals |-> "none"]

\* The provider operations an analysis is charged for, in order.
Metering(f) == IF f \in AEdits THEN <<"transcript", "signals">> ELSE <<"vision">>

AInit ==
    /\ aRow = [f \in APrints |-> [status |-> "none", results |-> 0]]
    /\ aRequest = [r \in ARequests |-> AIdle]
    /\ aProvider = [f \in APrints |-> "none"]
    /\ aCalls = [f \in APrints |-> 0]
    /\ aMetered = [f \in APrints |-> 0]
    /\ aHistory = [calls |-> 0, faults |-> 0, ambiguous |-> {}]

On(r, pc) == aRequest[r].pc = pc
PrintOf(r) == aRequest[r].print
Proceed(r, pc) == aRequest' = [aRequest EXCEPT ![r].pc = pc]
Answered(r) == aRequest' = [aRequest EXCEPT ![r] = AIdle]
SetStatus(f, status) == aRow' = [aRow EXCEPT ![f].status = status]

AFault == /\ aHistory.faults < AMaxFaults
          /\ aHistory' = [aHistory EXCEPT !.faults = @ + 1]

-----------------------------------------------------------------------------
\* A vision analysis starts from a succeeded one of the same asset.
Analyze(r, f) ==
    /\ On(r, "idle")
    /\ aHistory.calls < AMaxCalls
    /\ f \in AVisions => aRow[ABase[f]].status = "succeeded"
    /\ aHistory' = [aHistory EXCEPT !.calls = @ + 1]
    /\ aRequest' = [aRequest EXCEPT ![r] = [pc |-> "finding", print |-> f, signals |-> "none"]]
    /\ UNCHANGED <<aRow, aProvider, aCalls, aMetered>>

\* create_analysis looks for the fingerprint first ...
FindAnalysis(r) ==
    /\ On(r, "finding")
    /\ IF aRow[PrintOf(r)].status # "none" THEN Answered(r) ELSE Proceed(r, "inserting")
    /\ UNCHANGED <<aRow, aProvider, aCalls, aMetered, aHistory>>

\* ... and the unique fingerprint decides between those who did not find it.
\* (Mutant: the loser goes on with the winner's row.)
WinsAnyway(f) == TRUE
Wins(f) == aRow[f].status = "none"

InsertAnalysis(r) ==
    /\ On(r, "inserting")
    /\ IF Wins(PrintOf(r))
       THEN aRow' = [aRow EXCEPT ![PrintOf(r)] = [@ EXCEPT !.status = "pending"]] /\ Proceed(r, "marking")
       ELSE Answered(r) /\ UNCHANGED aRow
    /\ UNCHANGED <<aProvider, aCalls, aMetered, aHistory>>

MarkRunning(r) ==
    /\ On(r, "marking")
    /\ SetStatus(PrintOf(r), "analyzing")
    /\ Proceed(r, "downloading")
    /\ UNCHANGED <<aProvider, aCalls, aMetered, aHistory>>

\* The file is fetched and the provider called; an auto-edit analysis reads the
\* signals of the media at the same time.
CallProvider(r) ==
    /\ On(r, "downloading")
    /\ aProvider' = [aProvider EXCEPT ![PrintOf(r)] = "called"]
    /\ aCalls' = [aCalls EXCEPT ![PrintOf(r)] = @ + 1]
    /\ aRequest' = [aRequest EXCEPT ![r].pc = "gathering",
                       ![r].signals = IF PrintOf(r) \in AEdits THEN "reading" ELSE "read"]
    /\ UNCHANGED <<aRow, aMetered, aHistory>>

\* A call nobody waits for any more goes on to its end all the same.
ProviderAnswers(f) ==
    /\ aProvider[f] = "called"
    /\ \E answer \in {"transcribed", "refused"} : aProvider' = [aProvider EXCEPT ![f] = answer]
    /\ UNCHANGED <<aRow, aRequest, aCalls, aMetered, aHistory>>

SignalsEnd(r) ==
    /\ aRequest[r].signals = "reading"
    /\ \E end \in {"read", "unreadable"} : aRequest' = [aRequest EXCEPT ![r].signals = end]
    /\ UNCHANGED <<aRow, aProvider, aCalls, aMetered, aHistory>>

\* asyncio.gather: the first exception ends the wait, the other task runs on.
Gather(r) ==
    /\ On(r, "gathering")
    /\ \/ aProvider[PrintOf(r)] = "transcribed" /\ aRequest[r].signals = "read" /\ Proceed(r, "deriving")
       \/ (aProvider[PrintOf(r)] = "refused" \/ aRequest[r].signals = "unreadable") /\ Proceed(r, "failing")
    /\ UNCHANGED <<aRow, aProvider, aCalls, aMetered, aHistory>>

\* Intervals that are not positive, or frames outside the media, fail the analysis.
DeriveResults(r) ==
    /\ On(r, "deriving")
    /\ Proceed(r, "metering") \/ Proceed(r, "failing")
    /\ UNCHANGED <<aRow, aProvider, aCalls, aMetered, aHistory>>

\* The next operation is metered while one is left.  (Mutant: only the first is.)
AfterFirst(f, metered) == "saving"
AfterMetering(f, metered) == IF metered < Len(Metering(f)) THEN "metering" ELSE "saving"

MeterAnalysis(r) ==
    LET f == PrintOf(r)
    IN  /\ On(r, "metering")
        /\ aMetered' = [aMetered EXCEPT ![f] = @ + 1]
        /\ Proceed(r, AfterMetering(f, aMetered[f] + 1))
        /\ UNCHANGED <<aRow, aProvider, aCalls, aHistory>>

\* save_results: the row, the transcript and everything derived, in one transaction.
Saved(row) == IF row.status = "succeeded" THEN row
              ELSE [status |-> "succeeded", results |-> row.results + 1]

SaveResults(r) ==
    /\ On(r, "saving")
    /\ aRow' = [aRow EXCEPT ![PrintOf(r)] = Saved(@)]
    /\ Proceed(r, "reading")
    /\ UNCHANGED <<aProvider, aCalls, aMetered, aHistory>>

\* The answer is read when the work, and what catches its exceptions, is over.
ReadResults(r) ==
    /\ On(r, "reading")
    /\ Answered(r)
    /\ UNCHANGED <<aRow, aProvider, aCalls, aMetered, aHistory>>

\* The commit succeeds and its acknowledgement is lost.
SaveResultsUnheard(r) ==
    /\ On(r, "saving")
    /\ aHistory.faults < AMaxFaults
    /\ aHistory' = [aHistory EXCEPT !.faults = @ + 1, !.ambiguous = @ \cup {PrintOf(r)}]
    /\ aRow' = [aRow EXCEPT ![PrintOf(r)] = Saved(@)]
    /\ Proceed(r, "failing")
    /\ UNCHANGED <<aProvider, aCalls, aMetered>>

\* Storage or a transaction of the work raises.  (Mutant: reading the answer is work.)
WorkAndAnswer == {"downloading", "metering", "saving", "reading"}
Work == {"downloading", "metering", "saving"}

AnalysisRaises(r) ==
    /\ aRequest[r].pc \in Work
    /\ AFault
    /\ Proceed(r, "failing")
    /\ UNCHANGED <<aRow, aProvider, aCalls, aMetered>>

\* mark_failed looks at nothing.
MarkFailedRow(r) ==
    /\ On(r, "failing")
    /\ SetStatus(PrintOf(r), "failed")
    /\ Answered(r)
    /\ UNCHANGED <<aProvider, aCalls, aMetered, aHistory>>

\* Marking or reading raises: the request ends and the row stays.
MarkRaises(r) ==
    /\ aRequest[r].pc \in {"marking", "failing", "reading"}
    /\ AFault
    /\ Answered(r)
    /\ UNCHANGED <<aRow, aProvider, aCalls, aMetered>>

ApiCrash ==
    /\ \E r \in ARequests : ~On(r, "idle")
    /\ AFault
    /\ aRequest' = [r \in ARequests |-> AIdle]
    /\ aProvider' = [f \in APrints |-> IF aProvider[f] = "called" THEN "lost" ELSE aProvider[f]]
    /\ UNCHANGED <<aRow, aCalls, aMetered>>

-----------------------------------------------------------------------------
ANext ==
    \/ \E r \in ARequests :
          \/ \E f \in APrints : Analyze(r, f)
          \/ FindAnalysis(r) \/ InsertAnalysis(r) \/ MarkRunning(r) \/ CallProvider(r)
          \/ SignalsEnd(r) \/ Gather(r) \/ DeriveResults(r) \/ MeterAnalysis(r)
          \/ SaveResults(r) \/ SaveResultsUnheard(r) \/ ReadResults(r)
          \/ AnalysisRaises(r) \/ MarkFailedRow(r) \/ MarkRaises(r)
    \/ \E f \in APrints : ProviderAnswers(f)
    \/ ApiCrash

ASpec == AInit /\ [][ANext]_aVars

-----------------------------------------------------------------------------
(* Properties.                                                             *)

\* Requests for one fingerprint that overlap, or repeat a failed one, call the
\* provider once in all.
OneCallPerFingerprint == \A f \in APrints : aCalls[f] <= 1

\* A succeeded analysis has its results once, what the provider did for it was
\* metered once, and a vision analysis has a base with results.
SucceededIsComplete ==
    \A f \in APrints : aRow[f].status = "succeeded" =>
        /\ aRow[f].results = 1
        /\ aMetered[f] = Len(Metering(f))
        /\ f \in AVisions => aRow[ABase[f]].results = 1

\* Nothing takes a succeeded analysis back but an acknowledgement that was lost.
SucceededStays ==
    [][\A f \in APrints : aRow[f].status = "succeeded" =>
          aRow'[f].status = "succeeded" \/ f \in aHistory.ambiguous]_aVars
=============================================================================
