------------------------------- MODULE Learning -------------------------------
(***************************************************************************)
(* What a metrics snapshot says of a video (assess_winner and              *)
(* learning_insights in analytics_logic.py): ten weighted factors, of which*)
(* those without metrics count for nothing, a class only on enough         *)
(* evidence, and insights no surer than it.  How snapshots are taken is    *)
(* AnalyticsSync's.                                                        *)
(*                                                                         *)
(* A factor is known from the metrics it divides; its value is a percentage*)
(* of its reference.  Weights and coverage are percents.                   *)
(***************************************************************************)
EXTENDS Integers, FiniteSets, Sequences, FiniteSetsExt

CONSTANTS
    LMetricSets,    \* sets of supported metrics
    LViews,         \* view counts
    LHours,         \* observation windows
    LValues,        \* functions from Factors to percentages of the reference
    LFeatures       \* sets of features of the video

VARIABLES
    lMetrics,       \* supported metrics, with the video's duration and cost
    lViews, lHours,
    lValues,
    lFeatures,
    lState,         \* "new" or the class of the assessment
    lScore,         \* the weighted sum of a classified video
    lInsights       \* set of [type, confidence], in tenths of a percent

lVars == <<lMetrics, lViews, lHours, lValues, lFeatures, lState, lScore, lInsights>>

Weight == [velocity |-> 18, retention |-> 16, completion |-> 16, engagement |-> 13, shares |-> 8,
           saves |-> 7, ctr |-> 8, followers |-> 6, revenue |-> 5, cost |-> 3]
Factors == DOMAIN Weight

ASSUME LearningConstants == LValues \subseteq [Factors -> Int]

-----------------------------------------------------------------------------
\* The metrics each factor needs: a rate has no value without a denominator.
Supported(m) == m \in lMetrics
ViewsKnown == Supported("views") /\ lViews > 0
KnownFactors == {f \in Factors :
    CASE f = "velocity" -> Supported("views") /\ Supported("hours") /\ lHours > 0
      [] f = "retention" -> Supported("average_duration") /\ Supported("duration")
      [] f = "completion" -> Supported("completion_rate")
      [] f = "engagement" -> ViewsKnown /\ \E m \in {"likes", "comments", "shares", "saves"} : Supported(m)
      [] f = "shares" -> ViewsKnown /\ Supported("shares")
      [] f = "saves" -> ViewsKnown /\ Supported("saves")
      [] f = "ctr" -> Supported("ctr")
      [] f = "followers" -> ViewsKnown /\ Supported("followers")
      [] f = "revenue" -> Supported("rpm") \/ (Supported("revenue") /\ ViewsKnown)
      [] f = "cost" -> Supported("revenue") /\ Supported("cost")}

FactorScore(f) == Max({0, Min({100, lValues[f]})})
Total(v) == v.velocity + v.retention + v.completion + v.engagement + v.shares + v.saves
            + v.ctr + v.followers + v.revenue + v.cost
Coverage(known) == Total([f \in Factors |-> IF f \in known THEN Weight[f] ELSE 0])

Sufficient ==
    /\ Supported("views") /\ lViews >= 500
    /\ Supported("hours") /\ lHours >= 6
    /\ Coverage(KnownFactors) >= 55
    /\ Supported("average_duration") \/ Supported("completion_rate")

WeightedSum(known) ==
    Total([f \in Factors |-> IF f \in known THEN FactorScore(f) * Weight[f] ELSE 0])

\* The score is the sum over the weight of what is known.
\* (Mutant: over all weights, so that a missing metric is a zero.)
ClassOfAll(sum, weight) ==
    IF sum >= 72 * 100 THEN "winner_candidate"
    ELSE IF sum <= 38 * 100 THEN "underperforming"
    ELSE "normal"
ClassOf(sum, weight) ==
    IF sum >= 72 * weight THEN "winner_candidate"
    ELSE IF sum <= 38 * weight THEN "underperforming"
    ELSE "normal"

-----------------------------------------------------------------------------
\* Insights by feature: the last three are less sure than the coverage.
BaseConfidence == Min({950, Max({200, 10 * Coverage(KnownFactors)})})
Confidence(feature) ==
    CASE feature = "subtitle_style" -> (9 * BaseConfidence) \div 10
      [] feature = "voice_profile" -> (8 * BaseConfidence) \div 10
      [] feature = "publishing_window" -> Min({BaseConfidence, 550})
      [] OTHER -> BaseConfidence
Collecting == {[type |-> "data_collection", confidence |-> BaseConfidence]}
InsightsFor(state) ==
    IF state = "insufficient_data" \/ lFeatures = {} THEN Collecting
    ELSE {[type |-> f, confidence |-> Confidence(f)] : f \in lFeatures}

Assess ==
    /\ lState = "new"
    /\ IF Sufficient
       THEN /\ lScore' = WeightedSum(KnownFactors)
            /\ lState' = ClassOf(lScore', Coverage(KnownFactors))
       ELSE lState' = "insufficient_data" /\ UNCHANGED lScore
    /\ lInsights' = InsightsFor(lState')
    /\ UNCHANGED <<lMetrics, lViews, lHours, lValues, lFeatures>>

LInit ==
    /\ lMetrics \in LMetricSets
    /\ lViews \in LViews /\ lHours \in LHours
    /\ lValues \in LValues /\ lFeatures \in LFeatures
    /\ lState = "new" /\ lScore = 0 /\ lInsights = {}

LNext == Assess

-----------------------------------------------------------------------------
\* A missing metric is not a zero: a class says what the known factors say, so
\* a video all of whose known factors are strong, or weak, is classed as that
\* whatever else the platform does not report; and without views, time and
\* retention there is no class and nothing is learnt.
MissingIsNotZero ==
    /\ lState \in {"winner_candidate", "normal", "underperforming"} =>
          /\ (\A f \in KnownFactors : FactorScore(f) >= 72) => lState = "winner_candidate"
          /\ (\A f \in KnownFactors : FactorScore(f) <= 38) => lState = "underperforming"
          /\ {"retention", "completion"} \cap KnownFactors = {} => "average_duration" \in lMetrics
    /\ \A i \in lInsights :
          /\ i.type # "data_collection" => lState # "insufficient_data" /\ lViews >= 500
          /\ i.confidence <= Max({200, 10 * Coverage(KnownFactors)})
=============================================================================
