------------------------------- MODULE Trends -------------------------------
(***************************************************************************)
(* Trend signals, the clusters made of them, ideas and the content queue   *)
(* (trend_repository.py, trend_service.py, trend_scoring.py) of one        *)
(* workspace, channel and objective.  A refresh of the queue is several    *)
(* transactions, between which signals arrive and other refreshes run.     *)
(* Signals are numbered in the order they were observed.                   *)
(***************************************************************************)
EXTENDS Naturals, Sequences, FiniteSets, SequencesExt, Orders

CONSTANTS
    TSignals,           \* signals a provider may report
    TTopic,             \* normalised topic of each signal; the least name wins a tie
    TTokens,            \* its words
    TThreshold,         \* similarity_threshold, in percent
    TScoreOf(_),        \* estimate score_cluster makes of a group
    TBase,              \* sequence of the strategies' own scores
    TPerCluster,        \* ideas_per_cluster of the queue's requests
    TTopN,              \* top_n of the queue's requests
    TRefreshers,        \* overlapping refreshes of the queue
    TMaxAsked,          \* bound on requests for ideas of one cluster
    TMaxRefreshes       \* bound on refreshes

ASSUME TrendConstants ==
    /\ TSignals \subseteq Nat /\ IsFiniteSet(TSignals)
    /\ \A g \in SUBSET TSignals : TScoreOf(g) \in Nat
    /\ \A s \in TSignals : TTopic[s] \in Nat /\ TTokens[s] # {}
    /\ TThreshold \in 1 .. 100
    /\ TPerCluster \in 1 .. Len(TBase) /\ TTopN \in Nat \ {0}
ASSUME StrategyScores == TBase \in Seq(Nat)

VARIABLES
    tSignals,           \* signals recorded, each once
    tOld,               \* whether the last signals are a month old
    tCluster,           \* rows by key: [version, columns], version 0 for none
    tLinks,             \* signals linked to each cluster
    tScore,             \* score row of each cluster
    tIdeas,             \* ideas in order: [key, version, variant, score]
    tRuns,              \* runs of the queue, each named by its ranked ideas
    tRefresher,         \* refreshes: [pc, todo, stale]
    tFresh,             \* history: keys of the last refresh of clusters
    tAnswers,           \* history: runs answered since something changed
    tBound              \* history: [asked, refreshes]

tVars == <<tSignals, tOld, tCluster, tLinks, tScore, tIdeas, tRuns, tRefresher,
           tFresh, tAnswers, tBound>>

TKeys == {TTopic[s] : s \in TSignals}
TIdle == [pc |-> "idle", todo |-> <<>>, stale |-> FALSE]
NoColumns == [first |-> 0, last |-> 0, count |-> 0, words |-> {}, expired |-> FALSE]

TInit ==
    /\ tSignals = {} /\ tOld = FALSE
    /\ tCluster = [k \in TKeys |-> [version |-> 0, columns |-> NoColumns]]
    /\ tLinks = [k \in TKeys |-> {}]
    /\ tScore = [k \in TKeys |-> 0]
    /\ tIdeas = <<>> /\ tRuns = <<>>
    /\ tRefresher = [c \in TRefreshers |-> TIdle]
    /\ tFresh = {} /\ tAnswers = {}
    /\ tBound = [asked |-> 0, refreshes |-> 0]

-----------------------------------------------------------------------------
(* cluster_signals.                                                        *)

Words(group) == UNION {TTokens[s] : s \in group}

Likeness(s, group) ==
    IF \E x \in group : TTopic[x] = TTopic[s] THEN 100
    ELSE (100 * Cardinality(TTokens[s] \cap Words(group)))
            \div Cardinality(TTokens[s] \cup Words(group))

\* The most similar group takes the signal, the earliest of equals; without one
\* that is similar enough the signal begins a group.
Place(groups, s) ==
    LET near == {i \in DOMAIN groups : Likeness(s, groups[i]) >= TThreshold}
        best == CHOOSE i \in near : \A j \in near :
                   \/ Likeness(s, groups[j]) < Likeness(s, groups[i])
                   \/ Likeness(s, groups[j]) = Likeness(s, groups[i]) /\ i <= j
    IN  IF near = {} THEN Append(groups, {s}) ELSE [groups EXCEPT ![best] = @ \cup {s}]

Groups(signals) ==
    LET inOrder == InOrder(signals, <)
        groups[n \in 0 .. Len(inOrder)] ==
            IF n = 0 THEN <<>> ELSE Place(groups[n - 1], inOrder[n])
    IN  ToSet(groups[Len(inOrder)])

\* canonical_topic: the most frequent topic names the group.
KeyOf(group) ==
    LET count(t) == Cardinality({s \in group : TTopic[s] = t})
    IN  CHOOSE t \in {TTopic[s] : s \in group} : \A u \in {TTopic[s] : s \in group} :
            count(u) < count(t) \/ (count(u) = count(t) /\ t <= u)

Drafted(groups) == {KeyOf(g) : g \in groups}
GroupOf(groups, key) == CHOOSE g \in groups : KeyOf(g) = key

\* What the row shows of a group; of the lifecycle only that old signals expire.
Columns(group) ==
    [first |-> CHOOSE s \in group : \A x \in group : s <= x,
     last |-> CHOOSE s \in group : \A x \in group : s >= x,
     count |-> Cardinality(group), words |-> Words(group), expired |-> tOld]

-----------------------------------------------------------------------------
(* Transactions of the repository.                                         *)

\* Ideas and answers change for those who began before: they are stale.
Disturb == /\ tAnswers' = {}
           /\ tRefresher' = [c \in TRefreshers |->
                 IF tRefresher[c].pc = "idle" THEN TIdle ELSE [tRefresher[c] EXCEPT !.stale = TRUE]]

\* record_collection: signals known by their hash are not recorded again.
RecordCollection(signals) ==
    /\ ~(signals \subseteq tSignals)
    /\ tSignals' = tSignals \cup signals
    /\ Disturb
    /\ UNCHANGED <<tOld, tCluster, tLinks, tScore, tIdeas, tRuns, tFresh, tBound>>

SignalsAge ==
    /\ ~tOld
    /\ tOld' = TRUE
    /\ Disturb
    /\ UNCHANGED <<tSignals, tCluster, tLinks, tScore, tIdeas, tRuns, tFresh, tBound>>

\* The links of a refreshed cluster are written anew.  (Mutant: added to.)
RelinkedAdding(key, group) == tLinks[key] \cup group
Relinked(key, group) == group

\* A row whose columns changed gets a new version.  (Mutant: at every refresh.)
RefreshedAlways(row, columns) == [version |-> row.version + 1, columns |-> columns]
Refreshed(row, columns) ==
    IF row.version # 0 /\ row.columns = columns THEN row
    ELSE [version |-> row.version + 1, columns |-> columns]

\* The clusters a refresh of the queue goes on with, the best first.
Best(groups) ==
    LET score == [k \in Drafted(groups) |-> TScoreOf(GroupOf(groups, k))]
        ranked == InOrder(Drafted(groups), LAMBDA j, k :
                     score[j] > score[k] \/ (score[j] = score[k] /\ j < k))
        limit == (TTopN + TPerCluster - 1) \div TPerCluster
    IN  SubSeq(ranked, 1, IF limit < Len(ranked) THEN limit ELSE Len(ranked))

\* refresh_clusters, the first step of a refresh of the queue.  A cluster no group
\* has the key of any more stays as it is.
RefreshClusters(c) ==
    LET groups == Groups(tSignals)
        drafted == Drafted(groups)
    IN  /\ tRefresher[c].pc = "idle"
        /\ tBound.refreshes < TMaxRefreshes
        /\ tBound' = [tBound EXCEPT !.refreshes = @ + 1]
        /\ tCluster' = [k \in TKeys |->
              IF k \in drafted THEN Refreshed(tCluster[k], Columns(GroupOf(groups, k))) ELSE tCluster[k]]
        /\ tLinks' = [k \in TKeys |->
              IF k \in drafted THEN Relinked(k, GroupOf(groups, k)) ELSE tLinks[k]]
        /\ tScore' = [k \in TKeys |->
              IF k \in drafted THEN TScoreOf(GroupOf(groups, k)) ELSE tScore[k]]
        /\ tFresh' = drafted
        /\ tRefresher' = [tRefresher EXCEPT ![c] =
              [pc |-> "ideas", todo |-> Best(groups), stale |-> FALSE]]
        /\ UNCHANGED <<tSignals, tOld, tIdeas, tRuns, tAnswers>>

\* generate_ideas: variants of this version of the cluster that are missing, scored
\* by the signals linked now.
Missing(key, count) ==
    LET there == {tIdeas[i].variant : i \in {j \in DOMAIN tIdeas :
                     tIdeas[j].key = key /\ tIdeas[j].version = tCluster[key].version}}
    IN  IF Cardinality(there) >= count THEN {} ELSE (1 .. count) \ there

WithIdeas(key, count) ==
    LET idea(v) == [key |-> key, version |-> tCluster[key].version, variant |-> v,
                    score |-> TBase[v] + TScoreOf(tLinks[key])]
        new == InOrder(Missing(key, count), <)
    IN  tIdeas \o [i \in DOMAIN new |-> idea(new[i])]

\* A user asks for ideas of one cluster.
AskForIdeas(key, count) ==
    /\ tCluster[key].version > 0
    /\ tBound.asked < TMaxAsked
    /\ tBound' = [tBound EXCEPT !.asked = @ + 1]
    /\ tIdeas' = WithIdeas(key, count)
    /\ Disturb
    /\ UNCHANGED <<tSignals, tOld, tCluster, tLinks, tScore, tRuns, tFresh>>

GenerateIdeas(c) ==
    /\ tRefresher[c].pc = "ideas" /\ tRefresher[c].todo # <<>>
    /\ tIdeas' = WithIdeas(Head(tRefresher[c].todo), TPerCluster)
    /\ tRefresher' = [tRefresher EXCEPT ![c].todo = Tail(@)]
    /\ tAnswers' = IF tRefresher[c].stale THEN {} ELSE tAnswers
    /\ UNCHANGED <<tSignals, tOld, tCluster, tLinks, tScore, tRuns, tFresh, tBound>>

\* refresh_queue of the repository: 72 parts of the idea's score, 28 of its
\* cluster's latest.  The ranked ideas name the run, which is found or stored.
RankOf(ideas, score, i) == 72 * ideas[i].score + 28 * score[ideas[i].key]

RankedOf(ideas, score) ==
    LET all == InOrder(DOMAIN ideas, LAMBDA i, j :
                  \/ RankOf(ideas, score, i) > RankOf(ideas, score, j)
                  \/ RankOf(ideas, score, i) = RankOf(ideas, score, j) /\ i < j)
    IN  SubSeq(all, 1, IF TTopN < Len(all) THEN TTopN ELSE Len(all))
Ranked == RankedOf(tIdeas, tScore)

RefreshQueue(c) ==
    /\ tRefresher[c].pc = "ideas" /\ tRefresher[c].todo = <<>>
    /\ tRuns' = IF Ranked \in ToSet(tRuns) THEN tRuns ELSE Append(tRuns, Ranked)
    /\ tAnswers' = IF tRefresher[c].stale THEN {} ELSE tAnswers \cup {Ranked}
    /\ tRefresher' = [tRefresher EXCEPT ![c] = TIdle]
    /\ UNCHANGED <<tSignals, tOld, tCluster, tLinks, tScore, tIdeas, tFresh, tBound>>

\* A transaction raises, or the process dies: what committed before it stays.
RefreshStops(c) ==
    /\ tRefresher[c].pc = "ideas"
    /\ tRefresher' = [tRefresher EXCEPT ![c] = TIdle]
    /\ UNCHANGED <<tSignals, tOld, tCluster, tLinks, tScore, tIdeas, tRuns, tFresh, tAnswers, tBound>>

TNext ==
    \/ \E signals \in SUBSET TSignals : RecordCollection(signals)
    \/ SignalsAge
    \/ \E key \in TKeys, count \in DOMAIN TBase : AskForIdeas(key, count)
    \/ \E c \in TRefreshers :
          RefreshClusters(c) \/ GenerateIdeas(c) \/ RefreshQueue(c) \/ RefreshStops(c)

TSpec == TInit /\ [][TNext]_tVars

-----------------------------------------------------------------------------
(* Properties.                                                             *)

\* However signals arrive, late ones out of order too, the clusters of the last
\* refresh share no signal: regrouping moves a signal, it does not copy it.
FreshClustersAreDisjoint ==
    \A j, k \in tFresh : j # k => tLinks[j] \cap tLinks[k] = {}

\* "Replaying an identical state returns the same queue item IDs": refreshes with no
\* signal, time or request in between answer the same run, overlapping, cut short
\* and repeated ones too.
ReplaysAgree == Cardinality(tAnswers) <= 1
=============================================================================
