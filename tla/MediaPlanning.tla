----------------------------- MODULE MediaPlanning -----------------------------
(***************************************************************************)
(* What a media plan chooses for each scene (MediaPlanningService.create   *)
(* over media_intelligence_logic.py): a strategy from the request's        *)
(* priorities, rotated with the scene, its fallbacks, the stock candidates *)
(* found for it and whether its cost needs an approval.  The life of plans *)
(* and of their resolutions is Media's.                                    *)
(*                                                                         *)
(* A scene is the kind of media that suits its motion; queries, prompts    *)
(* and confidences are left out.  Scores are tenths.                       *)
(***************************************************************************)
EXTENDS Integers, FiniteSets, Sequences, FiniteSetsExt, Orders

CONSTANTS
    UPriorities,    \* resolver_priority: sequences of sources without repetition
    UScenes,        \* sequences of "video" and "image"
    UPrices,        \* estimates of a provider, or Unpriced
    UCeilings,      \* max_ai_cost_vnd
    UFinds          \* what a search returns: sequences of [id, semantic, overlap]

VARIABLES
    uRequest,       \* [priority, allowed, ceiling], allowed a set of strategies
    uScenes,
    uReady,         \* strategies whose provider may execute, with those that need none
    uPrice,         \* estimates: function from {"ai_image", "ai_video"}
    uFound,         \* candidates of the scenes searched so far
    uItems,         \* sequence of [strategy, fallback, candidates, cost, asks]
    uPlan           \* "planning", "needs_approval", "planned" or "failed"

uVars == <<uRequest, uScenes, uReady, uPrice, uFound, uItems, uPlan>>

Unpriced == -1
Generated == {"ai_image", "ai_video"}
Stock == {"stock_video", "stock_image"}
Free == {"user_asset", "motion_graphic"}
Sources == Free \cup Generated \cup {"licensed_stock", "internal_library"}

ASSUME MediaPlanningConstants ==
    /\ UPriorities \subseteq {p \in Seq(Sources) : \A i, j \in DOMAIN p : p[i] = p[j] => i = j}
    /\ UScenes \subseteq Seq({"video", "image"})
    /\ UPrices \subseteq Nat \cup {Unpriced}
    /\ UCeilings \subseteq Nat
    /\ UFinds \subseteq Seq([id : Int, semantic : Int, overlap : Int])

-----------------------------------------------------------------------------
\* internal_library has no provider, and licensed_stock is the kind that suits.
StrategyOf(source, prefers) ==
    IF source = "licensed_stock" THEN IF prefers = "video" THEN "stock_video" ELSE "stock_image"
    ELSE source
Desired(prefers) ==
    LET asked == uRequest.priority
        named == Entries(asked, {i \in DOMAIN asked : asked[i] # "internal_library"})
    IN  IF named = <<>> THEN <<"motion_graphic">>
        ELSE [i \in DOMAIN named |-> StrategyOf(named[i], prefers)]

\* The uploaded asset is always there: the plan fails without it.
Possible(strategy) == strategy \in uReady /\ strategy \in uRequest.allowed

\* select_strategy: the first possible one from the scene's turn on.
Select(k) ==
    LET desired == Desired(uScenes[k])
        n == Len(desired)
        turn == [i \in 0 .. n - 1 |-> desired[((k - 1 + i) % n) + 1]]
        possible == {i \in 0 .. n - 1 : Possible(turn[i])}
    IN  IF possible = {} THEN "motion_graphic" ELSE turn[Min(possible)]

Fallbacks(k) ==
    LET desired == Desired(uScenes[k])
    IN  Entries(desired, {i \in DOMAIN desired : Possible(desired[i]) /\ desired[i] # Select(k)})

\* rank_stock_candidates: four parts semantic score and one part shared words.
Rerank(c) == 4 * c.semantic + c.overlap
\* Equal ones keep their order.
Ahead(found, i, j) ==
    LET a == found[i]
        b == found[j]
    IN  \/ Rerank(a) > Rerank(b)
        \/ Rerank(a) = Rerank(b) /\ a.semantic > b.semantic
        \/ Rerank(a) = Rerank(b) /\ a.semantic = b.semantic /\ a.id > b.id
        \/ Rerank(a) = Rerank(b) /\ a.semantic = b.semantic /\ a.id = b.id /\ i < j
Ranked(found) ==
    LET order == InOrder(DOMAIN found, LAMBDA i, j : Ahead(found, i, j))
    IN  [n \in DOMAIN order |-> found[order[n]]]

-----------------------------------------------------------------------------
\* One scene after the other: a search where stock is its strategy.  A provider
\* that fails, or finds what is no licensed evidence, fails the plan.
Search ==
    LET k == Len(uFound) + 1
    IN  /\ uPlan = "planning" /\ k <= Len(uScenes)
        /\ \/ /\ Select(k) \in Stock
              /\ \/ \E found \in UFinds :
                       uFound' = Append(uFound, found) /\ UNCHANGED uPlan
                 \/ uPlan' = "failed" /\ UNCHANGED uFound
           \/ /\ Select(k) \notin Stock
              /\ uFound' = Append(uFound, <<>>)
              /\ UNCHANGED uPlan
        /\ UNCHANGED <<uRequest, uScenes, uReady, uPrice, uItems>>

\* An estimate that is missing or above the ceiling needs an approval.
\* (Mutant: one that is missing counts for nothing.)
Priced(strategy) == IF strategy \in Generated THEN uPrice[strategy] ELSE 0
NeedsApprovalIfPriced(cost) == cost > uRequest.ceiling
NeedsApproval(cost) == cost = Unpriced \/ cost > uRequest.ceiling
Item(k) ==
    LET strategy == Select(k)
        cost == Priced(strategy)
    IN  [strategy |-> strategy, fallback |-> Fallbacks(k),
         candidates |-> IF strategy \in Stock THEN Ranked(uFound[k]) ELSE <<>>,
         cost |-> IF cost = Unpriced THEN 0 ELSE cost,
         asks |-> NeedsApproval(cost)]

TotalCost(items) ==
    LET sum[n \in 0 .. Len(items)] == IF n = 0 THEN 0 ELSE sum[n - 1] + items[n].cost
    IN  sum[Len(items)]

Decide ==
    /\ uPlan = "planning" /\ Len(uFound) = Len(uScenes)
    /\ uItems' = [k \in DOMAIN uScenes |-> Item(k)]
    /\ uPlan' = IF \/ \E k \in DOMAIN uItems' : uItems'[k].asks
                   \/ TotalCost(uItems') > uRequest.ceiling
                THEN "needs_approval" ELSE "planned"
    /\ UNCHANGED <<uRequest, uScenes, uReady, uPrice, uFound>>

\* A provider that may not execute is asked for no estimate.
UInit ==
    /\ uRequest \in [priority : UPriorities, ceiling : UCeilings,
                     allowed : {Free \cup s \cup g : s \in {{}, Stock}, g \in SUBSET Generated}]
    /\ uScenes \in UScenes
    /\ uReady \in {Free \cup s \cup g : s \in {{}, Stock}, g \in SUBSET Generated}
    /\ uPrice \in [Generated -> UPrices]
    /\ \A g \in Generated \ uReady : uPrice[g] = Unpriced
    /\ uFound = <<>> /\ uItems = <<>> /\ uPlan = "planning"

UNext == Search \/ Decide

-----------------------------------------------------------------------------
\* Nothing is made, bought or searched that the request forbids or no provider
\* may do, not even as a fallback, and no scene is offered another one's finds.
PlansStayPossible ==
    \A k \in DOMAIN uItems :
        LET item == uItems[k]
            named == {uRequest.priority[i] : i \in DOMAIN uRequest.priority}
        IN  /\ item.strategy \in uReady \cap uRequest.allowed
            /\ item.strategy \in Generated => item.strategy \in named
            /\ \A i \in DOMAIN item.fallback :
                  /\ item.fallback[i] \in (uReady \cap uRequest.allowed) \ {item.strategy}
                  /\ \A j \in 1 .. i - 1 : item.fallback[j] # item.fallback[i]
            /\ {item.candidates[i] : i \in DOMAIN item.candidates}
                  = {uFound[k][i] : i \in DOMAIN uFound[k]}
            /\ \A i \in 2 .. Len(item.candidates) :
                  Rerank(item.candidates[i - 1]) >= Rerank(item.candidates[i])

\* A plan that asks nobody costs no more than the ceiling, with every price known.
PlansAreAffordable ==
    uPlan = "planned" =>
        /\ TotalCost(uItems) <= uRequest.ceiling
        /\ \A k \in DOMAIN uItems :
              uItems[k].strategy \in Generated => uPrice[uItems[k].strategy] # Unpriced
=============================================================================
