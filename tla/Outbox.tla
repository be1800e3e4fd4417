------------------------------- MODULE Outbox -------------------------------
(***************************************************************************)
(* What a queue of the worker promises to whoever hands it an item: the    *)
(* item's effect happens at least once before it is called done, an item   *)
(* that is given up is called so, and neither verdict is taken back.       *)
(*                                                                         *)
(* Webhook deliveries and analytics synchronisations implement this.       *)
(***************************************************************************)
CONSTANT Items

VARIABLES
    verdict,        \* "absent", "open", "done" or "dead" for each item
    effects         \* items whose effect has happened

outboxVars == <<verdict, effects>>

OutboxInit ==
    /\ verdict = [i \in Items |-> "absent"]
    /\ effects = {}

Accept(i) ==
    /\ verdict[i] = "absent"
    /\ verdict' = [verdict EXCEPT ![i] = "open"]
    /\ UNCHANGED effects

\* The effect may happen again on a later attempt, and before a verdict.
Effect(i) ==
    /\ verdict[i] = "open"
    /\ effects' = effects \cup {i}
    /\ UNCHANGED verdict

\* Done with the effect, or right after it.
Conclude(i) ==
    /\ verdict[i] = "open"
    /\ effects' \in {effects, effects \cup {i}}
    /\ i \in effects'
    /\ verdict' = [verdict EXCEPT ![i] = "done"]

GiveUp(i) ==
    /\ verdict[i] = "open"
    /\ verdict' = [verdict EXCEPT ![i] = "dead"]
    /\ UNCHANGED effects

OutboxNext == \E i \in Items : Accept(i) \/ Effect(i) \/ Conclude(i) \/ GiveUp(i)

OutboxSpec == OutboxInit /\ [][OutboxNext]_outboxVars
=============================================================================
