------------------------------- MODULE Webhook -------------------------------
(***************************************************************************)
(* Deliveries of the Agent Hub bridge: rows of agent_hub_webhook_deliveries*)
(* (bridge_repository.py), attempted by WebhookDeliveryProcessor.process   *)
(* (bridge_service.py) on the worker, retried by a scheduler in the same   *)
(* process and recovered when the process starts.                          *)
(*                                                                         *)
(* Back-off is a flag that time may set; signing and the body are left out.*)
(***************************************************************************)
EXTENDS WorkQueue

CONSTANTS
    Deliveries,         \* ids of deliveries, positive numbers
    DMaxAttempts,       \* AGENT_HUB_WEBHOOK_MAX_ATTEMPTS
    DMaxFaults          \* bound on crashes, lost pushes and database errors

ASSUME WebhookConstants ==
    /\ Deliveries \subseteq Nat \ {0} /\ IsFiniteSet(Deliveries)
    /\ DMaxAttempts \in Nat \ {0} /\ DMaxFaults \in Nat

VARIABLES
    delivery,           \* rows: [status, attempts, due]
    dRedis,             \* the webhook queue and its processing list
    dPushing,           \* deliveries an API request has stored and not pushed
    dScheduler,         \* ids the scheduler has made due and not pushed
    dWorker,            \* [pc, job, ids]
    dInbox,             \* for each delivery, how often the receiver got it
    dSends,             \* for each delivery, how often it was posted
    dLost,              \* history: ids that left Redis before they settled
    dFaults             \* faults so far

dVars == <<delivery, dRedis, dPushing, dScheduler, dWorker, dInbox, dSends, dLost, dFaults>>
dBooks == <<dInbox, dSends>>

DOpen(d) == delivery[d].status \in {"queued", "running"}
DIdle == [pc |-> "down", job |-> 0, ids |-> <<>>]
DUp == dWorker.pc \notin {"down", "recovering"}

DInit ==
    /\ delivery = [d \in Deliveries |-> [status |-> "none", attempts |-> 0, due |-> FALSE]]
    /\ dRedis = EmptyQueue
    /\ dPushing = {}
    /\ dScheduler = <<>>
    /\ dWorker = DIdle
    /\ dInbox = [d \in Deliveries |-> 0]
    /\ dSends = [d \in Deliveries |-> 0]
    /\ dLost = {}
    /\ dFaults = 0

DFault == dFaults < DMaxFaults /\ dFaults' = dFaults + 1

-----------------------------------------------------------------------------
\* complete_request stores the delivery with its event ...
CreateDelivery(d) ==
    /\ delivery[d].status = "none"
    /\ delivery' = [delivery EXCEPT ![d].status = "queued"]
    /\ dPushing' = dPushing \cup {d}
    /\ UNCHANGED <<dRedis, dScheduler, dWorker, dBooks, dLost, dFaults>>

\* ... and create_draft_project pushes its id.
PushDelivery(d) ==
    /\ d \in dPushing
    /\ dPushing' = dPushing \ {d}
    /\ dRedis' = Pushed(dRedis, d)
    /\ UNCHANGED <<delivery, dScheduler, dWorker, dBooks, dLost, dFaults>>

PushDeliveryFails(d) ==
    /\ d \in dPushing
    /\ DFault
    /\ dPushing' = dPushing \ {d}
    /\ dLost' = dLost \cup {d}
    /\ UNCHANGED <<delivery, dRedis, dScheduler, dWorker, dBooks>>

-----------------------------------------------------------------------------
\* recover_incomplete_delivery_ids: what was running is queued again.
\* (Mutant: only what was running is found.)
RunningDeliveries == {d \in Deliveries : delivery[d].status = "running"}
IncompleteDeliveries == {d \in Deliveries : DOpen(d)}

RecoverDeliveriesRead ==
    /\ dWorker.pc = "down"
    /\ \E ids \in Recoverable(dRedis, IncompleteDeliveries) :
          dWorker' = [dWorker EXCEPT !.pc = "recovering", !.ids = ids]
    /\ delivery' = [d \in Deliveries |->
          IF delivery[d].status = "running" THEN [delivery[d] EXCEPT !.status = "queued"]
          ELSE delivery[d]]
    /\ UNCHANGED <<dRedis, dPushing, dScheduler, dBooks, dLost, dFaults>>

RecoverDeliveries ==
    /\ dWorker.pc = "recovering"
    /\ dRedis' = Requeued(dRedis, dWorker.ids)
    /\ dLost' = dLost \ ToSet(dWorker.ids)
    /\ dWorker' = [dWorker EXCEPT !.pc = "waiting", !.ids = <<>>]
    /\ UNCHANGED <<delivery, dPushing, dScheduler, dBooks, dFaults>>

TakeDelivery ==
    /\ dWorker.pc = "waiting"
    /\ dRedis.queue # <<>>
    /\ dRedis' = Claimed(dRedis)
    /\ dWorker' = [dWorker EXCEPT !.pc = "taken", !.job = NextId(dRedis)]
    /\ UNCHANGED <<delivery, dPushing, dScheduler, dBooks, dLost, dFaults>>

\* claim_delivery, and process goes on with a row it finds running: also with
\* one that an attempt which raised has left running.
\* (Mutants: the attempt is not counted; the status is one no reader knows.)
Claimable(row) == row.status = "queued"

StartedUncounted(row) == [row EXCEPT !.status = "running", !.due = FALSE]
Started(row) == [row EXCEPT !.status = "running", !.attempts = @ + 1, !.due = FALSE]

ClaimDelivery ==
    /\ dWorker.pc = "taken"
    /\ delivery' = IF Claimable(delivery[dWorker.job])
                   THEN [delivery EXCEPT ![dWorker.job] = Started(@)]
                   ELSE delivery
    /\ dWorker' = [dWorker EXCEPT !.pc = IF delivery'[dWorker.job].status = "running"
                                         THEN "sending" ELSE "over"]
    /\ UNCHANGED <<dRedis, dPushing, dScheduler, dBooks, dLost, dFaults>>

\* provider.deliver: the receiver accepts; or the call raises, and a call that
\* timed out may have been received all the same.
Post(got, answer) ==
    /\ dWorker.pc = "sending"
    /\ dSends' = [dSends EXCEPT ![dWorker.job] = @ + 1]
    /\ dInbox' = [dInbox EXCEPT ![dWorker.job] = @ + got]
    /\ dWorker' = [dWorker EXCEPT !.pc = answer]
    /\ UNCHANGED <<delivery, dRedis, dPushing, dScheduler, dLost, dFaults>>

\* (Mutant: a refusal passes for an acceptance.)
DeliverUnchecked == Post(1, "accepted") \/ Post(0, "refused") \/ Post(0, "accepted")
Deliver == Post(1, "accepted") \/ Post(0, "refused") \/ Post(1, "refused")

FinishDelivery ==
    /\ dWorker.pc = "accepted"
    /\ delivery' = [delivery EXCEPT ![dWorker.job].status = "succeeded"]
    /\ dWorker' = [dWorker EXCEPT !.pc = "over"]
    /\ UNCHANGED <<dRedis, dPushing, dScheduler, dBooks, dLost, dFaults>>

\* finish_delivery raises: to process, that is one more failed attempt.
FinishDeliveryRaises ==
    /\ dWorker.pc = "accepted"
    /\ DFault
    /\ dWorker' = [dWorker EXCEPT !.pc = "refused"]
    /\ UNCHANGED <<delivery, dRedis, dPushing, dScheduler, dBooks, dLost>>

\* fail_or_retry_delivery.
Exhausted(row) == row.attempts >= DMaxAttempts

FailOrRetryDelivery ==
    /\ dWorker.pc = "refused"
    /\ delivery' = [delivery EXCEPT ![dWorker.job].status =
          IF Exhausted(delivery[dWorker.job]) THEN "failed" ELSE "retry_scheduled"]
    /\ dWorker' = [dWorker EXCEPT !.pc = "over"]
    /\ UNCHANGED <<dRedis, dPushing, dScheduler, dBooks, dLost, dFaults>>

\* process raises out of a transaction; the loop logs it and releases the id.
DeliveryProcessRaises ==
    /\ dWorker.pc \in {"taken", "sending", "refused"}
    /\ DFault
    /\ dWorker' = [dWorker EXCEPT !.pc = "over"]
    /\ dLost' = dLost \cup {dWorker.job}
    /\ UNCHANGED <<delivery, dRedis, dPushing, dScheduler, dBooks>>

ReleaseDelivery ==
    /\ dWorker.pc = "over"
    /\ dRedis' = Released(dRedis, dWorker.job)
    /\ dWorker' = [DIdle EXCEPT !.pc = "waiting"]
    /\ UNCHANGED <<delivery, dPushing, dScheduler, dBooks, dLost, dFaults>>

-----------------------------------------------------------------------------
\* next_retry_at passes.
DeliveryDue(d) ==
    /\ delivery[d].status = "retry_scheduled"
    /\ ~delivery[d].due
    /\ delivery' = [delivery EXCEPT ![d].due = TRUE]
    /\ UNCHANGED <<dRedis, dPushing, dScheduler, dWorker, dBooks, dLost, dFaults>>

\* webhook_scheduler: one transaction queues every due row ...
ActivateDueDeliveries ==
    /\ DUp
    /\ dScheduler = <<>>
    /\ LET due == {d \in Deliveries : delivery[d].status = "retry_scheduled" /\ delivery[d].due}
       IN  /\ due # {}
           /\ dScheduler' \in SetToSeqs(due)
           /\ delivery' = [d \in Deliveries |->
                 IF d \in due THEN [delivery[d] EXCEPT !.status = "queued", !.due = FALSE]
                 ELSE delivery[d]]
    /\ UNCHANGED <<dRedis, dPushing, dWorker, dBooks, dLost, dFaults>>

\* ... and their ids are pushed one by one.
PushDueDelivery ==
    /\ dScheduler # <<>>
    /\ dRedis' = Pushed(dRedis, Head(dScheduler))
    /\ dScheduler' = Tail(dScheduler)
    /\ UNCHANGED <<delivery, dPushing, dWorker, dBooks, dLost, dFaults>>

\* The worker process dies, its scheduler with it; a push the scheduler is
\* refused ends the process too.
WebhookWorkerCrash ==
    /\ dWorker.pc # "down"
    /\ DFault
    /\ dWorker' = DIdle
    /\ dScheduler' = <<>>
    /\ UNCHANGED <<delivery, dRedis, dPushing, dBooks, dLost>>

-----------------------------------------------------------------------------
WebhookWorkerStep ==
    \/ RecoverDeliveriesRead \/ RecoverDeliveries \/ TakeDelivery \/ ClaimDelivery
    \/ Deliver \/ FinishDelivery \/ FailOrRetryDelivery \/ ReleaseDelivery

WebhookSchedulerStep == ActivateDueDeliveries \/ PushDueDelivery

DNext ==
    \/ \E d \in Deliveries : \/ CreateDelivery(d) \/ PushDelivery(d) \/ PushDeliveryFails(d)
                             \/ DeliveryDue(d)
    \/ WebhookWorkerStep \/ WebhookSchedulerStep
    \/ FinishDeliveryRaises \/ DeliveryProcessRaises \/ WebhookWorkerCrash

\* The API pushes, time passes, the worker is restarted, polls and is answered,
\* and its scheduler task runs.
DFairness ==
    /\ \A d \in Deliveries : WF_dVars(PushDelivery(d)) /\ WF_dVars(DeliveryDue(d))
    /\ WF_dVars(WebhookWorkerStep)
    /\ WF_dVars(WebhookSchedulerStep)

DSpec == DInit /\ [][DNext]_dVars /\ DFairness

-----------------------------------------------------------------------------
(* Properties.                                                             *)

\* Rows, lists and positions have their types.
DTypeOK ==
    /\ delivery \in [Deliveries -> [status : {"none", "queued", "running", "retry_scheduled",
                                              "succeeded", "failed"},
                                    attempts : Nat, due : BOOLEAN]]
    /\ dRedis \in [queue : Seq(Deliveries), processing : Seq(Deliveries)]
    /\ dPushing \subseteq Deliveries
    /\ dScheduler \in Seq(Deliveries)
    /\ dWorker.job \in Deliveries \cup {0}

\* Only a fault lets a post go uncounted (the row it left running is taken up
\* through a second entry of its id), and only a fault adds an attempt to the
\* configured number (a crash during the last is recovered into one more).
AttemptsCoverSends ==
    \A d \in Deliveries :
        /\ dSends[d] <= delivery[d].attempts + dFaults
        /\ delivery[d].attempts <= DMaxAttempts + dFaults

\* While a worker runs, an open delivery is queued, about to be pushed by its
\* request or the scheduler, in the worker's hands, or its id was dropped.
NoDeliveryForgotten ==
    DUp => \A d \in Deliveries : DOpen(d) =>
              \/ d \in Queued(dRedis) \cup dPushing \cup ToSet(dScheduler) \cup dLost
              \/ dWorker.job = d /\ dWorker.pc # "over"

\* Every delivery whose id is not dropped is delivered or given up.
DeliveriesSettle ==
    \A d \in Deliveries :
        delivery[d].status \in {"queued", "running", "retry_scheduled"} ~>
            delivery[d].status \in {"succeeded", "failed"} \/ d \in dLost

\* The webhook queue delivers at least once: success is recorded only after the
\* receiver had the event, and a recorded verdict stays.
WebhookOutbox == INSTANCE Outbox WITH
    Items <- Deliveries,
    effects <- {d \in Deliveries : dInbox[d] > 0},
    verdict <- [d \in Deliveries |->
        CASE delivery[d].status = "none" -> "absent"
          [] delivery[d].status = "succeeded" -> "done"
          [] delivery[d].status = "failed" -> "dead"
          [] OTHER -> "open"]

DeliversAtLeastOnce == WebhookOutbox!OutboxSpec
=============================================================================
