---------------------------- MODULE ProviderCalls ---------------------------
(***************************************************************************)
(* The callers of the provider safety ledger: the retry loop of            *)
(* ProviderSafetyController.execute over the durable controller, and the   *)
(* single-dispatch runner (_run_protocol).  Each of their transactions is  *)
(* one of ProviderLedger; between two of them the caller works from what   *)
(* it remembers, may die, or may see a transaction raise, whether or not   *)
(* it committed.  Recovery runs when the API starts, at any time.          *)
(*                                                                         *)
(* The owner gates (rights, windows, kill switch) that may stop a call     *)
(* before it reserves are left out.                                        *)
(***************************************************************************)
EXTENDS ProviderLedger

CONSTANTS
    Calls,          \* calls made; one operation key may be called again
    Reported,       \* amounts a provider may report as the actual cost
    LeaseHolds,     \* whether operation_lease_seconds outlasts every live call
    MaxFaults       \* bound on transactions that raise

ASSUME CallsConstants == Reported \subseteq Nat /\ LeaseHolds \in BOOLEAN /\ MaxFaults \in Nat

VARIABLES
    call,           \* each call: [pc, key, attempt, charge, charged, result]
    sent,           \* history: requests handed to the transport, by operation
    recharged,      \* history: operations whose successful attempt was charged again
    probing,        \* history: operations a half-open circuit admitted
    faults

vars == <<ledger, call, sent, recharged, probing, faults>>
history == <<sent, recharged, probing>>

Idle == [pc |-> "idle", key |-> NoOp, attempt |-> 1, charge |-> 0, charged |-> 0,
         result |-> "fail"]

CallsInit ==
    /\ Init
    /\ call = [c \in Calls |-> Idle]
    /\ sent = [k \in Ops |-> 0]
    /\ recharged = {} /\ probing = {}
    /\ faults = 0

-----------------------------------------------------------------------------
At(c, pc) == call[c].pc = pc
Goto(c, pc) == call' = [call EXCEPT ![c].pc = pc]
Single(c) == call[c].key \in SingleDispatch

\* A transaction raises, and may have committed all the same.
Raises(committed) ==
    /\ faults < MaxFaults
    /\ faults' = faults + 1
    /\ committed \/ UNCHANGED ledger

(* preflight and reserve_operation.                                        *)
Begin(c, k, cooled) ==
    /\ At(c, "idle")
    /\ Grant(k, cooled)
    /\ call' = [call EXCEPT ![c] =
                  [Idle EXCEPT !.pc = IF k \in SingleDispatch THEN "armed" ELSE "calling",
                               !.key = k, !.charge = Estimate[k]]]
    /\ probing' = IF circuit'[CircuitOf[k]].probe = k THEN probing \cup {k} ELSE probing \ {k}
    /\ UNCHANGED <<sent, recharged, faults>>

BeginRefused(c, k, cooled) ==
    /\ At(c, "idle")
    /\ Refuse(k, cooled)
    /\ Goto(c, "done")
    /\ UNCHANGED <<history, faults>>

(* The reservation raises.  The retry controller lets the exception go;    *)
(* the runner, which cannot tell whether it committed, releases what it    *)
(* finds unsent under its key.                                             *)
BeginRaises(c, k, cooled) ==
    /\ At(c, "idle")
    /\ Raises(Grant(k, cooled))
    /\ call' = [call EXCEPT ![c].pc = IF k \in SingleDispatch THEN "releasing" ELSE "done",
                            ![c].key = k]
    /\ UNCHANGED history

-----------------------------------------------------------------------------
(* One attempt of the retry loop, with what it costs and what is to        *)
(* follow.  A provider is taken to report no more than the estimate.       *)
OutcomesOneMore(c) ==
    {"ok", "fail"} \cup IF call[c].attempt <= MaxAttempts THEN {"retry"} ELSE {}

Outcomes(c) == {"ok", "fail"} \cup IF call[c].attempt < MaxAttempts THEN {"retry"} ELSE {}

Costs(k, result) ==
    {Estimate[k]} \cup IF result = "ok" THEN {cost \in Reported : cost <= Estimate[k]} ELSE {}

Attempt(c) ==
    /\ At(c, "calling")
    /\ \E result \in Outcomes(c) : \E cost \in Costs(call[c].key, result) :
         call' = [call EXCEPT ![c].pc = "recording", ![c].result = result,
                              ![c].charge = cost, ![c].charged = @ + cost]
    /\ sent' = [sent EXCEPT ![call[c].key] = @ + 1]
    /\ UNCHANGED <<ledger, recharged, probing, faults>>

Record(c) ==
    /\ At(c, "recording") /\ ~Single(c)
    /\ RecordAttempt(call[c].key, call[c].attempt, call[c].charge)
    /\ call' = IF call[c].result = "retry"
               THEN [call EXCEPT ![c].pc = "calling", ![c].attempt = @ + 1]
               ELSE [call EXCEPT ![c].pc = "finishing"]
    /\ UNCHANGED <<history, faults>>

FinishCall(c) ==
    /\ At(c, "finishing") /\ ~Single(c)
    /\ Finish(call[c].key, call[c].attempt, call[c].charged, call[c].result = "ok")
    /\ Goto(c, "done")
    /\ UNCHANGED <<history, faults>>

(* Recording or finishing raises.  After a success the exception lands in  *)
(* the handlers for failed attempts, which charge the attempt again and    *)
(* end the loop, or retry after a timeout; anywhere else it ends the call. *)
Recharge(c) ==
    LET k == call[c].key
    IN  /\ \E result \in Outcomes(c) \ {"ok"} :
             call' = [call EXCEPT ![c].pc = "recording", ![c].result = result,
                                  ![c].charge = Estimate[k], ![c].charged = @ + Estimate[k]]
        /\ recharged' = recharged \cup {k}

BookingRaises(c) ==
    /\ ~Single(c)
    /\ \/ At(c, "recording") /\ Raises(RecordAttempt(call[c].key, call[c].attempt, call[c].charge))
       \/ At(c, "finishing") /\ Raises(Finish(call[c].key, call[c].attempt, call[c].charged,
                                              call[c].result = "ok"))
    /\ IF call[c].result = "ok" THEN Recharge(c) ELSE Goto(c, "done") /\ UNCHANGED recharged
    /\ UNCHANGED <<sent, probing>>

-----------------------------------------------------------------------------
(* The runner: before_send commits the dispatch marker, unless something   *)
(* stops the call first or the marker is refused or raises.                *)
Mark(c) ==
    /\ At(c, "armed")
    /\ MarkDispatch(call[c].key)
    /\ Goto(c, "marked")
    /\ UNCHANGED <<history, faults>>

Stop(c) ==
    /\ At(c, "armed")
    /\ Goto(c, "inspecting")
    /\ UNCHANGED <<ledger, history, faults>>

MarkRaises(c) ==
    /\ At(c, "armed")
    /\ Raises(MarkDispatch(call[c].key))
    /\ Goto(c, "inspecting")
    /\ UNCHANGED history

(* The marker is committed; the request goes out, or the deadline passes.  *)
Dispatch(c) ==
    /\ At(c, "marked")
    /\ \/ /\ \E result \in {"ok", "fail"} : \E cost \in Costs(call[c].key, result) :
               call' = [call EXCEPT ![c].pc = "inspecting", ![c].result = result,
                                    ![c].charge = cost]
          /\ sent' = [sent EXCEPT ![call[c].key] = @ + 1]
       \/ Goto(c, "inspecting") /\ UNCHANGED sent
    /\ UNCHANGED <<ledger, recharged, probing, faults>>

(* dispatch_state decides whether the operation was consumed.              *)
Inspect(c) ==
    LET k == call[c].key
    IN  /\ At(c, "inspecting")
        /\ Goto(c, IF ~Reserved(k) THEN "done"
                   ELSE IF op[k].started THEN "recording" ELSE "releasing")
        /\ UNCHANGED <<ledger, history, faults>>

ReleaseCall(c) ==
    /\ At(c, "releasing")
    /\ \/ Release(call[c].key) /\ UNCHANGED faults
       \/ ~Virgin(call[c].key) /\ UNCHANGED <<ledger, faults>>
       \/ Raises(Release(call[c].key))
    /\ Goto(c, "done")
    /\ UNCHANGED history

(* A refused or raising attempt row makes the outcome a failure.           *)
RunnerRecord(c) ==
    LET k == call[c].key
    IN  /\ At(c, "recording") /\ Single(c)
        /\ \/ /\ RecordAttempt(k, 1, call[c].charge)
              /\ Goto(c, "finishing")
              /\ UNCHANGED faults
           \/ /\ \/ ~Recordable(k) /\ UNCHANGED <<ledger, faults>>
                 \/ Raises(RecordAttempt(k, 1, call[c].charge))
              /\ call' = [call EXCEPT ![c].pc = "finishing", ![c].result = "fail"]
        /\ UNCHANGED history

(* finish_operation, tried a second time as a failure when it raises.      *)
RunnerFinish(c) ==
    LET finish == Finish(call[c].key, 1, call[c].charge, call[c].result = "ok")
    IN  /\ Single(c)
        /\ \/ /\ call[c].pc \in {"finishing", "refinishing"} /\ finish
              /\ Goto(c, "done")
              /\ UNCHANGED faults
           \/ /\ At(c, "finishing") /\ Raises(finish)
              /\ call' = [call EXCEPT ![c].pc = "refinishing", ![c].result = "fail"]
           \/ /\ At(c, "refinishing") /\ Raises(finish)
              /\ Goto(c, "done")
        /\ UNCHANGED history

-----------------------------------------------------------------------------
Live(c) == call[c].pc \notin {"idle", "done"}

Crash(c) ==
    /\ Live(c)
    /\ Goto(c, "done")
    /\ UNCHANGED <<ledger, history, faults>>

Reservations == {k \in Ops : Reserved(k)}

AbandonedOrNot == Reservations

(* recover_stale_operations when the API starts: a live call refreshes its *)
(* row's updated_at in time, if the lease holds.                           *)
Abandoned ==
    IF LeaseHolds
    THEN {k \in Reservations : \A c \in Calls : Live(c) => call[c].key # k}
    ELSE Reservations

RecoverStale ==
    /\ \E S \in SUBSET Abandoned : S # {} /\ Recover(S)
    /\ UNCHANGED <<call, history, faults>>

Midnight == NextDay /\ UNCHANGED <<call, history, faults>>

CallsNext ==
    \/ \E c \in Calls, k \in Ops, cooled \in BOOLEAN :
         Begin(c, k, cooled) \/ BeginRefused(c, k, cooled) \/ BeginRaises(c, k, cooled)
    \/ \E c \in Calls :
         \/ Attempt(c) \/ Record(c) \/ FinishCall(c) \/ BookingRaises(c)
         \/ Mark(c) \/ Stop(c) \/ MarkRaises(c) \/ Dispatch(c) \/ Inspect(c)
         \/ ReleaseCall(c) \/ RunnerRecord(c) \/ RunnerFinish(c) \/ Crash(c)
    \/ RecoverStale \/ Midnight

CallsSpec == CallsInit /\ [][CallsNext]_vars

-----------------------------------------------------------------------------
(* A single-dispatch request is handed to the transport at most once, and  *)
(* the ledger row that says so is never released, whatever crashes, raises *)
(* or runs a second time under the same key.                               *)
SentOnceOnTheBooks ==
    \A k \in SingleDispatch : sent[k] <= 1 /\ (sent[k] = 1 => op[k].started)

(* The retry loop never makes more attempts under one key than it reserved *)
(* the budget for.                                                         *)
AttemptsWereReserved ==
    \A k \in Ops \ SingleDispatch : sent[k] <= MaxAttempts

(* What is sent is on the books first, in both protocols.                  *)
SentAsReserved == SentOnceOnTheBooks /\ AttemptsWereReserved

(* What a day has committed and reserved never exceeds its limit, but for  *)
(* attempts that were charged again because their booking raised.          *)
WithinDailyLimit ==
    \A d \in Days : budget[d].limit # NoBudget /\ recharged = {} =>
        budget[d].committed + budget[d].reserved <= budget[d].limit

(* A settled operation of the retry loop was charged what its attempt rows *)
(* add up to, with the same exception: completion and recovery agree with  *)
(* the rows, whichever of them settles it.                                 *)
ChargesMatchAttempts ==
    \A k \in Ops \ (SingleDispatch \cup recharged) :
        op[k].status \in Settled => op[k].charged = op[k].billed

(* docs/acceptance/v3-01/18_V3_01_02_PROVIDER_SAFETY_PLANE.md promises      *)
(* per-operation and daily ceilings that include failed and retried        *)
(* attempts.                                                               *)
CeilingsHold ==
    /\ \A k \in Ops : op[k].charged <= OperationLimit
    /\ \A d \in Days : budget[d].limit # NoBudget =>
         budget[d].committed + budget[d].reserved <= budget[d].limit
=============================================================================
