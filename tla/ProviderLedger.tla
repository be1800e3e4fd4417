--------------------------- MODULE ProviderLedger ---------------------------
(***************************************************************************)
(* The durable provider safety ledger (provider_safety_repository.py):     *)
(* operation reservations, daily budgets and circuits.  Every transaction  *)
(* but record_attempt starts by updating the one control row, which        *)
(* serialises it with the others across instances, and record_attempt      *)
(* locks the only row it touches; so a transaction is one action, and here *)
(* any caller may run any of them at any time.  ProviderCalls adds the     *)
(* callers.                                                                *)
(*                                                                         *)
(* Left out: attempt rows beyond their number and the sum of their         *)
(* charges, alert rows (a function of the committed column), and the       *)
(* clock, of which only the budget day and "the cooldown has elapsed"      *)
(* remain.                                                                 *)
(***************************************************************************)
EXTENDS Integers, FiniteSets

CONSTANTS
    NumOps,         \* operation keys are 1..NumOps
    SingleDispatch, \* operations of the single-dispatch runner
    Circuits,       \* (provider, capability) pairs
    CircuitOf,      \* the pair each operation calls
    Estimate,       \* estimated_cost_vnd of each operation, 0 when unpaid
    MaxAttempts, MaxConcurrent, FailureThreshold,
    OperationLimit, DailyLimit, WindowLimit,
    MaxDay          \* bound on the days the clock passes

Ops == 1..NumOps
Days == 1..MaxDay
NoOp == 0
NoBudget == -1

ASSUME LedgerConstants ==
    /\ NumOps \in Nat
    /\ SingleDispatch \subseteq Ops
    /\ CircuitOf \in [Ops -> Circuits]
    /\ Estimate \in [Ops -> Nat]
    /\ MaxAttempts \in Nat \ {0} /\ FailureThreshold \in Nat \ {0} /\ MaxConcurrent \in Nat
    /\ OperationLimit \in Nat /\ DailyLimit \in Nat /\ WindowLimit \in Nat
    /\ MaxDay \in Nat \ {0}

VARIABLES
    op,         \* provider_safety_operations; status "none" is no row
    budget,     \* provider_safety_budget_days; limit NoBudget is no row
    circuit,    \* provider_safety_circuits
    today

ledger == <<op, budget, circuit, today>>

Settled == {"succeeded", "failed", "recovered"}

NoRow == [status |-> "none", started |-> FALSE, reserved |-> 0, charged |-> 0,
          attempts |-> 0, billed |-> 0, day |-> 1]

Init ==
    /\ op = [k \in Ops |-> NoRow]
    /\ budget = [d \in Days |-> [limit |-> NoBudget, committed |-> 0, reserved |-> 0]]
    /\ circuit = [z \in Circuits |-> [state |-> "closed", failures |-> 0, probe |-> NoOp]]
    /\ today = 1

-----------------------------------------------------------------------------
Reserved(k) == op[k].status = "reserved"

\* The sum of f[1..NumOps].
Total(f) ==
    LET sum[n \in 0..NumOps] == IF n = 0 THEN 0 ELSE sum[n - 1] + f[n]
    IN  sum[NumOps]

\* The retry controller reserves every attempt it may make, the runner one.
Reservation(k) == IF k \in SingleDispatch THEN Estimate[k] ELSE Estimate[k] * MaxAttempts
ConcurrencyLimit(k) == IF k \in SingleDispatch THEN 1 ELSE MaxConcurrent
LimitFor(k) == IF k \in SingleDispatch THEN WindowLimit ELSE DailyLimit

\* The budget row, created with the caller's limit when the day has none.
BudgetFor(k) ==
    IF budget[today].limit = NoBudget
    THEN [budget[today] EXCEPT !.limit = LimitFor(k)]
    ELSE budget[today]

AffordableByCommitted(k) ==
    /\ BudgetFor(k).limit = LimitFor(k)
    /\ Estimate[k] > 0 =>
         /\ Reservation(k) <= OperationLimit
         /\ BudgetFor(k).committed + Reservation(k) <= LimitFor(k)

Affordable(k) ==
    /\ BudgetFor(k).limit = LimitFor(k)
    /\ Estimate[k] > 0 =>
         /\ Reservation(k) <= OperationLimit
         /\ BudgetFor(k).committed + BudgetFor(k).reserved + Reservation(k) <= LimitFor(k)

\* An open circuit whose cooldown has elapsed.
HalfOpened(z, cooled) ==
    IF circuit[z].state = "open" /\ cooled
    THEN [circuit[z] EXCEPT !.state = "half_open", !.probe = NoOp]
    ELSE circuit[z]

Blocked(row) == row.state = "open" \/ (row.state = "half_open" /\ row.probe # NoOp)

Free(k) ==
    /\ op[k].status = "none"
    /\ Cardinality({j \in Ops : Reserved(j)}) < ConcurrencyLimit(k)

-----------------------------------------------------------------------------
(* reserve_operation: granted, or refused.  A refusal over the budget      *)
(* still commits the half-opened circuit and the new budget row.           *)
Grant(k, cooled) ==
    LET z == CircuitOf[k]
        row == HalfOpened(z, cooled)
    IN
    /\ Free(k) /\ ~Blocked(row) /\ Affordable(k)
    /\ op' = [op EXCEPT ![k] =
                [NoRow EXCEPT !.status = "reserved", !.reserved = Reservation(k),
                              !.day = today]]
    /\ budget' = [budget EXCEPT ![today] =
                    [BudgetFor(k) EXCEPT !.reserved = @ + Reservation(k)]]
    /\ circuit' = [circuit EXCEPT ![z] =
                     IF row.state = "half_open" THEN [row EXCEPT !.probe = k] ELSE row]
    /\ UNCHANGED today

Refuse(k, cooled) ==
    LET z == CircuitOf[k]
        row == HalfOpened(z, cooled)
    IN
    IF ~Free(k) \/ Blocked(row)
    THEN UNCHANGED ledger
    ELSE /\ ~Affordable(k)
         /\ circuit' = [circuit EXCEPT ![z] = row]
         /\ budget' = [budget EXCEPT ![today] = BudgetFor(k)]
         /\ UNCHANGED <<op, today>>

VirginOrStarted(k) == k \in SingleDispatch /\ Reserved(k) /\ op[k].attempts = 0

(* A single-dispatch reservation whose request was not sent yet.           *)
Virgin(k) ==
    /\ k \in SingleDispatch
    /\ Reserved(k) /\ ~op[k].started /\ op[k].attempts = 0

(* mark_dispatch_started.                                                  *)
MarkDispatch(k) ==
    /\ Virgin(k)
    /\ op' = [op EXCEPT ![k].started = TRUE]
    /\ UNCHANGED <<budget, circuit, today>>

KeptProbe(row, k) == row
WithoutProbe(row, k) == IF row.probe = k THEN [row EXCEPT !.probe = NoOp] ELSE row

ReleaseKeepingRow(k) ==
    /\ Virgin(k)
    /\ budget' = [budget EXCEPT ![op[k].day].reserved = @ - op[k].reserved]
    /\ UNCHANGED <<op, circuit, today>>

(* release_pre_dispatch deletes an unsent reservation.                     *)
Release(k) ==
    /\ Virgin(k)
    /\ op[k].reserved <= budget[op[k].day].reserved
    /\ op' = [op EXCEPT ![k] = NoRow]
    /\ budget' = [budget EXCEPT ![op[k].day].reserved = @ - op[k].reserved]
    /\ circuit' = [circuit EXCEPT ![CircuitOf[k]] = WithoutProbe(@, k)]
    /\ UNCHANGED today

(* record_attempt: an attempt already on record is left as it is, and a    *)
(* settled row of the retry controller still takes new ones.               *)
Recordable(k) ==
    /\ op[k].status # "none"
    /\ k \in SingleDispatch => Reserved(k) /\ op[k].started

RecordAttempt(k, n, charge) ==
    /\ Recordable(k)
    /\ op' = IF n <= op[k].attempts THEN op
             ELSE [op EXCEPT ![k].attempts = n, ![k].billed = @ + charge]
    /\ UNCHANGED <<budget, circuit, today>>

Judged(row, ok) ==
    IF ok THEN [state |-> "closed", failures |-> 0, probe |-> NoOp]
    ELSE [state |-> IF row.state = "half_open" \/ row.failures + 1 >= FailureThreshold
                    THEN "open" ELSE row.state,
          failures |-> row.failures + 1,
          probe |-> NoOp]

Floor(n) == IF n < 0 THEN 0 ELSE n

Finishable(k) == op[k].status # "none" /\ (k \in SingleDispatch => op[k].started)

FinishRow(k, n, charge, ok) ==
    op' = [op EXCEPT ![k].status = IF ok THEN "succeeded" ELSE "failed",
                     ![k].charged = charge, ![k].attempts = n]

FinishAgain(k, n, charge, ok) ==
    /\ Finishable(k)
    /\ FinishRow(k, n, charge, ok)
    /\ budget' = [budget EXCEPT ![op[k].day].reserved = Floor(@ - op[k].reserved),
                                ![op[k].day].committed = @ + charge]
    /\ circuit' = [circuit EXCEPT ![CircuitOf[k]] = Judged(@, ok)]
    /\ UNCHANGED today

FinishOnToday(k, n, charge, ok) ==
    /\ Finishable(k)
    /\ IF ~Reserved(k) THEN UNCHANGED ledger
       ELSE /\ FinishRow(k, n, charge, ok)
            /\ budget' = [budget EXCEPT ![today].reserved = Floor(@ - op[k].reserved),
                                        ![today].committed = @ + charge]
            /\ circuit' = [circuit EXCEPT ![CircuitOf[k]] = Judged(@, ok)]
            /\ UNCHANGED today

(* finish_operation: a row that is settled already answers as it stands.   *)
Finish(k, n, charge, ok) ==
    /\ Finishable(k)
    /\ IF ~Reserved(k) THEN UNCHANGED ledger
       ELSE /\ FinishRow(k, n, charge, ok)
            /\ budget' = [budget EXCEPT ![op[k].day].reserved = Floor(@ - op[k].reserved),
                                        ![op[k].day].committed = @ + charge]
            /\ circuit' = [circuit EXCEPT ![CircuitOf[k]] = Judged(@, ok)]
            /\ UNCHANGED today

-----------------------------------------------------------------------------
(* recover_stale_operations: one transaction for all stale reservations.   *)
(* An unsent single-dispatch row is released; any other row is charged     *)
(* what its attempts recorded, and a single dispatch that may have been    *)
(* sent at least its whole reservation.  Its circuit opens.                *)
Unsent(k) == k \in SingleDispatch /\ ~op[k].started

RecoveryCharge(k) ==
    IF k \in SingleDispatch /\ op[k].billed < op[k].reserved THEN op[k].reserved ELSE op[k].billed

\* What the operations of S hold of a day's budget, and are charged to it.
Held(S, d) == [k \in Ops |-> IF k \in S /\ op[k].day = d THEN op[k].reserved ELSE 0]
Charged(S, d) == [k \in Ops |-> IF k \in S /\ op[k].day = d THEN RecoveryCharge(k) ELSE 0]

RecoveredRow(k) ==
    IF Unsent(k) THEN NoRow
    ELSE [op[k] EXCEPT !.status = "recovered", !.charged = RecoveryCharge(k)]

Sent(S) == {k \in S : ~Unsent(k)}

RecoveredBudgetOfSent(S, d) ==
    [budget[d] EXCEPT !.reserved = Floor(@ - Total(Held(Sent(S), d))),
                      !.committed = @ + Total(Charged(Sent(S), d))]

RecoveredBudget(S, d) ==
    [budget[d] EXCEPT !.reserved = Floor(@ - Total(Held(S, d))),
                      !.committed = @ + Total(Charged(Sent(S), d))]

RecoveredCircuit(S, z) ==
    LET row == IF circuit[z].probe \in S THEN [circuit[z] EXCEPT !.probe = NoOp] ELSE circuit[z]
        charged == {k \in Sent(S) : CircuitOf[k] = z}
    IN  IF charged = {} THEN row
        ELSE [row EXCEPT !.state = "open", !.failures = @ + Cardinality(charged)]

Recover(S) ==
    /\ \A k \in S : Reserved(k)
    /\ op' = [k \in Ops |-> IF k \in S THEN RecoveredRow(k) ELSE op[k]]
    /\ budget' = [d \in Days |-> RecoveredBudget(S, d)]
    /\ circuit' = [z \in Circuits |-> RecoveredCircuit(S, z)]
    /\ UNCHANGED today

NextDay ==
    /\ today < MaxDay
    /\ today' = today + 1
    /\ UNCHANGED <<op, budget, circuit>>

Next ==
    \/ \E k \in Ops, cooled \in BOOLEAN : Grant(k, cooled) \/ Refuse(k, cooled)
    \/ \E k \in Ops : MarkDispatch(k) \/ Release(k)
    \/ \E k \in Ops, n \in 1..MaxAttempts, charge \in Nat : RecordAttempt(k, n, charge)
    \/ \E k \in Ops, n \in 1..MaxAttempts, charge \in Nat, ok \in BOOLEAN :
          Finish(k, n, charge, ok)
    \/ \E S \in SUBSET Ops : Recover(S)
    \/ NextDay

Spec == Init /\ [][Next]_ledger

-----------------------------------------------------------------------------
\* What each open reservation holds of day d, and each settled operation was
\* charged to it.
Open(d) == [k \in Ops |-> IF Reserved(k) /\ op[k].day = d THEN op[k].reserved ELSE 0]
Spent(d) == [k \in Ops |-> IF op[k].status \in Settled /\ op[k].day = d THEN op[k].charged ELSE 0]

Row == [status : {"none", "reserved"} \cup Settled, started : BOOLEAN, reserved : Nat,
        charged : Nat, attempts : Nat, billed : Nat, day : Days]
BudgetRow == [limit : Nat \cup {NoBudget}, committed : Nat, reserved : Nat]
CircuitRow == [state : {"closed", "open", "half_open"}, failures : Nat, probe : Ops \cup {NoOp}]

(* Every row keeps its columns' types; amounts never turn negative, which  *)
(* the database would refuse.                                              *)
TypeOK ==
    /\ op \in [Ops -> Row]
    /\ budget \in [Days -> BudgetRow]
    /\ circuit \in [Circuits -> CircuitRow]
    /\ today \in Days

(* A day's reserved_vnd is the sum of the reservations still open on it:   *)
(* no order of grants, releases, completions and recoveries loses or       *)
(* repeats one, so Floor never hides a difference.                         *)
ReservationsAddUp ==
    \A d \in Days : budget[d].reserved = Total(Open(d))

(* A day's committed_vnd is the sum of what its settled operations were    *)
(* charged: each one exactly once, whichever of completion and recovery    *)
(* comes first.                                                            *)
CommitmentsAddUp ==
    \A d \in Days : budget[d].committed = Total(Spent(d))

(* Both sums, in one property.                                             *)
BooksAddUp == ReservationsAddUp /\ CommitmentsAddUp

(* The probe a half-open circuit waits for is an operation of that circuit *)
(* with an open reservation: no circuit stays busy with an operation that  *)
(* was settled or released.                                                *)
ProbesAreOpen ==
    \A z \in Circuits : circuit[z].probe # NoOp =>
        Reserved(circuit[z].probe) /\ CircuitOf[circuit[z].probe] = z

(* A settled operation keeps its outcome and its charge, and one that may  *)
(* have been sent keeps its row: a late completion or recovery changes     *)
(* neither, and no replay of the key can be granted again.                 *)
OutcomesStay ==
    [][\A k \in Ops :
         /\ op[k].status \in Settled =>
              op'[k].status = op[k].status /\ op'[k].charged = op[k].charged
         /\ op[k].started => op'[k].started /\ op'[k].status # "none"]_ledger
=============================================================================
