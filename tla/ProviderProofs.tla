--------------------------- MODULE ProviderProofs ---------------------------
(***************************************************************************)
(* Proofs about ProviderLedger.tla, for any number of operations, circuits *)
(* and days: its types, and that the two columns of a budget day always    *)
(* are the sums of the operations they account for.  Then about            *)
(* ProviderCalls.tla, for any number of callers, attempts and faults: the  *)
(* two call protocols only ever run transactions of the ledger, and what   *)
(* they send and charge stays on its books.                                *)
(***************************************************************************)
EXTENDS ProviderCalls, TLAPS, WellFoundedInduction, FiniteSetTheorems

LEMMA NumOpsNat == NumOps \in Nat
BY LedgerConstants

-----------------------------------------------------------------------------
(* Sums over the operations.                                               *)

\* g[0..m] are the running sums of f.
IsRun(g, f, m) == g = [n \in 0..m |-> IF n = 0 THEN 0 ELSE g[n - 1] + f[n]]

(* Every nonempty set of naturals has a least element.                     *)
LEMMA LeastNat ==
  ASSUME NEW T \in SUBSET Nat, T # {}
  PROVE  \E m \in T : \A n \in T : m <= n
<1> DEFINE R == OpToRel(<, Nat)
<1>1. IsWellFoundedOn(R, Nat)
  BY NatLessThanWellFounded, Zenon
<1>2. \A x, y \in Nat : <<x, y>> \in R <=> x < y
  BY DEF OpToRel
<1> HIDE DEF R
<1>3. PICK m \in T : \A n \in T : ~ (<<n, m>> \in R)
  BY <1>1, WFMin, Zenon
<1>4. \A x \in T : x \in Nat
  OBVIOUS
<1>5. \A n \in T : ~ (n < m)
  BY <1>2, <1>3, <1>4
<1>6. \A n \in T : m <= n
  BY <1>4, <1>5
<1> QED BY <1>6

(* Running sums exist.                                                     *)
LEMMA RunExists ==
  ASSUME NEW f \in [Ops -> Nat]
  PROVE  \E g \in [0..NumOps -> Nat] : IsRun(g, f, NumOps)
<1> USE NumOpsNat DEF Ops
<1> DEFINE Bad == {m \in 0..NumOps : ~ \E g \in [0..m -> Nat] : IsRun(g, f, m)}
<1>0. SUFFICES Bad = {}
  <2>1. NumOps \in 0..NumOps
    OBVIOUS
  <2> QED BY <2>1
<1>1. SUFFICES ASSUME Bad # {} PROVE FALSE
  OBVIOUS
<1>2. PICK m \in Bad : \A n \in Bad : m <= n
  <2>1. Bad \subseteq Nat
    OBVIOUS
  <2> QED BY <1>1, <2>1, LeastNat
<1>3. m # 0
  <2>1. SUFFICES ASSUME m = 0 PROVE \E g \in [0..0 -> Nat] : IsRun(g, f, 0)
    OBVIOUS
  <2> DEFINE z == [n \in 0..0 |-> 0]
  <2>2. z \in [0..0 -> Nat]
    OBVIOUS
  <2>3. z = [n \in 0..0 |-> IF n = 0 THEN 0 ELSE z[n - 1] + f[n]]
    OBVIOUS
  <2> QED BY <2>2, <2>3 DEF IsRun
<1>4. m - 1 \in 0..NumOps /\ m - 1 \notin Bad
  <2>1. m \in 0..NumOps
    OBVIOUS
  <2>2. m - 1 \in 0..NumOps /\ ~(m <= m - 1)
    BY <2>1, <1>3
  <2> HIDE DEF Bad
  <2> QED BY <2>2, <1>2
<1>5. PICK g \in [0..(m - 1) -> Nat] : IsRun(g, f, m - 1)
  BY <1>4
<1> DEFINE h == [n \in 0..m |-> IF n = 0 THEN 0 ELSE g[n - 1] + f[n]]
<1>6. h \in [0..m -> Nat]
  BY <1>3, <1>4
<1>7. \A n \in 0..(m - 1) : h[n] = g[n]
  BY <1>3, <1>4, <1>5 DEF IsRun
<1>8. IsRun(h, f, m)
  <2>1. \A n \in 0..m : n # 0 => n - 1 \in 0..(m - 1)
    BY <1>3, <1>4
  <2> QED BY <1>7, <2>1 DEF IsRun
<1> QED BY <1>2, <1>6, <1>8

(* Running sums are unique.                                                *)
LEMMA RunUnique ==
  ASSUME NEW f, NEW g, NEW h, IsRun(g, f, NumOps), IsRun(h, f, NumOps)
  PROVE  g = h
<1> USE NumOpsNat
<1> DEFINE Bad == {n \in 0..NumOps : g[n] # h[n]}
<1>1. SUFFICES Bad = {}
  <2>1. DOMAIN g = 0..NumOps /\ DOMAIN h = 0..NumOps
        /\ g = [n \in 0..NumOps |-> g[n]] /\ h = [n \in 0..NumOps |-> h[n]]
    BY DEF IsRun
  <2>2. Bad = {} => \A n \in 0..NumOps : g[n] = h[n]
    OBVIOUS
  <2> QED BY <2>1, <2>2
<1>2. SUFFICES ASSUME Bad # {} PROVE FALSE
  OBVIOUS
<1>3. PICK m \in Bad : \A n \in Bad : m <= n
  <2>1. Bad \subseteq Nat
    OBVIOUS
  <2> QED BY <1>2, <2>1, LeastNat
<1>4. m # 0
  BY DEF IsRun
<1>5. m - 1 \in 0..NumOps /\ m - 1 \notin Bad
  <2>1. m \in 0..NumOps
    OBVIOUS
  <2>2. m - 1 \in 0..NumOps /\ ~(m <= m - 1)
    BY <2>1, <1>4
  <2> HIDE DEF Bad
  <2> QED BY <2>2, <1>3
<1>6. g[m - 1] = h[m - 1]
  BY <1>5
<1>7. g[m] = h[m]
  BY <1>4, <1>6 DEF IsRun
<1> QED BY <1>7

(* Total is the last running sum.                                          *)
LEMMA TotalIsRun ==
  ASSUME NEW f, NEW g, IsRun(g, f, NumOps)
  PROVE  Total(f) = g[NumOps]
<1>1. Total(f) = (CHOOSE h : IsRun(h, f, NumOps))[NumOps]
  BY DEF Total, IsRun
<1>2. IsRun((CHOOSE h : IsRun(h, f, NumOps)), f, NumOps)
  OBVIOUS
<1> QED BY <1>1, <1>2, RunUnique

LEMMA TotalType ==
  ASSUME NEW f \in [Ops -> Nat]
  PROVE  Total(f) \in Nat
<1>1. PICK g \in [0..NumOps -> Nat] : IsRun(g, f, NumOps)
  BY RunExists
<1> QED BY <1>1, TotalIsRun, NumOpsNat

(* A sum of sums.                                                          *)
LEMMA TotalAdds ==
  ASSUME NEW f \in [Ops -> Nat], NEW h \in [Ops -> Nat]
  PROVE  Total([k \in Ops |-> f[k] + h[k]]) = Total(f) + Total(h)
<1> USE NumOpsNat DEF Ops
<1>1. PICK a \in [0..NumOps -> Nat] : IsRun(a, f, NumOps)
  BY RunExists
<1>2. PICK b \in [0..NumOps -> Nat] : IsRun(b, h, NumOps)
  BY RunExists
<1> DEFINE s == [k \in Ops |-> f[k] + h[k]]
           c == [n \in 0..NumOps |-> a[n] + b[n]]
<1>3. ASSUME NEW n \in 0..NumOps
      PROVE  c[n] = IF n = 0 THEN 0 ELSE c[n - 1] + s[n]
  <2>1. a[n] = IF n = 0 THEN 0 ELSE a[n - 1] + f[n]
    BY <1>1 DEF IsRun
  <2>2. b[n] = IF n = 0 THEN 0 ELSE b[n - 1] + h[n]
    BY <1>2 DEF IsRun
  <2>3. CASE n = 0
    BY <2>1, <2>2, <2>3
  <2>4. CASE n # 0
    <3>1. n - 1 \in 0..NumOps /\ n \in 1..NumOps
      BY <2>4
    <3> QED BY <2>1, <2>2, <2>4, <3>1
  <2> QED BY <2>3, <2>4
<1>4. IsRun(c, s, NumOps)
  BY <1>3 DEF IsRun
<1>5. Total(s) = c[NumOps]
  BY <1>4, TotalIsRun
<1>6. Total(f) = a[NumOps] /\ Total(h) = b[NumOps]
  BY <1>1, <1>2, TotalIsRun
<1> QED BY <1>5, <1>6

(* A function that is zero but at one operation.                           *)
LEMMA TotalOfOne ==
  ASSUME NEW k \in Ops, NEW v \in Nat
  PROVE  Total([j \in Ops |-> IF j = k THEN v ELSE 0]) = v
<1> USE NumOpsNat DEF Ops
<1> DEFINE f == [j \in Ops |-> IF j = k THEN v ELSE 0]
           g == [n \in 0..NumOps |-> IF n < k THEN 0 ELSE v]
<1>1. ASSUME NEW n \in 0..NumOps
      PROVE  g[n] = IF n = 0 THEN 0 ELSE g[n - 1] + f[n]
  <2>1. CASE n = 0
    BY <2>1
  <2>2. CASE n # 0
    <3>1. n - 1 \in 0..NumOps /\ n \in 1..NumOps
      BY <2>2
    <3> QED BY <3>1
  <2> QED BY <2>1, <2>2
<1>2. IsRun(g, f, NumOps)
  BY <1>1 DEF IsRun
<1> QED BY <1>2, TotalIsRun

LEMMA TotalOfNone == Total([k \in Ops |-> 0]) = 0
<1> USE NumOpsNat DEF Ops
<1> DEFINE f == [k \in Ops |-> 0]
           g == [n \in 0..NumOps |-> 0]
<1>1. IsRun(g, f, NumOps)
  <2>1. \A n \in 0..NumOps : g[n] = IF n = 0 THEN 0 ELSE g[n - 1] + f[n]
    OBVIOUS
  <2> QED BY <2>1 DEF IsRun
<1> QED BY <1>1, TotalIsRun

(* Two functions that differ at one operation only.                        *)
LEMMA TotalOfChange ==
  ASSUME NEW f \in [Ops -> Nat], NEW h \in [Ops -> Nat], NEW k \in Ops,
         \A j \in Ops \ {k} : h[j] = f[j]
  PROVE  Total(h) + f[k] = Total(f) + h[k]
<1> DEFINE rest == [j \in Ops |-> IF j = k THEN 0 ELSE f[j]]
           one(v) == [j \in Ops |-> IF j = k THEN v ELSE 0]
<1>1. rest \in [Ops -> Nat] /\ one(f[k]) \in [Ops -> Nat] /\ one(h[k]) \in [Ops -> Nat]
  OBVIOUS
<1>2. f = [j \in Ops |-> rest[j] + one(f[k])[j]]
  OBVIOUS
<1>3. h = [j \in Ops |-> rest[j] + one(h[k])[j]]
  OBVIOUS
<1>4. Total(one(f[k])) = f[k] /\ Total(one(h[k])) = h[k]
  BY TotalOfOne
<1>5. Total(rest) \in Nat
  BY <1>1, TotalType
<1> HIDE DEF rest, one
<1>6. Total(f) = Total(rest) + f[k]
  BY <1>1, <1>2, <1>4, TotalAdds
<1>7. Total(h) = Total(rest) + h[k]
  BY <1>1, <1>3, <1>4, TotalAdds
<1> QED BY <1>5, <1>6, <1>7

-----------------------------------------------------------------------------
(* Types.                                                                  *)

LEMMA ReservationType == \A k \in Ops : Reservation(k) \in Nat
<1> SUFFICES ASSUME NEW k \in Ops PROVE Reservation(k) \in Nat
  OBVIOUS
<1>1. Estimate[k] \in Nat /\ MaxAttempts \in Nat
  BY LedgerConstants
<1>2. \A a, b \in Nat : a * b \in Nat
  OBVIOUS
<1> QED BY <1>1, <1>2 DEF Reservation

LEMMA LimitType == \A k \in Ops : LimitFor(k) \in Nat
BY LedgerConstants DEF LimitFor

LEMMA CircuitType == \A k \in Ops : CircuitOf[k] \in Circuits
BY LedgerConstants

LEMMA BudgetForType ==
  ASSUME TypeOK, NEW k \in Ops
  PROVE  BudgetFor(k) \in BudgetRow
BY LimitType DEF TypeOK, BudgetRow, BudgetFor

LEMMA HalfOpenedType ==
  ASSUME TypeOK, NEW z \in Circuits, NEW cooled
  PROVE  HalfOpened(z, cooled) \in CircuitRow
BY DEF TypeOK, CircuitRow, HalfOpened

LEMMA NoRowType == NoRow \in Row
BY LedgerConstants DEF NoRow, Row, Days

LEMMA RecordedRowType ==
  ASSUME NEW row \in Row, NEW n \in Nat, NEW sum \in Nat
  PROVE  [row EXCEPT !.attempts = n, !.billed = sum] \in Row
BY DEF Row

LEMMA SettledBudgetType ==
  ASSUME NEW b \in BudgetRow, NEW x \in Nat, NEW y \in Nat
  PROVE  [b EXCEPT !.reserved = x, !.committed = y] \in BudgetRow
BY DEF BudgetRow

LEMMA OpenedCircuitType ==
  ASSUME NEW row \in CircuitRow, NEW n \in Nat
  PROVE  [row EXCEPT !.state = "open", !.failures = n] \in CircuitRow
BY DEF CircuitRow

LEMMA ColumnTypes ==
  ASSUME TypeOK, NEW d \in Days, NEW S
  PROVE  /\ Open(d) \in [Ops -> Nat] /\ Spent(d) \in [Ops -> Nat]
         /\ Held(S, d) \in [Ops -> Nat] /\ Charged(S, d) \in [Ops -> Nat]
         /\ \A k \in Ops : RecoveryCharge(k) \in Nat
BY DEF TypeOK, Row, Open, Spent, Held, Charged, RecoveryCharge

LEMMA TypeInit == Init => TypeOK
BY NoRowType, LedgerConstants
   DEF Init, TypeOK, BudgetRow, CircuitRow, Days

LEMMA TypeStep == TypeOK /\ [Next]_ledger => TypeOK'
<1> SUFFICES ASSUME TypeOK, [Next]_ledger PROVE TypeOK'
  OBVIOUS
<1>1. ASSUME NEW k \in Ops, NEW cooled \in BOOLEAN, Grant(k, cooled)
      PROVE  TypeOK'
  <2>1. [NoRow EXCEPT !.status = "reserved", !.reserved = Reservation(k), !.day = today] \in Row
    BY NoRowType, ReservationType DEF TypeOK, Row, NoRow
  <2>2. [BudgetFor(k) EXCEPT !.reserved = @ + Reservation(k)] \in BudgetRow
    BY BudgetForType, ReservationType DEF BudgetRow
  <2>3. \A row \in CircuitRow : [row EXCEPT !.probe = k] \in CircuitRow
    BY DEF CircuitRow
  <2>4. HalfOpened(CircuitOf[k], cooled) \in CircuitRow
    BY HalfOpenedType, CircuitType
  <2> QED BY <1>1, <2>1, <2>2, <2>3, <2>4 DEF Grant, TypeOK
<1>2. ASSUME NEW k \in Ops, NEW cooled \in BOOLEAN, Refuse(k, cooled)
      PROVE  TypeOK'
  <2>1. HalfOpened(CircuitOf[k], cooled) \in CircuitRow /\ BudgetFor(k) \in BudgetRow
    BY HalfOpenedType, BudgetForType, CircuitType
  <2> QED BY <1>2, <2>1 DEF Refuse, TypeOK, ledger
<1>3. ASSUME NEW k \in Ops, MarkDispatch(k)
      PROVE  TypeOK'
  BY <1>3 DEF MarkDispatch, TypeOK, Row
<1>4. ASSUME NEW k \in Ops, Release(k)
      PROVE  TypeOK'
  <2>1. op' \in [Ops -> Row]
    BY <1>4, NoRowType DEF Release, TypeOK
  <2>2. budget' \in [Days -> BudgetRow]
    BY <1>4 DEF Release, TypeOK, Row, BudgetRow
  <2>3. circuit' \in [Circuits -> CircuitRow]
    BY <1>4 DEF Release, TypeOK, CircuitRow, WithoutProbe
  <2> QED BY <1>4, <2>1, <2>2, <2>3 DEF Release, TypeOK
<1>5. ASSUME NEW k \in Ops, NEW n \in 1..MaxAttempts, NEW charge \in Nat,
             RecordAttempt(k, n, charge)
      PROVE  TypeOK'
  <2>1. n \in Nat /\ charge \in Nat
    BY LedgerConstants
  <2>2. op[k] \in Row
    BY DEF TypeOK
  <2>3. [op[k] EXCEPT !.attempts = n, !.billed = @ + charge] \in Row
    <3>1. op[k].billed + charge \in Nat
      BY <2>1, <2>2 DEF Row
    <3> QED BY <2>1, <2>2, <3>1, RecordedRowType
  <2>4. op' = op \/ op' = [op EXCEPT ![k] = [op[k] EXCEPT !.attempts = n, !.billed = @ + charge]]
    BY <1>5 DEF RecordAttempt, TypeOK
  <2>5. op' \in [Ops -> Row]
    BY <2>3, <2>4 DEF TypeOK
  <2> QED BY <1>5, <2>5 DEF RecordAttempt, TypeOK
<1>6. ASSUME NEW k \in Ops, NEW n \in 1..MaxAttempts, NEW charge \in Nat,
             NEW ok \in BOOLEAN, Finish(k, n, charge, ok)
      PROVE  TypeOK'
  <2>1. n \in Nat /\ charge \in Nat
    BY LedgerConstants
  <2>2. CASE ~Reserved(k)
    BY <1>6, <2>2 DEF Finish, TypeOK, ledger
  <2>3. CASE Reserved(k)
    <3>1. op' \in [Ops -> Row]
      BY <1>6, <2>1, <2>3 DEF Finish, FinishRow, TypeOK, Row, Settled
    <3>2. budget' \in [Days -> BudgetRow]
      BY <1>6, <2>1, <2>3 DEF Finish, TypeOK, Row, BudgetRow, Floor
    <3>3. circuit' \in [Circuits -> CircuitRow]
      BY <1>6, <2>3 DEF Finish, TypeOK, CircuitRow, Judged
    <3> QED BY <1>6, <2>3, <3>1, <3>2, <3>3 DEF Finish, TypeOK
  <2> QED BY <2>2, <2>3
<1>7. ASSUME NEW S \in SUBSET Ops, Recover(S)
      PROVE  TypeOK'
  <2>1. op' \in [Ops -> Row]
    <3>1. \A k \in Ops : RecoveredRow(k) \in Row
      <4>1. \A k \in Ops : op[k] \in Row
        BY DEF TypeOK
      <4>2. \A k \in Ops : RecoveryCharge(k) \in Nat
        BY <4>1 DEF RecoveryCharge, Row
      <4> QED BY <4>1, <4>2, NoRowType DEF RecoveredRow, Row, Settled
    <3> QED BY <1>7, <3>1 DEF Recover, TypeOK
  <2>2. budget' \in [Days -> BudgetRow]
    <3>1. ASSUME NEW d \in Days
          PROVE  RecoveredBudget(S, d) \in BudgetRow
      <4>1. Total(Held(S, d)) \in Nat /\ Total(Charged(Sent(S), d)) \in Nat
        BY ColumnTypes, TotalType
      <4>2. budget[d] \in BudgetRow
        BY DEF TypeOK
      <4>3. ASSUME NEW b \in BudgetRow, NEW x \in Nat, NEW y \in Nat
            PROVE  [b EXCEPT !.reserved = Floor(@ - x), !.committed = @ + y] \in BudgetRow
        <5>1. Floor(b.reserved - x) \in Nat /\ b.committed + y \in Nat
          BY DEF BudgetRow, Floor
        <5> QED BY <5>1, SettledBudgetType
      <4> QED BY <4>1, <4>2, <4>3 DEF RecoveredBudget
    <3> QED BY <1>7, <3>1 DEF Recover
  <2>3. circuit' \in [Circuits -> CircuitRow]
    <3>1. ASSUME NEW z \in Circuits
          PROVE  RecoveredCircuit(S, z) \in CircuitRow
      <4>1. Cardinality({k \in Sent(S) : CircuitOf[k] = z}) \in Nat
        <5>1. IsFiniteSet(Ops)
          BY NumOpsNat, FS_Interval DEF Ops
        <5>2. {k \in Sent(S) : CircuitOf[k] = z} \subseteq Ops
          BY DEF Sent
        <5> QED BY <5>1, <5>2, FS_Subset, FS_CardinalityType
      <4>2. circuit[z] \in CircuitRow
        BY DEF TypeOK
      <4>3. ASSUME NEW row \in CircuitRow, NEW n \in Nat
            PROVE  /\ [row EXCEPT !.probe = NoOp] \in CircuitRow
                   /\ [row EXCEPT !.state = "open", !.failures = @ + n] \in CircuitRow
        <5>1. row.failures + n \in Nat
          BY DEF CircuitRow
        <5> QED BY <5>1, OpenedCircuitType DEF CircuitRow
      <4>4. (IF circuit[z].probe \in S THEN [circuit[z] EXCEPT !.probe = NoOp] ELSE circuit[z])
              \in CircuitRow
        BY <4>2, <4>3
      <4> QED BY <4>1, <4>3, <4>4 DEF RecoveredCircuit
    <3> QED BY <1>7, <3>1 DEF Recover
  <2> QED BY <1>7, <2>1, <2>2, <2>3 DEF Recover, TypeOK
<1>8. ASSUME NextDay
      PROVE  TypeOK'
  BY <1>8, LedgerConstants DEF NextDay, TypeOK, Days
<1>9. CASE UNCHANGED ledger
  BY <1>9 DEF ledger, TypeOK
<1> QED BY <1>1, <1>2, <1>3, <1>4, <1>5, <1>6, <1>7, <1>8, <1>9 DEF Next

(* Every row keeps its columns' types, and no amount turns negative, for   *)
(* any interleaving of the repository's transactions.                      *)
THEOREM LedgerTypes == Spec => []TypeOK
BY TypeInit, TypeStep, PTL DEF Spec

-----------------------------------------------------------------------------
(* The budget columns.                                                     *)

AddUp == ReservationsAddUp /\ CommitmentsAddUp

LEMMA ColumnTypesNext ==
  ASSUME TypeOK', NEW d \in Days
  PROVE  Open(d)' \in [Ops -> Nat] /\ Spent(d)' \in [Ops -> Nat]
BY DEF TypeOK, Row, Open, Spent, Reserved

(* A step that changes one row changes a day's sums by what it changes of  *)
(* that row.                                                               *)
LEMMA OneRowChanges ==
  ASSUME TypeOK, TypeOK', NEW k \in Ops, \A j \in Ops \ {k} : op'[j] = op[j],
         NEW d \in Days
  PROVE  /\ Total(Open(d)') + Open(d)[k] = Total(Open(d)) + Open(d)'[k]
         /\ Total(Spent(d)') + Spent(d)[k] = Total(Spent(d)) + Spent(d)'[k]
<1>1. /\ \A j \in Ops \ {k} : Open(d)'[j] = Open(d)[j]
      /\ \A j \in Ops \ {k} : Spent(d)'[j] = Spent(d)[j]
  BY DEF Open, Spent, Reserved
<1>2. /\ Open(d) \in [Ops -> Nat] /\ Open(d)' \in [Ops -> Nat]
      /\ Spent(d) \in [Ops -> Nat] /\ Spent(d)' \in [Ops -> Nat]
  BY ColumnTypes, ColumnTypesNext
<1> QED BY <1>1, <1>2, TotalOfChange

(* A step that keeps the rows' status, day, reservation and charge.        *)
LEMMA NoAmountChanges ==
  ASSUME \A j \in Ops : /\ op'[j].status = op[j].status /\ op'[j].day = op[j].day
                         /\ op'[j].reserved = op[j].reserved
                         /\ op'[j].charged = op[j].charged,
         UNCHANGED budget, AddUp
  PROVE  AddUp'
<1>1. \A d \in Days : Open(d)' = Open(d) /\ Spent(d)' = Spent(d)
  BY DEF Open, Spent, Reserved
<1>2. ASSUME NEW d \in Days
      PROVE  /\ budget'[d].reserved = Total(Open(d)')
             /\ budget'[d].committed = Total(Spent(d)')
  BY <1>1 DEF AddUp, ReservationsAddUp, CommitmentsAddUp
<1> QED BY <1>2 DEF AddUp, ReservationsAddUp, CommitmentsAddUp

LEMMA AddUpInit == Init => AddUp
<1> SUFFICES ASSUME Init, NEW d \in Days
             PROVE  budget[d].reserved = Total(Open(d)) /\ budget[d].committed = Total(Spent(d))
  BY DEF AddUp, ReservationsAddUp, CommitmentsAddUp
<1>1. Open(d) = [k \in Ops |-> 0] /\ Spent(d) = [k \in Ops |-> 0]
  BY DEF Init, Open, Spent, NoRow, Reserved, Settled
<1> QED BY <1>1, TotalOfNone DEF Init

LEMMA AddUpStep == TypeOK /\ TypeOK' /\ AddUp /\ [Next]_ledger => AddUp'
<1> SUFFICES ASSUME TypeOK, TypeOK', AddUp, [Next]_ledger PROVE AddUp'
  OBVIOUS
<1>a. \A d \in Days : /\ budget[d].reserved = Total(Open(d)) /\ budget[d].reserved \in Nat
                       /\ budget[d].committed = Total(Spent(d)) /\ budget[d].committed \in Nat
  BY DEF AddUp, ReservationsAddUp, CommitmentsAddUp, TypeOK, BudgetRow
<1>b. \A d \in Days : Total(Open(d)') \in Nat /\ Total(Spent(d)') \in Nat
  BY ColumnTypesNext, TotalType
<1>c. SUFFICES
        \/ \A d \in Days : /\ budget'[d].reserved = Total(Open(d)')
                            /\ budget'[d].committed = Total(Spent(d)')
        \/ AddUp'
  BY DEF AddUp, ReservationsAddUp, CommitmentsAddUp
<1>1. ASSUME NEW k \in Ops, NEW cooled \in BOOLEAN, Grant(k, cooled), NEW d \in Days
      PROVE  /\ budget'[d].reserved = Total(Open(d)')
             /\ budget'[d].committed = Total(Spent(d)')
  <2>1. Open(d)[k] = 0 /\ Spent(d)[k] = 0
    BY <1>1 DEF Grant, Free, Open, Spent, Reserved, Settled
  <2>2. op'[k].status = "reserved" /\ op'[k].day = today /\ op'[k].reserved = Reservation(k)
    BY <1>1 DEF Grant, TypeOK, NoRow
  <2>3. Open(d)'[k] = (IF d = today THEN Reservation(k) ELSE 0) /\ Spent(d)'[k] = 0
    BY <2>2 DEF Open, Spent, Reserved, Settled
  <2>4. \A j \in Ops \ {k} : op'[j] = op[j]
    BY <1>1 DEF Grant, TypeOK
  <2>5. /\ budget'[d].committed = budget[d].committed
        /\ budget'[d].reserved = budget[d].reserved + (IF d = today THEN Reservation(k) ELSE 0)
    BY <1>1, <1>a, ReservationType DEF Grant, TypeOK, BudgetFor, BudgetRow
  <2>6. /\ Total(Open(d)') + 0 = Total(Open(d)) + (IF d = today THEN Reservation(k) ELSE 0)
        /\ Total(Spent(d)') + 0 = Total(Spent(d)) + 0
    BY <2>1, <2>3, <2>4, OneRowChanges
  <2>7. Reservation(k) \in Nat
    BY ReservationType
  <2> QED BY <1>a, <1>b, <2>5, <2>6, <2>7
<1>2. ASSUME NEW k \in Ops, NEW cooled \in BOOLEAN, Refuse(k, cooled)
      PROVE  AddUp'
  <2>1. op' = op
    BY <1>2 DEF Refuse, ledger
  <2>2. ASSUME NEW d \in Days
        PROVE  /\ budget'[d].reserved = budget[d].reserved
               /\ budget'[d].committed = budget[d].committed
    BY <1>2 DEF Refuse, ledger, TypeOK, BudgetFor, BudgetRow
  <2>3. \A d \in Days : Open(d)' = Open(d) /\ Spent(d)' = Spent(d)
    BY <2>1 DEF Open, Spent, Reserved
  <2>4. ASSUME NEW d \in Days
        PROVE  /\ budget'[d].reserved = Total(Open(d)')
               /\ budget'[d].committed = Total(Spent(d)')
    BY <1>a, <2>2, <2>3
  <2> QED BY <2>4 DEF AddUp, ReservationsAddUp, CommitmentsAddUp
<1>3. ASSUME NEW k \in Ops, MarkDispatch(k)
      PROVE  AddUp'
  BY <1>3, NoAmountChanges DEF MarkDispatch, TypeOK, Row
<1>4. ASSUME NEW k \in Ops, Release(k), NEW d \in Days
      PROVE  /\ budget'[d].reserved = Total(Open(d)')
             /\ budget'[d].committed = Total(Spent(d)')
  <2>1. Open(d)[k] = (IF d = op[k].day THEN op[k].reserved ELSE 0) /\ Spent(d)[k] = 0
    BY <1>4 DEF Release, Virgin, Open, Spent, Reserved, Settled
  <2>2. Open(d)'[k] = 0 /\ Spent(d)'[k] = 0
    BY <1>4 DEF Release, TypeOK, NoRow, Open, Spent, Reserved, Settled
  <2>3. \A j \in Ops \ {k} : op'[j] = op[j]
    BY <1>4 DEF Release, TypeOK
  <2>4. op[k].reserved \in Nat
    BY DEF TypeOK, Row
  <2>5. /\ budget'[d].committed = budget[d].committed
        /\ budget'[d].reserved = budget[d].reserved - (IF d = op[k].day THEN op[k].reserved ELSE 0)
    BY <1>4, <1>a, <2>4 DEF Release, TypeOK, BudgetRow
  <2>6. /\ Total(Open(d)') + (IF d = op[k].day THEN op[k].reserved ELSE 0) = Total(Open(d)) + 0
        /\ Total(Spent(d)') + 0 = Total(Spent(d)) + 0
    BY <2>1, <2>2, <2>3, OneRowChanges
  <2> QED BY <1>a, <1>b, <2>4, <2>5, <2>6
<1>5. ASSUME NEW k \in Ops, NEW n \in 1..MaxAttempts, NEW charge \in Nat,
             RecordAttempt(k, n, charge)
      PROVE  AddUp'
  BY <1>5, NoAmountChanges DEF RecordAttempt, TypeOK, Row
<1>6. ASSUME NEW k \in Ops, NEW n \in 1..MaxAttempts, NEW charge \in Nat,
             NEW ok \in BOOLEAN, Finish(k, n, charge, ok), Reserved(k), NEW d \in Days
      PROVE  /\ budget'[d].reserved = Total(Open(d)')
             /\ budget'[d].committed = Total(Spent(d)')
  <2> DEFINE held == IF d = op[k].day THEN op[k].reserved ELSE 0
             paid == IF d = op[k].day THEN charge ELSE 0
  <2>1. Open(d)[k] = held /\ Spent(d)[k] = 0
    BY <1>6 DEF Open, Spent, Reserved, Settled
  <2>2. /\ op'[k].status \in {"succeeded", "failed"}
        /\ op'[k].charged = charge /\ op'[k].day = op[k].day
        /\ \A j \in Ops \ {k} : op'[j] = op[j]
    BY <1>6 DEF Finish, FinishRow, TypeOK, Row
  <2>3. Open(d)'[k] = 0 /\ Spent(d)'[k] = paid
    BY <2>2 DEF Open, Spent, Reserved, Settled
  <2>4. held \in Nat /\ paid \in Nat
    BY LedgerConstants DEF TypeOK, Row
  <2>5. /\ Total(Open(d)') + held = Total(Open(d)) + 0
        /\ Total(Spent(d)') + 0 = Total(Spent(d)) + paid
    BY <2>1, <2>2, <2>3, OneRowChanges
  <2>6. d # op[k].day => budget'[d] = budget[d]
    BY <1>6 DEF Finish, TypeOK
  <2>7. d = op[k].day => /\ budget'[d].reserved = Floor(budget[d].reserved - op[k].reserved)
                         /\ budget'[d].committed = budget[d].committed + charge
    BY <1>6 DEF Finish, TypeOK, BudgetRow
  <2>8. d = op[k].day => held = op[k].reserved /\ paid = charge
    OBVIOUS
  <2>9. d # op[k].day => held = 0 /\ paid = 0
    OBVIOUS
  <2> HIDE DEF held, paid
  <2>10. Floor(budget[d].reserved - held) = budget[d].reserved - held
    BY <1>a, <1>b, <2>4, <2>5 DEF Floor
  <2> QED BY <1>a, <1>b, <2>4, <2>5, <2>6, <2>7, <2>8, <2>9, <2>10
<1>7. ASSUME NEW S \in SUBSET Ops, Recover(S), NEW d \in Days
      PROVE  /\ budget'[d].reserved = Total(Open(d)')
             /\ budget'[d].committed = Total(Spent(d)')
  <2>1. Held(S, d) \in [Ops -> Nat] /\ Charged(Sent(S), d) \in [Ops -> Nat]
        /\ Open(d) \in [Ops -> Nat] /\ Spent(d) \in [Ops -> Nat]
        /\ Open(d)' \in [Ops -> Nat] /\ Spent(d)' \in [Ops -> Nat]
    BY ColumnTypes, ColumnTypesNext
  <2>2. \A k \in Ops : Open(d)[k] = Open(d)'[k] + Held(S, d)[k]
    <3> SUFFICES ASSUME NEW k \in Ops PROVE Open(d)[k] = Open(d)'[k] + Held(S, d)[k]
      OBVIOUS
    <3>1. op[k].reserved \in Nat
      BY DEF TypeOK, Row
    <3>2. CASE k \in S
      <4>1. Reserved(k) /\ op'[k] = RecoveredRow(k)
        BY <1>7, <3>2 DEF Recover
      <4>2. op'[k].status \in {"none", "recovered"}
        BY <4>1 DEF RecoveredRow, NoRow, TypeOK, Row
      <4> QED BY <3>1, <3>2, <4>1, <4>2 DEF Open, Held, Reserved
    <3>3. CASE k \notin S
      <4>1. op'[k] = op[k]
        BY <1>7, <3>3 DEF Recover
      <4> QED BY <3>1, <3>3, <4>1 DEF Open, Held, Reserved
    <3> QED BY <3>2, <3>3
  <2>3. \A k \in Ops : Spent(d)'[k] = Spent(d)[k] + Charged(Sent(S), d)[k]
    <3> SUFFICES ASSUME NEW k \in Ops
                 PROVE  Spent(d)'[k] = Spent(d)[k] + Charged(Sent(S), d)[k]
      OBVIOUS
    <3>1. Spent(d)[k] \in Nat /\ RecoveryCharge(k) \in Nat
      BY <2>1, ColumnTypes
    <3>2. CASE k \in Sent(S)
      <4>1. /\ Reserved(k)
            /\ op'[k] = [op[k] EXCEPT !.status = "recovered", !.charged = RecoveryCharge(k)]
        BY <1>7, <3>2 DEF Recover, RecoveredRow, Sent
      <4>2. /\ op'[k].status = "recovered" /\ op'[k].day = op[k].day
            /\ op'[k].charged = RecoveryCharge(k)
        BY <4>1 DEF TypeOK, Row
      <4>3. Spent(d)[k] = 0
        BY <4>1 DEF Spent, Reserved, Settled
      <4>4. Spent(d)'[k] = IF op[k].day = d THEN RecoveryCharge(k) ELSE 0
        BY <4>2 DEF Spent, Settled
      <4> QED BY <3>1, <3>2, <4>3, <4>4 DEF Charged
    <3>3. CASE k \in S \ Sent(S)
      <4>1. Reserved(k) /\ op'[k].status = "none"
        BY <1>7, <3>3 DEF Recover, RecoveredRow, Sent, NoRow
      <4> QED BY <3>3, <4>1 DEF Spent, Charged, Reserved, Settled
    <3>4. CASE k \notin S
      <4>1. op'[k] = op[k] /\ k \notin Sent(S)
        BY <1>7, <3>4 DEF Recover, Sent
      <4> QED BY <3>1, <4>1 DEF Spent, Charged
    <3> QED BY <3>2, <3>3, <3>4 DEF Sent
  <2>4. Open(d) = [k \in Ops |-> Open(d)'[k] + Held(S, d)[k]]
    BY <2>1, <2>2
  <2>5. Spent(d)' = [k \in Ops |-> Spent(d)[k] + Charged(Sent(S), d)[k]]
    BY <2>1, <2>3
  <2>6. Total(Open(d)) = Total(Open(d)') + Total(Held(S, d))
    BY <2>1, <2>4, TotalAdds
  <2>7. Total(Spent(d)') = Total(Spent(d)) + Total(Charged(Sent(S), d))
    BY <2>1, <2>5, TotalAdds
  <2>8. Total(Held(S, d)) \in Nat /\ Total(Charged(Sent(S), d)) \in Nat
    BY <2>1, TotalType
  <2>9. /\ budget'[d].reserved = Floor(budget[d].reserved - Total(Held(S, d)))
        /\ budget'[d].committed = budget[d].committed + Total(Charged(Sent(S), d))
    BY <1>7 DEF Recover, RecoveredBudget, TypeOK, BudgetRow
  <2>10. Floor(budget[d].reserved - Total(Held(S, d))) = Total(Open(d)')
    BY <1>a, <1>b, <2>6, <2>8 DEF Floor
  <2> QED BY <1>a, <2>7, <2>9, <2>10
<1>8. ASSUME NextDay \/ UNCHANGED ledger
      PROVE  AddUp'
  BY <1>8, NoAmountChanges DEF NextDay, ledger
<1>9. ASSUME NEW k \in Ops, NEW n \in 1..MaxAttempts, NEW charge \in Nat,
             NEW ok \in BOOLEAN, Finish(k, n, charge, ok), ~Reserved(k)
      PROVE  AddUp'
  BY <1>9, NoAmountChanges DEF Finish, ledger
<1> QED BY <1>1, <1>2, <1>3, <1>4, <1>5, <1>6, <1>7, <1>8, <1>9 DEF Next

(* reserved_vnd is the sum of the open reservations of its day, for any    *)
(* number of operations recovered at once.                                 *)
THEOREM ReservationsSum == Spec => []ReservationsAddUp
<1>1. AddUp => ReservationsAddUp
  BY DEF AddUp
<1> QED BY <1>1, LedgerTypes, AddUpInit, AddUpStep, PTL DEF Spec

(* committed_vnd is the sum of what the settled operations were charged.   *)
THEOREM CommitmentsSum == Spec => []CommitmentsAddUp
<1>1. AddUp => CommitmentsAddUp
  BY DEF AddUp
<1> QED BY <1>1, LedgerTypes, AddUpInit, AddUpStep, PTL DEF Spec

(* Both sums together: what a run checks as one property.                  *)
THEOREM BooksSum == Spec => []BooksAddUp
BY ReservationsSum, CommitmentsSum, PTL DEF BooksAddUp

-----------------------------------------------------------------------------
(* The circuits' probes.                                                   *)

(* A circuit's probe after a step is NoOp, the probe it had, whose row the *)
(* step left alone, or an operation of the circuit that is now reserved.   *)
LEMMA ProbeKept ==
  ASSUME TypeOK, ProbesAreOpen,
         \A z \in Circuits :
            \/ circuit'[z].probe = NoOp
            \/ /\ circuit'[z].probe = circuit[z].probe
               /\ circuit[z].probe \in Ops /\ Reserved(circuit[z].probe) =>
                    op'[circuit[z].probe].status = "reserved"
            \/ /\ op'[circuit'[z].probe].status = "reserved"
               /\ CircuitOf[circuit'[z].probe] = z
  PROVE  ProbesAreOpen'
<1> SUFFICES ASSUME NEW z \in Circuits, circuit'[z].probe # NoOp
             PROVE  /\ op'[circuit'[z].probe].status = "reserved"
                    /\ CircuitOf[circuit'[z].probe] = z
  BY DEF ProbesAreOpen, Reserved
<1>1. circuit[z].probe \in Ops \cup {NoOp}
  BY DEF TypeOK, CircuitRow
<1>2. circuit[z].probe # NoOp => Reserved(circuit[z].probe) /\ CircuitOf[circuit[z].probe] = z
  BY DEF ProbesAreOpen
<1> QED BY <1>1, <1>2

LEMMA ProbesInit == Init => ProbesAreOpen
BY DEF Init, ProbesAreOpen

LEMMA ProbesStep == TypeOK /\ ProbesAreOpen /\ [Next]_ledger => ProbesAreOpen'
<1> SUFFICES ASSUME TypeOK, ProbesAreOpen, [Next]_ledger PROVE ProbesAreOpen'
  OBVIOUS
<1> USE DEF Reserved
<1>1. ASSUME NEW k \in Ops, NEW cooled \in BOOLEAN, Grant(k, cooled)
      PROVE  ProbesAreOpen'
  <2>1. op[k].status = "none" /\ op'[k].status = "reserved"
    BY <1>1 DEF Grant, Free, TypeOK, NoRow
  <2>2. \A j \in Ops \ {k} : op'[j] = op[j]
    BY <1>1 DEF Grant, TypeOK
  <2> DEFINE row == HalfOpened(CircuitOf[k], cooled)
  <2>3. circuit'[CircuitOf[k]] = IF row.state = "half_open" THEN [row EXCEPT !.probe = k] ELSE row
    BY <1>1, CircuitType DEF Grant, TypeOK
  <2>4. row \in CircuitRow
    BY HalfOpenedType, CircuitType
  <2>5. row.probe \in {NoOp, circuit[CircuitOf[k]].probe}
    BY CircuitType DEF HalfOpened, TypeOK, CircuitRow
  <2> HIDE DEF row
  <2>6. circuit'[CircuitOf[k]].probe \in {k, NoOp, circuit[CircuitOf[k]].probe}
    BY <2>3, <2>4, <2>5 DEF CircuitRow
  <2>7. \A z \in Circuits \ {CircuitOf[k]} : circuit'[z] = circuit[z]
    BY <1>1 DEF Grant, TypeOK
  <2>8. ASSUME NEW z \in Circuits
        PROVE  \/ circuit'[z].probe \in {NoOp, circuit[z].probe}
               \/ circuit'[z].probe = k /\ CircuitOf[k] = z
    BY <2>6, <2>7
  <2>9. \A j \in Ops : Reserved(j) => op'[j].status = "reserved"
    BY <2>1, <2>2
  <2> QED BY <2>1, <2>8, <2>9, ProbeKept
<1>2. ASSUME NEW k \in Ops, NEW cooled \in BOOLEAN, Refuse(k, cooled)
      PROVE  ProbesAreOpen'
  <2>1. op' = op
    BY <1>2 DEF Refuse, ledger
  <2>2. \A z \in Circuits : HalfOpened(z, cooled).probe \in {NoOp, circuit[z].probe}
    BY DEF HalfOpened, TypeOK, CircuitRow
  <2>3. circuit' = circuit
          \/ circuit' = [circuit EXCEPT ![CircuitOf[k]] = HalfOpened(CircuitOf[k], cooled)]
    BY <1>2 DEF Refuse, ledger
  <2>4. \A z \in Circuits : circuit'[z].probe \in {NoOp, circuit[z].probe}
    BY <2>2, <2>3, CircuitType DEF TypeOK
  <2> QED BY <2>1, <2>4, ProbeKept
<1>3. ASSUME NEW k \in Ops, MarkDispatch(k)
      PROVE  ProbesAreOpen'
  <2>1. \A j \in Ops : op'[j].status = op[j].status
    BY <1>3 DEF MarkDispatch, TypeOK, Row
  <2> QED BY <1>3, <2>1, ProbeKept DEF MarkDispatch
<1>4. ASSUME NEW k \in Ops, Release(k)
      PROVE  ProbesAreOpen'
  <2>1. \A j \in Ops \ {k} : op'[j] = op[j]
    BY <1>4 DEF Release, TypeOK
  <2>2. circuit'[CircuitOf[k]] = WithoutProbe(circuit[CircuitOf[k]], k)
    BY <1>4, CircuitType DEF Release, TypeOK
  <2>3. \A z \in Circuits \ {CircuitOf[k]} : circuit'[z] = circuit[z]
    BY <1>4 DEF Release, TypeOK
  <2>4. \A z \in Circuits :
           \/ circuit'[z].probe = NoOp
           \/ circuit'[z].probe = circuit[z].probe /\ circuit[z].probe # k
    <3>1. SUFFICES ASSUME NEW z \in Circuits
                   PROVE  \/ circuit'[z].probe = NoOp
                          \/ circuit'[z].probe = circuit[z].probe /\ circuit[z].probe # k
      OBVIOUS
    <3>2. CASE z = CircuitOf[k]
      BY <2>2, <3>2 DEF WithoutProbe, TypeOK, CircuitRow
    <3>3. CASE z # CircuitOf[k]
      <4>1. circuit'[z] = circuit[z]
        BY <2>3, <3>3
      <4>2. circuit[z].probe # NoOp => CircuitOf[circuit[z].probe] = z
        BY DEF ProbesAreOpen
      <4> QED BY <3>3, <4>1, <4>2
    <3> QED BY <3>2, <3>3
  <2> QED BY <2>1, <2>4, ProbeKept
<1>5. ASSUME NEW k \in Ops, NEW n \in 1..MaxAttempts, NEW charge \in Nat,
             RecordAttempt(k, n, charge)
      PROVE  ProbesAreOpen'
  <2>1. \A j \in Ops : op'[j].status = op[j].status
    BY <1>5 DEF RecordAttempt, TypeOK, Row
  <2>2. \A z \in Circuits : circuit[z].probe \in Ops \cup {NoOp}
    BY DEF TypeOK, CircuitRow
  <2> QED BY <1>5, <2>1, <2>2, ProbeKept DEF RecordAttempt
<1>6. ASSUME NEW k \in Ops, NEW n \in 1..MaxAttempts, NEW charge \in Nat,
             NEW ok \in BOOLEAN, Finish(k, n, charge, ok)
      PROVE  ProbesAreOpen'
  <2>1. CASE ~Reserved(k)
    BY <1>6, <2>1, ProbeKept DEF Finish, ledger
  <2>2. CASE Reserved(k)
    <3>1. \A j \in Ops \ {k} : op'[j] = op[j]
      BY <1>6, <2>2 DEF Finish, FinishRow, TypeOK
    <3>2. circuit'[CircuitOf[k]].probe = NoOp
      BY <1>6, <2>2, CircuitType DEF Finish, Judged, TypeOK
    <3>3. \A z \in Circuits \ {CircuitOf[k]} : circuit'[z] = circuit[z]
      BY <1>6, <2>2 DEF Finish, TypeOK
    <3>4. \A z \in Circuits \ {CircuitOf[k]} : circuit[z].probe # NoOp => circuit[z].probe # k
      BY DEF ProbesAreOpen
    <3> QED BY <3>1, <3>2, <3>3, <3>4, ProbeKept
  <2> QED BY <2>1, <2>2
<1>7. ASSUME NEW S \in SUBSET Ops, Recover(S)
      PROVE  ProbesAreOpen'
  <2>1. \A j \in Ops \ S : op'[j] = op[j]
    BY <1>7 DEF Recover
  <2>2. ASSUME NEW z \in Circuits
        PROVE  \/ circuit'[z].probe = NoOp
               \/ circuit'[z].probe = circuit[z].probe /\ circuit[z].probe \notin S
    <3>1. circuit'[z] = RecoveredCircuit(S, z)
      BY <1>7 DEF Recover
    <3>2. circuit[z] \in CircuitRow
      BY DEF TypeOK
    <3> DEFINE row == IF circuit[z].probe \in S THEN [circuit[z] EXCEPT !.probe = NoOp]
                      ELSE circuit[z]
    <3>3. row \in CircuitRow
      BY <3>2 DEF CircuitRow
    <3>4. row.probe = IF circuit[z].probe \in S THEN NoOp ELSE circuit[z].probe
      BY <3>2 DEF CircuitRow
    <3>5. \A n : [row EXCEPT !.state = "open", !.failures = n].probe = row.probe
      BY <3>3 DEF CircuitRow
    <3>6. circuit'[z].probe = row.probe
      BY <3>1, <3>5 DEF RecoveredCircuit
    <3> QED BY <3>4, <3>6
  <2>3. \A z \in Circuits : circuit[z].probe \in Ops \cup {NoOp}
    BY DEF TypeOK, CircuitRow
  <2> QED BY <2>1, <2>2, <2>3, ProbeKept
<1>8. ASSUME NextDay \/ UNCHANGED ledger
      PROVE  ProbesAreOpen'
  BY <1>8, ProbeKept DEF NextDay, ledger
<1> QED BY <1>1, <1>2, <1>3, <1>4, <1>5, <1>6, <1>7, <1>8 DEF Next

(* The probe of a circuit is an open reservation of that circuit: no       *)
(* settled or released operation keeps a half-open circuit busy.           *)
THEOREM ProbesOpen == Spec => []ProbesAreOpen
BY LedgerTypes, ProbesInit, ProbesStep, PTL DEF Spec

-----------------------------------------------------------------------------
(* Settled and sent operations.                                            *)

\* What a step may not do to row k.
RowStays(k) ==
    /\ op[k].status \in Settled =>
         op'[k].status = op[k].status /\ op'[k].charged = op[k].charged
    /\ op[k].started => op'[k].started /\ op'[k].status # "none"
    /\ op'[k].started => op'[k].status # "none"

\* No row, nothing sent: a grant starts from nothing.
MarkedRows == \A k \in Ops : op[k].started => op[k].status # "none"

LEMMA MarkedInit == Init => MarkedRows
BY DEF Init, MarkedRows, NoRow

LEMMA RowsStay == TypeOK /\ MarkedRows /\ [Next]_ledger => \A k \in Ops : RowStays(k)
<1> SUFFICES ASSUME TypeOK, MarkedRows, [Next]_ledger, NEW k \in Ops PROVE RowStays(k)
  OBVIOUS
<1>a. op'[k] = op[k] => RowStays(k)
  BY DEF RowStays, MarkedRows
<1>1. ASSUME NEW j \in Ops, NEW cooled \in BOOLEAN, Grant(j, cooled)
      PROVE  RowStays(k)
  <2>1. j # k => op'[k] = op[k]
    BY <1>1 DEF Grant, TypeOK
  <2>2. op[j].status = "none"
    BY <1>1 DEF Grant, Free
  <2>3. op'[j].status = "reserved"
    BY <1>1 DEF Grant, TypeOK, NoRow
  <2> QED BY <1>a, <2>1, <2>2, <2>3 DEF RowStays, MarkedRows, Settled
<1>2. ASSUME NEW j \in Ops, NEW cooled \in BOOLEAN, Refuse(j, cooled)
      PROVE  RowStays(k)
  BY <1>2, <1>a DEF Refuse, ledger
<1>3. ASSUME NEW j \in Ops, MarkDispatch(j)
      PROVE  RowStays(k)
  BY <1>3, <1>a DEF MarkDispatch, Virgin, Reserved, RowStays, TypeOK, Row, Settled
<1>4. ASSUME NEW j \in Ops, Release(j)
      PROVE  RowStays(k)
  BY <1>4, <1>a DEF Release, Virgin, Reserved, RowStays, TypeOK, Settled, NoRow
<1>5. ASSUME NEW j \in Ops, NEW n \in 1..MaxAttempts, NEW charge \in Nat,
             RecordAttempt(j, n, charge)
      PROVE  RowStays(k)
  <2>1. /\ op'[k].status = op[k].status /\ op'[k].charged = op[k].charged
        /\ op'[k].started = op[k].started
    BY <1>5 DEF RecordAttempt, TypeOK, Row
  <2> QED BY <2>1 DEF RowStays, MarkedRows
<1>6. ASSUME NEW j \in Ops, NEW n \in 1..MaxAttempts, NEW charge \in Nat,
             NEW ok \in BOOLEAN, Finish(j, n, charge, ok)
      PROVE  RowStays(k)
  <2>1. CASE ~Reserved(j)
    BY <1>6, <1>a, <2>1 DEF Finish, ledger
  <2>2. CASE Reserved(j)
    <3>1. j # k => op'[k] = op[k]
      BY <1>6, <2>2 DEF Finish, FinishRow, TypeOK
    <3>2. op'[j].started = op[j].started /\ op'[j].status # "none"
      BY <1>6, <2>2 DEF Finish, FinishRow, TypeOK, Row
    <3> QED BY <1>a, <2>2, <3>1, <3>2 DEF RowStays, Reserved, Settled
  <2> QED BY <2>1, <2>2
<1>7. ASSUME NEW S \in SUBSET Ops, Recover(S)
      PROVE  RowStays(k)
  <2>1. CASE k \notin S
    BY <1>7, <1>a, <2>1 DEF Recover
  <2>2. CASE k \in S
    <3>1. Reserved(k) /\ op'[k] = RecoveredRow(k)
      BY <1>7, <2>2 DEF Recover
    <3>2. CASE Unsent(k)
      BY <3>1, <3>2 DEF RecoveredRow, Unsent, NoRow, RowStays, Reserved, Settled
    <3>3. CASE ~Unsent(k)
      <4>1. op[k] \in Row
        BY DEF TypeOK
      <4>2. op'[k] = [op[k] EXCEPT !.status = "recovered", !.charged = RecoveryCharge(k)]
        BY <3>1, <3>3 DEF RecoveredRow
      <4>3. op'[k].started = op[k].started /\ op'[k].status = "recovered"
        BY <4>1, <4>2 DEF Row
      <4> QED BY <3>1, <4>3 DEF RowStays, Reserved, Settled
    <3> QED BY <3>2, <3>3
  <2> QED BY <2>1, <2>2
<1>8. ASSUME NextDay \/ UNCHANGED ledger
      PROVE  RowStays(k)
  BY <1>8, <1>a DEF NextDay, ledger
<1> QED BY <1>1, <1>2, <1>3, <1>4, <1>5, <1>6, <1>7, <1>8 DEF Next

LEMMA MarkedStep == TypeOK /\ MarkedRows /\ [Next]_ledger => MarkedRows'
<1> SUFFICES ASSUME TypeOK, MarkedRows, [Next]_ledger PROVE MarkedRows'
  OBVIOUS
<1> QED BY RowsStay DEF RowStays, MarkedRows

(* No completion or recovery changes an outcome or a charge, and no row    *)
(* that may have been sent disappears.                                     *)
THEOREM OutcomesKept == Spec => OutcomesStay
<1> DEFINE Kept == \A k \in Ops :
         /\ op[k].status \in Settled =>
              op'[k].status = op[k].status /\ op'[k].charged = op[k].charged
         /\ op[k].started => op'[k].started /\ op'[k].status # "none"
<1>1. TypeOK /\ MarkedRows /\ [Next]_ledger => Kept
  <2> SUFFICES ASSUME TypeOK, MarkedRows, [Next]_ledger PROVE Kept
    OBVIOUS
  <2>1. \A k \in Ops : RowStays(k)
    BY RowsStay
  <2> QED BY <2>1 DEF RowStays
<1>2. Spec => [][Kept]_ledger
  BY <1>1, LedgerTypes, MarkedInit, MarkedStep, PTL DEF Spec
<1> QED BY <1>2 DEF OutcomesStay

-----------------------------------------------------------------------------
(* The calls.                                                              *)

RunnerPoints == {"armed", "marked", "inspecting", "releasing", "refinishing"}
Points == {"idle", "calling", "recording", "finishing", "done"} \cup RunnerPoints

Results == {"ok", "fail", "retry"}

CallRow == [pc : Points, key : Ops \cup {NoOp}, attempt : 1..MaxAttempts,
            charge : Nat, charged : Nat, result : Results]

\* What a call remembers: a caller that runs has a key of its protocol, no
\* attempt costs more than the estimate, and a retry is one that is allowed.
CallFits(row) ==
    /\ row.pc \notin {"idle", "done"} => row.key \in Ops
    /\ row.pc \in RunnerPoints => row.key \in SingleDispatch
    /\ row.pc = "calling" => row.key \notin SingleDispatch
    /\ row.key \notin SingleDispatch =>
         (row.pc = "recording" /\ row.result = "retry" => row.attempt < MaxAttempts)
    /\ row.key \in Ops => row.charge <= Estimate[row.key]
    /\ row.pc = "idle" => row.charge = 0

CallTypes ==
    /\ call \in [Calls -> CallRow]
    /\ \A c \in Calls : CallFits(call[c])
    /\ sent \in [Ops -> Nat]
    /\ recharged \subseteq Ops

\* A step of the retry loop, and one of the runner.
RetryActs(c) == Attempt(c) \/ Record(c) \/ FinishCall(c) \/ BookingRaises(c)
RunnerActs(c) ==
    \/ Mark(c) \/ Stop(c) \/ MarkRaises(c) \/ Dispatch(c) \/ Inspect(c)
    \/ ReleaseCall(c) \/ RunnerRecord(c) \/ RunnerFinish(c)
BeginActs(c, k, cooled) ==
    Begin(c, k, cooled) \/ BeginRefused(c, k, cooled) \/ BeginRaises(c, k, cooled)

\* Call c alone may have moved, to a row that fits.
Moved(c) ==
    /\ call' \in [Calls -> CallRow]
    /\ \A j \in Calls \ {c} : call'[j] = call[j]
    /\ CallFits(call'[c])

-----------------------------------------------------------------------------
(* Types.                                                                  *)

(* A call that takes a row that fits.                                      *)
LEMMA OneMoves ==
  ASSUME CallTypes, NEW c \in Calls, NEW row \in CallRow, CallFits(row),
         call' = [call EXCEPT ![c] = row]
  PROVE  Moved(c) /\ call'[c] = row
BY DEF CallTypes, Moved

(* Only the program counter moves.                                         *)
LEMMA GotoMoves ==
  ASSUME CallTypes, NEW c \in Calls, NEW pc \in Points, Goto(c, pc),
         CallFits([call[c] EXCEPT !.pc = pc])
  PROVE  /\ Moved(c)
         /\ call'[c].pc = pc /\ call'[c].key = call[c].key
         /\ call'[c].attempt = call[c].attempt /\ call'[c].charge = call[c].charge
         /\ call'[c].charged = call[c].charged /\ call'[c].result = call[c].result
<1>1. [call[c] EXCEPT !.pc = pc] \in CallRow
  BY DEF CallTypes, CallRow
<1>2. call' = [call EXCEPT ![c] = [call[c] EXCEPT !.pc = pc]]
  BY DEF Goto, CallTypes
<1>3. call[c] \in CallRow
  BY DEF CallTypes
<1>4. Moved(c) /\ call'[c] = [call[c] EXCEPT !.pc = pc]
  BY <1>1, <1>2, OneMoves
<1> QED BY <1>3, <1>4 DEF CallRow

(* Ending a call needs nothing.                                            *)
LEMMA DoneFits ==
  ASSUME CallTypes, NEW c \in Calls
  PROVE  CallFits([call[c] EXCEPT !.pc = "done"])
BY DEF CallTypes, CallRow, CallFits, RunnerPoints

(* No attempt costs more than the estimate.                                *)
LEMMA CostFits ==
  ASSUME NEW k \in Ops, NEW result, NEW cost \in Costs(k, result)
  PROVE  cost \in Nat /\ cost <= Estimate[k]
<1>1. Estimate[k] \in Nat /\ Reported \subseteq Nat
  BY LedgerConstants, CallsConstants
<1>2. CASE result = "ok"
  <2>1. cost = Estimate[k] \/ (cost \in Reported /\ cost <= Estimate[k])
    BY <1>2 DEF Costs
  <2>2. \A n \in Nat : n <= n
    OBVIOUS
  <2>3. cost = Estimate[k] => cost \in Nat /\ cost <= Estimate[k]
    BY <1>1, <2>2, Zenon
  <2>4. cost \in Reported => cost \in Nat
    BY <1>1
  <2> QED BY <2>1, <2>3, <2>4, Zenon
<1>3. CASE result # "ok"
  <2>1. cost = Estimate[k]
    BY <1>3 DEF Costs
  <2> QED BY <1>1, <2>1
<1> QED BY <1>2, <1>3

(* The rows of an attempt and of a retry.                                  *)
Attempted(row, result, cost, sum) ==
    [row EXCEPT !.pc = "recording", !.result = result, !.charge = cost, !.charged = sum]
Retried(row, n) == [row EXCEPT !.pc = "calling", !.attempt = n]

LEMMA AttemptedRow ==
  ASSUME NEW row \in CallRow, NEW result \in Results, NEW cost \in Nat,
         NEW sum \in Nat
  PROVE  LET new == Attempted(row, result, cost, sum)
         IN  /\ new \in CallRow /\ new.pc = "recording" /\ new.result = result
             /\ new.charge = cost /\ new.charged = sum
             /\ new.key = row.key /\ new.attempt = row.attempt
BY DEF CallRow, Attempted, Points, Results

LEMMA RetriedRow ==
  ASSUME NEW row \in CallRow, NEW n \in 1..MaxAttempts
  PROVE  LET new == Retried(row, n)
         IN  /\ new \in CallRow /\ new.pc = "calling" /\ new.attempt = n
             /\ new.key = row.key /\ new.charge = row.charge
             /\ new.charged = row.charged /\ new.result = row.result
BY DEF CallRow, Retried, Points

(* An attempt: what it costs is added to what the call will be charged.    *)
LEMMA AttemptMoves ==
  ASSUME CallTypes, NEW c \in Calls, Attempt(c)
  PROVE  /\ Moved(c) /\ call[c].pc = "calling" /\ call[c].key \in Ops \ SingleDispatch
         /\ call'[c].pc = "recording" /\ call'[c].key = call[c].key
         /\ call'[c].attempt = call[c].attempt
         /\ call'[c].charged = call[c].charged + call'[c].charge
<1>1. call[c] \in CallRow /\ CallFits(call[c]) /\ call[c].pc = "calling"
  BY DEF CallTypes, Attempt, At
<1>2. call[c].key \in Ops \ SingleDispatch
  BY <1>1 DEF CallFits
<1>a. PICK result \in Outcomes(c) : \E cost \in Costs(call[c].key, result) :
        call' = [call EXCEPT ![c].pc = "recording", ![c].result = result,
                             ![c].charge = cost, ![c].charged = @ + cost]
  BY DEF Attempt
<1>3. PICK cost \in Costs(call[c].key, result) :
        call' = [call EXCEPT ![c].pc = "recording", ![c].result = result,
                             ![c].charge = cost, ![c].charged = @ + cost]
  BY <1>a
<1>4. cost \in Nat /\ cost <= Estimate[call[c].key]
  BY <1>2, CostFits
<1>5. /\ result \in Results
      /\ result = "retry" => call[c].attempt < MaxAttempts
  BY DEF Outcomes, Results
<1> DEFINE sum == call[c].charged + cost
           row == Attempted(call[c], result, cost, sum)
<1>6. call' = [call EXCEPT ![c] = row]
  BY <1>3 DEF CallTypes, Attempted
<1>7. sum \in Nat
  BY <1>1, <1>4 DEF CallRow
<1>8. /\ row \in CallRow /\ row.pc = "recording" /\ row.result = result
      /\ row.charge = cost /\ row.charged = sum
      /\ row.key = call[c].key /\ row.attempt = call[c].attempt
  <2> HIDE DEF sum
  <2> QED BY <1>1, <1>4, <1>5, <1>7, AttemptedRow
<1> HIDE DEF row
<1>9. CallFits(row)
  BY <1>2, <1>4, <1>5, <1>8 DEF CallFits, RunnerPoints
<1>10. Moved(c) /\ call'[c] = row
  BY <1>6, <1>8, <1>9, OneMoves
<1> QED BY <1>1, <1>2, <1>8, <1>10

(* An attempt that is on record is followed by the next, or by the end.    *)
LEMMA RecordMoves ==
  ASSUME CallTypes, NEW c \in Calls, Record(c)
  PROVE  /\ Moved(c) /\ call[c].pc = "recording" /\ call[c].key \in Ops \ SingleDispatch
         /\ call'[c].key = call[c].key /\ call'[c].charged = call[c].charged
         /\ \/ call'[c].pc = "calling" /\ call'[c].attempt = call[c].attempt + 1
            \/ call'[c].pc = "finishing" /\ call'[c].attempt = call[c].attempt
<1>1. call[c] \in CallRow /\ CallFits(call[c]) /\ call[c].pc = "recording"
  BY DEF CallTypes, Record, At
<1>2. call[c].key \in Ops \ SingleDispatch
  BY <1>1 DEF CallFits, Record, Single
<1>3. CASE call[c].result = "retry"
  <2> DEFINE row == Retried(call[c], call[c].attempt + 1)
  <2>1. call' = [call EXCEPT ![c] = row]
    BY <1>3 DEF CallTypes, Record, Retried
  <2>2. call[c].attempt + 1 \in 1..MaxAttempts
    BY <1>1, <1>2, <1>3, LedgerConstants DEF CallFits, CallRow
  <2>3. /\ row \in CallRow /\ row.pc = "calling" /\ row.attempt = call[c].attempt + 1
        /\ row.key = call[c].key /\ row.charge = call[c].charge
        /\ row.charged = call[c].charged
    BY <1>1, <2>2, RetriedRow
  <2> HIDE DEF row
  <2>4. CallFits(row)
    BY <1>1, <1>2, <2>3 DEF CallFits, RunnerPoints
  <2>5. Moved(c) /\ call'[c] = row
    BY <2>1, <2>3, <2>4, OneMoves
  <2> QED BY <1>1, <1>2, <2>3, <2>5
<1>4. CASE call[c].result # "retry"
  <2>1. Goto(c, "finishing")
    BY <1>4 DEF Record, Goto
  <2>2. CallFits([call[c] EXCEPT !.pc = "finishing"])
    BY <1>1, <1>2 DEF CallFits, CallRow, RunnerPoints
  <2>3. "finishing" \in Points
    BY DEF Points
  <2> QED BY <1>1, <1>2, <2>1, <2>2, <2>3, GotoMoves
<1> QED BY <1>3, <1>4

(* A completion ends the call.                                             *)
LEMMA FinishMoves ==
  ASSUME CallTypes, NEW c \in Calls, FinishCall(c)
  PROVE  /\ Moved(c) /\ call[c].pc = "finishing" /\ call[c].key \in Ops \ SingleDispatch
         /\ call'[c].key = call[c].key /\ call'[c].pc = "done"
<1>1. call[c].pc = "finishing" /\ call[c].key \in Ops \ SingleDispatch
  BY DEF CallTypes, FinishCall, At, Single, CallFits
<1>2. "done" \in Points
  BY DEF Points
<1> QED BY <1>1, <1>2, DoneFits, GotoMoves DEF FinishCall

(* A booking that raises ends the call, or has its attempt charged again.  *)
LEMMA BookingRaisesMoves ==
  ASSUME CallTypes, NEW c \in Calls, BookingRaises(c)
  PROVE  /\ Moved(c) /\ call[c].pc \in {"recording", "finishing"}
         /\ call[c].key \in Ops \ SingleDispatch /\ call'[c].key = call[c].key
         /\ \/ call'[c].pc = "done" /\ recharged' = recharged
            \/ /\ call'[c].pc = "recording" /\ call'[c].attempt = call[c].attempt
               /\ recharged' = recharged \cup {call[c].key}
<1>1. /\ call[c] \in CallRow /\ CallFits(call[c])
      /\ call[c].pc \in {"recording", "finishing"}
  BY DEF CallTypes, BookingRaises, At
<1>2. call[c].key \in Ops \ SingleDispatch
  BY <1>1 DEF CallFits, BookingRaises, Single
<1>3. CASE Goto(c, "done") /\ UNCHANGED recharged
  <2>1. "done" \in Points
    BY DEF Points
  <2> QED BY <1>1, <1>2, <1>3, <2>1, DoneFits, GotoMoves
<1>4. CASE Recharge(c)
  <2>1. PICK result \in Outcomes(c) \ {"ok"} :
          call' = [call EXCEPT ![c].pc = "recording", ![c].result = result,
                     ![c].charge = Estimate[call[c].key], ![c].charged = @ + Estimate[call[c].key]]
    BY <1>4 DEF Recharge
  <2>2. /\ result \in Results
        /\ result = "retry" => call[c].attempt < MaxAttempts
    BY DEF Outcomes, Results
  <2>3. Estimate[call[c].key] \in Nat
    BY <1>2, LedgerConstants
  <2> DEFINE cost == Estimate[call[c].key]
             sum == call[c].charged + cost
             row == Attempted(call[c], result, cost, sum)
  <2>4. call' = [call EXCEPT ![c] = row]
    BY <2>1 DEF CallTypes, Attempted
  <2>5. cost \in Nat /\ sum \in Nat
    BY <1>1, <2>3 DEF CallRow
  <2>6. /\ row \in CallRow /\ row.pc = "recording" /\ row.result = result
        /\ row.charge = cost
        /\ row.key = call[c].key /\ row.attempt = call[c].attempt
    <3> HIDE DEF cost, sum
    <3> QED BY <1>1, <2>2, <2>5, AttemptedRow
  <2> HIDE DEF row
  <2>7. CallFits(row)
    BY <1>2, <2>2, <2>3, <2>6 DEF CallFits, RunnerPoints
  <2>8. Moved(c) /\ call'[c] = row
    BY <2>4, <2>6, <2>7, OneMoves
  <2> QED BY <1>1, <1>2, <1>4, <2>6, <2>8 DEF Recharge
<1> QED BY <1>3, <1>4 DEF BookingRaises

(* A single dispatch keeps its key from beginning to end.                  *)
LEMMA RunnerGoto ==
  ASSUME CallTypes, NEW c \in Calls, NEW pc \in Points \ {"calling", "idle"},
         call[c].key \in SingleDispatch, Goto(c, pc)
  PROVE  Moved(c) /\ call'[c].key = call[c].key /\ call'[c].pc = pc
<1>1. CallFits([call[c] EXCEPT !.pc = pc])
  BY LedgerConstants DEF CallTypes, CallRow, CallFits
<1> QED BY <1>1, GotoMoves

FailedTo(row, pc) == [row EXCEPT !.pc = pc, !.result = "fail"]

(* A refused or raising booking makes the outcome a failure.               *)
LEMMA FailedRow ==
  ASSUME NEW row \in CallRow, CallFits(row), row.key \in SingleDispatch,
         NEW pc \in {"finishing", "refinishing"}
  PROVE  LET new == FailedTo(row, pc)
         IN  new \in CallRow /\ CallFits(new) /\ new.key = row.key /\ new.pc = pc
<1>1. pc \in Points /\ "fail" \in Results
  BY DEF Points, RunnerPoints, Results
<1>2. LET new == FailedTo(row, pc)
      IN  /\ new \in CallRow /\ new.key = row.key /\ new.pc = pc
          /\ new.charge = row.charge
  BY <1>1 DEF CallRow, FailedTo
<1>3. SingleDispatch \subseteq Ops
  BY LedgerConstants
<1> QED BY <1>2, <1>3 DEF CallFits

(* A marker is committed for an armed call.                                *)
LEMMA MarkMoves ==
  ASSUME CallTypes, NEW c \in Calls, Mark(c)
  PROVE  /\ Moved(c) /\ call[c].pc = "armed" /\ call[c].key \in SingleDispatch
         /\ call'[c].key = call[c].key /\ call'[c].pc = "marked"
<1>1. call[c].pc = "armed" /\ call[c].key \in SingleDispatch
  BY DEF Mark, At, CallTypes, CallFits, RunnerPoints
<1>2. "marked" \in Points \ {"calling", "idle"}
  BY DEF Points, RunnerPoints
<1> QED BY <1>1, <1>2, RunnerGoto DEF Mark

(* The request goes out, or the deadline passes.                           *)
LEMMA DispatchMoves ==
  ASSUME CallTypes, NEW c \in Calls, Dispatch(c)
  PROVE  /\ Moved(c) /\ call[c].pc = "marked" /\ call[c].key \in SingleDispatch
         /\ call'[c].key = call[c].key /\ call'[c].pc = "inspecting"
<1>1. /\ call[c].pc = "marked" /\ call[c].key \in SingleDispatch
      /\ call[c] \in CallRow /\ CallFits(call[c]) /\ call[c].key \in Ops
  BY LedgerConstants DEF Dispatch, At, CallTypes, CallFits, RunnerPoints
<1>2. "inspecting" \in Points \ {"calling", "idle"}
  BY DEF Points, RunnerPoints
<1>3. CASE Goto(c, "inspecting")
  BY <1>1, <1>2, <1>3, RunnerGoto
<1>4. CASE \E result \in {"ok", "fail"} : \E cost \in Costs(call[c].key, result) :
             call' = [call EXCEPT ![c].pc = "inspecting", ![c].result = result,
                                  ![c].charge = cost]
  <2>1. PICK result \in {"ok", "fail"} : \E cost \in Costs(call[c].key, result) :
             call' = [call EXCEPT ![c].pc = "inspecting", ![c].result = result,
                                  ![c].charge = cost]
    BY <1>4
  <2>2. PICK cost \in Costs(call[c].key, result) :
             call' = [call EXCEPT ![c].pc = "inspecting", ![c].result = result,
                                  ![c].charge = cost]
    BY <2>1
  <2>3. cost \in Nat /\ cost <= Estimate[call[c].key]
    BY <1>1, CostFits
  <2> DEFINE row == [call[c] EXCEPT !.pc = "inspecting", !.result = result, !.charge = cost]
  <2>4. call' = [call EXCEPT ![c] = row]
    BY <2>2 DEF CallTypes
  <2>5. result \in Results
    BY DEF Results
  <2>6. /\ row \in CallRow /\ row.pc = "inspecting" /\ row.charge = cost
        /\ row.key = call[c].key
    BY <1>1, <1>2, <2>3, <2>5 DEF CallRow
  <2> HIDE DEF row
  <2>7. CallFits(row)
    BY <1>1, <2>3, <2>6 DEF CallFits
  <2>8. Moved(c) /\ call'[c] = row
    BY <2>4, <2>6, <2>7, OneMoves
  <2> QED BY <1>1, <2>6, <2>8
<1> QED BY <1>3, <1>4 DEF Dispatch

(* What every step of the runner has in common.                            *)
LEMMA RunnerMoves ==
  ASSUME CallTypes, NEW c \in Calls, RunnerActs(c)
  PROVE  /\ Moved(c) /\ Live(c) /\ call[c].key \in SingleDispatch
         /\ call'[c].key = call[c].key /\ call'[c].pc # "calling"
         /\ call'[c].pc = "marked" => Mark(c)
         /\ recharged' = recharged
<1> SUFFICES /\ Moved(c) /\ Live(c) /\ call[c].key \in SingleDispatch
             /\ call'[c].key = call[c].key /\ call'[c].pc # "calling"
             /\ Mark(c) \/ call'[c].pc # "marked"
             /\ recharged' = recharged
  OBVIOUS
<1>a. call[c] \in CallRow /\ CallFits(call[c]) /\ SingleDispatch \subseteq Ops
  BY LedgerConstants DEF CallTypes
<1>1. CASE Mark(c)
  <2>1. recharged' = recharged
    BY <1>1 DEF Mark, history
  <2> QED BY <1>1, <2>1, MarkMoves DEF Live
<1>2. CASE Dispatch(c)
  <2>1. recharged' = recharged
    BY <1>2 DEF Dispatch
  <2> QED BY <1>2, <2>1, DispatchMoves DEF Live
<1>3. CASE Stop(c) \/ MarkRaises(c)
  <2>1. call[c].pc = "armed" /\ call[c].key \in SingleDispatch
    BY <1>3, <1>a DEF Stop, MarkRaises, At, CallFits, RunnerPoints
  <2>2. "inspecting" \in Points \ {"calling", "idle"}
    BY DEF Points, RunnerPoints
  <2>3. Goto(c, "inspecting") /\ recharged' = recharged
    BY <1>3 DEF Stop, MarkRaises, history
  <2> QED BY <2>1, <2>2, <2>3, RunnerGoto DEF Live
<1>4. CASE Inspect(c)
  <2>1. call[c].pc = "inspecting" /\ call[c].key \in SingleDispatch
    BY <1>4, <1>a DEF Inspect, At, CallFits, RunnerPoints
  <2>2. recharged' = recharged
    BY <1>4 DEF Inspect, history
  <2>3. PICK pc \in {"done", "recording", "releasing"} : Goto(c, pc)
    BY <1>4 DEF Inspect
  <2>4. pc \in Points \ {"calling", "idle"}
    BY DEF Points, RunnerPoints
  <2> QED BY <2>1, <2>2, <2>3, <2>4, RunnerGoto DEF Live
<1>5. CASE ReleaseCall(c)
  <2>1. call[c].pc = "releasing" /\ call[c].key \in SingleDispatch
    BY <1>5, <1>a DEF ReleaseCall, At, CallFits, RunnerPoints
  <2>2. "done" \in Points \ {"calling", "idle"}
    BY DEF Points, RunnerPoints
  <2>3. Goto(c, "done") /\ recharged' = recharged
    BY <1>5 DEF ReleaseCall, history
  <2> QED BY <2>1, <2>2, <2>3, RunnerGoto DEF Live
<1>6. CASE RunnerRecord(c)
  <2>1. call[c].pc = "recording" /\ call[c].key \in SingleDispatch
    BY <1>6 DEF RunnerRecord, At, Single
  <2>2. recharged' = recharged
    BY <1>6 DEF RunnerRecord, history
  <2>3. CASE Goto(c, "finishing")
    <3>1. "finishing" \in Points \ {"calling", "idle"}
      BY DEF Points, RunnerPoints
    <3> QED BY <2>1, <2>2, <2>3, <3>1, RunnerGoto DEF Live
  <2>4. CASE call' = [call EXCEPT ![c].pc = "finishing", ![c].result = "fail"]
    <3>1. call' = [call EXCEPT ![c] = FailedTo(call[c], "finishing")]
      BY <2>4 DEF CallTypes, FailedTo
    <3> QED BY <1>a, <2>1, <2>2, <3>1, FailedRow, OneMoves DEF Live
  <2> QED BY <1>6, <2>3, <2>4 DEF RunnerRecord
<1>7. CASE RunnerFinish(c)
  <2>1. call[c].pc \in {"finishing", "refinishing"} /\ call[c].key \in SingleDispatch
    BY <1>7 DEF RunnerFinish, At, Single
  <2>2. recharged' = recharged
    BY <1>7 DEF RunnerFinish, history
  <2>3. CASE Goto(c, "done")
    <3>1. "done" \in Points \ {"calling", "idle"}
      BY DEF Points, RunnerPoints
    <3> QED BY <2>1, <2>2, <2>3, <3>1, RunnerGoto DEF Live
  <2>4. CASE call' = [call EXCEPT ![c].pc = "refinishing", ![c].result = "fail"]
    <3>1. call' = [call EXCEPT ![c] = FailedTo(call[c], "refinishing")]
      BY <2>4 DEF CallTypes, FailedTo
    <3> QED BY <1>a, <2>1, <2>2, <3>1, FailedRow, OneMoves DEF Live
  <2> QED BY <1>7, <2>3, <2>4 DEF RunnerFinish
<1> QED BY <1>1, <1>2, <1>3, <1>4, <1>5, <1>6, <1>7 DEF RunnerActs

(* A call begins with the first attempt of its operation.                  *)
LEMMA BeginMoves ==
  ASSUME CallTypes, NEW c \in Calls, NEW k \in Ops, NEW cooled, Begin(c, k, cooled)
  PROVE  /\ Moved(c) /\ call[c].pc = "idle"
         /\ call'[c].pc = IF k \in SingleDispatch THEN "armed" ELSE "calling"
         /\ call'[c].key = k /\ call'[c].attempt = 1 /\ call'[c].charged = 0
<1> DEFINE pc == IF k \in SingleDispatch THEN "armed" ELSE "calling"
           cost == Estimate[k]
           row == [Idle EXCEPT !.pc = pc, !.key = k, !.charge = cost]
<1>1. call' = [call EXCEPT ![c] = row] /\ call[c].pc = "idle"
  BY DEF Begin, At
<1>2. cost \in Nat /\ cost <= Estimate[k] /\ 1 \in 1..MaxAttempts
  BY LedgerConstants
<1>3. pc \in Points /\ pc # "idle" /\ pc # "recording"
      /\ (pc \in RunnerPoints <=> k \in SingleDispatch) /\ (pc = "calling" <=> k \notin SingleDispatch)
  BY DEF Points, RunnerPoints
<1>4. /\ row \in CallRow /\ row.pc = pc /\ row.key = k /\ row.charge = cost
      /\ row.attempt = 1 /\ row.charged = 0
  <2> HIDE DEF pc, cost
  <2> QED BY <1>2, <1>3 DEF CallRow, Results, Idle
<1>5. CallFits(row)
  <2> HIDE DEF row, pc, cost
  <2> QED BY <1>2, <1>3, <1>4 DEF CallFits
<1>6. Moved(c) /\ call'[c] = row
  <2> HIDE DEF row
  <2> QED BY <1>1, <1>4, <1>5, OneMoves
<1> HIDE DEF row
<1> QED BY <1>1, <1>4, <1>6

(* A refused reservation ends the call.                                    *)
LEMMA BeginRefusedMoves ==
  ASSUME CallTypes, NEW c \in Calls, NEW k, NEW cooled, BeginRefused(c, k, cooled)
  PROVE  Moved(c) /\ call'[c].pc = "done"
<1>1. "done" \in Points
  BY DEF Points
<1> QED BY <1>1, DoneFits, GotoMoves DEF BeginRefused

BegunTo(row, pc, k) == [row EXCEPT !.pc = pc, !.key = k]

(* A raising one ends it, or leaves the runner to release what it finds.   *)
LEMMA BeginRaisesMoves ==
  ASSUME CallTypes, NEW c \in Calls, NEW k \in Ops, NEW cooled, BeginRaises(c, k, cooled)
  PROVE  /\ Moved(c) /\ call[c].pc = "idle"
         /\ call'[c].pc = IF k \in SingleDispatch THEN "releasing" ELSE "done"
         /\ call'[c].key = k
<1>1. /\ call[c] \in CallRow /\ call[c].pc = "idle" /\ call[c].charge = 0
      /\ Estimate[k] \in Nat
  BY LedgerConstants DEF CallTypes, CallFits, BeginRaises, At
<1> DEFINE pc == IF k \in SingleDispatch THEN "releasing" ELSE "done"
           row == BegunTo(call[c], pc, k)
<1>2. call' = [call EXCEPT ![c] = row]
  BY DEF BeginRaises, BegunTo, CallTypes
<1>3. pc \in Points
  BY DEF Points, RunnerPoints
<1>4. /\ row \in CallRow /\ row.pc = pc /\ row.key = k /\ row.charge = call[c].charge
  <2> HIDE DEF pc
  <2> QED BY <1>1, <1>3 DEF BegunTo, CallRow
<1> HIDE DEF row
<1>5. CallFits(row)
  BY <1>1, <1>4 DEF CallFits, RunnerPoints
<1>6. Moved(c) /\ call'[c] = row
  BY <1>2, <1>4, <1>5, OneMoves
<1> QED BY <1>1, <1>4, <1>6

(* A caller that dies keeps nothing but its key.                           *)
LEMMA CrashMoves ==
  ASSUME CallTypes, NEW c \in Calls, Crash(c)
  PROVE  Moved(c) /\ call'[c].pc = "done" /\ call'[c].key = call[c].key
<1>1. "done" \in Points
  BY DEF Points
<1> QED BY <1>1, DoneFits, GotoMoves DEF Crash

(* Every step is one of these.                                             *)
LEMMA CallsSteps ==
  ASSUME CallsNext
  PROVE  \/ \E c \in Calls, k \in Ops, cooled \in BOOLEAN : BeginActs(c, k, cooled)
         \/ \E c \in Calls : RetryActs(c) \/ RunnerActs(c) \/ Crash(c)
         \/ RecoverStale \/ Midnight
BY DEF CallsNext, BeginActs, RetryActs, RunnerActs

(* A step that moves one call keeps all of them typed.                     *)
LEMMA MovedTypes ==
  ASSUME CallTypes, NEW c \in Calls, Moved(c)
  PROVE  call' \in [Calls -> CallRow] /\ \A j \in Calls : CallFits(call'[j])
BY DEF Moved, CallTypes

(* Idle calls are typed.                                                   *)
LEMMA CallTypesInit == CallsInit => CallTypes
<1> SUFFICES ASSUME CallsInit PROVE CallTypes
  OBVIOUS
<1>1. Idle \in CallRow
  BY LedgerConstants DEF Idle, CallRow, Points, Results
<1>2. CallFits(Idle)
  BY LedgerConstants DEF CallFits, Idle, Ops, NoOp, RunnerPoints
<1> QED BY <1>1, <1>2 DEF CallsInit, CallTypes

(* Every step keeps the types.                                             *)
LEMMA CallTypesStep == CallTypes /\ [CallsNext]_vars => CallTypes'
<1> SUFFICES ASSUME CallTypes, [CallsNext]_vars PROVE CallTypes'
  OBVIOUS
<1>1. ASSUME NEW c \in Calls, NEW k \in Ops, NEW cooled \in BOOLEAN, BeginActs(c, k, cooled)
      PROVE  CallTypes'
  <2>1. Moved(c)
    BY <1>1, BeginMoves, BeginRefusedMoves, BeginRaisesMoves DEF BeginActs
  <2>2. sent' = sent /\ recharged' = recharged
    BY <1>1 DEF BeginActs, Begin, BeginRefused, BeginRaises, history
  <2> QED BY <2>1, <2>2, MovedTypes DEF CallTypes
<1>2. ASSUME NEW c \in Calls, RetryActs(c)
      PROVE  CallTypes'
  <2>1. Moved(c) /\ call[c].key \in Ops
    BY <1>2, AttemptMoves, RecordMoves, FinishMoves, BookingRaisesMoves DEF RetryActs
  <2>2. sent' \in [Ops -> Nat]
    <3>1. sent' = sent \/ sent' = [sent EXCEPT ![call[c].key] = @ + 1]
      BY <1>2 DEF RetryActs, Attempt, Record, FinishCall, BookingRaises, history
    <3> QED BY <2>1, <3>1 DEF CallTypes
  <2>3. recharged' \subseteq Ops
    <3>1. recharged' = recharged \/ recharged' = recharged \cup {call[c].key}
      BY <1>2 DEF RetryActs, Attempt, Record, FinishCall, BookingRaises, Recharge, history
    <3> QED BY <2>1, <3>1 DEF CallTypes
  <2> QED BY <2>1, <2>2, <2>3, MovedTypes DEF CallTypes
<1>3. ASSUME NEW c \in Calls, RunnerActs(c)
      PROVE  CallTypes'
  <2>1. Moved(c) /\ call[c].key \in Ops /\ recharged' = recharged
    BY <1>3, RunnerMoves, LedgerConstants
  <2>2. sent' = sent \/ sent' = [sent EXCEPT ![call[c].key] = @ + 1]
    BY <1>3 DEF RunnerActs, Mark, Stop, MarkRaises, Dispatch, Inspect, ReleaseCall,
                RunnerRecord, RunnerFinish, history
  <2>3. sent' \in [Ops -> Nat]
    BY <2>1, <2>2 DEF CallTypes
  <2> QED BY <2>1, <2>3, MovedTypes DEF CallTypes
<1>4. ASSUME NEW c \in Calls, Crash(c)
      PROVE  CallTypes'
  BY <1>4, CrashMoves, MovedTypes DEF Crash, history, CallTypes
<1>5. CASE RecoverStale \/ Midnight \/ UNCHANGED vars
  BY <1>5 DEF RecoverStale, Midnight, history, vars, CallTypes
<1> QED BY <1>1, <1>2, <1>3, <1>4, <1>5, CallsSteps

-----------------------------------------------------------------------------
(* The callers implement the ledger.                                       *)

(* Every step is a transaction of the ledger, or none.                     *)
LEMMA LedgerStep == CallTypes /\ [CallsNext]_vars => [Next]_ledger
<1> SUFFICES ASSUME CallTypes, [CallsNext]_vars PROVE Next \/ UNCHANGED ledger
  OBVIOUS
<1>1. ASSUME NEW c \in Calls, NEW k \in Ops, NEW cooled \in BOOLEAN, BeginActs(c, k, cooled)
      PROVE  Next \/ UNCHANGED ledger
  BY <1>1 DEF BeginActs, Begin, BeginRefused, BeginRaises, Raises, Next
<1>2. ASSUME NEW c \in Calls, RetryActs(c)
      PROVE  Next \/ UNCHANGED ledger
  <2>1. /\ call[c].key \in Ops
        /\ call[c].attempt \in 1..MaxAttempts /\ call[c].charge \in Nat
        /\ call[c].charged \in Nat /\ (call[c].result = "ok") \in BOOLEAN
    BY <1>2, AttemptMoves, RecordMoves, FinishMoves, BookingRaisesMoves
       DEF RetryActs, CallTypes, CallRow
  <2>2. \/ RecordAttempt(call[c].key, call[c].attempt, call[c].charge)
        \/ Finish(call[c].key, call[c].attempt, call[c].charged, call[c].result = "ok")
        \/ UNCHANGED ledger
    BY <1>2 DEF RetryActs, Attempt, Record, FinishCall, BookingRaises, Raises
  <2> QED BY <2>1, <2>2 DEF Next
<1>3. ASSUME NEW c \in Calls, RunnerActs(c)
      PROVE  Next \/ UNCHANGED ledger
  <2>1. /\ call[c].key \in Ops /\ call[c].charge \in Nat /\ 1 \in 1..MaxAttempts
        /\ TRUE \in BOOLEAN /\ FALSE \in BOOLEAN /\ (call[c].result = "ok") \in BOOLEAN
    BY <1>3, RunnerMoves, LedgerConstants DEF CallTypes, CallRow
  <2>2. \/ MarkDispatch(call[c].key) \/ Release(call[c].key)
        \/ RecordAttempt(call[c].key, 1, call[c].charge)
        \/ Finish(call[c].key, 1, call[c].charge, call[c].result = "ok")
        \/ UNCHANGED ledger
    BY <1>3 DEF RunnerActs, Mark, Stop, MarkRaises, Dispatch, Inspect, ReleaseCall,
                RunnerRecord, RunnerFinish, Raises
  <2> QED BY <2>1, <2>2 DEF Next
<1>4. ASSUME NEW c \in Calls, Crash(c)
      PROVE  Next \/ UNCHANGED ledger
  BY <1>4 DEF Crash
<1>5. ASSUME RecoverStale
      PROVE  Next \/ UNCHANGED ledger
  <2>1. Abandoned \subseteq Ops
    BY DEF Abandoned, Reservations
  <2>2. PICK S \in SUBSET Abandoned : Recover(S)
    BY <1>5 DEF RecoverStale
  <2> QED BY <2>1, <2>2 DEF Next
<1>6. CASE Midnight \/ UNCHANGED vars
  BY <1>6 DEF Midnight, vars, Next
<1> QED BY <1>1, <1>2, <1>3, <1>4, <1>5, <1>6, CallsSteps

(* Both protocols, with transactions that raise, callers that die and      *)
(* recovery at any time, only run transactions of the ledger: everything   *)
(* proved of the ledger holds of them.                                     *)
THEOREM CallsImplementLedger == CallsSpec => Spec
<1>1. CallsInit => Init
  BY DEF CallsInit
<1> QED BY <1>1, CallTypesInit, CallTypesStep, LedgerStep, PTL DEF CallsSpec, Spec

(* So the books add up, probes are open and outcomes stay while any number *)
(* of calls runs, fails, dies and is recovered.                            *)
THEOREM CallsKeepTheBooks ==
  CallsSpec => [](BooksAddUp /\ ProbesAreOpen) /\ OutcomesStay
BY CallsImplementLedger, BooksSum, ProbesOpen, OutcomesKept, PTL

-----------------------------------------------------------------------------
(* What is sent.                                                           *)

(* No transaction deletes a row of the retry loop.                         *)
LEMMA RetryRowsRemain ==
  ASSUME TypeOK, [Next]_ledger, NEW k \in Ops \ SingleDispatch, op'[k].status = "none"
  PROVE  op[k].status = "none"
<1>a. op'[k] = op[k] => op[k].status = "none"
  OBVIOUS
<1>1. ASSUME NEW j \in Ops, NEW cooled \in BOOLEAN, Grant(j, cooled)
      PROVE  op[k].status = "none"
  <2>1. op[j].status = "none" /\ (j # k => op'[k] = op[k])
    BY <1>1 DEF Grant, Free, TypeOK
  <2> QED BY <1>a, <2>1
<1>2. ASSUME NEW j \in Ops, NEW cooled \in BOOLEAN, Refuse(j, cooled)
      PROVE  op[k].status = "none"
  BY <1>2, <1>a DEF Refuse, ledger
<1>3. ASSUME NEW j \in Ops, MarkDispatch(j) \/ Release(j)
      PROVE  op[k].status = "none"
  <2>1. op'[k] = op[k]
    BY <1>3 DEF MarkDispatch, Release, Virgin, TypeOK
  <2> QED BY <1>a, <2>1
<1>4. ASSUME NEW j \in Ops, NEW n \in 1..MaxAttempts, NEW charge \in Nat,
             RecordAttempt(j, n, charge)
      PROVE  op[k].status = "none"
  <2>1. op'[k].status = op[k].status
    BY <1>4 DEF RecordAttempt, TypeOK, Row
  <2> QED BY <2>1
<1>5. ASSUME NEW j \in Ops, NEW n \in 1..MaxAttempts, NEW charge \in Nat,
             NEW ok \in BOOLEAN, Finish(j, n, charge, ok)
      PROVE  op[k].status = "none"
  <2>1. CASE ~Reserved(j)
    BY <1>5, <1>a, <2>1 DEF Finish, ledger
  <2>2. CASE Reserved(j)
    <3>1. j # k => op'[k] = op[k]
      BY <1>5, <2>2 DEF Finish, FinishRow, TypeOK
    <3>2. op'[j].status # "none"
      BY <1>5, <2>2 DEF Finish, FinishRow, TypeOK, Row
    <3> QED BY <1>a, <3>1, <3>2
  <2> QED BY <2>1, <2>2
<1>6. ASSUME NEW S \in SUBSET Ops, Recover(S)
      PROVE  op[k].status = "none"
  <2>1. CASE k \notin S
    BY <1>6, <1>a, <2>1 DEF Recover
  <2>2. CASE k \in S
    <3>1. op'[k] = [op[k] EXCEPT !.status = "recovered", !.charged = RecoveryCharge(k)]
      BY <1>6, <2>2 DEF Recover, RecoveredRow, Unsent
    <3>2. op[k] \in Row
      BY DEF TypeOK
    <3>3. op'[k].status = "recovered"
      BY <3>1, <3>2 DEF Row
    <3> QED BY <3>3
  <2> QED BY <2>1, <2>2
<1>7. ASSUME NextDay \/ UNCHANGED ledger
      PROVE  op[k].status = "none"
  BY <1>7, <1>a DEF NextDay, ledger
<1> QED BY <1>1, <1>2, <1>3, <1>4, <1>5, <1>6, <1>7 DEF Next

\* A marker of the runner: committed by one caller, before anything is sent.
MarkersHeld ==
    /\ \A c \in Calls : call[c].pc = "marked" =>
         op[call[c].key].started /\ sent[call[c].key] = 0
    /\ \A b, c \in Calls :
         call[b].pc = "marked" /\ call[c].pc = "marked" /\ call[b].key = call[c].key => b = c

DispatchInv == SentOnceOnTheBooks /\ MarkersHeld

\* What a caller of the retry loop has sent.
SentBy(row) == IF row.pc = "calling" THEN row.attempt - 1 ELSE row.attempt

Running(row) == row.pc \notin {"idle", "done"} /\ row.key \notin SingleDispatch

\* One caller runs a retry loop under a key, and counts what was sent.
RetryInv ==
    /\ AttemptsWereReserved
    /\ \A k \in Ops \ SingleDispatch : op[k].status = "none" =>
         sent[k] = 0 /\ \A c \in Calls : Running(call[c]) => call[c].key # k
    /\ \A b, c \in Calls :
         Running(call[b]) /\ Running(call[c]) /\ call[b].key = call[c].key => b = c
    /\ \A c \in Calls : Running(call[c]) => sent[call[c].key] = SentBy(call[c])

(* Steps that leave markers and single dispatches' requests alone.         *)
LEMMA DispatchKept ==
  ASSUME CallTypes, DispatchInv, \A k \in Ops : RowStays(k), NEW c \in Calls, Moved(c),
         \A k \in SingleDispatch : sent'[k] = sent[k],
         call'[c].pc # "marked"
  PROVE  DispatchInv'
<1>1. \A b \in Calls : call'[b].pc = "marked" => b # c /\ call'[b] = call[b]
  BY DEF Moved
<1>2. \A b \in Calls : call[b].pc = "marked" => call[b].key \in SingleDispatch
  BY DEF CallTypes, CallFits, RunnerPoints
<1>3. SingleDispatch \subseteq Ops
  BY LedgerConstants
<1>4. \A k \in Ops : op[k].started => op'[k].started
  BY DEF RowStays
<1>5. SentOnceOnTheBooks'
  BY <1>3, <1>4 DEF DispatchInv, SentOnceOnTheBooks
<1>6. MarkersHeld'
  BY <1>1, <1>2, <1>3, <1>4 DEF DispatchInv, MarkersHeld
<1> QED BY <1>5, <1>6 DEF DispatchInv

(* The marker: only one caller can commit it, before anything is sent.     *)
LEMMA DispatchMarked ==
  ASSUME CallTypes, TypeOK, DispatchInv, \A k \in Ops : RowStays(k), NEW c \in Calls, Mark(c)
  PROVE  DispatchInv'
<1>1. /\ Moved(c) /\ call[c].key \in SingleDispatch
      /\ call'[c].key = call[c].key /\ call'[c].pc = "marked" /\ call[c].key \in Ops
  BY MarkMoves, LedgerConstants
<1>2. sent' = sent
  BY DEF Mark, history
<1>3. ~op[call[c].key].started /\ op'[call[c].key].started
  BY <1>1 DEF Mark, MarkDispatch, Virgin, TypeOK, Row
<1>4. sent[call[c].key] = 0
  BY <1>1, <1>3 DEF DispatchInv, SentOnceOnTheBooks, CallTypes
<1>5. \A b \in Calls \ {c} : call[b].pc = "marked" => call[b].key # call[c].key
  BY <1>3 DEF DispatchInv, MarkersHeld
<1>6. \A b \in Calls : call[b].pc = "marked" => call[b].key \in Ops
  BY LedgerConstants DEF CallTypes, CallFits, RunnerPoints
<1>7. \A k \in Ops : op[k].started => op'[k].started
  BY DEF RowStays
<1>8. SentOnceOnTheBooks'
  BY <1>2, <1>7, LedgerConstants DEF DispatchInv, SentOnceOnTheBooks
<1>9. MarkersHeld'
  BY <1>1, <1>2, <1>3, <1>4, <1>5, <1>6, <1>7 DEF DispatchInv, MarkersHeld, Moved
<1> QED BY <1>8, <1>9 DEF DispatchInv

(* The request of a marked call.                                           *)
LEMMA DispatchSent ==
  ASSUME CallTypes, DispatchInv, \A k \in Ops : RowStays(k), NEW c \in Calls, Dispatch(c)
  PROVE  DispatchInv'
<1>1. /\ Moved(c) /\ call[c].pc = "marked" /\ call[c].key \in SingleDispatch
      /\ call'[c].pc = "inspecting" /\ call[c].key \in Ops
  BY DispatchMoves, LedgerConstants
<1>2. CASE sent' = sent
  BY <1>1, <1>2, DispatchKept
<1>3. CASE sent' = [sent EXCEPT ![call[c].key] = @ + 1]
  <2>1. op[call[c].key].started /\ sent[call[c].key] = 0
    BY <1>1 DEF DispatchInv, MarkersHeld
  <2>2. sent'[call[c].key] = 1 /\ \A k \in Ops \ {call[c].key} : sent'[k] = sent[k]
    BY <1>1, <1>3, <2>1 DEF CallTypes
  <2>3. \A k \in Ops : op[k].started => op'[k].started
    BY DEF RowStays
  <2>4. \A b \in Calls : call'[b].pc = "marked" =>
           b # c /\ call'[b] = call[b] /\ call[b].key # call[c].key /\ call[b].key \in Ops
    BY <1>1, LedgerConstants DEF Moved, DispatchInv, MarkersHeld, CallTypes, CallFits, RunnerPoints
  <2>5. SentOnceOnTheBooks'
    BY <1>1, <2>1, <2>2, <2>3, LedgerConstants DEF DispatchInv, SentOnceOnTheBooks
  <2>6. MarkersHeld'
    BY <2>2, <2>3, <2>4 DEF DispatchInv, MarkersHeld
  <2> QED BY <2>5, <2>6 DEF DispatchInv
<1> QED BY <1>2, <1>3 DEF Dispatch

(* Steps of a call that runs a retry loop, or none.                        *)
LEMMA RetryKept ==
  ASSUME CallTypes, TypeOK, [Next]_ledger, RetryInv, NEW c \in Calls, Moved(c),
         \A k \in Ops \ SingleDispatch :
            \/ sent'[k] = sent[k]
            \/ Running(call[c]) /\ call[c].key = k /\ sent'[k] <= MaxAttempts,
         Running(call'[c]) =>
            /\ Running(call[c]) /\ call'[c].key = call[c].key
            /\ sent'[call[c].key] = SentBy(call'[c])
  PROVE  RetryInv'
<1>1. \A k \in Ops \ SingleDispatch : op'[k].status = "none" => op[k].status = "none"
  BY RetryRowsRemain
<1>2. \A b \in Calls : Running(call'[b]) =>
         /\ Running(call[b]) /\ call'[b].key = call[b].key
         /\ b # c => call'[b] = call[b]
  BY DEF Moved
<1>3. \A b \in Calls : Running(call[b]) => call[b].key \in Ops \ SingleDispatch
  BY DEF CallTypes, CallFits, Running
<1>4. AttemptsWereReserved'
  BY DEF RetryInv, AttemptsWereReserved
<1>5. ASSUME NEW k \in Ops \ SingleDispatch, op'[k].status = "none"
      PROVE  sent'[k] = 0 /\ \A b \in Calls : Running(call'[b]) => call'[b].key # k
  BY <1>1, <1>2, <1>5 DEF RetryInv
<1>6. \A a, b \in Calls :
         Running(call'[a]) /\ Running(call'[b]) /\ call'[a].key = call'[b].key => a = b
  BY <1>2 DEF RetryInv
<1>7. ASSUME NEW b \in Calls, Running(call'[b])
      PROVE  sent'[call'[b].key] = SentBy(call'[b])
  <2>1. CASE b = c
    BY <1>7, <2>1
  <2>2. CASE b # c
    <3>1. /\ Running(call[b]) /\ call'[b] = call[b] /\ call[b].key \in Ops \ SingleDispatch
          /\ Running(call[c]) => call[c].key # call[b].key
      BY <1>2, <1>3, <1>7, <2>2 DEF RetryInv
    <3> QED BY <3>1 DEF RetryInv
  <2> QED BY <2>1, <2>2
<1> QED BY <1>4, <1>5, <1>6, <1>7 DEF RetryInv

(* A granted key was never sent and has no other caller.                   *)
LEMMA RetryBegins ==
  ASSUME CallTypes, TypeOK, [Next]_ledger, RetryInv, NEW c \in Calls,
         NEW k \in Ops \ SingleDispatch, NEW cooled, Begin(c, k, cooled)
  PROVE  RetryInv'
<1>1. /\ Moved(c) /\ call[c].pc = "idle" /\ call'[c].pc = "calling"
      /\ call'[c].key = k /\ call'[c].attempt = 1
  BY BeginMoves
<1>2. op[k].status = "none" /\ op'[k].status = "reserved" /\ sent' = sent
  BY DEF Begin, Grant, Free, TypeOK, NoRow
<1>3. sent[k] = 0 /\ \A b \in Calls : Running(call[b]) => call[b].key # k
  BY <1>2 DEF RetryInv
<1>4. \A b \in Calls \ {c} : call'[b] = call[b]
  BY <1>1 DEF Moved
<1>5. \A j \in Ops \ SingleDispatch : op'[j].status = "none" => op[j].status = "none" /\ j # k
  BY <1>2, RetryRowsRemain
<1>6. AttemptsWereReserved'
  BY <1>2 DEF RetryInv, AttemptsWereReserved
<1>7. \A j \in Ops \ SingleDispatch : op'[j].status = "none" =>
         sent'[j] = 0 /\ \A b \in Calls : Running(call'[b]) => call'[b].key # j
  BY <1>1, <1>2, <1>4, <1>5 DEF RetryInv
<1>8. \A a, b \in Calls :
         Running(call'[a]) /\ Running(call'[b]) /\ call'[a].key = call'[b].key => a = b
  BY <1>1, <1>3, <1>4 DEF RetryInv
<1>9. SentBy(call'[c]) = 0
  BY <1>1 DEF SentBy
<1>10. \A b \in Calls : Running(call'[b]) => sent'[call'[b].key] = SentBy(call'[b])
  BY <1>1, <1>2, <1>3, <1>4, <1>9 DEF RetryInv
<1> QED BY <1>6, <1>7, <1>8, <1>10 DEF RetryInv

(* At first nothing is sent.                                               *)
LEMMA SendInit == CallsInit => DispatchInv /\ RetryInv
<1> SUFFICES ASSUME CallsInit PROVE DispatchInv /\ RetryInv
  OBVIOUS
<1>1. (\A c \in Calls : call[c].pc = "idle") /\ (\A k \in Ops : sent[k] = 0)
  BY DEF CallsInit, Idle
<1>2. SingleDispatch \subseteq Ops /\ MaxAttempts \in Nat
  BY LedgerConstants
<1> QED BY <1>1, <1>2 DEF DispatchInv, SentOnceOnTheBooks, MarkersHeld, RetryInv,
           AttemptsWereReserved, Running

(* Every step keeps both, action by action.                                *)
LEMMA SendStep ==
  CallTypes /\ TypeOK /\ MarkedRows /\ DispatchInv /\ RetryInv /\ [CallsNext]_vars
    => DispatchInv' /\ RetryInv'
<1> SUFFICES ASSUME CallTypes, TypeOK, MarkedRows, DispatchInv, RetryInv, [CallsNext]_vars
             PROVE  DispatchInv' /\ RetryInv'
  OBVIOUS
<1>a. [Next]_ledger
  BY LedgerStep
<1>b. \A k \in Ops : RowStays(k)
  BY <1>a, RowsStay
<1>1. ASSUME NEW c \in Calls, NEW k \in Ops, NEW cooled \in BOOLEAN, Begin(c, k, cooled)
      PROVE  DispatchInv' /\ RetryInv'
  <2>1. /\ Moved(c) /\ sent' = sent /\ call'[c].key = k
        /\ call'[c].pc = IF k \in SingleDispatch THEN "armed" ELSE "calling"
    BY <1>1, BeginMoves DEF Begin
  <2>2. DispatchInv'
    BY <1>b, <2>1, DispatchKept
  <2>3. CASE k \in SingleDispatch
    BY <1>a, <2>1, <2>2, <2>3, RetryKept DEF Running
  <2>4. CASE k \notin SingleDispatch
    BY <1>1, <1>a, <2>2, <2>4, RetryBegins
  <2> QED BY <2>3, <2>4
<1>2. ASSUME NEW c \in Calls, NEW k \in Ops, NEW cooled \in BOOLEAN,
             BeginRefused(c, k, cooled) \/ BeginRaises(c, k, cooled)
      PROVE  DispatchInv' /\ RetryInv'
  <2>1. /\ Moved(c) /\ sent' = sent
        /\ call'[c].pc = "done" \/ (call'[c].pc = "releasing" /\ call'[c].key \in SingleDispatch)
    BY <1>2, BeginRefusedMoves, BeginRaisesMoves DEF BeginRefused, BeginRaises, history
  <2>2. ~Running(call'[c]) /\ call'[c].pc # "marked"
    BY <2>1 DEF Running
  <2> QED BY <1>a, <1>b, <2>1, <2>2, DispatchKept, RetryKept
<1>3. ASSUME NEW c \in Calls, Attempt(c)
      PROVE  DispatchInv' /\ RetryInv'
  <2>1. /\ Moved(c) /\ call[c].pc = "calling" /\ call[c].key \in Ops \ SingleDispatch
        /\ call'[c].pc = "recording" /\ call'[c].key = call[c].key
        /\ call'[c].attempt = call[c].attempt
    BY <1>3, AttemptMoves
  <2>2. call[c].attempt \in 1..MaxAttempts /\ sent[call[c].key] = call[c].attempt - 1
    BY <2>1 DEF RetryInv, Running, SentBy, CallTypes, CallRow
  <2>3. /\ sent'[call[c].key] = call[c].attempt
        /\ \A k \in Ops \ {call[c].key} : sent'[k] = sent[k]
    BY <1>3, <2>1, <2>2 DEF Attempt, CallTypes
  <2>4. Running(call[c]) /\ SentBy(call'[c]) = call[c].attempt /\ call[c].attempt <= MaxAttempts
    BY <2>1, <2>2, LedgerConstants DEF Running, SentBy
  <2>5. \A k \in SingleDispatch : sent'[k] = sent[k]
    BY <2>1, <2>3, LedgerConstants
  <2>6. DispatchInv'
    BY <1>b, <2>1, <2>5, DispatchKept
  <2>7. \A k \in Ops \ SingleDispatch :
            \/ sent'[k] = sent[k]
            \/ Running(call[c]) /\ call[c].key = k /\ sent'[k] <= MaxAttempts
    BY <2>3, <2>4
  <2> QED BY <1>a, <2>1, <2>3, <2>4, <2>6, <2>7, RetryKept
<1>4. ASSUME NEW c \in Calls, Record(c) \/ FinishCall(c) \/ BookingRaises(c)
      PROVE  DispatchInv' /\ RetryInv'
  <2>1. /\ Moved(c) /\ call[c].pc \in {"recording", "finishing"}
        /\ call[c].key \in Ops \ SingleDispatch /\ call'[c].key = call[c].key
        /\ \/ call'[c].pc = "calling" /\ call'[c].attempt = call[c].attempt + 1
           \/ call'[c].pc \in {"recording", "finishing"} /\ call'[c].attempt = call[c].attempt
           \/ call'[c].pc = "done"
    BY <1>4, RecordMoves, FinishMoves, BookingRaisesMoves
  <2>2. sent' = sent
    BY <1>4 DEF Record, FinishCall, BookingRaises, history
  <2>3. Running(call[c]) /\ SentBy(call[c]) = call[c].attempt /\ call[c].attempt \in Nat
    BY <2>1 DEF Running, SentBy, CallTypes, CallRow
  <2>4. Running(call'[c]) => SentBy(call'[c]) = call[c].attempt
    BY <2>1, <2>3 DEF Running, SentBy
  <2>5. Running(call'[c]) => sent'[call[c].key] = SentBy(call'[c])
    BY <2>2, <2>3, <2>4 DEF RetryInv
  <2>6. call'[c].pc # "marked"
    BY <2>1
  <2>7. DispatchInv'
    BY <1>b, <2>1, <2>2, <2>6, DispatchKept
  <2> QED BY <1>a, <2>1, <2>2, <2>3, <2>5, <2>7, RetryKept
<1>5. ASSUME NEW c \in Calls, RunnerActs(c)
      PROVE  DispatchInv' /\ RetryInv'
  <2>1. /\ Moved(c) /\ call[c].key \in SingleDispatch /\ call'[c].key = call[c].key
        /\ call'[c].pc = "marked" => Mark(c)
    BY <1>5, RunnerMoves
  <2>2. \/ sent' = sent
        \/ Dispatch(c) /\ sent' = [sent EXCEPT ![call[c].key] = @ + 1]
    BY <1>5 DEF RunnerActs, Mark, Stop, MarkRaises, Dispatch, Inspect, ReleaseCall,
                RunnerRecord, RunnerFinish, history
  <2>3. DispatchInv'
    <3>1. CASE Mark(c)
      BY <1>b, <3>1, DispatchMarked
    <3>2. CASE Dispatch(c)
      BY <1>b, <3>2, DispatchSent
    <3>3. CASE ~Mark(c) /\ ~Dispatch(c)
      BY <1>b, <2>1, <2>2, <3>3, DispatchKept
    <3> QED BY <3>1, <3>2, <3>3
  <2>4. \A k \in Ops \ SingleDispatch : sent'[k] = sent[k]
    BY <2>1, <2>2 DEF CallTypes
  <2>5. ~Running(call'[c])
    BY <2>1 DEF Running
  <2> QED BY <1>a, <2>1, <2>3, <2>4, <2>5, RetryKept
<1>6. ASSUME NEW c \in Calls, Crash(c)
      PROVE  DispatchInv' /\ RetryInv'
  <2>1. /\ Moved(c) /\ call'[c].pc = "done" /\ sent' = sent
    BY <1>6, CrashMoves DEF Crash, history
  <2>2. ~Running(call'[c]) /\ call'[c].pc # "marked"
    BY <2>1 DEF Running
  <2> QED BY <1>a, <1>b, <2>1, <2>2, DispatchKept, RetryKept
<1>7. CASE RecoverStale \/ Midnight \/ UNCHANGED vars
  <2>1. call' = call /\ sent' = sent
    BY <1>7 DEF RecoverStale, Midnight, history, vars
  <2>2. \A k \in Ops : op[k].started => op'[k].started
    BY <1>b DEF RowStays
  <2>3. \A k \in Ops \ SingleDispatch : op'[k].status = "none" => op[k].status = "none"
    BY <1>a, RetryRowsRemain
  <2>4. \A c \in Calls : call[c].pc = "marked" => call[c].key \in Ops
    BY DEF CallTypes, CallFits
  <2>5. DispatchInv'
    BY <2>1, <2>2, <2>4, LedgerConstants DEF DispatchInv, SentOnceOnTheBooks, MarkersHeld
  <2>6. RetryInv'
    BY <2>1, <2>3 DEF RetryInv, AttemptsWereReserved
  <2> QED BY <2>5, <2>6
<1> QED BY <1>1, <1>2, <1>3, <1>4, <1>5, <1>6, <1>7, CallsSteps DEF BeginActs, RetryActs

\* The ledger's own invariant, and the types of the callers.
CallsBase == TypeOK /\ MarkedRows /\ AddUp /\ CallTypes

(* The callers keep their types and the invariant of the ledger.           *)
LEMMA CallsBaseHolds == CallsSpec => []CallsBase
<1>1. CallsSpec => []CallTypes
  BY CallTypesInit, CallTypesStep, PTL DEF CallsSpec
<1>2. Spec => [](TypeOK /\ MarkedRows /\ AddUp)
  BY LedgerTypes, MarkedInit, MarkedStep, AddUpInit, AddUpStep, PTL DEF Spec
<1> QED BY <1>1, <1>2, CallsImplementLedger, PTL DEF CallsBase

(* A single dispatch is sent at most once, after its marker is on the      *)
(* books, and a retry loop never sends more than it reserved: whatever     *)
(* crashes, raises or is called again under the same key.                  *)
THEOREM CallsSendAsReserved == CallsSpec => []SentAsReserved
<1>1. DispatchInv /\ RetryInv => SentAsReserved
  BY DEF DispatchInv, RetryInv, SentAsReserved
<1>2. CallsBase => CallTypes /\ TypeOK /\ MarkedRows
  BY DEF CallsBase
<1> QED BY <1>1, <1>2, CallsBaseHolds, SendInit, SendStep, PTL DEF CallsSpec

-----------------------------------------------------------------------------
(* What is charged.                                                        *)

\* What a running call remembers of its operation, and what settled rows say.
Agrees(row, o) ==
    /\ o.status = "reserved"
    /\ row.pc = "calling" => o.attempts = row.attempt - 1 /\ o.billed = row.charged
    /\ row.pc = "recording" =>
         o.attempts = row.attempt - 1 /\ row.charged = o.billed + row.charge
    /\ row.pc = "finishing" => o.billed = row.charged

ChargedAsBilled(o) == o.status \in Settled => o.charged = o.billed

ChargeInv ==
    /\ \A k \in Ops \ (SingleDispatch \cup recharged) : ChargedAsBilled(op[k])
    /\ \A c \in Calls : Running(call[c]) /\ call[c].key \notin recharged =>
         Agrees(call[c], op[call[c].key])

(* A running call has a key of the retry loop.                             *)
LEMMA RunningKeys ==
  ASSUME CallTypes, NEW c \in Calls, Running(call[c])
  PROVE  call[c].key \in Ops \ SingleDispatch
BY DEF CallTypes, CallFits, Running

(* Steps that touch the rows of one running call only.                     *)
LEMMA ChargeKept ==
  ASSUME CallTypes, RetryInv, ChargeInv, NEW c \in Calls, Moved(c),
         recharged \subseteq recharged',
         \A k \in Ops \ SingleDispatch :
            op'[k] = op[k] \/ (Running(call[c]) /\ call[c].key = k),
         Running(call[c]) /\ call[c].key \notin recharged' =>
            ChargedAsBilled(op'[call[c].key]),
         Running(call'[c]) =>
            /\ Running(call[c]) /\ call'[c].key = call[c].key
            /\ call[c].key \notin recharged' => Agrees(call'[c], op'[call[c].key])
  PROVE  ChargeInv'
<1>1. ASSUME NEW k \in Ops \ (SingleDispatch \cup recharged')
      PROVE  ChargedAsBilled(op'[k])
  <2>1. k \in Ops \ (SingleDispatch \cup recharged)
    OBVIOUS
  <2>2. CASE Running(call[c]) /\ call[c].key = k
    BY <2>2
  <2>3. CASE op'[k] = op[k]
    BY <2>1, <2>3 DEF ChargeInv
  <2> QED BY <2>1, <2>2, <2>3
<1>2. ASSUME NEW b \in Calls, Running(call'[b]), call'[b].key \notin recharged'
      PROVE  Agrees(call'[b], op'[call'[b].key])
  <2>1. CASE b = c
    BY <1>2, <2>1
  <2>2. CASE b # c
    <3>1. call'[b] = call[b] /\ Running(call[b]) /\ call[b].key \notin recharged
      BY <1>2, <2>2 DEF Moved
    <3>2. call[b].key \in Ops \ SingleDispatch
      BY <3>1, RunningKeys
    <3>3. Running(call[c]) => call[c].key # call[b].key
      BY <2>2, <3>1 DEF RetryInv
    <3>4. op'[call[b].key] = op[call[b].key]
      BY <3>2, <3>3
    <3> QED BY <3>1, <3>4 DEF ChargeInv
  <2> QED BY <2>1, <2>2
<1> QED BY <1>1, <1>2 DEF ChargeInv, ChargedAsBilled

(* A granted row is charged nothing.                                       *)
LEMMA ChargeBegins ==
  ASSUME CallTypes, TypeOK, RetryInv, ChargeInv, NEW c \in Calls, NEW k \in Ops, NEW cooled,
         Begin(c, k, cooled)
  PROVE  ChargeInv'
<1>1. /\ Moved(c) /\ call'[c].pc = IF k \in SingleDispatch THEN "armed" ELSE "calling"
      /\ call'[c].key = k /\ call'[c].attempt = 1 /\ call'[c].charged = 0
  BY BeginMoves
<1>2. op[k].status = "none" /\ recharged' = recharged
  BY DEF Begin, Grant, Free
<1>3. /\ op'[k].status = "reserved" /\ op'[k].attempts = 0 /\ op'[k].billed = 0
      /\ \A j \in Ops \ {k} : op'[j] = op[j]
  BY DEF Begin, Grant, TypeOK, NoRow
<1>4. \A j \in Ops \ (SingleDispatch \cup recharged') : ChargedAsBilled(op'[j])
  BY <1>2, <1>3 DEF ChargeInv, ChargedAsBilled, Settled
<1>5. ASSUME NEW b \in Calls, Running(call'[b]), call'[b].key \notin recharged'
      PROVE  Agrees(call'[b], op'[call'[b].key])
  <2>1. CASE b = c
    BY <1>1, <1>3, <1>5, <2>1 DEF Agrees, Running
  <2>2. CASE b # c
    <3>1. call'[b] = call[b] /\ Running(call[b]) /\ call[b].key \notin recharged
      BY <1>1, <1>2, <1>5, <2>2 DEF Moved
    <3>2. call[b].key \in Ops \ SingleDispatch
      BY <3>1, RunningKeys
    <3>3. call[b].key # k
      BY <1>2, <3>1, <3>2 DEF RetryInv
    <3>4. op'[call[b].key] = op[call[b].key]
      BY <1>3, <3>2, <3>3
    <3> QED BY <3>1, <3>4 DEF ChargeInv
  <2> QED BY <2>1, <2>2
<1> QED BY <1>4, <1>5 DEF ChargeInv, ChargedAsBilled

(* An attempt row that is written adds its charge to what is billed.       *)
LEMMA BilledRow ==
  ASSUME TypeOK, NEW k \in Ops \ SingleDispatch, NEW n \in Nat, NEW charge \in Nat,
         RecordAttempt(k, n, charge), op[k].attempts < n
  PROVE  /\ op'[k].status = op[k].status /\ op'[k].attempts = n
         /\ op'[k].billed = op[k].billed + charge
         /\ \A j \in Ops \ {k} : op'[j] = op[j]
<1>1. /\ op[k] \in Row /\ op[k].attempts \in Nat /\ ~(n <= op[k].attempts)
      /\ op[k].billed + charge \in Nat
  BY DEF TypeOK, Row
<1> DEFINE sum == op[k].billed + charge
           row == [op[k] EXCEPT !.attempts = n, !.billed = sum]
<1>2. op' = [op EXCEPT ![k] = row]
  BY <1>1 DEF RecordAttempt, TypeOK
<1>3. row.status = op[k].status /\ row.attempts = n /\ row.billed = sum
  <2> HIDE DEF sum
  <2> QED BY <1>1 DEF Row
<1> HIDE DEF row
<1> QED BY <1>2, <1>3 DEF TypeOK

(* A completion charges what the caller says.                              *)
LEMMA FinishedRow ==
  ASSUME TypeOK, NEW k \in Ops, NEW n \in Nat, NEW charge \in Nat, NEW ok \in BOOLEAN,
         Finish(k, n, charge, ok), Reserved(k)
  PROVE  /\ op'[k].status \in {"succeeded", "failed"} /\ op'[k].charged = charge
         /\ op'[k].billed = op[k].billed /\ op'[k].attempts = n
         /\ op'[k].day = op[k].day /\ op'[k].reserved = op[k].reserved
         /\ \A j \in Ops \ {k} : op'[j] = op[j]
<1>1. op[k] \in Row
  BY DEF TypeOK
<1> DEFINE status == IF ok THEN "succeeded" ELSE "failed"
           row == [op[k] EXCEPT !.status = status, !.charged = charge, !.attempts = n]
<1>2. op' = [op EXCEPT ![k] = row]
  BY DEF Finish, FinishRow, TypeOK
<1>3. /\ row.status = status /\ row.charged = charge /\ row.billed = op[k].billed
      /\ row.attempts = n /\ row.day = op[k].day /\ row.reserved = op[k].reserved
  <2> HIDE DEF status
  <2> QED BY <1>1 DEF Row
<1>4. status \in {"succeeded", "failed"}
  OBVIOUS
<1> HIDE DEF row, status
<1> QED BY <1>2, <1>3, <1>4 DEF TypeOK

(* The runner leaves rows of the retry loop alone.                         *)
LEMMA RunnerRows ==
  ASSUME CallTypes, TypeOK, NEW c \in Calls, RunnerActs(c), NEW j \in Ops \ SingleDispatch
  PROVE  op'[j] = op[j]
<1>1. call[c].key \in SingleDispatch
  BY RunnerMoves
<1>2. \/ MarkDispatch(call[c].key) \/ Release(call[c].key)
      \/ RecordAttempt(call[c].key, 1, call[c].charge)
      \/ Finish(call[c].key, 1, call[c].charge, call[c].result = "ok")
      \/ UNCHANGED ledger
  BY DEF RunnerActs, Mark, Stop, MarkRaises, Dispatch, Inspect, ReleaseCall,
         RunnerRecord, RunnerFinish, Raises
<1> QED BY <1>1, <1>2 DEF MarkDispatch, Release, RecordAttempt, Finish, FinishRow, ledger, TypeOK

(* What a booking of the retry loop writes, for a call whose memory agrees *)
(* with the row: the attempt it made, then all of its attempts.            *)
LEMMA AttemptBooked ==
  ASSUME CallTypes, TypeOK, NEW c \in Calls, Running(call[c]), call[c].pc = "recording",
         Agrees(call[c], op[call[c].key]),
         RecordAttempt(call[c].key, call[c].attempt, call[c].charge)
  PROVE  /\ op'[call[c].key].status = "reserved"
         /\ op'[call[c].key].attempts = call[c].attempt
         /\ op'[call[c].key].billed = call[c].charged
<1>1. call[c].key \in Ops \ SingleDispatch
  BY RunningKeys
<1>2. /\ call[c].attempt \in Nat /\ call[c].charge \in Nat /\ call[c].charged \in Nat
      /\ op[call[c].key].attempts = call[c].attempt - 1
      /\ call[c].charged = op[call[c].key].billed + call[c].charge
      /\ op[call[c].key].status = "reserved"
  BY DEF CallTypes, CallRow, Agrees
<1>3. op[call[c].key].attempts < call[c].attempt
  BY <1>2
<1> QED BY <1>1, <1>2, <1>3, BilledRow

(* A completion charges what the attempts were billed.                     *)
LEMMA CallBooked ==
  ASSUME CallTypes, TypeOK, NEW c \in Calls, Running(call[c]), call[c].pc = "finishing",
         Agrees(call[c], op[call[c].key]),
         Finish(call[c].key, call[c].attempt, call[c].charged, call[c].result = "ok")
  PROVE  ChargedAsBilled(op'[call[c].key])
<1>1. call[c].key \in Ops
  BY RunningKeys
<1>2. /\ call[c].attempt \in Nat /\ call[c].charged \in Nat
      /\ (call[c].result = "ok") \in BOOLEAN
      /\ op[call[c].key].billed = call[c].charged /\ Reserved(call[c].key)
  BY DEF CallTypes, CallRow, Agrees, Reserved
<1>3. /\ op'[call[c].key].charged = call[c].charged
      /\ op'[call[c].key].billed = op[call[c].key].billed
  BY <1>1, <1>2, FinishedRow
<1> QED BY <1>2, <1>3 DEF ChargedAsBilled

(* A booking touches one row.                                              *)
LEMMA BookingRows ==
  ASSUME TypeOK, NEW k \in Ops, NEW n, NEW charge, NEW ok, NEW j \in Ops \ {k},
         RecordAttempt(k, n, charge) \/ Finish(k, n, charge, ok) \/ UNCHANGED ledger
  PROVE  op'[j] = op[j]
BY DEF RecordAttempt, Finish, FinishRow, ledger, TypeOK

(* Steps of the retry loop, whether or not their booking raises.           *)
LEMMA ChargeRetries ==
  ASSUME CallTypes, TypeOK, RetryInv, ChargeInv, NEW c \in Calls, RetryActs(c)
  PROVE  ChargeInv'
<1>1. /\ Moved(c) /\ call[c].pc \in {"calling", "recording", "finishing"}
      /\ call[c].key \in Ops \ SingleDispatch /\ call'[c].key = call[c].key
  BY AttemptMoves, RecordMoves, FinishMoves, BookingRaisesMoves DEF RetryActs
<1>2. Running(call[c])
  BY <1>1 DEF Running
<1>3. recharged \subseteq recharged'
  BY DEF RetryActs, Attempt, Record, FinishCall, BookingRaises, Recharge, history
<1>4. \A k \in Ops \ SingleDispatch :
         op'[k] = op[k] \/ (Running(call[c]) /\ call[c].key = k)
  <2>1. \/ RecordAttempt(call[c].key, call[c].attempt, call[c].charge)
        \/ Finish(call[c].key, call[c].attempt, call[c].charged, call[c].result = "ok")
        \/ UNCHANGED ledger
    BY DEF RetryActs, Attempt, Record, FinishCall, BookingRaises, Raises
  <2> QED BY <1>1, <1>2, <2>1, BookingRows
<1>5. call[c].key \notin recharged' => Agrees(call[c], op[call[c].key])
  BY <1>2, <1>3 DEF ChargeInv
<1>6. call[c] \in CallRow /\ op[call[c].key] \in Row
  BY <1>1 DEF CallTypes, TypeOK
<1>7. SUFFICES ASSUME call[c].key \notin recharged'
               PROVE  /\ ChargedAsBilled(op'[call[c].key])
                      /\ Running(call'[c]) => Agrees(call'[c], op'[call[c].key])
  <2>1. Running(call'[c]) =>
           /\ Running(call[c]) /\ call'[c].key = call[c].key
           /\ call[c].key \notin recharged' => Agrees(call'[c], op'[call[c].key])
    BY <1>1, <1>2, <1>7
  <2>2. Running(call[c]) /\ call[c].key \notin recharged' => ChargedAsBilled(op'[call[c].key])
    BY <1>7
  <2> QED BY <1>1, <1>3, <1>4, <2>1, <2>2, ChargeKept
<1>8. CASE Attempt(c)
  <2>1. /\ call[c].pc = "calling" /\ call'[c].pc = "recording"
        /\ call'[c].attempt = call[c].attempt
        /\ call'[c].charged = call[c].charged + call'[c].charge
    BY <1>8, AttemptMoves
  <2>2. op' = op
    BY <1>8 DEF Attempt, ledger
  <2>3. Agrees(call'[c], op'[call[c].key])
    BY <1>5, <1>7, <2>1, <2>2 DEF Agrees
  <2>4. ChargedAsBilled(op'[call[c].key])
    BY <1>5, <1>7, <2>2 DEF Agrees, ChargedAsBilled, Settled
  <2> QED BY <2>3, <2>4
<1>9. CASE Record(c)
  <2>1. /\ call[c].pc = "recording" /\ call'[c].charged = call[c].charged
        /\ \/ call'[c].pc = "calling" /\ call'[c].attempt = call[c].attempt + 1
           \/ call'[c].pc = "finishing" /\ call'[c].attempt = call[c].attempt
    BY <1>9, RecordMoves
  <2>2. /\ op'[call[c].key].status = "reserved"
        /\ op'[call[c].key].attempts = call[c].attempt
        /\ op'[call[c].key].billed = call[c].charged
    BY <1>2, <1>5, <1>7, <1>9, <2>1, AttemptBooked DEF Record
  <2>3. call[c].attempt \in Nat
    BY <1>6 DEF CallRow
  <2> QED BY <2>1, <2>2, <2>3 DEF Agrees, ChargedAsBilled, Settled
<1>10. CASE FinishCall(c)
  <2>1. call[c].pc = "finishing" /\ call'[c].pc = "done"
    BY <1>10, FinishMoves
  <2> QED BY <1>2, <1>5, <1>7, <1>10, <2>1, CallBooked DEF FinishCall, Running
<1>11. CASE BookingRaises(c)
  <2>1. call'[c].pc = "done"
    BY <1>7, <1>11, BookingRaisesMoves
  <2>2. CASE UNCHANGED ledger
    BY <1>5, <1>7, <2>1, <2>2 DEF Agrees, ChargedAsBilled, Settled, ledger, Running
  <2>3. CASE call[c].pc = "recording" /\ RecordAttempt(call[c].key, call[c].attempt, call[c].charge)
    <3>1. op'[call[c].key].status = "reserved"
      BY <1>2, <1>5, <1>7, <2>3, AttemptBooked
    <3> QED BY <2>1, <3>1 DEF ChargedAsBilled, Settled, Running
  <2>4. CASE /\ call[c].pc = "finishing"
             /\ Finish(call[c].key, call[c].attempt, call[c].charged, call[c].result = "ok")
    BY <1>2, <1>5, <1>7, <2>1, <2>4, CallBooked DEF Running
  <2> QED BY <1>11, <2>2, <2>3, <2>4 DEF BookingRaises, Raises, At
<1> QED BY <1>8, <1>9, <1>10, <1>11 DEF RetryActs

(* Recovery, when the lease holds, settles what no live call counts on.    *)
LEMMA ChargeRecovered ==
  ASSUME CallTypes, TypeOK, ChargeInv, LeaseHolds, RecoverStale
  PROVE  ChargeInv'
<1>1. PICK S \in SUBSET Abandoned : Recover(S)
  BY DEF RecoverStale
<1>2. call' = call /\ recharged' = recharged
  BY DEF RecoverStale, history
<1>3. \A k \in Ops : op'[k] = IF k \in S THEN RecoveredRow(k) ELSE op[k]
  BY <1>1 DEF Recover
<1>4. ASSUME NEW k \in Ops \ (SingleDispatch \cup recharged')
      PROVE  ChargedAsBilled(op'[k])
  <2>1. CASE k \notin S
    BY <1>2, <1>3, <2>1 DEF ChargeInv
  <2>2. CASE k \in S
    <3>1. op'[k] = [op[k] EXCEPT !.status = "recovered", !.charged = op[k].billed]
      BY <1>3, <2>2 DEF RecoveredRow, Unsent, RecoveryCharge
    <3>2. op[k] \in Row
      BY DEF TypeOK
    <3>3. op'[k].charged = op'[k].billed
      BY <3>1, <3>2 DEF Row
    <3> QED BY <3>3 DEF ChargedAsBilled
  <2> QED BY <2>1, <2>2
<1>5. ASSUME NEW c \in Calls, Running(call'[c]), call'[c].key \notin recharged'
      PROVE  Agrees(call'[c], op'[call'[c].key])
  <2>1. call[c].key \in Ops /\ Live(c)
    BY <1>2, <1>5, RunningKeys DEF Live, Running
  <2>2. call[c].key \notin S
    BY <2>1 DEF Abandoned
  <2> QED BY <1>2, <1>3, <1>5, <2>1, <2>2 DEF ChargeInv
<1> QED BY <1>4, <1>5 DEF ChargeInv, ChargedAsBilled

(* At first nothing is charged.                                            *)
LEMMA ChargeInit == CallsInit => ChargeInv
BY DEF CallsInit, Init, Idle, NoRow, ChargeInv, ChargedAsBilled, Settled, Running

(* Every step keeps memory and rows agreed, action by action.              *)
LEMMA ChargeStep ==
  LeaseHolds /\ CallTypes /\ TypeOK /\ RetryInv /\ ChargeInv /\ [CallsNext]_vars => ChargeInv'
<1> SUFFICES ASSUME LeaseHolds, CallTypes, TypeOK, RetryInv, ChargeInv, [CallsNext]_vars
             PROVE  ChargeInv'
  OBVIOUS
<1>1. ASSUME NEW c \in Calls, NEW k \in Ops, NEW cooled \in BOOLEAN, Begin(c, k, cooled)
      PROVE  ChargeInv'
  BY <1>1, ChargeBegins
<1>2. ASSUME NEW c \in Calls, NEW k \in Ops, NEW cooled \in BOOLEAN, BeginRefused(c, k, cooled)
      PROVE  ChargeInv'
  <2>1. /\ Moved(c) /\ ~Running(call'[c]) /\ recharged' = recharged
    BY <1>2, BeginRefusedMoves DEF BeginRefused, history, Running
  <2>2. op' = op
    BY <1>2 DEF BeginRefused, Refuse, ledger
  <2>3. Running(call[c]) => call[c].key \in Ops \ SingleDispatch
    BY RunningKeys
  <2>4. ~Running(call[c])
    BY <1>2 DEF BeginRefused, At, Running
  <2> QED BY <2>1, <2>2, <2>4, ChargeKept
<1>3. ASSUME NEW c \in Calls, NEW k \in Ops, NEW cooled \in BOOLEAN, BeginRaises(c, k, cooled)
      PROVE  ChargeInv'
  <2>1. /\ Moved(c) /\ recharged' = recharged /\ call[c].pc = "idle" /\ call'[c].key = k
        /\ call'[c].pc = IF k \in SingleDispatch THEN "releasing" ELSE "done"
    BY <1>3, BeginRaisesMoves DEF BeginRaises, history
  <2>2. ~Running(call'[c]) /\ ~Running(call[c])
    BY <2>1 DEF Running
  <2>3. CASE UNCHANGED ledger
    BY <2>1, <2>2, <2>3, ChargeKept DEF ledger
  <2>4. CASE Grant(k, cooled)
    <3>1. /\ op[k].status = "none" /\ op'[k].status = "reserved"
          /\ \A j \in Ops \ {k} : op'[j] = op[j]
      BY <2>4 DEF Grant, Free, TypeOK, NoRow
    <3>2. \A j \in Ops \ (SingleDispatch \cup recharged') : ChargedAsBilled(op'[j])
      BY <2>1, <3>1 DEF ChargeInv, ChargedAsBilled, Settled
    <3>3. ASSUME NEW b \in Calls, Running(call'[b]), call'[b].key \notin recharged'
          PROVE  Agrees(call'[b], op'[call'[b].key])
      <4>1. call'[b] = call[b]
        BY <2>1, <2>2, <3>3 DEF Moved
      <4>2. call[b].key \in Ops \ SingleDispatch
        BY <3>3, <4>1, RunningKeys
      <4>3. call[b].key # k
        BY <3>1, <3>3, <4>1, <4>2 DEF RetryInv
      <4> QED BY <2>1, <3>1, <3>3, <4>1, <4>2, <4>3 DEF ChargeInv
    <3> QED BY <3>2, <3>3 DEF ChargeInv, ChargedAsBilled
  <2> QED BY <1>3, <2>3, <2>4 DEF BeginRaises, Raises
<1>4. ASSUME NEW c \in Calls, RunnerActs(c)
      PROVE  ChargeInv'
  <2>1. /\ Moved(c) /\ call[c].key \in SingleDispatch /\ call'[c].key = call[c].key
        /\ recharged' = recharged
    BY <1>4, RunnerMoves
  <2>2. ~Running(call'[c]) /\ ~Running(call[c])
    BY <2>1 DEF Running
  <2>3. \A k \in Ops \ SingleDispatch : op'[k] = op[k]
    BY <1>4, RunnerRows
  <2> QED BY <2>1, <2>2, <2>3, ChargeKept
<1>5. ASSUME NEW c \in Calls, Crash(c)
      PROVE  ChargeInv'
  <2>1. /\ Moved(c) /\ ~Running(call'[c]) /\ recharged' = recharged /\ op' = op
    BY <1>5, CrashMoves DEF Crash, history, ledger, Running
  <2>2. Running(call[c]) /\ call[c].key \notin recharged => ChargedAsBilled(op[call[c].key])
    BY DEF ChargeInv, Agrees, ChargedAsBilled, Settled
  <2> QED BY <2>1, <2>2, ChargeKept
<1>6. CASE Midnight \/ UNCHANGED vars
  BY <1>6 DEF Midnight, NextDay, history, vars, ledger, ChargeInv, ChargedAsBilled
<1> QED BY <1>1, <1>2, <1>3, <1>4, <1>5, <1>6, CallsSteps, ChargeRetries, ChargeRecovered
        DEF BeginActs

(* While leases outlast live calls, a settled operation of the retry loop  *)
(* was charged what its attempt rows add up to, whether its caller or      *)
(* recovery settled it.                                                    *)
THEOREM CallsChargeAttempts == LeaseHolds = TRUE => (CallsSpec => []ChargesMatchAttempts)
<1>1. SUFFICES ASSUME LeaseHolds PROVE CallsSpec => []ChargesMatchAttempts
  OBVIOUS
<1>2. ChargeInv => ChargesMatchAttempts
  BY DEF ChargeInv, ChargesMatchAttempts, ChargedAsBilled
<1>3. CallsBase => CallTypes /\ TypeOK /\ MarkedRows
  BY DEF CallsBase
<1>4. CallsBase /\ RetryInv /\ ChargeInv /\ [CallsNext]_vars => ChargeInv'
  BY <1>1, <1>3, ChargeStep
<1> QED BY <1>2, <1>3, <1>4, CallsBaseHolds, SendInit, SendStep, ChargeInit, PTL DEF CallsSpec

-----------------------------------------------------------------------------
(* The daily limit.                                                        *)

\* The attempts an operation reserves the budget for.
MostAttempts(k) == IF k \in SingleDispatch THEN 1 ELSE MaxAttempts

\* An open reservation covers every attempt it may be charged.
RowCovered(k) ==
    Reserved(k) =>
        /\ op[k].reserved = Reservation(k)
        /\ op[k].billed <= Estimate[k] * op[k].attempts
        /\ op[k].attempts <= MostAttempts(k)

DayWithin(d) ==
    IF budget[d].limit = NoBudget
    THEN budget[d].committed + budget[d].reserved = 0
    ELSE budget[d].committed + budget[d].reserved <= budget[d].limit

LimitInv ==
    recharged = {} =>
        /\ \A k \in Ops : RowCovered(k)
        /\ \A d \in Days : DayWithin(d)
        /\ \A c \in Calls : Running(call[c]) =>
             call[c].charged <= Estimate[call[c].key] * SentBy(call[c])

\* Transactions that charge no more than the reservation covers.
Frugal ==
    \/ \E k \in Ops, cooled \in BOOLEAN : Grant(k, cooled) \/ Refuse(k, cooled)
    \/ \E k \in Ops : MarkDispatch(k) \/ Release(k)
    \/ \E k \in Ops, n \in Nat, charge \in Nat :
         RecordAttempt(k, n, charge) /\ n <= MostAttempts(k) /\ charge <= Estimate[k]
    \/ \E k \in Ops, n \in Nat, charge \in Nat, ok \in BOOLEAN :
         Finish(k, n, charge, ok) /\ charge <= Reservation(k)
    \/ \E S \in SUBSET Ops : Recover(S)
    \/ NextDay
    \/ UNCHANGED ledger

(* The arithmetic of attempts times estimates.                             *)
LEMMA Products ==
  /\ \A a, n \in Nat : a * n \in Nat /\ a * (n + 1) = a * n + a
  /\ \A a, m, n \in Nat : m <= n => a * m <= a * n
  /\ \A a \in Nat : a * 1 = a /\ a * 0 = 0
OBVIOUS

(* A reservation is the estimate of every attempt.                         *)
LEMMA ReservationIs ==
  ASSUME NEW k \in Ops
  PROVE  /\ Reservation(k) = Estimate[k] * MostAttempts(k)
         /\ Estimate[k] \in Nat /\ MostAttempts(k) \in Nat
<1>1. Estimate[k] \in Nat /\ MaxAttempts \in Nat
  BY LedgerConstants
<1> QED BY <1>1, Products DEF Reservation, MostAttempts

(* A sum does not grow when none of its terms does.                        *)
LEMMA TotalMonotone ==
  ASSUME NEW f \in [Ops -> Nat], NEW h \in [Ops -> Nat], \A k \in Ops : h[k] <= f[k]
  PROVE  Total(h) <= Total(f)
<1> DEFINE rest == [k \in Ops |-> f[k] - h[k]]
<1>1. rest \in [Ops -> Nat]
  OBVIOUS
<1>2. f = [k \in Ops |-> h[k] + rest[k]]
  OBVIOUS
<1> HIDE DEF rest
<1>3. Total(f) = Total(h) + Total(rest)
  BY <1>1, <1>2, TotalAdds
<1>4. Total(h) \in Nat /\ Total(rest) \in Nat
  BY <1>1, TotalType
<1> QED BY <1>3, <1>4

(* Days keep within their limits when no operation's account grows.        *)
LEMMA DaysKept ==
  ASSUME TypeOK, TypeOK', AddUp, AddUp', NEW d \in Days, DayWithin(d),
         budget'[d].limit = budget[d].limit,
         \A k \in Ops : Open(d)'[k] + Spent(d)'[k] <= Open(d)[k] + Spent(d)[k]
  PROVE  DayWithin(d)'
<1> DEFINE f == [k \in Ops |-> Open(d)[k] + Spent(d)[k]]
           h == [k \in Ops |-> Open(d)'[k] + Spent(d)'[k]]
<1>1. /\ Open(d) \in [Ops -> Nat] /\ Spent(d) \in [Ops -> Nat]
      /\ Open(d)' \in [Ops -> Nat] /\ Spent(d)' \in [Ops -> Nat]
  BY ColumnTypes, ColumnTypesNext
<1>2. f \in [Ops -> Nat] /\ h \in [Ops -> Nat] /\ \A k \in Ops : h[k] <= f[k]
  BY <1>1
<1>3. Total(h) <= Total(f)
  <2> HIDE DEF f, h
  <2> QED BY <1>2, TotalMonotone
<1>4. Total(f) = Total(Open(d)) + Total(Spent(d)) /\ Total(h) = Total(Open(d)') + Total(Spent(d)')
  BY <1>1, TotalAdds
<1>5. /\ budget[d].reserved = Total(Open(d)) /\ budget[d].committed = Total(Spent(d))
      /\ budget'[d].reserved = Total(Open(d)') /\ budget'[d].committed = Total(Spent(d)')
  BY DEF AddUp, ReservationsAddUp, CommitmentsAddUp
<1>6. /\ budget[d].committed \in Nat /\ budget[d].reserved \in Nat
      /\ budget'[d].committed \in Nat /\ budget'[d].reserved \in Nat
      /\ budget[d].limit \in Nat \cup {NoBudget}
  BY DEF TypeOK, BudgetRow
<1> HIDE DEF f, h
<1>7. budget'[d].committed + budget'[d].reserved <= budget[d].committed + budget[d].reserved
  BY <1>3, <1>4, <1>5, <1>6
<1>8. budget'[d].committed + budget'[d].reserved \in Nat
      /\ budget[d].committed + budget[d].reserved \in Nat
  BY <1>6
<1>9. CASE budget[d].limit = NoBudget
  BY <1>7, <1>8, <1>9 DEF DayWithin
<1>10. CASE budget[d].limit # NoBudget
  BY <1>6, <1>7, <1>8, <1>10 DEF DayWithin
<1> QED BY <1>9, <1>10

(* A grant takes what the day can afford.                                  *)
LEMMA DaysGranted ==
  ASSUME TypeOK, NEW k \in Ops, NEW cooled, Grant(k, cooled), NEW d \in Days, DayWithin(d)
  PROVE  DayWithin(d)'
<1>1. CASE d # today
  BY <1>1 DEF Grant, TypeOK, DayWithin
<1>2. CASE d = today
  <2> DEFINE row == BudgetFor(k)
  <2>1. /\ row \in BudgetRow /\ Reservation(k) \in Nat /\ LimitFor(k) \in Nat
        /\ Estimate[k] \in Nat
    BY BudgetForType, ReservationType, LimitType, ReservationIs
  <2>2. row.limit = LimitFor(k)
    BY DEF Grant, Affordable
  <2>3. row.committed = budget[d].committed /\ row.reserved = budget[d].reserved
    BY <1>2 DEF BudgetFor, TypeOK, BudgetRow
  <2>4. budget'[d] = [row EXCEPT !.reserved = @ + Reservation(k)]
    BY <1>2 DEF Grant, TypeOK
  <2>5. row.committed \in Nat /\ row.reserved \in Nat
    BY <2>1 DEF BudgetRow
  <2>6. row.committed + row.reserved + Reservation(k) <= LimitFor(k)
    <3>1. CASE Estimate[k] > 0
      BY <3>1 DEF Grant, Affordable
    <3>2. CASE ~(Estimate[k] > 0)
      <4>1. Reservation(k) = 0
        BY <2>1, <3>2, ReservationIs, Products
      <4>2. budget[d].committed + budget[d].reserved <= LimitFor(k)
        <5>1. CASE budget[d].limit = NoBudget
          BY <2>1, <5>1 DEF DayWithin
        <5>2. CASE budget[d].limit # NoBudget
          BY <1>2, <2>2, <5>2 DEF DayWithin, BudgetFor
        <5> QED BY <5>1, <5>2
      <4> QED BY <2>3, <2>5, <4>1, <4>2
    <3> QED BY <3>1, <3>2
  <2> HIDE DEF row
  <2>7. /\ budget'[d].limit = LimitFor(k) /\ budget'[d].committed = row.committed
        /\ budget'[d].reserved = row.reserved + Reservation(k)
    BY <2>1, <2>2, <2>4 DEF BudgetRow
  <2> QED BY <2>1, <2>5, <2>6, <2>7 DEF DayWithin, NoBudget
<1> QED BY <1>1, <1>2

(* What an open reservation was billed is within it.                       *)
LEMMA BilledCovered ==
  ASSUME TypeOK, NEW k \in Ops, Reserved(k), RowCovered(k)
  PROVE  op[k].billed <= Reservation(k) /\ op[k].reserved = Reservation(k)
<1>1. op[k].attempts \in Nat /\ op[k].billed \in Nat
  BY DEF TypeOK, Row
<1> QED BY <1>1, ReservationIs, Products DEF RowCovered

\* Nothing operation k holds or has cost grows in this step.
Shrinks(k) ==
    \A d \in Days : Open(d)'[k] + Spent(d)'[k] <= Open(d)[k] + Spent(d)[k]

(* A row that keeps its amounts.                                           *)
LEMMA SameRowShrinks ==
  ASSUME TypeOK, NEW k \in Ops,
         op'[k].status = op[k].status, op'[k].day = op[k].day,
         op'[k].reserved = op[k].reserved, op'[k].charged = op[k].charged
  PROVE  Shrinks(k)
<1> SUFFICES ASSUME NEW d \in Days
             PROVE  Open(d)'[k] + Spent(d)'[k] <= Open(d)[k] + Spent(d)[k]
  BY DEF Shrinks
<1>1. Open(d)'[k] = Open(d)[k] /\ Spent(d)'[k] = Spent(d)[k]
  BY DEF Open, Spent, Reserved
<1>2. Open(d)[k] \in Nat /\ Spent(d)[k] \in Nat
  BY ColumnTypes
<1> QED BY <1>1, <1>2

(* A row that is deleted.                                                  *)
LEMMA ReleasedRowShrinks ==
  ASSUME TypeOK, NEW k \in Ops, op'[k].status = "none"
  PROVE  Shrinks(k)
<1> SUFFICES ASSUME NEW d \in Days
             PROVE  Open(d)'[k] + Spent(d)'[k] <= Open(d)[k] + Spent(d)[k]
  BY DEF Shrinks
<1>1. Open(d)'[k] = 0 /\ Spent(d)'[k] = 0
  BY DEF Open, Spent, Reserved, Settled
<1>2. Open(d)[k] \in Nat /\ Spent(d)[k] \in Nat
  BY ColumnTypes
<1> QED BY <1>1, <1>2

(* A reservation that is settled within its amount.                        *)
LEMMA SettledRowShrinks ==
  ASSUME TypeOK, NEW k \in Ops, Reserved(k), op'[k].status \in Settled,
         op'[k].day = op[k].day, op'[k].charged \in Nat, op'[k].charged <= op[k].reserved
  PROVE  Shrinks(k)
<1> SUFFICES ASSUME NEW d \in Days
             PROVE  Open(d)'[k] + Spent(d)'[k] <= Open(d)[k] + Spent(d)[k]
  BY DEF Shrinks
<1>1. /\ Open(d)'[k] = 0 /\ Spent(d)'[k] = IF op[k].day = d THEN op'[k].charged ELSE 0
      /\ Open(d)[k] = (IF op[k].day = d THEN op[k].reserved ELSE 0) /\ Spent(d)[k] = 0
  BY DEF Open, Spent, Reserved, Settled
<1>2. op[k].reserved \in Nat
  BY DEF TypeOK, Row
<1> QED BY <1>1, <1>2

(* Every frugal transaction but a grant shrinks every account.             *)
LEMMA FrugalShrinks ==
  ASSUME TypeOK, \A k \in Ops : RowCovered(k), Frugal,
         ~ \E k \in Ops, cooled \in BOOLEAN : Grant(k, cooled), NEW j \in Ops
  PROVE  Shrinks(j)
<1>1. ASSUME NEW k \in Ops, NEW cooled \in BOOLEAN, Refuse(k, cooled)
      PROVE  Shrinks(j)
  BY <1>1, SameRowShrinks DEF Refuse, ledger
<1>2. ASSUME NEW k \in Ops, MarkDispatch(k)
      PROVE  Shrinks(j)
  BY <1>2, SameRowShrinks DEF MarkDispatch, TypeOK, Row
<1>3. ASSUME NEW k \in Ops, Release(k)
      PROVE  Shrinks(j)
  BY <1>3, SameRowShrinks, ReleasedRowShrinks DEF Release, TypeOK, NoRow
<1>4. ASSUME NEW k \in Ops, NEW n \in Nat, NEW charge \in Nat, RecordAttempt(k, n, charge)
      PROVE  Shrinks(j)
  BY <1>4, SameRowShrinks DEF RecordAttempt, TypeOK, Row
<1>5. ASSUME NEW k \in Ops, NEW n \in Nat, NEW charge \in Nat, NEW ok \in BOOLEAN,
             Finish(k, n, charge, ok), charge <= Reservation(k)
      PROVE  Shrinks(j)
  <2>1. CASE ~Reserved(k)
    BY <1>5, <2>1, SameRowShrinks DEF Finish, ledger
  <2>2. CASE Reserved(k)
    <3>1. /\ op'[k].status \in Settled /\ op'[k].charged = charge /\ op'[k].day = op[k].day
          /\ \A i \in Ops \ {k} : op'[i] = op[i]
      BY <1>5, <2>2, FinishedRow DEF Settled
    <3>2. op[k].reserved = Reservation(k)
      BY <2>2, BilledCovered
    <3> QED BY <1>5, <2>2, <3>1, <3>2, SameRowShrinks, SettledRowShrinks
  <2> QED BY <2>1, <2>2
<1>6. ASSUME NEW S \in SUBSET Ops, Recover(S)
      PROVE  Shrinks(j)
  <2>1. CASE j \notin S
    BY <1>6, <2>1, SameRowShrinks DEF Recover
  <2>2. CASE j \in S
    <3>1. Reserved(j) /\ op'[j] = RecoveredRow(j)
      BY <1>6, <2>2 DEF Recover
    <3>2. CASE Unsent(j)
      BY <3>1, <3>2, ReleasedRowShrinks DEF RecoveredRow, NoRow
    <3>3. CASE ~Unsent(j)
      <4>1. op[j] \in Row /\ RecoveryCharge(j) \in Nat
        BY ColumnTypes, LedgerConstants DEF TypeOK, Days
      <4>2. op'[j] = [op[j] EXCEPT !.status = "recovered", !.charged = RecoveryCharge(j)]
        BY <3>1, <3>3 DEF RecoveredRow
      <4>3. /\ op'[j].status \in Settled /\ op'[j].charged = RecoveryCharge(j)
            /\ op'[j].day = op[j].day
        BY <4>1, <4>2 DEF Row, Settled
      <4>4. RecoveryCharge(j) <= op[j].reserved
        <5>1. op[j].billed <= op[j].reserved /\ op[j].reserved \in Nat
          BY <3>1, <4>1, BilledCovered DEF Row
        <5> QED BY <5>1 DEF RecoveryCharge
      <4> QED BY <3>1, <4>1, <4>3, <4>4, SettledRowShrinks
    <3> QED BY <3>2, <3>3
  <2> QED BY <2>1, <2>2
<1>7. CASE NextDay \/ UNCHANGED ledger
  BY <1>7, SameRowShrinks DEF NextDay, ledger
<1> QED BY <1>1, <1>2, <1>3, <1>4, <1>5, <1>6, <1>7 DEF Frugal

(* Only grants and refusals set the limit of a day.                        *)
LEMMA FrugalLimits ==
  ASSUME TypeOK, Frugal, ~ \E k \in Ops, cooled \in BOOLEAN : Grant(k, cooled),
         NEW d \in Days
  PROVE  \/ budget'[d].limit = budget[d].limit
         \/ \E k \in Ops, cooled \in BOOLEAN : Refuse(k, cooled)
<1>1. ASSUME NEW k \in Ops, MarkDispatch(k) \/ Release(k)
      PROVE  budget'[d].limit = budget[d].limit
  BY <1>1 DEF MarkDispatch, Release, TypeOK, BudgetRow
<1>2. ASSUME NEW k \in Ops, NEW n \in Nat, NEW charge \in Nat, RecordAttempt(k, n, charge)
      PROVE  budget'[d].limit = budget[d].limit
  BY <1>2 DEF RecordAttempt
<1>3. ASSUME NEW k \in Ops, NEW n \in Nat, NEW charge \in Nat, NEW ok \in BOOLEAN,
             Finish(k, n, charge, ok)
      PROVE  budget'[d].limit = budget[d].limit
  BY <1>3 DEF Finish, TypeOK, BudgetRow, ledger
<1>4. ASSUME NEW S \in SUBSET Ops, Recover(S)
      PROVE  budget'[d].limit = budget[d].limit
  BY <1>4 DEF Recover, RecoveredBudget, TypeOK, BudgetRow
<1>5. CASE NextDay \/ UNCHANGED ledger
  BY <1>5 DEF NextDay, ledger
<1> QED BY <1>1, <1>2, <1>3, <1>4, <1>5 DEF Frugal

(* A refusal may create the day's row, with nothing on it.                 *)
LEMMA DaysRefused ==
  ASSUME TypeOK, NEW k \in Ops, NEW cooled, Refuse(k, cooled), NEW d \in Days, DayWithin(d)
  PROVE  DayWithin(d)'
<1>1. CASE budget'[d] = budget[d]
  BY <1>1 DEF DayWithin
<1>2. CASE budget'[d] # budget[d]
  <2>1. d = today /\ budget'[d] = BudgetFor(k) /\ budget[d].limit = NoBudget
    BY <1>2 DEF Refuse, ledger, TypeOK, BudgetFor
  <2>2. budget'[d] = [budget[d] EXCEPT !.limit = LimitFor(k)]
    BY <2>1 DEF BudgetFor
  <2>3. LimitFor(k) \in Nat /\ budget[d] \in BudgetRow
    BY LimitType DEF TypeOK
  <2>4. /\ budget'[d].limit = LimitFor(k) /\ budget'[d].committed = budget[d].committed
        /\ budget'[d].reserved = budget[d].reserved
    BY <2>2, <2>3 DEF BudgetRow
  <2>5. budget[d].committed + budget[d].reserved = 0
    BY <2>1 DEF DayWithin
  <2> QED BY <2>3, <2>4, <2>5 DEF DayWithin, NoBudget
<1> QED BY <1>1, <1>2

(* No frugal transaction takes a day over its limit.                       *)
LEMMA DaysFrugal ==
  ASSUME TypeOK, TypeOK', AddUp, AddUp', \A k \in Ops : RowCovered(k), Frugal,
         NEW d \in Days, DayWithin(d)
  PROVE  DayWithin(d)'
<1>1. CASE \E k \in Ops, cooled \in BOOLEAN : Grant(k, cooled)
  BY <1>1, DaysGranted
<1>2. CASE \E k \in Ops, cooled \in BOOLEAN : Refuse(k, cooled)
  BY <1>2, DaysRefused
<1>3. CASE /\ ~ \E k \in Ops, cooled \in BOOLEAN : Grant(k, cooled)
           /\ ~ \E k \in Ops, cooled \in BOOLEAN : Refuse(k, cooled)
  <2>1. budget'[d].limit = budget[d].limit
    BY <1>3, FrugalLimits
  <2>2. \A k \in Ops : Shrinks(k)
    BY <1>3, FrugalShrinks
  <2> QED BY <2>1, <2>2, DaysKept DEF Shrinks
<1> QED BY <1>1, <1>2, <1>3

(* Reservations go on covering the attempts they are charged.              *)
LEMMA RowsFrugal ==
  ASSUME TypeOK, \A k \in Ops : RowCovered(k), Frugal, NEW j \in Ops
  PROVE  RowCovered(j)'
<1> USE DEF Reserved
<1>a. op[j] \in Row /\ RowCovered(j)
  BY DEF TypeOK
<1>b. op'[j] = op[j] => RowCovered(j)'
  BY <1>a DEF RowCovered
<1>c. op'[j].status # "reserved" => RowCovered(j)'
  BY DEF RowCovered
<1>1. ASSUME NEW k \in Ops, NEW cooled \in BOOLEAN, Grant(k, cooled)
      PROVE  RowCovered(j)'
  <2>1. j # k => op'[j] = op[j]
    BY <1>1 DEF Grant, TypeOK
  <2>2. op'[k].reserved = Reservation(k) /\ op'[k].billed = 0 /\ op'[k].attempts = 0
    BY <1>1 DEF Grant, TypeOK, NoRow
  <2>3. Estimate[k] * 0 = 0 /\ 0 <= MostAttempts(k)
    BY ReservationIs, Products
  <2>4. RowCovered(k)'
    BY <2>2, <2>3 DEF RowCovered
  <2> QED BY <1>b, <2>1, <2>4
<1>2. ASSUME NEW k \in Ops, NEW cooled \in BOOLEAN, Refuse(k, cooled)
      PROVE  RowCovered(j)'
  BY <1>2, <1>b DEF Refuse, ledger
<1>3. ASSUME NEW k \in Ops, MarkDispatch(k)
      PROVE  RowCovered(j)'
  <2>1. /\ op'[j].status = op[j].status /\ op'[j].reserved = op[j].reserved
        /\ op'[j].billed = op[j].billed /\ op'[j].attempts = op[j].attempts
    BY <1>3 DEF MarkDispatch, TypeOK, Row
  <2> QED BY <1>a, <2>1 DEF RowCovered
<1>4. ASSUME NEW k \in Ops, Release(k)
      PROVE  RowCovered(j)'
  BY <1>4, <1>b, <1>c DEF Release, TypeOK, NoRow
<1>5. ASSUME NEW k \in Ops, NEW n \in Nat, NEW charge \in Nat, RecordAttempt(k, n, charge),
             n <= MostAttempts(k), charge <= Estimate[k]
      PROVE  RowCovered(j)'
  <2>1. CASE j # k \/ n <= op[k].attempts
    <3>1. op'[j] = op[j]
      BY <1>5, <2>1 DEF RecordAttempt, TypeOK
    <3> QED BY <1>b, <3>1
  <2>2. CASE j = k /\ ~(n <= op[k].attempts)
    <3> DEFINE sum == op[k].billed + charge
               row == [op[k] EXCEPT !.attempts = n, !.billed = sum]
    <3>1. op' = [op EXCEPT ![k] = row]
      BY <1>5, <2>2 DEF RecordAttempt, TypeOK
    <3>2. /\ row.status = op[k].status /\ row.reserved = op[k].reserved
          /\ row.attempts = n /\ row.billed = sum
      <4> HIDE DEF sum
      <4> QED BY <1>a, <2>2 DEF Row
    <3>3. op'[k] = row
      BY <3>1 DEF TypeOK
    <3>4. SUFFICES ASSUME Reserved(k) PROVE sum <= Estimate[k] * n
      <4> HIDE DEF row, sum
      <4> QED BY <1>5, <1>a, <2>2, <3>2, <3>3, <3>4 DEF RowCovered
    <3>5. /\ op[k].attempts \in Nat /\ op[k].billed \in Nat /\ Estimate[k] \in Nat
          /\ op[k].billed <= Estimate[k] * op[k].attempts
      BY <1>a, <2>2, <3>4, ReservationIs DEF Row, RowCovered
    <3>6. op[k].attempts + 1 \in Nat /\ op[k].attempts + 1 <= n
      BY <2>2, <3>5
    <3>7. Estimate[k] * (op[k].attempts + 1) = Estimate[k] * op[k].attempts + Estimate[k]
      BY <3>5, Products
    <3>8. Estimate[k] * (op[k].attempts + 1) <= Estimate[k] * n
      BY <3>5, <3>6, Products
    <3>9. Estimate[k] * op[k].attempts \in Nat /\ Estimate[k] * n \in Nat
      BY <3>5, Products
    <3> QED BY <1>5, <3>5, <3>7, <3>8, <3>9
  <2> QED BY <2>1, <2>2
<1>6. ASSUME NEW k \in Ops, NEW n \in Nat, NEW charge \in Nat, NEW ok \in BOOLEAN,
             Finish(k, n, charge, ok)
      PROVE  RowCovered(j)'
  <2>1. CASE ~Reserved(k)
    BY <1>6, <1>b, <2>1 DEF Finish, ledger
  <2>2. CASE Reserved(k)
    BY <1>6, <1>b, <1>c, <2>2, FinishedRow
  <2> QED BY <2>1, <2>2
<1>7. ASSUME NEW S \in SUBSET Ops, Recover(S)
      PROVE  RowCovered(j)'
  <2>1. CASE j \notin S
    BY <1>7, <1>b, <2>1 DEF Recover
  <2>2. CASE j \in S
    <3>1. op'[j] = RecoveredRow(j)
      BY <1>7, <2>2 DEF Recover
    <3>2. op'[j].status # "reserved"
      BY <1>a, <3>1 DEF RecoveredRow, NoRow, Row
    <3> QED BY <1>c, <3>2
  <2> QED BY <2>1, <2>2
<1>8. CASE NextDay \/ UNCHANGED ledger
  BY <1>8, <1>b DEF NextDay, ledger
<1> QED BY <1>1, <1>2, <1>3, <1>4, <1>5, <1>6, <1>7, <1>8 DEF Frugal

\* What a running call has cost so far is covered.
CallCovered(c) == Running(call[c]) => call[c].charged <= Estimate[call[c].key] * SentBy(call[c])

(* As long as no attempt is charged twice, callers only run frugal         *)
(* transactions.                                                           *)
LEMMA CallsFrugal ==
  ASSUME CallTypes, [CallsNext]_vars, recharged' = {}, recharged = {},
         \A c \in Calls : CallCovered(c)
  PROVE  Frugal
<1>1. ASSUME NEW c \in Calls, NEW k \in Ops, NEW cooled \in BOOLEAN, BeginActs(c, k, cooled)
      PROVE  Frugal
  BY <1>1 DEF BeginActs, Begin, BeginRefused, BeginRaises, Raises, Frugal
<1>2. ASSUME NEW c \in Calls, RetryActs(c)
      PROVE  Frugal
  <2>1. /\ call[c].key \in Ops \ SingleDispatch
        /\ call[c].pc \in {"calling", "recording", "finishing"}
    BY <1>2, AttemptMoves, RecordMoves, FinishMoves, BookingRaisesMoves DEF RetryActs
  <2>2. /\ call[c].attempt \in Nat /\ call[c].attempt <= MaxAttempts
        /\ call[c].charge \in Nat /\ call[c].charged \in Nat
        /\ (call[c].result = "ok") \in BOOLEAN /\ call[c].charge <= Estimate[call[c].key]
    BY <2>1, LedgerConstants DEF CallTypes, CallRow, CallFits
  <2>3. call[c].pc # "calling" => call[c].charged <= Reservation(call[c].key)
    <3>1. SUFFICES ASSUME call[c].pc # "calling"
                   PROVE  call[c].charged <= Reservation(call[c].key)
      OBVIOUS
    <3>2. call[c].charged <= Estimate[call[c].key] * call[c].attempt
      BY <2>1, <3>1 DEF CallCovered, Running, SentBy
    <3>3. /\ Estimate[call[c].key] \in Nat /\ MostAttempts(call[c].key) = MaxAttempts
          /\ Reservation(call[c].key) = Estimate[call[c].key] * MaxAttempts
          /\ MaxAttempts \in Nat
      BY <2>1, ReservationIs, LedgerConstants DEF MostAttempts
    <3>4. Estimate[call[c].key] * call[c].attempt <= Estimate[call[c].key] * MaxAttempts
      BY <2>2, <3>3, Products
    <3>5. Estimate[call[c].key] * call[c].attempt \in Nat
          /\ Estimate[call[c].key] * MaxAttempts \in Nat
      BY <2>2, <3>3, Products
    <3> QED BY <2>2, <3>2, <3>3, <3>4, <3>5
  <2>4. \/ RecordAttempt(call[c].key, call[c].attempt, call[c].charge)
        \/ /\ Finish(call[c].key, call[c].attempt, call[c].charged, call[c].result = "ok")
           /\ call[c].pc = "finishing"
        \/ UNCHANGED ledger
    BY <1>2 DEF RetryActs, Attempt, Record, FinishCall, BookingRaises, Raises, At
  <2>5. call[c].attempt <= MostAttempts(call[c].key)
    BY <2>1, <2>2 DEF MostAttempts
  <2> QED BY <2>1, <2>2, <2>3, <2>4, <2>5 DEF Frugal
<1>3. ASSUME NEW c \in Calls, RunnerActs(c)
      PROVE  Frugal
  <2>1. call[c].key \in SingleDispatch /\ call[c].key \in Ops
    BY <1>3, RunnerMoves, LedgerConstants
  <2>2. /\ call[c].charge \in Nat /\ call[c].charge <= Estimate[call[c].key] /\ 1 \in Nat
        /\ (call[c].result = "ok") \in BOOLEAN
    BY <2>1 DEF CallTypes, CallRow, CallFits
  <2>3. Reservation(call[c].key) = Estimate[call[c].key] /\ 1 <= MostAttempts(call[c].key)
    BY <2>1 DEF Reservation, MostAttempts
  <2>4. \/ MarkDispatch(call[c].key) \/ Release(call[c].key)
        \/ RecordAttempt(call[c].key, 1, call[c].charge)
        \/ Finish(call[c].key, 1, call[c].charge, call[c].result = "ok")
        \/ UNCHANGED ledger
    BY <1>3 DEF RunnerActs, Mark, Stop, MarkRaises, Dispatch, Inspect, ReleaseCall,
                RunnerRecord, RunnerFinish, Raises
  <2> QED BY <2>1, <2>2, <2>3, <2>4 DEF Frugal
<1>4. ASSUME NEW c \in Calls, Crash(c)
      PROVE  Frugal
  BY <1>4 DEF Crash, Frugal
<1>5. ASSUME RecoverStale
      PROVE  Frugal
  <2>1. Abandoned \subseteq Ops
    BY DEF Abandoned, Reservations
  <2>2. PICK S \in SUBSET Abandoned : Recover(S)
    BY <1>5 DEF RecoverStale
  <2> QED BY <2>1, <2>2 DEF Frugal
<1>6. CASE Midnight \/ UNCHANGED vars
  BY <1>6 DEF Midnight, vars, Frugal
<1> QED BY <1>1, <1>2, <1>3, <1>4, <1>5, <1>6, CallsSteps

(* What a call has cost stays covered by the attempts it made.             *)
LEMMA CallsCovered ==
  ASSUME CallTypes, [CallsNext]_vars, recharged' = {}, recharged = {},
         \A c \in Calls : CallCovered(c), NEW b \in Calls
  PROVE  CallCovered(b)'
<1>a. ASSUME NEW c \in Calls, Moved(c), ~Running(call'[c])
      PROVE  CallCovered(b)'
  BY <1>a DEF Moved, CallCovered
<1>b. ASSUME NEW c \in Calls, Moved(c), CallCovered(c)'
      PROVE  CallCovered(b)'
  <2>1. CASE b = c
    BY <1>b, <2>1
  <2>2. CASE b # c
    BY <1>b, <2>2 DEF Moved, CallCovered
  <2> QED BY <2>1, <2>2
<1>1. ASSUME NEW c \in Calls, NEW k \in Ops, NEW cooled \in BOOLEAN, Begin(c, k, cooled)
      PROVE  CallCovered(b)'
  <2>1. /\ Moved(c) /\ call'[c].key = k /\ call'[c].attempt = 1 /\ call'[c].charged = 0
        /\ call'[c].pc = IF k \in SingleDispatch THEN "armed" ELSE "calling"
    BY <1>1, BeginMoves
  <2>2. Estimate[k] * 0 = 0
    BY ReservationIs, Products
  <2>3. k \notin SingleDispatch => SentBy(call'[c]) = 0
    BY <2>1 DEF SentBy
  <2>4. CallCovered(c)'
    BY <2>1, <2>2, <2>3 DEF CallCovered, Running
  <2> QED BY <1>b, <2>1, <2>4
<1>2. ASSUME NEW c \in Calls, NEW k \in Ops, NEW cooled \in BOOLEAN,
             BeginRefused(c, k, cooled) \/ BeginRaises(c, k, cooled)
      PROVE  CallCovered(b)'
  BY <1>2, <1>a, BeginRefusedMoves, BeginRaisesMoves DEF Running
<1>3. ASSUME NEW c \in Calls, Attempt(c)
      PROVE  CallCovered(b)'
  <2>1. /\ Moved(c) /\ call[c].pc = "calling" /\ call[c].key \in Ops \ SingleDispatch
        /\ call'[c].pc = "recording" /\ call'[c].key = call[c].key
        /\ call'[c].attempt = call[c].attempt
        /\ call'[c].charged = call[c].charged + call'[c].charge
    BY <1>3, AttemptMoves
  <2> DEFINE e == Estimate[call[c].key]
             m == call[c].attempt - 1
  <2>2. e \in Nat /\ m \in Nat /\ call[c].charged \in Nat /\ call'[c].charge \in Nat
    BY <2>1, ReservationIs, LedgerConstants DEF CallTypes, CallRow, Moved
  <2>3. call[c].charged <= e * m
    BY <2>1 DEF CallCovered, Running, SentBy
  <2>4. call'[c].charge <= e
    BY <2>1 DEF Moved, CallFits
  <2>5. call[c].attempt = m + 1
    BY <2>1, LedgerConstants DEF CallTypes, CallRow
  <2>6. SentBy(call'[c]) = m + 1
    BY <2>1, <2>5 DEF SentBy
  <2> HIDE DEF m
  <2>7. e * (m + 1) = e * m + e /\ e * m \in Nat
    BY <2>2, Products
  <2>8. call'[c].charged <= e * (m + 1)
    BY <2>1, <2>2, <2>3, <2>4, <2>7
  <2>9. CallCovered(c)'
    BY <2>1, <2>6, <2>8 DEF CallCovered
  <2> QED BY <1>b, <2>1, <2>9
<1>4. ASSUME NEW c \in Calls, Record(c)
      PROVE  CallCovered(b)'
  <2>1. /\ Moved(c) /\ call[c].pc = "recording" /\ call[c].key \in Ops \ SingleDispatch
        /\ call'[c].key = call[c].key /\ call'[c].charged = call[c].charged
        /\ \/ call'[c].pc = "calling" /\ call'[c].attempt = call[c].attempt + 1
           \/ call'[c].pc = "finishing" /\ call'[c].attempt = call[c].attempt
    BY <1>4, RecordMoves
  <2>2. call[c].attempt \in Nat
    BY LedgerConstants DEF CallTypes, CallRow
  <2>3. SentBy(call'[c]) = call[c].attempt
    BY <2>1, <2>2 DEF SentBy
  <2>4. Running(call[c]) /\ SentBy(call[c]) = call[c].attempt
    BY <2>1 DEF SentBy, Running
  <2>5. CallCovered(c)'
    BY <2>1, <2>3, <2>4 DEF CallCovered
  <2> QED BY <1>b, <2>1, <2>5
<1>5. ASSUME NEW c \in Calls, FinishCall(c) \/ BookingRaises(c)
      PROVE  CallCovered(b)'
  <2>1. Moved(c) /\ call'[c].pc = "done"
    BY <1>5, FinishMoves, BookingRaisesMoves
  <2> QED BY <1>a, <2>1 DEF Running
<1>6. ASSUME NEW c \in Calls, RunnerActs(c)
      PROVE  CallCovered(b)'
  BY <1>6, <1>a, RunnerMoves DEF Running
<1>7. ASSUME NEW c \in Calls, Crash(c)
      PROVE  CallCovered(b)'
  BY <1>7, <1>a, CrashMoves DEF Running
<1>8. CASE RecoverStale \/ Midnight \/ UNCHANGED vars
  BY <1>8 DEF RecoverStale, Midnight, vars, CallCovered
<1> QED BY <1>1, <1>2, <1>3, <1>4, <1>5, <1>6, <1>7, <1>8, CallsSteps
        DEF BeginActs, RetryActs

(* A second charge is never forgotten.                                     *)
LEMMA RechargedGrows ==
  ASSUME CallTypes, [CallsNext]_vars
  PROVE  recharged \subseteq recharged'
BY CallsSteps, RunnerMoves
   DEF BeginActs, Begin, BeginRefused, BeginRaises, RetryActs, Attempt, Record, FinishCall,
       BookingRaises, Recharge, Crash, RecoverStale, Midnight, history, vars

(* At first no day has a row.                                              *)
LEMMA LimitInit == CallsInit => LimitInv
BY LedgerConstants
   DEF CallsInit, Init, Idle, NoRow, LimitInv, RowCovered, Reserved, DayWithin, Running

(* Every step keeps the limits while nothing is charged twice.             *)
LEMMA LimitStep ==
  CallsBase /\ CallsBase' /\ LimitInv /\ [CallsNext]_vars => LimitInv'
<1> SUFFICES ASSUME CallsBase, CallsBase', LimitInv, [CallsNext]_vars, recharged' = {}
             PROVE  /\ \A k \in Ops : RowCovered(k)'
                    /\ \A d \in Days : DayWithin(d)'
                    /\ \A c \in Calls : CallCovered(c)'
  BY DEF LimitInv, CallCovered
<1>1. CallTypes /\ TypeOK /\ TypeOK' /\ AddUp /\ AddUp'
  BY DEF CallsBase
<1>2. recharged = {}
  BY <1>1, RechargedGrows
<1>3. /\ \A k \in Ops : RowCovered(k)
      /\ \A d \in Days : DayWithin(d)
      /\ \A c \in Calls : CallCovered(c)
  BY <1>2 DEF LimitInv, CallCovered
<1>4. Frugal
  BY <1>1, <1>2, <1>3, CallsFrugal
<1> QED BY <1>1, <1>2, <1>3, <1>4, RowsFrugal, DaysFrugal, CallsCovered

(* A day never commits and reserves more than its limit, unless a booking  *)
(* that raised after a success had an attempt charged again.               *)
THEOREM CallsKeepTheLimit == CallsSpec => []WithinDailyLimit
<1>1. LimitInv => WithinDailyLimit
  BY DEF LimitInv, WithinDailyLimit, DayWithin
<1> QED BY <1>1, CallsBaseHolds, LimitInit, LimitStep, PTL DEF CallsSpec
=============================================================================
