--------------------------- MODULE ListProofs ---------------------------
(***************************************************************************)
(* What the operations on a queue do to the ids its lists hold, for lists  *)
(* of any length: the lemmas the proofs about the queues cite.             *)
(***************************************************************************)
EXTENDS WorkQueue, Orders, TLAPS, WellFoundedInduction, FiniteSetTheorems, SequenceTheorems

-----------------------------------------------------------------------------
(* Lists and the sets of their ids.                                        *)

\* Every nonempty set of naturals has a least element.
LEMMA LeastIndex ==
  ASSUME NEW T \in SUBSET Nat, T # {}
  PROVE  \E m \in T : \A n \in T : m <= n
<1> DEFINE R == OpToRel(<, Nat)
<1>1. IsWellFoundedOn(R, Nat)
  BY NatLessThanWellFounded, Zenon
<1>2. \A x, y \in Nat : <<x, y>> \in R <=> x < y
  BY DEF OpToRel
<1> HIDE DEF R
<1>3. PICK m \in T : \A n \in T : ~ (<<n, m>> \in R)
  BY <1>1, WFMin, Zenon
<1>4. \A x \in T : x \in Nat
  OBVIOUS
<1>5. \A n \in T : ~ (n < m)
  BY <1>2, <1>3, <1>4
<1>6. \A n \in T : m <= n
  BY <1>4, <1>5
<1> QED
  BY <1>6

\* A push.
LEMMA PushIds ==
    ASSUME NEW S, NEW s \in Seq(S), NEW id \in S
    PROVE  /\ Append(s, id) \in Seq(S)
           /\ ToSet(Append(s, id)) = ToSet(s) \cup {id}
BY AppendProperties, LenProperties DEF ToSet

-----------------------------------------------------------------------------
(* LREM.                                                                   *)

\* g[0..m] are the lists that remain of the first 0..m ids of s.
IsKept(g, s, T, m) ==
    g = [i \in 0 .. m |-> IF i = 0 THEN <<>>
                          ELSE IF s[i] \in T THEN g[i - 1] ELSE Append(g[i - 1], s[i])]

\* What remains of each prefix of a list exists ...
LEMMA KeptExists ==
    ASSUME NEW S, NEW s \in Seq(S), NEW T
    PROVE  \E g : IsKept(g, s, T, Len(s))
<1> DEFINE Bad == {m \in 0 .. Len(s) : ~ \E g : IsKept(g, s, T, m)}
<1>n. Len(s) \in Nat
  BY LenProperties
<1>1. SUFFICES ASSUME Bad # {} PROVE FALSE
  BY <1>n
<1>2. PICK m \in Bad : \A n \in Bad : m <= n
  <2>1. Bad \in SUBSET Nat
    OBVIOUS
  <2> QED
    BY <1>1, <2>1, LeastIndex
<1>3. m # 0
  <2>1. SUFFICES ASSUME m = 0 PROVE \E g : IsKept(g, s, T, 0)
    OBVIOUS
  <2> DEFINE z == [i \in 0 .. 0 |-> <<>>]
  <2>2. z = [i \in 0 .. 0 |-> IF i = 0 THEN <<>>
                          ELSE IF s[i] \in T THEN z[i - 1] ELSE Append(z[i - 1], s[i])]
    OBVIOUS
  <2> QED
    BY <2>2 DEF IsKept
<1>4. m \in Nat /\ m - 1 \in 0 .. Len(s) /\ m - 1 \notin Bad
  <2>1. m \in 0 .. Len(s)
    OBVIOUS
  <2>2. m - 1 \in 0 .. Len(s) /\ ~(m <= m - 1)
    BY <1>n, <2>1, <1>3
  <2> HIDE DEF Bad
  <2> QED
    BY <1>2, <2>1, <2>2
<1>5. PICK g : IsKept(g, s, T, m - 1)
  BY <1>4
<1> DEFINE h == [i \in 0 .. m |-> IF i = 0 THEN <<>>
                                  ELSE IF s[i] \in T THEN g[i - 1] ELSE Append(g[i - 1], s[i])]
<1>6. \A i \in 0 .. (m - 1) : h[i] = g[i]
  <2> SUFFICES ASSUME NEW i \in 0 .. (m - 1) PROVE h[i] = g[i]
    OBVIOUS
  <2>1. i \in 0 .. m
    BY <1>4
  <2>2. g[i] = IF i = 0 THEN <<>> ELSE IF s[i] \in T THEN g[i - 1] ELSE Append(g[i - 1], s[i])
    BY <1>5 DEF IsKept
  <2> QED
    BY <2>1, <2>2
<1>7. IsKept(h, s, T, m)
  <2>1. \A i \in 0 .. m : i # 0 => i - 1 \in 0 .. (m - 1)
    BY <1>3, <1>4
  <2> QED
    BY <1>6, <2>1 DEF IsKept
<1> QED
  BY <1>2, <1>7

\* ... and holds the ids of the prefix that are not in T.
LEMMA KeptIds ==
    ASSUME NEW S, NEW s \in Seq(S), NEW T, NEW g, IsKept(g, s, T, Len(s))
    PROVE  \A m \in 0 .. Len(s) :
              /\ g[m] \in Seq(S)
              /\ ToSet(g[m]) = {s[i] : i \in 1 .. m} \ T
<1> DEFINE Good(m) == g[m] \in Seq(S) /\ ToSet(g[m]) = {s[i] : i \in 1 .. m} \ T
           Bad == {m \in 0 .. Len(s) : ~ Good(m)}
<1>n. Len(s) \in Nat /\ \A i \in 1 .. Len(s) : s[i] \in S
  BY LenProperties
<1>1. SUFFICES ASSUME Bad # {} PROVE FALSE
  BY <1>n
<1>2. PICK m \in Bad : \A n \in Bad : m <= n
  <2>1. Bad \in SUBSET Nat
    OBVIOUS
  <2> QED
    BY <1>1, <2>1, LeastIndex
<1>m. m \in Nat /\ m \in 0 .. Len(s)
  OBVIOUS
<1>3. m # 0
  <2>1. SUFFICES ASSUME m = 0 PROVE Good(0)
    OBVIOUS
  <2>2. g[0] = <<>>
    BY <1>n DEF IsKept
  <2>3. ToSet(<<>>) = {}
    BY DEF ToSet
  <2> QED
    BY <2>2, <2>3, EmptySeq
<1>4. m - 1 \in 0 .. Len(s) /\ m - 1 \notin Bad /\ m \in 1 .. Len(s)
  <2>2. m - 1 \in 0 .. Len(s) /\ ~(m <= m - 1) /\ m \in 1 .. Len(s)
    BY <1>n, <1>m, <1>3
  <2> HIDE DEF Bad
  <2> QED
    BY <1>2, <2>2
<1>5. Good(m - 1)
  BY <1>4
<1>6. g[m] = IF s[m] \in T THEN g[m - 1] ELSE Append(g[m - 1], s[m])
  BY <1>m, <1>3, <1>4 DEF IsKept
<1>7. {s[i] : i \in 1 .. m} = {s[i] : i \in 1 .. (m - 1)} \cup {s[m]}
  <2>1. \A i : i \in 1 .. m <=> i \in 1 .. (m - 1) \/ i = m
    BY <1>m, <1>3
  <2> QED
    BY <2>1
<1>8. /\ Append(g[m - 1], s[m]) \in Seq(S)
      /\ ToSet(Append(g[m - 1], s[m])) = ToSet(g[m - 1]) \cup {s[m]}
  BY <1>n, <1>4, <1>5, PushIds
<1>10. Good(m)
  BY <1>5, <1>6, <1>7, <1>8
<1> QED
  BY <1>10

\* LREM takes the ids in T off the list, and nothing else.
LEMMA WithoutIds ==
    ASSUME NEW S, NEW s \in Seq(S), NEW T
    PROVE  /\ Without(s, T) \in Seq(S)
           /\ ToSet(Without(s, T)) = ToSet(s) \ T
<1> DEFINE kept == CHOOSE g : IsKept(g, s, T, Len(s))
<1>1. IsKept(kept, s, T, Len(s))
  BY KeptExists
<1>2. Without(s, T) = kept[Len(s)]
  BY DEF Without, IsKept
<1>3. Len(s) \in Nat /\ DOMAIN s = 1 .. Len(s)
  BY LenProperties
<1> HIDE DEF kept
<1>4. /\ kept[Len(s)] \in Seq(S)
      /\ ToSet(kept[Len(s)]) = {s[i] : i \in 1 .. Len(s)} \ T
  <2>1. Len(s) \in 0 .. Len(s)
    BY <1>3
  <2> QED
    BY <1>1, <2>1, KeptIds
<1> QED
  BY <1>2, <1>3, <1>4 DEF ToSet

-----------------------------------------------------------------------------
(* The other operations.                                                   *)

\* The ids of a list.
LEMMA IdsOfList ==
    ASSUME NEW S, NEW s \in Seq(S)
    PROVE  /\ ToSet(s) \subseteq S
           /\ IsFiniteSet(ToSet(s))
           /\ s = <<>> <=> ToSet(s) = {}
<1>1. Len(s) \in Nat /\ DOMAIN s = 1 .. Len(s) /\ s \in [1 .. Len(s) -> S]
  BY LenProperties
<1>2. ToSet(s) \subseteq S
  BY <1>1 DEF ToSet
<1>3. s \in Surjection(1 .. Len(s), ToSet(s))
  BY <1>1 DEF Surjection, ToSet
<1>4. IsFiniteSet(ToSet(s))
  BY <1>1, <1>3, FS_NatSurjection DEF ExistsSurjection
<1>5. s # <<>> => ToSet(s) # {}
  <2> SUFFICES ASSUME s # <<>> PROVE ToSet(s) # {}
    OBVIOUS
  <2>1. 1 \in DOMAIN s
    BY <1>1, EmptySeq
  <2> QED
    BY <2>1 DEF ToSet
<1>6. ToSet(<<>>) = {}
  BY DEF ToSet
<1> QED
  BY <1>2, <1>4, <1>5, <1>6

\* Lists put one after the other.
LEMMA ConcatIds ==
    ASSUME NEW S, NEW s \in Seq(S), NEW t \in Seq(S)
    PROVE  /\ s \o t \in Seq(S)
           /\ ToSet(s \o t) = ToSet(s) \cup ToSet(t)
<1>1. /\ Len(s) \in Nat /\ DOMAIN s = 1 .. Len(s)
      /\ Len(t) \in Nat /\ DOMAIN t = 1 .. Len(t)
      /\ s \o t \in Seq(S) /\ Len(s \o t) = Len(s) + Len(t)
      /\ DOMAIN (s \o t) = 1 .. Len(s) + Len(t)
      /\ \A i \in 1 .. Len(s) + Len(t) :
            (s \o t)[i] = IF i <= Len(s) THEN s[i] ELSE t[i - Len(s)]
  BY LenProperties, ConcatProperties
<1>2. ToSet(s \o t) \subseteq ToSet(s) \cup ToSet(t)
  BY <1>1 DEF ToSet
<1>3. ToSet(s) \subseteq ToSet(s \o t)
  BY <1>1 DEF ToSet
<1>4. ToSet(t) \subseteq ToSet(s \o t)
  <2> SUFFICES ASSUME NEW i \in 1 .. Len(t) PROVE t[i] \in ToSet(s \o t)
    BY <1>1 DEF ToSet
  <2>1. i + Len(s) \in 1 .. Len(s) + Len(t) /\ (s \o t)[i + Len(s)] = t[i]
    BY <1>1
  <2> QED
    BY <1>1, <2>1 DEF ToSet
<1> QED
  BY <1>1, <1>2, <1>3, <1>4

\* A claim.
LEMMA ClaimIds ==
    ASSUME NEW S, NEW s \in Seq(S), s # <<>>
    PROVE  /\ Front(s) \in Seq(S)
           /\ Last(s) \in S
           /\ ToSet(s) = ToSet(Front(s)) \cup {Last(s)}
<1>1. /\ Len(s) \in Nat \ {0} /\ DOMAIN s = 1 .. Len(s)
      /\ \A i \in 1 .. Len(s) : s[i] \in S
  BY LenProperties, EmptySeq
<1>2. /\ Front(s) \in Seq(S) /\ Len(Front(s)) = Len(s) - 1
      /\ \A i \in 1 .. Len(s) - 1 : Front(s)[i] = s[i]
  BY <1>1, SubSeqProperties DEF Front
<1>3. DOMAIN Front(s) = 1 .. Len(s) - 1
  BY <1>2, LenProperties
<1>4. \A i : i \in 1 .. Len(s) <=> i \in 1 .. Len(s) - 1 \/ i = Len(s)
  BY <1>1
<1>5. ToSet(s) = ToSet(Front(s)) \cup {Last(s)}
  BY <1>1, <1>2, <1>3, <1>4 DEF ToSet, Last
<1> QED
  BY <1>1, <1>2, <1>5 DEF Last

\* What a scheduler has yet to push.
LEMMA TailIds ==
    ASSUME NEW S, NEW s \in Seq(S), s # <<>>
    PROVE  /\ Head(s) \in S
           /\ Tail(s) \in Seq(S)
           /\ ToSet(s) = {Head(s)} \cup ToSet(Tail(s))
<1>1. /\ Len(s) \in Nat \ {0} /\ DOMAIN s = 1 .. Len(s) /\ Head(s) = s[1]
      /\ \A i \in 1 .. Len(s) : s[i] \in S
  BY LenProperties, EmptySeq, HeadTailProperties
<1>2. /\ Tail(s) \in Seq(S) /\ Len(Tail(s)) = Len(s) - 1
      /\ \A i \in 1 .. Len(s) - 1 : Tail(s)[i] = s[i + 1]
  BY <1>1, HeadTailProperties
<1>3. DOMAIN Tail(s) = 1 .. Len(s) - 1
  BY <1>2, LenProperties
<1>5. ToSet(s) \subseteq {Head(s)} \cup ToSet(Tail(s))
  <2> SUFFICES ASSUME NEW i \in 1 .. Len(s), i # 1 PROVE s[i] \in ToSet(Tail(s))
    BY <1>1 DEF ToSet
  <2>1. i - 1 \in 1 .. Len(s) - 1 /\ Tail(s)[i - 1] = s[i]
    BY <1>1, <1>2
  <2> QED
    BY <1>3, <2>1 DEF ToSet
<1>6. {Head(s)} \cup ToSet(Tail(s)) \subseteq ToSet(s)
  <2>1. \A i \in 1 .. Len(s) - 1 : i + 1 \in 1 .. Len(s)
    BY <1>1
  <2> QED
    BY <1>1, <1>2, <1>3, <2>1 DEF ToSet
<1> QED
  BY <1>1, <1>2, <1>5, <1>6

\* Any enumeration of a finite set holds each of its members.
LEMMA EnumerationIds ==
    ASSUME NEW T, IsFiniteSet(T), NEW ids \in SetToSeqs(T)
    PROVE  ids \in Seq(T) /\ ToSet(ids) = T
<1>1. Cardinality(T) \in Nat
  BY FS_CardinalityType
<1> DEFINE D == 1 .. Cardinality(T)
<1>2. ids \in [D -> T] /\ \A i, j \in D : i # j => ids[i] # ids[j]
  BY DEF SetToSeqs
<1>3. ids \in Injection(D, T)
  BY <1>2 DEF Injection, IsInjective
<1>4. Cardinality(D) = Cardinality(T)
  BY <1>1, FS_Interval
<1>5. ids \in Surjection(D, T)
  BY <1>3, <1>4, FS_Injection
<1>6. ToSet(ids) = T
  BY <1>2, <1>5 DEF ToSet, Surjection
<1> QED
  BY <1>1, <1>2, <1>6

\* What a restart reads: the ids in process and the unfinished rows.
LEMMA RecoverableIds ==
    ASSUME NEW S, NEW q, q.processing \in Seq(S), NEW unfinished \in SUBSET S,
           IsFiniteSet(unfinished), NEW ids \in Recoverable(q, unfinished)
    PROVE  ids \in Seq(S) /\ ToSet(ids) = ToSet(q.processing) \cup unfinished
<1> DEFINE T == unfinished \ ToSet(q.processing)
<1>1. PICK rest \in SetToSeqs(T) : ids = q.processing \o rest
  BY DEF Recoverable
<1>2. IsFiniteSet(T)
  BY FS_Subset
<1>3. rest \in Seq(T) /\ ToSet(rest) = T
  BY <1>1, <1>2, EnumerationIds
<1>4. rest \in Seq(S)
  BY <1>3, SeqMonotonic
<1> QED
  BY <1>1, <1>3, <1>4, ConcatIds

\* After the MULTI of a restart, the queue holds what it held and what was
\* read, and the processing list is empty.
LEMMA RequeuedIds ==
    ASSUME NEW S, NEW q, q.queue \in Seq(S), NEW ids \in Seq(S)
    PROVE  /\ Requeued(q, ids).queue \in Seq(S)
           /\ Requeued(q, ids).processing = <<>>
           /\ ToSet(Requeued(q, ids).queue) = ToSet(q.queue) \cup ToSet(ids)
<1>1. /\ Without(q.queue, ToSet(ids)) \in Seq(S)
      /\ ToSet(Without(q.queue, ToSet(ids))) = ToSet(q.queue) \ ToSet(ids)
  BY WithoutIds
<1> QED
  BY <1>1, ConcatIds DEF Requeued

-----------------------------------------------------------------------------
(* The operations on the two lists together.                               *)

Lists(S) == [queue : Seq(S), processing : Seq(S)]

\* A push adds one id to the queue.
LEMMA PushedLists ==
    ASSUME NEW S, NEW q \in Lists(S), NEW id \in S
    PROVE  /\ Pushed(q, id) \in Lists(S)
           /\ Queued(Pushed(q, id)) = Queued(q) \cup {id}
<1>1. q.queue \in Seq(S) /\ q.processing \in Seq(S)
  BY DEF Lists
<1> DEFINE s == Append(q.queue, id)
<1>2. s \in Seq(S) /\ ToSet(s) = ToSet(q.queue) \cup {id}
  BY <1>1, PushIds
<1>3. Pushed(q, id) = [q EXCEPT !.queue = s]
  BY DEF Pushed
<1> HIDE DEF s
<1>4. Pushed(q, id) = [queue |-> s, processing |-> q.processing]
  BY <1>3 DEF Lists
<1> QED
  BY <1>1, <1>2, <1>4 DEF Lists, Queued

\* A claim takes one id off the queue.
LEMMA ClaimedLists ==
    ASSUME NEW S, NEW q \in Lists(S), q.queue # <<>>
    PROVE  /\ NextId(q) \in S
           /\ Claimed(q) \in Lists(S)
           /\ Queued(q) = Queued(Claimed(q)) \cup {NextId(q)}
<1>1. q.queue \in Seq(S) /\ q.processing \in Seq(S)
  BY DEF Lists
<1>2. /\ Front(q.queue) \in Seq(S) /\ NextId(q) \in S
      /\ ToSet(q.queue) = ToSet(Front(q.queue)) \cup {NextId(q)}
  BY <1>1, ClaimIds DEF NextId
<1>3. <<NextId(q)>> \o q.processing \in Seq(S)
  BY <1>1, <1>2, ConcatProperties
<1> QED
  BY <1>2, <1>3 DEF Claimed, Lists, Queued

\* A release leaves the queue alone.
LEMMA ReleasedLists ==
    ASSUME NEW S, NEW q \in Lists(S), NEW id
    PROVE  Released(q, id) \in Lists(S) /\ Queued(Released(q, id)) = Queued(q)
<1>1. q.queue \in Seq(S) /\ q.processing \in Seq(S)
  BY DEF Lists
<1>2. Without(q.processing, {id}) \in Seq(S)
  BY <1>1, WithoutIds
<1>3. Released(q, id) = [queue |-> q.queue, processing |-> Without(q.processing, {id})]
  BY DEF Released, Lists
<1> QED
  BY <1>1, <1>2, <1>3 DEF Lists, Queued

\* A restart keeps what was queued and adds what it read.
LEMMA RequeuedLists ==
    ASSUME NEW S, NEW q \in Lists(S), NEW ids \in Seq(S)
    PROVE  /\ Requeued(q, ids) \in Lists(S)
           /\ Queued(Requeued(q, ids)) = Queued(q) \cup ToSet(ids)
<1>1. /\ Requeued(q, ids).queue \in Seq(S)
      /\ Requeued(q, ids).processing = <<>>
      /\ ToSet(Requeued(q, ids).queue) = ToSet(q.queue) \cup ToSet(ids)
  BY RequeuedIds DEF Lists
<1>2. <<>> \in Seq(S)
  BY EmptySeq
<1>3. Requeued(q, ids) = [queue |-> Requeued(q, ids).queue, processing |-> <<>>]
  BY DEF Requeued
<1> QED
  BY <1>1, <1>2, <1>3 DEF Lists, Queued

-----------------------------------------------------------------------------
(* Induction, over sets.                                                   *)

\* What holds of 0 and of the next holds of all.
LEMMA UpTo ==
    ASSUME NEW n \in Nat, NEW G, 0 \in G, \A i \in 0 .. n - 1 : i \in G => i + 1 \in G
    PROVE  \A i \in 0 .. n : i \in G
<1> DEFINE Bad == {i \in 0 .. n : i \notin G}
<1>1. SUFFICES ASSUME Bad # {} PROVE FALSE
  OBVIOUS
<1>2. Bad \in SUBSET Nat
  OBVIOUS
<1>3. \A i \in Bad : i \in 0 .. n /\ i \notin G
  OBVIOUS
<1>4. \A i \in 0 .. n : i \notin Bad => i \in G
  OBVIOUS
<1> HIDE DEF Bad
<1>5. PICK m \in Bad : \A i \in Bad : m <= i
  BY <1>1, <1>2, LeastIndex
<1>6. m # 0 /\ m - 1 \in 0 .. n - 1 /\ m - 1 \in 0 .. n /\ ~(m <= m - 1) /\ (m - 1) + 1 = m
  BY <1>3, <1>5
<1>7. m - 1 \in G
  BY <1>4, <1>5, <1>6
<1> QED
  BY <1>3, <1>5, <1>6, <1>7

\* The values of a recursive function on 0 .. n.
Follows(g, n, A, start, step) ==
    /\ g \in [0 .. n -> A] /\ g[0] = start
    /\ \A i \in 1 .. n : g[i] = step[<<i, g[i - 1]>>]
StaysIn(step, n, A) == \A i \in 1 .. n : \A a \in A : step[<<i, a>>] \in A

\* A recursive function whose steps stay in a set is defined, and stays there.
LEMMA StepsExist ==
    ASSUME NEW n \in Nat, NEW A, NEW start \in A, NEW step, StaysIn(step, n, A)
    PROVE  \E g : Follows(g, n, A, start, step)
<1> DEFINE Solves(g, m) == /\ g \in [0 .. m -> A] /\ g[0] = start
                           /\ \A i \in 1 .. m : g[i] = step[<<i, g[i - 1]>>]
           G == {m \in 0 .. n : \E g : Solves(g, m)}
<1>1. 0 \in G
  <2> DEFINE z == [i \in 0 .. 0 |-> start]
  <2>1. Solves(z, 0)
    OBVIOUS
  <2> HIDE DEF z
  <2>2. \E g : Solves(g, 0)
    BY <2>1
  <2> HIDE DEF Solves
  <2> QED
    BY <2>2
<1>2. ASSUME NEW m \in 0 .. n - 1, m \in G PROVE m + 1 \in G
  <2>1. PICK g : Solves(g, m)
    BY <1>2
  <2> DEFINE next == step[<<m + 1, g[m]>>]
             h == [i \in 0 .. m + 1 |-> IF i = m + 1 THEN next ELSE g[i]]
  <2>2. m \in Nat /\ m + 1 \in 0 .. n /\ m + 1 \in 1 .. n /\ m \in 0 .. m
    OBVIOUS
  <2>3. next \in A
    <3>1. g[m] \in A
      BY <2>1, <2>2
    <3> QED
      BY <2>2, <3>1 DEF StaysIn
  <2>4. \A i \in 0 .. m : h[i] = g[i] /\ g[i] \in A
    BY <2>1, <2>2
  <2>5. h[m + 1] = next
    BY <2>2
  <2>6. h \in [0 .. m + 1 -> A]
    BY <2>1, <2>2, <2>3
  <2>7. ASSUME NEW i \in 1 .. m + 1 PROVE h[i] = step[<<i, h[i - 1]>>]
    <3> HIDE DEF h
    <3>1. CASE i = m + 1
      <4>1. i - 1 = m /\ h[i - 1] = g[m]
        BY <2>2, <2>4, <3>1
      <4> QED
        BY <2>5, <3>1, <4>1
    <3>2. CASE i # m + 1
      <4>1. i \in 1 .. m /\ i \in 0 .. m /\ i - 1 \in 0 .. m
        BY <2>2, <3>2
      <4>2. h[i] = g[i] /\ h[i - 1] = g[i - 1]
        BY <2>4, <4>1
      <4> QED
        BY <2>1, <4>1, <4>2
    <3> QED
      BY <3>1, <3>2
  <2>8. h[0] = start
    BY <2>1, <2>2, <2>4
  <2> HIDE DEF h
  <2>9. Solves(h, m + 1)
    BY <2>6, <2>7, <2>8
  <2> QED
    BY <2>2, <2>9
<1> HIDE DEF G
<1>3. \A i \in 0 .. n : i \in G
  BY <1>1, <1>2, UpTo
<1>4. n \in G
  BY <1>3
<1> QED
  BY <1>4 DEF G, Follows

-----------------------------------------------------------------------------
(* Orders.                                                                 *)

\* How many members of S come before x.
Rank(S, R, x) == Cardinality({y \in S : <<y, x>> \in R})

\* R orders the members of S.
IsOrder(S, R) ==
    /\ \A x \in S : <<x, x>> \notin R
    /\ \A x, y, z \in S : <<x, y>> \in R /\ <<y, z>> \in R => <<x, z>> \in R
    /\ \A x, y \in S : x = y \/ <<x, y>> \in R \/ <<y, x>> \in R

\* Later members have more before them.
LEMMA RanksGrow ==
    ASSUME NEW S, IsFiniteSet(S), NEW R, IsOrder(S, R)
    PROVE  /\ \A x \in S : Rank(S, R, x) \in 0 .. Cardinality(S) - 1
           /\ \A x, z \in S : <<x, z>> \in R => Rank(S, R, x) < Rank(S, R, z)
<1> DEFINE B(x) == {y \in S : <<y, x>> \in R}
<1>1. Cardinality(S) \in Nat
  BY FS_CardinalityType
<1>2. ASSUME NEW x \in S
      PROVE  IsFiniteSet(B(x)) /\ Cardinality(B(x)) \in Nat /\ Cardinality(B(x) \cup {x}) = Cardinality(B(x)) + 1
             /\ B(x) \cup {x} \subseteq S
  <2>1. x \notin B(x) /\ B(x) \cup {x} \subseteq S /\ B(x) \subseteq S
    BY DEF IsOrder
  <2> HIDE DEF B
  <2>2. IsFiniteSet(B(x))
    BY <2>1, FS_Subset
  <2> QED
    BY <2>1, <2>2, FS_AddElement, FS_CardinalityType
<1>3. ASSUME NEW x \in S PROVE Cardinality(B(x)) \in 0 .. Cardinality(S) - 1
  <2> HIDE DEF B
  <2>1. Cardinality(B(x) \cup {x}) <= Cardinality(S)
    BY <1>2, FS_Subset
  <2> QED
    BY <1>1, <1>2, <2>1
<1>4. ASSUME NEW x \in S, NEW z \in S, <<x, z>> \in R PROVE Cardinality(B(x)) < Cardinality(B(z))
  <2>1. B(x) \cup {x} \subseteq B(z)
    BY <1>4 DEF IsOrder
  <2> HIDE DEF B
  <2>2. Cardinality(B(x) \cup {x}) <= Cardinality(B(z))
    <3>1. IsFiniteSet(B(z))
      BY <1>2
    <3> QED
      BY <2>1, <3>1, FS_Subset
  <2>3. Cardinality(B(x)) \in Nat /\ Cardinality(B(z)) \in Nat
        /\ Cardinality(B(x) \cup {x}) = Cardinality(B(x)) + 1
    BY <1>2
  <2> QED
    BY <2>2, <2>3
<1> QED
  BY <1>3, <1>4 DEF Rank

\* Every rank up to the number of members is the rank of one of them.
LEMMA RanksAreTaken ==
    ASSUME NEW S, IsFiniteSet(S), NEW R, IsOrder(S, R), NEW n \in 1 .. Cardinality(S)
    PROVE  \E x \in S : Rank(S, R, x) = n - 1
<1> DEFINE N == Cardinality(S)
           D == 0 .. N - 1
           f == [x \in S |-> Rank(S, R, x)]
<1>1. N \in Nat /\ N > 0
  BY FS_CardinalityType
<1>2. f \in [S -> D]
  BY RanksGrow
<1>3. ASSUME NEW x \in S, NEW z \in S, f[x] = f[z] PROVE x = z
  <2>1. /\ Rank(S, R, x) = Rank(S, R, z) /\ Rank(S, R, x) \in D /\ Rank(S, R, z) \in D
        /\ <<x, z>> \in R => Rank(S, R, x) < Rank(S, R, z)
        /\ <<z, x>> \in R => Rank(S, R, z) < Rank(S, R, x)
    BY <1>2, <1>3, RanksGrow
  <2>2. ~(<<x, z>> \in R) /\ ~(<<z, x>> \in R)
    BY <1>1, <2>1
  <2> QED
    BY <2>2 DEF IsOrder
<1> HIDE DEF f
<1>4. f \in Injection(S, D)
  BY <1>2, <1>3 DEF Injection, IsInjective
<1>5. Cardinality(D) = N /\ IsFiniteSet(D)
  <2>1. IsFiniteSet(D) /\ Cardinality(D) = IF 0 > N - 1 THEN 0 ELSE (N - 1) - 0 + 1
    <3>1. 0 \in Int /\ N - 1 \in Int
      BY <1>1
    <3> HIDE DEF N
    <3> QED
      BY <3>1, FS_Interval
  <2> HIDE DEF D, N
  <2> QED
    BY <1>1, <2>1
<1>6. f \in Surjection(S, D)
  BY <1>4, <1>5, FS_Injection
<1>7. n - 1 \in D
  BY <1>1
<1>8. PICK x \in S : f[x] = n - 1
  BY <1>6, <1>7 DEF Surjection
<1> QED
  BY <1>8 DEF f

LEMMA SameLength ==
    ASSUME NEW m \in Nat, NEW n \in Nat, 1 .. m = 1 .. n
    PROVE  m = n
<1>1. m \in 1 .. m => m \in 1 .. n
  OBVIOUS
<1>2. n \in 1 .. n => n \in 1 .. m
  OBVIOUS
<1> QED
  BY <1>1, <1>2

\* A function on 1 .. n is a list of length n.
LEMMA FunctionIsList ==
    ASSUME NEW S, NEW n \in Nat, NEW s \in [1 .. n -> S]
    PROVE  s \in Seq(S) /\ Len(s) = n
<1>1. s \in Seq(S)
  BY SeqDef
<1>2. Len(s) \in Nat /\ DOMAIN s = 1 .. Len(s) /\ DOMAIN s = 1 .. n
  BY <1>1, LenProperties
<1> QED
  BY <1>1, <1>2, SameLength

\* A function that names a member of each rank.
ByRank(s, S, R) ==
    /\ s = [n \in 1 .. Cardinality(S) |-> s[n]]
    /\ \A n \in 1 .. Cardinality(S) :
          (\E x \in S : Rank(S, R, x) = n - 1) => s[n] \in S /\ Rank(S, R, s[n]) = n - 1

\* The sequence of the members by rank: it has each of them once, in order.
LEMMA Ordering ==
    ASSUME NEW S, IsFiniteSet(S), NEW R, IsOrder(S, R), NEW s, ByRank(s, S, R)
    PROVE  /\ s \in Seq(S) /\ Len(s) = Cardinality(S) /\ Len(s) \in Nat
           /\ \A x \in S : \E n \in 1 .. Len(s) : s[n] = x
           /\ \A n \in 1 .. Len(s) : s[n] \in S
           /\ \A m, n \in 1 .. Len(s) : m < n => <<s[m], s[n]>> \in R
           /\ \A m, n \in 1 .. Len(s) : s[m] = s[n] => m = n
<1>1. Cardinality(S) \in Nat
  BY FS_CardinalityType
<1>2. ASSUME NEW n \in 1 .. Cardinality(S) PROVE s[n] \in S /\ Rank(S, R, s[n]) = n - 1
  <2>1. \E x \in S : Rank(S, R, x) = n - 1
    BY RanksAreTaken
  <2> QED
    BY <2>1 DEF ByRank
<1>3. s \in [1 .. Cardinality(S) -> S]
  BY <1>2 DEF ByRank
<1>4. s \in Seq(S) /\ Len(s) = Cardinality(S)
  BY <1>1, <1>3, FunctionIsList
<1>5. ASSUME NEW x \in S PROVE \E n \in 1 .. Len(s) : s[n] = x
  <2>1. Rank(S, R, x) \in 0 .. Cardinality(S) - 1
    BY RanksGrow
  <2>2. Rank(S, R, x) + 1 \in 1 .. Cardinality(S) /\ (Rank(S, R, x) + 1) - 1 = Rank(S, R, x)
    BY <1>1, <2>1
  <2>3. s[Rank(S, R, x) + 1] \in S /\ Rank(S, R, s[Rank(S, R, x) + 1]) = Rank(S, R, x)
    BY <1>2, <2>2
  <2>4. s[Rank(S, R, x) + 1] = x
    <3> DEFINE z == s[Rank(S, R, x) + 1]
    <3>1. z \in S /\ Rank(S, R, z) = Rank(S, R, x) /\ Rank(S, R, x) \in Nat
      BY <1>1, <2>1, <2>3
    <3> HIDE DEF z
    <3>2. ~(<<x, z>> \in R) /\ ~(<<z, x>> \in R)
      <4>1. /\ <<x, z>> \in R => Rank(S, R, x) < Rank(S, R, z)
            /\ <<z, x>> \in R => Rank(S, R, z) < Rank(S, R, x)
        BY <3>1, RanksGrow
      <4> QED
        BY <3>1, <4>1
    <3>3. z = x
      BY <3>1, <3>2 DEF IsOrder
    <3> QED
      BY <3>3 DEF z
  <2> QED
    BY <1>4, <2>2, <2>4
<1>6. ASSUME NEW m \in 1 .. Cardinality(S), NEW n \in 1 .. Cardinality(S), m < n
      PROVE  <<s[m], s[n]>> \in R
  <2>1. /\ s[m] \in S /\ Rank(S, R, s[m]) = m - 1
        /\ s[n] \in S /\ Rank(S, R, s[n]) = n - 1
    BY <1>2
  <2>2. s[m] # s[n] /\ ~(Rank(S, R, s[n]) < Rank(S, R, s[m]))
    BY <1>1, <1>6, <2>1
  <2> QED
    BY <2>1, <2>2, RanksGrow DEF IsOrder
<1>7. \A m, n \in 1 .. Cardinality(S) : s[m] = s[n] => m = n
  BY <1>1, <1>2
<1> QED
  BY <1>1, <1>2, <1>4, <1>5, <1>6, <1>7

-----------------------------------------------------------------------------
(* Sequences of whatever they hold, images and least members.              *)

\* A sequence of whatever it holds.
IsListed(s) == s \in Seq({s[n] : n \in DOMAIN s})

\* It is one with a member more.
LEMMA ListGrows ==
    ASSUME NEW s, IsListed(s), NEW x
    PROVE  /\ IsListed(Append(s, x)) /\ Len(s) \in Nat
           /\ Len(Append(s, x)) = Len(s) + 1 /\ Append(s, x)[Len(s) + 1] = x
           /\ \A n \in 1 .. Len(s) : Append(s, x)[n] = s[n]
<1> DEFINE T == {s[n] : n \in DOMAIN s} \cup {x}
           t == Append(s, x)
<1>1. s \in Seq(T)
  <2>1. s \in Seq({s[n] : n \in DOMAIN s})
    BY DEF IsListed
  <2>2. {s[n] : n \in DOMAIN s} \subseteq T
    OBVIOUS
  <2> HIDE DEF T
  <2> QED
    BY <2>1, <2>2, SeqDef
<1>2. x \in T
  OBVIOUS
<1> HIDE DEF T
<1>3. /\ t \in Seq(T) /\ Len(s) \in Nat /\ Len(t) = Len(s) + 1 /\ t[Len(s) + 1] = x
      /\ \A n \in 1 .. Len(s) : t[n] = s[n]
  BY <1>1, <1>2
<1> HIDE DEF t
<1>4. t \in Seq({t[n] : n \in DOMAIN t})
  <2> DEFINE R == {t[n] : n \in DOMAIN t}
  <2>1. DOMAIN t = 1 .. Len(t) /\ Len(t) \in Nat /\ t = [n \in 1 .. Len(t) |-> t[n]]
    BY <1>3
  <2>2. \A n \in 1 .. Len(t) : t[n] \in R
    BY <2>1
  <2> HIDE DEF R
  <2>3. t \in [1 .. Len(t) -> R]
    BY <2>1, <2>2
  <2> QED
    BY <2>1, <2>3, SeqDef DEF R
<1> QED
  BY <1>3, <1>4 DEF IsListed, t

\* The image of a finite set.
LEMMA FiniteImage ==
    ASSUME NEW S, IsFiniteSet(S), NEW f
    PROVE  IsFiniteSet({f[x] : x \in S})
<1> DEFINE T == {f[x] : x \in S}
           e == [x \in S |-> f[x]]
<1>1. e \in Surjection(S, T)
  BY DEF Surjection
<1> HIDE DEF e, T
<1>2. IsFiniteSet(T)
  BY <1>1, FS_Surjection
<1> QED
  BY <1>2 DEF T

\* A list of something is one.
LEMMA ListIsListed ==
    ASSUME NEW S, NEW s \in Seq(S)
    PROVE  IsListed(s)
<1> DEFINE T == {s[n] : n \in DOMAIN s}
<1>1. Len(s) \in Nat /\ DOMAIN s = 1 .. Len(s) /\ s = [n \in 1 .. Len(s) |-> s[n]]
  BY LenProperties
<1>2. \A n \in 1 .. Len(s) : s[n] \in T
  BY <1>1
<1> HIDE DEF T
<1>3. s \in Seq(T)
  BY <1>1, <1>2, SeqDef
<1> QED
  BY <1>3 DEF IsListed, T

\* A finite set that is not empty has a first member.
LEMMA FirstOf ==
    ASSUME NEW S, IsFiniteSet(S), S # {}, NEW R, IsOrder(S, R)
    PROVE  \E x \in S : \A y \in S : y = x \/ <<x, y>> \in R
<1> DEFINE s == [n \in 1 .. Cardinality(S) |-> CHOOSE x \in S : Rank(S, R, x) = n - 1]
<1>0. ByRank(s, S, R)
  <2>1. ASSUME NEW n \in 1 .. Cardinality(S), \E x \in S : Rank(S, R, x) = n - 1
        PROVE  s[n] \in S /\ Rank(S, R, s[n]) = n - 1
    <3>1. s[n] = CHOOSE x \in S : Rank(S, R, x) = n - 1
      OBVIOUS
    <3> QED
      BY <2>1, <3>1
  <2> QED
    BY <2>1 DEF ByRank
<1> HIDE DEF s
<1>1. /\ Len(s) = Cardinality(S) /\ Len(s) \in Nat
      /\ \A x \in S : \E n \in 1 .. Len(s) : s[n] = x
      /\ \A n \in 1 .. Len(s) : s[n] \in S
      /\ \A m, n \in 1 .. Len(s) : m < n => <<s[m], s[n]>> \in R
  BY <1>0, Ordering
<1>2. 1 \in 1 .. Len(s)
  BY <1>1
<1>3. ASSUME NEW y \in S PROVE y = s[1] \/ <<s[1], y>> \in R
  <2>1. PICK n \in 1 .. Len(s) : s[n] = y
    BY <1>1
  <2>2. n = 1 \/ 1 < n
    BY <1>1, <2>1
  <2> QED
    BY <1>1, <1>2, <2>1, <2>2
<1> QED
  BY <1>1, <1>2, <1>3

\* Numbers, the least first.
LEMMA NumbersInOrder ==
    ASSUME NEW T \in SUBSET Nat, IsFiniteSet(T)
    PROVE  /\ InOrder(T, <) \in Seq(T) /\ Len(InOrder(T, <)) = Cardinality(T)
           /\ \A x \in T : \E n \in 1 .. Len(InOrder(T, <)) : InOrder(T, <)[n] = x
           /\ \A m, n \in 1 .. Len(InOrder(T, <)) : InOrder(T, <)[m] = InOrder(T, <)[n] => m = n
           /\ \A n \in 1 .. Len(InOrder(T, <)) : InOrder(T, <)[n] \in T
           /\ \A m, n \in 1 .. Len(InOrder(T, <)) : m < n => InOrder(T, <)[m] < InOrder(T, <)[n]
<1> DEFINE R == {p \in T \X T : p[1] < p[2]}
           s == InOrder(T, <)
<1>1. \A x, y \in T : <<x, y>> \in R <=> x < y
  OBVIOUS
<1>2. IsOrder(T, R)
  <2> HIDE DEF R
  <2> QED
    BY <1>1 DEF IsOrder
<1>3. ByRank(s, T, R)
  <2>1. ASSUME NEW x \in T PROVE Rank(T, R, x) = Cardinality({y \in T : y < x})
    <3>1. {y \in T : <<y, x>> \in R} = {y \in T : y < x}
      BY <1>1
    <3> QED
      BY <3>1 DEF Rank
  <2>2. ASSUME NEW n \in 1 .. Cardinality(T), \E x \in T : Rank(T, R, x) = n - 1
        PROVE  s[n] \in T /\ Rank(T, R, s[n]) = n - 1
    <3>1. s[n] = CHOOSE x \in T : Cardinality({y \in T : y < x}) = n - 1
      BY DEF InOrder
    <3>2. \E x \in T : Cardinality({y \in T : y < x}) = n - 1
      BY <2>1, <2>2
    <3>3. s[n] \in T /\ Cardinality({y \in T : y < s[n]}) = n - 1
      BY <3>1, <3>2
    <3> QED
      BY <2>1, <3>3
  <2>3. s = [n \in 1 .. Cardinality(T) |-> s[n]]
    <3> DEFINE e(n) == CHOOSE x \in T : Cardinality({y \in T : y < x}) = n - 1
    <3>1. s = [n \in 1 .. Cardinality(T) |-> e(n)]
      BY DEF InOrder
    <3> HIDE DEF s, e
    <3> QED
      BY <3>1
  <2> HIDE DEF s
  <2> QED
    BY <2>2, <2>3 DEF ByRank
<1> HIDE DEF s
<1>4. /\ s \in Seq(T) /\ Len(s) = Cardinality(T) /\ Len(s) \in Nat
      /\ \A x \in T : \E n \in 1 .. Len(s) : s[n] = x
      /\ \A m, n \in 1 .. Len(s) : s[m] = s[n] => m = n
      /\ \A n \in 1 .. Len(s) : s[n] \in T
      /\ \A m, n \in 1 .. Len(s) : m < n => <<s[m], s[n]>> \in R
  BY <1>2, <1>3, Ordering
<1>5. \A m, n \in 1 .. Len(s) : m < n => s[m] < s[n]
  BY <1>1, <1>4
<1> QED
  BY <1>4, <1>5 DEF s

\* t has the entries of s at the positions I: o lists them, the least first.
PickedBy(t, s, I, o) ==
    /\ o \in Seq(I) /\ Len(o) \in Nat /\ Len(t) = Len(o) /\ DOMAIN t = 1 .. Len(o)
    /\ t = [n \in 1 .. Len(o) |-> t[n]]
    /\ \A n \in 1 .. Len(o) : o[n] \in I /\ t[n] = s[o[n]]
    /\ \A x \in I : \E n \in 1 .. Len(o) : o[n] = x
    /\ \A m, n \in 1 .. Len(o) : m < n => o[m] < o[n]

\* The entries at some positions.
LEMMA EntriesAre ==
    ASSUME NEW I \in SUBSET Nat, IsFiniteSet(I), NEW s
    PROVE  \E o : PickedBy(Entries(s, I), s, I, o)
<1> DEFINE o == InOrder(I, <)
           t == [n \in DOMAIN o |-> s[o[n]]]
<1>1. /\ o \in Seq(I)
      /\ \A x \in I : \E n \in 1 .. Len(o) : o[n] = x
      /\ \A n \in 1 .. Len(o) : o[n] \in I
      /\ \A m, n \in 1 .. Len(o) : m < n => o[m] < o[n]
  BY NumbersInOrder
<1>2. Entries(s, I) = t
  BY DEF Entries
<1> HIDE DEF o
<1>3. Len(o) \in Nat /\ DOMAIN o = 1 .. Len(o)
  BY <1>1, LenProperties
<1>4. /\ DOMAIN t = 1 .. Len(o) /\ \A n \in 1 .. Len(o) : t[n] = s[o[n]]
      /\ t = [n \in 1 .. Len(o) |-> t[n]]
  BY <1>3
<1> HIDE DEF t
<1>5. Len(t) = Len(o)
  <2> DEFINE V == {t[n] : n \in 1 .. Len(o)}
  <2>1. \A n \in 1 .. Len(o) : t[n] \in V
    OBVIOUS
  <2> HIDE DEF V
  <2>2. t \in [1 .. Len(o) -> V]
    BY <1>4, <2>1
  <2> QED
    BY <1>3, <2>2, FunctionIsList
<1>6. PickedBy(t, s, I, o)
  BY <1>1, <1>3, <1>4, <1>5 DEF PickedBy
<1> QED
  BY <1>2, <1>6

\* Pairs in their order.
LEMMA PairsInOrder ==
    ASSUME NEW T, T \subseteq Int \X Int, IsFiniteSet(T)
    PROVE  /\ InOrder(T, Earlier) \in Seq(T) /\ ToSet(InOrder(T, Earlier)) = T
           /\ Len(InOrder(T, Earlier)) = Cardinality(T) /\ Len(InOrder(T, Earlier)) \in Nat
           /\ \A x \in T : \E n \in 1 .. Len(InOrder(T, Earlier)) : InOrder(T, Earlier)[n] = x
           /\ \A n \in 1 .. Len(InOrder(T, Earlier)) : InOrder(T, Earlier)[n] \in T
           /\ \A m, n \in 1 .. Len(InOrder(T, Earlier)) :
                 m < n => Earlier(InOrder(T, Earlier)[m], InOrder(T, Earlier)[n])
<1> DEFINE R == {p \in T \X T : Earlier(p[1], p[2])}
           s == InOrder(T, Earlier)
<1>1. \A x, y \in T : <<x, y>> \in R <=> Earlier(x, y)
  OBVIOUS
<1>2. IsOrder(T, R)
  <2>0. \A x \in T : x[1] \in Int /\ x[2] \in Int /\ x = <<x[1], x[2]>>
    OBVIOUS
  <2> HIDE DEF R
  <2>1. \A x \in T : <<x, x>> \notin R
    BY <1>1, <2>0 DEF Earlier
  <2>2. ASSUME NEW x \in T, NEW y \in T, NEW z \in T, <<x, y>> \in R, <<y, z>> \in R PROVE <<x, z>> \in R
    BY <1>1, <2>0, <2>2 DEF Earlier
  <2>3. ASSUME NEW x \in T, NEW y \in T PROVE x = y \/ <<x, y>> \in R \/ <<y, x>> \in R
    <3>1. Earlier(x, y) \/ Earlier(y, x) \/ (x[1] = y[1] /\ x[2] = y[2])
      BY <2>0 DEF Earlier
    <3> QED
      BY <1>1, <2>0, <3>1
  <2> QED
    BY <2>1, <2>2, <2>3 DEF IsOrder
<1>3. ByRank(s, T, R)
  <2>1. ASSUME NEW x \in T PROVE Rank(T, R, x) = Cardinality({y \in T : Earlier(y, x)})
    <3>1. {y \in T : <<y, x>> \in R} = {y \in T : Earlier(y, x)}
      BY <1>1
    <3> QED
      BY <3>1 DEF Rank
  <2>2. ASSUME NEW n \in 1 .. Cardinality(T), \E x \in T : Rank(T, R, x) = n - 1
        PROVE  s[n] \in T /\ Rank(T, R, s[n]) = n - 1
    <3>1. s[n] = CHOOSE x \in T : Cardinality({y \in T : Earlier(y, x)}) = n - 1
      BY DEF InOrder
    <3>2. \E x \in T : Cardinality({y \in T : Earlier(y, x)}) = n - 1
      BY <2>1, <2>2
    <3>3. s[n] \in T /\ Cardinality({y \in T : Earlier(y, s[n])}) = n - 1
      BY <3>1, <3>2
    <3> QED
      BY <2>1, <3>3
  <2>3. s = [n \in 1 .. Cardinality(T) |-> s[n]]
    <3> DEFINE e(n) == CHOOSE x \in T : Cardinality({y \in T : Earlier(y, x)}) = n - 1
    <3>1. s = [n \in 1 .. Cardinality(T) |-> e(n)]
      BY DEF InOrder
    <3> HIDE DEF s, e
    <3> QED
      BY <3>1
  <2> HIDE DEF s
  <2> QED
    BY <2>2, <2>3 DEF ByRank
<1> HIDE DEF s
<1>4. /\ s \in Seq(T) /\ Len(s) \in Nat /\ Len(s) = Cardinality(T)
      /\ \A x \in T : \E n \in 1 .. Len(s) : s[n] = x
      /\ \A n \in 1 .. Len(s) : s[n] \in T
      /\ \A m, n \in 1 .. Len(s) : m < n => <<s[m], s[n]>> \in R
  BY <1>2, <1>3, Ordering
<1>6. \A m, n \in 1 .. Len(s) : m < n => Earlier(s[m], s[n])
  BY <1>1, <1>4
<1>5. ToSet(s) = T
  <2>1. DOMAIN s = 1 .. Len(s)
    BY <1>4, LenProperties
  <2> QED
    BY <1>4, <2>1 DEF ToSet
<1> QED
  BY <1>4, <1>5, <1>6 DEF s

-----------------------------------------------------------------------------
(* Extremes of finite sets of numbers.                                      *)

\* A finite set of numbers has a greatest and a least.
LEMMA ExtremesExist ==
    ASSUME NEW S, S \subseteq Int, IsFiniteSet(S), S # {}
    PROVE  (\E x \in S : \A y \in S : y <= x) /\ (\E x \in S : \A y \in S : x <= y)
<1> DEFINE R == {p \in S \X S : p[1] < p[2]}
           s == [n \in 1 .. Cardinality(S) |-> CHOOSE x \in S : Rank(S, R, x) = n - 1]
<1>1. \A x, y \in S : <<x, y>> \in R <=> x < y
  OBVIOUS
<1>2. IsOrder(S, R)
  <2> HIDE DEF R
  <2> QED
    BY <1>1 DEF IsOrder
<1>3. ByRank(s, S, R)
  <2>1. \A n \in 1 .. Cardinality(S) : s[n] = CHOOSE x \in S : Rank(S, R, x) = n - 1
    OBVIOUS
  <2>2. s = [n \in 1 .. Cardinality(S) |-> s[n]]
    <3> DEFINE e(n) == CHOOSE x \in S : Rank(S, R, x) = n - 1
    <3>1. s = [n \in 1 .. Cardinality(S) |-> e(n)]
      OBVIOUS
    <3> HIDE DEF s, e
    <3> QED
      BY <3>1
  <2> HIDE DEF s, R
  <2>3. ASSUME NEW n \in 1 .. Cardinality(S), \E x \in S : Rank(S, R, x) = n - 1
        PROVE  s[n] \in S /\ Rank(S, R, s[n]) = n - 1
    BY <2>1, <2>3
  <2> QED
    BY <2>2, <2>3 DEF ByRank
<1> HIDE DEF s
<1>4. /\ Len(s) = Cardinality(S) /\ Len(s) \in Nat
      /\ \A x \in S : \E n \in 1 .. Len(s) : s[n] = x
      /\ \A n \in 1 .. Len(s) : s[n] \in S
      /\ \A m, n \in 1 .. Len(s) : m < n => <<s[m], s[n]>> \in R
  <2> HIDE DEF R
  <2> QED
    BY <1>2, <1>3, Ordering
<1> HIDE DEF R
<1>5. 1 \in 1 .. Len(s) /\ Len(s) \in 1 .. Len(s)
  <2>1. Cardinality(S) # 0
    BY FS_EmptySet
  <2> QED
    BY <1>4, <2>1
<1>6. ASSUME NEW y \in S PROVE y <= s[Len(s)] /\ s[1] <= y
  <2>1. PICK n \in 1 .. Len(s) : s[n] = y
    BY <1>4
  <2>2. y \in Int /\ s[1] \in Int /\ s[Len(s)] \in Int /\ s[1] \in S /\ s[Len(s)] \in S
    BY <1>4, <1>5
  <2>3. n = 1 \/ s[1] < y
    <3>1. n = 1 \/ 1 < n
      OBVIOUS
    <3>2. 1 < n => <<s[1], s[n]>> \in R
      BY <1>4, <1>5
    <3> QED
      BY <1>1, <2>1, <2>2, <3>1, <3>2
  <2>4. n = Len(s) \/ y < s[Len(s)]
    <3>1. n = Len(s) \/ n < Len(s)
      BY <1>4
    <3>2. n < Len(s) => <<s[n], s[Len(s)]>> \in R
      BY <1>4, <1>5
    <3> QED
      BY <1>1, <2>1, <2>2, <3>1, <3>2
  <2> QED
    BY <2>1, <2>2, <2>3, <2>4
<1> QED
  BY <1>4, <1>5, <1>6

LEMMA OfTwo ==
    ASSUME NEW a \in Int, NEW b \in Int
    PROVE  /\ Min({a, b}) = IF a <= b THEN a ELSE b
           /\ Max({a, b}) = IF a <= b THEN b ELSE a
<1> DEFINE lo == IF a <= b THEN a ELSE b
           hi == IF a <= b THEN b ELSE a
<1>1. /\ lo \in {a, b} /\ \A y \in {a, b} : lo =< y
      /\ hi \in {a, b} /\ \A y \in {a, b} : hi >= y
  OBVIOUS
<1>2. \A x \in {a, b} : /\ (\A y \in {a, b} : x =< y) => x = lo
                        /\ (\A y \in {a, b} : x >= y) => x = hi
  OBVIOUS
<1> HIDE DEF lo, hi
<1>3. Min({a, b}) = lo
  BY <1>1, <1>2 DEF Min
<1>4. Max({a, b}) = hi
  BY <1>1, <1>2 DEF Max
<1> QED
  BY <1>3, <1>4 DEF lo, hi

\* The greatest and the least of a finite set of numbers.
LEMMA ExtremesAre ==
    ASSUME NEW S, S \subseteq Int, IsFiniteSet(S), S # {}
    PROVE  /\ Max(S) \in S /\ \A y \in S : y <= Max(S)
           /\ Min(S) \in S /\ \A y \in S : Min(S) <= y
<1>1. /\ \E x \in S : \A y \in S : y <= x
      /\ \E x \in S : \A y \in S : x <= y
  BY ExtremesExist
<1>2. /\ \E x \in S : \A y \in S : x >= y
      /\ \E x \in S : \A y \in S : x =< y
  BY <1>1
<1>3. Max(S) \in S /\ \A y \in S : Max(S) >= y
  BY <1>2 DEF Max
<1>4. Min(S) \in S /\ \A y \in S : Min(S) =< y
  BY <1>2 DEF Min
<1> QED
  BY <1>3, <1>4

-----------------------------------------------------------------------------
(* Lists after each other.                                                 *)

\* FlattenSeq puts its lists one after the other.
Flattened(g, s, S) ==
    /\ g \in [0 .. Len(s) -> Seq(S)] /\ g[0] = <<>>
    /\ \A n \in 1 .. Len(s) : g[n] = g[n - 1] \o s[n]
    /\ FlattenSeq(s) = g[Len(s)]

LEMMA FlattenSteps ==
    ASSUME NEW S, NEW s \in Seq(Seq(S))
    PROVE  \E g : Flattened(g, s, S)
<1> DEFINE L == Len(s)
           Steps(f) == f = [n \in 1 .. L |-> IF n = 1 THEN s[n] ELSE f[n - 1] \o s[n]]
           last == CHOOSE f : Steps(f)
<1>1. L \in Nat /\ DOMAIN s = 1 .. L /\ \A n \in 1 .. L : s[n] \in Seq(S)
  BY LenProperties
<1>2. \E f : Steps(f)
  <2> DEFINE B == Seq(S)
             empty == <<>>
             step == [p \in (1 .. L) \X B |-> p[2] \o s[p[1]]]
  <2>1. StaysIn(step, L, B)
    <3>1. \A g, h \in B : g \o h \in B
      BY ConcatProperties
    <3>2. \A n \in 1 .. L : s[n] \in B
      BY <1>1
    <3> HIDE DEF B
    <3> QED
      BY <1>1, <3>1, <3>2 DEF StaysIn
  <2>2. empty \in B
    BY EmptySeq
  <2> HIDE DEF B, step, L, empty
  <2>3. PICK g : Follows(g, L, B, empty, step)
    <3>1. L \in Nat
      BY <1>1
    <3> QED
      BY <2>1, <2>2, <3>1, StepsExist
  <2>4. ASSUME NEW n \in 1 .. L PROVE g[n] = g[n - 1] \o s[n]
    <3>1. n - 1 \in 0 .. L
      BY <1>1
    <3>2. g[n - 1] \in B
      BY <2>3, <3>1 DEF Follows
    <3>3. step[<<n, g[n - 1]>>] = g[n - 1] \o s[n]
      BY <3>2 DEF step
    <3> QED
      BY <2>3, <3>3 DEF Follows
  <2> DEFINE f == [n \in 1 .. L |-> g[n]]
  <2>5. ASSUME NEW n \in 1 .. L PROVE f[n] = IF n = 1 THEN s[n] ELSE f[n - 1] \o s[n]
    <3>1. CASE n = 1
      <4>1. g[0] = <<>> /\ g[1] = g[0] \o s[1] /\ s[1] \in Seq(S)
        <5>1. n - 1 = 0
          BY <3>1
        <5>2. g[n] = g[n - 1] \o s[n]
          BY <2>4
        <5>3. g[0] = <<>>
          BY <2>3 DEF Follows, empty
        <5> QED
          BY <1>1, <3>1, <5>1, <5>2, <5>3
      <4>2. g[1] = s[1]
        BY <4>1, ConcatEmptySeq
      <4> QED
        BY <3>1, <4>2
    <3>2. CASE n # 1
      <4>1. n - 1 \in 1 .. L
        BY <1>1, <3>2
      <4> QED
        BY <2>4, <3>2, <4>1
    <3> QED
      BY <3>1, <3>2
  <2>6. f = [n \in 1 .. L |-> f[n]]
    OBVIOUS
  <2> HIDE DEF f
  <2>7. f = [n \in 1 .. L |-> IF n = 1 THEN s[n] ELSE f[n - 1] \o s[n]]
    BY <2>5, <2>6
  <2> QED
    BY <2>7 DEF L
<1>3. Steps(last)
  BY <1>2
<1>4. FlattenSeq(s) = IF L = 0 THEN s ELSE last[L]
  BY DEF FlattenSeq
<1> HIDE DEF last
<1> DEFINE g == [n \in 0 .. L |-> IF n = 0 THEN <<>> ELSE last[n]]
<1>5. g[0] = <<>> /\ \A n \in 1 .. L : g[n] = last[n]
  BY <1>1
<1>6. ASSUME NEW n \in 1 .. L PROVE g[n] = g[n - 1] \o s[n]
  <2>1. last[n] = IF n = 1 THEN s[n] ELSE last[n - 1] \o s[n]
    BY <1>3
  <2>2. CASE n = 1
    <3>1. g[n - 1] = <<>> /\ g[n] = s[n] /\ s[n] \in Seq(S)
      BY <1>1, <1>5, <2>1, <2>2
    <3> QED
      BY <3>1, ConcatEmptySeq
  <2>3. CASE n # 1
    <3>1. n - 1 \in 1 .. L
      BY <1>1, <2>3
    <3> QED
      BY <1>5, <2>1, <2>3, <3>1
  <2> QED
    BY <2>2, <2>3
<1>7. g = [n \in 0 .. L |-> g[n]]
  OBVIOUS
<1> HIDE DEF g
<1>8. \A n \in 0 .. L : g[n] \in Seq(S)
  <2> DEFINE G == {n \in 0 .. L : g[n] \in Seq(S)}
  <2>1. 0 \in G
    <3>1. 0 \in 0 .. L
      BY <1>1
    <3>2. g[0] \in Seq(S)
      BY <1>5, EmptySeq
    <3> QED
      BY <3>1, <3>2
  <2>2. ASSUME NEW n \in 0 .. L - 1, n \in G PROVE n + 1 \in G
    <3>1. n + 1 \in 1 .. L /\ n + 1 \in 0 .. L /\ (n + 1) - 1 = n /\ g[n] \in Seq(S)
      BY <1>1, <2>2
    <3>2. g[n + 1] = g[n] \o s[n + 1] /\ s[n + 1] \in Seq(S)
      BY <1>1, <1>6, <3>1
    <3>3. g[n + 1] \in Seq(S)
      BY <3>1, <3>2, ConcatProperties
    <3> QED
      BY <3>1, <3>3
  <2> HIDE DEF G
  <2>3. \A n \in 0 .. L : n \in G
    BY <1>1, <2>1, <2>2, UpTo
  <2> QED
    BY <2>3 DEF G
<1>9. g \in [0 .. L -> Seq(S)]
  BY <1>7, <1>8
<1>10. FlattenSeq(s) = g[L]
  <2>1. CASE L = 0
    <3>1. s = <<>>
      BY <1>1, <2>1, EmptySeq
    <3> QED
      BY <1>4, <1>5, <2>1, <3>1
  <2>2. CASE L # 0
    <3>1. L \in 1 .. L
      BY <1>1, <2>2
    <3> QED
      BY <1>4, <1>5, <2>2, <3>1
  <2> QED
    BY <2>1, <2>2
<1>11. Flattened(g, s, S)
  BY <1>5, <1>6, <1>9, <1>10 DEF Flattened
<1> QED
  BY <1>11

\* What does not fall from a position to the next does not fall at all.
LEMMA NeverFalls ==
    ASSUME NEW n \in Nat, NEW f \in [1 .. n -> Int], \A i \in 2 .. n : f[i - 1] <= f[i]
    PROVE  \A i, j \in 1 .. n : i <= j => f[i] <= f[j]
<1>1. SUFFICES ASSUME NEW i \in 1 .. n PROVE \A j \in 1 .. n : i <= j => f[i] <= f[j]
  OBVIOUS
<1> DEFINE G == {d \in 0 .. n - i : f[i] <= f[i + d]}
<1>2. \A d \in 0 .. n - i : d \in G <=> f[i] <= f[i + d]
  OBVIOUS
<1>3. n - i \in Nat /\ f[i] \in Int /\ i + 0 = i
  OBVIOUS
<1>4. 0 \in G
  BY <1>3
<1> HIDE DEF G
<1>5. ASSUME NEW d \in 0 .. (n - i) - 1, d \in G PROVE d + 1 \in G
  <2>1. d \in 0 .. n - i /\ d + 1 \in 0 .. n - i /\ i + (d + 1) \in 2 .. n /\ i + d \in 1 .. n
        /\ (i + (d + 1)) - 1 = i + d
    OBVIOUS
  <2>2. f[i] <= f[i + d] /\ f[i + d] <= f[i + (d + 1)]
    BY <1>2, <1>5, <2>1
  <2>3. f[i + d] \in Int /\ f[i + (d + 1)] \in Int
    BY <2>1
  <2> QED
    BY <1>2, <1>3, <2>1, <2>2, <2>3
<1>6. \A d \in 0 .. n - i : d \in G
  BY <1>3, <1>4, <1>5, UpTo
<1>7. ASSUME NEW j \in 1 .. n, i <= j PROVE f[i] <= f[j]
  <2>1. j - i \in 0 .. n - i /\ i + (j - i) = j
    BY <1>7
  <2> QED
    BY <1>2, <1>6, <2>1
<1> QED
  BY <1>7

\* t is the first n lists of s after each other; the k-th ends at h[k].
LaidTo(t, s, h, n) ==
    /\ Len(t) = h[n]
    /\ \A k \in 1 .. n : \A j \in 1 .. Len(s[k]) :
          h[k - 1] + j \in 1 .. h[n] /\ t[h[k - 1] + j] = s[k][j]
    /\ \A i \in 1 .. h[n] : \E k \in 1 .. n : \E j \in 1 .. Len(s[k]) : i = h[k - 1] + j
Ends(h, s) ==
    /\ h \in [0 .. Len(s) -> Nat] /\ h[0] = 0
    /\ \A k \in 1 .. Len(s) : h[k] = h[k - 1] + Len(s[k])

LEMMA LaidStep ==
    ASSUME NEW S, NEW s \in Seq(Seq(S)), NEW h, Ends(h, s), NEW n \in 1 .. Len(s),
           NEW t \in Seq(S), LaidTo(t, s, h, n - 1)
    PROVE  LaidTo(t \o s[n], s, h, n)
<1> DEFINE u == t \o s[n]
<1>1. /\ Len(s) \in Nat /\ n \in Nat /\ n - 1 \in 0 .. Len(s)
      /\ s[n] \in Seq(S) /\ Len(s[n]) \in Nat /\ Len(t) \in Nat
      /\ h[n] \in Nat /\ h[n - 1] \in Nat /\ h[n] = h[n - 1] + Len(s[n]) /\ Len(t) = h[n - 1]
  BY LenProperties DEF Ends, LaidTo
<1>2. /\ u \in Seq(S) /\ Len(u) = Len(t) + Len(s[n])
      /\ \A i \in 1 .. Len(u) : u[i] = IF i <= Len(t) THEN t[i] ELSE s[n][i - Len(t)]
  BY <1>1, ConcatProperties
<1> HIDE DEF u
<1>3. Len(u) = h[n]
  BY <1>1, <1>2
<1>4. ASSUME NEW k \in 1 .. n, NEW j \in 1 .. Len(s[k])
      PROVE  h[k - 1] + j \in 1 .. h[n] /\ u[h[k - 1] + j] = s[k][j]
  <2>1. CASE k = n
    <3>1. k - 1 = n - 1 /\ h[k - 1] = Len(t) /\ j \in 1 .. Len(s[n])
      BY <1>1, <2>1
    <3> DEFINE x == h[k - 1]
    <3>2. x + j \in 1 .. h[n] /\ ~(x + j <= Len(t)) /\ (x + j) - Len(t) = j
      <4> HIDE DEF x
      <4>1. /\ x = Len(t) /\ h[n] = Len(t) + Len(s[n]) /\ Len(t) \in Nat /\ Len(s[n]) \in Nat
            /\ j \in 1 .. Len(s[n])
        BY <1>1, <3>1 DEF x
      <4> DEFINE l == Len(t)
                 m == Len(s[n])
      <4> HIDE DEF l, m
      <4>2. x = l /\ h[n] = l + m /\ l \in Nat /\ m \in Nat /\ j \in 1 .. m
        BY <4>1 DEF l, m
      <4>3. x + j \in 1 .. h[n] /\ ~(x + j <= l) /\ (x + j) - l = j
        BY <4>2
      <4> QED
        BY <4>3 DEF l
    <3> QED
      BY <1>2, <1>3, <2>1, <3>2
  <2>2. CASE k # n
    <3>1. k \in 1 .. n - 1
      BY <1>1, <2>2
    <3>2. h[k - 1] + j \in 1 .. h[n - 1] /\ t[h[k - 1] + j] = s[k][j]
      BY <3>1 DEF LaidTo
    <3> DEFINE x == h[k - 1] + j
    <3>3. x \in 1 .. h[n] /\ x <= Len(t)
      <4>1. x \in 1 .. h[n - 1]
        BY <3>2
      <4> HIDE DEF x
      <4> QED
        BY <1>1, <4>1
    <3> QED
      BY <1>2, <1>3, <3>2, <3>3
  <2> QED
    BY <2>1, <2>2
<1>5. ASSUME NEW i \in 1 .. h[n]
      PROVE  \E k \in 1 .. n : \E j \in 1 .. Len(s[k]) : i = h[k - 1] + j
  <2>1. CASE i <= h[n - 1]
    <3>1. i \in 1 .. h[n - 1]
      BY <1>1, <2>1
    <3>2. PICK k \in 1 .. n - 1 : \E j \in 1 .. Len(s[k]) : i = h[k - 1] + j
      BY <3>1 DEF LaidTo
    <3>3. k \in 1 .. n
      BY <1>1
    <3> QED
      BY <3>2, <3>3
  <2>2. CASE ~(i <= h[n - 1])
    <3>1. i - h[n - 1] \in 1 .. Len(s[n]) /\ i = h[n - 1] + (i - h[n - 1]) /\ n \in 1 .. n
      BY <1>1, <2>2
    <3> QED
      BY <3>1
  <2> QED
    BY <2>1, <2>2
<1> QED
  BY <1>3, <1>4, <1>5 DEF LaidTo, u

\* FlattenSeq lays its lists.
LEMMA FlattenLays ==
    ASSUME NEW S, NEW s \in Seq(Seq(S)), NEW h, Ends(h, s)
    PROVE  FlattenSeq(s) \in Seq(S) /\ LaidTo(FlattenSeq(s), s, h, Len(s))
<1>1. PICK g : Flattened(g, s, S)
  BY FlattenSteps
<1> DEFINE G == {n \in 0 .. Len(s) : LaidTo(g[n], s, h, n)}
<1>2. Len(s) \in Nat
  BY LenProperties
<1>3. \A n \in 0 .. Len(s) : n \in G <=> LaidTo(g[n], s, h, n)
  OBVIOUS
<1> HIDE DEF G
<1>4. 0 \in G
  <2>1. g[0] = <<>> /\ h[0] = 0 /\ Len(g[0]) = 0
    BY <1>1, EmptySeq DEF Flattened, Ends
  <2>2. LaidTo(g[0], s, h, 0)
    BY <2>1 DEF LaidTo
  <2> QED
    BY <1>2, <1>3, <2>2
<1>5. ASSUME NEW n \in 0 .. Len(s) - 1, n \in G PROVE n + 1 \in G
  <2>1. n \in 0 .. Len(s) /\ n + 1 \in 1 .. Len(s) /\ n + 1 \in 0 .. Len(s) /\ (n + 1) - 1 = n
    BY <1>2
  <2>2. g[n] \in Seq(S) /\ g[n + 1] = g[n] \o s[n + 1]
    BY <1>1, <2>1 DEF Flattened
  <2>3. LaidTo(g[n], s, h, (n + 1) - 1)
    BY <1>3, <1>5, <2>1
  <2>4. LaidTo(g[n] \o s[n + 1], s, h, n + 1)
    BY <2>1, <2>2, <2>3, LaidStep
  <2> QED
    BY <1>3, <2>1, <2>2, <2>4
<1>6. Len(s) \in G
  <2>1. \A n \in 0 .. Len(s) : n \in G
    BY <1>2, <1>4, <1>5, UpTo
  <2> QED
    BY <1>2, <2>1
<1>7. FlattenSeq(s) = g[Len(s)] /\ g[Len(s)] \in Seq(S)
  BY <1>1, <1>2 DEF Flattened
<1> QED
  BY <1>2, <1>3, <1>6, <1>7

\* Numbers without a gap, in order.
LEMMA IntervalInOrder ==
    ASSUME NEW a \in Nat, NEW b \in Nat, a <= b
    PROVE  InOrder((a + 1) .. b, <) = [n \in 1 .. b - a |-> a + n]
<1> DEFINE I == (a + 1) .. b
           e(n) == CHOOSE x \in I : Cardinality({y \in I : y < x}) = n - 1
<1>1. Cardinality(I) = b - a
  <2>1. a + 1 \in Int /\ b \in Int
    OBVIOUS
  <2>2. Cardinality(I) = IF a + 1 <= b THEN b - (a + 1) + 1 ELSE 0
    BY <2>1, FS_Interval
  <2> QED
    BY <2>2
<1>2. ASSUME NEW x \in I PROVE Cardinality({y \in I : y < x}) = x - (a + 1)
  <2>1. {y \in I : y < x} = (a + 1) .. (x - 1)
    OBVIOUS
  <2>2. a + 1 \in Int /\ x - 1 \in Int /\ x \in Int /\ a + 1 <= x
    OBVIOUS
  <2>3. Cardinality((a + 1) .. (x - 1)) = IF a + 1 <= x - 1 THEN (x - 1) - (a + 1) + 1 ELSE 0
    BY <2>2, FS_Interval
  <2>4. Cardinality((a + 1) .. (x - 1)) = x - (a + 1)
    BY <2>2, <2>3
  <2> QED
    BY <2>1, <2>4
<1>3. ASSUME NEW n \in 1 .. b - a PROVE e(n) = a + n
  <2>1. a + n \in I /\ (a + n) - (a + 1) = n - 1
    OBVIOUS
  <2>2. Cardinality({y \in I : y < a + n}) = n - 1
    BY <1>2, <2>1
  <2>3. \A x \in I : Cardinality({y \in I : y < x}) = n - 1 => x = a + n
    <3>1. ASSUME NEW x \in I, Cardinality({y \in I : y < x}) = n - 1 PROVE x = a + n
      <4>1. x - (a + 1) = n - 1 /\ x \in Int
        BY <1>2, <3>1
      <4> QED
        BY <4>1
    <3> QED
      BY <3>1
  <2> HIDE DEF I
  <2> QED
    BY <2>1, <2>2, <2>3
<1>4. InOrder(I, <) = [n \in 1 .. Cardinality(I) |-> e(n)]
  BY DEF InOrder
<1> HIDE DEF I, e
<1>5. InOrder(I, <) = [n \in 1 .. b - a |-> a + n]
  BY <1>1, <1>3, <1>4
<1> QED
  BY <1>5 DEF I
=============================================================================
