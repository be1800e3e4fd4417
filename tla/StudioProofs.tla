---------------------------- MODULE StudioProofs ----------------------------
(***************************************************************************)
(* Proofs about the requests of Studio.tla, for any set of callers, keys   *)
(* and bounds: bridge drafts, platform rows, analyses, uploads, the        *)
(* execution plane, the provider controller, the settings and the versions *)
(* of a timeline, and then about all of them side by side.                 *)
(***************************************************************************)
EXTENDS Studio, TimelineProofs

-----------------------------------------------------------------------------
(* Bridge: the inductive invariant.                                        *)

BRow == [status : {"none", "reserved", "succeeded", "failed"},
         print : Payloads \cup {0}, version : Nat]
BHandlerRow == [pc : {"idle", "reserve", "project", "versions", "creating", "completing",
                      "pushing", "failing"},
                key : BKeys \cup {0}, print : Payloads \cup {0}, version : Nat]

BTypes ==
    /\ BTypeOK
    /\ bAnswers \subseteq [key : BKeys, shown : Nat]
    /\ bHistory \in [calls : Nat, faults : Nat, failed : Nat, overlap : BOOLEAN]

\* A handler that serves a request has its key; past ensure_project it is the
\* project's, and past the version step it holds one of the project's versions.
HandlerHolds(row, owner, versions) ==
    /\ row.pc # "idle" => row.key \in BKeys
    /\ row.pc \in {"versions", "creating", "completing", "pushing"} => row.key = owner
    /\ row.pc \in {"completing", "pushing"} => row.version \in DOMAIN versions
HandlersHold == \A h \in Handlers : HandlerHolds(bHandler[h], bOwner, bVersions)

\* A request that succeeded is the one that made the project.
SucceededOwns ==
    \A k \in BKeys : bRequest[k].status = "succeeded" =>
        k = bOwner /\ bRequest[k].version \in DOMAIN bVersions

\* An event is paid for by a failure, all but the first, and one is due while the
\* request has not succeeded.
EventsPaid ==
    \A k \in BKeys :
        /\ IsFiniteSet(EventsOf(k))
        /\ Cardinality(EventsOf(k)) <= 1 + bHistory.failed
        /\ bRequest[k].status # "succeeded" => Cardinality(EventsOf(k)) <= bHistory.failed

\* Without overlap the handlers serve keys of their own, and one that is about
\* to create a version finds none.
HandlersApart ==
    ~bHistory.overlap =>
        \A g, h \in Handlers :
            g # h /\ bHandler[g].pc # "idle" /\ bHandler[h].pc # "idle" =>
                bHandler[g].key # bHandler[h].key
FirstDraftOnly ==
    ~bHistory.overlap =>
        /\ Len(bVersions) <= 1
        /\ \A h \in Handlers : bHandler[h].pc = "creating" => bVersions = <<>>

BridgeInv ==
    /\ BTypes
    /\ HandlersHold
    /\ OneRequestOwnsTheProject
    /\ SucceededOwns
    /\ EventsPaid
    /\ HandlersApart
    /\ FirstDraftOnly

LEMMA BridgeTypes ==
    ASSUME BTypes
    PROVE  /\ bRequest \in [BKeys -> BRow]
           /\ bHandler \in [Handlers -> BHandlerRow]
           /\ bVersions \in Seq(BKeys) /\ bOwner \in BKeys \cup {0}
           /\ bEvents \in Seq([key : BKeys, version : Nat])
           /\ 0 \notin BKeys /\ BKeys \subseteq Nat
           /\ bHistory.failed \in Nat /\ bHistory.overlap \in BOOLEAN
           /\ BIdle \in BHandlerRow
BY BridgeConstants DEF BTypes, BTypeOK, BRow, BHandlerRow, BIdle

\* What any step keeps that moves one handler to a row that holds.
LEMMA HandlerMoves ==
    ASSUME BridgeInv, NEW h \in Handlers, NEW row \in BHandlerRow,
           bHandler' = [bHandler EXCEPT ![h] = row],
           HandlerHolds(row, bOwner', bVersions'),
           bOwner \in {0, bOwner'},
           DOMAIN bVersions \subseteq DOMAIN bVersions',
           bHistory.overlap => bHistory'.overlap,
           bHistory'.overlap \in BOOLEAN,
           \/ bHistory'.overlap \/ row.pc = "idle"
           \/ row.key = bHandler[h].key /\ bHandler[h].pc # "idle"
           \/ \A g \in Handlers : bHandler[g].key # row.key
    PROVE  /\ bHandler' \in [Handlers -> BHandlerRow]
           /\ HandlersHold'
           /\ HandlersApart'
<1>1. /\ bHandler' \in [Handlers -> BHandlerRow] /\ bHandler'[h] = row
      /\ \A g \in Handlers : g # h => bHandler'[g] = bHandler[g]
  BY BridgeTypes DEF BridgeInv
<1>2. ASSUME NEW g \in Handlers, g # h PROVE HandlerHolds(bHandler'[g], bOwner', bVersions')
  <2>1. HandlerHolds(bHandler[g], bOwner, bVersions)
    BY DEF BridgeInv, HandlersHold
  <2>2. bHandler'[g] = bHandler[g] /\ 0 \notin BKeys
    BY <1>1, <1>2, BridgeTypes DEF BridgeInv
  <2> DEFINE r == bHandler[g]
  <2>3. /\ r.pc # "idle" => r.key \in BKeys
        /\ r.pc \in {"versions", "creating", "completing", "pushing"} => r.key = bOwner
        /\ r.pc \in {"completing", "pushing"} => r.version \in DOMAIN bVersions
    BY <2>1 DEF HandlerHolds
  <2>4. bHandler'[g] = r
    BY <2>2
  <2> HIDE DEF r
  <2>5. r.pc \in {"versions", "creating", "completing", "pushing"} => r.key = bOwner'
    BY <2>2, <2>3
  <2> QED
    BY <2>3, <2>4, <2>5 DEF HandlerHolds
<1>3. HandlersHold'
  <2>1. HandlerHolds(bHandler'[h], bOwner', bVersions')
    BY <1>1 DEF HandlerHolds
  <2> QED
    BY <1>2, <2>1 DEF HandlersHold
<1>4. HandlersApart'
  <2> SUFFICES ASSUME ~bHistory'.overlap, NEW g \in Handlers, NEW k \in Handlers, g # k,
                      bHandler'[g].pc # "idle", bHandler'[k].pc # "idle"
               PROVE  bHandler'[g].key # bHandler'[k].key
    BY DEF HandlersApart
  <2>1. \A i, j \in Handlers :
           i # j /\ bHandler[i].pc # "idle" /\ bHandler[j].pc # "idle" =>
               bHandler[i].key # bHandler[j].key
    BY DEF BridgeInv, HandlersApart
  <2>2. ASSUME NEW i \in Handlers, i # h, bHandler[i].pc # "idle", row.pc # "idle"
        PROVE  bHandler[i].key # row.key
    BY <2>1, <2>2
  <2>3. CASE g = h
    BY <1>1, <2>2, <2>3
  <2>4. CASE k = h
    BY <1>1, <2>2, <2>4
  <2>5. CASE g # h /\ k # h
    BY <1>1, <2>1, <2>5
  <2> QED
    BY <2>3, <2>4, <2>5
<1> QED
  BY <1>1, <1>3, <1>4

\* What a step keeps that leaves the versions and the events alone.
LEMMA TablesRest ==
    ASSUME BridgeInv, HandlersApart', UNCHANGED <<bOwner, bVersions, bEvents, bRequest>>,
           bHistory'.failed = bHistory.failed,
           bHistory.overlap => bHistory'.overlap, bHistory'.overlap \in BOOLEAN,
           \A a \in bAnswers' : a.key = bOwner /\ a.shown \in DOMAIN bVersions,
           ~bHistory'.overlap =>
              \A h \in Handlers : bHandler'[h].pc = "creating" =>
                  bHandler[h].pc = "creating" \/ bVersions = <<>>
    PROVE  /\ OneRequestOwnsTheProject' /\ SucceededOwns' /\ EventsPaid' /\ FirstDraftOnly'
<1>1. OneRequestOwnsTheProject'
  BY DEF BridgeInv, OneRequestOwnsTheProject
<1>2. SucceededOwns'
  BY DEF BridgeInv, SucceededOwns
<1>3. EventsPaid'
  BY DEF BridgeInv, EventsPaid, EventsOf
<1>4. FirstDraftOnly'
  BY DEF BridgeInv, FirstDraftOnly
<1> QED
  BY <1>1, <1>2, <1>3, <1>4

LEMMA ReserveKeeps ==
    ASSUME BridgeInv, NEW h \in Handlers, ReserveRequest(h) PROVE BridgeInv'
<1> DEFINE k == bHandler[h].key
           old == bRequest[k]
           print == bHandler[h].print
           new == [old EXCEPT !.status = "reserved", !.print = print]
           onward == [bHandler[h] EXCEPT !.pc = "project"]
<1>1. /\ bHandler[h] \in BHandlerRow /\ bHandler[h].pc = "reserve" /\ k \in BKeys
      /\ old \in BRow /\ print \in Payloads \cup {0}
      /\ UNCHANGED <<bOwner, bVersions, bEvents, bHistory>>
  BY BridgeTypes DEF BridgeInv, HandlersHold, HandlerHolds, ReserveRequest, BHandlerRow
<1>2. /\ onward \in BHandlerRow /\ onward.pc = "project" /\ onward.key = k
      /\ BIdle \in BHandlerRow /\ BIdle.pc = "idle"
  BY <1>1, BridgeTypes DEF BridgeInv, BHandlerRow, BIdle
<1>3. /\ HandlerHolds(onward, bOwner', bVersions') /\ HandlerHolds(BIdle, bOwner', bVersions')
  BY <1>1, <1>2 DEF HandlerHolds
<1>4. bHandler' = [bHandler EXCEPT ![h] = onward] \/ bHandler' = [bHandler EXCEPT ![h] = BIdle]
  BY DEF ReserveRequest, Goto
<1> HIDE DEF onward
<1>5. /\ bHandler' \in [Handlers -> BHandlerRow] /\ HandlersHold' /\ HandlersApart'
      /\ \A g \in Handlers : bHandler'[g].pc = "creating" => bHandler[g].pc = "creating"
  <2>1. bHistory'.overlap \in BOOLEAN /\ (bHistory.overlap => bHistory'.overlap)
        /\ bOwner \in {0, bOwner'} /\ DOMAIN bVersions \subseteq DOMAIN bVersions'
    BY <1>1, BridgeTypes DEF BridgeInv
  <2>2. CASE bHandler' = [bHandler EXCEPT ![h] = onward]
    <3>1. /\ bHandler' \in [Handlers -> BHandlerRow] /\ HandlersHold' /\ HandlersApart'
      BY <1>1, <1>2, <1>3, <2>1, <2>2, HandlerMoves
    <3> QED
      BY <1>2, <2>2, <3>1, BridgeTypes DEF BridgeInv
  <2>3. CASE bHandler' = [bHandler EXCEPT ![h] = BIdle]
    <3>1. /\ bHandler' \in [Handlers -> BHandlerRow] /\ HandlersHold' /\ HandlersApart'
      BY <1>1, <1>2, <1>3, <2>1, <2>3, HandlerMoves
    <3> QED
      BY <1>2, <2>3, <3>1, BridgeTypes DEF BridgeInv
  <2> QED
    BY <1>4, <2>2, <2>3
<1>6. CASE old.status = "none" /\ bRequest' = [bRequest EXCEPT ![k] = new] /\ UNCHANGED bAnswers
  <2>1. new \in BRow /\ new.status = "reserved"
    BY <1>1 DEF BRow
  <2> HIDE DEF new
  <2>2. /\ bRequest' \in [BKeys -> BRow] /\ bRequest'[k] = new
        /\ \A j \in BKeys : j # k => bRequest'[j] = bRequest[j]
    BY <1>1, <1>6, <2>1, BridgeTypes DEF BridgeInv
  <2>3. BTypes'
    BY <1>1, <1>5, <1>6, <2>2 DEF BridgeInv, BTypes, BTypeOK, BRow, BHandlerRow
  <2>4. OneRequestOwnsTheProject'
    BY <1>1, <1>6 DEF BridgeInv, OneRequestOwnsTheProject
  <2>5. SucceededOwns'
    BY <1>1, <2>1, <2>2 DEF BridgeInv, SucceededOwns
  <2>6. EventsPaid'
    <3>1. \A j \in BKeys : EventsOf(j)' = EventsOf(j)
      BY <1>1 DEF EventsOf
    <3>2. Cardinality(EventsOf(k)) <= bHistory.failed
      BY <1>1, <1>6 DEF BridgeInv, EventsPaid
    <3> QED
      BY <1>1, <2>2, <3>1, <3>2 DEF BridgeInv, EventsPaid
  <2>7. FirstDraftOnly'
    BY <1>1, <1>5 DEF BridgeInv, FirstDraftOnly
  <2> QED
    BY <1>5, <2>3, <2>4, <2>5, <2>6, <2>7 DEF BridgeInv
<1>7. CASE UNCHANGED bRequest /\ bAnswers' \subseteq bAnswers \cup
              (IF old.status = "succeeded" THEN {[key |-> k, shown |-> old.version]} ELSE {})
  <2>1. old.status = "succeeded" => k = bOwner /\ old.version \in DOMAIN bVersions
    BY <1>1 DEF BridgeInv, SucceededOwns
  <2>2. old.version \in Nat
    BY <1>1 DEF BRow
  <2>3. \A a \in bAnswers' : a.key = bOwner /\ a.shown \in DOMAIN bVersions
    BY <1>7, <2>1 DEF BridgeInv, OneRequestOwnsTheProject
  <2>4. bAnswers' \subseteq [key : BKeys, shown : Nat]
    BY <1>1, <1>7, <2>2 DEF BridgeInv, BTypes
  <2>5. BTypes'
    BY <1>1, <1>5, <1>7, <2>4 DEF BridgeInv, BTypes, BTypeOK, BHandlerRow
  <2>6. OneRequestOwnsTheProject' /\ SucceededOwns' /\ EventsPaid' /\ FirstDraftOnly'
    BY <1>1, <1>5, <1>7, <2>3, TablesRest, BridgeTypes DEF BridgeInv
  <2> QED
    BY <1>5, <2>5, <2>6 DEF BridgeInv
<1> QED
  <2>1. \/ old.status = "none" /\ bRequest' = [bRequest EXCEPT ![k] = new] /\ UNCHANGED bAnswers
        \/ UNCHANGED bRequest /\ UNCHANGED bAnswers
        \/ old.status = "succeeded" /\ UNCHANGED bRequest
             /\ bAnswers' = bAnswers \cup {[key |-> k, shown |-> old.version]}
    <3> HIDE DEF k
    <3> USE DEF k
    <3> QED
      BY DEF ReserveRequest
  <2> QED
    BY <1>6, <1>7, <2>1

\* The steps that change a handler, and no table but the project's own row.
LEMMA MovingKeeps ==
    ASSUME BridgeInv, NEW h \in Handlers, NEW row \in BHandlerRow,
           bHandler' = [bHandler EXCEPT ![h] = row], HandlerHolds(row, bOwner', bVersions'),
           row.pc = "creating" => bVersions = <<>> \/ bHistory.overlap,
           \/ row.pc = "idle"
           \/ row.key = bHandler[h].key /\ bHandler[h].pc # "idle",
           bAnswers' \subseteq [key : BKeys, shown : Nat],
           \A a \in bAnswers' : a.key = bOwner /\ a.shown \in DOMAIN bVersions,
           UNCHANGED <<bRequest, bOwner, bVersions, bEvents>>,
           bHistory' \in [calls : Nat, faults : Nat, failed : Nat, overlap : BOOLEAN],
           bHistory'.failed = bHistory.failed, bHistory'.overlap = bHistory.overlap
    PROVE  BridgeInv'
<1>1. /\ bHandler' \in [Handlers -> BHandlerRow] /\ HandlersHold' /\ HandlersApart'
  BY HandlerMoves, BridgeTypes DEF BridgeInv
<1>2. BTypes'
  BY <1>1 DEF BridgeInv, BTypes, BTypeOK, BHandlerRow
<1>3. \A g \in Handlers : bHandler'[g] = IF g = h THEN row ELSE bHandler[g]
  BY BridgeTypes DEF BridgeInv
<1>4. OneRequestOwnsTheProject' /\ SucceededOwns' /\ EventsPaid' /\ FirstDraftOnly'
  BY <1>1, <1>3, TablesRest, BridgeTypes DEF BridgeInv
<1> QED
  BY <1>1, <1>2, <1>4 DEF BridgeInv

LEMMA CallBridgeKeeps ==
    ASSUME BridgeInv, NEW h \in Handlers, NEW k \in BKeys, NEW p \in Payloads, CallBridge(h, k, p)
    PROVE  BridgeInv'
<1> DEFINE row == [pc |-> "reserve", key |-> k, print |-> p, version |-> 0]
<1>1. /\ row \in BHandlerRow /\ row.pc = "reserve" /\ row.key = k
      /\ bHandler' = [bHandler EXCEPT ![h] = row]
      /\ UNCHANGED <<bRequest, bOwner, bVersions, bEvents, bAnswers>>
  BY DEF CallBridge, bTables, BHandlerRow
<1>2. /\ bHistory' \in [calls : Nat, faults : Nat, failed : Nat, overlap : BOOLEAN]
      /\ bHistory'.failed = bHistory.failed /\ bHistory'.overlap \in BOOLEAN
      /\ bHistory.overlap => bHistory'.overlap
      /\ bHistory'.overlap \/ Working(k) = {}
  <2>1. bHistory \in [calls : Nat, faults : Nat, failed : Nat, overlap : BOOLEAN]
    BY DEF BridgeInv, BTypes
  <2> DEFINE overlap == bHistory.overlap \/ Working(k) # {}
  <2>2. overlap \in BOOLEAN
    OBVIOUS
  <2>3. bHistory' = [bHistory EXCEPT !.calls = bHistory.calls + 1, !.overlap = overlap]
    BY DEF CallBridge
  <2>4. (bHistory.overlap => overlap) /\ (overlap \/ Working(k) = {})
    OBVIOUS
  <2> HIDE DEF overlap
  <2>5. /\ bHistory' \in [calls : Nat, faults : Nat, failed : Nat, overlap : BOOLEAN]
        /\ bHistory'.failed = bHistory.failed /\ bHistory'.overlap = overlap
    <3>1. bHistory' = [calls |-> bHistory.calls + 1, faults |-> bHistory.faults,
                       failed |-> bHistory.failed, overlap |-> overlap]
      BY <2>1, <2>3
    <3>2. bHistory.calls + 1 \in Nat /\ bHistory.faults \in Nat /\ bHistory.failed \in Nat
      BY <2>1
    <3> QED
      BY <2>2, <3>1, <3>2
  <2> QED
    BY <2>2, <2>4, <2>5
<1> HIDE DEF row
<1>3. HandlerHolds(row, bOwner', bVersions')
  BY <1>1 DEF HandlerHolds
<1>4. bHistory'.overlap \/ \A g \in Handlers : bHandler[g].key # row.key
  BY <1>1, <1>2 DEF Working
<1>5. /\ bHandler' \in [Handlers -> BHandlerRow] /\ HandlersHold' /\ HandlersApart'
  BY <1>1, <1>2, <1>3, <1>4, HandlerMoves
<1>6. BTypes'
  BY <1>1, <1>2, <1>5 DEF BridgeInv, BTypes, BTypeOK, BHandlerRow
<1>7. \A g \in Handlers : bHandler'[g] = IF g = h THEN row ELSE bHandler[g]
  BY <1>1, BridgeTypes DEF BridgeInv
<1>8. OneRequestOwnsTheProject' /\ SucceededOwns' /\ EventsPaid' /\ FirstDraftOnly'
  <2>1. \A a \in bAnswers' : a.key = bOwner /\ a.shown \in DOMAIN bVersions
    BY <1>1 DEF BridgeInv, OneRequestOwnsTheProject
  <2> QED
    BY <1>1, <1>2, <1>5, <1>7, <2>1, TablesRest
<1> QED
  BY <1>5, <1>6, <1>8 DEF BridgeInv

LEMMA EnsureProjectKeeps ==
    ASSUME BridgeInv, NEW h \in Handlers, EnsureProject(h) PROVE BridgeInv'
<1> DEFINE k == bHandler[h].key
           onward == [bHandler[h] EXCEPT !.pc = "versions"]
           failing == [bHandler[h] EXCEPT !.pc = "failing"]
<1>1. /\ bHandler[h] \in BHandlerRow /\ bHandler[h].pc = "project" /\ k \in BKeys
      /\ UNCHANGED <<bRequest, bVersions, bEvents, bAnswers, bHistory>>
      /\ bHistory \in [calls : Nat, faults : Nat, failed : Nat, overlap : BOOLEAN]
      /\ bAnswers \subseteq [key : BKeys, shown : Nat]
      /\ \A a \in bAnswers : a.key = bOwner /\ a.shown \in DOMAIN bVersions
  BY BridgeTypes DEF BridgeInv, BTypes, HandlersHold, HandlerHolds, EnsureProject,
                     OneRequestOwnsTheProject
<1>2. /\ onward \in BHandlerRow /\ onward.pc = "versions" /\ onward.key = k
      /\ failing \in BHandlerRow /\ failing.pc = "failing" /\ failing.key = k
  BY <1>1 DEF BHandlerRow
<1>3. CASE ~OwnProject(k)
  <2>1. bOwner' = bOwner /\ bHandler' = [bHandler EXCEPT ![h] = failing]
    BY <1>3 DEF EnsureProject, Goto
  <2> HIDE DEF failing
  <2>2. HandlerHolds(failing, bOwner', bVersions')
    BY <1>1, <1>2 DEF HandlerHolds
  <2> QED
    BY <1>1, <1>2, <2>1, <2>2, MovingKeeps
<1>4. CASE OwnProject(k) /\ bOwner = k
  <2>1. bOwner' = bOwner /\ bHandler' = [bHandler EXCEPT ![h] = onward]
    BY <1>1, <1>4, BridgeTypes DEF EnsureProject, Goto, BridgeInv
  <2> HIDE DEF onward
  <2>2. HandlerHolds(onward, bOwner', bVersions')
    BY <1>1, <1>2, <1>4, <2>1 DEF HandlerHolds
  <2> QED
    BY <1>1, <1>2, <2>1, <2>2, MovingKeeps
<1>5. CASE OwnProject(k) /\ bOwner = 0
  <2>1. bOwner' = k /\ bHandler' = [bHandler EXCEPT ![h] = onward]
    BY <1>5 DEF EnsureProject, Goto
  <2> HIDE DEF onward
  <2>2. HandlerHolds(onward, bOwner', bVersions')
    BY <1>1, <1>2, <2>1 DEF HandlerHolds
  <2>3. bHistory.overlap \in BOOLEAN
    BY BridgeTypes DEF BridgeInv
  <2>4. /\ bHandler' \in [Handlers -> BHandlerRow] /\ HandlersHold' /\ HandlersApart'
    BY <1>1, <1>2, <1>5, <2>1, <2>2, <2>3, HandlerMoves
  <2>5. BTypes'
    BY <1>1, <2>1, <2>4 DEF BridgeInv, BTypes, BTypeOK, BHandlerRow
  <2>6. /\ bVersions \in Seq(BKeys) /\ bEvents \in Seq([key : BKeys, version : Nat])
        /\ 0 \notin BKeys
    BY BridgeTypes DEF BridgeInv
  <2>7. DOMAIN bVersions = {} /\ DOMAIN bEvents = {} /\ bAnswers = {}
    <3>1. \A i \in DOMAIN bVersions : bVersions[i] \in BKeys /\ bVersions[i] = 0
      BY <1>5, <2>6 DEF BridgeInv, OneRequestOwnsTheProject
    <3>2. \A i \in DOMAIN bEvents : bEvents[i].key \in BKeys /\ bEvents[i].key = 0
      <4>1. \A i \in DOMAIN bEvents : bEvents[i].key \in BKeys
        <5> DEFINE Event == [key : BKeys, version : Nat]
        <5>1. bEvents \in Seq(Event) /\ \A e \in Event : e.key \in BKeys
          BY <2>6
        <5> HIDE DEF Event
        <5>2. \A i \in DOMAIN bEvents : bEvents[i] \in Event
          BY <5>1
        <5> QED
          BY <5>1, <5>2
      <4>2. \A i \in DOMAIN bEvents : bEvents[i].key = bOwner
        BY DEF BridgeInv, OneRequestOwnsTheProject
      <4> QED
        BY <1>5, <4>1, <4>2
    <3> QED
      BY <1>1, <2>6, <3>1, <3>2
  <2>8. OneRequestOwnsTheProject'
    BY <1>1, <2>7 DEF OneRequestOwnsTheProject
  <2>9. SucceededOwns'
    BY <1>1, <1>5, <2>6, <2>7 DEF BridgeInv, SucceededOwns
  <2>10. EventsPaid'
    BY <1>1 DEF BridgeInv, EventsPaid, EventsOf
  <2>11. FirstDraftOnly'
    <3>1. \A g \in Handlers : bHandler'[g] = IF g = h THEN onward ELSE bHandler[g]
      BY <2>1, BridgeTypes DEF BridgeInv
    <3> QED
      BY <1>1, <1>2, <3>1 DEF BridgeInv, FirstDraftOnly
  <2> QED
    BY <2>4, <2>5, <2>8, <2>9, <2>10, <2>11 DEF BridgeInv
<1> QED
  BY <1>3, <1>4, <1>5 DEF OwnProject

LEMMA ListVersionsKeeps ==
    ASSUME BridgeInv, NEW h \in Handlers, ListVersions(h) PROVE BridgeInv'
<1> DEFINE k == bHandler[h].key
           found == VersionOf(k)
           row == [bHandler[h] EXCEPT !.version = found,
                                      !.pc = IF found = 0 THEN "creating" ELSE "completing"]
<1>1. /\ bHandler[h] \in BHandlerRow /\ bHandler[h].pc = "versions" /\ k \in BKeys /\ k = bOwner
      /\ bHandler' = [bHandler EXCEPT ![h] = row]
      /\ UNCHANGED <<bRequest, bOwner, bVersions, bEvents, bAnswers, bHistory>>
      /\ bHistory \in [calls : Nat, faults : Nat, failed : Nat, overlap : BOOLEAN]
      /\ bAnswers \subseteq [key : BKeys, shown : Nat]
      /\ \A a \in bAnswers : a.key = bOwner /\ a.shown \in DOMAIN bVersions
      /\ bVersions \in Seq(BKeys)
  <2>1. bHandler[h] \in BHandlerRow
    BY BridgeTypes DEF BridgeInv
  <2>2. bHandler[h].pc = "versions"
    BY DEF ListVersions
  <2>3. bHandler' = [bHandler EXCEPT ![h] = row]
    BY DEF ListVersions
  <2> HIDE DEF row
  <2> QED
    BY <2>1, <2>2, <2>3, BridgeTypes DEF BridgeInv, BTypes, HandlersHold, HandlerHolds, ListVersions,
                     OneRequestOwnsTheProject, bTables
<1>2. \/ found = 0 /\ bVersions = <<>>
      \/ found \in DOMAIN bVersions /\ found # 0
  <2>1. \A i \in DOMAIN bVersions : bVersions[i] = k
    BY <1>1 DEF BridgeInv, OneRequestOwnsTheProject
  <2>2. CASE bVersions = <<>>
    BY <2>2 DEF VersionOf
  <2>3. CASE bVersions # <<>>
    <3> DEFINE First(i) == bVersions[i] = k /\ \A j \in 1 .. i - 1 : bVersions[j] # k
    <3>1. 1 \in DOMAIN bVersions /\ First(1)
      BY <1>1, <2>1, <2>3
    <3>2. found = CHOOSE i \in DOMAIN bVersions : First(i)
      BY <3>1 DEF VersionOf
    <3> HIDE DEF First, found
    <3>3. found \in DOMAIN bVersions
      BY <3>1, <3>2
    <3> QED
      BY <1>1, <3>3
  <2> QED
    BY <2>2, <2>3
<1> HIDE DEF found
<1>3. /\ row \in BHandlerRow /\ row.key = k /\ row.version = found
      /\ row.pc = IF found = 0 THEN "creating" ELSE "completing"
  <2>1. found \in Nat
    BY <1>1, <1>2
  <2> QED
    BY <1>1, <2>1 DEF BHandlerRow
<1> HIDE DEF row
<1>4. HandlerHolds(row, bOwner', bVersions')
  BY <1>1, <1>2, <1>3 DEF HandlerHolds
<1> QED
  BY <1>1, <1>2, <1>3, <1>4, MovingKeeps

LEMMA CreateVersionKeeps ==
    ASSUME BridgeInv, NEW h \in Handlers, CreateVersion(h) PROVE BridgeInv'
<1> DEFINE k == bHandler[h].key
           n == Len(bVersions)
           row == [bHandler[h] EXCEPT !.version = n + 1, !.pc = "completing"]
<1>1. /\ bHandler[h] \in BHandlerRow /\ bHandler[h].pc = "creating" /\ k \in BKeys /\ k = bOwner
      /\ bVersions' = Append(bVersions, k)
      /\ UNCHANGED <<bRequest, bOwner, bEvents, bAnswers, bHistory>>
      /\ bVersions \in Seq(BKeys) /\ n \in Nat /\ bHistory.overlap \in BOOLEAN
  BY BridgeTypes DEF BridgeInv, HandlersHold, HandlerHolds, CreateVersion
<1>2. bHandler' = [bHandler EXCEPT ![h] = row]
  BY DEF CreateVersion
<1>3. /\ row \in BHandlerRow /\ row.pc = "completing" /\ row.key = k /\ row.version = n + 1
  <2>1. n + 1 \in Nat
    BY <1>1
  <2> HIDE DEF n
  <2> QED
    BY <1>1, <2>1 DEF BHandlerRow
<1>4. /\ bVersions' \in Seq(BKeys) /\ DOMAIN bVersions \subseteq DOMAIN bVersions'
      /\ n + 1 \in DOMAIN bVersions' /\ Len(bVersions') = n + 1
      /\ \A i \in DOMAIN bVersions' : bVersions'[i] = IF i = n + 1 THEN k ELSE bVersions[i]
      /\ \A i \in DOMAIN bVersions' : i # n + 1 => i \in DOMAIN bVersions
  BY <1>1
<1> HIDE DEF row
<1>5. HandlerHolds(row, bOwner', bVersions')
  BY <1>1, <1>3, <1>4 DEF HandlerHolds
<1>6. /\ bHandler' \in [Handlers -> BHandlerRow] /\ HandlersHold' /\ HandlersApart'
  BY <1>1, <1>2, <1>3, <1>4, <1>5, HandlerMoves
<1>7. BTypes'
  BY <1>1, <1>4, <1>6 DEF BridgeInv, BTypes, BTypeOK, BHandlerRow
<1>8. OneRequestOwnsTheProject'
  BY <1>1, <1>4 DEF BridgeInv, OneRequestOwnsTheProject
<1>9. SucceededOwns'
  BY <1>1, <1>4 DEF BridgeInv, SucceededOwns
<1>10. EventsPaid'
  BY <1>1 DEF BridgeInv, EventsPaid, EventsOf
<1>11. FirstDraftOnly'
  <2> SUFFICES ASSUME ~bHistory.overlap
               PROVE  /\ Len(bVersions') <= 1
                      /\ \A g \in Handlers : bHandler'[g].pc # "creating"
    BY <1>1 DEF FirstDraftOnly
  <2>1. bVersions = <<>>
    BY <1>1 DEF BridgeInv, FirstDraftOnly
  <2>2. ASSUME NEW g \in Handlers PROVE bHandler'[g].pc # "creating"
    <3>1. CASE g = h
      BY <1>2, <1>3, <3>1, BridgeTypes DEF BridgeInv
    <3>2. CASE g # h
      <4>1. bHandler'[g] = bHandler[g]
        BY <1>2, <3>2, BridgeTypes DEF BridgeInv
      <4>2. bHandler[g].pc = "creating" => bHandler[g].key = k
        BY <1>1 DEF BridgeInv, HandlersHold, HandlerHolds
      <4> QED
        BY <1>1, <3>2, <4>1, <4>2 DEF BridgeInv, HandlersApart
    <3> QED
      BY <3>1, <3>2
  <2> QED
    BY <1>4, <2>1, <2>2
<1> QED
  BY <1>6, <1>7, <1>8, <1>9, <1>10, <1>11 DEF BridgeInv

LEMMA CompleteRequestKeeps ==
    ASSUME BridgeInv, NEW h \in Handlers, CompleteRequest(h) PROVE BridgeInv'
<1>0. PICK k \in BKeys : k = bHandler[h].key
  BY BridgeTypes DEF BridgeInv, HandlersHold, HandlerHolds, CompleteRequest
<1> DEFINE version == bHandler[h].version
           row == [bHandler[h] EXCEPT !.pc = "pushing"]
           done == [bRequest[k] EXCEPT !.status = "succeeded", !.version = version]
           event == [key |-> k, version |-> version]
<1>1. /\ bHandler[h] \in BHandlerRow /\ bHandler[h].pc = "completing" /\ k \in BKeys /\ k = bOwner
      /\ version \in DOMAIN bVersions /\ version \in Nat
      /\ UNCHANGED <<bOwner, bVersions, bAnswers, bHistory>>
      /\ bHistory.overlap \in BOOLEAN /\ bHistory.failed \in Nat
      /\ bRequest \in [BKeys -> BRow] /\ bEvents \in Seq([key : BKeys, version : Nat])
      /\ bHandler' = [bHandler EXCEPT ![h] = row]
  BY <1>0, BridgeTypes DEF BridgeInv, HandlersHold, HandlerHolds, CompleteRequest, BHandlerRow, Goto
<1>2. row \in BHandlerRow /\ row.pc = "pushing" /\ row.key = k /\ row.version = version
  BY <1>0, <1>1 DEF BHandlerRow
<1> HIDE DEF row
<1>3. HandlerHolds(row, bOwner', bVersions')
  BY <1>1, <1>2 DEF HandlerHolds
<1>4. CASE AlreadyCompleted(k)
  <2>1. UNCHANGED <<bRequest, bEvents>>
    BY <1>0, <1>4 DEF CompleteRequest
  <2>2. /\ bHistory' \in [calls : Nat, faults : Nat, failed : Nat, overlap : BOOLEAN]
        /\ bAnswers' \subseteq [key : BKeys, shown : Nat]
        /\ \A a \in bAnswers' : a.key = bOwner /\ a.shown \in DOMAIN bVersions
    BY <1>1 DEF BridgeInv, BTypes, OneRequestOwnsTheProject
  <2> QED
    BY <1>0, <1>1, <1>2, <1>3, <2>1, <2>2, MovingKeeps
<1>5. CASE ~AlreadyCompleted(k)
  <2>1. /\ bRequest' = [bRequest EXCEPT ![k] = done] /\ bEvents' = Append(bEvents, event)
        /\ bRequest[k].status # "succeeded"
    BY <1>0, <1>5 DEF CompleteRequest, AlreadyCompleted
  <2>2. done \in BRow /\ done.status = "succeeded" /\ done.version = version
    BY <1>1 DEF BRow
  <2>3. event \in [key : BKeys, version : Nat] /\ event.key = k
    BY <1>1
  <2> HIDE DEF done, event
  <2>4. /\ bHandler' \in [Handlers -> BHandlerRow] /\ HandlersHold' /\ HandlersApart'
    <3>1. /\ bOwner \in {0, bOwner'} /\ DOMAIN bVersions \subseteq DOMAIN bVersions'
          /\ bHistory'.overlap = bHistory.overlap /\ bHandler[h].pc # "idle"
      BY <1>1
    <3> QED
      BY <1>0, <1>1, <1>2, <1>3, <3>1, HandlerMoves
  <2> DEFINE n == Len(bEvents)
  <2>5. /\ bRequest' \in [BKeys -> BRow] /\ bRequest'[k] = done
        /\ \A j \in BKeys : j # k => bRequest'[j] = bRequest[j]
    BY <1>1, <2>1, <2>2
  <2>6. /\ bEvents' \in Seq([key : BKeys, version : Nat]) /\ n \in Nat
        /\ DOMAIN bEvents' = DOMAIN bEvents \cup {n + 1} /\ n + 1 \notin DOMAIN bEvents
        /\ bEvents'[n + 1] = event
        /\ \A i \in DOMAIN bEvents : bEvents'[i] = bEvents[i]
    BY <1>1, <2>1, <2>3
  <2> HIDE DEF n
  <2>7. BTypes'
    BY <1>1, <2>4, <2>5, <2>6 DEF BridgeInv, BTypes, BTypeOK, BRow, BHandlerRow
  <2>8. OneRequestOwnsTheProject'
    BY <1>1, <2>3, <2>6 DEF BridgeInv, OneRequestOwnsTheProject
  <2>9. SucceededOwns'
    BY <1>1, <2>2, <2>5 DEF BridgeInv, SucceededOwns
  <2>10. EventsPaid'
    <3>1. /\ EventsOf(k)' = EventsOf(k) \cup {n + 1} /\ n + 1 \notin EventsOf(k)
          /\ \A j \in BKeys : j # k => EventsOf(j)' = EventsOf(j)
      <4>1. \A j \in BKeys : EventsOf(j) = {i \in DOMAIN bEvents : bEvents[i].key = j}
        BY DEF EventsOf
      <4>2. \A j \in BKeys : EventsOf(j)' = {i \in DOMAIN bEvents' : bEvents'[i].key = j}
        BY DEF EventsOf
      <4>3. ASSUME NEW j \in BKeys
            PROVE  EventsOf(j)' = EventsOf(j) \cup (IF j = k THEN {n + 1} ELSE {})
        <5>1. \A i : i \in EventsOf(j)' <=> i \in EventsOf(j) \/ (i = n + 1 /\ j = k)
          BY <2>3, <2>6, <4>1, <4>2
        <5> QED
          BY <5>1
      <4>4. n + 1 \notin EventsOf(k)
        BY <2>6, <4>1
      <4> QED
        BY <4>3, <4>4
    <3>2. IsFiniteSet(EventsOf(k)) /\ Cardinality(EventsOf(k)) <= bHistory.failed
      BY <1>1, <2>1 DEF BridgeInv, EventsPaid
    <3>3. IsFiniteSet(EventsOf(k)') /\ Cardinality(EventsOf(k)') = Cardinality(EventsOf(k)) + 1
      BY <3>1, <3>2, FS_AddElement
    <3>4. Cardinality(EventsOf(k)) \in Nat
      BY <3>2, FS_CardinalityType
    <3>5. /\ IsFiniteSet(EventsOf(k)') /\ Cardinality(EventsOf(k)') <= 1 + bHistory'.failed
      BY <1>1, <3>2, <3>3, <3>4
    <3>6. ASSUME NEW j \in BKeys, j # k
          PROVE  /\ IsFiniteSet(EventsOf(j)')
                 /\ Cardinality(EventsOf(j)') <= 1 + bHistory'.failed
                 /\ bRequest'[j].status # "succeeded" =>
                       Cardinality(EventsOf(j)') <= bHistory'.failed
      BY <1>1, <2>5, <3>1, <3>6 DEF BridgeInv, EventsPaid
    <3>7. ASSUME NEW j \in BKeys
          PROVE  /\ IsFiniteSet(EventsOf(j)')
                 /\ Cardinality(EventsOf(j)') <= 1 + bHistory'.failed
                 /\ bRequest'[j].status # "succeeded" =>
                       Cardinality(EventsOf(j)') <= bHistory'.failed
      BY <2>2, <2>5, <3>5, <3>6
    <3> QED
      BY <3>7 DEF EventsPaid
  <2>11. FirstDraftOnly'
    <3>1. \A g \in Handlers : bHandler'[g] = IF g = h THEN row ELSE bHandler[g]
      BY <1>1, BridgeTypes DEF BridgeInv
    <3> QED
      BY <1>1, <1>2, <3>1 DEF BridgeInv, FirstDraftOnly
  <2> QED
    BY <2>4, <2>7, <2>8, <2>9, <2>10, <2>11 DEF BridgeInv
<1> QED
  BY <1>4, <1>5

LEMMA AnswerRequestKeeps ==
    ASSUME BridgeInv, NEW h \in Handlers, AnswerRequest(h) PROVE BridgeInv'
<1> DEFINE k == bHandler[h].key
           version == bHandler[h].version
<1>1. /\ bHandler[h] \in BHandlerRow /\ bHandler[h].pc = "pushing" /\ k \in BKeys /\ k = bOwner
      /\ version \in DOMAIN bVersions /\ version \in Nat
      /\ UNCHANGED <<bRequest, bOwner, bVersions, bEvents, bHistory>>
      /\ bHandler' = [bHandler EXCEPT ![h] = BIdle]
      /\ bAnswers' = bAnswers \cup {[key |-> k, shown |-> version]}
  BY BridgeTypes DEF BridgeInv, HandlersHold, HandlerHolds, AnswerRequest, BHandlerRow, bTables
<1>2. /\ bHistory' \in [calls : Nat, faults : Nat, failed : Nat, overlap : BOOLEAN]
      /\ bAnswers' \subseteq [key : BKeys, shown : Nat]
      /\ \A a \in bAnswers' : a.key = bOwner /\ a.shown \in DOMAIN bVersions
  BY <1>1 DEF BridgeInv, BTypes, OneRequestOwnsTheProject
<1>3. BIdle \in BHandlerRow /\ BIdle.pc = "idle" /\ HandlerHolds(BIdle, bOwner', bVersions')
  BY BridgeTypes DEF BridgeInv, BIdle, HandlerHolds
<1> QED
  BY <1>1, <1>2, <1>3, MovingKeeps

LEMMA BridgeRaisesKeeps ==
    ASSUME BridgeInv, NEW h \in Handlers, BridgeStepRaises(h) PROVE BridgeInv'
<1> DEFINE row == [bHandler[h] EXCEPT !.pc = "failing"]
<1>1. /\ bHandler[h] \in BHandlerRow /\ bHandler[h].pc # "idle" /\ bHandler[h].key \in BKeys
      /\ UNCHANGED <<bRequest, bOwner, bVersions, bEvents, bAnswers>>
      /\ bHandler' = [bHandler EXCEPT ![h] = row]
  BY BridgeTypes DEF BridgeInv, HandlersHold, HandlerHolds, BridgeStepRaises, bTables, Goto
<1>2. /\ bHistory' \in [calls : Nat, faults : Nat, failed : Nat, overlap : BOOLEAN]
      /\ bHistory'.failed = bHistory.failed /\ bHistory'.overlap = bHistory.overlap
      /\ bAnswers' \subseteq [key : BKeys, shown : Nat]
      /\ \A a \in bAnswers' : a.key = bOwner /\ a.shown \in DOMAIN bVersions
  BY <1>1 DEF BridgeInv, BTypes, OneRequestOwnsTheProject, BridgeStepRaises
<1>3. row \in BHandlerRow /\ row.pc = "failing" /\ row.key = bHandler[h].key
  BY <1>1 DEF BHandlerRow
<1> HIDE DEF row
<1>4. HandlerHolds(row, bOwner', bVersions')
  BY <1>1, <1>3 DEF HandlerHolds
<1> QED
  BY <1>1, <1>2, <1>3, <1>4, MovingKeeps

LEMMA FailRequestKeeps ==
    ASSUME BridgeInv, NEW h \in Handlers, FailRequest(h) PROVE BridgeInv'
<1> DEFINE k == bHandler[h].key
           failed == Failed(bRequest[k])
<1>1. /\ bHandler[h] \in BHandlerRow /\ bHandler[h].pc = "failing" /\ k \in BKeys
      /\ UNCHANGED <<bOwner, bVersions, bEvents, bAnswers>>
      /\ bHandler' = [bHandler EXCEPT ![h] = BIdle]
      /\ bRequest' = [bRequest EXCEPT ![k] = failed]
      /\ bRequest \in [BKeys -> BRow] /\ bHistory.failed \in Nat
  BY BridgeTypes DEF BridgeInv, HandlersHold, HandlerHolds, FailRequest
<1>2. failed \in BRow /\ failed.status = "failed"
  BY <1>1 DEF BRow, Failed
<1> HIDE DEF failed
<1>3. /\ bRequest' \in [BKeys -> BRow] /\ bRequest'[k] = failed
      /\ \A j \in BKeys : j # k => bRequest'[j] = bRequest[j]
  BY <1>1, <1>2
<1>4. /\ bHistory' \in [calls : Nat, faults : Nat, failed : Nat, overlap : BOOLEAN]
      /\ bHistory'.failed = bHistory.failed + 1 /\ bHistory'.overlap = bHistory.overlap
      /\ bHistory'.overlap \in BOOLEAN
  BY DEF BridgeInv, BTypes, FailRequest
<1>5. BIdle \in BHandlerRow /\ BIdle.pc = "idle" /\ HandlerHolds(BIdle, bOwner', bVersions')
  BY BridgeTypes DEF BridgeInv, BIdle, HandlerHolds
<1>6. /\ bHandler' \in [Handlers -> BHandlerRow] /\ HandlersHold' /\ HandlersApart'
  BY <1>1, <1>4, <1>5, HandlerMoves
<1>7. BTypes'
  BY <1>1, <1>3, <1>4, <1>6 DEF BridgeInv, BTypes, BTypeOK, BRow, BHandlerRow
<1>8. OneRequestOwnsTheProject'
  BY <1>1 DEF BridgeInv, OneRequestOwnsTheProject
<1>9. SucceededOwns'
  BY <1>1, <1>2, <1>3 DEF BridgeInv, SucceededOwns
<1>10. EventsPaid'
  <2>1. ASSUME NEW j \in BKeys
        PROVE  /\ IsFiniteSet(EventsOf(j)')
               /\ Cardinality(EventsOf(j)') <= bHistory'.failed
               /\ Cardinality(EventsOf(j)') <= 1 + bHistory'.failed
    <3>1. EventsOf(j)' = EventsOf(j)
      BY <1>1 DEF EventsOf
    <3>2. IsFiniteSet(EventsOf(j)) /\ Cardinality(EventsOf(j)) <= 1 + bHistory.failed
      BY DEF BridgeInv, EventsPaid
    <3>3. Cardinality(EventsOf(j)) \in Nat
      BY <3>2, FS_CardinalityType
    <3> QED
      BY <1>1, <1>4, <3>1, <3>2, <3>3
  <2> QED
    BY <2>1 DEF EventsPaid
<1>11. FirstDraftOnly'
  <2>1. \A g \in Handlers : bHandler'[g] = IF g = h THEN BIdle ELSE bHandler[g]
    BY <1>1, BridgeTypes DEF BridgeInv
  <2> QED
    BY <1>1, <1>4, <1>5, <2>1 DEF BridgeInv, FirstDraftOnly
<1> QED
  BY <1>6, <1>7, <1>8, <1>9, <1>10, <1>11 DEF BridgeInv

LEMMA BridgeCrashKeeps == BridgeInv /\ BridgeCrash => BridgeInv'
<1> SUFFICES ASSUME BridgeInv, BridgeCrash PROVE BridgeInv'
  OBVIOUS
<1>1. /\ UNCHANGED <<bRequest, bOwner, bVersions, bEvents, bAnswers>>
      /\ bHandler' = [h \in Handlers |-> BIdle]
      /\ bHistory' \in [calls : Nat, faults : Nat, failed : Nat, overlap : BOOLEAN]
      /\ bHistory'.failed = bHistory.failed /\ bHistory'.overlap = bHistory.overlap
      /\ bHistory'.overlap \in BOOLEAN
  BY DEF BridgeInv, BTypes, BridgeCrash, bTables
<1>2. BIdle \in BHandlerRow /\ BIdle.pc = "idle"
  BY BridgeTypes DEF BridgeInv, BIdle
<1>3. bHandler' \in [Handlers -> BHandlerRow] /\ \A h \in Handlers : bHandler'[h].pc = "idle"
  BY <1>1, <1>2
<1>4. HandlersHold' /\ HandlersApart'
  BY <1>3 DEF HandlersHold, HandlerHolds, HandlersApart
<1>5. BTypes'
  BY <1>1, <1>3 DEF BridgeInv, BTypes, BTypeOK, BHandlerRow
<1>6. \A a \in bAnswers' : a.key = bOwner /\ a.shown \in DOMAIN bVersions
  BY <1>1 DEF BridgeInv, OneRequestOwnsTheProject
<1>7. OneRequestOwnsTheProject' /\ SucceededOwns' /\ EventsPaid' /\ FirstDraftOnly'
  BY <1>1, <1>3, <1>4, <1>6, TablesRest
<1> QED
  BY <1>4, <1>5, <1>7 DEF BridgeInv

THEOREM BridgeInvariant == BSpec => []BridgeInv
<1>1. BInit => BridgeInv
  <2> SUFFICES ASSUME BInit PROVE BridgeInv
    OBVIOUS
  <2>1. BTypes
    BY DEF BInit, BTypes, BTypeOK, BIdle
  <2>2. HandlersHold /\ HandlersApart /\ FirstDraftOnly
    BY DEF BInit, BIdle, HandlersHold, HandlerHolds, HandlersApart, FirstDraftOnly
  <2>3. OneRequestOwnsTheProject /\ SucceededOwns
    BY DEF BInit, OneRequestOwnsTheProject, SucceededOwns
  <2>4. EventsPaid
    <3>1. \A k \in BKeys : EventsOf(k) = {}
      BY DEF BInit, EventsOf
    <3>2. \A k \in BKeys : IsFiniteSet(EventsOf(k)) /\ Cardinality(EventsOf(k)) = 0
      BY <3>1, FS_EmptySet
    <3>3. bHistory.failed = 0
      BY DEF BInit
    <3> QED
      BY <3>2, <3>3 DEF EventsPaid
  <2> QED
    BY <2>1, <2>2, <2>3, <2>4 DEF BridgeInv
<1>2. BridgeInv /\ [BNext]_bVars => BridgeInv'
  <2> SUFFICES ASSUME BridgeInv, [BNext]_bVars PROVE BridgeInv'
    OBVIOUS
  <2>1. CASE UNCHANGED bVars
    <3>1. /\ HandlersHold' /\ HandlersApart' /\ FirstDraftOnly' /\ EventsPaid' /\ BTypes'
      BY <2>1 DEF bVars, BridgeInv, HandlersHold, HandlerHolds, HandlersApart, FirstDraftOnly,
                  EventsPaid, EventsOf, BTypes, BTypeOK
    <3>2. OneRequestOwnsTheProject' /\ SucceededOwns'
      BY <2>1 DEF bVars, BridgeInv, OneRequestOwnsTheProject, SucceededOwns
    <3> QED
      BY <3>1, <3>2 DEF BridgeInv
  <2>2. CASE BNext
    <3>1. CASE BridgeCrash
      BY <3>1, BridgeCrashKeeps
    <3>2. ASSUME NEW h \in Handlers, BridgeStep(h) PROVE BridgeInv'
      BY <3>2, ReserveKeeps, EnsureProjectKeeps, ListVersionsKeeps, CreateVersionKeeps,
         CompleteRequestKeeps, AnswerRequestKeeps, FailRequestKeeps DEF BridgeStep
    <3> QED
      BY <2>2, <3>1, <3>2, CallBridgeKeeps, BridgeRaisesKeeps DEF BNext
  <2> QED
    BY <2>1, <2>2
<1> QED
  BY <1>1, <1>2, PTL DEF BSpec

\* However often and by however many handlers a bridge request is sent, the
\* project is one request's, without overlap it has one draft, and only a
\* failure reopens its event (create_draft_project).
THEOREM BridgeDrafts == BSpec => []OneDraftPerRequest
<1>1. BridgeInv => OneDraftPerRequest
  BY DEF BridgeInv, OneDraftPerRequest, OneDraftWithoutOverlap, FirstDraftOnly,
         EventsAreReopened, EventsPaid
<1> QED
  BY <1>1, BridgeInvariant, PTL

-----------------------------------------------------------------------------
(* Platform rows: the inductive invariant.                                 *)

PfProjectRow == [versions : Seq({"initial", "user"}), current : Nat, row : Nat]
PfIdeaRow == [project : PfIdeas \cup {"none"}, status : {"draft", "selected"}, version : Nat]
PfHistoryRow == [calls : Nat, overlap : SUBSET (PfNames \cup PfOperations),
                 explicit : SUBSET PfSlugs]
PfGrant == [slug : PfNames, version : Nat]

PfMeters == {"usage", "new usage"}
PfServing == {"workspace", "new workspace", "project", "new project", "version",
              "new version", "granted", "link"}
PfCallerRow == [pc : {"idle"}, slug : {"none"}, version : Nat]
               \cup [pc : PfServing, slug : PfNames, version : Nat]
               \cup [pc : PfMeters, slug : PfOperations, version : Nat]

PfTypes ==
    /\ pfProject \in [PfNames -> PfProjectRow]
    /\ pfIdea \in [PfIdeas -> PfIdeaRow]
    /\ pfUsage \in [PfOperations -> {0, 1}] /\ pfCost = pfUsage
    /\ pfCaller \in [PfCallers -> PfCallerRow]
    /\ pfHistory \in PfHistoryRow

\* The current version of a project is its last one.
CurrentIsLast == \A s \in PfNames : pfProject[s].current = Len(pfProject[s].versions)

\* A context about to be granted, or an idea about to be linked, has its version.
RowHolds(r, project) ==
    /\ r.pc = "granted" => r.version \in DOMAIN project[r.slug].versions
    /\ r.pc = "link" => r.slug \in PfIdeas /\ 1 \in DOMAIN project[r.slug].versions
CallersHold == \A c \in PfCallers : RowHolds(pfCaller[c], pfProject)

\* Without overlap one caller is at work on a slug, and it makes the initial
\* version of a project that has none.
CallersApart ==
    \A s \in PfNames : s \notin pfHistory.overlap =>
        \A c, d \in PfCallers :
            c # d /\ pfCaller[c].slug = s /\ pfCaller[d].slug = s =>
                pfCaller[c].pc = "idle" \/ pfCaller[d].pc = "idle"
InitialOnce ==
    \A s \in PfNames :
        /\ IsFiniteSet(InitialVersions(s))
        /\ s \notin pfHistory.overlap =>
              /\ Cardinality(InitialVersions(s)) <= 1
              /\ \A c \in PfCallers :
                    pfCaller[c].slug = s /\ pfCaller[c].pc = "new version" =>
                        InitialVersions(s) = {}

\* An idea is a draft until it is linked, to a project with a version.
IdeasHold ==
    \A i \in PfIdeas :
        /\ pfIdea[i].status = "draft" => pfIdea[i].version = 1
        /\ pfIdea[i].status = "selected" =>
              /\ pfIdea[i].project = i /\ pfIdea[i].version = 2
              /\ 1 \in DOMAIN pfProject[i].versions

GrantsHold ==
    pfGranted \subseteq PfGrant
    /\ \A g \in pfGranted : g.version \in DOMAIN pfProject[g.slug].versions

PlatformInv ==
    /\ PfTypes
    /\ CurrentIsLast
    /\ CallersHold
    /\ CallersApart
    /\ InitialOnce
    /\ IdeasHold
    /\ GrantsHold

\* What any step keeps that moves one caller to a row that holds.
LEMMA CallerMoves ==
    ASSUME PlatformInv, NEW c \in PfCallers, NEW row \in PfCallerRow,
           pfCaller' = [pfCaller EXCEPT ![c] = row], RowHolds(row, pfProject'),
           \A s \in PfNames : DOMAIN pfProject[s].versions \subseteq DOMAIN pfProject'[s].versions,
           pfHistory.overlap \subseteq pfHistory'.overlap,
           \/ row.pc = "idle"
           \/ row.slug = pfCaller[c].slug /\ pfCaller[c].pc # "idle"
           \/ row.slug \in pfHistory'.overlap
           \/ \A d \in PfCallers : pfCaller[d].slug # row.slug
    PROVE  pfCaller' \in [PfCallers -> PfCallerRow] /\ CallersHold' /\ CallersApart'
<1>1. /\ pfCaller' \in [PfCallers -> PfCallerRow] /\ pfCaller'[c] = row
      /\ \A d \in PfCallers : d # c => pfCaller'[d] = pfCaller[d]
  BY DEF PlatformInv, PfTypes
<1>2. ASSUME NEW d \in PfCallers, d # c PROVE RowHolds(pfCaller'[d], pfProject')
  <2> DEFINE r == pfCaller[d]
  <2>1. r \in PfCallerRow
    BY DEF PlatformInv, PfTypes
  <2>2. r.pc \in {"granted", "link"} => r.slug \in PfNames
    BY <2>1 DEF PfCallerRow, PfMeters, PfServing
  <2>3. RowHolds(r, pfProject)
    BY DEF PlatformInv, CallersHold
  <2>4. pfCaller'[d] = r
    BY <1>1, <1>2
  <2> HIDE DEF r
  <2> QED
    BY <2>2, <2>3, <2>4 DEF RowHolds
<1>3. CallersHold'
  <2>1. RowHolds(pfCaller'[c], pfProject')
    BY <1>1 DEF RowHolds
  <2> QED
    BY <1>2, <2>1 DEF CallersHold
<1>4. CallersApart'
  <2> SUFFICES ASSUME NEW s \in PfNames, s \notin pfHistory'.overlap,
                      NEW d \in PfCallers, NEW e \in PfCallers, d # e,
                      pfCaller'[d].slug = s, pfCaller'[e].slug = s,
                      pfCaller'[d].pc # "idle", pfCaller'[e].pc # "idle"
               PROVE  FALSE
    BY DEF CallersApart
  <2>1. \A i, j \in PfCallers :
           i # j /\ pfCaller[i].slug = s /\ pfCaller[j].slug = s =>
               pfCaller[i].pc = "idle" \/ pfCaller[j].pc = "idle"
    BY DEF PlatformInv, CallersApart
  <2>2. ASSUME NEW i \in PfCallers, i # c, row.slug = s, row.pc # "idle",
               pfCaller[i].slug = s, pfCaller[i].pc # "idle"
        PROVE  FALSE
    BY <2>1, <2>2
  <2>3. CASE d = c
    BY <1>1, <2>2, <2>3
  <2>4. CASE e = c
    BY <1>1, <2>2, <2>4
  <2>5. CASE d # c /\ e # c
    BY <1>1, <2>1, <2>5
  <2> QED
    BY <2>3, <2>4, <2>5
<1> QED
  BY <1>1, <1>3, <1>4

\* The steps that change no version of a project.
LEMMA CallerKeeps ==
    ASSUME PlatformInv, NEW c \in PfCallers, NEW row \in PfCallerRow,
           pfCaller' = [pfCaller EXCEPT ![c] = row], RowHolds(row, pfProject),
           pfProject' \in [PfNames -> PfProjectRow],
           \A s \in PfNames : /\ pfProject'[s].versions = pfProject[s].versions
                              /\ pfProject'[s].current = pfProject[s].current,
           pfUsage' \in [PfOperations -> {0, 1}], pfCost' = pfUsage',
           pfHistory' \in PfHistoryRow, pfHistory.overlap \subseteq pfHistory'.overlap,
           \/ row.pc = "idle"
           \/ row.slug = pfCaller[c].slug /\ pfCaller[c].pc # "idle"
           \/ row.slug \in pfHistory'.overlap
           \/ \A d \in PfCallers : pfCaller[d].slug # row.slug,
           row.pc = "new version" => InitialVersions(row.slug) = {},
           UNCHANGED pfIdea \/ (pfIdea' \in [PfIdeas -> PfIdeaRow] /\ IdeasHold'),
           pfGranted' \subseteq PfGrant,
           \A g \in pfGranted' : g.version \in DOMAIN pfProject[g.slug].versions
    PROVE  PlatformInv'
<1>1. \A s \in PfNames : /\ DOMAIN pfProject[s].versions = DOMAIN pfProject'[s].versions
                         /\ InitialVersions(s)' = InitialVersions(s)
  BY DEF InitialVersions
<1>2. RowHolds(row, pfProject')
  <2>1. row.pc \in {"granted", "link"} => row.slug \in PfNames
    BY DEF PfCallerRow, PfMeters, PfServing
  <2> QED
    BY <1>1, <2>1 DEF RowHolds
<1>3. pfCaller' \in [PfCallers -> PfCallerRow] /\ CallersHold' /\ CallersApart'
  BY <1>1, <1>2, CallerMoves
<1>4. pfIdea' \in [PfIdeas -> PfIdeaRow] /\ IdeasHold'
  <2>1. CASE UNCHANGED pfIdea
    BY <1>1, <2>1 DEF PlatformInv, PfTypes, IdeasHold, PfNames
  <2> QED
    BY <2>1
<1>5. PfTypes'
  BY <1>3, <1>4 DEF PfTypes
<1>6. CurrentIsLast'
  BY DEF PlatformInv, CurrentIsLast
<1>7. InitialOnce'
  <2>1. \A d \in PfCallers : pfCaller'[d] = IF d = c THEN row ELSE pfCaller[d]
    BY DEF PlatformInv, PfTypes
  <2> SUFFICES ASSUME NEW s \in PfNames
               PROVE  /\ IsFiniteSet(InitialVersions(s))
                      /\ s \notin pfHistory'.overlap =>
                            /\ Cardinality(InitialVersions(s)) <= 1
                            /\ \A d \in PfCallers :
                                  pfCaller'[d].slug = s /\ pfCaller'[d].pc = "new version" =>
                                      InitialVersions(s) = {}
    BY <1>1 DEF InitialOnce
  <2>2. /\ IsFiniteSet(InitialVersions(s))
        /\ s \notin pfHistory.overlap =>
              /\ Cardinality(InitialVersions(s)) <= 1
              /\ \A d \in PfCallers :
                    pfCaller[d].slug = s /\ pfCaller[d].pc = "new version" =>
                        InitialVersions(s) = {}
    BY DEF PlatformInv, InitialOnce
  <2>3. ASSUME NEW d \in PfCallers, s \notin pfHistory'.overlap,
               pfCaller'[d].slug = s, pfCaller'[d].pc = "new version"
        PROVE  InitialVersions(s) = {}
    <3>1. CASE d = c
      BY <2>1, <2>3, <3>1
    <3>2. CASE d # c
      BY <2>1, <2>2, <2>3, <3>2
    <3> QED
      BY <3>1, <3>2
  <2> QED
    BY <2>2, <2>3
<1>8. GrantsHold'
  BY <1>1 DEF GrantsHold, PfGrant
<1> QED
  BY <1>3, <1>4, <1>5, <1>6, <1>7, <1>8 DEF PlatformInv

\* What the steps that leave everything but the caller alone find.
LEMMA PlatformFacts ==
    ASSUME PlatformInv
    PROVE  /\ pfProject \in [PfNames -> PfProjectRow]
           /\ pfCaller \in [PfCallers -> PfCallerRow]
           /\ pfUsage \in [PfOperations -> {0, 1}] /\ pfCost = pfUsage
           /\ pfHistory \in PfHistoryRow
           /\ pfGranted \subseteq PfGrant
           /\ \A g \in pfGranted : g.version \in DOMAIN pfProject[g.slug].versions
           /\ PfIdle \in PfCallerRow /\ PfIdle.pc = "idle" /\ RowHolds(PfIdle, pfProject)
           /\ \A c \in PfCallers :
                 /\ pfCaller[c].version \in Nat
                 /\ pfCaller[c].pc \in PfServing => pfCaller[c].slug \in PfNames
                 /\ pfCaller[c].pc \in PfMeters => pfCaller[c].slug \in PfOperations
<1>1. PfIdle \in PfCallerRow /\ PfIdle.pc = "idle" /\ RowHolds(PfIdle, pfProject)
  BY DEF PfIdle, PfCallerRow, RowHolds
<1>2. \A c \in PfCallers : pfCaller[c] \in PfCallerRow
  BY DEF PlatformInv, PfTypes
<1>3. \A r \in PfCallerRow : /\ r.version \in Nat
                             /\ r.pc \in PfServing => r.slug \in PfNames
                             /\ r.pc \in PfMeters => r.slug \in PfOperations
  BY DEF PfCallerRow, PfMeters, PfServing
<1> QED
  BY <1>1, <1>2, <1>3 DEF PlatformInv, PfTypes, GrantsHold

LEMMA ToRow ==
    ASSUME PlatformInv, NEW c \in PfCallers, NEW pc, To(c, pc),
           pc \notin {"granted", "link", "new version"},
           \/ pc \in PfServing /\ pfCaller[c].pc \in PfServing
           \/ pc \in PfMeters /\ pfCaller[c].pc \in PfMeters
    PROVE  \E row \in PfCallerRow :
              /\ pfCaller' = [pfCaller EXCEPT ![c] = row]
              /\ RowHolds(row, pfProject) /\ row.pc = pc
              /\ row.slug = pfCaller[c].slug /\ pfCaller[c].pc # "idle"
<1> DEFINE row == [pfCaller[c] EXCEPT !.pc = pc]
<1>1. pfCaller[c] \in PfCallerRow
  BY DEF PlatformInv, PfTypes
<1>2. row.pc = pc /\ row.slug = pfCaller[c].slug /\ row \in PfCallerRow
  BY <1>1 DEF PfCallerRow, PfServing, PfMeters
<1>3. pfCaller' = [pfCaller EXCEPT ![c] = row]
  BY DEF To
<1>4. pfCaller[c].pc # "idle"
  BY DEF PfServing, PfMeters
<1> HIDE DEF row
<1>5. RowHolds(row, pfProject)
  BY <1>2 DEF RowHolds
<1> QED
  BY <1>2, <1>3, <1>4, <1>5

LEMMA CallKeeps ==
    ASSUME PlatformInv, NEW c \in PfCallers, NEW name, NEW pc, Call(c, name, pc),
           \/ name \in PfNames /\ pc \in {"workspace", "project"}
           \/ name \in PfOperations /\ pc = "usage"
    PROVE  PlatformInv'
<1> DEFINE row == [pc |-> pc, slug |-> name, version |-> 0]
           overlap == IF Busy(name) = {} THEN pfHistory.overlap ELSE pfHistory.overlap \cup {name}
<1>1. /\ row \in PfCallerRow /\ row.pc = pc /\ row.slug = name
      /\ pfCaller' = [pfCaller EXCEPT ![c] = row]
      /\ UNCHANGED <<pfProject, pfIdea, pfUsage, pfCost, pfGranted>>
  BY DEF Call, pfTables, PfCallerRow, PfServing, PfMeters
<1>2. pfHistory' = [pfHistory EXCEPT !.calls = pfHistory.calls + 1, !.overlap = overlap]
  BY DEF Call
<1>3. overlap \in SUBSET (PfNames \cup PfOperations) /\ pfHistory.overlap \subseteq overlap
  BY PlatformFacts DEF PfHistoryRow
<1>4. name \in overlap \/ \A d \in PfCallers : pfCaller[d].slug # name
  BY DEF Busy
<1> HIDE DEF overlap
<1>5. pfHistory' \in PfHistoryRow /\ pfHistory'.overlap = overlap
  <2>1. pfHistory \in [calls : Nat, overlap : SUBSET (PfNames \cup PfOperations),
                       explicit : SUBSET PfSlugs]
    BY PlatformFacts DEF PfHistoryRow
  <2>2. pfHistory' = [calls |-> pfHistory.calls + 1, overlap |-> overlap,
                      explicit |-> pfHistory.explicit]
    BY <1>2, <2>1
  <2>3. pfHistory.calls + 1 \in Nat /\ pfHistory.explicit \in SUBSET PfSlugs
    BY <2>1
  <2> QED
    BY <1>3, <2>2, <2>3 DEF PfHistoryRow
<1> HIDE DEF row
<1>6. RowHolds(row, pfProject) /\ row.pc # "new version"
  BY <1>1 DEF RowHolds
<1> QED
  BY <1>1, <1>3, <1>4, <1>5, <1>6, CallerKeeps, PlatformFacts

\* A step on to another place that grants, links and makes nothing.
LEMMA ToKeeps ==
    ASSUME PlatformInv, NEW c \in PfCallers, NEW pc, To(c, pc),
           pc \notin {"granted", "link", "new version"},
           \/ pc \in PfServing /\ pfCaller[c].pc \in PfServing
           \/ pc \in PfMeters /\ pfCaller[c].pc \in PfMeters,
           pfProject' \in [PfNames -> PfProjectRow],
           \A s \in PfNames : /\ pfProject'[s].versions = pfProject[s].versions
                              /\ pfProject'[s].current = pfProject[s].current,
           UNCHANGED <<pfIdea, pfUsage, pfCost, pfGranted, pfHistory>>
    PROVE  PlatformInv'
<1>1. PICK row \in PfCallerRow :
              /\ pfCaller' = [pfCaller EXCEPT ![c] = row]
              /\ RowHolds(row, pfProject) /\ row.pc = pc
              /\ row.slug = pfCaller[c].slug /\ pfCaller[c].pc # "idle"
  BY ToRow
<1> QED
  BY <1>1, CallerKeeps, PlatformFacts

\* A caller that is answered, stops or dies.
LEMMA IdleKeeps ==
    ASSUME PlatformInv, NEW c \in PfCallers, pfCaller' = [pfCaller EXCEPT ![c] = PfIdle],
           UNCHANGED <<pfProject, pfHistory>>,
           pfUsage' \in [PfOperations -> {0, 1}], pfCost' = pfUsage',
           UNCHANGED pfIdea \/ (pfIdea' \in [PfIdeas -> PfIdeaRow] /\ IdeasHold'),
           pfGranted' \subseteq PfGrant,
           \A g \in pfGranted' : g.version \in DOMAIN pfProject[g.slug].versions
    PROVE  PlatformInv'
BY CallerKeeps, PlatformFacts

LEMMA WorkspaceKeeps ==
    ASSUME PlatformInv, NEW c \in PfCallers, EnsureWorkspace(c) PROVE PlatformInv'
<1>1. UNCHANGED <<pfProject, pfIdea, pfUsage, pfCost, pfGranted, pfHistory>>
  BY DEF EnsureWorkspace
<1>2. \E pc \in {"new workspace", "project"} :
         To(c, pc) /\ pfCaller[c].pc \in {"workspace", "new workspace"}
  BY DEF EnsureWorkspace, At
<1> QED
  BY <1>1, <1>2, ToKeeps, PlatformFacts DEF PfServing

LEMMA ProjectRowKeeps ==
    ASSUME PlatformInv, NEW c \in PfCallers, EnsureProjectRow(c) PROVE PlatformInv'
<1>1. UNCHANGED <<pfIdea, pfUsage, pfCost, pfGranted, pfHistory>>
  BY DEF EnsureProjectRow
<1>2. \E pc \in {"new project", "version"} :
         To(c, pc) /\ pfCaller[c].pc \in {"project", "new project"}
  BY DEF EnsureProjectRow, At
<1>3. /\ pfProject' \in [PfNames -> PfProjectRow]
      /\ \A s \in PfNames : /\ pfProject'[s].versions = pfProject[s].versions
                            /\ pfProject'[s].current = pfProject[s].current
  <2>1. CASE UNCHANGED pfProject
    BY <2>1, PlatformFacts
  <2>2. CASE pfProject' = [pfProject EXCEPT ![SlugOf(c)] = Inserted(@)]
    <3> DEFINE old == pfProject[SlugOf(c)]
    <3>1. SlugOf(c) \in PfNames
      BY <1>2, PlatformFacts DEF SlugOf, PfServing
    <3>2. Inserted(old) \in PfProjectRow /\ Inserted(old).versions = old.versions
          /\ Inserted(old).current = old.current
      BY <3>1, PlatformFacts DEF Inserted, PfProjectRow
    <3> QED
      BY <2>2, <3>1, <3>2, PlatformFacts
  <2> QED
    BY <2>1, <2>2 DEF EnsureProjectRow
<1> QED
  BY <1>1, <1>2, <1>3, ToKeeps DEF PfServing

LEMMA FindVersionKeeps ==
    ASSUME PlatformInv, NEW c \in PfCallers, FindInitialVersion(c) PROVE PlatformInv'
<1> DEFINE s == pfCaller[c].slug
           found == FirstVersion(pfProject[s])
           pc == IF found = 0 THEN "new version" ELSE AfterVersion(c)
           row == [pfCaller[c] EXCEPT !.version = found, !.pc = pc]
<1>1. /\ pfCaller[c].pc = "version" /\ s \in PfNames /\ pfCaller[c] \in PfCallerRow
      /\ UNCHANGED <<pfProject, pfIdea, pfUsage, pfCost, pfGranted, pfHistory>>
  BY PlatformFacts DEF FindInitialVersion, At, PfServing, pfTables
<1>2. pfCaller' = [pfCaller EXCEPT ![c] = row]
  BY DEF FindInitialVersion, SlugOf
<1>3. pfProject[s].versions \in Seq({"initial", "user"})
  BY <1>1, PlatformFacts DEF PfProjectRow
<1>4. \/ found = 0 /\ pfProject[s].versions = <<>>
      \/ found = 1 /\ 1 \in DOMAIN pfProject[s].versions
  BY <1>3 DEF FirstVersion
<1>5. /\ row.slug = s /\ row.version = found /\ row.pc = pc /\ row \in PfCallerRow
  <2>1. pc \in PfServing /\ found \in Nat
    BY <1>4 DEF AfterVersion, PfServing
  <2> HIDE DEF pc, found
  <2> QED
    BY <1>1, <2>1 DEF PfCallerRow, PfServing, PfMeters
<1>6. pc = "granted" => found = 1
  BY <1>4
<1>7. pc = "link" => found = 1 /\ s \in PfIdeas
  BY <1>4 DEF AfterVersion, SlugOf
<1>8. pc = "new version" => InitialVersions(s) = {}
  BY <1>4 DEF InitialVersions, AfterVersion
<1>10. found = 1 => 1 \in DOMAIN pfProject[s].versions
  BY <1>4
<1> HIDE DEF row, found, pc
<1>9. RowHolds(row, pfProject) /\ (row.pc = "new version" => InitialVersions(row.slug) = {})
  <2>1. row.pc = "granted" => row.version \in DOMAIN pfProject[row.slug].versions
    BY <1>5, <1>6, <1>10
  <2>2. row.pc = "link" => row.slug \in PfIdeas /\ 1 \in DOMAIN pfProject[row.slug].versions
    BY <1>5, <1>7, <1>10
  <2>3. row.pc = "new version" => InitialVersions(row.slug) = {}
    BY <1>5, <1>8
  <2> QED
    BY <2>1, <2>2, <2>3 DEF RowHolds
<1> QED
  BY <1>1, <1>2, <1>5, <1>9, CallerKeeps, PlatformFacts

\* The versions of a project grow by one at the end, and the current one is it.
LEMMA VersionAdded ==
    ASSUME PlatformInv, NEW s \in PfNames, NEW by \in {"initial", "user"},
           pfProject' = [pfProject EXCEPT ![s] = WithVersion(pfProject[s], by)]
    PROVE  /\ pfProject' \in [PfNames -> PfProjectRow]
           /\ CurrentIsLast'
           /\ \A t \in PfNames : DOMAIN pfProject[t].versions \subseteq DOMAIN pfProject'[t].versions
           /\ pfProject'[s].current \in DOMAIN pfProject'[s].versions
           /\ 1 \in DOMAIN pfProject'[s].versions
           /\ \A t \in PfNames : t # s => InitialVersions(t)' = InitialVersions(t)
           /\ InitialVersions(s)' = InitialVersions(s)
                 \cup (IF by = "initial" THEN {Len(pfProject[s].versions) + 1} ELSE {})
<1> DEFINE old == pfProject[s]
           new == WithVersion(old, by)
           n == Len(old.versions) + 1
<1>1. old \in PfProjectRow /\ old.versions \in Seq({"initial", "user"}) /\ n \in Nat \ {0}
  BY PlatformFacts DEF PfProjectRow
<1>2. new.versions = Append(old.versions, by) /\ new.current = n /\ new.row = old.row + 1
      /\ new \in PfProjectRow
  BY <1>1 DEF WithVersion, PfProjectRow
<1>3. /\ DOMAIN new.versions = DOMAIN old.versions \cup {n} /\ n \notin DOMAIN old.versions
      /\ new.versions[n] = by /\ \A i \in DOMAIN old.versions : new.versions[i] = old.versions[i]
      /\ Len(new.versions) = n /\ 1 \in DOMAIN new.versions
  BY <1>1, <1>2
<1> HIDE DEF new
<1>4. /\ pfProject' \in [PfNames -> PfProjectRow] /\ pfProject'[s] = new
      /\ \A t \in PfNames : t # s => pfProject'[t] = pfProject[t]
  BY <1>2, PlatformFacts DEF new
<1>5. \A t \in PfNames : t # s => InitialVersions(t)' = InitialVersions(t)
  BY <1>4 DEF InitialVersions
<1>6. InitialVersions(s)' = InitialVersions(s) \cup (IF by = "initial" THEN {n} ELSE {})
  <2>1. InitialVersions(s) = {i \in DOMAIN old.versions : old.versions[i] = "initial"}
    BY DEF InitialVersions
  <2>2. InitialVersions(s)' = {i \in DOMAIN new.versions : new.versions[i] = "initial"}
    BY <1>4 DEF InitialVersions
  <2> HIDE DEF old, n
  <2> QED
    BY <1>3, <2>1, <2>2
<1>7. CurrentIsLast'
  BY <1>2, <1>3, <1>4 DEF PlatformInv, CurrentIsLast
<1> QED
  BY <1>2, <1>3, <1>4, <1>5, <1>6, <1>7

LEMMA CreateInitialKeeps ==
    ASSUME PlatformInv, NEW c \in PfCallers, CreateInitialVersion(c) PROVE PlatformInv'
<1>0. PICK s \in PfNames : s = pfCaller[c].slug
  BY PlatformFacts DEF CreateInitialVersion, At, PfServing
<1> DEFINE project == WithVersion(pfProject[s], "initial")
           row == [pfCaller[c] EXCEPT !.version = project.current, !.pc = AfterVersion(c)]
<1>1. /\ pfCaller[c].pc = "new version" /\ s \in PfNames /\ pfCaller[c] \in PfCallerRow
      /\ UNCHANGED <<pfIdea, pfUsage, pfCost, pfGranted, pfHistory>>
      /\ pfProject' = [pfProject EXCEPT ![s] = project]
  BY <1>0, PlatformFacts DEF CreateInitialVersion, At, PfServing, SlugOf
<1>2. pfCaller' = [pfCaller EXCEPT ![c] = row]
  BY <1>0 DEF CreateInitialVersion, SlugOf
<1>3. /\ pfProject' \in [PfNames -> PfProjectRow]
      /\ CurrentIsLast'
      /\ \A t \in PfNames : DOMAIN pfProject[t].versions \subseteq DOMAIN pfProject'[t].versions
      /\ pfProject'[s].current \in DOMAIN pfProject'[s].versions
      /\ 1 \in DOMAIN pfProject'[s].versions
      /\ \A t \in PfNames : t # s => InitialVersions(t)' = InitialVersions(t)
      /\ InitialVersions(s)' = InitialVersions(s) \cup {Len(pfProject[s].versions) + 1}
  BY <1>1, VersionAdded
<1>4. pfProject'[s] = project /\ project.current \in Nat
  BY <1>1, <1>3, PlatformFacts DEF PfProjectRow
<1> HIDE DEF project
<1>5. /\ row.slug = s /\ row.version = project.current /\ row.pc = AfterVersion(c)
      /\ row \in PfCallerRow
  BY <1>0, <1>1, <1>4 DEF PfCallerRow, PfServing, PfMeters, AfterVersion
<1>6. /\ AfterVersion(c) = "link" => s \in PfIdeas
      /\ AfterVersion(c) \in {"link", "granted"}
  BY <1>0 DEF AfterVersion, SlugOf
<1> HIDE DEF row
<1>7. RowHolds(row, pfProject')
  BY <1>3, <1>4, <1>5, <1>6 DEF RowHolds
<1>8. pfCaller' \in [PfCallers -> PfCallerRow] /\ CallersHold' /\ CallersApart'
  BY <1>0, <1>1, <1>2, <1>3, <1>5, <1>7, CallerMoves
<1>9. PfTypes'
  BY <1>1, <1>3, <1>8 DEF PlatformInv, PfTypes
<1>10. InitialOnce'
  <2>1. ASSUME NEW t \in PfNames, t # s
        PROVE  /\ IsFiniteSet(InitialVersions(t)')
               /\ t \notin pfHistory.overlap =>
                     /\ Cardinality(InitialVersions(t)') <= 1
                     /\ \A d \in PfCallers :
                           pfCaller'[d].slug = t /\ pfCaller'[d].pc = "new version" =>
                               InitialVersions(t)' = {}
    <3>1. \A d \in PfCallers : pfCaller'[d] = IF d = c THEN row ELSE pfCaller[d]
      BY <1>2, PlatformFacts
    <3> QED
      BY <1>3, <1>5, <2>1, <3>1 DEF PlatformInv, InitialOnce
  <2>2. IsFiniteSet(InitialVersions(s)) /\ IsFiniteSet(InitialVersions(s)')
    <3>1. IsFiniteSet(InitialVersions(s))
      BY <1>1 DEF PlatformInv, InitialOnce
    <3> QED
      BY <1>3, <3>1, FS_AddElement
  <2>3. ASSUME s \notin pfHistory.overlap
        PROVE  /\ Cardinality(InitialVersions(s)') <= 1
               /\ \A d \in PfCallers :
                     pfCaller'[d].slug = s => pfCaller'[d].pc # "new version"
    <3>1. InitialVersions(s) = {}
      BY <1>0, <1>1, <2>3 DEF PlatformInv, InitialOnce
    <3>2. Cardinality(InitialVersions(s)') = 1
      <4> DEFINE m == Len(pfProject[s].versions) + 1
      <4>1. InitialVersions(s)' = {m}
        BY <1>3, <3>1
      <4> HIDE DEF m
      <4> QED
        BY <4>1, FS_Singleton
    <3>3. ASSUME NEW d \in PfCallers, pfCaller'[d].slug = s PROVE pfCaller'[d].pc # "new version"
      <4>1. CASE d = c
        BY <1>2, <1>5, <1>6, <4>1, PlatformFacts
      <4>2. CASE d # c
        <5>1. pfCaller'[d] = pfCaller[d]
          BY <1>2, <4>2, PlatformFacts
        <5>2. pfCaller[d].pc = "idle"
          BY <1>0, <1>1, <2>3, <3>3, <4>2, <5>1 DEF PlatformInv, CallersApart
        <5> QED
          BY <5>1, <5>2
      <4> QED
        BY <4>1, <4>2
    <3>4. Cardinality(InitialVersions(s)') <= 1
      BY <3>2
    <3> QED
      BY <3>3, <3>4
  <2>4. ASSUME NEW t \in PfNames
        PROVE  /\ IsFiniteSet(InitialVersions(t)')
               /\ t \notin pfHistory'.overlap =>
                     /\ Cardinality(InitialVersions(t)') <= 1
                     /\ \A d \in PfCallers :
                           pfCaller'[d].slug = t /\ pfCaller'[d].pc = "new version" =>
                               InitialVersions(t)' = {}
    <3>1. CASE t = s
      BY <1>1, <2>2, <2>3, <3>1
    <3>2. CASE t # s
      BY <1>1, <2>1, <3>2
    <3> QED
      BY <3>1, <3>2
  <2> QED
    BY <2>4 DEF InitialOnce
<1>11. IdeasHold'
  BY <1>1, <1>3 DEF PlatformInv, IdeasHold, PfNames
<1>12. GrantsHold'
  BY <1>1, <1>3 DEF PlatformInv, GrantsHold, PfGrant
<1> QED
  BY <1>3, <1>8, <1>9, <1>10, <1>11, <1>12 DEF PlatformInv

LEMMA UserVersionKeeps ==
    ASSUME PlatformInv, NEW s \in PfSlugs, CreateVersionRow(s) PROVE PlatformInv'
<1>1. /\ s \in PfNames
      /\ pfProject' = [pfProject EXCEPT ![s] = WithVersion(pfProject[s], "user")]
      /\ UNCHANGED <<pfIdea, pfUsage, pfCost, pfCaller, pfGranted>>
      /\ pfHistory' = [pfHistory EXCEPT !.explicit = pfHistory.explicit \cup {s}]
  BY DEF CreateVersionRow, PfNames
<1>2. pfHistory' \in PfHistoryRow /\ pfHistory'.overlap = pfHistory.overlap
  BY <1>1, PlatformFacts DEF PfHistoryRow
<1>3. /\ pfProject' \in [PfNames -> PfProjectRow]
      /\ CurrentIsLast'
      /\ \A t \in PfNames : DOMAIN pfProject[t].versions \subseteq DOMAIN pfProject'[t].versions
      /\ \A t \in PfNames : InitialVersions(t)' = InitialVersions(t)
  BY <1>1, VersionAdded
<1>4. PfTypes'
  BY <1>1, <1>2, <1>3 DEF PlatformInv, PfTypes
<1>5. CallersHold'
  <2>1. ASSUME NEW c \in PfCallers PROVE RowHolds(pfCaller'[c], pfProject')
    <3> DEFINE r == pfCaller[c]
    <3>1. pfCaller'[c] = r /\ RowHolds(r, pfProject)
      BY <1>1 DEF PlatformInv, CallersHold
    <3>2. r.pc \in {"granted", "link"} => r.slug \in PfNames
      BY PlatformFacts DEF PfServing
    <3> HIDE DEF r
    <3> QED
      BY <1>3, <3>1, <3>2 DEF RowHolds
  <2> QED
    BY <2>1 DEF CallersHold
<1>6. CallersApart'
  BY <1>1, <1>2 DEF PlatformInv, CallersApart
<1>7. InitialOnce'
  <2> SUFFICES ASSUME NEW t \in PfNames
               PROVE  /\ IsFiniteSet(InitialVersions(t))
                      /\ t \notin pfHistory.overlap =>
                            /\ Cardinality(InitialVersions(t)) <= 1
                            /\ \A d \in PfCallers :
                                  pfCaller[d].slug = t /\ pfCaller[d].pc = "new version" =>
                                      InitialVersions(t) = {}
    BY <1>1, <1>2, <1>3 DEF InitialOnce
  <2> QED
    BY DEF PlatformInv, InitialOnce
<1>8. IdeasHold'
  BY <1>1, <1>3 DEF PlatformInv, IdeasHold, PfNames
<1>9. GrantsHold'
  BY <1>1, <1>3 DEF PlatformInv, GrantsHold, PfGrant
<1> QED
  BY <1>3, <1>4, <1>5, <1>6, <1>7, <1>8, <1>9 DEF PlatformInv

LEMMA GrantKeeps ==
    ASSUME PlatformInv, NEW c \in PfCallers, GrantContext(c) PROVE PlatformInv'
<1> DEFINE g == [slug |-> pfCaller[c].slug, version |-> pfCaller[c].version]
<1>1. /\ pfCaller' = [pfCaller EXCEPT ![c] = PfIdle] /\ pfGranted' = pfGranted \cup {g}
      /\ UNCHANGED <<pfProject, pfHistory, pfUsage, pfCost, pfIdea>>
      /\ pfCaller[c].pc = "granted"
  BY DEF GrantContext, pfTables, At, SlugOf
<1>2. g \in PfGrant
  BY <1>1, PlatformFacts DEF PfGrant, PfServing
<1>3. g.version \in DOMAIN pfProject[g.slug].versions
  BY <1>1 DEF PlatformInv, CallersHold, RowHolds
<1> QED
  BY <1>1, <1>2, <1>3, IdleKeeps, PlatformFacts

LEMMA LinkKeeps ==
    ASSUME PlatformInv, NEW c \in PfCallers, LinkIdeaProject(c) PROVE PlatformInv'
<1> DEFINE i == pfCaller[c].slug
           row == [project |-> i, status |-> "selected", version |-> pfIdea[i].version + 1]
<1>1. /\ pfCaller' = [pfCaller EXCEPT ![c] = PfIdle]
      /\ UNCHANGED <<pfProject, pfHistory, pfUsage, pfCost, pfGranted>>
      /\ i \in PfIdeas /\ 1 \in DOMAIN pfProject[i].versions
      /\ pfIdea \in [PfIdeas -> PfIdeaRow]
  BY DEF LinkIdeaProject, At, SlugOf, PlatformInv, CallersHold, RowHolds, PfTypes
<1>2. CASE Linked(i)
  <2>1. UNCHANGED pfIdea
    BY <1>2 DEF LinkIdeaProject, SlugOf
  <2> QED
    BY <1>1, <2>1, IdleKeeps, PlatformFacts
<1>3. CASE ~Linked(i)
  <2>1. pfIdea' = [pfIdea EXCEPT ![i] = row]
    BY <1>3 DEF LinkIdeaProject, SlugOf
  <2>2. pfIdea[i].status = "draft" /\ pfIdea[i].version = 1
    BY <1>1, <1>3 DEF Linked, PlatformInv, IdeasHold, PfIdeaRow
  <2>3. row \in PfIdeaRow /\ row.project = i /\ row.status = "selected" /\ row.version = 2
    BY <1>1, <2>2 DEF PfIdeaRow
  <2> HIDE DEF row
  <2>4. /\ pfIdea' \in [PfIdeas -> PfIdeaRow] /\ pfIdea'[i] = row
        /\ \A j \in PfIdeas : j # i => pfIdea'[j] = pfIdea[j]
    BY <1>1, <2>1, <2>3
  <2>5. IdeasHold'
    BY <1>1, <2>3, <2>4 DEF PlatformInv, IdeasHold
  <2> QED
    BY <1>1, <2>4, <2>5, IdleKeeps, PlatformFacts
<1> QED
  BY <1>2, <1>3

LEMMA UsageKeeps ==
    ASSUME PlatformInv, NEW c \in PfCallers, FindUsage(c) \/ InsertUsage(c) PROVE PlatformInv'
<1>1. CASE FindUsage(c)
  <2>1. UNCHANGED <<pfProject, pfHistory, pfUsage, pfCost, pfGranted, pfIdea>>
        /\ pfCaller[c].pc = "usage"
    BY <1>1 DEF FindUsage, pfTables, At
  <2>2. CASE pfCaller' = [pfCaller EXCEPT ![c] = PfIdle]
    BY <2>1, <2>2, IdleKeeps, PlatformFacts
  <2>3. CASE To(c, "new usage")
    BY <2>1, <2>3, ToKeeps, PlatformFacts DEF PfMeters
  <2> QED
    BY <1>1, <2>2, <2>3 DEF FindUsage
<1>2. CASE InsertUsage(c)
  <2> DEFINE k == pfCaller[c].slug
  <2>1. /\ UNCHANGED <<pfProject, pfHistory, pfGranted, pfIdea>> /\ k \in PfOperations
        /\ pfCaller' = [pfCaller EXCEPT ![c] = PfIdle]
    BY <1>2, PlatformFacts DEF InsertUsage, At, SlugOf, PfMeters
  <2>2. pfUsage' \in [PfOperations -> {0, 1}] /\ pfCost' = pfUsage'
    <3>1. CASE pfUsage[k] = 0
      <4>1. /\ pfUsage' = [pfUsage EXCEPT ![k] = pfUsage[k] + 1]
            /\ pfCost' = [pfCost EXCEPT ![k] = pfCost[k] + 1]
        BY <1>2, <3>1 DEF InsertUsage, FreeKey, SlugOf
      <4>2. pfUsage \in [PfOperations -> {0, 1}] /\ pfCost = pfUsage /\ pfUsage[k] + 1 \in {0, 1}
        BY <3>1, PlatformFacts
      <4> HIDE DEF k
      <4> QED
        BY <2>1, <4>1, <4>2
    <3>2. CASE pfUsage[k] # 0
      BY <1>2, <3>2, PlatformFacts DEF InsertUsage, FreeKey, SlugOf
    <3> QED
      BY <3>1, <3>2
  <2> QED
    BY <2>1, <2>2, IdleKeeps, PlatformFacts
<1> QED
  BY <1>1, <1>2

LEMMA StopKeeps ==
    ASSUME PlatformInv, NEW c \in PfCallers, CallerStops(c) PROVE PlatformInv'
BY IdleKeeps, PlatformFacts DEF CallerStops, pfTables

THEOREM PlatformInvariant == PfSpec => []PlatformInv
<1>1. PfInit => PlatformInv
  <2> SUFFICES ASSUME PfInit PROVE PlatformInv
    OBVIOUS
  <2>1. \A c \in PfCallers : pfCaller[c] = PfIdle
    BY DEF PfInit
  <2>2. PfTypes
    <3>1. PfIdle \in PfCallerRow
      BY DEF PfIdle, PfCallerRow
    <3> QED
      BY <3>1 DEF PfInit, PfTypes, PfProjectRow, PfIdeaRow, PfHistoryRow
  <2>3. CurrentIsLast /\ CallersHold /\ CallersApart /\ IdeasHold /\ GrantsHold
    BY <2>1 DEF PfInit, CurrentIsLast, CallersHold, RowHolds, CallersApart, IdeasHold,
                GrantsHold, PfIdle
  <2>4. InitialOnce
    <3>1. \A s \in PfNames : InitialVersions(s) = {}
      BY DEF PfInit, InitialVersions
    <3>2. \A s \in PfNames : IsFiniteSet(InitialVersions(s)) /\ Cardinality(InitialVersions(s)) = 0
      BY <3>1, FS_EmptySet
    <3>3. ASSUME NEW s \in PfNames
          PROVE  /\ IsFiniteSet(InitialVersions(s)) /\ Cardinality(InitialVersions(s)) <= 1
                 /\ InitialVersions(s) = {}
      BY <3>1, <3>2
    <3> QED
      BY <3>3 DEF InitialOnce
  <2> QED
    BY <2>2, <2>3, <2>4 DEF PlatformInv
<1>2. PlatformInv /\ [PfNext]_pfVars => PlatformInv'
  <2> SUFFICES ASSUME PlatformInv, [PfNext]_pfVars PROVE PlatformInv'
    OBVIOUS
  <2>1. CASE UNCHANGED pfVars
    <3>1. PfTypes' /\ CurrentIsLast' /\ CallersHold' /\ IdeasHold' /\ GrantsHold'
      BY <2>1 DEF pfVars, PlatformInv, PfTypes, CurrentIsLast, CallersHold, RowHolds, IdeasHold,
                  GrantsHold
    <3>2. CallersApart' /\ InitialOnce'
      BY <2>1 DEF pfVars, PlatformInv, CallersApart, InitialOnce, InitialVersions
    <3> QED
      BY <3>1, <3>2 DEF PlatformInv
  <2>2. ASSUME NEW c \in PfCallers, NEW slug \in PfSlugs, ResolveJobContext(c, slug)
        PROVE  PlatformInv'
    BY <2>2, CallKeeps DEF ResolveJobContext, PfNames
  <2>3. ASSUME NEW c \in PfCallers, NEW idea \in PfIdeas, CreateDraftProject(c, idea)
        PROVE  PlatformInv'
    BY <2>3, CallKeeps DEF CreateDraftProject, PfNames
  <2>4. ASSUME NEW c \in PfCallers, NEW key \in PfOperations, MeterOperation(c, key)
        PROVE  PlatformInv'
    BY <2>4, CallKeeps DEF MeterOperation
  <2> QED
    BY <2>1, <2>2, <2>3, <2>4, WorkspaceKeeps, ProjectRowKeeps, FindVersionKeeps,
       CreateInitialKeeps, GrantKeeps, LinkKeeps, UsageKeeps, StopKeeps, UserVersionKeeps
       DEF PfNext
<1> QED
  BY <1>1, <1>2, PTL DEF PfSpec

\* Platform rows that callers may make at once are made once: contexts, initial
\* versions, the draft of a selected idea, the cost of an operation
\* (PlatformRepository).
THEOREM PlatformRows == PfSpec => []RowsAreSingle
<1>1. PlatformInv => RowsAreSingle
  <2> SUFFICES ASSUME PlatformInv PROVE RowsAreSingle
    OBVIOUS
  <2>1. ContextsAreKept /\ OneInitialVersion
    BY DEF PlatformInv, GrantsHold, ContextsAreKept, InitialOnce, OneInitialVersion
  <2>2. SelectedOnceWithDraft
    <3> SUFFICES ASSUME NEW i \in PfIdeas
                 PROVE  /\ pfIdea[i].version <= 2
                        /\ pfIdea[i].status = "selected" => pfProject[i].current > 0
      BY DEF SelectedOnceWithDraft
    <3>1. i \in PfNames /\ pfIdea[i] \in PfIdeaRow
      BY DEF PlatformInv, PfTypes, PfNames
    <3>2. pfProject[i].versions \in Seq({"initial", "user"})
      BY <3>1, PlatformFacts DEF PfProjectRow
    <3>3. pfIdea[i].status \in {"draft", "selected"}
      BY <3>1 DEF PfIdeaRow
    <3>4. pfIdea[i].status = "selected" => pfIdea[i].version = 2 /\ 1 \in DOMAIN pfProject[i].versions
      BY DEF PlatformInv, IdeasHold
    <3>5. pfIdea[i].status = "draft" => pfIdea[i].version = 1
      BY DEF PlatformInv, IdeasHold
    <3>6. pfProject[i].current = Len(pfProject[i].versions)
      BY <3>1 DEF PlatformInv, CurrentIsLast
    <3> QED
      BY <3>2, <3>3, <3>4, <3>5, <3>6
  <2>3. OneCostPerOperation
    BY PlatformFacts DEF OneCostPerOperation
  <2> QED
    BY <2>1, <2>2, <2>3 DEF RowsAreSingle
<1> QED
  BY <1>1, PlatformInvariant, PTL


-----------------------------------------------------------------------------
(* AutoEdit: the inductive invariant.                                      *)

URow == [status : {"initialized", "uploading", "quarantined", "rejected", "completed", "failed"},
         quarantine : {"not_scanned", "quarantined", "trusted", "rejected"},
         recorded : SUBSET UParts, asset : SUBSET {UExpected}]
UWriter == [pc : {"idle", "open", "written", "staged", "over"}, part : UParts \cup {0},
            content : UContents \cup {0}, node : UWriters \cup {0}]

\* Positions of a completion before it has compared the checksum, between that
\* and its end, and when its asset is registered.
UUnchecked == {"idle", "assembling", "filling", "filled", "over"}
UChecked == {"checked", "quarantined", "scanned", "probing", "probed", "storing", "put"}
UStored == {"stored", "cleaning"}

HasAsset(assets) == \E a \in assets : UExpected \in {a.key, a.content}

CompleterHolds(q, assets) ==
    /\ DOMAIN q = {"pc", "sum", "put", "verdict"}
    /\ q.pc \in UUnchecked \cup UChecked \cup UStored
    /\ q.pc \in UChecked \cup UStored => q.sum = UExpected
    /\ q.pc \in UStored => HasAsset(assets)

UInv ==
    /\ upload \in URow
    /\ uDisk \in [UWriters -> UContents \cup {0}]
    /\ uTmp \in [UParts -> UWriters \cup {0}]
    /\ uPart \in [UParts -> UWriters \cup {0}]
    /\ uWriter \in [UWriters -> UWriter]
    /\ \A w \in UWriters : uWriter[w].pc # "idle" =>
          /\ uWriter[w].part \in UParts
          /\ uWriter[w].content \in UContents
          /\ uWriter[w].node \in UWriters
    /\ DOMAIN uCompleter = UCompleters
    /\ \A c \in UCompleters : CompleterHolds(uCompleter[c], uAssets)
    /\ upload.quarantine = "rejected" => upload.status \in {"rejected", "failed"}
    /\ upload.status = "completed" => upload.asset = {UExpected} /\ HasAsset(uAssets)

LEMMA UploadStarts == ASSUME UInit PROVE UInv
<1>1. upload \in URow /\ upload.quarantine = "not_scanned" /\ upload.status = "initialized"
  BY DEF UInit, URow
<1>2. uWriter \in [UWriters -> UWriter] /\ \A w \in UWriters : uWriter[w].pc = "idle"
  BY DEF UInit, UWriter, WIdle
<1>3. /\ DOMAIN uCompleter = UCompleters
      /\ \A c \in UCompleters : CompleterHolds(uCompleter[c], uAssets)
  BY DEF UInit, CompleterHolds, CIdle, UUnchecked, UChecked, UStored
<1> QED  BY <1>1, <1>2, <1>3, UploadConstants DEF UInit, UInv

-----------------------------------------------------------------------------
\* A writer moves and changes no row, or records its part in it.
LEMMA WriterKeeps ==
    ASSUME UInv, NEW w \in UWriters, NEW q \in UWriter, q.pc # "idle",
           q.part \in UParts, q.content \in UContents, q.node \in UWriters,
           uWriter' = [uWriter EXCEPT ![w] = q],
           uDisk' \in [UWriters -> UContents \cup {0}],
           uTmp' \in [UParts -> UWriters \cup {0}], uPart' \in [UParts -> UWriters \cup {0}],
           upload' \in URow,
           upload'.quarantine = upload.quarantine, upload'.asset = upload.asset,
           upload'.status = upload.status \/ (Accepting /\ upload'.status = "uploading"),
           UNCHANGED <<uCompleter, uAssets>>
    PROVE  UInv'
<1>1. /\ uWriter' \in [UWriters -> UWriter]
      /\ \A v \in UWriters : uWriter'[v].pc # "idle" =>
            /\ uWriter'[v].part \in UParts
            /\ uWriter'[v].content \in UContents
            /\ uWriter'[v].node \in UWriters
  BY DEF UInv
<1>2. /\ upload'.quarantine = "rejected" => upload'.status \in {"rejected", "failed"}
      /\ upload'.status = "completed" => upload'.asset = {UExpected} /\ HasAsset(uAssets)
  BY DEF UInv, Accepting
<1> QED  BY <1>1, <1>2 DEF UInv

LEMMA WriterMoves ==
    ASSUME UInv, NEW w \in UWriters, uWriter[w].pc # "idle",
           NEW pc \in {"open", "written", "staged", "over"},
           uWriter' = [uWriter EXCEPT ![w].pc = pc]
    PROVE  LET q == [pc |-> pc, part |-> uWriter[w].part, content |-> uWriter[w].content,
                     node |-> uWriter[w].node]
           IN  /\ uWriter' = [uWriter EXCEPT ![w] = q]
               /\ q \in UWriter /\ q.pc # "idle"
               /\ q.part \in UParts /\ q.content \in UContents /\ q.node \in UWriters
<1>1. uWriter[w] \in UWriter /\ uWriter[w].part \in UParts /\ uWriter[w].content \in UContents
      /\ uWriter[w].node \in UWriters
  BY DEF UInv
<1>2. [uWriter[w] EXCEPT !.pc = pc]
         = [pc |-> pc, part |-> uWriter[w].part, content |-> uWriter[w].content,
            node |-> uWriter[w].node]
  BY <1>1 DEF UWriter
<1>3. uWriter' = [uWriter EXCEPT ![w] = [uWriter[w] EXCEPT !.pc = pc]]
  OBVIOUS
<1> QED  BY <1>1, <1>2, <1>3 DEF UWriter

LEMMA OpenPartKeeps ==
    ASSUME UInv, NEW w \in UWriters, NEW n \in UParts, NEW content \in UContents,
           OpenPart(w, n, content)
    PROVE  UInv'
<1> DEFINE node == IF uTmp[n] = 0 THEN w ELSE uTmp[n]
           q == [pc |-> "open", part |-> n, content |-> content, node |-> node]
<1>1. /\ uDisk' = [uDisk EXCEPT ![node] = 0] /\ uTmp' = [uTmp EXCEPT ![n] = node]
      /\ uWriter' = [uWriter EXCEPT ![w] = q] /\ UNCHANGED <<upload, uPart, uCompleter, uAssets>>
  BY DEF OpenPart
<1>2. node \in UWriters
  BY DEF UInv
<1> HIDE DEF node
<1>3. q \in UWriter /\ q.pc # "idle" /\ q.part = n /\ q.content = content /\ q.node = node
  BY <1>2 DEF UWriter
<1> HIDE DEF q
<1>4. /\ uDisk' \in [UWriters -> UContents \cup {0}] /\ uTmp' \in [UParts -> UWriters \cup {0}]
      /\ uPart' \in [UParts -> UWriters \cup {0}] /\ upload' \in URow
  BY <1>1, <1>2 DEF UInv
<1> QED  BY <1>1, <1>2, <1>3, <1>4, WriterKeeps

LEMMA WritePartKeeps == ASSUME UInv, NEW w \in UWriters, WritePart(w) PROVE UInv'
<1>1. uWriter[w].pc # "idle"
  BY DEF WritePart
<1>2. uWriter[w].node \in UWriters /\ uWriter[w].content \in UContents
  BY <1>1 DEF UInv
<1>3. /\ uDisk' \in [UWriters -> UContents \cup {0}] /\ uTmp' \in [UParts -> UWriters \cup {0}]
      /\ uPart' \in [UParts -> UWriters \cup {0}] /\ upload' \in URow
  BY <1>2 DEF WritePart, UInv
<1> QED  BY <1>1, <1>3, WriterMoves, WriterKeeps DEF WritePart

LEMMA AbandonPartKeeps == ASSUME UInv, NEW w \in UWriters, AbandonPart(w) PROVE UInv'
<1>1. uWriter[w].pc # "idle"
  BY DEF AbandonPart
<1>2. /\ uDisk' \in [UWriters -> UContents \cup {0}] /\ uTmp' \in [UParts -> UWriters \cup {0}]
      /\ uPart' \in [UParts -> UWriters \cup {0}] /\ upload' \in URow
  BY DEF AbandonPart, UInv
<1> QED  BY <1>1, <1>2, WriterMoves, WriterKeeps DEF AbandonPart

LEMMA ReplacePartKeeps == ASSUME UInv, NEW w \in UWriters, ReplacePart(w) PROVE UInv'
<1>1. uWriter[w].pc # "idle" /\ UNCHANGED <<upload, uDisk, uCompleter, uAssets>>
  BY DEF ReplacePart
<1>2. /\ uDisk' \in [UWriters -> UContents \cup {0}] /\ uTmp' \in [UParts -> UWriters \cup {0}]
      /\ uPart' \in [UParts -> UWriters \cup {0}] /\ upload' \in URow
  <2>1. uWriter[w].part \in UParts
    BY <1>1 DEF UInv
  <2> QED  BY <1>1, <2>1 DEF ReplacePart, UInv
<1>3. PICK pc \in {"staged", "over"} : uWriter' = [uWriter EXCEPT ![w].pc = pc]
  BY DEF ReplacePart
<1> QED  BY <1>1, <1>2, <1>3, WriterMoves, WriterKeeps

LEMMA RecordPartKeeps == ASSUME UInv, NEW w \in UWriters, RecordPart(w) PROVE UInv'
<1>1. /\ uWriter[w].pc # "idle" /\ uWriter' = [uWriter EXCEPT ![w].pc = "over"]
      /\ UNCHANGED <<uDisk, uTmp, uPart, uCompleter, uAssets>>
  BY DEF RecordPart, uFiles
<1>2. /\ uDisk' \in [UWriters -> UContents \cup {0}] /\ uTmp' \in [UParts -> UWriters \cup {0}]
      /\ uPart' \in [UParts -> UWriters \cup {0}]
  BY <1>1 DEF UInv
<1>3. CASE UNCHANGED upload
  <2>1. upload' \in URow
    BY <1>3 DEF UInv
  <2> QED  BY <1>1, <1>2, <1>3, <2>1, WriterMoves, WriterKeeps
<1>4. CASE /\ Accepting
           /\ upload' = [upload EXCEPT !.status = "uploading", !.recorded = @ \cup {uWriter[w].part}]
  <2> DEFINE part == uWriter[w].part
             row == [status |-> "uploading", quarantine |-> upload.quarantine,
                     recorded |-> upload.recorded \cup {part}, asset |-> upload.asset]
  <2>1. upload \in URow /\ part \in UParts
    BY <1>1 DEF UInv
  <2> HIDE DEF part
  <2>2. upload' = row
    BY <1>4, <2>1 DEF URow, part
  <2>3. row \in URow
    BY <2>1 DEF URow
  <2> QED  BY <1>1, <1>2, <1>4, <2>2, <2>3, WriterMoves, WriterKeeps
<1> QED  BY <1>3, <1>4 DEF RecordPart

-----------------------------------------------------------------------------
\* A completion moves: it may fail the upload or advance its quarantine, and
\* completes it only with its asset.
LEMMA CompleterKeeps ==
    ASSUME UInv, NEW c \in UCompleters, NEW q, CompleterHolds(q, uAssets'),
           uCompleter' = [uCompleter EXCEPT ![c] = q],
           uAssets \subseteq uAssets', UNCHANGED <<uDisk, uWriter>>,
           uTmp' \in [UParts -> UWriters \cup {0}], uPart' \in [UParts -> UWriters \cup {0}],
           upload' \in URow,
           upload'.quarantine = "rejected" => upload'.status \in {"rejected", "failed"},
           upload'.status = "completed" => upload'.asset = {UExpected} /\ HasAsset(uAssets')
    PROVE  UInv'
<1>1. HasAsset(uAssets) => HasAsset(uAssets')
  BY DEF HasAsset
<1>2. /\ DOMAIN uCompleter' = UCompleters
      /\ \A d \in UCompleters : CompleterHolds(uCompleter'[d], uAssets')
  BY <1>1 DEF UInv, CompleterHolds
<1> QED  BY <1>2 DEF UInv

\* The same, when only its position changes.
LEMMA CompleterGoes ==
    ASSUME UInv, NEW c \in UCompleters, NEW pc, Goes(c, pc),
           pc \in UUnchecked \cup UChecked \cup UStored,
           pc \in UChecked \cup UStored =>
              uCompleter[c].pc \in UChecked \cup UStored \/ uCompleter[c].sum = UExpected,
           pc \in UStored => HasAsset(uAssets'),
           uAssets \subseteq uAssets', UNCHANGED <<uDisk, uWriter>>,
           uTmp' \in [UParts -> UWriters \cup {0}], uPart' \in [UParts -> UWriters \cup {0}],
           upload' \in URow,
           upload'.quarantine = "rejected" => upload'.status \in {"rejected", "failed"},
           upload'.status = "completed" => upload'.asset = {UExpected} /\ HasAsset(uAssets')
    PROVE  UInv'
<1> DEFINE q == [uCompleter[c] EXCEPT !.pc = pc]
<1>1. uCompleter' = [uCompleter EXCEPT ![c] = q]
  BY DEF Goes
<1>2. CompleterHolds(uCompleter[c], uAssets)
  BY DEF UInv
<1>3. q.pc = pc /\ q.sum = uCompleter[c].sum /\ DOMAIN q = DOMAIN uCompleter[c]
  BY <1>2 DEF CompleterHolds
<1> HIDE DEF q
<1>4. CompleterHolds(q, uAssets')
  BY <1>2, <1>3 DEF CompleterHolds
<1> QED  BY <1>1, <1>4, CompleterKeeps

\* ... and it writes nothing but the row, which it leaves or fails.
LEMMA CompleterAnswers ==
    ASSUME UInv, NEW c \in UCompleters, NEW pc, Goes(c, pc), UNCHANGED <<uDisk, uTmp, uPart, uWriter, uAssets>>,
           UNCHANGED upload \/ MarkFailed,
           pc \in UUnchecked \cup UChecked \cup UStored,
           pc \in UChecked \cup UStored =>
              uCompleter[c].pc \in UChecked \cup UStored \/ uCompleter[c].sum = UExpected,
           pc \in UStored => HasAsset(uAssets)
    PROVE  UInv'
<1>1. upload \in URow
  BY DEF UInv
<1>2. CASE UNCHANGED upload
  <2>1. /\ uTmp' \in [UParts -> UWriters \cup {0}] /\ uPart' \in [UParts -> UWriters \cup {0}]
        /\ upload' \in URow
        /\ upload'.quarantine = "rejected" => upload'.status \in {"rejected", "failed"}
        /\ upload'.status = "completed" => upload'.asset = {UExpected} /\ HasAsset(uAssets')
    BY <1>2 DEF UInv
  <2> QED  BY <2>1, CompleterGoes
<1>3. CASE MarkFailed
  <2> DEFINE row == [status |-> "failed", quarantine |-> upload.quarantine,
                     recorded |-> upload.recorded, asset |-> upload.asset]
  <2>1. upload' = row /\ row \in URow /\ row.status = "failed"
    BY <1>1, <1>3 DEF MarkFailed, URow
  <2> HIDE DEF row
  <2>2. /\ uTmp' \in [UParts -> UWriters \cup {0}] /\ uPart' \in [UParts -> UWriters \cup {0}]
        /\ upload' \in URow
        /\ upload'.quarantine = "rejected" => upload'.status \in {"rejected", "failed"}
        /\ upload'.status = "completed" => upload'.asset = {UExpected} /\ HasAsset(uAssets')
    BY <2>1 DEF UInv
  <2> QED  BY <2>2, CompleterGoes
<1> QED  BY <1>2, <1>3

LEMMA UncheckedCompletions ==
    ASSUME UInv, NEW c \in UCompleters, BeginComplete(c) \/ OpenAssembled(c)
    PROVE  UInv'
<1>1. PICK pc \in {"assembling", "filling", "over"} : Goes(c, pc)
  BY DEF BeginComplete, OpenAssembled
<1>2. pc \in UUnchecked /\ pc \notin UChecked \cup UStored
  BY DEF UUnchecked, UChecked, UStored
<1> QED  BY <1>1, <1>2, CompleterAnswers DEF BeginComplete, OpenAssembled, uFiles

LEMMA FillAssembledKeeps == ASSUME UInv, NEW c \in UCompleters, FillAssembled(c) PROVE UInv'
<1>1. UNCHANGED <<upload, uDisk, uTmp, uPart, uWriter, uAssets>>
  BY DEF FillAssembled
<1>2. CASE Goes(c, "over")
  BY <1>1, <1>2, CompleterAnswers DEF UUnchecked, UChecked, UStored
<1>3. ASSUME NEW file, uCompleter' = [uCompleter EXCEPT ![c].pc = "filled", ![c].sum = file]
      PROVE  UInv'
  <2> DEFINE q == [[uCompleter[c] EXCEPT !.pc = "filled"] EXCEPT !.sum = file]
  <2>1. uCompleter' = [uCompleter EXCEPT ![c] = q]
    BY <1>3 DEF UInv
  <2>2. DOMAIN uCompleter[c] = {"pc", "sum", "put", "verdict"}
    BY DEF UInv, CompleterHolds
  <2>3. DOMAIN q = {"pc", "sum", "put", "verdict"} /\ q.pc = "filled"
    BY <2>2
  <2> HIDE DEF q
  <2>4. CompleterHolds(q, uAssets')
    BY <2>3 DEF CompleterHolds, UUnchecked, UChecked, UStored
  <2>5. /\ uTmp' \in [UParts -> UWriters \cup {0}] /\ uPart' \in [UParts -> UWriters \cup {0}]
        /\ upload' \in URow /\ uAssets' = uAssets
        /\ upload'.quarantine = "rejected" => upload'.status \in {"rejected", "failed"}
        /\ upload'.status = "completed" => upload'.asset = {UExpected} /\ HasAsset(uAssets')
    BY <1>1 DEF UInv
  <2> QED  BY <1>1, <2>1, <2>4, <2>5, CompleterKeeps
<1> QED  BY <1>2, <1>3 DEF FillAssembled

LEMMA CheckedCompletions ==
    ASSUME UInv, NEW c \in UCompleters,
           CheckAssembled(c) \/ ProbeMedia(c) \/ FindDuplicate(c) \/ StorageFails(c)
    PROVE  UInv'
<1>1. PICK pc \in {"checked", "over", "probed", "storing", "stored"} : Goes(c, pc)
  BY DEF CheckAssembled, ProbeMedia, FindDuplicate, StorageFails
<1>2. UNCHANGED <<uDisk, uTmp, uPart, uWriter, uAssets>> /\ (UNCHANGED upload \/ MarkFailed)
  BY DEF CheckAssembled, ProbeMedia, FindDuplicate, StorageFails, uFiles
<1>3. CompleterHolds(uCompleter[c], uAssets) /\ DOMAIN uCompleter = UCompleters
  BY DEF UInv
<1>4. uCompleter'[c].pc = pc
  BY <1>1, <1>3 DEF Goes, CompleterHolds
<1>5. pc \in UChecked \cup UStored =>
         uCompleter[c].pc \in UChecked \cup UStored \/ uCompleter[c].sum = UExpected
  BY <1>3, <1>4
  DEF CheckAssembled, ProbeMedia, FindDuplicate, StorageFails, AsAnnounced, Goes, CompleterHolds,
      UUnchecked, UChecked, UStored
<1>6. pc \in UStored => HasAsset(uAssets)
  <2>1. pc \in UStored =>
           /\ uCompleter[c].pc = "probed"
           /\ \E a \in uAssets : a.content = uCompleter[c].sum
    BY <1>3, <1>4
    DEF CheckAssembled, ProbeMedia, FindDuplicate, StorageFails, Goes, CompleterHolds, UStored
  <2> QED  BY <1>3, <2>1 DEF CompleterHolds, HasAsset, UChecked
<1>7. pc \in UUnchecked \cup UChecked \cup UStored
  BY DEF UUnchecked, UChecked, UStored
<1> QED  BY <1>1, <1>2, <1>5, <1>6, <1>7, CompleterAnswers

LEMMA QuarantineKeeps == ASSUME UInv, NEW c \in UCompleters, Quarantine(c) PROVE UInv'
<1>1. UNCHANGED <<uDisk, uTmp, uPart, uWriter, uAssets>> /\ uCompleter[c].pc \in UChecked
  BY DEF Quarantine, uFiles, UChecked
<1>2. CASE ~Quarantinable(upload.status)
  <2>1. Goes(c, "over") /\ UNCHANGED upload
    BY <1>2 DEF Quarantine
  <2> QED  BY <1>1, <2>1, CompleterAnswers DEF UUnchecked, UChecked, UStored
<1>3. CASE Quarantinable(upload.status)
  <2> DEFINE row == [status |-> "quarantined", quarantine |-> "quarantined",
                     recorded |-> upload.recorded, asset |-> upload.asset]
  <2>1. upload \in URow
    BY DEF UInv
  <2>2. Goes(c, "quarantined")
        /\ upload' = [upload EXCEPT !.status = "quarantined", !.quarantine = "quarantined"]
    BY <1>3 DEF Quarantine
  <2>3. upload' = row /\ row \in URow /\ row.status = "quarantined" /\ row.quarantine = "quarantined"
    BY <2>1, <2>2 DEF URow
  <2> HIDE DEF row
  <2>4. /\ uTmp' \in [UParts -> UWriters \cup {0}] /\ uPart' \in [UParts -> UWriters \cup {0}]
        /\ upload' \in URow /\ uAssets' = uAssets
        /\ upload'.quarantine # "rejected" /\ upload'.status # "completed"
    BY <1>1, <2>3 DEF UInv
  <2>5. "quarantined" \in UChecked /\ "quarantined" \notin UStored
    BY DEF UChecked, UStored
  <2> QED  BY <1>1, <2>2, <2>4, <2>5, CompleterGoes
<1> QED  BY <1>2, <1>3

LEMMA ScanKeeps == ASSUME UInv, NEW c \in UCompleters, Scan(c) PROVE UInv'
<1>1. UNCHANGED <<upload, uDisk, uTmp, uPart, uWriter, uAssets>> /\ uCompleter[c].pc \in UChecked
  BY DEF Scan, uFiles, UChecked
<1>2. PICK verdict : uCompleter' = [uCompleter EXCEPT ![c].pc = "scanned", ![c].verdict = verdict]
  BY DEF Scan
<1> DEFINE q == [[uCompleter[c] EXCEPT !.pc = "scanned"] EXCEPT !.verdict = verdict]
<1>3. uCompleter' = [uCompleter EXCEPT ![c] = q]
  BY <1>2 DEF UInv
<1>4. CompleterHolds(uCompleter[c], uAssets)
  BY DEF UInv
<1>5. DOMAIN q = {"pc", "sum", "put", "verdict"} /\ q.pc = "scanned" /\ q.sum = uCompleter[c].sum
  BY <1>4 DEF CompleterHolds
<1> HIDE DEF q
<1>6. CompleterHolds(q, uAssets')
  BY <1>1, <1>4, <1>5 DEF CompleterHolds, UUnchecked, UChecked, UStored
<1>7. /\ uTmp' \in [UParts -> UWriters \cup {0}] /\ uPart' \in [UParts -> UWriters \cup {0}]
      /\ upload' \in URow /\ uAssets' = uAssets
      /\ upload'.quarantine = "rejected" => upload'.status \in {"rejected", "failed"}
      /\ upload'.status = "completed" => upload'.asset = {UExpected} /\ HasAsset(uAssets')
  BY <1>1 DEF UInv
<1> QED  BY <1>1, <1>3, <1>6, <1>7, CompleterKeeps

LEMMA RecordScanKeeps == ASSUME UInv, NEW c \in UCompleters, RecordScan(c) PROVE UInv'
<1>1. UNCHANGED <<uDisk, uTmp, uPart, uWriter, uAssets>> /\ uCompleter[c].pc \in UChecked
  BY DEF RecordScan, uFiles, UChecked
<1>2. PICK pc \in {"probing", "over"} : Goes(c, pc)
  BY DEF RecordScan
<1>3. /\ pc \in UUnchecked \cup UChecked \cup UStored /\ pc \notin UStored
  BY DEF UUnchecked, UChecked, UStored
<1>4. CASE UNCHANGED upload
  BY <1>1, <1>2, <1>3, <1>4, CompleterAnswers
<1>5. upload \in URow
  BY DEF UInv
<1>6. ASSUME NEW status \in {"quarantined", "rejected"}, NEW quarantine \in {"trusted", "rejected"},
             upload' = [status |-> status, quarantine |-> quarantine,
                        recorded |-> upload.recorded, asset |-> upload.asset],
             quarantine = "rejected" => status = "rejected"
      PROVE  UInv'
  <2>1. /\ uTmp' \in [UParts -> UWriters \cup {0}] /\ uPart' \in [UParts -> UWriters \cup {0}]
        /\ upload' \in URow /\ uAssets' = uAssets
        /\ upload'.quarantine = "rejected" => upload'.status = "rejected"
        /\ upload'.status # "completed"
    BY <1>1, <1>5, <1>6 DEF UInv, URow
  <2> QED  BY <1>1, <1>2, <1>3, <2>1, CompleterGoes
<1>7. CASE upload' = [upload EXCEPT !.quarantine = "trusted"] /\ upload.status = "quarantined"
  <2>1. upload' = [status |-> "quarantined", quarantine |-> "trusted",
                   recorded |-> upload.recorded, asset |-> upload.asset]
    BY <1>5, <1>7 DEF URow
  <2> QED  BY <1>6, <2>1
<1>8. CASE upload' = [upload EXCEPT !.status = "rejected", !.quarantine = "rejected"]
  <2>1. upload' = [status |-> "rejected", quarantine |-> "rejected",
                   recorded |-> upload.recorded, asset |-> upload.asset]
    BY <1>5, <1>8 DEF URow
  <2> QED  BY <1>6, <2>1
<1> QED  BY <1>4, <1>7, <1>8 DEF RecordScan

LEMMA PutUploadKeeps == ASSUME UInv, NEW c \in UCompleters, PutUpload(c) PROVE UInv'
<1>1. UNCHANGED <<upload, uDisk, uTmp, uPart, uWriter, uAssets>> /\ uCompleter[c].pc \in UChecked
  BY DEF PutUpload, uFiles, UChecked
<1> DEFINE file == uAssembled[1]
           q == [[uCompleter[c] EXCEPT !.pc = "put"] EXCEPT !.put = file]
<1>2. uCompleter' = [uCompleter EXCEPT ![c] = q]
  BY DEF PutUpload, UInv
<1>3. CompleterHolds(uCompleter[c], uAssets)
  BY DEF UInv
<1> HIDE DEF file
<1>4. DOMAIN q = {"pc", "sum", "put", "verdict"} /\ q.pc = "put" /\ q.sum = uCompleter[c].sum
  BY <1>3 DEF CompleterHolds
<1> HIDE DEF q
<1>5. CompleterHolds(q, uAssets')
  BY <1>1, <1>3, <1>4 DEF CompleterHolds, UUnchecked, UChecked, UStored
<1>6. /\ uTmp' \in [UParts -> UWriters \cup {0}] /\ uPart' \in [UParts -> UWriters \cup {0}]
      /\ upload' \in URow /\ uAssets' = uAssets
      /\ upload'.quarantine = "rejected" => upload'.status \in {"rejected", "failed"}
      /\ upload'.status = "completed" => upload'.asset = {UExpected} /\ HasAsset(uAssets')
  BY <1>1 DEF UInv
<1> QED  BY <1>1, <1>2, <1>5, <1>6, CompleterKeeps

LEMMA RegisterUploadKeeps == ASSUME UInv, NEW c \in UCompleters, RegisterUpload(c) PROVE UInv'
<1> DEFINE asset == [key |-> uCompleter[c].sum, content |-> uCompleter[c].put]
<1>1. UNCHANGED <<uDisk, uTmp, uPart, uWriter>> /\ uCompleter[c].pc \in UChecked
  BY DEF RegisterUpload, uFiles, UChecked
<1>2. CASE MarkFailed /\ Goes(c, "over") /\ UNCHANGED uAssets
  BY <1>1, <1>2, CompleterAnswers DEF UUnchecked, UChecked, UStored
<1>3. CASE uAssets' = uAssets \cup {asset} /\ Goes(c, "stored") /\ UNCHANGED upload
  <2>1. uCompleter[c].sum = UExpected
    BY <1>1 DEF UInv, CompleterHolds
  <2>2. asset.key = UExpected
    BY <2>1
  <2> HIDE DEF asset
  <2>3. HasAsset(uAssets') /\ uAssets \subseteq uAssets'
    BY <1>3, <2>2 DEF HasAsset
  <2>4. /\ uTmp' \in [UParts -> UWriters \cup {0}] /\ uPart' \in [UParts -> UWriters \cup {0}]
        /\ upload' \in URow
        /\ upload'.quarantine = "rejected" => upload'.status \in {"rejected", "failed"}
        /\ upload'.status = "completed" => upload'.asset = {UExpected}
    BY <1>1, <1>3 DEF UInv
  <2>5. "stored" \in UStored
    BY DEF UStored
  <2> QED  BY <1>1, <1>3, <2>1, <2>3, <2>4, <2>5, CompleterGoes
<1> QED  BY <1>2, <1>3 DEF RegisterUpload

LEMMA FinishUploadKeeps == ASSUME UInv, NEW c \in UCompleters, FinishUpload(c) PROVE UInv'
<1>1. UNCHANGED <<uDisk, uTmp, uPart, uWriter, uAssets>> /\ uCompleter[c].pc \in UStored
  BY DEF FinishUpload, uFiles, UStored
<1>2. uCompleter[c].sum = UExpected /\ HasAsset(uAssets) /\ upload \in URow
  BY <1>1 DEF UInv, CompleterHolds
<1>3. CASE ~Promotable
  <2>1. Goes(c, "over") /\ UNCHANGED upload
    BY <1>3 DEF FinishUpload
  <2> QED  BY <1>1, <2>1, CompleterAnswers DEF UUnchecked, UChecked, UStored
<1>4. CASE Promotable
  <2>1. Goes(c, "cleaning")
        /\ upload' = [upload EXCEPT !.status = "completed", !.asset = {UExpected}]
    BY <1>2, <1>4 DEF FinishUpload
  <2>2. upload' = [status |-> "completed", quarantine |-> "trusted",
                   recorded |-> upload.recorded, asset |-> {UExpected}]
    BY <1>2, <1>4, <2>1 DEF Promotable, URow
  <2>3. /\ uTmp' \in [UParts -> UWriters \cup {0}] /\ uPart' \in [UParts -> UWriters \cup {0}]
        /\ upload' \in URow /\ uAssets' = uAssets
        /\ upload'.quarantine # "rejected" /\ upload'.asset = {UExpected}
    BY <1>1, <1>2, <2>2 DEF UInv, URow
  <2>4. "cleaning" \in UStored
    BY DEF UStored
  <2> QED  BY <1>1, <1>2, <2>1, <2>3, <2>4, CompleterGoes
<1> QED  BY <1>3, <1>4

LEMMA RemoveFolderKeeps == ASSUME UInv, NEW c \in UCompleters, RemoveFolder(c) PROVE UInv'
<1>1. UNCHANGED <<upload, uDisk, uWriter, uAssets>> /\ Goes(c, "over")
  BY DEF RemoveFolder
<1>2. /\ uTmp' \in [UParts -> UWriters \cup {0}] /\ uPart' \in [UParts -> UWriters \cup {0}]
      /\ upload' \in URow
      /\ upload'.quarantine = "rejected" => upload'.status \in {"rejected", "failed"}
      /\ upload'.status = "completed" => upload'.asset = {UExpected} /\ HasAsset(uAssets')
  BY <1>1 DEF RemoveFolder, UInv
<1> QED  BY <1>1, <1>2, CompleterGoes DEF UUnchecked, UChecked, UStored

LEMMA UploadKeeps == ASSUME UInv, [UNext]_uVars PROVE UInv'
<1>1. CASE UNCHANGED uVars
  BY <1>1 DEF uVars, UInv
<1> QED
  BY <1>1, OpenPartKeeps, WritePartKeeps, AbandonPartKeeps, ReplacePartKeeps, RecordPartKeeps,
     UncheckedCompletions, FillAssembledKeeps, CheckedCompletions, QuarantineKeeps, ScanKeeps,
     RecordScanKeeps, PutUploadKeeps, RegisterUploadKeeps, FinishUploadKeeps, RemoveFolderKeeps
  DEF UNext

LEMMA UploadInvariant == USpec => []UInv
BY UploadStarts, UploadKeeps, PTL DEF USpec

\* A completed upload names a registered asset with the announced checksum,
\* whatever parts and completions overlap.
THEOREM UploadsAccounted == USpec => [](UTypeOK /\ CompletedNamesAnAsset)
<1>1. UInv => UTypeOK /\ CompletedNamesAnAsset
  BY DEF UInv, URow, UTypeOK, CompletedNamesAnAsset, HasAsset
<1> QED  BY <1>1, UploadInvariant, PTL

\* A rejected upload stays rejected under every request that is still on its way.
THEOREM UploadsStayRejected == USpec => RejectedStaysRejected
<1> DEFINE Stays == upload.quarantine = "rejected" =>
                       upload'.quarantine = "rejected" /\ upload'.status # "completed"
<1>1. UInv /\ [UNext]_uVars => [Stays]_uVars
  <2> SUFFICES ASSUME UInv, UNext, upload.quarantine = "rejected"
               PROVE  upload'.quarantine = "rejected" /\ upload'.status # "completed"
    OBVIOUS
  <2>1. upload \in URow /\ upload.status \in {"rejected", "failed"}
    BY DEF UInv
  <2>2. CASE UNCHANGED upload
    BY <2>1, <2>2
  <2>3. CASE MarkFailed
    BY <2>1, <2>3 DEF MarkFailed, URow
  <2>4. ~Accepting /\ ~Quarantinable(upload.status) /\ ~Promotable
    BY <2>1 DEF Accepting, Quarantinable, Promotable
  <2>5. UNCHANGED upload \/ MarkFailed
    BY <2>4
    DEF UNext, OpenPart, WritePart, AbandonPart, ReplacePart, RecordPart, BeginComplete,
        OpenAssembled, FillAssembled, CheckAssembled, Quarantine, Scan, RecordScan, ProbeMedia,
        FindDuplicate, PutUpload, RegisterUpload, StorageFails, FinishUpload, RemoveFolder
  <2> QED  BY <2>2, <2>3, <2>5
<1> QED  BY <1>1, UploadInvariant, PTL DEF USpec, RejectedStaysRejected

-----------------------------------------------------------------------------
(* Analyses: the inductive invariant.                                      *)

\* Positions of a request: before it decides, and those of the one that runs the
\* analysis, before its call, its metering and its results.
AUncalled == {"marking", "downloading"}
AUnmetered == AUncalled \cup {"gathering", "deriving"}
AUnsaved == AUnmetered \cup {"metering", "saving"}
ARunning == AUnsaved \cup {"failing", "reading"}
APcs == {"idle", "finding", "inserting"} \cup ARunning

ARow == [status : {"none", "pending", "analyzing", "succeeded", "failed"}, results : {0, 1}]
ARequest == [pc : APcs, print : APrints \cup {"none"},
             signals : {"none", "reading", "read", "unreadable"}]

\* An analysis without a row has had no call; one with results had every
\* operation metered; one of vision stands on an analysis with results.
PrintHolds(f, row, calls, metered) ==
    /\ row[f].status = "none" => calls[f] = 0 /\ metered[f] = 0 /\ row[f].results = 0
    /\ row[f].status = "succeeded" => row[f].results = 1 /\ metered[f] = Len(Metering(f))
    /\ row[f].status # "none" /\ f \in AVisions => row[ABase[f]].results = 1

\* What a request may rely on at each place.
RequestHolds(q, row, calls, metered, ambiguous) ==
    q.pc # "idle" =>
        /\ q.print \in APrints
        /\ q.print \in AVisions => row[ABase[q.print]].results = 1
        /\ q.pc \in ARunning => row[q.print].status # "none"
        /\ q.pc \in AUncalled => calls[q.print] = 0
        /\ q.pc \in AUnmetered => metered[q.print] = 0
        /\ q.pc = "metering" => metered[q.print] < Len(Metering(q.print))
        /\ q.pc \in {"saving", "reading"} => metered[q.print] = Len(Metering(q.print))
        /\ q.pc \in AUnsaved => row[q.print].status # "succeeded" /\ row[q.print].results = 0
        /\ q.pc = "failing" /\ row[q.print].status = "succeeded" => q.print \in ambiguous

AInv ==
    /\ aRow \in [APrints -> ARow]
    /\ aRequest \in [ARequests -> ARequest]
    /\ aCalls \in [APrints -> {0, 1}]
    /\ aMetered \in [APrints -> 0 .. 2]
    /\ aHistory \in [calls : Nat, faults : Nat, ambiguous : SUBSET APrints]
    /\ \A r, q \in ARequests :
          aRequest[r].pc \in ARunning /\ aRequest[q].pc \in ARunning =>
             r = q \/ aRequest[r].print # aRequest[q].print
    /\ \A f \in APrints : PrintHolds(f, aRow, aCalls, aMetered)
    /\ \A r \in ARequests : RequestHolds(aRequest[r], aRow, aCalls, aMetered, aHistory.ambiguous)

LEMMA MeteringLength ==
    ASSUME NEW f
    PROVE  Len(Metering(f)) = IF f \in AEdits THEN 2 ELSE 1
BY DEF Metering

LEMMA AnalysesStart == ASSUME AInit PROVE AInv
<1>1. aRequest \in [ARequests -> ARequest]
  BY DEF AInit, AIdle, ARequest, APcs
<1>2. aHistory \in [calls : Nat, faults : Nat, ambiguous : SUBSET APrints]
  BY DEF AInit
<1>3. /\ aRow \in [APrints -> ARow] /\ aCalls \in [APrints -> {0, 1}] /\ aMetered \in [APrints -> 0 .. 2]
      /\ \A f \in APrints : PrintHolds(f, aRow, aCalls, aMetered)
  BY DEF AInit, ARow, PrintHolds
<1>4. \A r \in ARequests : aRequest[r].pc = "idle"
  BY DEF AInit, AIdle
<1>5. /\ \A r \in ARequests : RequestHolds(aRequest[r], aRow, aCalls, aMetered, aHistory.ambiguous)
      /\ \A r \in ARequests : aRequest[r].pc \notin ARunning
  BY <1>4 DEF RequestHolds, ARunning, AUnsaved, AUnmetered, AUncalled
<1>6. \A r, q \in ARequests :
          aRequest[r].pc \in ARunning /\ aRequest[q].pc \in ARunning =>
             r = q \/ aRequest[r].print # aRequest[q].print
  BY <1>5
<1> QED  BY <1>1, <1>2, <1>3, <1>5, <1>6 DEF AInv

\* A step of a request for one analysis: only the request that runs it, or the
\* one that stores its row, changes it.
LEMMA AnalysisStep ==
    ASSUME AInv, NEW r \in ARequests, NEW q \in ARequest, NEW f \in APrints,
           aRequest' = [aRequest EXCEPT ![r] = q],
           q.pc # "idle" => q.print = f,
           aRow' \in [APrints -> ARow], aCalls' \in [APrints -> {0, 1}],
           aMetered' \in [APrints -> 0 .. 2],
           aHistory' \in [calls : Nat, faults : Nat, ambiguous : SUBSET APrints],
           aHistory.ambiguous \subseteq aHistory'.ambiguous,
           \A g \in APrints \ {f} :
              aRow'[g] = aRow[g] /\ aCalls'[g] = aCalls[g] /\ aMetered'[g] = aMetered[g],
           \/ aRequest[r].pc \in ARunning /\ aRequest[r].print = f
           \/ aRow[f].status = "none"
           \/ aRow' = aRow /\ aCalls' = aCalls /\ aMetered' = aMetered /\ q.pc \notin ARunning,
           aRow[f].results = 1 => aRow'[f].results = 1,
           PrintHolds(f, aRow', aCalls', aMetered'),
           RequestHolds(q, aRow', aCalls', aMetered', aHistory'.ambiguous)
    PROVE  AInv'
<1>1. aRequest' \in [ARequests -> ARequest] /\ aRequest'[r] = q
      /\ \A p \in ARequests \ {r} : aRequest'[p] = aRequest[p]
  BY DEF AInv
<1>2. \A p \in ARequests \ {r} :
         aRequest[p].pc \in ARunning /\ aRequest[p].print = f =>
            q.pc \notin ARunning /\ aRow' = aRow /\ aCalls' = aCalls /\ aMetered' = aMetered
  <2> SUFFICES ASSUME NEW p \in ARequests \ {r}, aRequest[p].pc \in ARunning, aRequest[p].print = f
               PROVE  q.pc \notin ARunning /\ aRow' = aRow /\ aCalls' = aCalls /\ aMetered' = aMetered
    OBVIOUS
  <2>1. ~(aRequest[r].pc \in ARunning /\ aRequest[r].print = f)
    BY DEF AInv
  <2>2. aRequest[p].pc # "idle"
    BY DEF ARunning, AUnsaved, AUnmetered, AUncalled
  <2>3. aRow[f].status # "none"
    BY <2>2 DEF AInv, RequestHolds
  <2> QED  BY <2>1, <2>3
<1>3. q.pc \in ARunning => q.print = f
  BY DEF ARunning, AUnsaved, AUnmetered, AUncalled
<1>4. \A p, s \in ARequests :
          aRequest'[p].pc \in ARunning /\ aRequest'[s].pc \in ARunning =>
             p = s \/ aRequest'[p].print # aRequest'[s].print
  <2> SUFFICES ASSUME NEW p \in ARequests, NEW s \in ARequests, p # s,
                      aRequest'[p].pc \in ARunning, aRequest'[s].pc \in ARunning,
                      aRequest'[p].print = aRequest'[s].print
               PROVE  FALSE
    OBVIOUS
  <2>1. CASE p = r
    <3>1. aRequest[s].pc \in ARunning /\ aRequest[s].print = f /\ s \in ARequests \ {r}
      BY <1>1, <1>3, <2>1
    <3> QED  BY <3>1, <1>1, <1>2, <2>1
  <2>2. CASE s = r
    <3>1. aRequest[p].pc \in ARunning /\ aRequest[p].print = f /\ p \in ARequests \ {r}
      BY <1>1, <1>3, <2>2
    <3> QED  BY <3>1, <1>1, <1>2, <2>2
  <2>3. CASE p # r /\ s # r
    <3>1. aRequest'[p] = aRequest[p] /\ aRequest'[s] = aRequest[s]
      BY <1>1, <2>3
    <3> QED  BY <3>1 DEF AInv
  <2> QED  BY <2>1, <2>2, <2>3
<1>5. \A g \in APrints : aRow[g].results = 1 => aRow'[g].results = 1
  OBVIOUS
<1>6. \A g \in AVisions : ABase[g] \in APrints /\ g \in APrints
  BY AnalysisConstants DEF APrints
<1>7. \A g \in APrints : PrintHolds(g, aRow', aCalls', aMetered')
  <2> SUFFICES ASSUME NEW g \in APrints \ {f} PROVE PrintHolds(g, aRow', aCalls', aMetered')
    OBVIOUS
  <2>1. PrintHolds(g, aRow, aCalls, aMetered)
    BY DEF AInv
  <2> QED  BY <2>1, <1>5, <1>6 DEF PrintHolds
<1>8. \A p \in ARequests :
         RequestHolds(aRequest'[p], aRow', aCalls', aMetered', aHistory'.ambiguous)
  <2> SUFFICES ASSUME NEW p \in ARequests \ {r}
               PROVE  RequestHolds(aRequest[p], aRow', aCalls', aMetered', aHistory'.ambiguous)
    BY <1>1
  <2>1. RequestHolds(aRequest[p], aRow, aCalls, aMetered, aHistory.ambiguous)
    BY DEF AInv
  <2>2. CASE aRequest[p].pc = "idle"
    BY <2>2 DEF RequestHolds
  <2>3. CASE aRequest[p].pc # "idle" /\ aRequest[p].print # f
    <3>1. aRequest[p].print \in APrints \ {f}
      BY <2>1, <2>3 DEF RequestHolds
    <3> QED  BY <2>1, <3>1, <1>5, <1>6 DEF RequestHolds
  <2>4. CASE aRequest[p].pc \in ARunning /\ aRequest[p].print = f
    BY <2>1, <2>4, <1>2 DEF RequestHolds
  <2>5. CASE aRequest[p].pc \notin ARunning /\ aRequest[p].pc # "idle"
    <3>1. /\ aRequest[p].pc \notin AUncalled /\ aRequest[p].pc \notin AUnmetered
          /\ aRequest[p].pc \notin AUnsaved
          /\ aRequest[p].pc \notin {"metering", "saving", "reading", "failing"}
      BY <2>5 DEF ARunning, AUnsaved, AUnmetered, AUncalled
    <3> QED  BY <2>1, <2>5, <3>1, <1>5, <1>6 DEF RequestHolds
  <2> QED  BY <2>2, <2>3, <2>4, <2>5
<1> QED  BY <1>1, <1>4, <1>7, <1>8 DEF AInv

LEMMA ProceedIs ==
    ASSUME AInv, NEW r \in ARequests, NEW pc \in APcs, Proceed(r, pc)
    PROVE  LET q == [pc |-> pc, print |-> aRequest[r].print, signals |-> aRequest[r].signals]
           IN  q \in ARequest /\ aRequest' = [aRequest EXCEPT ![r] = q]
<1>1. aRequest[r] \in ARequest
  BY DEF AInv
<1>2. /\ [aRequest[r] EXCEPT !.pc = pc]
            = [pc |-> pc, print |-> aRequest[r].print, signals |-> aRequest[r].signals]
      /\ [pc |-> pc, print |-> aRequest[r].print, signals |-> aRequest[r].signals] \in ARequest
  BY <1>1 DEF ARequest
<1>3. aRequest' = [aRequest EXCEPT ![r] = [aRequest[r] EXCEPT !.pc = pc]]
  BY DEF Proceed
<1> QED  BY <1>2, <1>3

\* A running request that goes on without writing a row.
LEMMA RunningProceeds ==
    ASSUME AInv, NEW r \in ARequests, NEW pc \in ARunning, aRequest[r].pc \in ARunning,
           Proceed(r, pc), UNCHANGED <<aRow, aCalls, aMetered>>,
           aHistory' \in [calls : Nat, faults : Nat, ambiguous : SUBSET APrints],
           aHistory.ambiguous = aHistory'.ambiguous,
           RequestHolds([pc |-> pc, print |-> aRequest[r].print, signals |-> aRequest[r].signals],
                        aRow, aCalls, aMetered, aHistory.ambiguous)
    PROVE  AInv'
<1> DEFINE f == aRequest[r].print
           q == [pc |-> pc, print |-> f, signals |-> aRequest[r].signals]
<1>1. pc \in APcs /\ aRequest[r].pc # "idle"
  BY DEF APcs, ARunning, AUnsaved, AUnmetered, AUncalled
<1>2. q \in ARequest /\ aRequest' = [aRequest EXCEPT ![r] = q]
  BY <1>1, ProceedIs
<1>3. f \in APrints
  BY <1>1 DEF AInv, RequestHolds
<1>4. PrintHolds(f, aRow, aCalls, aMetered)
  BY <1>3 DEF AInv
<1>5. aRow \in [APrints -> ARow] /\ aCalls \in [APrints -> {0, 1}] /\ aMetered \in [APrints -> 0 .. 2]
  BY DEF AInv
<1>6. q.print = f
  OBVIOUS
<1>7. RequestHolds(q, aRow', aCalls', aMetered', aHistory'.ambiguous)
  OBVIOUS
<1> HIDE DEF q, f
<1> QED  BY <1>2, <1>3, <1>4, <1>5, <1>6, <1>7, AnalysisStep DEF f

\* A request that ends, or starts, writes nothing.
LEMMA RequestEnds ==
    ASSUME AInv, NEW r \in ARequests, Answered(r), UNCHANGED <<aRow, aCalls, aMetered>>,
           aHistory' \in [calls : Nat, faults : Nat, ambiguous : SUBSET APrints],
           aHistory.ambiguous = aHistory'.ambiguous
    PROVE  AInv'
<1>1. AIdle \in ARequest /\ AIdle.pc = "idle" /\ AIdle.pc \notin ARunning
  BY DEF AIdle, ARequest, APcs, ARunning, AUnsaved, AUnmetered, AUncalled
<1>2. CASE APrints = {}
  <2>1. \A p \in ARequests : aRequest[p].pc = "idle"
    BY <1>2 DEF AInv, RequestHolds
  <2>2. aRequest' \in [ARequests -> ARequest] /\ \A p \in ARequests : aRequest'[p].pc = "idle"
    BY <1>1, <2>1 DEF AInv, Answered
  <2>3. \A p \in ARequests : aRequest'[p].pc \notin ARunning
    BY <2>2 DEF ARunning, AUnsaved, AUnmetered, AUncalled
  <2>4. \A p \in ARequests :
           RequestHolds(aRequest'[p], aRow', aCalls', aMetered', aHistory'.ambiguous)
    BY <2>2 DEF RequestHolds
  <2> QED  BY <2>2, <2>3, <2>4 DEF AInv
<1>3. ASSUME NEW f \in APrints PROVE AInv'
  <2>1. PrintHolds(f, aRow, aCalls, aMetered)
    BY DEF AInv
  <2>2. aRow \in [APrints -> ARow] /\ aCalls \in [APrints -> {0, 1}] /\ aMetered \in [APrints -> 0 .. 2]
    BY DEF AInv
  <2>3. RequestHolds(AIdle, aRow', aCalls', aMetered', aHistory'.ambiguous)
    BY <1>1 DEF RequestHolds
  <2>4. aRequest' = [aRequest EXCEPT ![r] = AIdle]
    BY DEF Answered
  <2> QED  BY <1>1, <2>1, <2>2, <2>3, <2>4, AnalysisStep
<1> QED  BY <1>2, <1>3

-----------------------------------------------------------------------------
LEMMA AnalyzeKeeps == ASSUME AInv, NEW r \in ARequests, NEW f \in APrints, Analyze(r, f) PROVE AInv'
<1> DEFINE q == [pc |-> "finding", print |-> f, signals |-> "none"]
<1>1. aRequest' = [aRequest EXCEPT ![r] = q] /\ UNCHANGED <<aRow, aCalls, aMetered>>
  BY DEF Analyze
<1>2. q \in ARequest /\ q.pc \notin ARunning /\ q.print = f
  BY DEF ARequest, APcs, ARunning, AUnsaved, AUnmetered, AUncalled
<1>3. /\ aHistory' \in [calls : Nat, faults : Nat, ambiguous : SUBSET APrints]
      /\ aHistory'.ambiguous = aHistory.ambiguous
  BY DEF Analyze, AInv
<1>4. PrintHolds(f, aRow, aCalls, aMetered)
  BY DEF AInv
<1>5. aRow \in [APrints -> ARow] /\ aCalls \in [APrints -> {0, 1}] /\ aMetered \in [APrints -> 0 .. 2]
  BY DEF AInv
<1>6. f \in AVisions => aRow[ABase[f]].results = 1
  <2>1. f \in AVisions => ABase[f] \in APrints
    BY AnalysisConstants DEF APrints
  <2> QED  BY <2>1 DEF AInv, PrintHolds, Analyze
<1>7. RequestHolds(q, aRow, aCalls, aMetered, aHistory.ambiguous)
  BY <1>6 DEF RequestHolds, ARunning, AUnsaved, AUnmetered, AUncalled
<1> HIDE DEF q
<1> QED  BY <1>1, <1>2, <1>3, <1>4, <1>5, <1>7, AnalysisStep

LEMMA FindAnalysisKeeps == ASSUME AInv, NEW r \in ARequests, FindAnalysis(r) PROVE AInv'
<1> DEFINE f == aRequest[r].print
           q == [pc |-> "inserting", print |-> f, signals |-> aRequest[r].signals]
<1>1. aHistory \in [calls : Nat, faults : Nat, ambiguous : SUBSET APrints]
  BY DEF AInv
<1>2. CASE Answered(r)
  BY <1>1, <1>2, RequestEnds DEF FindAnalysis
<1>3. CASE Proceed(r, "inserting")
  <2>1. q \in ARequest /\ aRequest' = [aRequest EXCEPT ![r] = q]
    BY <1>3, ProceedIs DEF APcs
  <2>2. f \in APrints /\ RequestHolds(q, aRow, aCalls, aMetered, aHistory.ambiguous)
    BY DEF FindAnalysis, On, AInv, RequestHolds, ARunning, AUnsaved, AUnmetered, AUncalled
  <2>3. q.pc \notin ARunning /\ q.print = f
    BY DEF ARunning, AUnsaved, AUnmetered, AUncalled
  <2>4. PrintHolds(f, aRow, aCalls, aMetered)
    BY <2>2 DEF AInv
  <2>5. aRow \in [APrints -> ARow] /\ aCalls \in [APrints -> {0, 1}] /\ aMetered \in [APrints -> 0 .. 2]
    BY DEF AInv
  <2>6. UNCHANGED <<aRow, aCalls, aMetered, aHistory>>
    BY DEF FindAnalysis
  <2> HIDE DEF q, f
  <2> QED  BY <1>1, <2>1, <2>2, <2>3, <2>4, <2>5, <2>6, AnalysisStep
<1> QED  BY <1>2, <1>3 DEF FindAnalysis

LEMMA InsertAnalysisKeeps == ASSUME AInv, NEW r \in ARequests, InsertAnalysis(r) PROVE AInv'
<1> DEFINE f == aRequest[r].print
           q == [pc |-> "marking", print |-> f, signals |-> aRequest[r].signals]
           row == [status |-> "pending", results |-> aRow[f].results]
<1>1. aHistory \in [calls : Nat, faults : Nat, ambiguous : SUBSET APrints]
  BY DEF AInv
<1>2. CASE ~Wins(f)
  <2>1. Answered(r) /\ UNCHANGED <<aRow, aCalls, aMetered, aHistory>>
    BY <1>2 DEF InsertAnalysis, PrintOf
  <2> QED  BY <1>1, <2>1, RequestEnds
<1>3. CASE Wins(f)
  <2>1. q \in ARequest /\ aRequest' = [aRequest EXCEPT ![r] = q]
    BY <1>3, ProceedIs DEF InsertAnalysis, PrintOf, APcs, ARunning, AUnsaved, AUnmetered, AUncalled
  <2>2. RequestHolds(aRequest[r], aRow, aCalls, aMetered, aHistory.ambiguous)
        /\ aRequest[r].pc = "inserting"
    BY DEF InsertAnalysis, On, AInv
  <2>3. f \in APrints /\ (f \in AVisions => aRow[ABase[f]].results = 1)
    BY <2>2 DEF RequestHolds
  <2>4. /\ aRow \in [APrints -> ARow] /\ aCalls \in [APrints -> {0, 1}] /\ aMetered \in [APrints -> 0 .. 2]
        /\ PrintHolds(f, aRow, aCalls, aMetered)
    BY <2>3 DEF AInv
  <2>5. aRow[f].status = "none" /\ aCalls[f] = 0 /\ aMetered[f] = 0 /\ aRow[f].results = 0
    BY <1>3, <2>4 DEF Wins, PrintHolds
  <2>6. aRow' = [aRow EXCEPT ![f] = row] /\ row \in ARow /\ UNCHANGED <<aCalls, aMetered, aHistory>>
    BY <1>3, <2>3, <2>4 DEF InsertAnalysis, PrintOf, ARow
  <2>7. row.status = "pending" /\ row.results = 0
    BY <2>5
  <2>8. q.pc = "marking" /\ q.print = f
    OBVIOUS
  <2> HIDE DEF row, q, f
  <2>9. /\ aRow' \in [APrints -> ARow] /\ aRow'[f] = row
        /\ \A g \in APrints \ {f} : aRow'[g] = aRow[g]
    BY <2>3, <2>4, <2>6
  <2>10. f \in AVisions => ABase[f] \in APrints \ {f}
    BY AnalysisConstants DEF APrints
  <2>11. PrintHolds(f, aRow', aCalls', aMetered')
    BY <2>3, <2>5, <2>6, <2>7, <2>9, <2>10 DEF PrintHolds
  <2>12. RequestHolds(q, aRow', aCalls', aMetered', aHistory'.ambiguous)
    BY <2>3, <2>5, <2>6, <2>7, <2>8, <2>9, <2>10 DEF RequestHolds
  <2>13. /\ aRow[f].results = 1 => aRow'[f].results = 1
         /\ \A g \in APrints \ {f} :
               aRow'[g] = aRow[g] /\ aCalls'[g] = aCalls[g] /\ aMetered'[g] = aMetered[g]
    BY <2>5, <2>6, <2>9
  <2> QED  BY <1>1, <2>1, <2>3, <2>4, <2>5, <2>6, <2>8, <2>9, <2>11, <2>12, <2>13, AnalysisStep
<1> QED  BY <1>2, <1>3

\* The request that runs an analysis writes what belongs to it: its row, its
\* calls, its operations.
LEMMA RunnerWrites ==
    ASSUME AInv, NEW r \in ARequests, NEW q \in ARequest, NEW f, f = aRequest[r].print,
           aRequest[r].pc \in ARunning, aRequest' = [aRequest EXCEPT ![r] = q],
           aRow' \in [APrints -> ARow], aCalls' \in [APrints -> {0, 1}],
           aMetered' \in [APrints -> 0 .. 2],
           aHistory' \in [calls : Nat, faults : Nat, ambiguous : SUBSET APrints],
           aHistory.ambiguous \subseteq aHistory'.ambiguous,
           \A g \in APrints \ {f} :
              aRow'[g] = aRow[g] /\ aCalls'[g] = aCalls[g] /\ aMetered'[g] = aMetered[g],
           aRow'[f].status # "none", aRow[f].results = 1 => aRow'[f].results = 1,
           aRow'[f].status = "succeeded" =>
              aRow'[f].results = 1 /\ aMetered'[f] = Len(Metering(f)),
           \/ q.pc = "idle"
           \/ /\ q.pc \in ARunning /\ q.print = f
              /\ q.pc \in AUncalled => aCalls'[f] = 0
              /\ q.pc \in AUnmetered => aMetered'[f] = 0
              /\ q.pc = "metering" => aMetered'[f] < Len(Metering(f))
              /\ q.pc \in {"saving", "reading"} => aMetered'[f] = Len(Metering(f))
              /\ q.pc \in AUnsaved => aRow'[f].status # "succeeded" /\ aRow'[f].results = 0
              /\ q.pc = "failing" /\ aRow'[f].status = "succeeded" => f \in aHistory'.ambiguous
    PROVE  AInv'
<1>1. RequestHolds(aRequest[r], aRow, aCalls, aMetered, aHistory.ambiguous)
      /\ aRequest[r].pc # "idle"
  BY DEF AInv, ARunning, AUnsaved, AUnmetered, AUncalled
<1>2. /\ f \in APrints /\ (f \in AVisions => aRow[ABase[f]].results = 1)
      /\ f \in AVisions => ABase[f] \in APrints \ {f}
  BY <1>1, AnalysisConstants DEF RequestHolds, APrints
<1>3. PrintHolds(f, aRow', aCalls', aMetered')
  BY <1>2 DEF PrintHolds
<1>4. RequestHolds(q, aRow', aCalls', aMetered', aHistory'.ambiguous)
  BY <1>2 DEF RequestHolds
<1> QED  BY <1>2, <1>3, <1>4, AnalysisStep

LEMMA Running ==
    ASSUME AInv, NEW r \in ARequests, aRequest[r].pc \in ARunning
    PROVE  /\ RequestHolds(aRequest[r], aRow, aCalls, aMetered, aHistory.ambiguous)
           /\ aRequest[r].pc # "idle" /\ aRequest[r].print \in APrints /\ aRequest[r] \in ARequest
           /\ aRow[aRequest[r].print] \in ARow /\ aRow[aRequest[r].print].status # "none"
           /\ PrintHolds(aRequest[r].print, aRow, aCalls, aMetered)
           /\ aRow \in [APrints -> ARow] /\ aCalls \in [APrints -> {0, 1}]
           /\ aMetered \in [APrints -> 0 .. 2]
           /\ aHistory \in [calls : Nat, faults : Nat, ambiguous : SUBSET APrints]
<1>1. RequestHolds(aRequest[r], aRow, aCalls, aMetered, aHistory.ambiguous)
      /\ aRequest[r].pc # "idle" /\ aRequest[r] \in ARequest
  BY DEF AInv, ARunning, AUnsaved, AUnmetered, AUncalled
<1>2. aRequest[r].print \in APrints /\ aRow[aRequest[r].print].status # "none"
  BY <1>1 DEF RequestHolds
<1> QED  BY <1>1, <1>2 DEF AInv

LEMMA SetStatusIs ==
    ASSUME AInv, NEW f \in APrints, NEW status \in {"analyzing", "failed"}, SetStatus(f, status)
    PROVE  /\ aRow' \in [APrints -> ARow]
           /\ aRow'[f].status = status /\ aRow'[f].results = aRow[f].results
           /\ \A g \in APrints \ {f} : aRow'[g] = aRow[g]
<1> DEFINE row == [status |-> status, results |-> aRow[f].results]
<1>1. aRow \in [APrints -> ARow]
  BY DEF AInv
<1>2. [aRow[f] EXCEPT !.status = status] = row /\ row \in ARow
      /\ row.status = status /\ row.results = aRow[f].results
  BY <1>1 DEF ARow
<1>3. aRow' = [aRow EXCEPT ![f] = [aRow[f] EXCEPT !.status = status]]
  BY DEF SetStatus
<1> HIDE DEF row
<1> QED  BY <1>1, <1>2, <1>3

-----------------------------------------------------------------------------
LEMMA MarkRunningKeeps == ASSUME AInv, NEW r \in ARequests, MarkRunning(r) PROVE AInv'
<1> DEFINE f == aRequest[r].print
           q == [pc |-> "downloading", print |-> f, signals |-> aRequest[r].signals]
<1>1. aRequest[r].pc = "marking" /\ aRequest[r].pc \in ARunning
      /\ Proceed(r, "downloading") /\ SetStatus(f, "analyzing")
      /\ UNCHANGED <<aCalls, aMetered, aHistory>>
  BY DEF MarkRunning, On, PrintOf, ARunning, AUnsaved, AUnmetered, AUncalled
<1>2. aCalls[f] = 0 /\ aMetered[f] = 0 /\ aRow[f].results = 0
  BY <1>1, Running DEF RequestHolds, AUnsaved, AUnmetered, AUncalled
<1>3. /\ aRow' \in [APrints -> ARow] /\ aRow'[f].status = "analyzing" /\ aRow'[f].results = 0
      /\ \A g \in APrints \ {f} : aRow'[g] = aRow[g]
  BY <1>1, <1>2, Running, SetStatusIs
<1>4. q \in ARequest /\ aRequest' = [aRequest EXCEPT ![r] = q]
  BY <1>1, ProceedIs DEF APcs, ARunning, AUnsaved, AUnmetered, AUncalled
<1>5. q.pc = "downloading" /\ q.print = f /\ q.pc \in ARunning /\ f = aRequest[r].print
  BY DEF ARunning, AUnsaved, AUnmetered, AUncalled
<1> HIDE DEF q, f
<1>6. /\ aCalls' \in [APrints -> {0, 1}] /\ aMetered' \in [APrints -> 0 .. 2]
      /\ aCalls'[f] = 0 /\ aMetered'[f] = 0
      /\ aHistory' \in [calls : Nat, faults : Nat, ambiguous : SUBSET APrints]
      /\ aHistory.ambiguous = aHistory'.ambiguous
      /\ \A g \in APrints \ {f} :
            aRow'[g] = aRow[g] /\ aCalls'[g] = aCalls[g] /\ aMetered'[g] = aMetered[g]
  BY <1>1, <1>2, <1>3, Running
<1>7. /\ aRow'[f].status # "none" /\ aRow'[f].status # "succeeded" /\ aRow[f].results # 1
      /\ q.pc \notin {"idle", "metering", "saving", "reading", "failing"}
  BY <1>2, <1>3, <1>5
<1> QED  BY <1>1, <1>3, <1>4, <1>5, <1>6, <1>7, RunnerWrites

LEMMA CallProviderKeeps == ASSUME AInv, NEW r \in ARequests, CallProvider(r) PROVE AInv'
<1> DEFINE f == aRequest[r].print
           signals == IF f \in AEdits THEN "reading" ELSE "read"
           q == [pc |-> "gathering", print |-> f, signals |-> signals]
<1>1. aRequest[r].pc = "downloading" /\ aRequest[r].pc \in ARunning
      /\ UNCHANGED <<aRow, aMetered, aHistory>> /\ aCalls' = [aCalls EXCEPT ![f] = @ + 1]
  BY DEF CallProvider, On, PrintOf, ARunning, AUnsaved, AUnmetered, AUncalled
<1>2. /\ aCalls[f] = 0 /\ aMetered[f] = 0 /\ aRow[f].results = 0 /\ aRow[f].status # "succeeded"
      /\ aRow[f].status # "none" /\ f \in APrints
  BY <1>1, Running DEF RequestHolds, AUnsaved, AUnmetered, AUncalled
<1>3. signals \in {"reading", "read"}
  OBVIOUS
<1>4. q \in ARequest
  BY <1>2, <1>3 DEF ARequest, APcs, ARunning, AUnsaved, AUnmetered
<1>5. aRequest' = [aRequest EXCEPT ![r] = q]
  <2>1. aRequest' = [aRequest EXCEPT ![r] =
                       [[aRequest[r] EXCEPT !.pc = "gathering"] EXCEPT !.signals = signals]]
    BY DEF CallProvider, PrintOf, AInv
  <2>2. aRequest[r] \in ARequest
    BY DEF AInv
  <2> HIDE DEF signals
  <2>3. [aRequest[r] EXCEPT !.pc = "gathering"]
           = [pc |-> "gathering", print |-> f, signals |-> aRequest[r].signals]
    BY <2>2 DEF ARequest
  <2>4. [[pc |-> "gathering", print |-> f, signals |-> aRequest[r].signals]
            EXCEPT !.signals = signals] = q
    OBVIOUS
  <2> QED  BY <2>1, <2>3, <2>4
<1>6. q.pc = "gathering" /\ q.print = f /\ q.pc \in ARunning /\ q.pc \notin AUncalled
      /\ f = aRequest[r].print
  BY DEF ARunning, AUnsaved, AUnmetered, AUncalled
<1> HIDE DEF q, f
<1>7. /\ aRow' \in [APrints -> ARow] /\ aCalls' \in [APrints -> {0, 1}]
      /\ aMetered' \in [APrints -> 0 .. 2] /\ aMetered'[f] = 0
      /\ aHistory' \in [calls : Nat, faults : Nat, ambiguous : SUBSET APrints]
      /\ aHistory.ambiguous = aHistory'.ambiguous
      /\ \A g \in APrints \ {f} :
            aRow'[g] = aRow[g] /\ aCalls'[g] = aCalls[g] /\ aMetered'[g] = aMetered[g]
  BY <1>1, <1>2, Running
<1> QED  BY <1>1, <1>2, <1>4, <1>5, <1>6, <1>7, RunnerWrites

LEMMA GatherKeeps == ASSUME AInv, NEW r \in ARequests, Gather(r) PROVE AInv'
<1>1. /\ aRequest[r].pc = "gathering" /\ UNCHANGED <<aRow, aCalls, aMetered, aHistory>>
      /\ aRequest[r].pc \in ARunning /\ aRequest[r].pc \in AUnmetered /\ aRequest[r].pc \in AUnsaved
  BY DEF Gather, On, ARunning, AUnsaved, AUnmetered
<1>2. PICK pc \in {"deriving", "failing"} : Proceed(r, pc)
  BY DEF Gather
<1>3. /\ pc \in ARunning /\ pc \notin AUncalled
      /\ pc \notin {"idle", "metering", "saving", "reading"}
  BY DEF ARunning, AUnsaved, AUnmetered, AUncalled
<1>4. RequestHolds([pc |-> pc, print |-> aRequest[r].print, signals |-> aRequest[r].signals],
                   aRow, aCalls, aMetered, aHistory.ambiguous)
  BY <1>1, <1>3, Running DEF RequestHolds
<1> QED  BY <1>1, <1>2, <1>3, <1>4, Running, RunningProceeds

LEMMA DeriveResultsKeeps == ASSUME AInv, NEW r \in ARequests, DeriveResults(r) PROVE AInv'
<1>1. /\ aRequest[r].pc = "deriving" /\ UNCHANGED <<aRow, aCalls, aMetered, aHistory>>
      /\ aRequest[r].pc \in ARunning /\ aRequest[r].pc \in AUnmetered /\ aRequest[r].pc \in AUnsaved
  BY DEF DeriveResults, On, ARunning, AUnsaved, AUnmetered
<1>2. PICK pc \in {"metering", "failing"} : Proceed(r, pc)
  BY DEF DeriveResults
<1>3. /\ pc \in ARunning /\ pc \notin AUncalled /\ pc \notin AUnmetered
      /\ pc \notin {"idle", "saving", "reading"}
  BY DEF ARunning, AUnsaved, AUnmetered, AUncalled
<1>5. Len(Metering(aRequest[r].print)) \in {1, 2}
  BY MeteringLength
<1>4. RequestHolds([pc |-> pc, print |-> aRequest[r].print, signals |-> aRequest[r].signals],
                   aRow, aCalls, aMetered, aHistory.ambiguous)
  <2> DEFINE f == aRequest[r].print
             q == [pc |-> pc, print |-> f, signals |-> aRequest[r].signals]
  <2>1. /\ f \in APrints /\ (f \in AVisions => aRow[ABase[f]].results = 1)
        /\ aMetered[f] = 0 /\ aRow[f].status # "none"
        /\ aRow[f].status # "succeeded" /\ aRow[f].results = 0
    <3>1. RequestHolds(aRequest[r], aRow, aCalls, aMetered, aHistory.ambiguous)
          /\ aRequest[r].pc # "idle"
      BY <1>1, Running
    <3> QED
      BY <1>1, <3>1 DEF RequestHolds
  <2>2. Len(Metering(f)) \in {1, 2} /\ q.pc = pc /\ q.print = f
    BY <1>5
  <2> HIDE DEF q, f
  <2>3. 0 < Len(Metering(f))
    BY <2>2
  <2>4. q.pc = "metering" => aMetered[q.print] < Len(Metering(q.print))
    BY <2>1, <2>2, <2>3
  <2>5. q.pc \notin AUncalled /\ q.pc \notin AUnmetered /\ q.pc \notin {"saving", "reading"}
    BY <1>3, <2>2
  <2>6. RequestHolds(q, aRow, aCalls, aMetered, aHistory.ambiguous)
    BY <2>1, <2>2, <2>4, <2>5 DEF RequestHolds
  <2> QED
    BY <2>6 DEF q, f
<1> QED  BY <1>1, <1>2, <1>3, <1>4, Running, RunningProceeds

LEMMA MeterAnalysisKeeps == ASSUME AInv, NEW r \in ARequests, MeterAnalysis(r) PROVE AInv'
<1> DEFINE f == aRequest[r].print
           m == aMetered[f] + 1
           pc == AfterMetering(f, m)
           q == [pc |-> pc, print |-> f, signals |-> aRequest[r].signals]
<1>1. /\ aRequest[r].pc = "metering" /\ aRequest[r].pc \in ARunning
      /\ UNCHANGED <<aRow, aCalls, aHistory>> /\ aMetered' = [aMetered EXCEPT ![f] = m]
      /\ Proceed(r, pc)
  BY DEF MeterAnalysis, On, PrintOf, ARunning, AUnsaved
<1>2. /\ aMetered[f] < Len(Metering(f)) /\ aRow[f].results = 0 /\ aRow[f].status # "succeeded"
      /\ aRow[f].status # "none" /\ f \in APrints /\ aMetered[f] \in 0 .. 2
  BY <1>1, Running DEF RequestHolds, AUnsaved
<1> HIDE DEF f
<1>3. Len(Metering(f)) = 1 \/ Len(Metering(f)) = 2
  BY MeteringLength
<1>4. m \in 0 .. 2 /\ m <= Len(Metering(f))
  <2>1. \A x \in 0 .. 2, l \in {1, 2} : x < l => x + 1 \in 0 .. 2 /\ x + 1 <= l
    OBVIOUS
  <2> QED  BY <1>2, <1>3, <2>1
<1> HIDE DEF m
<1>5. /\ pc \in {"metering", "saving"} /\ pc \in ARunning /\ pc \notin AUnmetered
      /\ pc \notin AUncalled /\ pc \in APcs
      /\ pc = "metering" => m < Len(Metering(f))
      /\ pc = "saving" => m = Len(Metering(f))
  BY <1>3, <1>4 DEF AfterMetering, ARunning, AUnsaved, AUnmetered, AUncalled, APcs
<1>6. q.pc = pc /\ q.print = f
  OBVIOUS
<1> HIDE DEF pc
<1>7. q \in ARequest /\ aRequest' = [aRequest EXCEPT ![r] = q]
  BY <1>1, <1>5, ProceedIs DEF f
<1>8. f = aRequest[r].print
  BY DEF f
<1> HIDE DEF q
<1>9. /\ aRow' \in [APrints -> ARow] /\ aCalls' \in [APrints -> {0, 1}]
      /\ aMetered' \in [APrints -> 0 .. 2] /\ aMetered'[f] = m
      /\ aHistory' \in [calls : Nat, faults : Nat, ambiguous : SUBSET APrints]
      /\ aHistory.ambiguous = aHistory'.ambiguous
      /\ \A g \in APrints \ {f} :
            aRow'[g] = aRow[g] /\ aCalls'[g] = aCalls[g] /\ aMetered'[g] = aMetered[g]
  BY <1>1, <1>2, <1>4, Running
<1> QED  BY <1>1, <1>2, <1>5, <1>6, <1>7, <1>8, <1>9, RunnerWrites

LEMMA SaveKeeps ==
    ASSUME AInv, NEW r \in ARequests, aRequest[r].pc = "saving",
           NEW pc \in {"reading", "failing"}, Proceed(r, pc),
           aRow' = [aRow EXCEPT ![aRequest[r].print] = Saved(@)], UNCHANGED <<aCalls, aMetered>>,
           aHistory' \in [calls : Nat, faults : Nat, ambiguous : SUBSET APrints],
           aHistory.ambiguous \subseteq aHistory'.ambiguous,
           pc = "failing" => aRequest[r].print \in aHistory'.ambiguous
    PROVE  AInv'
<1> DEFINE f == aRequest[r].print
           q == [pc |-> pc, print |-> f, signals |-> aRequest[r].signals]
           row == [status |-> "succeeded", results |-> 1]
<1>1. aRequest[r].pc \in ARunning /\ pc \in APcs /\ pc \in ARunning
      /\ pc \notin AUnsaved /\ pc \notin AUnmetered /\ pc \notin AUncalled
      /\ pc \notin {"idle", "metering", "saving"}
  BY DEF ARunning, AUnsaved, AUnmetered, AUncalled, APcs
<1>2. /\ aMetered[f] = Len(Metering(f)) /\ aRow[f].results = 0 /\ aRow[f].status # "succeeded"
      /\ f \in APrints
  BY <1>1, Running DEF RequestHolds, AUnsaved
<1>3. row \in ARow /\ Saved(aRow[f]) = row
  BY <1>2 DEF ARow, Saved
<1>4. q \in ARequest /\ aRequest' = [aRequest EXCEPT ![r] = q]
  BY <1>1, ProceedIs
<1>5. aRow' = [aRow EXCEPT ![f] = row] /\ q.pc = pc /\ q.print = f
      /\ f = aRequest[r].print /\ row.results = 1 /\ row.status = "succeeded"
      /\ (pc = "failing" => f \in aHistory'.ambiguous)
  BY <1>3
<1> HIDE DEF q, f, row
<1>6. /\ aRow' \in [APrints -> ARow] /\ aCalls' \in [APrints -> {0, 1}]
      /\ aMetered' \in [APrints -> 0 .. 2] /\ aMetered'[f] = Len(Metering(f))
      /\ aRow'[f].status = "succeeded" /\ aRow'[f].results = 1
      /\ \A g \in APrints \ {f} :
            aRow'[g] = aRow[g] /\ aCalls'[g] = aCalls[g] /\ aMetered'[g] = aMetered[g]
  BY <1>1, <1>2, <1>3, <1>5, Running
<1> QED  BY <1>1, <1>4, <1>5, <1>6, RunnerWrites

LEMMA SaveResultsKeeps == ASSUME AInv, NEW r \in ARequests, SaveResults(r) PROVE AInv'
<1>1. aHistory' \in [calls : Nat, faults : Nat, ambiguous : SUBSET APrints]
  BY DEF AInv, SaveResults
<1> QED  BY <1>1, SaveKeeps DEF SaveResults, On, PrintOf

LEMMA SaveUnheardKeeps == ASSUME AInv, NEW r \in ARequests, SaveResultsUnheard(r) PROVE AInv'
<1>1. aRequest[r].pc \in ARunning
  BY DEF SaveResultsUnheard, On, ARunning, AUnsaved
<1>2. /\ aHistory' \in [calls : Nat, faults : Nat, ambiguous : SUBSET APrints]
      /\ aHistory'.ambiguous = aHistory.ambiguous \cup {aRequest[r].print}
  <2> DEFINE f == aRequest[r].print
             h == [calls |-> aHistory.calls, faults |-> aHistory.faults + 1,
                   ambiguous |-> aHistory.ambiguous \cup {f}]
  <2>1. f \in APrints /\ aHistory \in [calls : Nat, faults : Nat, ambiguous : SUBSET APrints]
    BY <1>1, Running
  <2>2. aHistory' = [aHistory EXCEPT !.faults = @ + 1, !.ambiguous = @ \cup {f}]
    BY DEF SaveResultsUnheard, PrintOf
  <2> HIDE DEF f
  <2>3. aHistory' = h
    BY <2>1, <2>2
  <2>4. h \in [calls : Nat, faults : Nat, ambiguous : SUBSET APrints]
        /\ h.ambiguous = aHistory.ambiguous \cup {f}
    BY <2>1
  <2> HIDE DEF h
  <2> QED  BY <2>3, <2>4 DEF f
<1> QED  BY <1>2, SaveKeeps DEF SaveResultsUnheard, On, PrintOf

LEMMA AnalysisRaisesKeeps == ASSUME AInv, NEW r \in ARequests, AnalysisRaises(r) PROVE AInv'
<1>1. /\ aRequest[r].pc \in ARunning /\ aRequest[r].pc \in AUnsaved
      /\ UNCHANGED <<aRow, aCalls, aMetered>> /\ Proceed(r, "failing")
  BY DEF AnalysisRaises, Work, ARunning, AUnsaved, AUnmetered, AUncalled
<1>2. /\ aHistory' \in [calls : Nat, faults : Nat, ambiguous : SUBSET APrints]
      /\ aHistory'.ambiguous = aHistory.ambiguous
  BY DEF AnalysisRaises, AFault, AInv
<1>3. RequestHolds([pc |-> "failing", print |-> aRequest[r].print, signals |-> aRequest[r].signals],
                   aRow, aCalls, aMetered, aHistory.ambiguous)
  BY <1>1, Running DEF RequestHolds, AUnsaved, AUnmetered, AUncalled
<1> QED  BY <1>1, <1>2, <1>3, RunningProceeds DEF ARunning

LEMMA MarkFailedKeeps == ASSUME AInv, NEW r \in ARequests, MarkFailedRow(r) PROVE AInv'
<1> DEFINE f == aRequest[r].print
<1>1. aRequest[r].pc = "failing" /\ aRequest[r].pc \in ARunning
      /\ UNCHANGED <<aCalls, aMetered, aHistory>> /\ SetStatus(f, "failed")
      /\ aRequest' = [aRequest EXCEPT ![r] = AIdle]
  BY DEF MarkFailedRow, On, PrintOf, Answered, ARunning
<1>2. AIdle \in ARequest /\ AIdle.pc = "idle"
  BY DEF AIdle, ARequest, APcs
<1>3. /\ aRow' \in [APrints -> ARow]
      /\ aRow'[f].status = "failed" /\ aRow'[f].results = aRow[f].results
      /\ \A g \in APrints \ {f} : aRow'[g] = aRow[g]
  BY <1>1, Running, SetStatusIs
<1>4. /\ aCalls' \in [APrints -> {0, 1}] /\ aMetered' \in [APrints -> 0 .. 2]
      /\ aHistory' \in [calls : Nat, faults : Nat, ambiguous : SUBSET APrints]
      /\ aHistory.ambiguous = aHistory'.ambiguous
      /\ \A g \in APrints \ {f} :
            aRow'[g] = aRow[g] /\ aCalls'[g] = aCalls[g] /\ aMetered'[g] = aMetered[g]
  BY <1>1, <1>3, Running
<1>6. aRow'[f].status # "none" /\ aRow'[f].status # "succeeded"
  BY <1>3
<1>5. f = aRequest[r].print
  OBVIOUS
<1> HIDE DEF f
<1> QED  BY <1>1, <1>2, <1>3, <1>4, <1>5, <1>6, RunnerWrites

LEMMA SignalsEndKeeps == ASSUME AInv, NEW r \in ARequests, SignalsEnd(r) PROVE AInv'
<1>1. PICK end \in {"read", "unreadable"} : aRequest' = [aRequest EXCEPT ![r].signals = end]
  BY DEF SignalsEnd
<1>2. /\ aRequest' \in [ARequests -> ARequest]
      /\ \A p \in ARequests : aRequest'[p].pc = aRequest[p].pc /\ aRequest'[p].print = aRequest[p].print
  BY <1>1 DEF AInv, ARequest
<1>3. UNCHANGED <<aRow, aCalls, aMetered, aHistory>>
  BY DEF SignalsEnd
<1>4. \A p \in ARequests :
         RequestHolds(aRequest'[p], aRow', aCalls', aMetered', aHistory'.ambiguous)
  BY <1>2, <1>3 DEF AInv, RequestHolds
<1> QED  BY <1>2, <1>3, <1>4 DEF AInv

LEMMA ApiCrashKeeps == ASSUME AInv, ApiCrash PROVE AInv'
<1>1. /\ aRequest' \in [ARequests -> ARequest]
      /\ \A p \in ARequests : aRequest'[p].pc = "idle" /\ aRequest'[p].pc \notin ARunning
  BY DEF ApiCrash, AIdle, ARequest, APcs, ARunning, AUnsaved, AUnmetered, AUncalled
<1>2. UNCHANGED <<aRow, aCalls, aMetered>>
      /\ aHistory' \in [calls : Nat, faults : Nat, ambiguous : SUBSET APrints]
  BY DEF ApiCrash, AFault, AInv
<1>3. \A p \in ARequests :
         RequestHolds(aRequest'[p], aRow', aCalls', aMetered', aHistory'.ambiguous)
  BY <1>1 DEF RequestHolds
<1> QED  BY <1>1, <1>2, <1>3 DEF AInv

LEMMA AnalysesKeep == ASSUME AInv, [ANext]_aVars PROVE AInv'
<1>1. CASE UNCHANGED aVars
  BY <1>1 DEF aVars, AInv
<1>2. ASSUME NEW r \in ARequests, Answered(r), UNCHANGED <<aRow, aCalls, aMetered>>,
             UNCHANGED aHistory \/ AFault
      PROVE  AInv'
  <2>1. /\ aHistory' \in [calls : Nat, faults : Nat, ambiguous : SUBSET APrints]
        /\ aHistory'.ambiguous = aHistory.ambiguous
    BY <1>2 DEF AFault, AInv
  <2> QED  BY <1>2, <2>1, RequestEnds
<1>3. ASSUME NEW r \in ARequests, ReadResults(r) \/ MarkRaises(r) PROVE AInv'
  BY <1>2, <1>3 DEF ReadResults, MarkRaises
<1>4. ASSUME NEW f \in APrints, ProviderAnswers(f) PROVE AInv'
  BY <1>4 DEF ProviderAnswers, AInv
<1> QED
  BY <1>1, <1>3, <1>4, AnalyzeKeeps, FindAnalysisKeeps, InsertAnalysisKeeps, MarkRunningKeeps,
     CallProviderKeeps, GatherKeeps, DeriveResultsKeeps, MeterAnalysisKeeps, SaveResultsKeeps,
     SaveUnheardKeeps, AnalysisRaisesKeeps, MarkFailedKeeps, SignalsEndKeeps, ApiCrashKeeps
  DEF ANext

LEMMA AnalysesInvariant == ASpec => []AInv
BY AnalysesStart, AnalysesKeep, PTL DEF ASpec

\* Requests for one fingerprint, however they overlap, fail or die, call the
\* provider once, and a succeeded analysis is complete.
THEOREM AnalysesAccounted == ASpec => [](OneCallPerFingerprint /\ SucceededIsComplete)
<1>1. AInv => OneCallPerFingerprint /\ SucceededIsComplete
  BY DEF AInv, OneCallPerFingerprint, SucceededIsComplete, PrintHolds
<1> QED  BY <1>1, AnalysesInvariant, PTL

\* Only a lost acknowledgement takes a succeeded analysis back.
THEOREM AnalysesStay == ASpec => SucceededStays
<1> DEFINE Stays == \A f \in APrints : aRow[f].status = "succeeded" =>
                       aRow'[f].status = "succeeded" \/ f \in aHistory.ambiguous
<1>1. AInv /\ [ANext]_aVars => [Stays]_aVars
  <2> SUFFICES ASSUME AInv, ANext PROVE Stays
    OBVIOUS
  <2>1. CASE UNCHANGED aRow
    BY <2>1
  <2>2. ASSUME NEW r \in ARequests, NEW row, aRow' = [aRow EXCEPT ![aRequest[r].print] = row],
               \/ row.status = "succeeded"
               \/ aRow[aRequest[r].print].status # "succeeded"
               \/ aRequest[r].print \in aHistory.ambiguous
        PROVE  Stays
    <3> SUFFICES ASSUME NEW f \in APrints, aRow[f].status = "succeeded"
                 PROVE  aRow'[f].status = "succeeded" \/ f \in aHistory.ambiguous
      OBVIOUS
    <3>1. CASE f = aRequest[r].print
      BY <2>2, <3>1 DEF AInv
    <3>2. CASE f # aRequest[r].print
      BY <2>2, <3>2 DEF AInv
    <3> QED  BY <3>1, <3>2
  <2>3. ASSUME NEW r \in ARequests, InsertAnalysis(r) PROVE Stays
    BY <2>1, <2>2, <2>3 DEF InsertAnalysis, Wins, PrintOf
  <2>4. ASSUME NEW r \in ARequests, MarkRunning(r) PROVE Stays
    <3>1. aRow[aRequest[r].print].status # "succeeded"
      BY <2>4, Running DEF MarkRunning, On, RequestHolds, ARunning, AUnsaved, AUnmetered, AUncalled
    <3> QED  BY <2>2, <2>4, <3>1 DEF MarkRunning, SetStatus, PrintOf
  <2>5. ASSUME NEW r \in ARequests, SaveResults(r) \/ SaveResultsUnheard(r) PROVE Stays
    <3>1. Saved(aRow[aRequest[r].print]).status = "succeeded"
      BY DEF Saved
    <3>2. aRow' = [aRow EXCEPT ![aRequest[r].print] = Saved(aRow[aRequest[r].print])]
      BY <2>5 DEF SaveResults, SaveResultsUnheard, PrintOf
    <3> QED  BY <2>2, <3>1, <3>2
  <2>6. ASSUME NEW r \in ARequests, MarkFailedRow(r) PROVE Stays
    <3>1. aRow[aRequest[r].print].status # "succeeded" \/ aRequest[r].print \in aHistory.ambiguous
      BY <2>6, Running DEF MarkFailedRow, On, RequestHolds, ARunning
    <3> QED  BY <2>2, <2>6, <3>1 DEF MarkFailedRow, SetStatus, PrintOf
  <2> QED
    BY <2>1, <2>3, <2>4, <2>5, <2>6
    DEF ANext, Analyze, FindAnalysis, CallProvider, SignalsEnd, Gather, DeriveResults,
        MeterAnalysis, ReadResults, AnalysisRaises, MarkRaises, ProviderAnswers, ApiCrash
<1> QED  BY <1>1, AnalysesInvariant, PTL DEF ASpec, SucceededStays

-----------------------------------------------------------------------------
(* ExecutionPlane: the inductive invariant.                                *)

\* Positions of a wrapper: before its executor asks for the credential, with the
\* credential, with a reservation; and when it is over.
XBefore == {"idle", "begun", "entered", "preflight", "bound", "armed"}
XReserved == {"reserved", "ready", "intended", "marked"}
XDispatch == XReserved \cup {"resolved", "reconcile", "inspect"}
XAfter == {"cleanup", "unlinking", "done"}
XPcs == XBefore \cup {"asked"} \cup XDispatch \cup XAfter
XUnchecked == Outside \cup {"entered"}

XRun == [pc : XPcs, secret : BOOLEAN, reads : {{}, {0}, {1}}]
XReceipt == [calls : {{}, {0}, {1}}, reads : {{}, {0}, {1}}, consumed : {{}, {0}, {1}}]
XLedger == [status : {"none", "reserved", "released", "finished"}, started : BOOLEAN]
XEvidence == [armed : BOOLEAN, intent : BOOLEAN,
              terminal : {"none", "UNKNOWN", "NOT_SENT", "POSSIBLY_SENT"}]

\* What a wrapper's run says of its own credential, request and receipt.
RunHolds(q, sent, handed, receipt) ==
    /\ q.pc \in XBefore => q.reads = {0} /\ ~q.secret /\ handed = 0
    /\ q.pc = "asked" => q.reads = {} /\ ~q.secret
    /\ q.pc \in XDispatch => q.reads = {1} /\ q.secret /\ handed = 1
    /\ q.pc \notin XAfter => receipt = NoReceipt
    /\ q.pc \notin XAfter \cup {"inspect"} => sent = 0
    /\ sent # 0 => handed = 1
    /\ receipt.calls = {0} => sent = 0
    /\ receipt.reads = {0} => handed = 0
    /\ receipt.reads = {1} => handed = 1

\* What the ledger and the evidence say while an executor is at a place.
PlaneHolds(pc, ledger, evidence) ==
    /\ pc \notin XUnchecked => evidence.terminal = "none"
    /\ pc \in XReserved => ledger.status = "reserved"
    /\ pc \in {"intended", "marked"} => evidence.intent
    /\ pc = "marked" => ledger.started

\* A request that was sent was announced, and nothing denies it.
Announced(ledger, evidence) ==
    /\ ledger.started /\ evidence.intent
    /\ evidence.terminal # "NOT_SENT" /\ ledger.status # "released"

XInv ==
    /\ xRun \in [Wrappers -> XRun] /\ xReceipt \in [Wrappers -> XReceipt]
    /\ xSent \in [Wrappers -> {0, 1}] /\ xHandoffs \in [Wrappers -> {0, 1}]
    /\ xLedger \in XLedger /\ xEvidence \in XEvidence
    /\ \A v, w \in Wrappers : Executing(v) /\ Executing(w) => v = w
    /\ \A v, w \in Wrappers : xHandoffs[v] = 1 /\ xHandoffs[w] = 1 => v = w
    /\ ~xSpent => Never(xHandoffs)
    /\ \A w \in Wrappers : RunHolds(xRun[w], xSent[w], xHandoffs[w], xReceipt[w])
    /\ \A w \in Wrappers : PlaneHolds(xRun[w].pc, xLedger, xEvidence)
    /\ \A w \in Wrappers : xSent[w] # 0 => Announced(xLedger, xEvidence)
    /\ xRevoked = "early" => ~xEvidence.intent /\ \A w \in Wrappers : xRun[w].pc # "ready"

LEMMA PlaneStarts == ASSUME XInit PROVE XInv
<1>1. xRun \in [Wrappers -> XRun] /\ xReceipt \in [Wrappers -> XReceipt]
  BY DEF XInit, XRun, XReceipt, XPcs, XBefore, NoReceipt, NoClaim
<1>2. /\ xSent \in [Wrappers -> {0, 1}] /\ xHandoffs \in [Wrappers -> {0, 1}]
      /\ xLedger \in XLedger /\ xEvidence \in XEvidence /\ Never(xHandoffs)
  BY DEF XInit, XLedger, XEvidence, Never
<1>3. \A w \in Wrappers : RunHolds(xRun[w], xSent[w], xHandoffs[w], xReceipt[w])
  BY DEF XInit, RunHolds, XBefore, XDispatch, XReserved, XAfter, NoReceipt, NoClaim
<1>4. \A w \in Wrappers : xRun[w].pc = "idle" /\ ~Executing(w)
  BY DEF XInit, Executing, Outside
<1>5. \A w \in Wrappers : PlaneHolds(xRun[w].pc, xLedger, xEvidence)
  BY <1>4 DEF PlaneHolds, XUnchecked, Outside, XReserved
<1>6. /\ \A v, w \in Wrappers : xHandoffs[v] = 1 /\ xHandoffs[w] = 1 => v = w
      /\ \A w \in Wrappers : xSent[w] = 0
      /\ xRevoked = "no"
  BY DEF XInit
<1> QED  BY <1>1, <1>2, <1>3, <1>4, <1>5, <1>6 DEF XInv

\* A step of one wrapper: nobody else executes, or the wrapper does not and the
\* books stay.
LEMMA WrapperStep ==
    ASSUME XInv, NEW w \in Wrappers, NEW q \in XRun, xRun' = [xRun EXCEPT ![w] = q],
           \/ \A v \in Wrappers \ {w} : ~Executing(v)
           \/ q.pc \in Outside /\ UNCHANGED <<xLedger, xEvidence>>,
           xSent' \in [Wrappers -> {0, 1}], xReceipt' \in [Wrappers -> XReceipt],
           \A v \in Wrappers \ {w} : xSent'[v] = xSent[v] /\ xReceipt'[v] = xReceipt[v],
           UNCHANGED <<xHandoffs, xSpent, xRevoked>>,
           xLedger' \in XLedger, xEvidence' \in XEvidence,
           RunHolds(q, xSent'[w], xHandoffs[w], xReceipt'[w]),
           PlaneHolds(q.pc, xLedger', xEvidence'),
           \A v \in Wrappers : xSent'[v] # 0 => Announced(xLedger', xEvidence'),
           xRevoked = "early" => ~xEvidence'.intent /\ q.pc # "ready"
    PROVE  XInv'
<1>1. xRun' \in [Wrappers -> XRun] /\ xRun'[w] = q
      /\ \A v \in Wrappers \ {w} : xRun'[v] = xRun[v]
  BY DEF XInv
<1>2. \A u, v \in Wrappers :
         xRun'[u].pc \notin Outside /\ xRun'[v].pc \notin Outside => u = v
  BY <1>1 DEF XInv, Executing
<1>3. \A v \in Wrappers : RunHolds(xRun'[v], xSent'[v], xHandoffs'[v], xReceipt'[v])
  BY <1>1 DEF XInv
<1>4. \A v \in Wrappers : PlaneHolds(xRun'[v].pc, xLedger', xEvidence')
  <2> SUFFICES ASSUME NEW v \in Wrappers \ {w} PROVE PlaneHolds(xRun[v].pc, xLedger', xEvidence')
    BY <1>1
  <2>1. CASE xRun[v].pc \in Outside
    BY <2>1 DEF PlaneHolds, XUnchecked, Outside, XReserved
  <2>2. CASE UNCHANGED <<xLedger, xEvidence>>
    BY <2>2 DEF XInv
  <2> QED  BY <2>1, <2>2 DEF Executing
<1> QED  BY <1>1, <1>2, <1>3, <1>4 DEF XInv, Executing, Never

LEMMA StepIs ==
    ASSUME XInv, NEW w \in Wrappers, NEW pc \in XPcs, Step(w, pc)
    PROVE  LET q == [pc |-> pc, secret |-> xRun[w].secret, reads |-> xRun[w].reads]
           IN  /\ xRun' = [xRun EXCEPT ![w] = q] /\ q \in XRun
               /\ q.pc = pc /\ q.secret = xRun[w].secret /\ q.reads = xRun[w].reads
<1>1. xRun[w] \in XRun
  BY DEF XInv
<1>2. [xRun[w] EXCEPT !.pc = pc] = [pc |-> pc, secret |-> xRun[w].secret, reads |-> xRun[w].reads]
  BY <1>1 DEF XRun
<1>3. xRun' = [xRun EXCEPT ![w] = [xRun[w] EXCEPT !.pc = pc]]
  BY DEF Step
<1> QED  BY <1>1, <1>2, <1>3 DEF XRun

\* What is known of a wrapper, and of all the others while it executes.
LEMMA WrapperIs ==
    ASSUME XInv, NEW w \in Wrappers
    PROVE  /\ xRun[w] \in XRun /\ xReceipt \in [Wrappers -> XReceipt]
           /\ xSent \in [Wrappers -> {0, 1}] /\ xHandoffs \in [Wrappers -> {0, 1}]
           /\ xLedger \in XLedger /\ xEvidence \in XEvidence
           /\ RunHolds(xRun[w], xSent[w], xHandoffs[w], xReceipt[w])
           /\ PlaneHolds(xRun[w].pc, xLedger, xEvidence)
           /\ \A v \in Wrappers : xSent[v] # 0 => Announced(xLedger, xEvidence)
           /\ xRevoked = "early" => ~xEvidence.intent /\ xRun[w].pc # "ready"
           /\ Executing(w) => \A v \in Wrappers \ {w} : ~Executing(v)
           /\ xRun[w].pc \in XDispatch => \A v \in Wrappers \ {w} : xSent[v] = 0
<1>1. xRun[w].pc \in XDispatch => \A v \in Wrappers \ {w} : xSent[v] = 0
  <2> SUFFICES ASSUME xRun[w].pc \in XDispatch, NEW v \in Wrappers \ {w}, xSent[v] # 0
               PROVE  FALSE
    OBVIOUS
  <2>1. xHandoffs[w] = 1 /\ xHandoffs[v] = 1
    BY DEF XInv, RunHolds
  <2> QED  BY <2>1 DEF XInv
<1> QED  BY <1>1 DEF XInv

-----------------------------------------------------------------------------
\* A wrapper that goes on without touching the books.
LEMMA WrapperGoes ==
    ASSUME XInv, NEW w \in Wrappers, NEW pc \in XPcs, Step(w, pc),
           UNCHANGED <<xBooks, xRevoked>>,
           pc \in Outside \/ \A v \in Wrappers \ {w} : ~Executing(v),
           RunHolds([pc |-> pc, secret |-> xRun[w].secret, reads |-> xRun[w].reads],
                    xSent[w], xHandoffs[w], xReceipt[w]),
           PlaneHolds(pc, xLedger, xEvidence),
           pc = "ready" => xRevoked # "early"
    PROVE  XInv'
<1> DEFINE q == [pc |-> pc, secret |-> xRun[w].secret, reads |-> xRun[w].reads]
<1>1. xRun' = [xRun EXCEPT ![w] = q] /\ q \in XRun /\ q.pc = pc
  BY StepIs
<1>2. RunHolds(q, xSent'[w], xHandoffs[w], xReceipt'[w])
  BY DEF xBooks
<1> HIDE DEF q
<1>3. /\ xSent' \in [Wrappers -> {0, 1}] /\ xReceipt' \in [Wrappers -> XReceipt]
      /\ xLedger' \in XLedger /\ xEvidence' \in XEvidence
      /\ \A v \in Wrappers : xSent'[v] # 0 => Announced(xLedger', xEvidence')
      /\ PlaneHolds(q.pc, xLedger', xEvidence')
      /\ xRevoked = "early" => ~xEvidence'.intent /\ q.pc # "ready"
      /\ UNCHANGED <<xSent, xReceipt, xLedger, xEvidence, xHandoffs, xSpent, xRevoked>>
  BY <1>1, WrapperIs DEF xBooks
<1> QED  BY <1>1, <1>2, <1>3, WrapperStep

LEMMA OutsideSteps ==
    ASSUME XInv, NEW w \in Wrappers, StartWrapper(w) \/ ExecutorDies(w) \/ CleanUp(w)
    PROVE  XInv'
<1>1. PICK pc \in {"begun", "cleanup", "unlinking", "done"} :
         Step(w, pc) /\ (pc = "begun" => xRun[w].pc = "idle")
  BY DEF StartWrapper, ExecutorDies, CleanUp, IsAt
<1>2. UNCHANGED <<xBooks, xRevoked>>
  BY DEF StartWrapper, ExecutorDies, CleanUp, Rest, xHost
<1>3. pc \in XPcs /\ pc \in Outside /\ pc # "ready"
  BY DEF XPcs, XBefore, XAfter, Outside
<1>4. PlaneHolds(pc, xLedger, xEvidence)
  BY DEF PlaneHolds, XUnchecked, Outside, XReserved
<1>5. xRun[w] \in XRun /\ RunHolds(xRun[w], xSent[w], xHandoffs[w], xReceipt[w])
  BY WrapperIs
<1>7. RunHolds([pc |-> pc, secret |-> xRun[w].secret, reads |-> xRun[w].reads],
               xSent[w], xHandoffs[w], xReceipt[w])
  BY <1>1, <1>5 DEF RunHolds, XBefore, XDispatch, XReserved, XAfter
<1> QED  BY <1>1, <1>2, <1>3, <1>4, <1>7, WrapperGoes

LEMMA EnterPlaneKeeps == ASSUME XInv, NEW w \in Wrappers, EnterPlane(w) PROVE XInv'
<1>1. xRun[w].pc = "begun" /\ Step(w, "entered") /\ UNCHANGED <<xBooks, xRevoked>>
      /\ \A v \in Wrappers : ~Executing(v)
  BY DEF EnterPlane, IsAt, Rest, xHost
<1>2. RunHolds([pc |-> "entered", secret |-> xRun[w].secret, reads |-> xRun[w].reads],
               xSent[w], xHandoffs[w], xReceipt[w])
  BY <1>1, WrapperIs DEF RunHolds, XBefore, XDispatch, XReserved, XAfter
<1>3. PlaneHolds("entered", xLedger, xEvidence)
  BY DEF PlaneHolds, XUnchecked, Outside, XReserved
<1> QED  BY <1>1, <1>2, <1>3, WrapperGoes DEF XPcs, XBefore

LEMMA CheckOnlyKeeps == ASSUME XInv, NEW w \in Wrappers, CheckOnly(w) PROVE XInv'
<1>1. xRun[w].pc = "entered" /\ Step(w, "preflight") /\ UNCHANGED <<xBooks, xRevoked>>
      /\ xEvidence.terminal = "none"
  BY DEF CheckOnly, IsAt, Rest, xHost, Folder
<1>2. RunHolds([pc |-> "preflight", secret |-> xRun[w].secret, reads |-> xRun[w].reads],
               xSent[w], xHandoffs[w], xReceipt[w])
  BY <1>1, WrapperIs DEF RunHolds, XBefore, XDispatch, XReserved, XAfter
<1>3. PlaneHolds("preflight", xLedger, xEvidence) /\ Executing(w)
  BY <1>1 DEF PlaneHolds, XReserved, Executing, Outside
<1> QED  BY <1>1, <1>2, <1>3, WrapperIs, WrapperGoes DEF XPcs, XBefore

LEMMA BindingPreflightKeeps == ASSUME XInv, NEW w \in Wrappers, BindingPreflight(w) PROVE XInv'
<1>1. xRun[w].pc = "preflight" /\ Step(w, "bound") /\ UNCHANGED <<xBooks, xRevoked>>
  BY DEF BindingPreflight, IsAt, Rest, xHost
<1>2. RunHolds([pc |-> "bound", secret |-> xRun[w].secret, reads |-> xRun[w].reads],
               xSent[w], xHandoffs[w], xReceipt[w])
  BY <1>1, WrapperIs DEF RunHolds, XBefore, XDispatch, XReserved, XAfter
<1>3. PlaneHolds("bound", xLedger, xEvidence) /\ Executing(w)
  BY <1>1, WrapperIs DEF PlaneHolds, XReserved, Executing, Outside, XUnchecked
<1> QED  BY <1>1, <1>2, <1>3, WrapperIs, WrapperGoes DEF XPcs, XBefore

LEMMA FinalPreflightKeeps == ASSUME XInv, NEW w \in Wrappers, FinalPreflight(w) PROVE XInv'
<1>1. xRun[w].pc = "reserved" /\ Step(w, "ready") /\ UNCHANGED <<xBooks, xRevoked>>
      /\ xRevoked # "early"
  BY DEF FinalPreflight, IsAt, Rest, xHost, Qualified
<1>2. RunHolds([pc |-> "ready", secret |-> xRun[w].secret, reads |-> xRun[w].reads],
               xSent[w], xHandoffs[w], xReceipt[w])
  BY <1>1, WrapperIs DEF RunHolds, XBefore, XDispatch, XReserved, XAfter
<1>3. PlaneHolds("ready", xLedger, xEvidence) /\ Executing(w)
  BY <1>1, WrapperIs DEF PlaneHolds, XReserved, Executing, Outside, XUnchecked
<1> QED  BY <1>1, <1>2, <1>3, WrapperIs, WrapperGoes DEF XPcs, XDispatch, XReserved

LEMMA StopCallKeeps == ASSUME XInv, NEW w \in Wrappers, StopCall(w) PROVE XInv'
<1>1. xRun[w].pc \in {"reserved", "ready", "marked"} /\ Step(w, "inspect")
      /\ UNCHANGED <<xBooks, xRevoked>>
  BY DEF StopCall, Rest, xHost
<1>2. RunHolds([pc |-> "inspect", secret |-> xRun[w].secret, reads |-> xRun[w].reads],
               xSent[w], xHandoffs[w], xReceipt[w])
  BY <1>1, WrapperIs DEF RunHolds, XBefore, XDispatch, XReserved, XAfter
<1>3. PlaneHolds("inspect", xLedger, xEvidence) /\ Executing(w)
  BY <1>1, WrapperIs DEF PlaneHolds, XReserved, Executing, Outside, XUnchecked
<1> QED  BY <1>1, <1>2, <1>3, WrapperIs, WrapperGoes DEF XPcs, XDispatch

LEMMA RefuseExecutionKeeps == ASSUME XInv, NEW w \in Wrappers, RefuseExecution(w) PROVE XInv'
<1> DEFINE q == [pc |-> "cleanup", secret |-> xRun[w].secret, reads |-> xRun[w].reads]
           receipt == [calls |-> {0}, reads |-> xRun[w].reads, consumed |-> {0}]
<1>1. /\ xRun[w].pc \in {"begun", "entered"} /\ Step(w, "cleanup")
      /\ xReceipt' = [xReceipt EXCEPT ![w] = receipt]
      /\ UNCHANGED <<xLedger, xSpent, xEvidence, xSent, xHandoffs, xRevoked>>
  BY DEF RefuseExecution, Blocked, Rest, xHost
<1>2. xRun' = [xRun EXCEPT ![w] = q] /\ q \in XRun /\ q.pc = "cleanup"
  BY <1>1, StepIs DEF XPcs, XAfter
<1>3. xRun[w].reads = {0} /\ xHandoffs[w] = 0 /\ xSent[w] = 0
  BY <1>1, WrapperIs DEF RunHolds, XBefore, XAfter
<1>4. receipt \in XReceipt /\ receipt.calls = {0} /\ receipt.reads = {0}
  BY <1>3 DEF XReceipt
<1> HIDE DEF q, receipt
<1>5. /\ xReceipt' \in [Wrappers -> XReceipt] /\ xReceipt'[w] = receipt
      /\ \A v \in Wrappers \ {w} : xReceipt'[v] = xReceipt[v]
  BY <1>1, <1>4, WrapperIs
<1>6. RunHolds(q, xSent'[w], xHandoffs[w], xReceipt'[w])
  BY <1>1, <1>2, <1>3, <1>4, <1>5 DEF RunHolds, XBefore, XDispatch, XReserved, XAfter
<1>7. PlaneHolds(q.pc, xLedger', xEvidence') /\ q.pc \in Outside
  BY <1>2 DEF PlaneHolds, XUnchecked, Outside, XReserved
<1>8. /\ xSent' \in [Wrappers -> {0, 1}] /\ xLedger' \in XLedger /\ xEvidence' \in XEvidence
      /\ \A v \in Wrappers : xSent'[v] # 0 => Announced(xLedger', xEvidence')
      /\ xRevoked = "early" => ~xEvidence'.intent /\ q.pc # "ready"
  BY <1>1, <1>2, WrapperIs
<1> QED  BY <1>1, <1>2, <1>5, <1>6, <1>7, <1>8, WrapperStep

-----------------------------------------------------------------------------
\* An executor that goes on and writes in the ledger or the evidence.
LEMMA ExecutorWrites ==
    ASSUME XInv, NEW w \in Wrappers, Executing(w), NEW pc \in XPcs, Step(w, pc),
           UNCHANGED <<xReceipt, xSent, xHandoffs, xSpent, xRevoked>>,
           xLedger' \in XLedger, xEvidence' \in XEvidence,
           RunHolds([pc |-> pc, secret |-> xRun[w].secret, reads |-> xRun[w].reads],
                    xSent[w], xHandoffs[w], xReceipt[w]),
           PlaneHolds(pc, xLedger', xEvidence'),
           \A v \in Wrappers : xSent[v] # 0 => Announced(xLedger', xEvidence'),
           xRevoked = "early" => ~xEvidence'.intent /\ pc # "ready"
    PROVE  XInv'
<1> DEFINE q == [pc |-> pc, secret |-> xRun[w].secret, reads |-> xRun[w].reads]
<1>1. xRun' = [xRun EXCEPT ![w] = q] /\ q \in XRun /\ q.pc = pc
  BY StepIs
<1>2. RunHolds(q, xSent'[w], xHandoffs[w], xReceipt'[w])
  OBVIOUS
<1> HIDE DEF q
<1>3. /\ xSent' \in [Wrappers -> {0, 1}] /\ xReceipt' \in [Wrappers -> XReceipt]
      /\ \A v \in Wrappers \ {w} :
            ~Executing(v) /\ xSent'[v] = xSent[v] /\ xReceipt'[v] = xReceipt[v]
  BY WrapperIs
<1> QED  BY <1>1, <1>2, <1>3, WrapperStep

\* An executor that ends with a receipt.
LEMMA ExecutorEnds ==
    ASSUME XInv, NEW w \in Wrappers, Executing(w), Step(w, "cleanup"),
           NEW calls \in {{}, {0}, {1}}, NEW reads, reads = xRun[w].reads,
           xReceipt' = [xReceipt EXCEPT ![w] = [calls |-> calls, reads |-> reads, consumed |-> calls]],
           UNCHANGED <<xSent, xHandoffs, xSpent, xRevoked>>,
           xLedger' \in XLedger, xEvidence' \in XEvidence,
           calls = {0} => xSent[w] = 0,
           \A v \in Wrappers : xSent[v] # 0 => Announced(xLedger', xEvidence'),
           xRevoked = "early" => ~xEvidence'.intent
    PROVE  XInv'
<1> DEFINE q == [pc |-> "cleanup", secret |-> xRun[w].secret, reads |-> xRun[w].reads]
           receipt == [calls |-> calls, reads |-> reads, consumed |-> calls]
<1>1. xRun' = [xRun EXCEPT ![w] = q] /\ q \in XRun /\ q.pc = "cleanup"
  BY StepIs DEF XPcs, XAfter
<1>2. xRun[w] \in XRun /\ xRun[w].pc \notin XAfter
  BY WrapperIs DEF Executing, Outside, XAfter
<1>3. receipt \in XReceipt /\ receipt.calls = calls /\ receipt.reads = reads
  BY <1>2 DEF XReceipt, XRun
<1> HIDE DEF q, receipt
<1>4. /\ xReceipt' \in [Wrappers -> XReceipt] /\ xReceipt'[w] = receipt
      /\ \A v \in Wrappers \ {w} : xReceipt'[v] = xReceipt[v]
  BY <1>3, WrapperIs DEF receipt
<1>5. /\ reads = {0} => xHandoffs[w] = 0
      /\ reads = {1} => xHandoffs[w] = 1
      /\ xSent[w] # 0 => xHandoffs[w] = 1
  <2>1. RunHolds(xRun[w], xSent[w], xHandoffs[w], xReceipt[w])
    BY WrapperIs
  <2>2. xRun[w].pc \in XBefore \cup {"asked"} \cup XDispatch
    BY <1>2 DEF XRun, XPcs
  <2>3. {0} # {1} /\ {0} # {} /\ {1} # {}
    OBVIOUS
  <2> QED  BY <2>1, <2>2, <2>3 DEF RunHolds
<1>6. RunHolds(q, xSent'[w], xHandoffs[w], xReceipt'[w])
  BY <1>1, <1>3, <1>4, <1>5 DEF RunHolds, XBefore, XDispatch, XReserved, XAfter
<1>7. PlaneHolds(q.pc, xLedger', xEvidence') /\ q.pc # "ready"
  BY <1>1 DEF PlaneHolds, XUnchecked, Outside, XReserved
<1>8. xSent' \in [Wrappers -> {0, 1}] /\ \A v \in Wrappers \ {w} : ~Executing(v)
  BY WrapperIs
<1> QED  BY <1>1, <1>4, <1>6, <1>7, <1>8, WrapperStep

LEMMA SealedIs ==
    ASSUME XInv, NEW t \in {"UNKNOWN", "NOT_SENT", "POSSIBLY_SENT"}
    PROVE  /\ Sealed(t) \in XEvidence /\ Sealed(t).intent = xEvidence.intent
           /\ Sealed(t).terminal \in {xEvidence.terminal, t}
<1>1. xEvidence \in XEvidence
  BY DEF XInv
<1> QED  BY <1>1 DEF Sealed, XEvidence

\* An exception leaves the runner; the ledger may have been settled.
LEMMA EscapeKeeps ==
    ASSUME XInv, NEW w \in Wrappers, Executing(w), Escape(w),
           UNCHANGED <<xSent, xHandoffs, xSpent, xRevoked>>,
           xLedger' \in XLedger,
           \A v \in Wrappers : xSent[v] # 0 => xLedger'.started /\ xLedger'.status # "released"
    PROVE  XInv'
<1>1. /\ xEvidence' = Sealed(Ambiguous) /\ Step(w, "cleanup")
      /\ xReceipt' = [xReceipt EXCEPT ![w] = [calls |-> Interrupted(w), reads |-> xRun[w].reads,
                                              consumed |-> Interrupted(w)]]
  BY DEF Escape
<1>2. Ambiguous = IF xEvidence.intent THEN "UNKNOWN" ELSE "NOT_SENT"
  BY DEF Ambiguous
<1>3. /\ xEvidence' \in XEvidence /\ xEvidence'.intent = xEvidence.intent
      /\ xEvidence'.terminal \in {xEvidence.terminal, Ambiguous}
  BY <1>1, <1>2, SealedIs
<1>4. \A v \in Wrappers : xSent[v] # 0 => Announced(xLedger', xEvidence')
  BY <1>2, <1>3, WrapperIs DEF Announced
<1>5. Interrupted(w) \in {{}, {0}, {1}}
  BY DEF Interrupted, NoClaim
<1>6. Interrupted(w) = {0} => xSent[w] = 0
  <2>1. xRun[w].pc \notin XAfter
    BY DEF Executing, Outside, XAfter
  <2>2. Interrupted(w) = {0} => ~xRun[w].secret
    BY DEF Interrupted, NoClaim
  <2> QED  BY <2>1, <2>2, WrapperIs DEF RunHolds, XDispatch
<1>7. xRevoked = "early" => ~xEvidence'.intent
  BY <1>3, WrapperIs
<1> HIDE DEF Interrupted
<1> QED  BY <1>1, <1>3, <1>4, <1>5, <1>6, <1>7, ExecutorEnds

\* The runner returns.
LEMMA ReturnKeeps ==
    ASSUME XInv, NEW w \in Wrappers, Executing(w),
           NEW terminal \in {"NOT_SENT", "POSSIBLY_SENT"}, NEW calls \in {{}, {0}, {1}},
           Return(w, terminal, calls), UNCHANGED <<xSent, xHandoffs, xSpent, xRevoked>>,
           xLedger' \in XLedger, calls = {0} => xSent[w] = 0,
           \A v \in Wrappers : xSent[v] # 0 =>
              xLedger'.started /\ xLedger'.status # "released" /\ terminal # "NOT_SENT"
    PROVE  XInv'
<1>1. /\ xEvidence' \in {Sealed(terminal), xEvidence} /\ Step(w, "cleanup")
      /\ xReceipt' = [xReceipt EXCEPT ![w] = [calls |-> calls, reads |-> xRun[w].reads,
                                              consumed |-> calls]]
  BY DEF Return
<1>2. /\ xEvidence' \in XEvidence /\ xEvidence'.intent = xEvidence.intent
      /\ xEvidence'.terminal \in {xEvidence.terminal, terminal}
  BY <1>1, SealedIs, WrapperIs
<1>3. \A v \in Wrappers : xSent[v] # 0 => Announced(xLedger', xEvidence')
  BY <1>2, WrapperIs DEF Announced
<1>4. xRevoked = "early" => ~xEvidence'.intent
  BY <1>2, WrapperIs
<1> QED  BY <1>1, <1>2, <1>3, <1>4, ExecutorEnds

-----------------------------------------------------------------------------
LEMMA FailsEarlyKeeps == ASSUME XInv, NEW w \in Wrappers, FailsEarly(w) PROVE XInv'
<1>1. /\ Executing(w) /\ Escape(w)
      /\ UNCHANGED <<xLedger, xSent, xHandoffs, xSpent, xRevoked>>
  BY DEF FailsEarly, Executing, Outside, Rest, xHost
<1>2. /\ xLedger' \in XLedger
      /\ \A v \in Wrappers : xSent[v] # 0 => xLedger'.started /\ xLedger'.status # "released"
  BY <1>1, WrapperIs DEF Announced
<1> QED  BY <1>1, <1>2, EscapeKeeps

LEMMA ArmKeeps == ASSUME XInv, NEW w \in Wrappers, Arm(w) PROVE XInv'
<1>1. /\ xRun[w].pc = "bound" /\ Executing(w) /\ Step(w, "armed")
      /\ xEvidence' = [xEvidence EXCEPT !.armed = TRUE]
      /\ UNCHANGED <<xLedger, xReceipt, xSent, xHandoffs, xSpent, xRevoked>>
  BY DEF Arm, IsAt, Executing, Outside, Rest, xHost
<1>2. /\ xEvidence' \in XEvidence /\ xEvidence'.intent = xEvidence.intent
      /\ xEvidence'.terminal = xEvidence.terminal
  BY <1>1, WrapperIs DEF XEvidence
<1>3. PlaneHolds("armed", xLedger', xEvidence')
  BY <1>1, <1>2, WrapperIs DEF PlaneHolds, XUnchecked, Outside, XReserved
<1>4. RunHolds([pc |-> "armed", secret |-> xRun[w].secret, reads |-> xRun[w].reads],
               xSent[w], xHandoffs[w], xReceipt[w])
  BY <1>1, WrapperIs DEF RunHolds, XBefore, XDispatch, XReserved, XAfter
<1>5. /\ xLedger' \in XLedger
      /\ xRevoked = "early" => ~xEvidence'.intent
      /\ \A v \in Wrappers : xSent[v] # 0 => Announced(xLedger', xEvidence')
  BY <1>1, <1>2, WrapperIs DEF Announced
<1>6. "armed" \in XPcs /\ "armed" # "ready"
  BY DEF XPcs, XBefore
<1> QED  BY <1>1, <1>2, <1>3, <1>4, <1>5, <1>6, ExecutorWrites

LEMMA AskResolverKeeps == ASSUME XInv, NEW w \in Wrappers, AskResolver(w) PROVE XInv'
<1> DEFINE q == [pc |-> "asked", secret |-> xRun[w].secret, reads |-> {}]
<1>1. /\ xRun[w].pc = "armed" /\ Executing(w) /\ UNCHANGED <<xBooks, xRevoked>>
      /\ xRun' = [xRun EXCEPT ![w].pc = "asked", ![w].reads = {}]
  BY DEF AskResolver, IsAt, Executing, Outside, Rest, xHost, NoClaim
<1>2. xRun[w] \in XRun /\ xRun \in [Wrappers -> XRun]
  BY DEF XInv
<1>3. xRun' = [xRun EXCEPT ![w] = q]
  <2>1. xRun' = [xRun EXCEPT ![w] = [[xRun[w] EXCEPT !.pc = "asked"] EXCEPT !.reads = {}]]
    BY <1>1, <1>2
  <2>2. [xRun[w] EXCEPT !.pc = "asked"]
           = [pc |-> "asked", secret |-> xRun[w].secret, reads |-> xRun[w].reads]
    BY <1>2 DEF XRun
  <2>3. [[pc |-> "asked", secret |-> xRun[w].secret, reads |-> xRun[w].reads]
            EXCEPT !.reads = {}] = q
    OBVIOUS
  <2> QED  BY <2>1, <2>2, <2>3
<1>4. q \in XRun /\ q.pc = "asked" /\ q.reads = {} /\ q.secret = xRun[w].secret
  BY <1>2 DEF XRun, XPcs
<1> HIDE DEF q
<1>5. RunHolds(q, xSent'[w], xHandoffs[w], xReceipt'[w])
  BY <1>1, <1>4, WrapperIs DEF RunHolds, XBefore, XDispatch, XReserved, XAfter, xBooks
<1>6. PlaneHolds(q.pc, xLedger', xEvidence')
  BY <1>1, <1>4, WrapperIs DEF PlaneHolds, XUnchecked, Outside, XReserved, xBooks
<1>7. /\ xSent' \in [Wrappers -> {0, 1}] /\ xReceipt' \in [Wrappers -> XReceipt]
      /\ xLedger' \in XLedger /\ xEvidence' \in XEvidence
      /\ \A v \in Wrappers : xSent'[v] # 0 => Announced(xLedger', xEvidence')
      /\ xRevoked = "early" => ~xEvidence'.intent /\ q.pc # "ready"
      /\ \A v \in Wrappers \ {w} :
            ~Executing(v) /\ xSent'[v] = xSent[v] /\ xReceipt'[v] = xReceipt[v]
      /\ UNCHANGED <<xHandoffs, xSpent, xRevoked>>
  BY <1>1, <1>4, WrapperIs DEF xBooks
<1> QED  BY <1>3, <1>4, <1>5, <1>6, <1>7, WrapperStep

\* The first hand-over of the credential is the only one.
LEMMA ResolveKeeps == ASSUME XInv, NEW w \in Wrappers, Resolve(w) PROVE XInv'
<1>1. /\ xRun[w].pc = "asked" /\ ~xSpent /\ xSpent' = TRUE
      /\ UNCHANGED <<xLedger, xEvidence, xReceipt, xSent, xRevoked>>
  BY DEF Resolve, IsAt, Unspent, Rest, xHost
<1>2. \A v \in Wrappers : xHandoffs[v] = 0 /\ xSent[v] = 0
  BY <1>1 DEF XInv, Never, RunHolds
<1>3. PICK n \in {0, 1} :
         /\ xHandoffs' = [xHandoffs EXCEPT ![w] = @ + n]
         /\ \/ UNCHANGED xRun
            \/ /\ n = 1
               /\ xRun' = [xRun EXCEPT ![w].pc = "resolved", ![w].reads = {1}, ![w].secret = TRUE]
  BY DEF Resolve
<1>4. xHandoffs' = [xHandoffs EXCEPT ![w] = n]
  <2>1. xHandoffs[w] + n = n
    BY <1>2
  <2> QED  BY <1>3, <2>1
<1>5. /\ xHandoffs' \in [Wrappers -> {0, 1}] /\ xHandoffs'[w] = n
      /\ \A v \in Wrappers \ {w} : xHandoffs'[v] = xHandoffs[v]
      /\ \A u, v \in Wrappers : xHandoffs'[u] = 1 /\ xHandoffs'[v] = 1 => u = v
  BY <1>2, <1>4 DEF XInv
<1>6. \A v \in Wrappers \ {w} : RunHolds(xRun[v], xSent'[v], xHandoffs'[v], xReceipt'[v])
  BY <1>1, <1>5 DEF XInv
<1>7. CASE UNCHANGED xRun
  <2>1. RunHolds(xRun'[w], xSent'[w], xHandoffs'[w], xReceipt'[w])
    <3>1. /\ RunHolds(xRun[w], xSent[w], xHandoffs[w], xReceipt[w]) /\ xReceipt[w] = NoReceipt
          /\ NoReceipt.reads = {} /\ NoReceipt.calls = {}
      BY <1>1, WrapperIs DEF RunHolds, XAfter, NoReceipt, NoClaim
    <3> QED  BY <1>1, <1>2, <1>7, <3>1 DEF RunHolds, XBefore, XDispatch, XReserved
  <2>2. \A v \in Wrappers : PlaneHolds(xRun'[v].pc, xLedger', xEvidence')
    BY <1>1, <1>7 DEF XInv
  <2> QED  BY <1>1, <1>5, <1>6, <1>7, <2>1, <2>2 DEF XInv, Executing
<1>8. CASE /\ n = 1
           /\ xRun' = [xRun EXCEPT ![w].pc = "resolved", ![w].reads = {1}, ![w].secret = TRUE]
  <2> DEFINE q1 == [xRun[w] EXCEPT !.pc = "resolved"]
             q2 == [q1 EXCEPT !.reads = {1}]
             q == [q2 EXCEPT !.secret = TRUE]
  <2>1. xRun[w] \in XRun /\ xRun \in [Wrappers -> XRun]
    BY DEF XInv
  <2>2. q1 \in XRun /\ q1.pc = "resolved"
    BY <2>1 DEF XRun, XPcs, XDispatch
  <2>3. xRun' = [xRun EXCEPT ![w] = q]
    BY <1>8, <2>1
  <2> HIDE DEF q1
  <2>4. q2 \in XRun /\ q2.pc = "resolved" /\ q2.reads = {1}
    BY <2>2 DEF XRun
  <2> HIDE DEF q2
  <2>13. q \in XRun /\ q.pc = "resolved" /\ q.reads = {1} /\ q.secret
    BY <2>4 DEF XRun
  <2> HIDE DEF q
  <2>5. /\ xRun' \in [Wrappers -> XRun] /\ xRun'[w] = q
        /\ \A v \in Wrappers \ {w} : xRun'[v] = xRun[v]
    BY <2>1, <2>3, <2>13
  <2>6. RunHolds(q, xSent'[w], xHandoffs'[w], xReceipt'[w])
    <3>1. xReceipt[w] = NoReceipt /\ NoReceipt.reads = {} /\ NoReceipt.calls = {}
      BY <1>1, WrapperIs DEF RunHolds, XAfter, NoReceipt, NoClaim
    <3> QED  BY <1>1, <1>2, <1>5, <1>8, <2>13, <3>1
             DEF RunHolds, XBefore, XDispatch, XReserved, XAfter
  <2>7. PlaneHolds(q.pc, xLedger', xEvidence')
    BY <1>1, <2>13, WrapperIs DEF PlaneHolds, XUnchecked, Outside, XReserved
  <2>8. \A v \in Wrappers : PlaneHolds(xRun'[v].pc, xLedger', xEvidence')
    BY <1>1, <2>5, <2>7 DEF XInv
  <2>9. /\ \A v \in Wrappers \ {w} : ~Executing(v)
        /\ \A u, v \in Wrappers : xRun'[u].pc \notin Outside /\ xRun'[v].pc \notin Outside => u = v
    BY <1>1, <2>5, WrapperIs DEF Executing, Outside
  <2>10. \A v \in Wrappers : RunHolds(xRun'[v], xSent'[v], xHandoffs'[v], xReceipt'[v])
    BY <1>6, <2>5, <2>6
  <2>11. /\ \A v \in Wrappers : xSent'[v] # 0 => Announced(xLedger', xEvidence')
         /\ xRevoked' = "early" => ~xEvidence'.intent /\ \A v \in Wrappers : xRun'[v].pc # "ready"
    BY <1>1, <2>5, <2>13 DEF XInv
  <2>12. /\ xReceipt' \in [Wrappers -> XReceipt] /\ xSent' \in [Wrappers -> {0, 1}]
         /\ xLedger' \in XLedger /\ xEvidence' \in XEvidence
    BY <1>1, WrapperIs
  <2> QED  BY <1>1, <1>5, <2>5, <2>8, <2>9, <2>10, <2>11, <2>12 DEF XInv, Executing
<1> QED  BY <1>3, <1>7, <1>8

\* A row of the ledger with its status or its marker set.
LEMMA LedgerSets ==
    ASSUME XInv, NEW status \in {"reserved", "released", "finished"}
    PROVE  /\ xLedger \in XLedger
           /\ [xLedger EXCEPT !.status = status] \in XLedger
           /\ [xLedger EXCEPT !.status = status].status = status
           /\ [xLedger EXCEPT !.status = status].started = xLedger.started
           /\ [xLedger EXCEPT !.started = TRUE] \in XLedger
           /\ [xLedger EXCEPT !.started = TRUE].started
           /\ [xLedger EXCEPT !.started = TRUE].status = xLedger.status
<1>1. xLedger \in XLedger
  BY DEF XInv
<1> QED  BY <1>1 DEF XLedger

LEMMA SettledIs ==
    ASSUME XInv
    PROVE  /\ Settled \in XLedger /\ Settled.started = xLedger.started
           /\ xLedger.started => Settled.status = "finished"
BY LedgerSets DEF Settled

LEMMA ReserveOperationKeeps == ASSUME XInv, NEW w \in Wrappers, ReserveOperation(w) PROVE XInv'
<1>1. /\ xRun[w].pc = "resolved" /\ Executing(w) /\ xRun[w].pc \in XDispatch
      /\ UNCHANGED <<xEvidence, xReceipt, xSent, xHandoffs, xSpent, xRevoked>>
  BY DEF ReserveOperation, IsAt, Executing, Outside, XDispatch, Rest, xHost
<1>2. \A v \in Wrappers : xSent[v] = 0
  BY <1>1, WrapperIs DEF RunHolds, XAfter
<1>3. PICK pc \in {"reserved", "reconcile"} :
         /\ Step(w, pc)
         /\ xLedger' \in {xLedger, [xLedger EXCEPT !.status = "reserved"]}
         /\ pc = "reserved" => xLedger' = [xLedger EXCEPT !.status = "reserved"]
  BY DEF ReserveOperation
<1>4. xLedger' \in XLedger /\ (pc = "reserved" => xLedger'.status = "reserved")
  BY <1>3, LedgerSets
<1>5. PlaneHolds(pc, xLedger', xEvidence')
  BY <1>1, <1>4, WrapperIs DEF PlaneHolds, XUnchecked, Outside, XReserved
<1>6. RunHolds([pc |-> pc, secret |-> xRun[w].secret, reads |-> xRun[w].reads],
               xSent[w], xHandoffs[w], xReceipt[w])
  BY <1>1, WrapperIs DEF RunHolds, XBefore, XDispatch, XReserved, XAfter
<1>7. /\ pc \in XPcs /\ pc # "ready" /\ xEvidence' \in XEvidence
      /\ xRevoked = "early" => ~xEvidence'.intent
      /\ \A v \in Wrappers : xSent[v] # 0 => Announced(xLedger', xEvidence')
  BY <1>1, <1>2, WrapperIs DEF XPcs, XDispatch, XReserved
<1> QED  BY <1>1, <1>3, <1>4, <1>5, <1>6, <1>7, ExecutorWrites

LEMMA ReconcileKeeps == ASSUME XInv, NEW w \in Wrappers, Reconcile(w) PROVE XInv'
<1>1. /\ xRun[w].pc = "reconcile" /\ Executing(w) /\ xRun[w].pc \in XDispatch
      /\ UNCHANGED <<xSent, xHandoffs, xSpent, xRevoked>>
  BY DEF Reconcile, IsAt, Executing, Outside, XDispatch, Rest, xHost
<1>2. \A v \in Wrappers : xSent[v] = 0
  BY <1>1, WrapperIs DEF RunHolds, XAfter
<1>3. PICK calls \in {{}, {0}} : Return(w, "NOT_SENT", calls)
  BY DEF Reconcile, NoClaim
<1>4. xLedger' \in XLedger
  BY LedgerSets DEF Reconcile
<1> QED  BY <1>1, <1>2, <1>3, <1>4, ReturnKeeps

LEMMA WriteIntentKeeps == ASSUME XInv, NEW w \in Wrappers, WriteIntent(w) PROVE XInv'
<1>1. /\ xRun[w].pc = "ready" /\ Executing(w) /\ xRun[w].pc \in XDispatch /\ Step(w, "intended")
      /\ xEvidence' = [xEvidence EXCEPT !.intent = TRUE]
      /\ UNCHANGED <<xLedger, xReceipt, xSent, xHandoffs, xSpent, xRevoked>>
  BY DEF WriteIntent, IsAt, Executing, Outside, XDispatch, XReserved, Rest, xHost
<1>2. \A v \in Wrappers : xSent[v] = 0
  BY <1>1, WrapperIs DEF RunHolds, XAfter
<1>3. xEvidence' \in XEvidence /\ xEvidence'.intent /\ xEvidence'.terminal = xEvidence.terminal
  BY <1>1, WrapperIs DEF XEvidence
<1>4. PlaneHolds("intended", xLedger', xEvidence')
  BY <1>1, <1>3, WrapperIs DEF PlaneHolds, XUnchecked, Outside, XReserved
<1>5. RunHolds([pc |-> "intended", secret |-> xRun[w].secret, reads |-> xRun[w].reads],
               xSent[w], xHandoffs[w], xReceipt[w])
  BY <1>1, WrapperIs DEF RunHolds, XBefore, XDispatch, XReserved, XAfter
<1>6. /\ "intended" \in XPcs /\ "intended" # "ready" /\ xLedger' \in XLedger
      /\ xRevoked # "early"
      /\ \A v \in Wrappers : xSent[v] # 0 => Announced(xLedger', xEvidence')
  BY <1>1, <1>2, WrapperIs DEF XPcs, XDispatch, XReserved
<1> QED  BY <1>1, <1>3, <1>4, <1>5, <1>6, ExecutorWrites

LEMMA MarkStartedKeeps == ASSUME XInv, NEW w \in Wrappers, MarkStarted(w) PROVE XInv'
<1>1. /\ xRun[w].pc = "intended" /\ Executing(w) /\ xRun[w].pc \in XDispatch
      /\ UNCHANGED <<xEvidence, xReceipt, xSent, xHandoffs, xSpent, xRevoked>>
  BY DEF MarkStarted, IsAt, Executing, Outside, XDispatch, XReserved, Rest, xHost
<1>2. \A v \in Wrappers : xSent[v] = 0
  BY <1>1, WrapperIs DEF RunHolds, XAfter
<1>3. PICK pc \in {"marked", "inspect"} :
         /\ Step(w, pc)
         /\ xLedger' \in {xLedger, [xLedger EXCEPT !.started = TRUE]}
         /\ pc = "marked" => xLedger' = [xLedger EXCEPT !.started = TRUE]
  BY DEF MarkStarted
<1>4. /\ xLedger' \in XLedger /\ xLedger'.status = xLedger.status
      /\ pc = "marked" => xLedger'.started
  BY <1>3, LedgerSets
<1>5. PlaneHolds(pc, xLedger', xEvidence')
  BY <1>1, <1>4, WrapperIs DEF PlaneHolds, XUnchecked, Outside, XReserved
<1>6. RunHolds([pc |-> pc, secret |-> xRun[w].secret, reads |-> xRun[w].reads],
               xSent[w], xHandoffs[w], xReceipt[w])
  BY <1>1, WrapperIs DEF RunHolds, XBefore, XDispatch, XReserved, XAfter
<1>7. /\ pc \in XPcs /\ pc # "ready" /\ xEvidence' \in XEvidence
      /\ xRevoked = "early" => ~xEvidence'.intent
      /\ \A v \in Wrappers : xSent[v] # 0 => Announced(xLedger', xEvidence')
  BY <1>1, <1>2, WrapperIs DEF XPcs, XDispatch, XReserved
<1> QED  BY <1>1, <1>3, <1>4, <1>5, <1>6, <1>7, ExecutorWrites

LEMMA SendRequestKeeps == ASSUME XInv, NEW w \in Wrappers, SendRequest(w) PROVE XInv'
<1> DEFINE q == [pc |-> "inspect", secret |-> xRun[w].secret, reads |-> xRun[w].reads]
<1>1. /\ xRun[w].pc = "marked" /\ Executing(w) /\ xRun[w].pc \in XDispatch /\ Step(w, "inspect")
      /\ xSent' = [xSent EXCEPT ![w] = @ + 1]
      /\ UNCHANGED <<xLedger, xEvidence, xReceipt, xHandoffs, xSpent, xRevoked>>
  BY DEF SendRequest, IsAt, Executing, Outside, XDispatch, XReserved, Rest, xHost
<1>2. /\ xSent[w] = 0 /\ xHandoffs[w] = 1 /\ xReceipt[w] = NoReceipt
      /\ xSent \in [Wrappers -> {0, 1}]
  BY <1>1, WrapperIs DEF RunHolds, XAfter
<1>3. /\ xSent' \in [Wrappers -> {0, 1}] /\ xSent'[w] = 1
      /\ \A v \in Wrappers \ {w} : xSent'[v] = xSent[v]
  BY <1>1, <1>2
<1>4. xRun' = [xRun EXCEPT ![w] = q] /\ q \in XRun
      /\ q.pc = "inspect" /\ q.secret = xRun[w].secret /\ q.reads = xRun[w].reads
  BY <1>1, StepIs DEF XPcs, XDispatch
<1> HIDE DEF q
<1>5. RunHolds(q, xSent'[w], xHandoffs[w], xReceipt'[w])
  <2>1. NoReceipt.calls = {} /\ NoReceipt.reads = {}
    BY DEF NoReceipt, NoClaim
  <2> QED  BY <1>1, <1>2, <1>3, <1>4, <2>1, WrapperIs
           DEF RunHolds, XBefore, XDispatch, XReserved, XAfter
<1>6. Announced(xLedger, xEvidence) /\ xEvidence.terminal = "none"
  BY <1>1, WrapperIs DEF PlaneHolds, Announced, XUnchecked, Outside, XReserved
<1>7. PlaneHolds(q.pc, xLedger', xEvidence')
  BY <1>1, <1>4, <1>6 DEF PlaneHolds, XUnchecked, Outside, XReserved
<1>8. /\ xReceipt' \in [Wrappers -> XReceipt] /\ xLedger' \in XLedger /\ xEvidence' \in XEvidence
      /\ \A v \in Wrappers : xSent'[v] # 0 => Announced(xLedger', xEvidence')
      /\ xRevoked = "early" => ~xEvidence'.intent /\ q.pc # "ready"
      /\ \A v \in Wrappers \ {w} : ~Executing(v) /\ xReceipt'[v] = xReceipt[v]
  BY <1>1, <1>4, <1>6, WrapperIs
<1> QED  BY <1>1, <1>3, <1>4, <1>5, <1>7, <1>8, WrapperStep

LEMMA InspectKeeps == ASSUME XInv, NEW w \in Wrappers, Inspect(w) PROVE XInv'
<1>1. /\ xRun[w].pc = "inspect" /\ Executing(w)
      /\ UNCHANGED <<xSent, xHandoffs, xSpent, xRevoked>>
  BY DEF Inspect, IsAt, Executing, Outside, Rest, xHost
<1>2. \A v \in Wrappers : xSent[v] # 0 =>
         /\ xLedger.started /\ xLedger.status # "released"
         /\ Settled.started /\ Settled.status # "released"
  BY SettledIs, WrapperIs DEF Announced
<1>3. xLedger' \in {xLedger, Settled} /\ xLedger' \in XLedger
  BY SettledIs, WrapperIs DEF Inspect
<1>4. \A v \in Wrappers : xSent[v] # 0 => xLedger'.started /\ xLedger'.status # "released"
  BY <1>2, <1>3
<1>5. CASE Escape(w)
  BY <1>1, <1>3, <1>4, <1>5, EscapeKeeps
<1>6. CASE Return(w, "NOT_SENT", {0}) /\ ~xLedger.started
  <2>1. \A v \in Wrappers : xSent[v] = 0
    BY <1>2, <1>6
  <2> QED  BY <1>1, <1>3, <1>6, <2>1, ReturnKeeps
<1>7. \A a, b \in Int : {a} = {b} => a = b
  OBVIOUS
<1>8. CASE Return(w, "POSSIBLY_SENT", {1})
  BY <1>1, <1>3, <1>4, <1>7, <1>8, ReturnKeeps
<1> QED  BY <1>5, <1>6, <1>8 DEF Inspect

LEMMA RevokeKeeps == ASSUME XInv, Revoke PROVE XInv'
<1>1. /\ xRevoked' = IF Committed THEN "late" ELSE "early"
      /\ UNCHANGED <<xRun, xBooks>>
  BY DEF Revoke
<1>2. xRevoked' = "early" => ~xEvidence.intent /\ \A w \in Wrappers : xRun[w].pc # "ready"
  BY <1>1 DEF Committed
<1> QED  BY <1>1, <1>2 DEF XInv, xBooks, Executing, Never

LEMMA PlaneKeeps == ASSUME XInv, [XNext]_xVars PROVE XInv'
<1>1. CASE UNCHANGED <<xRun, xBooks, xRevoked>>
  BY <1>1 DEF xBooks, XInv, Executing, Never
<1>2. CASE UNCHANGED xVars
  BY <1>1, <1>2 DEF xVars, xHost
<1>3. CASE \/ XTick \/ BeginActivation \/ OpenRole \/ PersistActive \/ StartSocket
           \/ UndoActivation \/ ActivatorDies \/ Failsafe
  BY <1>1, <1>3
  DEF XTick, BeginActivation, OpenRole, PersistActive, StartSocket, UndoActivation,
      ActivatorDies, Failsafe, xHost
<1> QED
  BY <1>2, <1>3, RevokeKeeps, OutsideSteps, EnterPlaneKeeps, CheckOnlyKeeps, RefuseExecutionKeeps,
     FailsEarlyKeeps, BindingPreflightKeeps, ArmKeeps, AskResolverKeeps, ResolveKeeps,
     ReserveOperationKeeps, ReconcileKeeps, FinalPreflightKeeps, WriteIntentKeeps, MarkStartedKeeps,
     StopCallKeeps, SendRequestKeeps, InspectKeeps
  DEF XNext

LEMMA PlaneInvariant == XSpec => []XInv
BY PlaneStarts, PlaneKeeps, PTL DEF XSpec

\* However wrappers overlap, processes die and answers are lost, one credential is
\* handed over, one request sent, announced before it, and what the receipts and
\* the evidence deny did not happen.
THEOREM PlaneTold == XSpec => []PlaneIsTold
<1>1. XInv => ClaimsAreTrue
  BY DEF XInv, RunHolds, ClaimsAreTrue, Announced, Never
<1>2. XInv => RevocationHolds
  BY DEF XInv, RevocationHolds, Announced, Never
<1>3. XInv => OneSecretOneRequest
  <2> SUFFICES ASSUME XInv PROVE OneSecretOneRequest
    OBVIOUS
  <2>1. xHandoffs \in [Wrappers -> {0, 1}] /\ xSent \in [Wrappers -> {0, 1}]
    BY DEF XInv
  <2>2. \A v, w \in Wrappers : xHandoffs[v] = 1 /\ xHandoffs[w] = 1 => v = w
    BY DEF XInv
  <2>3. \A w \in Wrappers : xSent[w] # 0 => xHandoffs[w] = 1 /\ Announced(xLedger, xEvidence)
    BY DEF XInv, RunHolds
  <2>4. ASSUME NEW w \in Wrappers, xHandoffs[w] # 0 PROVE Once(xHandoffs)
    BY <2>1, <2>2, <2>4 DEF Once
  <2>5. ASSUME NEW w \in Wrappers, xSent[w] # 0 PROVE Once(xSent) /\ Once(xHandoffs)
    <3>1. xHandoffs[w] = 1 /\ xSent[w] = 1
      BY <2>1, <2>3, <2>5
    <3>2. \A v \in Wrappers \ {w} : xSent[v] = 0
      BY <2>2, <2>3, <3>1
    <3> QED  BY <2>4, <3>1, <3>2 DEF Once
  <2> QED  BY <2>3, <2>4, <2>5 DEF OneSecretOneRequest, Never, Announced
<1> QED  BY <1>1, <1>2, <1>3, PlaneInvariant, PTL DEF PlaneIsTold

-----------------------------------------------------------------------------
(* Configuration: what the rules of Settings imply, and the invariant.     *)

WellFormed(s) ==
    /\ DOMAIN s = {"on"} \cup DOMAIN SettingChoices
    /\ \A c \in DOMAIN SettingChoices : s[c] \in SettingChoices[c]

\* The registry as the API with these settings has seeded it.
RegistryHolds(s, registry) ==
    /\ registry \ {"local", "s3"} = EnabledRows(s) \ {"local", "s3"}
    /\ s.storage \in registry

CInv ==
    /\ WellFormed(cEnv)
    /\ cApi = Off \/ (WellFormed(cApi) /\ Accepts(cApi) /\ RegistryHolds(cApi, cRegistry))
    /\ cWorker = Off \/ (Accepts(cWorker) /\ WorkerStarts(cWorker))

LEMMA ConfigurationStarts == ASSUME CInit PROVE CInv
BY ConfigurationConstants DEF CInit, CInv, WellFormed

LEMMA ConfigurationKeeps == ASSUME CInv, [CNext]_cVars PROVE CInv'
<1>1. CASE UNCHANGED cVars
  BY <1>1 DEF cVars, CInv
<1>2. ASSUME UNCHANGED <<cApi, cWorker, cRegistry>>,
             NEW c \in {"on"} \cup DOMAIN SettingChoices, NEW v,
             cEnv' = [cEnv EXCEPT ![c] = v],
             c \in DOMAIN SettingChoices => v \in SettingChoices[c]
      PROVE  CInv'
  <2>1. WellFormed(cEnv)
    BY DEF CInv
  <2>2. "on" \notin DOMAIN SettingChoices
    BY DEF SettingChoices
  <2>3. WellFormed(cEnv')
    BY <1>2, <2>1, <2>2 DEF WellFormed
  <2> QED  BY <1>2, <2>3 DEF CInv
<1>3. CASE Configure
  <2>1. UNCHANGED <<cApi, cWorker, cRegistry>>
    BY <1>3 DEF Configure
  <2>2. ASSUME NEW f \in Flags,
               cEnv' = [cEnv EXCEPT !.on = IF f \in @ THEN @ \ {f} ELSE @ \cup {f}]
        PROVE  CInv'
    <3> DEFINE on == IF f \in cEnv.on THEN cEnv.on \ {f} ELSE cEnv.on \cup {f}
    <3>1. cEnv' = [cEnv EXCEPT !["on"] = on]
      BY <2>2
    <3>2. "on" \notin DOMAIN SettingChoices
      BY DEF SettingChoices
    <3> HIDE DEF on
    <3> QED  BY <1>2, <2>1, <3>1, <3>2
  <2>3. ASSUME NEW c \in DOMAIN SettingChoices, NEW v \in SettingChoices[c] \ {cEnv[c]},
               cEnv' = [cEnv EXCEPT ![c] = v]
        PROVE  CInv'
    BY <1>2, <2>1, <2>3
  <2> QED  BY <1>3, <2>2, <2>3 DEF Configure
<1>4. CASE StartApi
  <2>1. CASE Accepts(cEnv)
    <3>1. cApi' = cEnv /\ cRegistry' = Seeded(cEnv) /\ UNCHANGED <<cEnv, cWorker>>
      BY <1>4, <2>1 DEF StartApi
    <3>2. RegistryHolds(cEnv, Seeded(cEnv))
      BY DEF RegistryHolds, Seeded, Undefined, EnabledRows
    <3> QED  BY <2>1, <3>1, <3>2 DEF CInv
  <2>2. CASE ~Accepts(cEnv)
    <3>1. cApi' = Off /\ UNCHANGED <<cEnv, cWorker, cRegistry>>
      BY <1>4, <2>2 DEF StartApi
    <3> QED  BY <3>1 DEF CInv
  <2> QED  BY <2>1, <2>2
<1>5. CASE StartWorker
  BY <1>5 DEF StartWorker, CInv
<1> QED  BY <1>1, <1>3, <1>4, <1>5 DEF CNext

LEMMA ConfigurationInvariant == CSpec => []CInv
BY ConfigurationStarts, ConfigurationKeeps, PTL DEF CSpec

\* The rules leave a bundle one paid adapter, with its limits, or those of vision
\* and the gate's.
LEMMA OnePaidAdapter ==
    ASSUME NEW s, GateRules(s), "bundle" \in s.on, NEW p \in PaidAdapters(s), p = s.gate
    PROVE  s.limits = IF p = "openai-vision" THEN "vision" ELSE "asr"
<1>1. IsFiniteSet(PaidAdapters(s))
  <2>1. \A a, b : IsFiniteSet({a}) /\ IsFiniteSet({}) /\ IsFiniteSet({a} \cup {b})
                  /\ IsFiniteSet({a} \cup {}) /\ IsFiniteSet({} \cup {b}) /\ IsFiniteSet({} \cup {})
    BY FS_EmptySet, FS_Singleton, FS_Union
  <2> QED  BY <2>1 DEF PaidAdapters
<1>2. PICK q : PaidAdapters(s) = {q}
  BY <1>1, FS_Singleton DEF GateRules
<1>3. p = q
  BY <1>2
<1>4. CASE s.vision = "openai"
  <2>1. "openai-vision" \in PaidAdapters(s)
    BY <1>4 DEF PaidAdapters
  <2> QED  BY <1>2, <1>3, <1>4, <2>1 DEF GateRules
<1>5. CASE s.vision # "openai"
  <2>1. p # "openai-vision"
    BY <1>5 DEF PaidAdapters
  <2> QED  BY <1>5, <2>1 DEF GateRules
<1> QED  BY <1>4, <1>5

LEMMA ApiIsGated ==
    ASSUME NEW s, Accepts(s), NEW p \in ApiCalls(s)
    PROVE  p = s.gate /\ s.limits = (IF p = "openai-vision" THEN "vision" ELSE "asr")
<1>1. p \in PaidAdapters(s) /\ p = s.gate /\ "bundle" \in s.on
  BY DEF ApiCalls, Allows, PolicyOf
<1> QED  BY <1>1, OnePaidAdapter DEF Accepts

LEMMA WorkerIsGated ==
    ASSUME NEW s, Accepts(s), WorkerStarts(s)
    PROVE  /\ WorkerCalls(s) # {} => All(s, {"bundle", "external", "paid"})
           /\ WorkerCalls(s) \cap {"openai-tts", "openai-audio"} # {} => "kill" \notin s.on
           /\ "comfyui" \notin WorkerCalls(s)
<1>1. MediaCalls(s) = {}
  BY DEF MediaCalls, Allows, FailClosed
<1>2. "external" \in s.on => All(s, {"bundle", "external", "paid"})
  BY DEF Accepts, GateRules, All
<1>3. PipelineVoice(s) # {} => "external" \in s.on /\ "kill" \notin s.on
  BY DEF PipelineVoice, Unlocked, All
<1>4. RenderVoice(s) # {} => "external" \in s.on /\ "kill" \notin s.on
  BY DEF RenderVoice, WorkerStarts, Unlocked, All
<1>5. WebhookCalls(s) # {} => "external" \in s.on
  <2>1. s.webhook = "http" => "webhookExternal" \in s.on
    BY DEF Accepts, WebhookRules
  <2>2. "webhookExternal" \in s.on => "external" \in s.on
    <3>1. Implies(s, {<<"paid", "external">>}
                  \cup ({"mediaExternal", "audioExternal", "publishExternal",
                         "analyticsExternal", "webhookExternal", "comfyui"} \X {"external"}))
      BY DEF Accepts, OperationRules
    <3>2. <<"webhookExternal", "external">> \in
             {"mediaExternal", "audioExternal", "publishExternal",
              "analyticsExternal", "webhookExternal", "comfyui"} \X {"external"}
      OBVIOUS
    <3>3. "webhookExternal" = <<"webhookExternal", "external">>[1]
          /\ "external" = <<"webhookExternal", "external">>[2]
      OBVIOUS
    <3> QED  BY <3>1, <3>2, <3>3 DEF Implies
  <2> QED  BY <2>1, <2>2 DEF WebhookCalls
<1>6. /\ PipelineVoice(s) \subseteq {"openai-tts"} /\ RenderVoice(s) \subseteq {"openai-audio"}
      /\ WebhookCalls(s) \subseteq {"webhook"}
  BY DEF PipelineVoice, RenderVoice, WebhookCalls
<1> QED  BY <1>1, <1>2, <1>3, <1>4, <1>5, <1>6 DEF WorkerCalls

LEMMA NoFixture ==
    ASSUME NEW s, Accepts(s), s.env = "production"
    PROVE  ApiFixtures(s) = {} /\ WorkerFixtures(s) = {}
<1>1. /\ s.asr # "fixture" /\ s.signals # "fixture" /\ s.vision # "fixture"
      /\ s.scanner # "fixture" /\ s.webhook # "fixture"
  BY DEF Accepts, FixtureRules, SpeechRules, StorageRules, WebhookRules, IsProduction, Nowhere
<1>2. s.stock # "fixture" /\ s.image # "fixture" /\ s.video # "fixture"
  BY DEF Accepts, FixtureRules, MediaRules, Nowhere
<1>3. s.on \cap {"trendFixture", "analyticsFixture"} = {} /\ s.on \cap {"analyticsFixture"} = {}
  BY DEF Accepts, FixtureRules, Nowhere
<1>4. Fixtures([asr |-> s.asr, signals |-> s.signals, vision |-> s.vision, scanner |-> s.scanner,
                stock |-> s.stock, image |-> s.image, video |-> s.video]) = {}
  BY <1>1, <1>2 DEF Fixtures
<1>5. Fixtures([stock |-> s.stock, image |-> s.image, video |-> s.video, webhook |-> s.webhook]) = {}
  BY <1>1, <1>2 DEF Fixtures
<1> QED  BY <1>3, <1>4, <1>5 DEF ApiFixtures, WorkerFixtures

\* The pipeline's voice is eligible exactly when the settings let it be used.
LEMMA VoiceIsEligible ==
    ASSUME cApi # Off, CInv
    PROVE  "openai-tts" \in Eligible(cApi) <=> PipelineVoice(cApi) # {}
<1>1. cApi.tts \in {"espeak", "openai"} /\ cApi.storage \in {"local", "s3"}
  BY DEF CInv, WellFormed, SettingChoices
<1>2. "openai-tts" \in cRegistry <=> "openai-tts" \in EnabledRows(cApi)
  BY DEF CInv, RegistryHolds
<1>3. "openai-tts" \notin {r[1] : r \in SelectedRows(cApi)}
  BY DEF SelectedRows
<1>4. "openai-tts" \in EnabledRows(cApi) <=> cApi.tts = "openai" /\ "openaiKey" \in cApi.on
  BY <1>1, <1>3 DEF EnabledRows
<1>5. "openai-tts" \in Eligible(cApi) <=>
         /\ "openai-tts" \in cRegistry
         /\ "external" \in cApi.on /\ "kill" \notin cApi.on /\ "bundle" \in cApi.on
  BY DEF Eligible, FixtureRows, ExternalRows, NeedsRights
<1>6. "external" \in cApi.on => "paid" \in cApi.on /\ "bundle" \in cApi.on
  BY DEF CInv, Accepts, GateRules, All
<1> QED  BY <1>2, <1>4, <1>5, <1>6 DEF PipelineVoice, Unlocked, All

\* Whatever the environment was changed to and whenever the processes started:
\* nothing calls out that the gate did not open, and production has no fixture.
THEOREM ConfigurationGated == CSpec => []WiringIsGated
<1>1. CInv => CallsAreGated
  BY ApiIsGated, WorkerIsGated DEF CInv, CallsAreGated
<1>2. CInv => FixturesStayOut
  BY NoFixture DEF CInv, FixturesStayOut
<1>3. CInv => RegistryIsCurrent
  BY VoiceIsEligible DEF CInv, RegistryIsCurrent, RegistryHolds
<1> QED  BY <1>1, <1>2, <1>3, ConfigurationInvariant, PTL DEF WiringIsGated

-----------------------------------------------------------------------------
(* Provider calls.                                                         *)

WTrace ==
    [pc : {"idle", "blocked", "attempting", "waiting", "done"}, attempt : Nat, day : WDays,
     phase : {"service_dispatch", "http_request_dispatch", "http_response_read"},
     state : {"not_started", "possibly_sent", "response_headers_received"},
     left : BOOLEAN, charged : Nat]

\* What the trace of a call says of its request, and what an attempt may have
\* been charged before.
TraceHolds(r, most) ==
    /\ r.phase = "service_dispatch" <=> r.state = "not_started"
    /\ r.state = "response_headers_received" <=> r.phase = "http_response_read"
    /\ r.phase = "service_dispatch" => ~r.left
    /\ r.phase = "http_response_read" => r.left
    /\ r.pc = "attempting" => r.attempt <= most /\ r.charged < r.attempt
    /\ r.pc = "waiting" => r.attempt < most /\ r.charged <= r.attempt
    /\ r.charged <= most

EvidenceHolds(a) ==
    /\ a.state \in {"not_started", "not_sent"} => ~a.left
    /\ a.state = "response_headers_received" => a.left

\* The record is of a call that goes on, or of one that is done after it.
RecordHolds(a, calls) ==
    /\ a.call \in WCalls /\ EvidenceHolds(a)
    /\ a.retryable \in BOOLEAN
    /\ a.retryable => calls[a.call].pc \in {"attempting", "waiting"}
    /\ ~a.retryable => calls[a.call].pc = "done" /\ a.attempt = calls[a.call].attempt

OpenRow(r, d) == r.pc \in {"attempting", "waiting"} /\ r.day = d
DoneRow(r, d) == r.pc \notin {"idle", "blocked", "attempting", "waiting"} /\ r.day = d
OpenSet(calls, d) == {c \in WCalls : OpenRow(calls[c], d)}
ChargeSet(calls, most, d) ==
    {u \in WCalls \X (1 .. most) : DoneRow(calls[u[1]], d) /\ u[2] <= calls[u[1]].charged}

DayHolds(d, calls, most, reserved, committed) ==
    /\ reserved[d] = most * Cardinality(OpenSet(calls, d))
    /\ committed[d] = Cardinality(ChargeSet(calls, most, d))
    /\ reserved[d] + committed[d] <= WDaily

AlertHolds(d, t, alerts, committed) ==
    alerts[d][t] = IF 100 * committed[d] >= t * WDaily THEN 1 ELSE 0

OneCallPerKey(calls) ==
    \A c, o \in WCalls :
        c # o /\ WKey[c] = WKey[o] =>
            \/ calls[c].pc \in {"idle", "blocked"}
            \/ calls[o].pc \in {"idle", "blocked"}

JobHolds(j) ==
    /\ j \in [pc : {"idle", "uploading", "creating", "observing"}, calls : Nat, uploads : Nat,
              jobs : Nat, id : Nat, result : Nat]
    /\ j.uploads <= 1 /\ j.jobs <= j.uploads
    /\ j.pc # "idle" => j.uploads = 1
    /\ j.pc = "uploading" => j.jobs = 0
    /\ j.pc \in {"uploading", "creating"} \/ j.uploads = 0 => j.result = 0
    /\ j.result # 0 => j.result = j.id

WTypes ==
    /\ wPolicy \in WPolicies /\ wNow \in 0 .. WHorizon
    /\ wCall \in [WCalls -> WTrace]
    /\ wReserved \in [WDays -> Nat] /\ wCommitted \in [WDays -> Nat]
    /\ wAlerts \in [WDays -> [Alerting -> Nat]]

WireInv ==
    /\ WTypes
    /\ \A c \in WCalls : TraceHolds(wCall[c], AttemptsAllowed)
    /\ \A a \in wAttempt : RecordHolds(a, wCall)
    /\ \A d \in WDays : DayHolds(d, wCall, AttemptsAllowed, wReserved, wCommitted)
    /\ \A d \in WDays, t \in Alerting : AlertHolds(d, t, wAlerts, wCommitted)
    /\ OneCallPerKey(wCall)
    /\ JobHolds(wJob)

LEMMA WireTypes ==
    ASSUME WTypes
    PROVE  /\ AttemptsAllowed \in Nat \ {0}
           /\ DayOf(wNow) \in WDays
           /\ 0 \in WDays
           /\ WDaily \in Nat \ {0}
           /\ IsFiniteSet(WCalls)
<1>1. AttemptsAllowed \in Nat \ {0}
  BY WireConstants DEF WTypes, AttemptsAllowed
<1>2. WDay \in Nat \ {0} /\ WHorizon \in Nat /\ wNow \in Nat /\ wNow <= WHorizon
  BY WireConstants DEF WTypes
<1>3. wNow \div WDay \in Nat /\ WHorizon \div WDay \in Nat /\ wNow \div WDay <= WHorizon \div WDay
  BY <1>2
<1> QED
  BY <1>1, <1>3, WireConstants DEF DayOf, WDays

\* The day's open calls and its charges are finite, and a day's reservation is
\* what its open calls took.
LEMMA BooksFinite ==
    ASSUME WireInv, NEW d \in WDays
    PROVE  /\ IsFiniteSet(OpenSet(wCall, d)) /\ IsFiniteSet(ChargeSet(wCall, AttemptsAllowed, d))
           /\ Cardinality(OpenSet(wCall, d)) \in Nat
           /\ Cardinality(ChargeSet(wCall, AttemptsAllowed, d)) \in Nat
<1>1. IsFiniteSet(WCalls) /\ AttemptsAllowed \in Nat \ {0}
  BY WireTypes DEF WireInv
<1>2. IsFiniteSet(OpenSet(wCall, d))
  <2>1. OpenSet(wCall, d) \in SUBSET WCalls
    BY DEF OpenSet
  <2> QED
    BY <1>1, <2>1, FS_Subset
<1>3. IsFiniteSet(ChargeSet(wCall, AttemptsAllowed, d))
  <2>1. IsFiniteSet(1 .. AttemptsAllowed)
    BY <1>1, FS_Interval
  <2>2. IsFiniteSet(WCalls \X (1 .. AttemptsAllowed))
    BY <1>1, <2>1, FS_Product
  <2>3. ChargeSet(wCall, AttemptsAllowed, d) \in SUBSET (WCalls \X (1 .. AttemptsAllowed))
    BY DEF ChargeSet
  <2> QED
    BY <2>2, <2>3, FS_Subset
<1> QED
  BY <1>2, <1>3, FS_CardinalityType

\* A product of naturals, one factor a step larger.
LEMMA OneMore ==
    ASSUME NEW a \in Nat, NEW n \in Nat
    PROVE  /\ a * n \in Nat
           /\ a * (n + 1) = a * n + a
           /\ n > 0 => a * (n - 1) \in Nat /\ a * n = a * (n - 1) + a
OBVIOUS

\* The units one call is charged are as many as its charge.
LEMMA UnitsOfOneCall ==
    ASSUME NEW c, NEW n \in Nat
    PROVE  IsFiniteSet({c} \X (1 .. n)) /\ Cardinality({c} \X (1 .. n)) = n
<1>1. IsFiniteSet({c}) /\ Cardinality({c}) = 1
  BY FS_Singleton
<1>2. IsFiniteSet(1 .. n) /\ Cardinality(1 .. n) = n
  <2>1. Cardinality(1 .. n) = (IF 1 > n THEN 0 ELSE n - 1 + 1) /\ IsFiniteSet(1 .. n)
    BY FS_Interval
  <2> QED
    BY <2>1
<1>3. IsFiniteSet({c} \X (1 .. n)) /\ Cardinality({c} \X (1 .. n)) = 1 * n
  <2> DEFINE one == {c}
             units == 1 .. n
  <2>1. IsFiniteSet(one) /\ Cardinality(one) = 1 /\ IsFiniteSet(units) /\ Cardinality(units) = n
    BY <1>1, <1>2
  <2> HIDE DEF one, units
  <2>2. IsFiniteSet(one \X units)
    BY <2>1, FS_Product
  <2>3. Cardinality(one \X units) = Cardinality(one) * Cardinality(units)
    BY <2>1, FS_Product
  <2> QED
    BY <2>1, <2>2, <2>3 DEF one, units
<1> QED
  BY <1>3

\* Rows of the other calls hold what they held.
LEMMA CallMoves ==
    ASSUME WireInv, NEW c \in WCalls, NEW row \in WTrace,
           wCall' = [wCall EXCEPT ![c] = row], UNCHANGED <<wPolicy, wNow>>,
           TraceHolds(row, AttemptsAllowed)
    PROVE  /\ wCall' \in [WCalls -> WTrace] /\ wCall'[c] = row
           /\ \A o \in WCalls : o # c => wCall'[o] = wCall[o]
           /\ AttemptsAllowed' = AttemptsAllowed
           /\ wPolicy' \in WPolicies /\ wNow' \in 0 .. WHorizon
           /\ \A o \in WCalls : TraceHolds(wCall'[o], AttemptsAllowed')
<1>1. /\ wCall' \in [WCalls -> WTrace] /\ wCall'[c] = row
      /\ \A o \in WCalls : o # c => wCall'[o] = wCall[o]
  BY DEF WireInv, WTypes
<1>2. AttemptsAllowed' = AttemptsAllowed /\ wPolicy' \in WPolicies /\ wNow' \in 0 .. WHorizon
  BY DEF WireInv, WTypes, AttemptsAllowed
<1>3. \A o \in WCalls : TraceHolds(wCall[o], AttemptsAllowed)
  BY DEF WireInv
<1>4. ASSUME NEW o \in WCalls PROVE TraceHolds(wCall'[o], AttemptsAllowed')
  <2>1. CASE o = c
    BY <1>1, <1>2, <2>1
  <2>2. CASE o # c
    <3>1. wCall'[o] = wCall[o]
      BY <1>1, <2>2
    <3> QED
      BY <1>2, <1>3, <3>1
  <2> QED
    BY <2>1, <2>2
<1> QED
  BY <1>1, <1>2, <1>4

\* A call that goes on leaves the books, the alerts and the jobs alone.
LEMMA CallGoesOn ==
    ASSUME WireInv, NEW c \in WCalls, NEW row \in WTrace,
           wCall[c].pc \in {"attempting", "waiting"},
           row.pc \in {"attempting", "waiting"},
           row.day = wCall[c].day,
           TraceHolds(row, AttemptsAllowed),
           wCall' = [wCall EXCEPT ![c] = row],
           UNCHANGED <<wPolicy, wNow, wReserved, wCommitted, wAlerts, wJob>>,
           \/ wAttempt' = wAttempt
           \/ \A a \in wAttempt' : a.call = c /\ a.retryable = TRUE /\ EvidenceHolds(a)
    PROVE  WireInv'
<1>1. /\ wCall' \in [WCalls -> WTrace] /\ wCall'[c] = row
      /\ \A o \in WCalls : o # c => wCall'[o] = wCall[o]
      /\ AttemptsAllowed' = AttemptsAllowed
      /\ wPolicy' \in WPolicies /\ wNow' \in 0 .. WHorizon
      /\ \A o \in WCalls : TraceHolds(wCall'[o], AttemptsAllowed')
  BY CallMoves
<1>2. \A a \in wAttempt' : RecordHolds(a, wCall')
  <2>1. CASE wAttempt' = wAttempt
    <3> SUFFICES ASSUME NEW a \in wAttempt PROVE RecordHolds(a, wCall')
      BY <2>1
    <3>1. RecordHolds(a, wCall)
      BY DEF WireInv
    <3>2. CASE a.call = c
      BY <1>1, <3>1, <3>2 DEF RecordHolds
    <3>3. CASE a.call # c
      BY <1>1, <3>1, <3>3 DEF RecordHolds
    <3> QED
      BY <3>2, <3>3
  <2>2. CASE \A a \in wAttempt' : a.call = c /\ a.retryable = TRUE /\ EvidenceHolds(a)
    BY <1>1, <2>2 DEF RecordHolds
  <2> QED
    BY <2>1, <2>2
<1>3. ASSUME NEW d \in WDays
      PROVE  DayHolds(d, wCall', AttemptsAllowed', wReserved', wCommitted')
  <2>1. ASSUME NEW o \in WCalls
        PROVE  /\ OpenRow(wCall'[o], d) <=> OpenRow(wCall[o], d)
               /\ DoneRow(wCall'[o], d) <=> DoneRow(wCall[o], d)
               /\ DoneRow(wCall'[o], d) => wCall'[o] = wCall[o]
    <3>1. CASE o = c
      BY <1>1, <3>1 DEF OpenRow, DoneRow
    <3>2. CASE o # c
      BY <1>1, <3>2
    <3> QED
      BY <3>1, <3>2
  <2>2. OpenSet(wCall', d) = OpenSet(wCall, d)
    BY <2>1 DEF OpenSet
  <2>3. ChargeSet(wCall', AttemptsAllowed', d) = ChargeSet(wCall, AttemptsAllowed, d)
    BY <1>1, <2>1 DEF ChargeSet
  <2>4. DayHolds(d, wCall, AttemptsAllowed, wReserved, wCommitted)
    BY DEF WireInv
  <2> QED
    BY <1>1, <2>2, <2>3, <2>4 DEF DayHolds
<1>4. OneCallPerKey(wCall')
  <2>1. OneCallPerKey(wCall)
    BY DEF WireInv
  <2>2. \A o \in WCalls : wCall[o].pc \in {"idle", "blocked"} => wCall'[o].pc \in {"idle", "blocked"}
    BY <1>1
  <2> QED
    BY <2>1, <2>2 DEF OneCallPerKey
<1>5. \A d \in WDays, t \in Alerting : AlertHolds(d, t, wAlerts', wCommitted')
  BY DEF WireInv
<1>6. JobHolds(wJob') /\ wReserved' \in [WDays -> Nat] /\ wCommitted' \in [WDays -> Nat]
      /\ wAlerts' \in [WDays -> [Alerting -> Nat]]
  BY DEF WireInv, WTypes
<1> QED
  BY <1>1, <1>2, <1>3, <1>4, <1>5, <1>6 DEF WireInv, WTypes

\* A call ends: its reservation is given back, its charges are the day's and the
\* thresholds they reach are announced.
LEMMA CallEnds ==
    ASSUME WireInv, NEW c \in WCalls, NEW charged \in Nat, NEW succeeded \in BOOLEAN,
           wCall[c].pc \in {"attempting", "waiting"}, charged <= AttemptsAllowed,
           Finish(c, charged, succeeded),
           UNCHANGED <<wPolicy, wNow, wJob>>,
           \A a \in wAttempt' : /\ a.call = c /\ a.retryable = FALSE
                               /\ a.attempt = wCall[c].attempt /\ EvidenceHolds(a)
    PROVE  WireInv'
<1> DEFINE row == [NewTrace EXCEPT !.pc = "done", !.attempt = wCall[c].attempt,
                                   !.day = wCall[c].day, !.charged = charged]
           day == wCall[c].day
           most == AttemptsAllowed
<1>1. wCall[c] \in WTrace /\ day \in WDays /\ most \in Nat \ {0} /\ WDaily \in Nat \ {0}
  BY WireTypes DEF WireInv, WTypes, WTrace
<1>2. /\ row \in WTrace /\ TraceHolds(row, most)
      /\ row.pc = "done" /\ row.attempt = wCall[c].attempt /\ row.day = day /\ row.charged = charged
  BY <1>1 DEF NewTrace, WTrace, TraceHolds
<1>3. /\ wCall' = [wCall EXCEPT ![c] = row]
      /\ wReserved' = [wReserved EXCEPT ![day] = IF @ > most THEN @ - most ELSE 0]
      /\ wCommitted' = [wCommitted EXCEPT ![day] = @ + charged]
  BY DEF Finish, BookedDay
<1>4. wAlerts' = [wAlerts EXCEPT ![day] =
                    [t \in Alerting |->
                        @[t] + (IF t \in NewAlerts(day, wCommitted') THEN 1 ELSE 0)]]
  BY <1>3 DEF Finish, BookedDay
<1> HIDE DEF row
<1>5. /\ wCall' \in [WCalls -> WTrace] /\ wCall'[c] = row
      /\ \A o \in WCalls : o # c => wCall'[o] = wCall[o]
      /\ AttemptsAllowed' = AttemptsAllowed
      /\ wPolicy' \in WPolicies /\ wNow' \in 0 .. WHorizon
      /\ \A o \in WCalls : TraceHolds(wCall'[o], AttemptsAllowed')
  BY <1>2, <1>3, CallMoves
<1>6. /\ wReserved' \in [WDays -> Nat] /\ wCommitted' \in [WDays -> Nat]
      /\ wReserved'[day] = (IF wReserved[day] > most THEN wReserved[day] - most ELSE 0)
      /\ wCommitted'[day] = wCommitted[day] + charged
      /\ \A d \in WDays : d # day => wReserved'[d] = wReserved[d] /\ wCommitted'[d] = wCommitted[d]
  <2>1. wReserved \in [WDays -> Nat] /\ wCommitted \in [WDays -> Nat]
    BY DEF WireInv, WTypes
  <2> HIDE DEF day, most
  <2> QED
    BY <1>1, <1>3, <2>1
<1>7. \A a \in wAttempt' : RecordHolds(a, wCall')
  BY <1>2, <1>5 DEF RecordHolds
<1>8. ASSUME NEW d \in WDays, d # day
      PROVE  DayHolds(d, wCall', AttemptsAllowed', wReserved', wCommitted')
  <2>1. ASSUME NEW o \in WCalls
        PROVE  /\ OpenRow(wCall'[o], d) <=> OpenRow(wCall[o], d)
               /\ DoneRow(wCall'[o], d) <=> DoneRow(wCall[o], d)
               /\ DoneRow(wCall'[o], d) => wCall'[o] = wCall[o]
    <3>1. CASE o = c
      BY <1>2, <1>5, <1>8, <3>1 DEF OpenRow, DoneRow
    <3>2. CASE o # c
      BY <1>5, <3>2
    <3> QED
      BY <3>1, <3>2
  <2>2. OpenSet(wCall', d) = OpenSet(wCall, d)
    BY <2>1 DEF OpenSet
  <2>3. ChargeSet(wCall', AttemptsAllowed', d) = ChargeSet(wCall, AttemptsAllowed, d)
    BY <1>5, <2>1 DEF ChargeSet
  <2>4. DayHolds(d, wCall, AttemptsAllowed, wReserved, wCommitted)
    BY DEF WireInv
  <2> QED
    BY <1>5, <1>6, <1>8, <2>2, <2>3, <2>4 DEF DayHolds
<1>9. DayHolds(day, wCall', AttemptsAllowed', wReserved', wCommitted')
  <2> DEFINE open == OpenSet(wCall, day)
             charges == ChargeSet(wCall, most, day)
             units == {c} \X (1 .. charged)
  <2>1. OpenSet(wCall', day) = open \ {c} /\ c \in open
    <3>1. c \in open
      BY DEF OpenSet, OpenRow
    <3>2. ~OpenRow(wCall'[c], day)
      BY <1>2, <1>5 DEF OpenRow
    <3> QED
      BY <1>5, <3>1, <3>2 DEF OpenSet
  <2>2. ChargeSet(wCall', AttemptsAllowed', day) = charges \cup units /\ charges \cap units = {}
    <3>1. ~DoneRow(wCall[c], day) /\ DoneRow(wCall'[c], day) /\ wCall'[c].charged = charged
      BY <1>2, <1>5 DEF DoneRow
    <3>2. charges \cap units = {}
      BY <3>1 DEF ChargeSet
    <3>3. units \subseteq WCalls \X (1 .. most)
      BY <1>1
    <3>4. ASSUME NEW u \in WCalls \X (1 .. most)
          PROVE  u \in ChargeSet(wCall', AttemptsAllowed', day) <=> u \in charges \cup units
      <4>1. CASE u[1] = c
        <5>1. u \in ChargeSet(wCall', AttemptsAllowed', day) <=> u[2] <= charged
          BY <1>5, <3>1, <4>1 DEF ChargeSet
        <5>2. u \in units <=> u[2] <= charged
          BY <1>1, <4>1
        <5>3. u \notin charges
          BY <3>1, <4>1 DEF ChargeSet
        <5> QED
          BY <5>1, <5>2, <5>3
      <4>2. CASE u[1] # c
        <5>1. wCall'[u[1]] = wCall[u[1]] /\ u \notin units
          BY <1>5, <4>2
        <5> QED
          BY <1>5, <5>1 DEF ChargeSet
      <4> QED
        BY <4>1, <4>2
    <3>5. /\ ChargeSet(wCall', AttemptsAllowed', day) \subseteq WCalls \X (1 .. most)
          /\ charges \subseteq WCalls \X (1 .. most)
      BY <1>5 DEF ChargeSet
    <3> HIDE DEF charges, units
    <3> QED
      BY <3>2, <3>3, <3>4, <3>5
  <2>3. /\ IsFiniteSet(open) /\ IsFiniteSet(charges)
        /\ Cardinality(open) \in Nat /\ Cardinality(charges) \in Nat
    BY <1>1, BooksFinite
  <2>4. IsFiniteSet(units) /\ Cardinality(units) = charged
    BY UnitsOfOneCall
  <2> HIDE DEF open, charges, units
  <2>5. Cardinality(open \ {c}) = Cardinality(open) - 1
    BY <2>1, <2>3, FS_RemoveElement
  <2>6. Cardinality(open) > 0
    BY <2>1, <2>3, FS_EmptySet
  <2>7. Cardinality(charges \cup units) = Cardinality(charges) + charged
    <3>1. Cardinality(charges \cup units) =
              Cardinality(charges) + Cardinality(units) - Cardinality(charges \cap units)
      BY <2>3, <2>4, FS_Union
    <3>2. Cardinality(charges \cap units) = 0
      BY <2>2, FS_EmptySet
    <3> QED
      BY <2>3, <2>4, <3>1, <3>2
  <2>8. /\ wReserved[day] = most * Cardinality(open)
        /\ wCommitted[day] = Cardinality(charges)
        /\ wReserved[day] + wCommitted[day] <= WDaily
    BY <1>1 DEF WireInv, DayHolds, open, charges
  <2>9. /\ most * (Cardinality(open) - 1) \in Nat
        /\ most * Cardinality(open) = most * (Cardinality(open) - 1) + most
    BY <1>1, <2>3, <2>6, OneMore
  <2>10. wReserved'[day] = most * (Cardinality(open) - 1)
    <3> DEFINE rest == most * (Cardinality(open) - 1)
    <3>1. rest \in Nat /\ wReserved[day] = rest + most
      BY <2>8, <2>9
    <3> HIDE DEF rest
    <3>2. wReserved'[day] = rest
      BY <1>1, <1>6, <3>1
    <3> QED
      BY <3>2 DEF rest
  <2>11. wReserved'[day] + wCommitted'[day] <= WDaily
    <3> DEFINE rest == most * (Cardinality(open) - 1)
    <3>1. rest \in Nat /\ wReserved[day] = rest + most /\ wReserved'[day] = rest
      BY <2>8, <2>9, <2>10
    <3> HIDE DEF rest
    <3> QED
      BY <1>1, <1>6, <2>3, <2>8, <3>1
  <2> QED
    BY <1>5, <1>6, <2>1, <2>2, <2>5, <2>7, <2>8, <2>10, <2>11 DEF DayHolds
<1>10. OneCallPerKey(wCall')
  <2>1. OneCallPerKey(wCall)
    BY DEF WireInv
  <2>2. \A o \in WCalls : wCall[o].pc \in {"idle", "blocked"} => wCall'[o].pc \in {"idle", "blocked"}
    BY <1>5
  <2> QED
    BY <2>1, <2>2 DEF OneCallPerKey
<1>11. /\ wAlerts' \in [WDays -> [Alerting -> Nat]]
       /\ \A d \in WDays, t \in Alerting : AlertHolds(d, t, wAlerts', wCommitted')
  <2>1. wAlerts \in [WDays -> [Alerting -> Nat]] /\ wCommitted \in [WDays -> Nat]
    BY DEF WireInv, WTypes
  <2>2. ASSUME NEW t \in Alerting
        PROVE  /\ wAlerts'[day][t] =
                      wAlerts[day][t] + (IF t \in NewAlerts(day, wCommitted') THEN 1 ELSE 0)
               /\ wAlerts'[day][t] \in Nat
    BY <1>1, <1>4, <2>1
  <2>3. ASSUME NEW d \in WDays, d # day PROVE wAlerts'[d] = wAlerts[d]
    BY <1>4, <2>1, <2>3
  <2>4. wAlerts' \in [WDays -> [Alerting -> Nat]]
    BY <1>1, <1>4, <2>1
  <2>5. ASSUME NEW t \in Alerting PROVE AlertHolds(day, t, wAlerts', wCommitted')
    <3>1. wAlerts[day][t] = IF 100 * wCommitted[day] >= t * WDaily THEN 1 ELSE 0
      BY <1>1 DEF WireInv, AlertHolds
    <3>2. t \in NewAlerts(day, wCommitted') <=>
              100 * wCommitted'[day] >= t * WDaily /\ wAlerts[day][t] = 0
      BY <2>5 DEF NewAlerts, Reached
    <3>3. 100 * wCommitted[day] <= 100 * wCommitted'[day] /\ 100 * wCommitted[day] \in Nat
          /\ 100 * wCommitted'[day] \in Nat
      BY <1>1, <1>6, <2>1
    <3>4. t * WDaily \in Nat
      BY <1>1, <2>5 DEF Alerting
    <3>5. 100 * wCommitted[day] >= t * WDaily => 100 * wCommitted'[day] >= t * WDaily
      BY <3>3, <3>4
    <3> QED
      BY <2>2, <2>5, <3>1, <3>2, <3>5 DEF AlertHolds
  <2>6. ASSUME NEW d \in WDays, d # day, NEW t \in Alerting
        PROVE  AlertHolds(d, t, wAlerts', wCommitted')
    <3>1. AlertHolds(d, t, wAlerts, wCommitted)
      BY DEF WireInv
    <3> QED
      BY <1>6, <2>3, <2>6, <3>1 DEF AlertHolds
  <2> QED
    BY <2>4, <2>5, <2>6
<1>12. JobHolds(wJob')
  BY DEF WireInv
<1> QED
  BY <1>5, <1>6, <1>7, <1>8, <1>9, <1>10, <1>11, <1>12 DEF WireInv, WTypes

\* The rows a call gets when its first attempt begins and when it waits.
LEMMA NewTraces ==
    ASSUME NEW attempt \in Nat, NEW day \in WDays, NEW charged \in Nat,
           NEW most \in Nat \ {0}
    PROVE  /\ LET row == [NewTrace EXCEPT !.pc = "attempting", !.attempt = 1, !.day = day] IN
              /\ row \in WTrace /\ row.pc = "attempting" /\ row.day = day
              /\ TraceHolds(row, most)
           /\ attempt < most /\ charged < attempt =>
              LET row == [NewTrace EXCEPT !.pc = "waiting", !.day = day, !.attempt = attempt,
                                          !.charged = charged + 1] IN
              /\ row \in WTrace /\ row.pc = "waiting" /\ row.day = day
              /\ TraceHolds(row, most)
<1> DEFINE first == [NewTrace EXCEPT !.pc = "attempting", !.attempt = 1, !.day = day]
           waits == [NewTrace EXCEPT !.pc = "waiting", !.day = day, !.attempt = attempt,
                                     !.charged = charged + 1]
<1>0. NewTrace.left = FALSE /\ charged + 1 \in Nat
  BY DEF NewTrace
<1>1. first \in WTrace /\ waits \in WTrace
  <2>1. first \in WTrace
    BY DEF NewTrace, WTrace
  <2>2. waits \in WTrace
    BY <1>0 DEF NewTrace, WTrace
  <2> QED
    BY <2>1, <2>2
<1>2. /\ first.pc = "attempting" /\ first.attempt = 1 /\ first.day = day /\ first.charged = 0
      /\ first.phase = "service_dispatch" /\ first.state = "not_started" /\ ~first.left
  BY DEF NewTrace
<1>3. /\ waits.pc = "waiting" /\ waits.attempt = attempt /\ waits.day = day
      /\ waits.charged = charged + 1
      /\ waits.phase = "service_dispatch" /\ waits.state = "not_started" /\ ~waits.left
  BY DEF NewTrace
<1> HIDE DEF first, waits
<1>4. TraceHolds(first, most)
  BY <1>2 DEF TraceHolds
<1>5. attempt < most /\ charged < attempt => TraceHolds(waits, most)
  BY <1>3 DEF TraceHolds
<1> QED
  BY <1>1, <1>2, <1>3, <1>4, <1>5 DEF first, waits

LEMMA RetryKeeps ==
    ASSUME WireInv, NEW c \in WCalls, wCall[c].pc = "attempting", NEW state,
           state \in {"not_started", "not_sent"} => ~wCall[c].left,
           state = "response_headers_received" => wCall[c].left,
           AttemptRetries(c, state), UNCHANGED <<wPolicy, wNow, wJob>>
    PROVE  WireInv'
<1>1. PICK inTime \in BOOLEAN :
        /\ wAttempt' = Attempt(c, EvidenceRetryable(c, inTime), state)
        /\ IF RetryAuthorized(c, inTime)
           THEN /\ wCall' = [wCall EXCEPT ![c] = [NewTrace EXCEPT !.pc = "waiting", !.day = wCall[c].day,
                                !.attempt = wCall[c].attempt, !.charged = wCall[c].charged + 1]]
                /\ UNCHANGED <<wCircuit, wReserved, wCommitted, wAlerts>>
           ELSE Finish(c, wCall[c].charged + 1, FALSE)
  BY DEF AttemptRetries
<1>2. /\ wCall[c] \in WTrace /\ TraceHolds(wCall[c], AttemptsAllowed) /\ AttemptsAllowed \in Nat \ {0}
  BY WireTypes DEF WireInv, WTypes
<1>3. \A a \in wAttempt' : /\ a.call = c /\ a.retryable = EvidenceRetryable(c, inTime)
                          /\ a.attempt = wCall[c].attempt /\ EvidenceHolds(a)
  BY <1>1 DEF Attempt, EvidenceHolds
<1>4. CASE RetryAuthorized(c, inTime)
  <2> DEFINE row == [NewTrace EXCEPT !.pc = "waiting", !.day = wCall[c].day,
                                !.attempt = wCall[c].attempt, !.charged = wCall[c].charged + 1]
  <2>1. row \in WTrace /\ row.pc = "waiting" /\ row.day = wCall[c].day
        /\ TraceHolds(row, AttemptsAllowed)
    <3>1. /\ wCall[c].attempt \in Nat /\ wCall[c].charged \in Nat /\ wCall[c].day \in WDays
          /\ wCall[c].attempt < AttemptsAllowed /\ wCall[c].charged < wCall[c].attempt
      BY <1>2, <1>4 DEF WTrace, TraceHolds, RetryAuthorized
    <3> QED
      BY <1>2, <3>1, NewTraces
  <2>2. /\ wCall' = [wCall EXCEPT ![c] = row]
        /\ UNCHANGED <<wReserved, wCommitted, wAlerts>>
    BY <1>1, <1>4
  <2> HIDE DEF row
  <2>3. \A a \in wAttempt' : a.call = c /\ a.retryable = TRUE /\ EvidenceHolds(a)
    BY <1>3, <1>4 DEF EvidenceRetryable
  <2> QED
    BY <2>1, <2>2, <2>3, CallGoesOn
<1>5. CASE ~RetryAuthorized(c, inTime)
  <2>1. Finish(c, wCall[c].charged + 1, FALSE)
    BY <1>1, <1>5
  <2>2. wCall[c].charged + 1 \in Nat /\ wCall[c].charged + 1 <= AttemptsAllowed
    BY <1>2 DEF WTrace, TraceHolds
  <2>3. \A a \in wAttempt' : /\ a.call = c /\ a.retryable = FALSE
                            /\ a.attempt = wCall[c].attempt /\ EvidenceHolds(a)
    BY <1>3, <1>5 DEF EvidenceRetryable, RetryAuthorized
  <2> QED
    BY <2>1, <2>2, <2>3, CallEnds
<1> QED
  BY <1>4, <1>5

LEMMA FailureKeeps ==
    ASSUME WireInv, NEW c \in WCalls, wCall[c].pc = "attempting", NEW state,
           state \in {"not_started", "not_sent"} => ~wCall[c].left,
           state = "response_headers_received" => wCall[c].left,
           AttemptFails(c, state), UNCHANGED <<wPolicy, wNow, wJob>>
    PROVE  WireInv'
<1>1. wCall[c] \in WTrace /\ TraceHolds(wCall[c], AttemptsAllowed) /\ AttemptsAllowed \in Nat \ {0}
  BY WireTypes DEF WireInv, WTypes
<1>2. wCall[c].charged + 1 \in Nat /\ wCall[c].charged + 1 <= AttemptsAllowed
  BY <1>1 DEF WTrace, TraceHolds
<1>3. \A a \in wAttempt' : /\ a.call = c /\ a.retryable = FALSE
                          /\ a.attempt = wCall[c].attempt /\ EvidenceHolds(a)
  BY DEF AttemptFails, Attempt, EvidenceHolds
<1> QED
  BY <1>2, <1>3, CallEnds DEF AttemptFails

\* Every step of a call under way: the request is handed over, leaves, is
\* answered, or the attempt ends.
LEMMA AttemptKeeps ==
    ASSUME WireInv, NEW c \in WCalls,
           \/ Prepare(c) \/ RefuseInput(c) \/ NotConnected(c) \/ RequestLeaves(c)
           \/ TransportTimeout(c) \/ NetworkError(c) \/ HeadersArrive(c) \/ Answer(c)
           \/ ControllerDeadline(c) \/ NextAttempt(c)
    PROVE  WireInv'
<1>1. /\ wCall[c] \in WTrace /\ TraceHolds(wCall[c], AttemptsAllowed)
      /\ AttemptsAllowed \in Nat \ {0} /\ wCall \in [WCalls -> WTrace]
  BY WireTypes DEF WireInv, WTypes
<1>2. CASE Prepare(c)
  <2> DEFINE half == [wCall[c] EXCEPT !.phase = "http_request_dispatch"]
             row == [half EXCEPT !.state = DispatchMarked]
  <2>1. wCall' = [wCall EXCEPT ![c] = row]
    BY <1>1, <1>2 DEF Prepare, WTrace
  <2>2. row \in WTrace /\ row.pc = "attempting" /\ row.day = wCall[c].day
        /\ TraceHolds(row, AttemptsAllowed)
    BY <1>1, <1>2 DEF Prepare, AtHome, In, DispatchMarked, WTrace, TraceHolds
  <2>3. wCall[c].pc = "attempting" /\ wAttempt' = wAttempt
        /\ UNCHANGED <<wPolicy, wNow, wReserved, wCommitted, wAlerts, wJob>>
    BY <1>2 DEF Prepare, AtHome, In, wBooks
  <2> HIDE DEF row
  <2> QED
    BY <2>1, <2>2, <2>3, CallGoesOn
<1>3. CASE RequestLeaves(c)
  <2> DEFINE row == [wCall[c] EXCEPT !.left = TRUE]
  <2>1. wCall' = [wCall EXCEPT ![c] = row]
    BY <1>1, <1>3 DEF RequestLeaves
  <2>2. row \in WTrace /\ row.pc = "attempting" /\ row.day = wCall[c].day
        /\ TraceHolds(row, AttemptsAllowed)
    BY <1>1, <1>3 DEF RequestLeaves, In, WTrace, TraceHolds
  <2>3. wCall[c].pc = "attempting" /\ wAttempt' = wAttempt
        /\ UNCHANGED <<wPolicy, wNow, wReserved, wCommitted, wAlerts, wJob>>
    BY <1>3 DEF RequestLeaves, In, wBooks
  <2> HIDE DEF row
  <2> QED
    BY <2>1, <2>2, <2>3, CallGoesOn
<1>4. CASE HeadersArrive(c)
  <2> DEFINE half == [wCall[c] EXCEPT !.phase = "http_response_read"]
             row == [half EXCEPT !.state = "response_headers_received"]
  <2>1. wCall' = [wCall EXCEPT ![c] = row]
    BY <1>1, <1>4 DEF HeadersArrive, WTrace
  <2>2. row \in WTrace /\ row.pc = "attempting" /\ row.day = wCall[c].day
        /\ TraceHolds(row, AttemptsAllowed)
    BY <1>1, <1>4 DEF HeadersArrive, In, WTrace, TraceHolds
  <2>3. wCall[c].pc = "attempting" /\ wAttempt' = wAttempt
        /\ UNCHANGED <<wPolicy, wNow, wReserved, wCommitted, wAlerts, wJob>>
    BY <1>4 DEF HeadersArrive, In, wBooks
  <2> HIDE DEF row
  <2> QED
    BY <2>1, <2>2, <2>3, CallGoesOn
<1>5. CASE NextAttempt(c)
  <2> DEFINE half == [wCall[c] EXCEPT !.pc = "attempting"]
             row == [half EXCEPT !.attempt = wCall[c].attempt + 1]
  <2>1. wCall' = [wCall EXCEPT ![c] = row]
    BY <1>1, <1>5 DEF NextAttempt, WTrace
  <2>2. row \in WTrace /\ row.pc = "attempting" /\ row.day = wCall[c].day
        /\ TraceHolds(row, AttemptsAllowed)
    BY <1>1, <1>5 DEF NextAttempt, WTrace, TraceHolds
  <2>3. wCall[c].pc = "waiting" /\ wAttempt' = wAttempt
        /\ UNCHANGED <<wPolicy, wNow, wReserved, wCommitted, wAlerts, wJob>>
    BY <1>5 DEF NextAttempt, wBooks
  <2> HIDE DEF row
  <2> QED
    BY <2>1, <2>2, <2>3, CallGoesOn
<1>6. CASE RefuseInput(c)
  BY <1>6, FailureKeeps DEF RefuseInput, AtHome, In
<1>7. CASE NotConnected(c)
  BY <1>7, RetryKeeps DEF NotConnected, In
<1>8. CASE TransportTimeout(c)
  <2>1. wCall[c].state \notin {"not_started", "not_sent"} /\ wCall[c].left
    BY <1>1, <1>8 DEF TransportTimeout, WTrace, TraceHolds
  <2> QED
    BY <1>8, <2>1, RetryKeeps DEF TransportTimeout
<1> DEFINE told == IF WKind[c] = "asr" THEN wCall[c].state ELSE "none"
<1>9. /\ wCall[c].state \in {"not_started", "not_sent"} => ~wCall[c].left
      /\ wCall[c].state = "response_headers_received" => wCall[c].left
      /\ told \in {"not_started", "not_sent"} => ~wCall[c].left
      /\ told = "response_headers_received" => wCall[c].left
  BY <1>1 DEF WTrace, TraceHolds
<1> HIDE DEF told
<1>10. CASE NetworkError(c)
  <2>1. AttemptRetries(c, told) /\ wCall[c].pc = "attempting" /\ UNCHANGED <<wPolicy, wNow, wJob>>
    BY <1>10 DEF NetworkError, told
  <2> QED
    BY <1>9, <2>1, RetryKeeps
<1>11. CASE Answer(c)
  <2>1. wCall[c].pc = "attempting" /\ UNCHANGED <<wPolicy, wNow, wJob>>
    BY <1>11 DEF Answer, In
  <2>2. CASE AttemptFails(c, told)
    BY <1>9, <2>1, <2>2, FailureKeeps
  <2>3. CASE AttemptRetries(c, told)
    BY <1>9, <2>1, <2>3, RetryKeeps
  <2>4. CASE \E usage \in {"missing", "malformed", "over", "within"} :
                \E charge \in Charges(WKind[c], usage) : AttemptSucceeds(c, charge)
    <3>1. PICK charge \in {0, 1} : AttemptSucceeds(c, charge)
      BY <2>4 DEF Charges
    <3>2. wCall[c].charged + charge \in Nat /\ wCall[c].charged + charge <= AttemptsAllowed
      BY <1>1, <2>1 DEF WTrace, TraceHolds
    <3>3. Finish(c, wCall[c].charged + charge, TRUE)
      BY <3>1 DEF AttemptSucceeds
    <3>4. \A a \in wAttempt' : /\ a.call = c /\ a.retryable = FALSE
                              /\ a.attempt = wCall[c].attempt /\ EvidenceHolds(a)
      BY <1>9, <3>1 DEF AttemptSucceeds, Attempt, EvidenceHolds
    <3> QED
      BY <2>1, <3>2, <3>3, <3>4, CallEnds
  <2> QED
    BY <1>11, <2>2, <2>3, <2>4 DEF Answer, told
<1>12. CASE ControllerDeadline(c)
  BY <1>9, <1>12, RetryKeeps DEF ControllerDeadline
<1> QED
  BY <1>2, <1>3, <1>4, <1>5, <1>6, <1>7, <1>8, <1>10, <1>11, <1>12

LEMMA ReserveCallKeeps == ASSUME WireInv, NEW c \in WCalls, Reserve(c) PROVE WireInv'
<1> DEFINE row == [NewTrace EXCEPT !.pc = "attempting", !.attempt = 1, !.day = DayOf(wNow)]
           day == DayOf(wNow)
           most == AttemptsAllowed
<1>1. /\ day \in WDays /\ most \in Nat \ {0} /\ WDaily \in Nat \ {0}
      /\ wCall \in [WCalls -> WTrace] /\ wCall[c].pc = "idle"
  BY WireTypes DEF WireInv, WTypes, Reserve
<1>2. /\ row \in WTrace /\ TraceHolds(row, most)
      /\ row.pc = "attempting" /\ row.day = day
  BY <1>1, NewTraces
<1>3. /\ wCall' = [wCall EXCEPT ![c] = row]
      /\ wReserved' = [wReserved EXCEPT ![day] = @ + most]
      /\ UNCHANGED <<wPolicy, wNow, wCommitted, wAttempt, wAlerts, wJob>>
      /\ wCommitted[day] + wReserved[day] + most <= WDaily
      /\ \A o \in WCalls : WKey[o] = WKey[c] => wCall[o].pc \in {"idle", "blocked"}
  BY DEF Reserve, Admitted, WithinBudget, FreshKey, Begun
<1> HIDE DEF row
<1>5. /\ wCall' \in [WCalls -> WTrace] /\ wCall'[c] = row
      /\ \A o \in WCalls : o # c => wCall'[o] = wCall[o]
      /\ AttemptsAllowed' = AttemptsAllowed
      /\ wPolicy' \in WPolicies /\ wNow' \in 0 .. WHorizon
      /\ \A o \in WCalls : TraceHolds(wCall'[o], AttemptsAllowed')
  BY <1>2, <1>3, CallMoves
<1>6. /\ wReserved \in [WDays -> Nat] /\ wCommitted \in [WDays -> Nat]
      /\ wReserved' \in [WDays -> Nat] /\ wReserved'[day] = wReserved[day] + most
      /\ \A d \in WDays : d # day => wReserved'[d] = wReserved[d]
  <2>1. wReserved \in [WDays -> Nat] /\ wCommitted \in [WDays -> Nat]
    BY DEF WireInv, WTypes
  <2> HIDE DEF day, most
  <2> QED
    BY <1>1, <1>3, <2>1
<1>7. ASSUME NEW a \in wAttempt' PROVE RecordHolds(a, wCall')
  <2>1. RecordHolds(a, wCall)
    BY <1>3 DEF WireInv
  <2>2. a.call # c
    BY <1>1, <2>1 DEF RecordHolds
  <2> QED
    BY <1>5, <2>1, <2>2 DEF RecordHolds
<1>8. ASSUME NEW d \in WDays PROVE DayHolds(d, wCall', AttemptsAllowed', wReserved', wCommitted')
  <2>1. ASSUME NEW o \in WCalls
        PROVE  /\ DoneRow(wCall'[o], d) <=> DoneRow(wCall[o], d)
               /\ DoneRow(wCall'[o], d) => wCall'[o] = wCall[o]
               /\ OpenRow(wCall'[o], d) <=> OpenRow(wCall[o], d) \/ (o = c /\ d = day)
    <3>1. CASE o = c
      BY <1>1, <1>2, <1>5, <3>1 DEF OpenRow, DoneRow
    <3>2. CASE o # c
      BY <1>5, <3>2
    <3> QED
      BY <3>1, <3>2
  <2>2. ChargeSet(wCall', AttemptsAllowed', d) = ChargeSet(wCall, AttemptsAllowed, d)
    BY <1>5, <2>1 DEF ChargeSet
  <2>3. DayHolds(d, wCall, AttemptsAllowed, wReserved, wCommitted)
    BY DEF WireInv
  <2>4. CASE d # day
    <3>1. OpenSet(wCall', d) = OpenSet(wCall, d)
      BY <2>1, <2>4 DEF OpenSet
    <3> QED
      BY <1>3, <1>5, <1>6, <2>2, <2>3, <2>4, <3>1 DEF DayHolds
  <2>5. CASE d = day
    <3> DEFINE open == OpenSet(wCall, d)
    <3>1. OpenSet(wCall', d) = open \cup {c} /\ c \notin open
      <4>1. c \notin open
        BY <1>1 DEF OpenSet, OpenRow
      <4>2. \A o \in WCalls : o \in OpenSet(wCall', d) <=> o \in open \/ o = c
        BY <2>1, <2>5 DEF OpenSet
      <4>3. OpenSet(wCall', d) \subseteq WCalls /\ open \subseteq WCalls
        BY DEF OpenSet
      <4> HIDE DEF open
      <4> QED
        BY <4>1, <4>2, <4>3
    <3>2. IsFiniteSet(open) /\ Cardinality(open) \in Nat
      BY BooksFinite
    <3>3. /\ wReserved[d] = most * Cardinality(open)
          /\ wCommitted[d] = Cardinality(ChargeSet(wCall, most, d))
      BY <2>3 DEF DayHolds
    <3> HIDE DEF open
    <3>4. Cardinality(open \cup {c}) = Cardinality(open) + 1
      BY <3>1, <3>2, FS_AddElement
    <3>5. most * (Cardinality(open) + 1) = most * Cardinality(open) + most
      BY <1>1, <3>2, OneMore
    <3>6. wReserved'[d] = most * (Cardinality(open) + 1)
      BY <1>6, <2>5, <3>3, <3>5
    <3>7. wReserved'[d] + wCommitted'[d] <= WDaily
      BY <1>1, <1>3, <1>6, <2>5
    <3> QED
      BY <1>3, <1>5, <2>2, <3>1, <3>3, <3>4, <3>6, <3>7 DEF DayHolds
  <2> QED
    BY <2>4, <2>5
<1>9. OneCallPerKey(wCall')
  <2>1. OneCallPerKey(wCall)
    BY DEF WireInv
  <2>2. \A o \in WCalls : o # c /\ WKey[o] = WKey[c] => wCall'[o].pc \in {"idle", "blocked"}
    BY <1>3, <1>5
  <2> QED
    BY <1>5, <2>1, <2>2 DEF OneCallPerKey
<1>10. /\ \A d \in WDays, t \in Alerting : AlertHolds(d, t, wAlerts', wCommitted')
       /\ JobHolds(wJob') /\ wCommitted' \in [WDays -> Nat]
       /\ wAlerts' \in [WDays -> [Alerting -> Nat]]
  BY <1>3 DEF WireInv, WTypes
<1> QED
  BY <1>5, <1>6, <1>7, <1>8, <1>9, <1>10 DEF WireInv, WTypes

LEMMA DenyKeeps == ASSUME WireInv, NEW c \in WCalls, Deny(c) PROVE WireInv'
<1> DEFINE row == [wCall[c] EXCEPT !.pc = "blocked"]
<1>1. /\ wCall \in [WCalls -> WTrace] /\ wCall[c] \in WTrace /\ wCall[c].pc = "idle"
      /\ TraceHolds(wCall[c], AttemptsAllowed)
  BY DEF WireInv, WTypes, Deny
<1>2. row \in WTrace /\ TraceHolds(row, AttemptsAllowed) /\ row.pc = "blocked"
  BY <1>1 DEF WTrace, TraceHolds
<1>3. /\ wCall' = [wCall EXCEPT ![c] = row]
      /\ UNCHANGED <<wPolicy, wNow, wReserved, wCommitted, wAttempt, wAlerts, wJob>>
  BY <1>1 DEF Deny
<1> HIDE DEF row
<1>5. /\ wCall' \in [WCalls -> WTrace] /\ wCall'[c] = row
      /\ \A o \in WCalls : o # c => wCall'[o] = wCall[o]
      /\ AttemptsAllowed' = AttemptsAllowed
      /\ wPolicy' \in WPolicies /\ wNow' \in 0 .. WHorizon
      /\ \A o \in WCalls : TraceHolds(wCall'[o], AttemptsAllowed')
  BY <1>2, <1>3, CallMoves
<1>6. ASSUME NEW a \in wAttempt' PROVE RecordHolds(a, wCall')
  <2>1. RecordHolds(a, wCall)
    BY <1>3 DEF WireInv
  <2>2. a.call # c
    BY <1>1, <2>1 DEF RecordHolds
  <2> QED
    BY <1>5, <2>1, <2>2 DEF RecordHolds
<1>7. ASSUME NEW d \in WDays PROVE DayHolds(d, wCall', AttemptsAllowed', wReserved', wCommitted')
  <2>1. ASSUME NEW o \in WCalls
        PROVE  /\ OpenRow(wCall'[o], d) <=> OpenRow(wCall[o], d)
               /\ DoneRow(wCall'[o], d) <=> DoneRow(wCall[o], d)
               /\ DoneRow(wCall'[o], d) => wCall'[o] = wCall[o]
    <3>1. CASE o = c
      BY <1>1, <1>2, <1>5, <3>1 DEF OpenRow, DoneRow
    <3>2. CASE o # c
      BY <1>5, <3>2
    <3> QED
      BY <3>1, <3>2
  <2>2. OpenSet(wCall', d) = OpenSet(wCall, d)
    BY <2>1 DEF OpenSet
  <2>3. ChargeSet(wCall', AttemptsAllowed', d) = ChargeSet(wCall, AttemptsAllowed, d)
    BY <1>5, <2>1 DEF ChargeSet
  <2>4. DayHolds(d, wCall, AttemptsAllowed, wReserved, wCommitted)
    BY DEF WireInv
  <2> QED
    BY <1>3, <1>5, <2>2, <2>3, <2>4 DEF DayHolds
<1>8. OneCallPerKey(wCall')
  <2>1. OneCallPerKey(wCall)
    BY DEF WireInv
  <2>2. \A o \in WCalls : wCall[o].pc \in {"idle", "blocked"} => wCall'[o].pc \in {"idle", "blocked"}
    BY <1>2, <1>5
  <2> QED
    BY <2>1, <2>2 DEF OneCallPerKey
<1>9. /\ \A d \in WDays, t \in Alerting : AlertHolds(d, t, wAlerts', wCommitted')
      /\ JobHolds(wJob') /\ wCommitted' \in [WDays -> Nat] /\ wReserved' \in [WDays -> Nat]
      /\ wAlerts' \in [WDays -> [Alerting -> Nat]]
  BY <1>3 DEF WireInv, WTypes
<1> QED
  BY <1>5, <1>6, <1>7, <1>8, <1>9 DEF WireInv, WTypes

\* A step that leaves the calls and the books alone.
LEMMA WireRests ==
    ASSUME WireInv, UNCHANGED <<wPolicy, wCall, wReserved, wCommitted, wAlerts, wAttempt>>,
           wNow' \in 0 .. WHorizon, JobHolds(wJob')
    PROVE  WireInv'
<1>1. WTypes' /\ AttemptsAllowed' = AttemptsAllowed
  BY DEF WireInv, WTypes, AttemptsAllowed
<1>2. /\ \A c \in WCalls : TraceHolds(wCall'[c], AttemptsAllowed')
      /\ \A a \in wAttempt' : RecordHolds(a, wCall')
      /\ \A d \in WDays : DayHolds(d, wCall', AttemptsAllowed', wReserved', wCommitted')
      /\ \A d \in WDays, t \in Alerting : AlertHolds(d, t, wAlerts', wCommitted')
      /\ OneCallPerKey(wCall')
  BY <1>1 DEF WireInv
<1> QED
  BY <1>1, <1>2 DEF WireInv

\* A job row of the adapter, by the fields a step sets.
LEMMA JobMoves ==
    ASSUME JobHolds(wJob), NEW job,
           NEW pc \in {"idle", "uploading", "creating", "observing"}, NEW calls \in Nat,
           NEW uploads \in Nat, NEW jobs \in Nat, NEW id \in Nat, NEW result \in Nat,
           job = [pc |-> pc, calls |-> calls, uploads |-> uploads, jobs |-> jobs, id |-> id,
                  result |-> result],
           uploads <= 1, jobs <= uploads, pc # "idle" => uploads = 1,
           pc = "uploading" => jobs = 0,
           pc \in {"uploading", "creating"} \/ uploads = 0 => result = 0,
           result # 0 => result = id
    PROVE  JobHolds(job)
BY DEF JobHolds

LEMMA JobKeeps == ASSUME WireInv, WJobNext PROVE WireInv'
<1>1. /\ UNCHANGED <<wPolicy, wCall, wReserved, wCommitted, wAlerts, wAttempt>>
      /\ wNow' \in 0 .. WHorizon
  BY DEF WJobNext, CallJob, UploadEnds, CreationEnds, Observe, wBooks, WireInv, WTypes
<1>2. JobHolds(wJob)
  BY DEF WireInv
<1> DEFINE j == wJob
<1>3. /\ j.pc \in {"idle", "uploading", "creating", "observing"} /\ j.calls \in Nat
      /\ j.uploads \in Nat /\ j.jobs \in Nat /\ j.id \in Nat /\ j.result \in Nat
      /\ j.uploads <= 1 /\ j.jobs <= j.uploads
      /\ (j.pc # "idle" => j.uploads = 1) /\ (j.pc = "uploading" => j.jobs = 0)
      /\ (j.pc \in {"uploading", "creating"} \/ j.uploads = 0 => j.result = 0)
      /\ (j.result # 0 => j.result = j.id)
  BY <1>2 DEF JobHolds
<1>4. j = [pc |-> j.pc, calls |-> j.calls, uploads |-> j.uploads, jobs |-> j.jobs, id |-> j.id,
           result |-> j.result]
  BY <1>2 DEF JobHolds
<1> HIDE DEF j
<1>5. ASSUME CallJob PROVE JobHolds(wJob')
  <2>1. CASE wJob' = [j EXCEPT !.calls = @ + 1]
    <3>1. wJob' = [wJob EXCEPT !.calls = @ + 1]
      BY <2>1 DEF j
    <3>2. wJob' \in [pc : {"idle", "uploading", "creating", "observing"}, calls : Nat,
                     uploads : Nat, jobs : Nat, id : Nat, result : Nat]
      BY <1>2, <3>1 DEF JobHolds
    <3>3. /\ wJob'.pc = wJob.pc /\ wJob'.uploads = wJob.uploads /\ wJob'.jobs = wJob.jobs
          /\ wJob'.id = wJob.id /\ wJob'.result = wJob.result
      BY <1>2, <3>1 DEF JobHolds
    <3> QED
      BY <1>2, <3>2, <3>3 DEF JobHolds
  <2>2. CASE JobUntouched /\ wJob' = [j EXCEPT !.calls = @ + 1, !.pc = "uploading",
                                               !.uploads = @ + 1]
    <3>1. wJob' = [pc |-> "uploading", calls |-> j.calls + 1, uploads |-> j.uploads + 1,
                   jobs |-> j.jobs, id |-> j.id, result |-> j.result]
      BY <1>4, <2>2
    <3>2. j.uploads = 0 /\ j.jobs = 0 /\ j.result = 0
      BY <1>3, <2>2 DEF JobUntouched, j
    <3> QED
      BY <1>2, <1>3, <3>1, <3>2, JobMoves
  <2> QED
    BY <1>5, <2>1, <2>2 DEF CallJob, j
<1>6. ASSUME UploadEnds PROVE JobHolds(wJob')
  <2>1. j.pc = "uploading"
    BY <1>6 DEF UploadEnds, j
  <2>2. CASE wJob' = [j EXCEPT !.pc = "creating", !.jobs = @ + 1]
    <3>1. wJob' = [pc |-> "creating", calls |-> j.calls, uploads |-> j.uploads,
                   jobs |-> j.jobs + 1, id |-> j.id, result |-> j.result]
      BY <1>4, <2>2
    <3>2. j.uploads = 1 /\ j.jobs = 0 /\ j.result = 0 /\ j.jobs + 1 \in Nat
      BY <1>3, <2>1
    <3> QED
      BY <1>2, <1>3, <3>1, <3>2, JobMoves
  <2>3. CASE wJob' = [j EXCEPT !.pc = "idle"]
    <3>1. wJob' = [pc |-> "idle", calls |-> j.calls, uploads |-> j.uploads,
                   jobs |-> j.jobs, id |-> j.id, result |-> j.result]
      BY <1>4, <2>3
    <3>2. j.uploads = 1 /\ j.jobs = 0 /\ j.result = 0
      BY <1>3, <2>1
    <3> QED
      BY <1>2, <1>3, <2>1, <3>1, <3>2, JobMoves
  <2> QED
    BY <1>6, <2>2, <2>3 DEF UploadEnds, j
<1>7. ASSUME CreationEnds PROVE JobHolds(wJob')
  <2>1. j.pc = "creating"
    BY <1>7 DEF CreationEnds, j
  <2>2. CASE wJob' = [j EXCEPT !.pc = "observing", !.id = j.jobs]
    <3>1. wJob' = [pc |-> "observing", calls |-> j.calls, uploads |-> j.uploads,
                   jobs |-> j.jobs, id |-> j.jobs, result |-> j.result]
      BY <1>4, <2>2
    <3> QED
      BY <1>2, <1>3, <2>1, <3>1, JobMoves
  <2>3. CASE wJob' = [j EXCEPT !.pc = "idle"]
    <3>1. wJob' = [pc |-> "idle", calls |-> j.calls, uploads |-> j.uploads,
                   jobs |-> j.jobs, id |-> j.id, result |-> j.result]
      BY <1>4, <2>3
    <3> QED
      BY <1>2, <1>3, <2>1, <3>1, JobMoves
  <2> QED
    BY <1>7, <2>2, <2>3 DEF CreationEnds, j
<1>8. ASSUME Observe PROVE JobHolds(wJob')
  <2>1. PICK id \in 1 .. WJobCalls + 1 :
          wJob' = IF OwnId(id) THEN [j EXCEPT !.pc = "idle", !.result = id]
                               ELSE [j EXCEPT !.pc = "idle"]
    BY <1>8 DEF Observe, j
  <2>2. j.pc = "observing" /\ id \in Nat \ {0}
    BY <1>8, WireConstants DEF Observe, j
  <2>3. CASE OwnId(id)
    <3>1. wJob' = [pc |-> "idle", calls |-> j.calls, uploads |-> j.uploads,
                   jobs |-> j.jobs, id |-> j.id, result |-> id]
      BY <1>4, <2>1, <2>3
    <3>2. id = j.id
      BY <2>3 DEF OwnId, j
    <3>3. j.uploads # 0
      BY <1>3, <2>2
    <3> QED
      BY <1>2, <1>3, <2>2, <3>1, <3>2, <3>3, JobMoves
  <2>4. CASE ~OwnId(id)
    <3>1. wJob' = [pc |-> "idle", calls |-> j.calls, uploads |-> j.uploads,
                   jobs |-> j.jobs, id |-> j.id, result |-> j.result]
      BY <1>4, <2>1, <2>4
    <3> QED
      BY <1>2, <1>3, <2>2, <3>1, JobMoves
  <2> QED
    BY <2>3, <2>4
<1> QED
  BY <1>1, <1>5, <1>6, <1>7, <1>8, WireRests DEF WJobNext

\* Books, records, alerts and jobs are what the calls make them, in every
\* reachable state of the controller and its adapters.
THEOREM WireInvariant == WSpec => []WireInv
<1>1. ASSUME WInit PROVE WireInv
  <2>1. wPolicy \in WPolicies /\ wNow = 0 /\ wNow \in 0 .. WHorizon
    BY <1>1, WireConstants DEF WInit
  <2>2. WDay \in Nat \ {0} /\ WHorizon \in Nat /\ WDaily \in Nat \ {0}
    BY WireConstants
  <2>3. WHorizon \div WDay \in Nat
    BY <2>2
  <2>4. 0 \in WDays
    BY <2>3 DEF WDays
  <2>5. NewTrace \in WTrace
    BY <2>4 DEF NewTrace, WTrace
  <2>6. WTypes
    BY <1>1, <2>1, <2>5 DEF WInit, WTypes
  <2>7. AttemptsAllowed \in Nat \ {0}
    BY <2>6, WireTypes
  <2>8. \A c \in WCalls : TraceHolds(wCall[c], AttemptsAllowed)
    BY <1>1, <2>7 DEF WInit, NewTrace, TraceHolds
  <2>9. ASSUME NEW d \in WDays
        PROVE  DayHolds(d, wCall, AttemptsAllowed, wReserved, wCommitted)
    <3>1. OpenSet(wCall, d) = {} /\ ChargeSet(wCall, AttemptsAllowed, d) = {}
      BY <1>1 DEF WInit, NewTrace, OpenSet, ChargeSet, OpenRow, DoneRow
    <3>2. wReserved[d] = 0 /\ wCommitted[d] = 0
      BY <1>1 DEF WInit
    <3> QED
      BY <2>2, <2>7, <3>1, <3>2, FS_EmptySet DEF DayHolds
  <2>10. ASSUME NEW d \in WDays, NEW t \in Alerting PROVE AlertHolds(d, t, wAlerts, wCommitted)
    BY <1>1, <2>2 DEF WInit, AlertHolds, Alerting
  <2>11. OneCallPerKey(wCall)
    BY <1>1 DEF WInit, NewTrace, OneCallPerKey
  <2>12. JobHolds(wJob)
    BY <1>1 DEF WInit, JobHolds
  <2>13. wAttempt = {}
    BY <1>1 DEF WInit
  <2> QED
    BY <2>6, <2>8, <2>9, <2>10, <2>11, <2>12, <2>13 DEF WireInv
<1>2. ASSUME WireInv, [WNext]_wVars PROVE WireInv'
  <2>1. CASE WCallNext
    <3>1. CASE WTick
      <4>1. wNow' \in 0 .. WHorizon
        BY <1>2, <3>1, WireConstants DEF WireInv, WTypes, WTick
      <4>2. UNCHANGED <<wPolicy, wCall, wReserved, wCommitted, wAlerts, wAttempt>> /\ JobHolds(wJob')
        BY <1>2, <3>1 DEF WTick, wBooks, WireInv
      <4> QED
        BY <1>2, <4>1, <4>2, WireRests
    <3>2. ASSUME NEW c \in WCalls, Reserve(c) PROVE WireInv'
      BY <1>2, <3>2, ReserveCallKeeps
    <3>3. ASSUME NEW c \in WCalls, Deny(c) PROVE WireInv'
      BY <1>2, <3>3, DenyKeeps
    <3>4. ASSUME NEW c \in WCalls,
                 \/ Prepare(c) \/ RefuseInput(c) \/ NotConnected(c) \/ RequestLeaves(c)
                 \/ TransportTimeout(c) \/ NetworkError(c) \/ HeadersArrive(c) \/ Answer(c)
                 \/ ControllerDeadline(c) \/ NextAttempt(c)
          PROVE  WireInv'
      BY <1>2, <3>4, AttemptKeeps
    <3> QED
      BY <2>1, <3>1, <3>2, <3>3, <3>4 DEF WCallNext
  <2>2. CASE WJobNext
    BY <1>2, <2>2, JobKeeps
  <2>3. CASE UNCHANGED wVars
    BY <1>2, <2>3, WireRests DEF wVars, WireInv, WTypes
  <2> QED
    BY <1>2, <2>1, <2>2, <2>3 DEF WNext
<1> QED
  BY <1>1, <1>2, PTL DEF WSpec

\* What the controller and its adapters say of a call is what happened: evidence
\* of sending, announced retries, the day's books within their limit, alerts
\* once, one job of an adapter.
THEOREM WireTold == WSpec => []CallsAreToldTruly
<1>1. ASSUME WireInv PROVE CallsAreToldTruly
  <2>1. EvidenceOfSendingIsTrue
    BY <1>1 DEF WireInv, RecordHolds, EvidenceHolds, EvidenceOfSendingIsTrue
  <2>2. RetriesAreAnnounced
    <3> SUFFICES ASSUME NEW a \in wAttempt
                 PROVE  a.retryable <=> Open(a.call) \/ a.attempt < wCall[a.call].attempt
      BY DEF RetriesAreAnnounced
    <3>1. RecordHolds(a, wCall)
      BY <1>1 DEF WireInv
    <3>2. wCall[a.call].attempt \in Nat
      BY <1>1, <3>1 DEF WireInv, WTypes, WTrace, RecordHolds
    <3> QED
      BY <3>1, <3>2 DEF RecordHolds, Open
  <2>3. ControllerBooksAddUp
    <3>1. ASSUME NEW d \in WDays
          PROVE  OpenOn(d) = OpenSet(wCall, d) /\ ChargesOn(d) = ChargeSet(wCall, AttemptsAllowed, d)
      <4>1. OpenOn(d) = OpenSet(wCall, d)
        BY DEF OpenOn, OpenSet, OpenRow, Open
      <4>2. ChargesOn(d) = ChargeSet(wCall, AttemptsAllowed, d)
        BY DEF ChargesOn, ChargeSet, DoneRow, Open, Begun
      <4> QED
        BY <4>1, <4>2
    <3>2. \A d \in WDays : DayHolds(d, wCall, AttemptsAllowed, wReserved, wCommitted)
      BY <1>1 DEF WireInv
    <3>3. \A c \in WCalls : wCall[c].charged \in 0 .. AttemptsAllowed
      BY <1>1, WireTypes DEF WireInv, WTypes, WTrace, TraceHolds
    <3>4. \A c, o \in WCalls : c # o /\ WKey[c] = WKey[o] => ~(Begun(c) /\ Begun(o))
      BY <1>1 DEF WireInv, OneCallPerKey, Begun
    <3> QED
      BY <3>1, <3>2, <3>3, <3>4 DEF ControllerBooksAddUp, DayHolds
  <2>4. AlertsAreGivenOnce
    BY <1>1 DEF WireInv, AlertHolds, AlertsAreGivenOnce, Reached
  <2>5. OneJobPerAdapter
    BY <1>1 DEF WireInv, JobHolds, OneJobPerAdapter
  <2> QED
    BY <2>1, <2>2, <2>3, <2>4, <2>5 DEF CallsAreToldTruly
<1> QED
  BY <1>1, WireInvariant, PTL

-----------------------------------------------------------------------------
(* Trends: groups and ideas.                                               *)

\* Groups of signals that share none and are not empty.
AreApart(groups, T) ==
    /\ groups \in Seq(SUBSET T)
    /\ \A i \in 1 .. Len(groups) : groups[i] # {}
    /\ \A i, j \in 1 .. Len(groups) : i # j => groups[i] \cap groups[j] = {}

LEMMA PlaceApart ==
    ASSUME NEW T, NEW groups, AreApart(groups, T), NEW U, T \subseteq U, NEW x \in U, x \notin T
    PROVE  AreApart(Place(groups, x), T \cup {x})
<1> DEFINE V == T \cup {x}
           near == {i \in DOMAIN groups : Likeness(x, groups[i]) >= TThreshold}
           best == CHOOSE i \in near : \A j \in near :
                   \/ Likeness(x, groups[j]) < Likeness(x, groups[i])
                   \/ Likeness(x, groups[j]) = Likeness(x, groups[i]) /\ i <= j
           joined == [groups EXCEPT ![best] = @ \cup {x}]
           added == Append(groups, {x})
<1>1. /\ Len(groups) \in Nat /\ DOMAIN groups = 1 .. Len(groups)
      /\ groups \in [1 .. Len(groups) -> SUBSET T]
  BY LenProperties DEF AreApart
<1>2. \A i \in 1 .. Len(groups) : groups[i] \subseteq T /\ groups[i] # {} /\ x \notin groups[i]
  BY <1>1 DEF AreApart
<1>3. Place(groups, x) = IF near = {} THEN added ELSE joined
  BY DEF Place
<1> HIDE DEF near, best
<1>4. AreApart(added, V)
  <2>1. groups \in Seq(SUBSET V) /\ {x} \in SUBSET V
    <3>1. groups \in [1 .. Len(groups) -> SUBSET V]
      BY <1>1
    <3> QED
      BY <1>1, <3>1, SeqDef
  <2>2. /\ added \in Seq(SUBSET V) /\ Len(added) = Len(groups) + 1
        /\ \A i \in 1 .. Len(groups) : added[i] = groups[i]
        /\ added[Len(groups) + 1] = {x}
    BY <2>1, AppendProperties
  <2> HIDE DEF added
  <2>3. \A i \in 1 .. Len(added) : i \in 1 .. Len(groups) \/ i = Len(groups) + 1
    BY <1>1, <2>2
  <2>4. \A i \in 1 .. Len(added) : added[i] # {}
    BY <1>2, <2>2, <2>3
  <2>5. ASSUME NEW i \in 1 .. Len(added), NEW j \in 1 .. Len(added), i # j
        PROVE  added[i] \cap added[j] = {}
    <3>1. i \in 1 .. Len(groups) /\ j \in 1 .. Len(groups) => groups[i] \cap groups[j] = {}
      BY <2>5 DEF AreApart
    <3> QED
      BY <1>2, <2>2, <2>3, <2>5, <3>1
  <2> QED
    BY <2>2, <2>4, <2>5 DEF AreApart
<1>5. AreApart(joined, V)
  <2>1. /\ joined \in [1 .. Len(groups) -> SUBSET V]
        /\ \A i \in 1 .. Len(groups) : joined[i] = IF i = best THEN groups[i] \cup {x} ELSE groups[i]
    BY <1>1
  <2> HIDE DEF joined
  <2>2. joined \in Seq(SUBSET V) /\ Len(joined) = Len(groups)
    BY <1>1, <2>1, FunctionIsList
  <2>3. \A i \in 1 .. Len(joined) : joined[i] # {}
    BY <1>2, <2>1, <2>2
  <2>4. ASSUME NEW i \in 1 .. Len(joined), NEW j \in 1 .. Len(joined), i # j
        PROVE  joined[i] \cap joined[j] = {}
    <3>1. groups[i] \cap groups[j] = {}
      BY <2>2, <2>4 DEF AreApart
    <3>2. i # best \/ j # best
      BY <2>4
    <3> QED
      BY <1>2, <2>1, <2>2, <3>1, <3>2
  <2> QED
    BY <2>2, <2>3, <2>4 DEF AreApart
<1> QED
  BY <1>3, <1>4, <1>5

\* The groups of some signals.
LEMMA GroupsApart ==
    ASSUME TrendConstants, NEW signals \in SUBSET TSignals
    PROVE  /\ Groups(signals) \subseteq (SUBSET signals) \ {{}}
           /\ IsFiniteSet(Groups(signals))
           /\ \A g, h \in Groups(signals) : g # h => g \cap h = {}
<1> DEFINE s == InOrder(signals, <)
           L == Len(s)
<1>1. signals \in SUBSET Nat /\ IsFiniteSet(signals)
  BY FS_Subset DEF TrendConstants
<1>2. /\ s \in Seq(signals) /\ L \in Nat
      /\ \A n \in 1 .. L : s[n] \in signals
      /\ \A m, n \in 1 .. L : s[m] = s[n] => m = n
  <2>1. /\ s \in Seq(signals)
        /\ \A m, n \in 1 .. L : s[m] = s[n] => m = n
    BY <1>1, NumbersInOrder
  <2> HIDE DEF s
  <2> QED
    BY <2>1, LenProperties
<1> HIDE DEF s
<1> DEFINE Steps(f) == f = [n \in 0 .. L |-> IF n = 0 THEN <<>> ELSE Place(f[n - 1], s[n])]
           Grows(f) == f[0] = <<>> /\ \A n \in 1 .. L : f[n] = Place(f[n - 1], s[n])
           Seen(n) == {s[m] : m \in 1 .. n}
<1>3. ASSUME NEW f, Grows(f) PROVE \A n \in 0 .. L : AreApart(f[n], Seen(n))
  <2> DEFINE G == {n \in 0 .. L : AreApart(f[n], Seen(n))}
  <2>1. 0 \in G
    <3>1. Seen(0) = {} /\ f[0] = <<>>
      BY <1>3
    <3>2. AreApart(<<>>, {})
      BY EmptySeq DEF AreApart
    <3>3. 0 \in 0 .. L
      BY <1>2
    <3> HIDE DEF Seen
    <3> QED
      BY <3>1, <3>2, <3>3
  <2>2. ASSUME NEW n \in 0 .. L - 1, n \in G PROVE n + 1 \in G
    <3>1. n \in Nat /\ n + 1 \in 1 .. L /\ n + 1 \in 0 .. L /\ (n + 1) - 1 = n
          /\ \A m \in 1 .. n : m \in 1 .. L /\ m # n + 1
      BY <1>2
    <3>2. f[n + 1] = Place(f[n], s[n + 1])
      BY <1>3, <3>1
    <3>3. s[n + 1] \notin Seen(n)
      BY <1>2, <3>1
    <3>4. Seen(n + 1) = Seen(n) \cup {s[n + 1]}
      <4>1. \A m : m \in 1 .. n + 1 <=> m \in 1 .. n \/ m = n + 1
        BY <3>1
      <4> QED
        BY <4>1
    <3>5. AreApart(f[n], Seen(n))
      BY <2>2
    <3> HIDE DEF Seen
    <3>6. AreApart(Place(f[n], s[n + 1]), Seen(n) \cup {s[n + 1]})
      BY <3>3, <3>5, PlaceApart
    <3> QED
      BY <3>1, <3>2, <3>4, <3>6
  <2> HIDE DEF G
  <2>3. \A n \in 0 .. L : n \in G
    BY <1>2, <2>1, <2>2, UpTo
  <2> QED
    BY <2>3 DEF G
<1>4. \E f : Steps(f)
  <2> DEFINE B == Seq(SUBSET signals)
             empty == <<>>
             step == [p \in (1 .. L) \X B |-> Place(p[2], s[p[1]])]
  <2>1. StaysIn(step, L, B)
    <3>1. ASSUME NEW g \in B, NEW x \in signals PROVE Place(g, x) \in B
      <4> DEFINE near == {i \in DOMAIN g : Likeness(x, g[i]) >= TThreshold}
                 best == CHOOSE i \in near : \A j \in near :
                            \/ Likeness(x, g[j]) < Likeness(x, g[i])
                            \/ Likeness(x, g[j]) = Likeness(x, g[i]) /\ i <= j
      <4>1. Place(g, x) = IF near = {} THEN Append(g, {x}) ELSE [g EXCEPT ![best] = @ \cup {x}]
        BY DEF Place
      <4> HIDE DEF near, best
      <4>2. Len(g) \in Nat /\ g \in [1 .. Len(g) -> SUBSET signals]
        BY LenProperties
      <4>3. [g EXCEPT ![best] = @ \cup {x}] \in [1 .. Len(g) -> SUBSET signals]
        BY <4>2
      <4>4. [g EXCEPT ![best] = @ \cup {x}] \in B
        BY <4>2, <4>3, FunctionIsList
      <4>5. Append(g, {x}) \in B
        BY AppendProperties
      <4> QED
        BY <4>1, <4>4, <4>5
    <3> HIDE DEF B
    <3> QED
      BY <1>2, <3>1 DEF StaysIn
  <2>2. empty \in B
    BY EmptySeq
  <2> HIDE DEF B, step, L, empty
  <2>3. PICK f : Follows(f, L, B, empty, step)
    <3>1. L \in Nat
      BY <1>2 DEF L
    <3> QED
      BY <2>1, <2>2, <3>1, StepsExist
  <2>4. ASSUME NEW i \in 1 .. L PROVE f[i] = Place(f[i - 1], s[i])
    <3>1. i - 1 \in 0 .. L
      BY <1>2
    <3>2. f[i - 1] \in B
      BY <2>3, <3>1 DEF Follows
    <3>3. step[<<i, f[i - 1]>>] = Place(f[i - 1], s[i])
      BY <3>2 DEF step
    <3> QED
      BY <2>3, <3>3 DEF Follows
  <2>5. \A i \in 0 .. L : i = 0 \/ i \in 1 .. L
    BY <1>2
  <2>6. Steps(f)
    BY <2>3, <2>4, <2>5 DEF L, empty, Follows
  <2> QED
    BY <2>6
<1> DEFINE last == CHOOSE f : Steps(f)
<1>5. Steps(last)
  BY <1>4
<1>6. Groups(signals) = ToSet(last[L])
  BY DEF Groups, s
<1> HIDE DEF last
<1>7. Grows(last)
  <2>1. 0 \in 0 .. L /\ \A n \in 1 .. L : n \in 0 .. L /\ n # 0
    BY <1>2
  <2>2. last[0] = <<>>
    BY <1>5, <2>1
  <2>3. ASSUME NEW n \in 1 .. L PROVE last[n] = Place(last[n - 1], s[n])
    BY <1>5, <2>1
  <2> QED
    BY <2>2, <2>3
<1>8. AreApart(last[L], Seen(L)) /\ Seen(L) \subseteq signals
  <2>1. L \in 0 .. L
    BY <1>2
  <2>2. Seen(L) \subseteq signals
    BY <1>2
  <2> HIDE DEF Seen, Grows
  <2> QED
    BY <1>3, <1>7, <2>1, <2>2
<1> DEFINE t == last[L]
<1> HIDE DEF Seen, t
<1>9. /\ t \in Seq(SUBSET Seen(L))
      /\ \A i \in 1 .. Len(t) : t[i] # {}
      /\ \A i, j \in 1 .. Len(t) : i # j => t[i] \cap t[j] = {}
  BY <1>8 DEF AreApart, t
<1>10. DOMAIN t = 1 .. Len(t) /\ IsFiniteSet(ToSet(t)) /\ Groups(signals) = ToSet(t)
  BY <1>6, <1>9, IdsOfList, LenProperties DEF t
<1>11. ASSUME NEW g \in Groups(signals) PROVE \E i \in 1 .. Len(t) : g = t[i] /\ t[i] \subseteq signals
  BY <1>8, <1>9, <1>10 DEF ToSet
<1> QED
  BY <1>9, <1>10, <1>11

\* The topic that names a group is one of its signals'.
LEMMA KeyOfGroup ==
    ASSUME TrendConstants, NEW group \in SUBSET TSignals, group # {}
    PROVE  KeyOf(group) \in TKeys
<1> DEFINE T == {TTopic[s] : s \in group}
           count(t) == Cardinality({s \in group : TTopic[s] = t})
           R == {p \in T \X T : count(p[2]) < count(p[1])
                                 \/ (count(p[2]) = count(p[1]) /\ p[1] < p[2])}
<1>1. IsFiniteSet(group) /\ \A s \in group : s \in TSignals /\ TTopic[s] \in Nat
  BY FS_Subset DEF TrendConstants
<1>2. IsFiniteSet(T) /\ T # {} /\ T \subseteq TKeys /\ \A t \in T : t \in Nat
  <2>1. IsFiniteSet(T)
    BY <1>1, FiniteImage
  <2> QED
    BY <1>1, <2>1 DEF TKeys
<1>3. \A t : count(t) \in Nat
  <2> SUFFICES ASSUME NEW t PROVE count(t) \in Nat
    OBVIOUS
  <2> DEFINE C == {s \in group : TTopic[s] = t}
  <2>1. C \subseteq group
    OBVIOUS
  <2> HIDE DEF C
  <2>2. Cardinality(C) \in Nat
    BY <1>1, <2>1, FS_Subset, FS_CardinalityType
  <2> QED
    BY <2>2 DEF C
<1>4. KeyOf(group) = CHOOSE t \in T : \A u \in T :
                        count(u) < count(t) \/ (count(u) = count(t) /\ t <= u)
  BY DEF KeyOf
<1> HIDE DEF count, T
<1>5. IsOrder(T, R)
  <2>1. \A x, y \in T : <<x, y>> \in R <=> count(y) < count(x) \/ (count(y) = count(x) /\ x < y)
    OBVIOUS
  <2> HIDE DEF R
  <2> QED
    BY <1>2, <1>3, <2>1 DEF IsOrder
<1>6. PICK t \in T : \A u \in T : u = t \/ <<t, u>> \in R
  <2> HIDE DEF R
  <2> QED
    BY <1>2, <1>5, FirstOf
<1>7. \A u \in T : count(u) < count(t) \/ (count(u) = count(t) /\ t <= u)
  <2>1. \A x, y \in T : <<x, y>> \in R => count(y) < count(x) \/ (count(y) = count(x) /\ x < y)
    OBVIOUS
  <2> HIDE DEF R
  <2> SUFFICES ASSUME NEW u \in T PROVE count(u) < count(t) \/ (count(u) = count(t) /\ t <= u)
    OBVIOUS
  <2>2. CASE u = t
    <3>1. t <= u
      BY <1>2, <2>2
    <3> QED
      BY <2>2, <3>1
  <2>3. CASE u # t
    <3>1. count(u) < count(t) \/ (count(u) = count(t) /\ t < u)
      BY <1>6, <2>1, <2>3
    <3> QED
      BY <1>2, <3>1
  <2> QED
    BY <2>2, <2>3
<1>8. KeyOf(group) \in T
  BY <1>4, <1>7
<1> QED
  BY <1>2, <1>8

\* The keys of some groups and the group of each.
LEMMA DraftedGroups ==
    ASSUME TrendConstants, NEW signals \in SUBSET TSignals, NEW groups, groups = Groups(signals)
    PROVE  /\ Drafted(groups) \subseteq TKeys /\ IsFiniteSet(Drafted(groups))
           /\ \A k \in Drafted(groups) :
                 /\ GroupOf(groups, k) \in groups /\ KeyOf(GroupOf(groups, k)) = k
                 /\ GroupOf(groups, k) \in SUBSET TSignals
                 /\ TScoreOf(GroupOf(groups, k)) \in Nat
           /\ \A j, k \in Drafted(groups) : j # k => GroupOf(groups, j) \cap GroupOf(groups, k) = {}
<1>1. /\ groups \subseteq (SUBSET signals) \ {{}} /\ IsFiniteSet(groups)
      /\ \A g, h \in groups : g # h => g \cap h = {}
  BY GroupsApart
<1>2. Drafted(groups) \subseteq TKeys
  BY <1>1, KeyOfGroup DEF Drafted
<1>3. IsFiniteSet(Drafted(groups))
  <2> DEFINE e == [g \in groups |-> KeyOf(g)]
  <2>1. Drafted(groups) = {e[g] : g \in groups}
    BY DEF Drafted
  <2> HIDE DEF e
  <2> QED
    BY <1>1, <2>1, FiniteImage
<1>4. ASSUME NEW k \in Drafted(groups)
      PROVE  GroupOf(groups, k) \in groups /\ KeyOf(GroupOf(groups, k)) = k
  <2>1. \E g \in groups : KeyOf(g) = k
    BY DEF Drafted
  <2> QED
    BY <2>1 DEF GroupOf
<1>5. \A g \in groups : g \in SUBSET TSignals /\ TScoreOf(g) \in Nat
  BY <1>1 DEF TrendConstants
<1>6. ASSUME NEW j \in Drafted(groups), NEW k \in Drafted(groups), j # k
      PROVE  GroupOf(groups, j) \cap GroupOf(groups, k) = {}
  <2>1. GroupOf(groups, j) # GroupOf(groups, k)
    BY <1>4, <1>6
  <2>2. GroupOf(groups, j) \in groups /\ GroupOf(groups, k) \in groups
    BY <1>4
  <2> DEFINE a == GroupOf(groups, j)
             b == GroupOf(groups, k)
  <2>3. a # b /\ a \in groups /\ b \in groups
    BY <2>1, <2>2
  <2> HIDE DEF a, b
  <2>4. a \cap b = {}
    BY <1>1, <2>3
  <2> QED
    BY <2>4 DEF a, b
<1>7. \A k \in Drafted(groups) : /\ GroupOf(groups, k) \in SUBSET TSignals
                                 /\ TScoreOf(GroupOf(groups, k)) \in Nat
  BY <1>4, <1>5
<1> QED
  BY <1>2, <1>3, <1>4, <1>6, <1>7

\* The best of them, a list.
LEMMA BestListed ==
    ASSUME TrendConstants, NEW signals \in SUBSET TSignals
    PROVE  IsListed(Best(Groups(signals)))
<1> DEFINE groups == Groups(signals)
           D == Drafted(groups)
           score == [k \in D |-> TScoreOf(GroupOf(groups, k))]
           ranked == InOrder(D, LAMBDA j, k : score[j] > score[k] \/ (score[j] = score[k] /\ j < k))
           limit == (TTopN + TPerCluster - 1) \div TPerCluster
           m == IF limit < Len(ranked) THEN limit ELSE Len(ranked)
<1>1. Best(groups) = SubSeq(ranked, 1, m)
  BY DEF Best
<1>2. IsFiniteSet(D)
  BY DraftedGroups
<1> HIDE DEF D
<1>3. Cardinality(D) \in Nat
  BY <1>2, FS_CardinalityType
<1> DEFINE V == {ranked[n] : n \in 1 .. Cardinality(D)}
<1>4. ranked \in [1 .. Cardinality(D) -> V]
  <2>1. \A n \in 1 .. Cardinality(D) : ranked[n] \in V
    OBVIOUS
  <2>2. \E e : ranked = [n \in 1 .. Cardinality(D) |-> e[n]]
    <3> DEFINE before(x) == {y \in D : score[y] > score[x] \/ (score[y] = score[x] /\ y < x)}
               e == [n \in 1 .. Cardinality(D) |-> CHOOSE x \in D : Cardinality(before(x)) = n - 1]
    <3>1. ranked = e
      BY DEF InOrder
    <3>2. e = [n \in 1 .. Cardinality(D) |-> e[n]]
      <4> HIDE DEF before
      <4> QED
        OBVIOUS
    <3> HIDE DEF ranked, e
    <3> QED
      BY <3>1, <3>2
  <2> HIDE DEF ranked, V
  <2> QED
    BY <2>1, <2>2
<1> HIDE DEF ranked, V
<1>5. ranked \in Seq(V) /\ Len(ranked) = Cardinality(D)
  BY <1>3, <1>4, FunctionIsList
<1>6. m \in 0 .. Len(ranked)
  <2>1. limit \in Nat
    <3>1. TTopN \in Nat /\ TPerCluster \in Nat \ {0}
      BY DEF TrendConstants
    <3> QED
      BY <3>1
  <2> HIDE DEF limit
  <2> QED
    BY <1>3, <1>5, <2>1
<1> HIDE DEF m
<1> DEFINE b == SubSeq(ranked, 1, m)
<1>7. b \in Seq(V)
  BY <1>5, <1>6, SubSeqProperties
<1> HIDE DEF b
<1>8. IsListed(b)
  BY <1>7, ListIsListed
<1> QED
  BY <1>1, <1>8 DEF b

-----------------------------------------------------------------------------
(* Trends: the inductive invariant.                                        *)

\* The variants a list of ideas has of one version of a cluster, and whether no
\* more are asked for.
There(ideas, key, version) ==
    {ideas[i].variant : i \in {j \in DOMAIN ideas : ideas[j].key = key /\ ideas[j].version = version}}
IsFull(ideas, key, version) ==
    \/ Cardinality(There(ideas, key, version)) >= TPerCluster
    \/ 1 .. TPerCluster \subseteq There(ideas, key, version)

RefresherRow(row) ==
    /\ row \in [pc : {"idle", "ideas"}, todo : {row.todo}, stale : BOOLEAN]
    /\ IsListed(row.todo)

TrendTypes ==
    /\ tSignals \in SUBSET TSignals
    /\ tCluster = [k \in TKeys |-> tCluster[k]] /\ \A k \in TKeys : tCluster[k].version \in Nat
    /\ tLinks = [k \in TKeys |-> tLinks[k]] /\ tScore = [k \in TKeys |-> tScore[k]]
    /\ IsListed(tIdeas)
    /\ tRefresher = [c \in TRefreshers |-> tRefresher[c]]
    /\ \A c \in TRefreshers : RefresherRow(tRefresher[c])
    /\ tFresh \subseteq TKeys

\* The rows are what a refresh would make of the signals there are.
Current ==
    LET groups == Groups(tSignals) IN
    \A k \in Drafted(groups) :
        /\ tCluster[k].version # 0 /\ tCluster[k].columns = Columns(GroupOf(groups, k))
        /\ tLinks[k] = GroupOf(groups, k) /\ tScore[k] = TScoreOf(GroupOf(groups, k))
FullKeys == {k \in ToSet(Best(Groups(tSignals))) : IsFull(tIdeas, k, tCluster[k].version)}

\* A refresh nothing disturbed has current rows, and of its clusters only those
\* still to do lack ideas.
UndisturbedHolds(row) ==
    row.pc = "ideas" /\ ~row.stale =>
        /\ Current
        /\ ToSet(row.todo) \subseteq ToSet(Best(Groups(tSignals)))
        /\ ToSet(Best(Groups(tSignals))) \subseteq FullKeys \cup ToSet(row.todo)

\* The answers since something changed are the one a refresh would give now.
AnswersHold ==
    tAnswers # {} =>
        Current /\ ToSet(Best(Groups(tSignals))) \subseteq FullKeys /\ tAnswers = {Ranked}

TrendInv ==
    /\ TrendTypes
    /\ \A c \in TRefreshers : UndisturbedHolds(tRefresher[c])
    /\ AnswersHold
    /\ FreshClustersAreDisjoint

LEMMA NothingMissing ==
    ASSUME NEW key, IsFull(tIdeas, key, tCluster[key].version)
    PROVE  Missing(key, TPerCluster) = {}
BY DEF IsFull, There, Missing

\* Ideas of the missing variants are added to those there are.
LEMMA IdeasAdded ==
    ASSUME IsListed(tIdeas), NEW key, NEW count \in Nat, NEW more, more = WithIdeas(key, count)
    PROVE  /\ IsListed(more) /\ Len(tIdeas) \in Nat /\ Len(more) \in Nat /\ Len(tIdeas) <= Len(more)
           /\ \A i \in 1 .. Len(tIdeas) : more[i] = tIdeas[i]
           /\ \A v \in Missing(key, count) : \E i \in 1 .. Len(more) :
                 more[i].key = key /\ more[i].version = tCluster[key].version /\ more[i].variant = v
           /\ Missing(key, count) = {} => more = tIdeas
<1> DEFINE M == Missing(key, count)
           idea(v) == [key |-> key, version |-> tCluster[key].version, variant |-> v,
                       score |-> TBase[v] + TScoreOf(tLinks[key])]
           new == InOrder(M, <)
           t == [i \in DOMAIN new |-> idea(new[i])]
           S == {tIdeas[n] : n \in DOMAIN tIdeas} \cup {idea(v) : v \in M}
<1>1. more = tIdeas \o t
  BY DEF WithIdeas
<1>2. M \in SUBSET Nat /\ IsFiniteSet(M)
  <2>1. M \subseteq 1 .. count
    BY DEF Missing
  <2>2. IsFiniteSet(1 .. count)
    <3>1. 1 \in Int /\ count \in Int
      OBVIOUS
    <3> QED
      BY <3>1, FS_Interval
  <2> HIDE DEF M
  <2>3. M \in SUBSET Nat
    BY <2>1
  <2> QED
    BY <2>1, <2>2, <2>3, FS_Subset
<1> HIDE DEF M
<1>3. /\ new \in Seq(M) /\ Len(new) \in Nat /\ DOMAIN new = 1 .. Len(new)
      /\ \A v \in M : \E n \in 1 .. Len(new) : new[n] = v
      /\ \A n \in 1 .. Len(new) : new[n] \in M
  <2>1. /\ new \in Seq(M)
        /\ \A v \in M : \E n \in 1 .. Len(new) : new[n] = v
    BY <1>2, NumbersInOrder
  <2> HIDE DEF new
  <2> QED
    BY <2>1, LenProperties
<1> HIDE DEF new
<1>4. /\ t \in [1 .. Len(new) -> S]
      /\ \A n \in 1 .. Len(new) : t[n] = idea(new[n])
  <2>1. \A v \in M : idea(v) \in S
    OBVIOUS
  <2> HIDE DEF S, idea
  <2> QED
    BY <1>3, <2>1
<1> HIDE DEF t
<1>5. t \in Seq(S) /\ Len(t) = Len(new)
  BY <1>3, <1>4, FunctionIsList
<1>6. tIdeas \in Seq(S) /\ Len(tIdeas) \in Nat
  <2>1. tIdeas \in Seq({tIdeas[n] : n \in DOMAIN tIdeas})
    BY DEF IsListed
  <2>2. {tIdeas[n] : n \in DOMAIN tIdeas} \subseteq S
    OBVIOUS
  <2> HIDE DEF S
  <2> QED
    BY <2>1, <2>2, SeqDef, LenProperties
<1> HIDE DEF S
<1>7. /\ more \in Seq(S) /\ Len(more) = Len(tIdeas) + Len(new)
      /\ \A i \in 1 .. Len(tIdeas) + Len(new) :
            more[i] = IF i <= Len(tIdeas) THEN tIdeas[i] ELSE t[i - Len(tIdeas)]
  <2> DEFINE w == tIdeas \o t
  <2>1. /\ w \in Seq(S) /\ Len(w) = Len(tIdeas) + Len(t)
        /\ \A i \in 1 .. Len(tIdeas) + Len(t) :
              w[i] = IF i <= Len(tIdeas) THEN tIdeas[i] ELSE t[i - Len(tIdeas)]
    BY <1>5, <1>6, ConcatProperties
  <2> HIDE DEF w
  <2>2. more = w
    BY <1>1 DEF w
  <2> QED
    BY <1>5, <2>1, <2>2
<1>8. IsListed(more)
  BY <1>7, ListIsListed
<1>9. ASSUME NEW v \in M
      PROVE  \E i \in 1 .. Len(more) :
                more[i].key = key /\ more[i].version = tCluster[key].version /\ more[i].variant = v
  <2>1. PICK n \in 1 .. Len(new) : new[n] = v
    BY <1>3
  <2>2. Len(tIdeas) + n \in 1 .. Len(more) /\ ~(Len(tIdeas) + n <= Len(tIdeas))
        /\ (Len(tIdeas) + n) - Len(tIdeas) = n
    BY <1>3, <1>6, <1>7
  <2>3. more[Len(tIdeas) + n] = idea(v)
    BY <1>4, <1>7, <2>1, <2>2
  <2> QED
    BY <2>2, <2>3
<1>10. ASSUME M = {} PROVE more = tIdeas
  <2>1. Len(new) = 0
    <3>1. \A n \in 1 .. Len(new) : FALSE
      BY <1>3, <1>10
    <3> QED
      BY <1>3, <3>1
  <2>2. t = <<>>
    BY <1>5, <2>1, EmptySeq
  <2> QED
    BY <1>1, <1>6, <2>2, ConcatEmptySeq
<1>11. Len(more) \in Nat /\ Len(tIdeas) <= Len(more) /\ \A i \in 1 .. Len(tIdeas) : more[i] = tIdeas[i]
  BY <1>3, <1>6, <1>7
<1> QED
  BY <1>6, <1>8, <1>9, <1>10, <1>11 DEF M

\* A cluster that has its ideas keeps them.
LEMMA FullStays ==
    ASSUME TrendConstants, NEW ideas, NEW more, IsListed(ideas), IsListed(more),
           Len(ideas) \in Nat, Len(more) \in Nat, Len(ideas) <= Len(more),
           \A i \in 1 .. Len(ideas) : more[i] = ideas[i],
           NEW key, NEW version
    PROVE  /\ There(ideas, key, version) \subseteq There(more, key, version)
           /\ IsFull(ideas, key, version) => IsFull(more, key, version)
<1>1. DOMAIN ideas = 1 .. Len(ideas) /\ DOMAIN more = 1 .. Len(more)
  BY LenProperties DEF IsListed
<1>2. \A i \in DOMAIN ideas : i \in DOMAIN more /\ more[i] = ideas[i]
  BY <1>1
<1>3. There(ideas, key, version) \subseteq There(more, key, version)
  BY <1>2 DEF There
<1>4. IsFiniteSet(There(more, key, version))
  <2> DEFINE at == {j \in DOMAIN more : more[j].key = key /\ more[j].version = version}
             e == [i \in at |-> more[i].variant]
  <2>1. IsFiniteSet(at)
    <3>1. at \subseteq 1 .. Len(more)
      BY <1>1
    <3>2. IsFiniteSet(1 .. Len(more))
      <4>1. 1 \in Int /\ Len(more) \in Int
        OBVIOUS
      <4> QED
        BY <4>1, FS_Interval
    <3> HIDE DEF at
    <3> QED
      BY <3>1, <3>2, FS_Subset
  <2>2. There(more, key, version) = {e[i] : i \in at}
    BY DEF There
  <2> HIDE DEF e, at
  <2> QED
    BY <2>1, <2>2, FiniteImage
<1> DEFINE a == There(ideas, key, version)
           b == There(more, key, version)
<1> HIDE DEF a, b
<1>5. Cardinality(a) \in Nat /\ Cardinality(b) \in Nat /\ Cardinality(a) <= Cardinality(b)
  BY <1>3, <1>4, FS_Subset, FS_CardinalityType DEF a, b
<1>6. TPerCluster \in Nat
  BY DEF TrendConstants
<1>7. Cardinality(a) >= TPerCluster => Cardinality(b) >= TPerCluster
  BY <1>5, <1>6
<1> QED
  BY <1>3, <1>7 DEF IsFull, a, b

LEMMA CurrentStays ==
    ASSUME Current, UNCHANGED <<tSignals, tOld, tCluster, tLinks, tScore>>
    PROVE  Current'
<1>1. \A g : Columns(g)' = Columns(g)
  BY DEF Columns
<1> QED
  BY <1>1 DEF Current

\* After what disturbs them no refresh and no answer promises anything.
LEMMA DisturbedHold ==
    ASSUME TrendTypes, Disturb
    PROVE  /\ tRefresher' = [c \in TRefreshers |-> tRefresher'[c]]
           /\ \A c \in TRefreshers : RefresherRow(tRefresher[c])' /\ UndisturbedHolds(tRefresher[c])'
           /\ AnswersHold'
<1>1. tRefresher' = [c \in TRefreshers |-> tRefresher'[c]]
  BY DEF Disturb
<1>2. ASSUME NEW c \in TRefreshers
      PROVE  RefresherRow(tRefresher[c])' /\ UndisturbedHolds(tRefresher[c])'
  <2> DEFINE row == tRefresher[c]
             new == tRefresher'[c]
  <2>1. new = IF row.pc = "idle" THEN TIdle ELSE [row EXCEPT !.stale = TRUE]
    BY DEF Disturb
  <2>2. row \in [pc : {"idle", "ideas"}, todo : {row.todo}, stale : BOOLEAN] /\ IsListed(row.todo)
    BY DEF TrendTypes, RefresherRow
  <2>3. IsListed(<<>>)
    BY EmptySeq DEF IsListed
  <2>4. RefresherRow(new) /\ (new.pc = "idle" \/ new.stale)
    <3> HIDE DEF row, new
    <3> QED
      BY <2>1, <2>2, <2>3 DEF RefresherRow, TIdle
  <2> QED
    BY <2>4 DEF RefresherRow, UndisturbedHolds
<1>3. AnswersHold'
  BY DEF AnswersHold, Disturb
<1> QED
  BY <1>1, <1>2, <1>3

LEMMA RecordCollectionHolds ==
    ASSUME TrendInv, NEW signals \in SUBSET TSignals, RecordCollection(signals)
    PROVE  TrendInv'
<1>1. TrendTypes /\ Disturb
  BY DEF TrendInv, RecordCollection
<1>2. /\ tRefresher' = [c \in TRefreshers |-> tRefresher'[c]]
      /\ \A c \in TRefreshers : RefresherRow(tRefresher[c])' /\ UndisturbedHolds(tRefresher[c])'
      /\ AnswersHold'
  BY <1>1, DisturbedHold
<1>3. TrendTypes'
  BY <1>1, <1>2 DEF TrendTypes, RecordCollection
<1>4. FreshClustersAreDisjoint'
  BY DEF TrendInv, RecordCollection, FreshClustersAreDisjoint
<1> QED
  BY <1>2, <1>3, <1>4 DEF TrendInv

LEMMA SignalsAgeHolds ==
    ASSUME TrendInv, SignalsAge
    PROVE  TrendInv'
<1>1. TrendTypes /\ Disturb
  BY DEF TrendInv, SignalsAge
<1>2. /\ tRefresher' = [c \in TRefreshers |-> tRefresher'[c]]
      /\ \A c \in TRefreshers : RefresherRow(tRefresher[c])' /\ UndisturbedHolds(tRefresher[c])'
      /\ AnswersHold'
  BY <1>1, DisturbedHold
<1>3. TrendTypes'
  BY <1>1, <1>2 DEF TrendTypes, SignalsAge
<1>4. FreshClustersAreDisjoint'
  BY DEF TrendInv, SignalsAge, FreshClustersAreDisjoint
<1> QED
  BY <1>2, <1>3, <1>4 DEF TrendInv

LEMMA AskForIdeasHolds ==
    ASSUME TrendConstants, StrategyScores, TrendInv, NEW key \in TKeys, NEW count \in DOMAIN TBase,
           AskForIdeas(key, count)
    PROVE  TrendInv'
<1>1. TrendTypes /\ Disturb
  BY DEF TrendInv, AskForIdeas
<1>2. /\ tRefresher' = [c \in TRefreshers |-> tRefresher'[c]]
      /\ \A c \in TRefreshers : RefresherRow(tRefresher[c])' /\ UndisturbedHolds(tRefresher[c])'
      /\ AnswersHold'
  BY <1>1, DisturbedHold
<1>3. count \in Nat
  BY LenProperties DEF StrategyScores
<1>4. IsListed(tIdeas')
  <2>1. IsListed(tIdeas) /\ tIdeas' = WithIdeas(key, count)
    BY DEF TrendInv, TrendTypes, AskForIdeas
  <2> QED
    BY <1>3, <2>1, IdeasAdded
<1>5. TrendTypes'
  BY <1>1, <1>2, <1>4 DEF TrendTypes, AskForIdeas
<1>6. FreshClustersAreDisjoint'
  BY DEF TrendInv, AskForIdeas, FreshClustersAreDisjoint
<1> QED
  BY <1>2, <1>5, <1>6 DEF TrendInv

LEMMA RefreshClustersHolds ==
    ASSUME TrendConstants, TrendInv, NEW c \in TRefreshers, RefreshClusters(c)
    PROVE  TrendInv'
<1> DEFINE groups == Groups(tSignals)
           D == Drafted(groups)
           of(k) == GroupOf(groups, k)
           begun == [pc |-> "ideas", todo |-> Best(groups), stale |-> FALSE]
<1>1. TrendTypes
  BY DEF TrendInv
<1>2. /\ tCluster' = [k \in TKeys |-> IF k \in D THEN Refreshed(tCluster[k], Columns(of(k))) ELSE tCluster[k]]
      /\ tLinks' = [k \in TKeys |-> IF k \in D THEN of(k) ELSE tLinks[k]]
      /\ tScore' = [k \in TKeys |-> IF k \in D THEN TScoreOf(of(k)) ELSE tScore[k]]
      /\ tFresh' = D /\ tRefresher' = [tRefresher EXCEPT ![c] = begun]
      /\ UNCHANGED <<tSignals, tOld, tIdeas, tRuns, tAnswers>>
  BY DEF RefreshClusters, Relinked
<1>3. /\ tSignals \in SUBSET TSignals
      /\ tCluster = [k \in TKeys |-> tCluster[k]] /\ \A k \in TKeys : tCluster[k].version \in Nat
      /\ tLinks = [k \in TKeys |-> tLinks[k]] /\ tScore = [k \in TKeys |-> tScore[k]]
      /\ IsListed(tIdeas) /\ tRefresher = [d \in TRefreshers |-> tRefresher[d]]
      /\ \A d \in TRefreshers : RefresherRow(tRefresher[d])
  BY <1>1 DEF TrendTypes
<1>4. D \subseteq TKeys /\ \A j, k \in D : j # k => of(j) \cap of(k) = {}
  BY <1>3, DraftedGroups
<1>5. IsListed(Best(groups))
  BY <1>3, BestListed
<1>6. Groups(tSignals') = groups /\ \A g : Columns(g)' = Columns(g)
  BY <1>2 DEF Columns
<1> HIDE DEF groups, D, of
<1>7. ASSUME NEW k \in D
      PROVE  /\ tCluster'[k] = Refreshed(tCluster[k], Columns(of(k)))
             /\ tCluster'[k].version \in Nat \ {0} /\ tCluster'[k].columns = Columns(of(k))
             /\ tLinks'[k] = of(k) /\ tScore'[k] = TScoreOf(of(k))
  <2>1. k \in TKeys /\ tCluster[k].version \in Nat
    BY <1>3, <1>4
  <2>2. tCluster'[k] = Refreshed(tCluster[k], Columns(of(k)))
        /\ tLinks'[k] = of(k) /\ tScore'[k] = TScoreOf(of(k))
    BY <1>2, <2>1
  <2>3. /\ Refreshed(tCluster[k], Columns(of(k))).version \in Nat \ {0}
        /\ Refreshed(tCluster[k], Columns(of(k))).columns = Columns(of(k))
    BY <2>1 DEF Refreshed
  <2> QED
    BY <2>2, <2>3
<1>8. Current'
  BY <1>6, <1>7 DEF Current, groups, D, of
<1>9. ASSUME Current PROVE tCluster' = tCluster /\ tLinks' = tLinks /\ tScore' = tScore
  <2>1. \A k \in D : /\ tCluster[k].version # 0 /\ tCluster[k].columns = Columns(of(k))
                     /\ tLinks[k] = of(k) /\ tScore[k] = TScoreOf(of(k))
    BY <1>9 DEF Current, groups, D, of
  <2>2. \A k \in D : Refreshed(tCluster[k], Columns(of(k))) = tCluster[k]
    BY <2>1 DEF Refreshed
  <2>3. tCluster' = [k \in TKeys |-> tCluster[k]]
    BY <1>2, <2>2
  <2>4. tLinks' = [k \in TKeys |-> tLinks[k]] /\ tScore' = [k \in TKeys |-> tScore[k]]
    BY <1>2, <2>1
  <2> QED
    BY <1>3, <2>3, <2>4
<1>10. RefresherRow(begun) /\ \A d \in TRefreshers : tRefresher'[d] = IF d = c THEN begun ELSE tRefresher[d]
  BY <1>2, <1>3, <1>5 DEF RefresherRow
<1>11. TrendTypes'
  <2>1. \A k \in TKeys : tCluster'[k].version \in Nat
    BY <1>2, <1>3, <1>7
  <2>2. tRefresher' = [d \in TRefreshers |-> tRefresher'[d]]
    BY <1>2, <1>3
  <2>3. \A d \in TRefreshers : RefresherRow(tRefresher'[d])
    BY <1>3, <1>10
  <2>4. /\ tCluster' = [k \in TKeys |-> tCluster'[k]]
        /\ tLinks' = [k \in TKeys |-> tLinks'[k]] /\ tScore' = [k \in TKeys |-> tScore'[k]]
    BY <1>2
  <2> QED
    BY <1>2, <1>3, <1>4, <2>1, <2>2, <2>3, <2>4 DEF TrendTypes
<1>12. ASSUME NEW d \in TRefreshers PROVE UndisturbedHolds(tRefresher[d])'
  <2>1. CASE d = c
    <3>1. tRefresher'[d] = begun /\ Best(Groups(tSignals')) = begun.todo
      BY <1>6, <1>10, <2>1
    <3> QED
      BY <1>8, <3>1 DEF UndisturbedHolds
  <2>2. CASE d # c
    <3> SUFFICES ASSUME tRefresher'[d].pc = "ideas", ~tRefresher'[d].stale
                 PROVE  /\ Current'
                        /\ ToSet(tRefresher'[d].todo) \subseteq ToSet(Best(Groups(tSignals')))
                        /\ ToSet(Best(Groups(tSignals'))) \subseteq FullKeys' \cup ToSet(tRefresher'[d].todo)
      BY DEF UndisturbedHolds
    <3>1. tRefresher'[d] = tRefresher[d]
      BY <1>10, <2>2
    <3>2. /\ Current
          /\ ToSet(tRefresher[d].todo) \subseteq ToSet(Best(groups))
          /\ ToSet(Best(groups)) \subseteq FullKeys \cup ToSet(tRefresher[d].todo)
      BY <3>1 DEF TrendInv, UndisturbedHolds, groups
    <3>3. FullKeys' = FullKeys
      BY <1>2, <1>9, <3>2 DEF FullKeys
    <3> QED
      BY <1>6, <1>8, <3>1, <3>2, <3>3
  <2> QED
    BY <2>1, <2>2
<1>13. AnswersHold'
  <2> SUFFICES ASSUME tAnswers' # {}
               PROVE  /\ Current'
                      /\ ToSet(Best(Groups(tSignals'))) \subseteq FullKeys'
                      /\ tAnswers' = {Ranked'}
    BY DEF AnswersHold
  <2>1. Current /\ ToSet(Best(groups)) \subseteq FullKeys /\ tAnswers = {Ranked}
    BY <1>2 DEF TrendInv, AnswersHold, groups
  <2>2. FullKeys' = FullKeys
    BY <1>2, <1>9, <2>1 DEF FullKeys
  <2>3. Ranked' = Ranked
    BY <1>2, <1>9, <2>1 DEF Ranked
  <2> QED
    BY <1>2, <1>6, <1>8, <2>1, <2>2, <2>3
<1>14. FreshClustersAreDisjoint'
  BY <1>2, <1>4, <1>7 DEF FreshClustersAreDisjoint
<1> QED
  BY <1>11, <1>12, <1>13, <1>14 DEF TrendInv

LEMMA RowTodo ==
    ASSUME NEW p, NEW q, NEW s, NEW row, row = [pc |-> p, todo |-> q, stale |-> s], NEW rest
    PROVE  [row EXCEPT !.todo = rest] = [pc |-> p, todo |-> rest, stale |-> s]
OBVIOUS

LEMMA GenerateIdeasHolds ==
    ASSUME TrendConstants, TrendInv, NEW c \in TRefreshers, GenerateIdeas(c)
    PROVE  TrendInv'
<1> DEFINE row == tRefresher[c]
           key == Head(row.todo)
           version == tCluster[key].version
           best == ToSet(Best(Groups(tSignals)))
<1>1. TrendTypes
  BY DEF TrendInv
<1>2. /\ row.pc = "ideas" /\ row.todo # <<>>
      /\ tIdeas' = WithIdeas(key, TPerCluster)
      /\ tRefresher' = [tRefresher EXCEPT ![c].todo = Tail(@)]
      /\ tAnswers' = IF row.stale THEN {} ELSE tAnswers
      /\ UNCHANGED <<tSignals, tOld, tCluster, tLinks, tScore, tRuns, tFresh, tBound>>
  BY DEF GenerateIdeas
<1>3. /\ IsListed(tIdeas) /\ tRefresher = [d \in TRefreshers |-> tRefresher[d]]
      /\ \A d \in TRefreshers : RefresherRow(tRefresher[d])
  BY <1>1 DEF TrendTypes
<1>4. TPerCluster \in Nat
  BY DEF TrendConstants
<1>5. /\ IsListed(tIdeas') /\ Len(tIdeas) \in Nat /\ Len(tIdeas') \in Nat /\ Len(tIdeas) <= Len(tIdeas')
      /\ \A i \in 1 .. Len(tIdeas) : tIdeas'[i] = tIdeas[i]
      /\ \A v \in Missing(key, TPerCluster) : \E i \in 1 .. Len(tIdeas') :
            tIdeas'[i].key = key /\ tIdeas'[i].version = version /\ tIdeas'[i].variant = v
      /\ Missing(key, TPerCluster) = {} => tIdeas' = tIdeas
  <2> DEFINE more == tIdeas'
  <2>1. more = WithIdeas(key, TPerCluster)
    BY <1>2
  <2> HIDE DEF more
  <2>2. /\ IsListed(more) /\ Len(tIdeas) \in Nat /\ Len(more) \in Nat /\ Len(tIdeas) <= Len(more)
        /\ \A i \in 1 .. Len(tIdeas) : more[i] = tIdeas[i]
        /\ \A v \in Missing(key, TPerCluster) : \E i \in 1 .. Len(more) :
              more[i].key = key /\ more[i].version = version /\ more[i].variant = v
        /\ Missing(key, TPerCluster) = {} => more = tIdeas
    <3> HIDE DEF key
    <3> QED
      BY <1>3, <1>4, <2>1, IdeasAdded
  <2> QED
    BY <2>2 DEF more
<1>6. \A k, v : IsFull(tIdeas, k, v) => IsFull(tIdeas', k, v)
  BY <1>3, <1>5, FullStays
<1>7. FullKeys \subseteq FullKeys'
  BY <1>2, <1>6 DEF FullKeys
<1>8. IsFull(tIdeas', key, version)
  <2> DEFINE a == There(tIdeas, key, version)
             b == There(tIdeas', key, version)
  <2>1. Missing(key, TPerCluster) = IF Cardinality(a) >= TPerCluster THEN {} ELSE (1 .. TPerCluster) \ a
    BY DEF Missing, There
  <2>2. a \subseteq b
    BY <1>3, <1>5, FullStays
  <2>3. Missing(key, TPerCluster) \subseteq b
    <3>1. DOMAIN tIdeas' = 1 .. Len(tIdeas')
      BY <1>5, LenProperties DEF IsListed
    <3> QED
      BY <1>5, <3>1 DEF There
  <2>4. CASE Cardinality(a) >= TPerCluster
    <3>1. IsFull(tIdeas, key, version)
      BY <2>4 DEF IsFull
    <3> QED
      BY <1>6, <3>1
  <2>5. CASE ~(Cardinality(a) >= TPerCluster)
    <3> HIDE DEF a, b
    <3>1. 1 .. TPerCluster \subseteq b
      BY <2>1, <2>2, <2>3, <2>5
    <3> QED
      BY <3>1 DEF IsFull, b
  <2> QED
    BY <2>4, <2>5
<1> DEFINE T == {row.todo[n] : n \in DOMAIN row.todo}
           done == [row EXCEPT !.todo = Tail(@)]
<1>9. /\ RefresherRow(done) /\ done.pc = row.pc /\ done.stale = row.stale
      /\ done.todo = Tail(row.todo)
      /\ ToSet(row.todo) = {key} \cup ToSet(done.todo)
  <2>1. row \in [pc : {"idle", "ideas"}, todo : {row.todo}, stale : BOOLEAN] /\ row.todo \in Seq(T)
    BY <1>3 DEF RefresherRow, IsListed
  <2> HIDE DEF row, T
  <2>2. Tail(row.todo) \in Seq(T) /\ ToSet(row.todo) = {key} \cup ToSet(Tail(row.todo))
    BY <1>2, <2>1, TailIds
  <2>3. IsListed(Tail(row.todo))
    BY <2>2, ListIsListed
  <2>4. done = [pc |-> row.pc, todo |-> Tail(row.todo), stale |-> row.stale]
    <3>1. [row EXCEPT !.todo = Tail(row.todo)]
             = [pc |-> row.pc, todo |-> Tail(row.todo), stale |-> row.stale]
      <4>1. row = [pc |-> row.pc, todo |-> row.todo, stale |-> row.stale]
        BY <2>1
      <4> DEFINE p == row.pc
                 q == row.todo
                 s == row.stale
                 rest == Tail(row.todo)
      <4>2. row = [pc |-> p, todo |-> q, stale |-> s]
        BY <4>1
      <4> HIDE DEF p, q, s, rest
      <4>3. [row EXCEPT !.todo = rest] = [pc |-> p, todo |-> rest, stale |-> s]
        BY <4>2, RowTodo
      <4> QED
        BY <4>3 DEF p, s, rest
    <3> QED
      BY <3>1
  <2> HIDE DEF done
  <2> QED
    BY <2>1, <2>2, <2>3, <2>4 DEF RefresherRow
<1>10. \A d \in TRefreshers : tRefresher'[d] = IF d = c THEN done ELSE tRefresher[d]
  BY <1>2, <1>3
<1>11. TrendTypes'
  <2>1. tRefresher' = [d \in TRefreshers |-> tRefresher'[d]]
    BY <1>2, <1>3
  <2>2. \A d \in TRefreshers : RefresherRow(tRefresher'[d])
    BY <1>3, <1>9, <1>10
  <2> QED
    BY <1>1, <1>2, <1>5, <2>1, <2>2 DEF TrendTypes
<1>12. Current => Current'
  BY <1>2, CurrentStays
<1> HIDE DEF done
<1>13. ASSUME NEW d \in TRefreshers PROVE UndisturbedHolds(tRefresher[d])'
  <2> SUFFICES ASSUME tRefresher'[d].pc = "ideas", ~tRefresher'[d].stale
               PROVE  /\ Current'
                      /\ ToSet(tRefresher'[d].todo) \subseteq best
                      /\ best \subseteq FullKeys' \cup ToSet(tRefresher'[d].todo)
    BY <1>2 DEF UndisturbedHolds
  <2>1. tRefresher[d].pc = "ideas" /\ ~tRefresher[d].stale
    BY <1>9, <1>10
  <2>2. /\ Current
        /\ ToSet(tRefresher[d].todo) \subseteq best
        /\ best \subseteq FullKeys \cup ToSet(tRefresher[d].todo)
    BY <2>1 DEF TrendInv, UndisturbedHolds
  <2>3. CASE d # c
    BY <1>7, <1>10, <1>12, <2>2, <2>3
  <2>4. CASE d = c
    <3>1. tRefresher'[d].todo = done.todo
      BY <1>10, <2>4
    <3>2. key \in best => key \in FullKeys'
      BY <1>2, <1>8 DEF FullKeys
    <3>3. key \in best
      BY <1>9, <2>2, <2>4
    <3> HIDE DEF best, key
    <3> QED
      BY <1>7, <1>9, <1>12, <2>2, <2>4, <3>1, <3>2, <3>3
  <2> QED
    BY <2>3, <2>4
<1>14. AnswersHold'
  <2> SUFFICES ASSUME tAnswers' # {}
               PROVE  Current' /\ best \subseteq FullKeys' /\ tAnswers' = {Ranked'}
    BY <1>2 DEF AnswersHold
  <2>1. ~row.stale /\ tAnswers' = tAnswers
    BY <1>2
  <2>2. Current /\ best \subseteq FullKeys /\ tAnswers = {Ranked}
    BY <2>1 DEF TrendInv, AnswersHold
  <2>3. ToSet(row.todo) \subseteq best
    BY <1>2, <2>1 DEF TrendInv, UndisturbedHolds
  <2>4. key \in FullKeys
    BY <1>9, <2>2, <2>3
  <2>5. tIdeas' = tIdeas
    BY <1>5, <2>4, NothingMissing DEF FullKeys
  <2>6. Ranked' = Ranked
    BY <1>2, <2>5 DEF Ranked
  <2> QED
    BY <1>7, <1>12, <2>1, <2>2, <2>6
<1>15. FreshClustersAreDisjoint'
  BY <1>2 DEF TrendInv, FreshClustersAreDisjoint
<1> QED
  BY <1>11, <1>13, <1>14, <1>15 DEF TrendInv

LEMMA IdleRow == RefresherRow(TIdle) /\ TIdle.pc # "ideas"
<1>1. IsListed(<<>>)
  BY EmptySeq DEF IsListed
<1> QED
  BY <1>1 DEF RefresherRow, TIdle

LEMMA RefreshQueueHolds ==
    ASSUME TrendInv, NEW c \in TRefreshers, RefreshQueue(c)
    PROVE  TrendInv'
<1> DEFINE row == tRefresher[c]
           best == ToSet(Best(Groups(tSignals)))
<1>1. TrendTypes
  BY DEF TrendInv
<1>2. /\ row.pc = "ideas" /\ row.todo = <<>>
      /\ tAnswers' = IF row.stale THEN {} ELSE tAnswers \cup {Ranked}
      /\ tRefresher' = [tRefresher EXCEPT ![c] = TIdle]
      /\ UNCHANGED <<tSignals, tOld, tCluster, tLinks, tScore, tIdeas, tFresh, tBound>>
  BY DEF RefreshQueue
<1>3. \A d \in TRefreshers : tRefresher'[d] = IF d = c THEN TIdle ELSE tRefresher[d]
  BY <1>1, <1>2 DEF TrendTypes
<1>4. Current => Current'
  BY <1>2, CurrentStays
<1>5. FullKeys' = FullKeys /\ Ranked' = Ranked
  BY <1>2 DEF FullKeys, Ranked
<1>6. TrendTypes'
  <2>1. tRefresher' = [d \in TRefreshers |-> tRefresher'[d]]
    BY <1>1, <1>2 DEF TrendTypes
  <2>2. \A d \in TRefreshers : RefresherRow(tRefresher'[d])
    BY <1>1, <1>3, IdleRow DEF TrendTypes
  <2> QED
    BY <1>1, <1>2, <2>1, <2>2 DEF TrendTypes
<1>7. ASSUME NEW d \in TRefreshers PROVE UndisturbedHolds(tRefresher[d])'
  <2> SUFFICES ASSUME tRefresher'[d].pc = "ideas", ~tRefresher'[d].stale
               PROVE  /\ Current'
                      /\ ToSet(tRefresher'[d].todo) \subseteq best
                      /\ best \subseteq FullKeys' \cup ToSet(tRefresher'[d].todo)
    BY <1>2 DEF UndisturbedHolds
  <2>1. tRefresher'[d] = tRefresher[d]
    BY <1>3, IdleRow
  <2>2. /\ Current
        /\ ToSet(tRefresher[d].todo) \subseteq best
        /\ best \subseteq FullKeys \cup ToSet(tRefresher[d].todo)
    BY <2>1 DEF TrendInv, UndisturbedHolds
  <2> QED
    BY <1>4, <1>5, <2>1, <2>2
<1>8. AnswersHold'
  <2> SUFFICES ASSUME tAnswers' # {}
               PROVE  Current' /\ best \subseteq FullKeys' /\ tAnswers' = {Ranked'}
    BY <1>2 DEF AnswersHold
  <2>1. ~row.stale /\ tAnswers' = tAnswers \cup {Ranked}
    BY <1>2
  <2>2. Current /\ best \subseteq FullKeys
    <3>1. ToSet(row.todo) = {}
      BY <1>2 DEF ToSet
    <3> QED
      BY <1>2, <2>1, <3>1 DEF TrendInv, UndisturbedHolds
  <2>3. tAnswers \subseteq {Ranked}
    BY DEF TrendInv, AnswersHold
  <2> QED
    BY <1>4, <1>5, <2>1, <2>2, <2>3
<1>9. FreshClustersAreDisjoint'
  BY <1>2 DEF TrendInv, FreshClustersAreDisjoint
<1> QED
  BY <1>6, <1>7, <1>8, <1>9 DEF TrendInv

LEMMA RefreshStopsHolds ==
    ASSUME TrendInv, NEW c \in TRefreshers, RefreshStops(c)
    PROVE  TrendInv'
<1>1. TrendTypes
  BY DEF TrendInv
<1>2. /\ tRefresher' = [tRefresher EXCEPT ![c] = TIdle]
      /\ UNCHANGED <<tSignals, tOld, tCluster, tLinks, tScore, tIdeas, tRuns, tFresh, tAnswers, tBound>>
  BY DEF RefreshStops
<1>3. \A d \in TRefreshers : tRefresher'[d] = IF d = c THEN TIdle ELSE tRefresher[d]
  BY <1>1, <1>2 DEF TrendTypes
<1>4. Current => Current'
  BY <1>2, CurrentStays
<1>5. FullKeys' = FullKeys /\ Ranked' = Ranked
  BY <1>2 DEF FullKeys, Ranked
<1>6. TrendTypes'
  <2>1. tRefresher' = [d \in TRefreshers |-> tRefresher'[d]]
    BY <1>1, <1>2 DEF TrendTypes
  <2>2. \A d \in TRefreshers : RefresherRow(tRefresher'[d])
    BY <1>1, <1>3, IdleRow DEF TrendTypes
  <2> QED
    BY <1>1, <1>2, <2>1, <2>2 DEF TrendTypes
<1>7. ASSUME NEW d \in TRefreshers PROVE UndisturbedHolds(tRefresher[d])'
  <2>1. CASE d = c
    BY <1>3, <2>1, IdleRow DEF UndisturbedHolds
  <2>2. CASE d # c
    BY <1>2, <1>3, <1>4, <1>5, <2>2 DEF TrendInv, UndisturbedHolds
  <2> QED
    BY <2>1, <2>2
<1>8. AnswersHold'
  BY <1>2, <1>4, <1>5 DEF TrendInv, AnswersHold
<1>9. FreshClustersAreDisjoint'
  BY <1>2 DEF TrendInv, FreshClustersAreDisjoint
<1> QED
  BY <1>6, <1>7, <1>8, <1>9 DEF TrendInv

\* The invariant holds in every state, whatever requests overlap.
THEOREM TrendInvariant == TSpec => []TrendInv
<1>1. TInit => TrendInv
  <2> SUFFICES ASSUME TInit PROVE TrendInv
    OBVIOUS
  <2>1. TrendTypes
    <3>1. IsListed(<<>>)
      BY EmptySeq DEF IsListed
    <3>2. \A k \in TKeys : tCluster[k].version = 0
      BY DEF TInit
    <3>3. tCluster = [k \in TKeys |-> tCluster[k]]
      BY DEF TInit
    <3>4. \A c \in TRefreshers : RefresherRow(tRefresher[c])
      BY IdleRow DEF TInit
    <3> QED
      BY <3>1, <3>2, <3>3, <3>4 DEF TrendTypes, TInit
  <2>2. \A c \in TRefreshers : UndisturbedHolds(tRefresher[c])
    BY IdleRow DEF TInit, UndisturbedHolds
  <2>3. AnswersHold /\ FreshClustersAreDisjoint
    BY DEF TInit, AnswersHold, FreshClustersAreDisjoint
  <2> QED
    BY <2>1, <2>2, <2>3 DEF TrendInv
<1>2. TrendInv /\ [TNext]_tVars => TrendInv'
  <2> SUFFICES ASSUME TrendInv, [TNext]_tVars PROVE TrendInv'
    OBVIOUS
  <2>1. CASE UNCHANGED tVars
    <3>1. UNCHANGED <<tSignals, tOld, tCluster, tLinks, tScore, tIdeas, tRuns, tRefresher, tFresh, tAnswers, tBound>>
      BY <2>1 DEF tVars
    <3>2. Current => Current'
      BY <3>1, CurrentStays
    <3>3. FullKeys' = FullKeys /\ Ranked' = Ranked
      BY <3>1 DEF FullKeys, Ranked
    <3>4. TrendTypes'
      BY <3>1 DEF TrendInv, TrendTypes
    <3>5. \A c \in TRefreshers : UndisturbedHolds(tRefresher[c])'
      BY <3>1, <3>2, <3>3 DEF TrendInv, UndisturbedHolds
    <3>6. AnswersHold' /\ FreshClustersAreDisjoint'
      BY <3>1, <3>2, <3>3 DEF TrendInv, AnswersHold, FreshClustersAreDisjoint
    <3> QED
      BY <3>4, <3>5, <3>6 DEF TrendInv
  <2>2. CASE \E signals \in SUBSET TSignals : RecordCollection(signals)
    BY <2>2, RecordCollectionHolds
  <2>3. CASE SignalsAge
    BY <2>3, SignalsAgeHolds
  <2>4. CASE \E key \in TKeys, count \in DOMAIN TBase : AskForIdeas(key, count)
    BY <2>4, TrendConstants, StrategyScores, AskForIdeasHolds
  <2>5. CASE \E c \in TRefreshers :
                RefreshClusters(c) \/ GenerateIdeas(c) \/ RefreshQueue(c) \/ RefreshStops(c)
    BY <2>5, TrendConstants, RefreshClustersHolds, GenerateIdeasHolds, RefreshQueueHolds,
       RefreshStopsHolds
  <2> QED
    BY <2>1, <2>2, <2>3, <2>4, <2>5 DEF TNext
<1> QED
  BY <1>1, <1>2, PTL DEF TSpec

\* Clusters of a refresh share no signal, and refreshes of unchanged data find one
\* run, whatever happens to others.
THEOREM QueueRunsAgreeHolds == TSpec => [](FreshClustersAreDisjoint /\ ReplaysAgree)
<1>1. TrendInv => FreshClustersAreDisjoint /\ ReplaysAgree
  <2> SUFFICES ASSUME TrendInv PROVE FreshClustersAreDisjoint /\ ReplaysAgree
    OBVIOUS
  <2>1. tAnswers = {} \/ tAnswers = {Ranked}
    BY DEF TrendInv, AnswersHold
  <2>2. Cardinality({}) = 0 /\ Cardinality({Ranked}) = 1
    BY FS_EmptySet, FS_Singleton
  <2> QED
    BY <2>1, <2>2 DEF TrendInv, ReplaysAgree
<1> QED
  BY <1>1, TrendInvariant, PTL

-----------------------------------------------------------------------------
(* All of them together.                                                   *)

\* In every reachable state of the requests, the plane and the settings: a bridge
\* request has one draft without overlap.
THEOREM StudioDrafts == StudioSpec => []OneDraftPerRequest
BY BridgeDrafts, PTL DEF StudioSpec

\* A completed upload names its asset, and one fingerprint of it is one provider
\* call.
THEOREM StudioAutoEdit == StudioSpec => []AutoEditIsAccounted
<1>1. UTypeOK /\ CompletedNamesAnAsset /\ OneCallPerFingerprint /\ SucceededIsComplete
          => AutoEditIsAccounted
  BY DEF AutoEditIsAccounted
<1> QED
  BY <1>1, UploadsAccounted, AnalysesAccounted, PTL DEF StudioSpec

\* Platform rows that two callers may make at once are made once.
THEOREM StudioRows == StudioSpec => []RowsAreSingle
BY PlatformRows, PTL DEF StudioSpec

\* One governed operation sends once, and its receipts tell what was done.
THEOREM StudioPlane == StudioSpec => []PlaneIsTold
BY PlaneTold, PTL DEF StudioSpec

\* What the controller and its adapters say of a call is what happened.
THEOREM StudioCalls == StudioSpec => []CallsAreToldTruly
BY WireTold, PTL DEF StudioSpec

\* No process starts, whatever its settings, with an external or paid provider
\* the gates do not name, and the registry keeps to that.
THEOREM StudioWiring == StudioSpec => []WiringIsGated
BY ConfigurationGated, PTL DEF StudioSpec

\* No commit of overlapping editors loses an edit, the first version shows what
\* the analysis keeps, splits change nothing of what plays and locked tracks keep
\* their clips.
THEOREM StudioTimelines == StudioSpec => []TimelinesKeepWhatPlays
<1>1. FirstVersionShowsWhatWasKept /\ EditsKeepTheRest => TimelinesKeepWhatPlays
  BY DEF TimelinesKeepWhatPlays
<1> QED
  BY <1>1, TimelinesHold, PTL DEF StudioSpec

\* Refreshes that overlap, repeat or die leave disjoint clusters, and those of
\* unchanged data find one run.
THEOREM StudioQueueRuns == StudioSpec => []QueueRunsAgree
<1>1. FreshClustersAreDisjoint /\ ReplaysAgree => QueueRunsAgree
  BY DEF QueueRunsAgree
<1> QED
  BY <1>1, QueueRunsAgreeHolds, PTL DEF StudioSpec

\* Rows, files and handlers keep their types.
THEOREM StudioTypes == StudioSpec => []TypesHold
<1>1. BridgeInv => BTypeOK
  BY DEF BridgeInv, BTypes
<1>2. BTypeOK /\ UTypeOK /\ CompletedNamesAnAsset => TypesHold
  BY DEF TypesHold
<1> QED
  BY <1>1, <1>2, BridgeInvariant, UploadsAccounted, PTL DEF StudioSpec

\* A rejected upload stays rejected and a succeeded analysis succeeded.
THEOREM StudioEnds == StudioSpec => EndedStays
BY UploadsStayRejected, AnalysesStay, PTL DEF StudioSpec, EndedStays

=============================================================================
