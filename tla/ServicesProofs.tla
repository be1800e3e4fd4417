--------------------------- MODULE ServicesProofs ---------------------------
(***************************************************************************)
(* Proofs about Preview.tla and Media.tla, for any finite sets of sizes,   *)
(* items and candidates and any number of versions, requests and faults,   *)
(* then about the worker's queues side by side (Services.tla), and last    *)
(* about the rules of Evaluations.tla, for any inputs: deliverables,       *)
(* learning, media plans, reframing and transcripts.                       *)
(***************************************************************************)
EXTENDS Services, Evaluations, QueueProofs

-----------------------------------------------------------------------------
(* Previews: the inductive invariant.                                      *)

PRow == [status : PreviewStatus, cancel : BOOLEAN, void : BOOLEAN, output : PContents \cup {0},
         error : {"", "PREVIEW_CANCELLED", "PREVIEW_RENDER_FAILED"}]

\* The worker's positions: with no row, with one, and in the middle of an attempt.
PFree == {"down", "recovering", "waiting"}
PAttempting == {"starting", "fetching", "rendering", "rendered", "storing", "stored",
                "registered", "completing", "cancelling", "failing"}
PHeld == PAttempting \cup {"claimed", "over"}

PWorkerRow == [pc : PFree \cup PHeld, job : Previews \cup {NoPreview},
               file : PContents \cup {0}, ids : Seq(Previews)]

PTypes ==
    /\ pTimeline \in [version : 1 .. PMaxVersion, latest : Previews \cup {NoPreview}]
    /\ preview \in [Previews -> PRow]
    /\ pRedis \in Lists(Previews)
    /\ pPushing \in [Previews -> Nat]
    /\ pWorker \in PWorkerRow
    /\ pObject \in [Previews -> PContents \cup {0}]
    /\ pAsset \in [Previews -> PContents \cup {0}]
    /\ pLost \in SUBSET Previews
    /\ pCount \in [requests : Nat, faults : Nat]

\* An invalidated preview is cancelled too, and a stale one was invalidated.
PVoided ==
    \A p \in Previews : /\ preview[p].void => preview[p].cancel
                        /\ preview[p].status = "stale" => preview[p].void

\* The worker holds a row from its claim to its release.
PHolding ==
    /\ pWorker.pc \in PHeld => pWorker.job \in Previews
    /\ pWorker.pc \in PFree => pWorker.job = NoPreview
    /\ pWorker.pc # "recovering" => pWorker.ids = <<>>

\* The row of an attempt is not ready, and the file of the attempt is the stored
\* one from the time it is stored, the registered one from the time it is registered.
PAttempt ==
    /\ pWorker.pc \in PAttempting => preview[pWorker.job].status # "ready"
    /\ pWorker.pc \in {"rendered", "storing", "stored"} => pWorker.file # 0
    /\ pWorker.pc = "stored" => pObject[pWorker.job] = pWorker.file
    /\ pWorker.pc \in {"registered", "completing"} =>
          pAsset[pWorker.job] # 0 /\ pObject[pWorker.job] = pAsset[pWorker.job]

PreviewInv ==
    /\ PTypes
    /\ PVoided
    /\ PHolding
    /\ PAttempt
    /\ LatestPreviewIsCurrent
    /\ ReadyPreviewIsRegistered
    /\ NoPreviewForgotten

\* There are finitely many previews, and none is NoPreview.
LEMMA PreviewRows == IsFiniteSet(Previews) /\ NoPreview \notin Previews
<1>1. IsFiniteSet(1 .. PMaxVersion)
  BY PreviewConstants, FS_Interval
<1>2. IsFiniteSet((1 .. PMaxVersion) \X PSizes)
  BY <1>1, PreviewConstants, FS_Product
<1>3. NoPreview \notin Previews
  BY PreviewConstants DEF Previews, NoPreview
<1> QED
  BY <1>2, <1>3 DEF Previews

\* At first no preview was requested and the worker is down.
LEMMA PreviewInitInv == PInit => PreviewInv
<1> SUFFICES ASSUME PInit PROVE PreviewInv
  OBVIOUS
<1>1. <<>> \in Seq(Previews)
  BY EmptySeq
<1>2. /\ preview \in [Previews -> PRow]
      /\ \A p \in Previews : preview[p].status = "none" /\ ~preview[p].void
  BY DEF PInit, PRow, NewPreview, PreviewStatus
<1>3. pWorker \in PWorkerRow /\ pWorker.pc = "down" /\ pWorker.ids = <<>> /\ pWorker.job = NoPreview
  BY <1>1 DEF PInit, PIdle, PWorkerRow, PFree
<1>4. pRedis \in Lists(Previews)
  BY <1>1 DEF PInit, EmptyQueue, Lists
<1>5. PTypes
  BY <1>2, <1>3, <1>4, PreviewConstants DEF PInit, PTypes
<1>6. PVoided /\ PHolding /\ PAttempt /\ ReadyPreviewIsRegistered /\ NoPreviewForgotten
  BY <1>2, <1>3 DEF PVoided, PHolding, PAttempt, ReadyPreviewIsRegistered, NoPreviewForgotten,
                    PHeld, PFree, PAttempting
<1>7. LatestPreviewIsCurrent
  BY DEF PInit, LatestPreviewIsCurrent
<1> QED
  BY <1>5, <1>6, <1>7 DEF PreviewInv

-----------------------------------------------------------------------------
(* Previews: requests.                                                     *)

\* An edit voids whatever may still be used.
LEMMA EditKeepsPreviews == ASSUME PreviewInv, EditTimeline PROVE PreviewInv'
<1>0. /\ PTypes /\ PVoided /\ PHolding /\ PAttempt /\ ReadyPreviewIsRegistered
      /\ NoPreviewForgotten
  BY DEF PreviewInv
<1>1. /\ pTimeline' = [version |-> pTimeline.version + 1, latest |-> NoPreview]
      /\ pTimeline.version < PMaxVersion
      /\ preview' = [p \in Previews |-> Invalidated(p)]
      /\ UNCHANGED <<pRedis, pPushing, pWorker, pObject, pAsset, pLost, pCount>>
  BY DEF EditTimeline, NextVersion
<1>2. \A p \in Previews : preview[p] \in PRow
  BY <1>0 DEF PTypes
<1>3. \A p \in Previews :
         /\ Invalidated(p) \in PRow
         /\ Invalidated(p).status \notin {"queued", "running", "ready"}
         /\ Invalidated(p).void => Invalidated(p).cancel
         /\ Invalidated(p).status = "stale" => Invalidated(p).void
  BY <1>0, <1>2 DEF Invalidated, PRow, PreviewStatus, PVoided
<1>4. \A p \in Previews : preview'[p] = Invalidated(p)
  BY <1>1
<1>5. pTimeline' \in [version : 1 .. PMaxVersion, latest : Previews \cup {NoPreview}]
  BY <1>0, <1>1, PreviewConstants DEF PTypes
<1>6. PTypes'
  BY <1>0, <1>1, <1>3, <1>5 DEF PTypes
<1>7. PVoided' /\ ReadyPreviewIsRegistered' /\ NoPreviewForgotten'
  BY <1>3, <1>4 DEF PVoided, ReadyPreviewIsRegistered, NoPreviewForgotten, PIncomplete
<1>8. PHolding'
  BY <1>0, <1>1 DEF PHolding
<1>9. PAttempt'
  <2>1. pWorker.pc \in PAttempting => pWorker.job \in Previews
    BY <1>0 DEF PHolding, PHeld
  <2> QED
    BY <1>0, <1>1, <1>3, <1>4, <2>1 DEF PAttempt
<1>10. LatestPreviewIsCurrent'
  BY <1>1 DEF LatestPreviewIsCurrent
<1> QED
  BY <1>6, <1>7, <1>8, <1>9, <1>10 DEF PreviewInv

\* A request makes the row of a version, or makes it anew.
LEMMA RequestKeepsPreviews ==
    ASSUME PreviewInv, NEW p \in Previews, RequestPreview(p) PROVE PreviewInv'
<1>0. /\ PTypes /\ PVoided /\ PHolding /\ PAttempt /\ ReadyPreviewIsRegistered
      /\ NoPreviewForgotten /\ LatestPreviewIsCurrent
  BY DEF PreviewInv
<1>1. /\ preview' = [preview EXCEPT ![p] = NewPreview]
      /\ pTimeline' = IF p[1] = pTimeline.version THEN [pTimeline EXCEPT !.latest = p] ELSE pTimeline
      /\ pPushing' = [pPushing EXCEPT ![p] = @ + 1]
      /\ pCount' = [pCount EXCEPT !.requests = @ + 1]
      /\ pLost' = pLost \ {p}
      /\ UNCHANGED <<pRedis, pWorker, pObject, pAsset>>
  BY DEF RequestPreview
<1>2. NewPreview \in PRow /\ NewPreview.status = "queued" /\ ~NewPreview.void
  BY DEF NewPreview, PRow, PreviewStatus
<1>3. /\ preview' \in [Previews -> PRow] /\ preview'[p] = NewPreview
      /\ \A q \in Previews : q # p => preview'[q] = preview[q]
  BY <1>0, <1>1, <1>2 DEF PTypes
<1>4. /\ pTimeline' \in [version : 1 .. PMaxVersion, latest : Previews \cup {NoPreview}]
      /\ LatestPreviewIsCurrent'
  BY <1>0, <1>1 DEF PTypes, LatestPreviewIsCurrent
<1>5. /\ pPushing' \in [Previews -> Nat] /\ pPushing'[p] > 0
      /\ \A q \in Previews : q # p => pPushing'[q] = pPushing[q]
  BY <1>0, <1>1 DEF PTypes
<1>6. pCount' \in [requests : Nat, faults : Nat]
  BY <1>0, <1>1 DEF PTypes
<1>7. PTypes'
  BY <1>0, <1>1, <1>3, <1>4, <1>5, <1>6 DEF PTypes
<1>8. PVoided' /\ ReadyPreviewIsRegistered'
  BY <1>0, <1>1, <1>2, <1>3 DEF PVoided, ReadyPreviewIsRegistered
<1>9. PHolding'
  BY <1>0, <1>1 DEF PHolding
<1>10. PAttempt'
  <2>1. pWorker.pc \in PAttempting => pWorker.job \in Previews
    BY <1>0 DEF PHolding, PHeld
  <2> QED
    BY <1>0, <1>1, <1>2, <1>3, <2>1 DEF PAttempt
<1>11. NoPreviewForgotten'
  BY <1>0, <1>1, <1>3, <1>5 DEF NoPreviewForgotten, PIncomplete
<1> QED
  BY <1>4, <1>7, <1>8, <1>9, <1>10, <1>11 DEF PreviewInv

\* A step that leaves the rows, the files and the worker as they are.
LEMMA RowsLeftAlone ==
    ASSUME PreviewInv, UNCHANGED <<pTimeline, preview, pWorker, pObject, pAsset>>
    PROVE  /\ PVoided' /\ PHolding' /\ PAttempt' /\ LatestPreviewIsCurrent'
           /\ ReadyPreviewIsRegistered'
BY DEF PreviewInv, PVoided, PHolding, PAttempt, LatestPreviewIsCurrent, ReadyPreviewIsRegistered

\* The push that follows a request, done or lost.
LEMMA PushKeepsPreviews ==
    ASSUME PreviewInv, NEW p \in Previews, PushPreview(p) \/ PushPreviewFails(p)
    PROVE  PreviewInv'
<1>0. PTypes /\ NoPreviewForgotten
  BY DEF PreviewInv
<1>1. /\ pPushing[p] > 0 /\ pPushing' = [pPushing EXCEPT ![p] = @ - 1]
      /\ UNCHANGED <<pTimeline, preview, pWorker, pObject, pAsset>>
  BY DEF PushPreview, PushPreviewFails, pRows
<1>2. /\ pPushing' \in [Previews -> Nat]
      /\ \A q \in Previews : q # p => pPushing'[q] = pPushing[q]
  BY <1>0, <1>1 DEF PTypes
<1>3. /\ pRedis' \in Lists(Previews) /\ pLost' \in SUBSET Previews
      /\ pCount' \in [requests : Nat, faults : Nat]
      /\ Queued(pRedis) \cup pLost \cup {p} \subseteq Queued(pRedis') \cup pLost'
  <2>1. CASE PushPreview(p)
    BY <1>0, <2>1, PushedLists DEF PushPreview, PTypes
  <2>2. CASE PushPreviewFails(p)
    BY <1>0, <2>2 DEF PushPreviewFails, PFault, PTypes
  <2> QED
    BY <2>1, <2>2
<1>4. PTypes'
  BY <1>0, <1>1, <1>2, <1>3 DEF PTypes
<1>5. NoPreviewForgotten'
  BY <1>0, <1>1, <1>2, <1>3 DEF NoPreviewForgotten, PIncomplete
<1> QED
  BY <1>1, <1>4, <1>5, RowsLeftAlone DEF PreviewInv

\* A cancellation takes a queued row and leaves the others to their attempts.
LEMMA CancelKeepsPreviews ==
    ASSUME PreviewInv, NEW p \in Previews, CancelPreview(p) PROVE PreviewInv'
<1>0. /\ PTypes /\ PVoided /\ PHolding /\ PAttempt /\ ReadyPreviewIsRegistered
      /\ NoPreviewForgotten /\ LatestPreviewIsCurrent
  BY DEF PreviewInv
<1> DEFINE row == Cancelled(preview[p])
<1>1. /\ preview' = [preview EXCEPT ![p] = row]
      /\ UNCHANGED <<pTimeline, pRedis, pPushing, pWorker, pObject, pAsset, pLost, pCount>>
  BY DEF CancelPreview
<1>2. /\ row \in PRow /\ row.cancel /\ row.void = preview[p].void
      /\ row.output = preview[p].output
      /\ row.status \in {preview[p].status, "cancelled"}
  <2>1. preview[p] \in PRow
    BY <1>0 DEF PTypes
  <2> QED
    BY <2>1 DEF PRow, PreviewStatus, Cancelled
<1> HIDE DEF row
<1>3. /\ preview' \in [Previews -> PRow] /\ preview'[p] = row
      /\ \A q \in Previews : q # p => preview'[q] = preview[q]
  BY <1>0, <1>1, <1>2 DEF PTypes
<1>4. PTypes'
  BY <1>0, <1>1, <1>3 DEF PTypes
<1>5. PVoided'
  <2> SUFFICES ASSUME NEW q \in Previews
               PROVE  /\ preview'[q].void => preview'[q].cancel
                      /\ preview'[q].status = "stale" => preview'[q].void
    BY DEF PVoided
  <2>1. CASE q = p
    BY <1>0, <1>2, <1>3, <2>1 DEF PVoided
  <2>2. CASE q # p
    BY <1>0, <1>3, <2>2 DEF PVoided
  <2> QED
    BY <2>1, <2>2
<1>6. ReadyPreviewIsRegistered'
  BY <1>0, <1>1, <1>2, <1>3 DEF ReadyPreviewIsRegistered
<1>7. PHolding' /\ LatestPreviewIsCurrent'
  BY <1>0, <1>1 DEF PHolding, LatestPreviewIsCurrent
<1>8. PAttempt'
  <2>1. pWorker.pc \in PAttempting => pWorker.job \in Previews
    BY <1>0 DEF PHolding, PHeld
  <2> QED
    BY <1>0, <1>1, <1>2, <1>3, <2>1 DEF PAttempt
<1>9. NoPreviewForgotten'
  BY <1>0, <1>1, <1>2, <1>3 DEF NoPreviewForgotten, PIncomplete
<1> QED
  BY <1>4, <1>5, <1>6, <1>7, <1>8, <1>9 DEF PreviewInv

-----------------------------------------------------------------------------
(* Previews: the worker.                                                   *)

\* A restart reads the rows, and then rebuilds the queue from what it read.
LEMMA RecoveryKeepsPreviews ==
    ASSUME PreviewInv, RecoverPreviewsRead \/ RecoverPreviews PROVE PreviewInv'
<1>0. /\ PTypes /\ PVoided /\ PHolding /\ PAttempt /\ ReadyPreviewIsRegistered
      /\ NoPreviewForgotten /\ LatestPreviewIsCurrent
  BY DEF PreviewInv
<1>1. pWorker.pc \in {"down", "recovering"} /\ pWorker.job = NoPreview /\ pWorker \in PWorkerRow
  BY <1>0 DEF PHolding, PFree, PTypes, RecoverPreviewsRead, RecoverPreviews
<1>2. /\ UNCHANGED <<pTimeline, preview, pPushing, pObject, pAsset, pCount>>
  BY DEF RecoverPreviewsRead, RecoverPreviews, pRows
<1>3. /\ pWorker' \in PWorkerRow /\ pWorker'.job = NoPreview
      /\ pWorker'.pc \in {"recovering", "waiting"}
      /\ pWorker'.pc = "waiting" => pWorker'.ids = <<>>
      /\ pRedis' \in Lists(Previews) /\ pLost' \in SUBSET Previews
      /\ NoPreviewForgotten'
  <2>1. ASSUME RecoverPreviewsRead PROVE <1>3!:
    <3> DEFINE unfinished == {p \in Previews : PIncomplete(p)}
    <3>1. PICK ids \in Recoverable(pRedis, unfinished) :
             pWorker' = [pWorker EXCEPT !.pc = "recovering", !.ids = ids]
      BY <2>1 DEF RecoverPreviewsRead
    <3>2. pRedis' = pRedis /\ pLost' = pLost
      BY <2>1 DEF RecoverPreviewsRead
    <3>3. IsFiniteSet(unfinished)
      BY PreviewRows, FS_Subset
    <3>4. pRedis.processing \in Seq(Previews)
      BY <1>0 DEF PTypes, Lists
    <3>5. ids \in Seq(Previews) /\ ToSet(ids) = ToSet(pRedis.processing) \cup unfinished
      <4> HIDE DEF unfinished
      <4>1. unfinished \in SUBSET Previews
        BY DEF unfinished
      <4> QED
        BY <3>1, <3>3, <3>4, <4>1, RecoverableIds
    <3>6. /\ pWorker' \in PWorkerRow /\ pWorker'.pc = "recovering" /\ pWorker'.ids = ids
          /\ pWorker'.job = NoPreview
      BY <1>1, <3>1, <3>5 DEF PWorkerRow, PFree
    <3>7. NoPreviewForgotten'
      BY <1>2, <3>5, <3>6 DEF NoPreviewForgotten, PIncomplete
    <3> QED
      BY <1>0, <3>2, <3>6, <3>7 DEF PTypes
  <2>2. ASSUME RecoverPreviews PROVE <1>3!:
    <3>1. /\ pRedis' = Requeued(pRedis, pWorker.ids) /\ pLost' = pLost \ ToSet(pWorker.ids)
          /\ pWorker' = [pWorker EXCEPT !.pc = "waiting", !.ids = <<>>]
          /\ pWorker.pc = "recovering"
      BY <2>2 DEF RecoverPreviews
    <3>2. <<>> \in Seq(Previews) /\ pWorker.ids \in Seq(Previews)
      BY <1>1, EmptySeq DEF PWorkerRow
    <3>3. /\ pWorker' \in PWorkerRow /\ pWorker'.pc = "waiting" /\ pWorker'.ids = <<>>
          /\ pWorker'.job = NoPreview
      BY <1>1, <3>1, <3>2 DEF PWorkerRow, PFree
    <3>4. /\ pRedis' \in Lists(Previews)
          /\ Queued(pRedis') = Queued(pRedis) \cup ToSet(pWorker.ids)
      BY <1>0, <3>1, <3>2, RequeuedLists DEF PTypes
    <3>5. pLost' \in SUBSET Previews
      BY <1>0, <3>1 DEF PTypes
    <3>6. NoPreviewForgotten'
      <4> SUFFICES ASSUME NEW p \in Previews, PIncomplete(p)
                   PROVE  p \in Queued(pRedis') \cup pLost' \/ pPushing[p] > 0
        BY <1>2, <3>3 DEF NoPreviewForgotten, PIncomplete
      <4>1. \/ p \in Queued(pRedis) \cup ToSet(pWorker.ids) \cup pLost
            \/ pPushing[p] > 0
        BY <1>0, <1>1, <3>1, PreviewRows DEF NoPreviewForgotten
      <4> QED
        BY <3>1, <3>4, <4>1
    <3> QED
      BY <3>3, <3>4, <3>5, <3>6
  <2> QED
    BY <2>1, <2>2
<1>4. PTypes'
  BY <1>0, <1>2, <1>3 DEF PTypes
<1>5. PVoided' /\ ReadyPreviewIsRegistered' /\ LatestPreviewIsCurrent'
  BY <1>0, <1>2 DEF PVoided, ReadyPreviewIsRegistered, LatestPreviewIsCurrent
<1>6. PHolding' /\ PAttempt'
  BY <1>3 DEF PHolding, PAttempt, PHeld, PAttempting, PFree
<1> QED
  BY <1>3, <1>4, <1>5, <1>6 DEF PreviewInv

\* A claim, the release that ends it, and a crash: the rows and the files stay.
LEMMA ClaimKeepsPreviews ==
    ASSUME PreviewInv, ClaimPreview \/ ReleasePreview \/ PreviewWorkerCrash PROVE PreviewInv'
<1>0. /\ PTypes /\ PVoided /\ PHolding /\ PAttempt /\ ReadyPreviewIsRegistered
      /\ NoPreviewForgotten /\ LatestPreviewIsCurrent
  BY DEF PreviewInv
<1>1. UNCHANGED <<pTimeline, preview, pPushing, pObject, pAsset, pLost>>
  BY DEF ClaimPreview, ReleasePreview, PreviewWorkerCrash, pRows
<1>2. <<>> \in Seq(Previews)
  BY EmptySeq
<1>3. pWorker \in PWorkerRow
  BY <1>0 DEF PTypes
<1>4. /\ pWorker' \in PWorkerRow /\ pRedis' \in Lists(Previews)
      /\ pWorker'.pc \in {"claimed", "waiting", "down"} /\ pWorker'.ids = <<>>
      /\ pWorker'.pc = "claimed" => pWorker'.job \in Previews
      /\ pWorker'.pc # "claimed" => pWorker'.job = NoPreview
      /\ NoPreviewForgotten'
  <2>1. ASSUME ClaimPreview PROVE <1>4!:
    <3>1. /\ pWorker.pc = "waiting" /\ pRedis.queue # <<>> /\ pRedis' = Claimed(pRedis)
          /\ pWorker' = [pWorker EXCEPT !.pc = "claimed", !.job = NextId(pRedis)]
      BY <2>1 DEF ClaimPreview
    <3>2. /\ NextId(pRedis) \in Previews /\ pRedis' \in Lists(Previews)
          /\ Queued(pRedis) = Queued(pRedis') \cup {NextId(pRedis)}
      BY <1>0, <3>1, ClaimedLists DEF PTypes
    <3>3. pWorker.ids = <<>> /\ pWorker.job = NoPreview
      BY <1>0, <3>1 DEF PHolding, PFree
    <3>4. /\ pWorker' \in PWorkerRow /\ pWorker'.pc = "claimed" /\ pWorker'.ids = <<>>
          /\ pWorker'.job = NextId(pRedis)
      BY <1>2, <1>3, <3>1, <3>2, <3>3 DEF PWorkerRow, PHeld
    <3>5. NoPreviewForgotten'
      <4> SUFFICES ASSUME NEW p \in Previews, PIncomplete(p)
                   PROVE  p \in Queued(pRedis') \cup pLost \/ pPushing[p] > 0 \/ NextId(pRedis) = p
        BY <1>1, <3>4 DEF NoPreviewForgotten, PIncomplete
      <4>1. p \in Queued(pRedis) \cup ToSet(pWorker.ids) \cup pLost \/ pPushing[p] > 0
        BY <1>0, <3>1, <3>3, PreviewRows DEF NoPreviewForgotten
      <4>2. ToSet(<<>>) = {}
        BY <1>2, IdsOfList
      <4> QED
        BY <3>2, <3>3, <4>1, <4>2
    <3> QED
      BY <3>2, <3>4, <3>5
  <2>2. ASSUME ReleasePreview PROVE <1>4!:
    <3>1. /\ pWorker.pc = "over" /\ pRedis' = Released(pRedis, pWorker.job)
          /\ pWorker' = [PIdle EXCEPT !.pc = "waiting"]
      BY <2>2 DEF ReleasePreview
    <3>2. pRedis' \in Lists(Previews) /\ Queued(pRedis') = Queued(pRedis)
      BY <1>0, <3>1, ReleasedLists DEF PTypes
    <3>3. /\ pWorker' \in PWorkerRow /\ pWorker'.pc = "waiting" /\ pWorker'.ids = <<>>
          /\ pWorker'.job = NoPreview
      BY <1>2, <3>1 DEF PIdle, PWorkerRow, PFree
    <3>4. pWorker.ids = <<>>
      BY <1>0, <3>1 DEF PHolding
    <3>5. NoPreviewForgotten'
      BY <1>0, <1>1, <3>1, <3>2, <3>3, <3>4 DEF NoPreviewForgotten, PIncomplete
    <3> QED
      BY <3>2, <3>3, <3>5
  <2>3. ASSUME PreviewWorkerCrash PROVE <1>4!:
    <3>1. pRedis' = pRedis /\ pWorker' = PIdle
      BY <2>3 DEF PreviewWorkerCrash
    <3>2. /\ pWorker' \in PWorkerRow /\ pWorker'.pc = "down" /\ pWorker'.ids = <<>>
          /\ pWorker'.job = NoPreview
      BY <1>2, <3>1 DEF PIdle, PWorkerRow, PFree
    <3> QED
      BY <1>0, <3>1, <3>2 DEF NoPreviewForgotten, PTypes
  <2> QED
    BY <2>1, <2>2, <2>3
<1>5. pCount' \in [requests : Nat, faults : Nat]
  BY <1>0 DEF PTypes, ClaimPreview, ReleasePreview, PreviewWorkerCrash, PFault
<1>6. PTypes'
  BY <1>0, <1>1, <1>4, <1>5 DEF PTypes
<1>7. PVoided' /\ ReadyPreviewIsRegistered' /\ LatestPreviewIsCurrent'
  BY <1>0, <1>1 DEF PVoided, ReadyPreviewIsRegistered, LatestPreviewIsCurrent
<1>8. PHolding' /\ PAttempt'
  BY <1>4 DEF PHolding, PAttempt, PHeld, PAttempting, PFree
<1> QED
  BY <1>4, <1>6, <1>7, <1>8 DEF PreviewInv

\* _set_preview_state gives one row the status asked for, or the one that a
\* cancellation or an edit has settled.
LEMMA SetStateRows ==
    ASSUME PTypes, NEW p \in Previews, NEW status \in PreviewStatus
    PROVE  /\ SetState(p, status) \in [Previews -> PRow]
           /\ \A q \in Previews : q # p => SetState(p, status)[q] = preview[q]
           /\ SetState(p, status)[p].status = IF preview[p].void THEN "stale"
                                              ELSE IF preview[p].cancel THEN "cancelled" ELSE status
           /\ SetState(p, status)[p].void = preview[p].void
           /\ SetState(p, status)[p].cancel = preview[p].cancel
           /\ SetState(p, status)[p].output = preview[p].output
<1> DEFINE s == IF preview[p].void THEN "stale"
                ELSE IF preview[p].cancel THEN "cancelled" ELSE status
           row == [preview[p] EXCEPT !.status = s]
<1>1. SetState(p, status) = [preview EXCEPT ![p] = row]
  BY DEF SetState
<1>2. preview \in [Previews -> PRow] /\ preview[p] \in PRow /\ s \in PreviewStatus
  BY DEF PTypes, PreviewStatus
<1>3. /\ row \in PRow /\ row.status = s /\ row.void = preview[p].void
      /\ row.cancel = preview[p].cancel /\ row.output = preview[p].output
  <2> HIDE DEF s
  <2> QED
    BY <1>2 DEF PRow
<1> HIDE DEF row
<1>4. /\ SetState(p, status) \in [Previews -> PRow] /\ SetState(p, status)[p] = row
      /\ \A q \in Previews : q # p => SetState(p, status)[q] = preview[q]
  BY <1>1, <1>2, <1>3
<1> QED
  BY <1>3, <1>4

\* A step of the worker with the row it holds: at most that row changes, and
\* its file.
LEMMA AttemptKeepsPreviews ==
    ASSUME PreviewInv, PTypes', NEW p, p = pWorker.job,
           pWorker.pc \in PHeld \ {"over"}, pWorker'.pc \in PHeld,
           pWorker'.job = p, pWorker'.ids = pWorker.ids, PAttempt',
           UNCHANGED <<pTimeline, pRedis, pPushing>>, pLost \in SUBSET pLost',
           \A q \in Previews : q # p => preview'[q] = preview[q] /\ pObject'[q] = pObject[q],
           preview'[p].void = preview[p].void, preview'[p].cancel = preview[p].cancel,
           preview'[p].status = "stale" => preview[p].void,
           preview'[p].status = "ready" =>
               preview'[p].output # 0 /\ pObject'[p] = preview'[p].output,
           preview'[p].status \in {"queued", "running"} =>
               pWorker'.pc # "over" \/ p \in pLost'
    PROVE  PreviewInv'
<1>0. /\ PTypes /\ PVoided /\ PHolding /\ ReadyPreviewIsRegistered
      /\ NoPreviewForgotten /\ LatestPreviewIsCurrent
  BY DEF PreviewInv
<1>1. p \in Previews /\ pWorker.pc \notin {"down", "recovering"} /\ pWorker.ids = <<>>
  BY <1>0 DEF PHolding, PHeld, PAttempting
<1>2. PVoided'
  BY <1>0, <1>1 DEF PVoided
<1>3. PHolding'
  BY <1>1 DEF PHolding, PHeld, PFree, PAttempting
<1>4. ReadyPreviewIsRegistered'
  BY <1>0 DEF ReadyPreviewIsRegistered
<1>5. LatestPreviewIsCurrent'
  BY <1>0 DEF LatestPreviewIsCurrent
<1>6. NoPreviewForgotten'
  <2> SUFFICES ASSUME NEW q \in Previews, preview'[q].status \in {"queued", "running"}
               PROVE  \/ q \in Queued(pRedis) \cup ToSet(pWorker.ids) \cup pLost'
                      \/ pPushing[q] > 0
                      \/ p = q /\ pWorker'.pc # "over"
    BY DEF NoPreviewForgotten, PIncomplete
  <2>1. CASE q = p
    BY <2>1
  <2>2. CASE q # p
    BY <1>0, <1>1, <2>2 DEF NoPreviewForgotten, PIncomplete
  <2> QED
    BY <2>1, <2>2
<1> QED
  BY <1>2, <1>3, <1>4, <1>5, <1>6 DEF PreviewInv

\* What the worker holds during an attempt.
LEMMA HeldRow ==
    ASSUME PreviewInv, pWorker.pc \in PHeld
    PROVE  /\ pWorker.job \in Previews
           /\ pWorker \in PWorkerRow
           /\ preview[pWorker.job] \in PRow
BY DEF PreviewInv, PTypes, PHolding

\* The steps that only move the worker.
LEMMA MoveKeepsPreviews ==
    ASSUME PreviewInv,
           LookAtPreview \/ RenderPreview \/ NoticeCancel \/ AttemptRaises \/ ProcessRaises
    PROVE  PreviewInv'
<1>0. PTypes /\ PAttempt /\ PVoided /\ ReadyPreviewIsRegistered
  BY DEF PreviewInv
<1>1. pWorker.pc \in PHeld \ {"over"}
  BY DEF LookAtPreview, RenderPreview, NoticeCancel, AttemptRaises, ProcessRaises, PHeld,
         PAttempting
<1>2. pWorker.job \in Previews /\ pWorker \in PWorkerRow /\ preview[pWorker.job] \in PRow
  BY <1>1, HeldRow
<1>3. /\ UNCHANGED <<pTimeline, preview, pRedis, pPushing, pObject, pAsset>>
      /\ pLost' \in {pLost, pLost \cup {pWorker.job}}
      /\ pCount' \in [requests : Nat, faults : Nat]
      /\ pWorker'.pc = "over" => ~PIncomplete(pWorker.job) \/ pWorker.job \in pLost'
  <2>1. pCount \in [requests : Nat, faults : Nat]
    BY <1>0 DEF PTypes
  <2>2. CASE LookAtPreview
    BY <1>2, <2>1, <2>2 DEF LookAtPreview, pRows, ToDo, PWorkerRow
  <2>3. CASE RenderPreview
    BY <1>2, <2>1, <2>3 DEF RenderPreview, pRows, PWorkerRow
  <2>4. CASE NoticeCancel
    BY <1>2, <2>1, <2>4 DEF NoticeCancel, pRows, PWorkerRow
  <2>5. CASE AttemptRaises
    BY <1>2, <2>1, <2>5 DEF AttemptRaises, PFault, pRows, PWorkerRow
  <2>6. CASE ProcessRaises
    BY <1>2, <2>1, <2>6 DEF ProcessRaises, PFault, pRows, PWorkerRow
  <2> QED
    BY <2>2, <2>3, <2>4, <2>5, <2>6
<1>4. /\ pWorker' \in PWorkerRow /\ pWorker'.job = pWorker.job /\ pWorker'.ids = pWorker.ids
      /\ pWorker'.pc \in PHeld
      /\ pWorker'.pc \in {"starting", "over", "rendered", "cancelling", "failing"}
      /\ pWorker'.pc = "starting" => PIncomplete(pWorker.job)
      /\ pWorker'.pc = "rendered" => pWorker'.file # 0
      /\ pWorker'.pc \notin {"starting", "over"} => pWorker.pc \in PAttempting
  <2>1. CASE LookAtPreview
    BY <1>2, <2>1 DEF LookAtPreview, PWorkerRow, PHeld, PAttempting, ToDo
  <2>2. CASE RenderPreview
    BY <1>2, <2>2, PreviewConstants DEF RenderPreview, PWorkerRow, PHeld, PAttempting
  <2>3. CASE NoticeCancel
    BY <1>2, <2>3 DEF NoticeCancel, PWorkerRow, PHeld, PAttempting
  <2>4. CASE AttemptRaises \/ ProcessRaises
    BY <1>2, <2>4 DEF AttemptRaises, ProcessRaises, PWorkerRow, PHeld, PAttempting
  <2> QED
    BY <2>1, <2>2, <2>3, <2>4
<1>5. PTypes'
  BY <1>0, <1>2, <1>3, <1>4 DEF PTypes
<1>6. PAttempt'
  <2>1. pWorker'.pc \in PAttempting => preview[pWorker.job].status # "ready"
    BY <1>0, <1>4 DEF PAttempt, PIncomplete, PAttempting
  <2> QED
    BY <1>3, <1>4, <2>1 DEF PAttempt
<1> DEFINE p == pWorker.job
<1>7. /\ preview[p].status = "stale" => preview[p].void
      /\ preview[p].status = "ready" => preview[p].output # 0 /\ pObject[p] = preview[p].output
  BY <1>0, <1>2 DEF PVoided, ReadyPreviewIsRegistered
<1>8. preview[p].status \in {"queued", "running"} => pWorker'.pc # "over" \/ p \in pLost'
  BY <1>3 DEF PIncomplete
<1> HIDE DEF p
<1>9. p = pWorker.job /\ pWorker'.job = p /\ pLost \in SUBSET pLost'
  BY <1>0, <1>3, <1>4 DEF p, PTypes
<1> QED
  BY <1>1, <1>3, <1>4, <1>5, <1>6, <1>7, <1>8, <1>9, AttemptKeepsPreviews

\* The transactions of an attempt that set the status of the row.
LEMMA ReportKeepsPreviews ==
    ASSUME PreviewInv, StartPreview \/ ReportProgress PROVE PreviewInv'
<1>0. PTypes /\ PAttempt /\ PVoided /\ ReadyPreviewIsRegistered
  BY DEF PreviewInv
<1>1. pWorker.pc \in PAttempting /\ pWorker.pc \in PHeld \ {"over"}
  BY DEF StartPreview, ReportProgress, PHeld, PAttempting
<1> DEFINE p == pWorker.job
           status == IF pWorker.pc = "starting" THEN "running" ELSE preview[p].status
<1>2. p \in Previews /\ pWorker \in PWorkerRow /\ preview[p] \in PRow
  BY <1>1, HeldRow
<1>3. /\ preview' = SetState(p, status)
      /\ UNCHANGED <<pTimeline, pRedis, pPushing, pObject, pAsset, pLost, pCount>>
  BY DEF StartPreview, ReportProgress
<1>4. status \in PreviewStatus /\ status # "ready"
  BY <1>0, <1>1, <1>2 DEF PRow, PAttempt, PreviewStatus
<1>5. status = "stale" => preview[p].void
  BY <1>0, <1>2 DEF PVoided
<1>6. /\ pWorker' \in PWorkerRow /\ pWorker'.job = p /\ pWorker'.ids = pWorker.ids
      /\ pWorker'.pc \in {"fetching", "over", "rendering", "storing", "completing"}
      /\ pWorker'.pc = "over" => preview'[p].status # "running" /\ status = "running"
      /\ pWorker'.pc = "storing" => pWorker.pc = "rendered" /\ pWorker'.file = pWorker.file
      /\ pWorker'.pc = "completing" => pWorker.pc = "registered"
  <2>1. CASE StartPreview
    BY <1>2, <2>1 DEF StartPreview, PWorkerRow, PHeld, PAttempting
  <2>2. CASE ReportProgress
    BY <1>2, <2>2 DEF ReportProgress, PWorkerRow, PHeld, PAttempting
  <2> QED
    BY <2>1, <2>2
<1> HIDE DEF p, status
<1>7. /\ preview' \in [Previews -> PRow]
      /\ \A q \in Previews : q # p => preview'[q] = preview[q]
      /\ preview'[p].status = IF preview[p].void THEN "stale"
                              ELSE IF preview[p].cancel THEN "cancelled" ELSE status
      /\ preview'[p].void = preview[p].void /\ preview'[p].cancel = preview[p].cancel
  BY <1>0, <1>2, <1>3, <1>4, SetStateRows
<1>8. PTypes'
  BY <1>0, <1>3, <1>6, <1>7 DEF PTypes
<1>9. preview'[p].status # "ready"
  BY <1>4, <1>7
<1>10. p = pWorker.job
  BY DEF p
<1>11. PAttempt'
  BY <1>0, <1>3, <1>6, <1>9, <1>10 DEF PAttempt
<1>12. preview'[p].status = "stale" => preview[p].void
  BY <1>5, <1>7
<1>13. preview'[p].status \in {"queued", "running"} => pWorker'.pc # "over"
  BY <1>6, <1>7
<1>14. pWorker'.pc \in PHeld /\ pLost \in SUBSET pLost'
  BY <1>3, <1>6 DEF PHeld, PAttempting
<1> QED
  BY <1>1, <1>3, <1>6, <1>7, <1>8, <1>9, <1>10, <1>11, <1>12, <1>13, <1>14, AttemptKeepsPreviews

\* The file is stored under the key of the row, and then registered.
LEMMA StoreKeepsPreviews ==
    ASSUME PreviewInv, StorePreview \/ RegisterPreview PROVE PreviewInv'
<1>0. PTypes /\ PAttempt /\ PVoided /\ ReadyPreviewIsRegistered
  BY DEF PreviewInv
<1>1. pWorker.pc \in PAttempting /\ pWorker.pc \in PHeld \ {"over"}
  BY DEF StorePreview, RegisterPreview, PHeld, PAttempting
<1> DEFINE p == pWorker.job
<1>2. p \in Previews /\ pWorker \in PWorkerRow /\ preview[p] \in PRow
  BY <1>1, HeldRow
<1>3. UNCHANGED <<pTimeline, preview, pRedis, pPushing, pLost, pCount>>
  BY DEF StorePreview, RegisterPreview, pRows
<1>4. /\ pObject' \in [Previews -> PContents \cup {0}]
      /\ pAsset' \in [Previews -> PContents \cup {0}]
      /\ \A q \in Previews : q # p => pObject'[q] = pObject[q]
      /\ pWorker' \in PWorkerRow /\ pWorker'.job = p /\ pWorker'.ids = pWorker.ids
      /\ pWorker'.pc \in {"stored", "registered", "failing"}
      /\ pWorker'.pc = "stored" => pWorker'.file # 0 /\ pObject'[p] = pWorker'.file
      /\ pWorker'.pc = "registered" => pAsset'[p] # 0 /\ pObject'[p] = pAsset'[p]
  <2>1. /\ pObject \in [Previews -> PContents \cup {0}]
        /\ pAsset \in [Previews -> PContents \cup {0}]
        /\ pWorker.file \in PContents \cup {0}
    BY <1>0, <1>2 DEF PTypes, PWorkerRow
  <2>2. CASE StorePreview
    <3>1. /\ pObject' = [pObject EXCEPT ![p] = pWorker.file] /\ pAsset' = pAsset
          /\ pWorker' = [pWorker EXCEPT !.pc = "stored"] /\ pWorker.file # 0
      BY <1>0, <2>2 DEF StorePreview, PAttempt
    <3>2. /\ pWorker' \in PWorkerRow /\ pWorker'.job = p /\ pWorker'.ids = pWorker.ids
          /\ pWorker'.pc = "stored" /\ pWorker'.file = pWorker.file
      BY <1>2, <3>1 DEF PWorkerRow, PHeld, PAttempting
    <3> HIDE DEF p
    <3> QED
      BY <1>2, <2>1, <3>1, <3>2
  <2>3. CASE RegisterPreview /\ SameOutput(p)
    <3>1. /\ pAsset' = [pAsset EXCEPT ![p] = IF @ = 0 THEN pWorker.file ELSE @]
          /\ pWorker' = [pWorker EXCEPT !.pc = "registered"] /\ pWorker.file # 0
          /\ pObject' = pObject /\ pObject[p] = pWorker.file
          /\ pAsset[p] \in {0, pWorker.file}
      BY <1>0, <2>3 DEF RegisterPreview, PAttempt, SameOutput
    <3>2. /\ pWorker' \in PWorkerRow /\ pWorker'.job = p /\ pWorker'.ids = pWorker.ids
          /\ pWorker'.pc = "registered"
      BY <1>2, <3>1 DEF PWorkerRow, PHeld, PAttempting
    <3> HIDE DEF p
    <3> QED
      BY <1>2, <2>1, <3>1, <3>2
  <2>4. CASE RegisterPreview /\ ~SameOutput(p)
    <3>1. /\ pWorker' = [pWorker EXCEPT !.pc = "failing"]
          /\ pObject' = pObject /\ pAsset' = pAsset
      BY <2>4 DEF RegisterPreview
    <3>2. /\ pWorker' \in PWorkerRow /\ pWorker'.job = p /\ pWorker'.ids = pWorker.ids
          /\ pWorker'.pc = "failing"
      BY <1>2, <3>1 DEF PWorkerRow, PHeld, PAttempting
    <3> QED
      BY <2>1, <3>1, <3>2
  <2> QED
    BY <2>2, <2>3, <2>4
<1>5. /\ preview[p].status # "ready"
      /\ preview[p].status = "stale" => preview[p].void
  BY <1>0, <1>1, <1>2 DEF PAttempt, PVoided
<1>6. p = pWorker.job
  OBVIOUS
<1> HIDE DEF p
<1>7. PTypes'
  BY <1>0, <1>3, <1>4 DEF PTypes
<1>8. PAttempt'
  BY <1>3, <1>4, <1>5 DEF PAttempt
<1>9. pWorker'.pc \in PHeld /\ pWorker'.pc # "over" /\ pLost \in SUBSET pLost'
  BY <1>3, <1>4 DEF PHeld, PAttempting
<1> QED
  BY <1>1, <1>3, <1>4, <1>5, <1>6, <1>7, <1>8, <1>9, AttemptKeepsPreviews

\* The end of an attempt: the row is ready with the registered file, or has
\* the status a cancellation, an edit or an error has settled.
LEMMA EndKeepsPreviews ==
    ASSUME PreviewInv, CompletePreview \/ FailPreview PROVE PreviewInv'
<1>0. PTypes /\ PAttempt /\ PVoided /\ ReadyPreviewIsRegistered
  BY DEF PreviewInv
<1>1. pWorker.pc \in PAttempting /\ pWorker.pc \in PHeld \ {"over"}
  BY DEF CompletePreview, FailPreview, PHeld, PAttempting
<1> DEFINE p == pWorker.job
<1>2. p \in Previews /\ pWorker \in PWorkerRow /\ preview[p] \in PRow
  BY <1>1, HeldRow
<1>3. /\ UNCHANGED <<pTimeline, pRedis, pPushing, pObject, pAsset, pLost, pCount>>
      /\ pWorker' = [pWorker EXCEPT !.pc = "over"]
  BY DEF CompletePreview, FailPreview
<1>4. /\ pWorker' \in PWorkerRow /\ pWorker'.job = p /\ pWorker'.ids = pWorker.ids
      /\ pWorker'.pc = "over"
  BY <1>2, <1>3 DEF PWorkerRow, PHeld
<1>5. /\ preview' \in [Previews -> PRow]
      /\ \A q \in Previews : q # p => preview'[q] = preview[q]
      /\ preview'[p].void = preview[p].void /\ preview'[p].cancel = preview[p].cancel
      /\ preview'[p].status \notin {"queued", "running"}
      /\ preview'[p].status = "stale" => preview[p].void
      /\ preview'[p].status = "ready" => preview'[p].output # 0 /\ pObject[p] = preview'[p].output
  <2>1. CASE CompletePreview
    <3> DEFINE set == SetState(p, "ready")
               row == [set[p] EXCEPT !.output = pAsset[p]]
    <3>1. preview' = [set EXCEPT ![p] = row] /\ pWorker.pc = "completing"
      BY <2>1 DEF CompletePreview
    <3>2. pAsset[p] # 0 /\ pObject[p] = pAsset[p] /\ pAsset[p] \in PContents \cup {0}
      BY <1>0, <1>2, <3>1 DEF PAttempt, PTypes
    <3> HIDE DEF p
    <3>3. /\ set \in [Previews -> PRow]
          /\ \A q \in Previews : q # p => set[q] = preview[q]
          /\ set[p].status = IF preview[p].void THEN "stale"
                             ELSE IF preview[p].cancel THEN "cancelled" ELSE "ready"
          /\ set[p].void = preview[p].void /\ set[p].cancel = preview[p].cancel
      <4>1. "ready" \in PreviewStatus
        BY DEF PreviewStatus
      <4> QED
        BY <1>0, <1>2, <4>1, SetStateRows
    <3> HIDE DEF set
    <3>4. /\ row \in PRow /\ row.status = set[p].status /\ row.void = set[p].void
          /\ row.cancel = set[p].cancel /\ row.output = pAsset[p]
      BY <1>2, <3>2, <3>3 DEF PRow
    <3> HIDE DEF row
    <3>5. /\ preview' \in [Previews -> PRow] /\ preview'[p] = row
          /\ \A q \in Previews : q # p => preview'[q] = preview[q]
      BY <1>2, <3>1, <3>3, <3>4
    <3> QED
      BY <3>2, <3>3, <3>4, <3>5
  <2>2. CASE FailPreview
    <3> DEFINE code == IF pWorker.pc = "cancelling" THEN "PREVIEW_CANCELLED"
                       ELSE "PREVIEW_RENDER_FAILED"
               row == FailedPreview(preview[p], code)
    <3>1. preview' = [preview EXCEPT ![p] = row]
      BY <2>2 DEF FailPreview
    <3>2. /\ row \in PRow /\ row.void = preview[p].void /\ row.cancel = preview[p].cancel
          /\ row.status \in {"stale", "cancelled", "failed"}
          /\ row.status = "stale" => row.void
      BY <1>2 DEF FailedPreview, PRow, PreviewStatus
    <3> HIDE DEF row, p
    <3> QED
      BY <1>0, <1>2, <3>1, <3>2 DEF PTypes
  <2> QED
    BY <2>1, <2>2
<1>6. p = pWorker.job
  OBVIOUS
<1> HIDE DEF p
<1>7. PTypes'
  BY <1>0, <1>3, <1>4, <1>5 DEF PTypes
<1>8. PAttempt'
  BY <1>4 DEF PAttempt, PAttempting
<1>9. pWorker'.pc \in PHeld /\ pLost \in SUBSET pLost'
  BY <1>3, <1>4 DEF PHeld
<1>10. pObject' = pObject
  BY <1>3
<1> QED
  BY <1>1, <1>3, <1>4, <1>5, <1>6, <1>7, <1>8, <1>9, <1>10, AttemptKeepsPreviews

-----------------------------------------------------------------------------
(* Previews: the theorems.                                                 *)

\* Every step keeps the invariant.
LEMMA PreviewStepInv == PreviewInv /\ [PNext]_pVars => PreviewInv'
<1> SUFFICES ASSUME PreviewInv, [PNext]_pVars PROVE PreviewInv'
  OBVIOUS
<1>1. CASE EditTimeline
  BY <1>1, EditKeepsPreviews
<1>2. ASSUME NEW p \in Previews,
             RequestPreview(p) \/ CancelPreview(p) \/ PushPreview(p) \/ PushPreviewFails(p)
      PROVE  PreviewInv'
  BY <1>2, RequestKeepsPreviews, CancelKeepsPreviews, PushKeepsPreviews
<1>3. CASE PreviewWorkerStep
  BY <1>3, RecoveryKeepsPreviews, ClaimKeepsPreviews, MoveKeepsPreviews, ReportKeepsPreviews,
     StoreKeepsPreviews, EndKeepsPreviews DEF PreviewWorkerStep
<1>4. CASE AttemptRaises \/ ProcessRaises \/ PreviewWorkerCrash
  BY <1>4, MoveKeepsPreviews, ClaimKeepsPreviews
<1>5. CASE UNCHANGED pVars
  BY <1>5 DEF pVars, PreviewInv, PTypes, PVoided, PHolding, PAttempt, LatestPreviewIsCurrent,
              ReadyPreviewIsRegistered, NoPreviewForgotten, PIncomplete
<1> QED
  BY <1>1, <1>2, <1>3, <1>4, <1>5 DEF PNext

LEMMA PreviewInvariant == PSpec => []PreviewInv
<1>1. PInit => PreviewInv
  BY PreviewInitInv
<1>2. PreviewInv /\ [PNext]_pVars => PreviewInv'
  BY PreviewStepInv
<1> QED
  BY <1>1, <1>2, PTL DEF PSpec

\* Rows, lists and positions have their types (preview_jobs and its queue).
THEOREM PreviewTypes == PSpec => []PTypeOK
<1>1. PreviewInv => PTypeOK
  BY DEF PreviewInv, PTypes, PTypeOK, PRow, PWorkerRow, Lists
<1> QED
  BY <1>1, PreviewInvariant, PTL

\* The preview a timeline offers is of its current version, and a ready preview
\* shows the registered file (create_preview, commit_mutation, complete_preview).
THEOREM PreviewsShowTheirVersions ==
    PSpec => [](LatestPreviewIsCurrent /\ ReadyPreviewIsRegistered)
<1>1. PreviewInv => LatestPreviewIsCurrent /\ ReadyPreviewIsRegistered
  BY DEF PreviewInv
<1> QED
  BY <1>1, PreviewInvariant, PTL

\* No unfinished preview is forgotten while a worker runs.
THEOREM PreviewsRemembered == PSpec => []NoPreviewForgotten
<1>1. PreviewInv => NoPreviewForgotten
  BY DEF PreviewInv
<1> QED
  BY <1>1, PreviewInvariant, PTL

\* Once an edit has voided a preview, no step brings it back (_set_preview_state,
\* fail_preview, create_preview).
THEOREM PreviewsStayStale == PSpec => StalePreviewsStayStale
<1> DEFINE Stays == \A p \in Previews : preview[p].status = "stale" => preview'[p].status = "stale"
<1>1. PreviewInv /\ [PNext]_pVars => [Stays]_pVars
  <2> SUFFICES ASSUME PreviewInv, [PNext]_pVars, NEW p \in Previews, preview[p].status = "stale"
               PROVE  preview'[p].status = "stale"
    OBVIOUS
  <2>0. /\ preview \in [Previews -> PRow] /\ preview[p] \in PRow
        /\ preview[p].void /\ preview[p].cancel /\ PTypes
    BY DEF PreviewInv, PTypes, PVoided
  <2>s. \A status \in PreviewStatus, q \in Previews :
           SetState(q, status)[p].status = "stale"
    BY <2>0, SetStateRows
  <2>1. CASE EditTimeline
    <3>1. Invalidated(p).status = "stale"
      BY <2>0 DEF Invalidated, PRow
    <3> QED
      BY <2>1, <3>1 DEF EditTimeline
  <2>2. ASSUME NEW q \in Previews,
               RequestPreview(q) \/ CancelPreview(q) \/ PushPreview(q) \/ PushPreviewFails(q)
        PROVE  preview'[p].status = "stale"
    <3>1. CASE RequestPreview(q)
      BY <2>0, <3>1 DEF RequestPreview, FirstRequest, Resettable
    <3>2. CASE CancelPreview(q)
      BY <2>0, <3>2 DEF CancelPreview, Cancelled, PRow
    <3>3. CASE PushPreview(q) \/ PushPreviewFails(q)
      BY <3>3 DEF PushPreview, PushPreviewFails, pRows
    <3> QED
      BY <2>2, <3>1, <3>2, <3>3
  <2>3. CASE StartPreview \/ ReportProgress \/ CompletePreview
    <3>1. pWorker.pc \in PHeld
      BY <2>3 DEF StartPreview, ReportProgress, CompletePreview, PHeld, PAttempting
    <3>2. pWorker.job \in Previews /\ preview[pWorker.job] \in PRow
      BY <3>1, HeldRow
    <3>3. /\ "running" \in PreviewStatus /\ "ready" \in PreviewStatus
          /\ preview[pWorker.job].status \in PreviewStatus
      BY <3>2 DEF PRow, PreviewStatus
    <3>4. CASE StartPreview \/ ReportProgress
      BY <2>s, <3>2, <3>3, <3>4 DEF StartPreview, ReportProgress
    <3>5. CASE CompletePreview
      <4> DEFINE set == SetState(pWorker.job, "ready")
      <4>1. preview' = [set EXCEPT ![pWorker.job].output = pAsset[pWorker.job]]
        BY <3>5 DEF CompletePreview
      <4>2. set \in [Previews -> PRow] /\ set[p].status = "stale" /\ set[p] \in PRow
        BY <2>0, <2>s, <3>2, <3>3, SetStateRows
      <4> HIDE DEF set
      <4> QED
        BY <4>1, <4>2 DEF PRow
    <3> QED
      BY <2>3, <3>4, <3>5
  <2>4. CASE FailPreview
    BY <2>0, <2>4 DEF FailPreview, FailedPreview, PRow
  <2>5. CASE UNCHANGED preview
    BY <2>5
  <2>6. /\ RecoverPreviewsRead \/ RecoverPreviews \/ ClaimPreview \/ LookAtPreview
           \/ RenderPreview \/ NoticeCancel \/ StorePreview \/ RegisterPreview
           \/ ReleasePreview => UNCHANGED preview
        /\ AttemptRaises \/ ProcessRaises \/ PreviewWorkerCrash => UNCHANGED preview
    BY DEF RecoverPreviewsRead, RecoverPreviews, ClaimPreview, LookAtPreview, RenderPreview,
           NoticeCancel, StorePreview, RegisterPreview, ReleasePreview, AttemptRaises,
           ProcessRaises, PreviewWorkerCrash, pRows
  <2> QED
    BY <2>1, <2>2, <2>3, <2>4, <2>5, <2>6 DEF PNext, PreviewWorkerStep, pVars
<1> QED
  BY <1>1, PreviewInvariant, PTL DEF PSpec, StalePreviewsStayStale

-----------------------------------------------------------------------------
(* Media: the inductive invariant.                                         *)

MItemRow == [status : {"absent", "planned", "needs_approval", "resolving", "resolved", "failed"},
             selected : SUBSET MAssets, attention : BOOLEAN]

MJobStatus == {"none", "queued", "running", "succeeded", "failed", "needs_approval"}

\* The worker's positions: with no job, with one, and with one that it runs.
MFree == {"down", "recovering", "waiting"}
MRunning == {"making", "metering", "completing", "failing"}
MHeld == MRunning \cup {"taken", "over"}

MWorkerRow == [pc : MFree \cup MHeld, job : MJobs \cup {NoJob}, ids : Seq(MJobs)]

MTypes ==
    /\ mPlan \in [MPlans -> {"none", "draft", "failed"}]
    /\ mPlanning \in SUBSET MPlans
    /\ mItem \in [MItems -> MItemRow]
    /\ mJob \in [MJobs -> MJobStatus]
    /\ mOwner \in [MAssets -> MPlans \cup {0}]
    /\ mRegistered \in SUBSET MAssets
    /\ mCosts \in [MJobs -> Nat]
    /\ mRedis \in Lists(MJobs)
    /\ mPushing \in SUBSET MJobs
    /\ mWorker \in MWorkerRow
    /\ mLost \in SUBSET MJobs
    /\ mFaults \in Nat

\* The job of an attempt is running, its asset is registered before it is
\* metered, and it is metered before it is completed.
MAttempt ==
    /\ mWorker.pc \in MHeld => mWorker.job \in MJobs
    /\ mWorker.pc \in MRunning => mJob[mWorker.job] = "running"
    /\ mWorker.pc \in {"metering", "completing"} => AssetOf(mWorker.job) \in mRegistered
    /\ mWorker.pc = "completing" => mCosts[mWorker.job] = 1

\* The items of a plan are saved together, before they have jobs or assets.
MSaved ==
    /\ \A i, k \in MItems :
          mItem[i].status = "absent" /\ MPlanOf[k] = MPlanOf[i] => mItem[k].status = "absent"
    /\ \A j \in MJobs : mJob[j] # "none" => mItem[j[1]].status # "absent"
    /\ \A a \in MAssets, i \in MItems : mOwner[a] = MPlanOf[i] => mItem[i].status # "absent"

\* Made media is recorded under the plan of its item.
MRecorded ==
    \A j \in MJobs : j[1] \notin MReusing => mOwner[j] \in {0, MPlanOf[j[1]]}

\* A resolved item shows the asset of a job of its own that succeeded.
MResolved ==
    \A i \in MItems : mItem[i].status = "resolved" =>
        \E j \in MJobs : /\ j[1] = i /\ mJob[j] = "succeeded"
                         /\ mItem[i].selected = {AssetOf(j)}
                         /\ AssetOf(j) \in mRegistered
                         /\ mOwner[AssetOf(j)] # 0

MResolving ==
    \A i \in MItems : mItem[i].status = "resolving" => \E j \in MJobs : j[1] = i /\ MOpen(j)

MediaInv ==
    /\ MTypes
    /\ MAttempt
    /\ MSaved
    /\ MRecorded
    /\ MResolved
    /\ MResolving
    /\ OneCostPerResolution

\* There are finitely many jobs; each is of an item and has an asset, and made
\* media is not the upload.
LEMMA MediaRows ==
    /\ IsFiniteSet(MJobs)
    /\ \A j \in MJobs : j[1] \in MItems /\ MPlanOf[j[1]] \in MPlans /\ AssetOf(j) \in MAssets
    /\ \A j \in MJobs : j[1] \notin MReusing => AssetOf(j) = j /\ j # Upload
    /\ \A j \in MJobs : j[1] \in MReusing => AssetOf(j) = Upload
    /\ MJobs \subseteq MAssets /\ Upload \in MAssets
<1>1. IsFiniteSet({0} \cup MCandidates)
  BY MediaConstants, FS_Singleton, FS_Union
<1>2. IsFiniteSet(MItems \X ({0} \cup MCandidates))
  BY <1>1, MediaConstants, FS_Product
<1>3. MJobs \subseteq MItems \X ({0} \cup MCandidates)
  BY DEF MJobs
<1>4. IsFiniteSet(MJobs)
  BY <1>2, <1>3, FS_Subset
<1>5. \A j \in MJobs : j[1] \in MItems /\ MPlanOf[j[1]] \in MPlans
  BY <1>3, MediaConstants
<1>6. \A j \in MJobs : j[1] \notin MReusing => j # Upload
  BY <1>3 DEF MJobs, Upload, NoJob
<1> QED
  BY <1>4, <1>5, <1>6 DEF AssetOf, MAssets

\* At first no plan was requested and the worker is down.
LEMMA MediaInitInv == MInit => MediaInv
<1> SUFFICES ASSUME MInit PROVE MediaInv
  OBVIOUS
<1>1. <<>> \in Seq(MJobs)
  BY EmptySeq
<1>2. mWorker \in MWorkerRow /\ mWorker.pc = "down"
  BY <1>1 DEF MInit, MIdle, MWorkerRow, MFree
<1>3. mRedis \in Lists(MJobs)
  BY <1>1 DEF MInit, EmptyQueue, Lists
<1>4. /\ mItem \in [MItems -> MItemRow]
      /\ \A i \in MItems : mItem[i].status = "absent"
  BY DEF MInit, MItemRow
<1>5. MTypes
  BY <1>2, <1>3, <1>4, MediaRows DEF MInit, MTypes, MJobStatus
<1>6. MAttempt /\ MResolved /\ MResolving
  BY <1>2, <1>4 DEF MAttempt, MHeld, MRunning, MResolved, MResolving
<1>7. MSaved /\ MRecorded /\ OneCostPerResolution
  <2>1. \A i \in MItems : MPlanOf[i] # 0
    BY MediaConstants
  <2> QED
    BY <1>4, <2>1, MediaRows DEF MInit, MSaved, MRecorded, OneCostPerResolution
<1> QED
  BY <1>5, <1>6, <1>7 DEF MediaInv

-----------------------------------------------------------------------------
(* Media: plans and requests.                                              *)

\* A step that leaves the items, the jobs, the books and the worker alone.
LEMMA BooksLeftAlone ==
    ASSUME MediaInv, UNCHANGED <<mItem, mJob, mBooks, mWorker>>
    PROVE  MAttempt' /\ MSaved' /\ MRecorded' /\ MResolved' /\ MResolving' /\ OneCostPerResolution'
BY DEF MediaInv, MAttempt, MSaved, MRecorded, MResolved, MResolving, MOpen, OneCostPerResolution,
       mBooks

\* What a fault counts.
LEMMA MediaFault == ASSUME MTypes, MFault PROVE mFaults' \in Nat
BY DEF MTypes, MFault

\* A plan is created, or fails before it has items; a crash of the API; a push.
LEMMA PlanKeepsMedia ==
    ASSUME MediaInv,
           \/ \E p \in MPlans : CreatePlan(p) \/ PlanningFails(p)
           \/ MediaApiCrash \/ \E j \in MJobs : PushResolution(j)
    PROVE  MediaInv'
<1>0. MTypes
  BY DEF MediaInv
<1>1. UNCHANGED <<mItem, mJob, mBooks, mWorker>>
  BY DEF CreatePlan, PlanningFails, MediaApiCrash, PushResolution
<1>2. MTypes'
  <2>1. ASSUME NEW p \in MPlans, CreatePlan(p) PROVE MTypes'
    BY <1>0, <2>1 DEF CreatePlan, MTypes, mBooks
  <2>2. ASSUME NEW p \in MPlans, PlanningFails(p) PROVE MTypes'
    BY <1>0, <2>2, MediaFault DEF PlanningFails, MTypes, mBooks
  <2>3. CASE MediaApiCrash
    BY <1>0, <2>3, MediaFault DEF MediaApiCrash, MTypes, mBooks
  <2>4. ASSUME NEW j \in MJobs, PushResolution(j) PROVE MTypes'
    <3>1. mRedis' \in Lists(MJobs)
      BY <1>0, <2>4, PushedLists DEF PushResolution, MTypes
    <3> QED
      BY <1>0, <2>4, <3>1 DEF PushResolution, MTypes, mBooks, mPlans
  <2> QED
    BY <2>1, <2>2, <2>3, <2>4
<1> QED
  BY <1>1, <1>2, BooksLeftAlone DEF MediaInv

\* The items of a plan are saved.
LEMMA SaveKeepsMedia ==
    ASSUME MediaInv, NEW p \in MPlans, SavePlanItems(p) PROVE MediaInv'
<1>0. MTypes /\ MAttempt /\ MSaved /\ MRecorded /\ MResolved /\ MResolving /\ OneCostPerResolution
  BY DEF MediaInv
<1>1. PICK costly \in SUBSET (ItemsOf(p) \ MReusing) :
          mItem' = [i \in MItems |->
              IF MPlanOf[i] # p THEN mItem[i]
              ELSE [mItem[i] EXCEPT !.status = IF i \in costly THEN "needs_approval" ELSE "planned",
                                    !.attention = i \in costly]]
  BY DEF SavePlanItems
<1>2. /\ mPlanning' = mPlanning \ {p}
      /\ UNCHANGED <<mJob, mBooks, mRedis, mPushing, mWorker, mLost>>
      /\ UNCHANGED <<mPlan, mFaults>> \/ (MFault /\ mPlan' = [mPlan EXCEPT ![p] = "failed"])
  BY DEF SavePlanItems
<1>3. /\ mItem' \in [MItems -> MItemRow]
      /\ \A i \in MItems : MPlanOf[i] # p => mItem'[i] = mItem[i]
      /\ \A i \in MItems : MPlanOf[i] = p => mItem'[i].status \in {"needs_approval", "planned"}
  <2> DEFINE row(i) == [mItem[i] EXCEPT
                           !.status = IF i \in costly THEN "needs_approval" ELSE "planned",
                           !.attention = i \in costly]
  <2>1. \A i \in MItems : /\ row(i) \in MItemRow
                          /\ row(i).status \in {"needs_approval", "planned"}
    <3> SUFFICES ASSUME NEW i \in MItems
                 PROVE  row(i) \in MItemRow /\ row(i).status \in {"needs_approval", "planned"}
      OBVIOUS
    <3> DEFINE b == i \in costly
    <3>1. mItem[i] \in MItemRow /\ b \in BOOLEAN
      BY <1>0 DEF MTypes
    <3>2. row(i) = [mItem[i] EXCEPT !.status = IF b THEN "needs_approval" ELSE "planned",
                                    !.attention = b]
      OBVIOUS
    <3> HIDE DEF b, row
    <3> QED
      BY <3>1, <3>2 DEF MItemRow
  <2>2. mItem' = [i \in MItems |-> IF MPlanOf[i] # p THEN mItem[i] ELSE row(i)]
    BY <1>1
  <2>3. mItem \in [MItems -> MItemRow]
    BY <1>0 DEF MTypes
  <2> HIDE DEF row
  <2> QED
    BY <2>1, <2>2, <2>3
<1>4. MTypes'
  <2>1. mPlan' \in [MPlans -> {"none", "draft", "failed"}] /\ mFaults' \in Nat
    BY <1>0, <1>2, MediaFault DEF MTypes
  <2> QED
    BY <1>0, <1>2, <1>3, <2>1 DEF MTypes, mBooks
<1>5. MSaved'
  <2>1. \A i, k \in MItems : mItem'[i].status = "absent" /\ MPlanOf[k] = MPlanOf[i]
                                => mItem'[k].status = "absent"
    BY <1>0, <1>3 DEF MSaved
  <2>2. \A j \in MJobs : mJob[j] # "none" => mItem'[j[1]].status # "absent"
    BY <1>0, <1>3, MediaRows DEF MSaved
  <2>3. \A a \in MAssets, i \in MItems : mOwner[a] = MPlanOf[i] => mItem'[i].status # "absent"
    BY <1>0, <1>3 DEF MSaved
  <2> QED
    BY <1>2, <2>1, <2>2, <2>3 DEF MSaved, mBooks
<1>6. MResolved' /\ MResolving'
  <2>1. \A i \in MItems : mItem'[i].status \in {"resolved", "resolving"} => mItem'[i] = mItem[i]
    BY <1>3
  <2> QED
    BY <1>0, <1>2, <2>1 DEF MResolved, MResolving, MOpen, mBooks
<1>7. MAttempt' /\ MRecorded' /\ OneCostPerResolution'
  BY <1>0, <1>2 DEF MAttempt, MRecorded, OneCostPerResolution, mBooks
<1> QED
  BY <1>4, <1>5, <1>6, <1>7 DEF MediaInv

\* One job and its item change: the job is not the worker's running one, or the
\* worker lets go of it, and no other job is touched.
LEMMA OneJobStep ==
    ASSUME MediaInv, MTypes', NEW j \in MJobs, NEW i, i = j[1],
           \A k \in MJobs : k # j => mJob'[k] = mJob[k],
           \A k \in MItems : k # i => mItem'[k] = mItem[k],
           UNCHANGED mBooks, mJob[j] # "succeeded", mJob'[j] # "succeeded",
           mItem[i].status # "absent", mItem'[i].status \notin {"absent", "resolved"},
           mItem'[i].status = "resolving" =>
               mJob'[j] \in {"queued", "running"} \/
               (mItem[i].status = "resolving" /\ ~ MOpen(j))
    PROVE  MSaved' /\ MRecorded' /\ MResolved' /\ MResolving' /\ OneCostPerResolution'
<1>0. MTypes /\ MSaved /\ MRecorded /\ MResolved /\ MResolving /\ OneCostPerResolution
  BY DEF MediaInv
<1>1. i \in MItems
  BY MediaRows
<1>2. MSaved'
  <2>1. \A k \in MItems : mItem'[k].status = "absent" <=> mItem[k].status = "absent"
    BY <1>1
  <2>2. \A k \in MJobs : mJob'[k] # "none" => mItem[k[1]].status # "absent"
    BY <1>0 DEF MSaved
  <2> QED
    BY <1>0, <2>1, <2>2, MediaRows DEF MSaved, mBooks
<1>3. MRecorded' /\ OneCostPerResolution'
  BY <1>0 DEF MRecorded, OneCostPerResolution, mBooks
<1>4. MResolved'
  BY <1>0, <1>1 DEF MResolved, mBooks
<1>5. MResolving'
  <2> SUFFICES ASSUME NEW k \in MItems, mItem'[k].status = "resolving"
               PROVE  \E l \in MJobs : l[1] = k /\ mJob'[l] \in {"queued", "running"}
    BY DEF MResolving, MOpen
  <2>1. CASE k = i /\ mJob'[j] \in {"queued", "running"}
    BY <2>1
  <2>2. CASE k = i /\ mItem[i].status = "resolving" /\ ~ MOpen(j)
    <3>1. PICK l \in MJobs : l[1] = i /\ MOpen(l)
      BY <1>0, <1>1, <2>2 DEF MResolving
    <3> QED
      BY <2>2, <3>1 DEF MOpen
  <2>3. CASE k # i
    <3>1. PICK l \in MJobs : l[1] = k /\ MOpen(l)
      BY <1>0, <2>3 DEF MResolving
    <3> QED
      BY <2>3, <3>1 DEF MOpen
  <2> QED
    BY <2>1, <2>2, <2>3
<1> QED
  BY <1>2, <1>3, <1>4, <1>5

\* A request makes the one job of an item and a candidate.
LEMMA EnqueueKeepsMedia ==
    ASSUME MediaInv, NEW j \in MJobs, EnqueueResolution(j) PROVE MediaInv'
<1> DEFINE i == j[1]
           costly == mItem[i].status = "needs_approval"
           row == [mItem[i] EXCEPT !.status = IF costly THEN mItem[i].status ELSE "resolving",
                                   !.attention = mItem[i].attention \/ costly]
           status == IF costly THEN "needs_approval" ELSE "queued"
<1>0. MTypes /\ MAttempt
  BY DEF MediaInv
<1>1. /\ mItem[i].status # "absent" /\ mJob[j] = "none"
      /\ mJob' = [mJob EXCEPT ![j] = status]
      /\ mPushing' \in {mPushing, mPushing \cup {j}}
      /\ UNCHANGED <<mPlans, mBooks, mRedis, mWorker, mLost, mFaults>>
  BY DEF EnqueueResolution
<1>2. mItem' = [mItem EXCEPT ![i] = row]
  <2>1. mItem' = [mItem EXCEPT ![i].status = IF costly THEN @ ELSE "resolving",
                               ![i].attention = @ \/ costly]
    BY DEF EnqueueResolution
  <2>2. mItem \in [MItems -> MItemRow] /\ i \in MItems /\ mItem[i] \in MItemRow
    BY <1>0, MediaRows DEF MTypes
  <2> DEFINE b == costly
  <2>3. b = costly /\ b \in BOOLEAN
    OBVIOUS
  <2>4. row = [mItem[i] EXCEPT !.status = IF b THEN mItem[i].status ELSE "resolving",
                               !.attention = mItem[i].attention \/ b]
    OBVIOUS
  <2>5. mItem' = [mItem EXCEPT ![i].status = IF b THEN @ ELSE "resolving",
                               ![i].attention = @ \/ b]
    BY <2>1
  <2> HIDE DEF b, row, i
  <2> QED
    BY <2>2, <2>3, <2>4, <2>5 DEF MItemRow
<1>3. i \in MItems /\ mItem[i] \in MItemRow
  BY <1>0, MediaRows DEF MTypes
<1>4. /\ row \in MItemRow
      /\ row.status \in {"needs_approval", "resolving"}
      /\ row.status = "resolving" => status = "queued"
      /\ status \in {"needs_approval", "queued"}
  <2> DEFINE b == costly
             a == mItem[i].attention \/ b
             s == IF b THEN mItem[i].status ELSE "resolving"
  <2>1. a \in BOOLEAN /\ s \in {"needs_approval", "resolving"}
    OBVIOUS
  <2>2. row = [mItem[i] EXCEPT !.status = s, !.attention = a]
    OBVIOUS
  <2>3. s = "resolving" => status = "queued"
    OBVIOUS
  <2>4. row.status = s /\ row \in MItemRow
    <3> HIDE DEF a, s, row
    <3> QED
      BY <1>3, <2>1, <2>2 DEF MItemRow
  <2> HIDE DEF row
  <2> QED
    BY <2>1, <2>3, <2>4
<1>5. i = j[1]
  OBVIOUS
<1> HIDE DEF row, status, i
<1>6. /\ mItem' \in [MItems -> MItemRow] /\ mItem'[i] = row
      /\ \A k \in MItems : k # i => mItem'[k] = mItem[k]
  BY <1>0, <1>2, <1>3, <1>4 DEF MTypes
<1>7. /\ mJob' \in [MJobs -> MJobStatus] /\ mJob'[j] = status
      /\ \A k \in MJobs : k # j => mJob'[k] = mJob[k]
  BY <1>0, <1>1, <1>4 DEF MTypes, MJobStatus
<1>8. MTypes'
  BY <1>0, <1>1, <1>6, <1>7 DEF MTypes, mPlans, mBooks
<1>9. MAttempt'
  <2>1. mWorker.pc \in MRunning => mWorker.job # j
    BY <1>0, <1>1 DEF MAttempt
  <2>2. MRunning \subseteq MHeld
    BY DEF MHeld
  <2> QED
    BY <1>0, <1>1, <1>7, <2>1, <2>2 DEF MAttempt, mBooks
<1>10. MSaved' /\ MRecorded' /\ MResolved' /\ MResolving' /\ OneCostPerResolution'
  BY <1>1, <1>4, <1>5, <1>6, <1>7, <1>8, OneJobStep
<1> QED
  BY <1>8, <1>9, <1>10 DEF MediaInv

-----------------------------------------------------------------------------
(* Media: the worker.                                                      *)

\* A step that leaves the plans, the items, the jobs and the books alone.
LEMMA WorkerOnlyStep ==
    ASSUME MediaInv, UNCHANGED <<mPlans, mItem, mJob, mBooks>>,
           mWorker' \in MWorkerRow, mRedis' \in Lists(MJobs), mPushing' \in SUBSET MJobs,
           mLost' \in SUBSET MJobs, mFaults' \in Nat, MAttempt'
    PROVE  MediaInv'
<1>1. MTypes'
  BY DEF MediaInv, MTypes, mPlans, mBooks
<1>2. MSaved' /\ MRecorded' /\ MResolved' /\ MResolving' /\ OneCostPerResolution'
  BY DEF MediaInv, MSaved, MRecorded, MResolved, MResolving, MOpen, OneCostPerResolution, mBooks
<1> QED
  BY <1>1, <1>2 DEF MediaInv

\* A restart reads the jobs, and then rebuilds the queue from what it read.
LEMMA RecoveryKeepsMedia ==
    ASSUME MediaInv, RecoverResolutionsRead \/ RecoverResolutions PROVE MediaInv'
<1>0. MTypes /\ MAttempt /\ mWorker \in MWorkerRow
  BY DEF MediaInv, MTypes
<1>1. CASE RecoverResolutionsRead
  <2> DEFINE unfinished == {j \in MJobs : MOpen(j)}
  <2>1. PICK ids \in Recoverable(mRedis, unfinished) :
           mWorker' = [mWorker EXCEPT !.pc = "recovering", !.ids = ids]
    BY <1>1 DEF RecoverResolutionsRead
  <2>2. UNCHANGED <<mPlans, mItem, mJob, mBooks, mRedis, mPushing, mLost, mFaults>>
    BY <1>1 DEF RecoverResolutionsRead
  <2>3. IsFiniteSet(unfinished) /\ unfinished \in SUBSET MJobs
    BY MediaRows, FS_Subset
  <2>4. mRedis.processing \in Seq(MJobs)
    BY <1>0 DEF MTypes, Lists
  <2> HIDE DEF unfinished
  <2>5. ids \in Seq(MJobs)
    BY <2>1, <2>3, <2>4, RecoverableIds
  <2>6. mWorker' \in MWorkerRow /\ mWorker'.pc = "recovering"
    BY <1>0, <2>1, <2>5 DEF MWorkerRow, MFree
  <2>7. MAttempt'
    BY <2>6 DEF MAttempt, MHeld, MRunning
  <2> QED
    BY <1>0, <2>2, <2>6, <2>7, WorkerOnlyStep DEF MTypes
<1>2. CASE RecoverResolutions
  <2>1. /\ mWorker' = [mWorker EXCEPT !.pc = "waiting", !.ids = <<>>]
        /\ mRedis' = Requeued(mRedis, mWorker.ids) /\ mLost' = mLost \ ToSet(mWorker.ids)
        /\ UNCHANGED <<mPlans, mItem, mJob, mBooks, mPushing, mFaults>>
    BY <1>2 DEF RecoverResolutions
  <2>2. mWorker.ids \in Seq(MJobs) /\ <<>> \in Seq(MJobs)
    BY <1>0, EmptySeq DEF MWorkerRow
  <2>3. mRedis' \in Lists(MJobs)
    BY <1>0, <2>1, <2>2, RequeuedLists DEF MTypes
  <2>4. mWorker' \in MWorkerRow /\ mWorker'.pc = "waiting"
    BY <1>0, <2>1, <2>2 DEF MWorkerRow, MFree
  <2>5. MAttempt'
    BY <2>4 DEF MAttempt, MHeld, MRunning
  <2>6. mLost' \in SUBSET MJobs
    BY <1>0, <2>1 DEF MTypes
  <2> QED
    BY <1>0, <2>1, <2>3, <2>4, <2>5, <2>6, WorkerOnlyStep DEF MTypes
<1> QED
  BY <1>1, <1>2

\* A claim, the release that ends it, and a crash.
LEMMA TakeKeepsMedia ==
    ASSUME MediaInv, TakeResolution \/ ReleaseResolution \/ MediaWorkerCrash PROVE MediaInv'
<1>0. MTypes /\ mWorker \in MWorkerRow
  BY DEF MediaInv, MTypes
<1>1. <<>> \in Seq(MJobs)
  BY EmptySeq
<1>2. UNCHANGED <<mPlans, mItem, mJob, mBooks, mPushing, mLost>>
  BY DEF TakeResolution, ReleaseResolution, MediaWorkerCrash
<1>3. mFaults' \in Nat
  BY <1>0, MediaFault DEF TakeResolution, ReleaseResolution, MediaWorkerCrash, MTypes
<1>4. /\ mWorker' \in MWorkerRow /\ mRedis' \in Lists(MJobs)
      /\ mWorker'.pc \in {"taken", "waiting", "down"}
      /\ mWorker'.pc = "taken" => mWorker'.job \in MJobs
  <2>1. ASSUME TakeResolution PROVE <1>4!:
    <3>1. /\ mRedis.queue # <<>> /\ mRedis' = Claimed(mRedis)
          /\ mWorker' = [mWorker EXCEPT !.pc = "taken", !.job = NextId(mRedis)]
      BY <2>1 DEF TakeResolution
    <3>2. NextId(mRedis) \in MJobs /\ mRedis' \in Lists(MJobs)
      BY <1>0, <3>1, ClaimedLists DEF MTypes
    <3> QED
      BY <1>0, <3>1, <3>2 DEF MWorkerRow, MHeld
  <2>2. ASSUME ReleaseResolution PROVE <1>4!:
    <3>1. mRedis' = Released(mRedis, mWorker.job) /\ mWorker' = [MIdle EXCEPT !.pc = "waiting"]
      BY <2>2 DEF ReleaseResolution
    <3>2. mRedis' \in Lists(MJobs)
      BY <1>0, <3>1, ReleasedLists DEF MTypes
    <3> QED
      BY <1>1, <3>1, <3>2 DEF MIdle, MWorkerRow, MFree
  <2>3. ASSUME MediaWorkerCrash PROVE <1>4!:
    <3>1. mRedis' = mRedis /\ mWorker' = MIdle
      BY <2>3 DEF MediaWorkerCrash
    <3> QED
      BY <1>0, <1>1, <3>1 DEF MIdle, MWorkerRow, MFree, MTypes
  <2> QED
    BY <2>1, <2>2, <2>3
<1>5. MAttempt'
  BY <1>4 DEF MAttempt, MHeld, MRunning
<1>6. mPushing' \in SUBSET MJobs /\ mLost' \in SUBSET MJobs
  BY <1>0, <1>2 DEF MTypes
<1> QED
  BY <1>2, <1>3, <1>4, <1>5, <1>6, WorkerOnlyStep

\* What the worker holds.
LEMMA HeldJob ==
    ASSUME MediaInv, mWorker.pc \in MHeld
    PROVE  /\ mWorker.job \in MJobs
           /\ mWorker \in MWorkerRow
           /\ mWorker.job[1] \in MItems
           /\ mItem[mWorker.job[1]] \in MItemRow
BY MediaRows DEF MediaInv, MTypes, MAttempt

\* An attempt that only moves the worker: a settled job, a transaction that
\* raises, and media that could not be made.
LEMMA MoveKeepsMedia ==
    ASSUME MediaInv,
           \/ BeginResolution /\ Terminal(mWorker.job)
           \/ ResolutionRaises \/ ResolutionEscapes
           \/ MakeMedia /\ mWorker'.pc = "failing" /\ UNCHANGED mRegistered
    PROVE  MediaInv'
<1>0. MTypes /\ MAttempt
  BY DEF MediaInv
<1>1. mWorker.pc \in MHeld
  BY DEF BeginResolution, ResolutionRaises, ResolutionEscapes, MakeMedia, MHeld, MRunning
<1>2. mWorker.job \in MJobs /\ mWorker \in MWorkerRow
  BY <1>1, HeldJob
<1>3. /\ UNCHANGED <<mPlans, mItem, mJob, mBooks, mRedis, mPushing>>
      /\ mLost' \in {mLost, mLost \cup {mWorker.job}}
  BY DEF BeginResolution, ResolutionRaises, ResolutionEscapes, MakeMedia, mBooks
<1>4. mFaults' \in Nat
  BY <1>0, MediaFault DEF BeginResolution, ResolutionRaises, ResolutionEscapes, MakeMedia, MTypes
<1>5. /\ mWorker' \in MWorkerRow /\ mWorker'.job = mWorker.job
      /\ mWorker'.pc \in {"over", "failing"}
      /\ mWorker'.pc = "failing" => mWorker.pc \in MRunning
  <2>1. CASE BeginResolution /\ Terminal(mWorker.job)
    BY <1>2, <2>1 DEF BeginResolution, MWorkerRow, MHeld, MRunning
  <2>2. CASE ResolutionRaises
    BY <1>2, <2>2 DEF ResolutionRaises, MWorkerRow, MHeld, MRunning
  <2>3. CASE ResolutionEscapes
    BY <1>2, <2>3 DEF ResolutionEscapes, MWorkerRow, MHeld, MRunning
  <2>4. CASE MakeMedia /\ mWorker'.pc = "failing" /\ UNCHANGED mRegistered
    BY <1>2, <2>4 DEF MakeMedia, MWorkerRow, MHeld, MRunning
  <2> QED
    BY <2>1, <2>2, <2>3, <2>4
<1>6. MAttempt'
  <2>1. mWorker'.pc \in MRunning => mWorker'.pc = "failing"
    BY <1>5 DEF MRunning
  <2> QED
    BY <1>0, <1>2, <1>3, <1>5, <2>1 DEF MAttempt
<1>7. mRedis' \in Lists(MJobs) /\ mPushing' \in SUBSET MJobs /\ mLost' \in SUBSET MJobs
  BY <1>0, <1>2, <1>3 DEF MTypes
<1> QED
  BY <1>3, <1>4, <1>5, <1>6, <1>7, WorkerOnlyStep

\* An attempt starts: its job is running.
LEMMA BeginKeepsMedia ==
    ASSUME MediaInv, BeginResolution, ~ Terminal(mWorker.job) PROVE MediaInv'
<1> DEFINE j == mWorker.job
           i == j[1]
<1>0. MTypes /\ MAttempt
  BY DEF MediaInv
<1>1. /\ mWorker.pc = "taken" /\ MOpen(j)
      /\ mJob' = [mJob EXCEPT ![j] = "running"]
      /\ mWorker' = [mWorker EXCEPT !.pc = "making"]
      /\ UNCHANGED <<mPlans, mItem, mBooks, mRedis, mPushing, mLost, mFaults>>
  BY DEF BeginResolution, Terminal
<1>2. j \in MJobs /\ mWorker \in MWorkerRow /\ i \in MItems
  BY <1>1, HeldJob DEF MHeld
<1>3. mWorker' \in MWorkerRow /\ mWorker'.pc = "making" /\ mWorker'.job = j
  BY <1>1, <1>2 DEF MWorkerRow, MHeld, MRunning
<1>4. i = j[1]
  OBVIOUS
<1> HIDE DEF i, j
<1>5. /\ mJob' \in [MJobs -> MJobStatus] /\ mJob'[j] = "running"
      /\ \A k \in MJobs : k # j => mJob'[k] = mJob[k]
  BY <1>0, <1>1, <1>2 DEF MTypes, MJobStatus
<1>6. MTypes'
  BY <1>0, <1>1, <1>3, <1>5 DEF MTypes, mPlans, mBooks
<1>7. MAttempt'
  BY <1>2, <1>3, <1>5 DEF MAttempt
<1>8. mItem[i].status # "absent"
  BY <1>1, <1>2, <1>4 DEF MediaInv, MSaved, MOpen
<1>9. MSaved' /\ MRecorded' /\ MResolved' /\ MResolving' /\ OneCostPerResolution'
  <2>1. MSaved'
    BY <1>1, <1>4, <1>5, <1>8, MediaRows DEF MediaInv, MSaved, mBooks
  <2>2. MRecorded' /\ OneCostPerResolution'
    BY <1>1, <1>5 DEF MediaInv, MRecorded, OneCostPerResolution, mBooks
  <2>3. MResolved'
    BY <1>1, <1>5 DEF MediaInv, MResolved, MOpen, mBooks
  <2>4. MResolving'
    BY <1>1, <1>5 DEF MediaInv, MResolving, MOpen
  <2> QED
    BY <2>1, <2>2, <2>3, <2>4
<1> QED
  BY <1>6, <1>7, <1>9 DEF MediaInv

\* The media is made and registered, and then metered.
LEMMA MeterKeepsMedia ==
    ASSUME MediaInv,
           \/ MakeMedia /\ mRegistered' = mRegistered \cup {AssetOf(mWorker.job)}
                        /\ mWorker'.pc = "metering"
           \/ MeterResolution
    PROVE  MediaInv'
<1> DEFINE j == mWorker.job
<1>0. /\ MTypes /\ MAttempt /\ MSaved /\ MRecorded /\ MResolved /\ MResolving
      /\ OneCostPerResolution
  BY DEF MediaInv
<1>1. mWorker.pc \in {"making", "metering"}
  BY DEF MakeMedia, MeterResolution
<1>2. j \in MJobs /\ mWorker \in MWorkerRow /\ mJob[j] = "running" /\ AssetOf(j) \in MAssets
  <2>1. mWorker.pc \in MHeld /\ mWorker.pc \in MRunning
    BY <1>1 DEF MHeld, MRunning
  <2> QED
    BY <1>0, <2>1, HeldJob, MediaRows DEF MAttempt
<1>3. /\ UNCHANGED <<mPlans, mItem, mJob, mOwner, mRedis, mPushing, mLost, mFaults>>
      /\ mRegistered' \in {mRegistered, mRegistered \cup {AssetOf(j)}}
      /\ mCosts' = mCosts \/ mCosts' = [mCosts EXCEPT ![j] = Metered(@)]
      /\ mWorker'.pc = "metering" => AssetOf(j) \in mRegistered'
      /\ mWorker'.pc = "completing" => AssetOf(j) \in mRegistered'
                                    /\ mCosts' = [mCosts EXCEPT ![j] = Metered(@)]
      /\ mWorker'.pc \in {"metering", "completing"}
      /\ mWorker' = [mWorker EXCEPT !.pc = mWorker'.pc]
  <2>1. CASE MeterResolution
    <3>1. mWorker'.pc = "completing"
      BY <1>2, <2>1 DEF MeterResolution, MWorkerRow
    <3> QED
      BY <1>0, <2>1, <3>1 DEF MeterResolution, MAttempt
  <2>2. CASE MakeMedia /\ mRegistered' = mRegistered \cup {AssetOf(mWorker.job)}
                       /\ mWorker'.pc = "metering"
    <3>1. mWorker' = [mWorker EXCEPT !.pc = "metering"]
      BY <1>2, <2>2 DEF MakeMedia, MWorkerRow
    <3> QED
      BY <2>2, <3>1 DEF MakeMedia
  <2> QED
    BY <2>1, <2>2
<1>4. mWorker' \in MWorkerRow /\ mWorker'.job = j
  BY <1>2, <1>3 DEF MWorkerRow, MHeld, MRunning
<1> HIDE DEF j
<1>5. mCosts \in [MJobs -> Nat] /\ \A k \in MJobs : mCosts[k] \in {0, 1}
  BY <1>0 DEF MTypes, OneCostPerResolution
<1>6. /\ mCosts' \in [MJobs -> Nat] /\ \A k \in MJobs : mCosts'[k] \in {0, 1}
      /\ \A k \in MJobs : mCosts[k] = 1 => mCosts'[k] = 1
      /\ mWorker'.pc = "completing" => mCosts'[j] = 1
  BY <1>2, <1>3, <1>5 DEF Metered
<1>7. MTypes'
  BY <1>0, <1>2, <1>3, <1>4, <1>6 DEF MTypes, mPlans
<1>8. MAttempt'
  BY <1>2, <1>3, <1>4, <1>6 DEF MAttempt
<1>9. MSaved' /\ MRecorded' /\ MResolving'
  BY <1>0, <1>3 DEF MSaved, MRecorded, MResolving, MOpen
<1>10. MResolved'
  BY <1>0, <1>3 DEF MResolved
<1>11. OneCostPerResolution'
  BY <1>0, <1>3, <1>6 DEF OneCostPerResolution
<1> QED
  BY <1>7, <1>8, <1>9, <1>10, <1>11 DEF MediaInv

\* An attempt ends without an asset: the item waits for an approval, or failed.
LEMMA FailKeepsMedia ==
    ASSUME MediaInv, CostNeedsApproval \/ FailResolution PROVE MediaInv'
<1> DEFINE j == mWorker.job
           i == j[1]
           status == IF mWorker.pc = "making" THEN "needs_approval" ELSE "failed"
           row == [mItem[i] EXCEPT !.status = status, !.attention = TRUE]
<1>0. MTypes /\ MAttempt
  BY DEF MediaInv
<1>1. mWorker.pc \in MRunning /\ mWorker.pc \in MHeld
  BY DEF CostNeedsApproval, FailResolution, MHeld, MRunning
<1>2. /\ j \in MJobs /\ mWorker \in MWorkerRow /\ mJob[j] = "running" /\ i \in MItems
      /\ mItem[i] \in MItemRow
  BY <1>0, <1>1, HeldJob DEF MAttempt
<1>3. /\ mJob' = [mJob EXCEPT ![j] = status]
      /\ mItem' = [mItem EXCEPT ![i] = row]
      /\ mWorker' = [mWorker EXCEPT !.pc = "over"]
      /\ UNCHANGED <<mPlans, mBooks, mRedis, mPushing, mLost, mFaults>>
  <2>1. CASE CostNeedsApproval
    <3>1. /\ mItem' = [mItem EXCEPT ![i].status = "needs_approval", ![i].attention = TRUE]
          /\ status = "needs_approval"
      BY <2>1 DEF CostNeedsApproval
    <3>2. mItem \in [MItems -> MItemRow]
      BY <1>0 DEF MTypes
    <3>3. mItem' = [mItem EXCEPT ![i] = row]
      BY <1>2, <3>1, <3>2 DEF MItemRow
    <3> QED
      BY <2>1, <3>3 DEF CostNeedsApproval
  <2>2. CASE FailResolution
    BY <2>2 DEF FailResolution, FailedItem
  <2> QED
    BY <2>1, <2>2
<1>4. mWorker' \in MWorkerRow /\ mWorker'.pc = "over" /\ mWorker'.job = j
  BY <1>2, <1>3 DEF MWorkerRow, MHeld
<1>5. status \in {"needs_approval", "failed"} /\ i = j[1]
  OBVIOUS
<1> HIDE DEF status
<1>6. row \in MItemRow /\ row.status = status
  BY <1>2, <1>5 DEF MItemRow
<1>7. mItem[i].status # "absent"
  BY <1>2 DEF MediaInv, MSaved
<1> HIDE DEF row, i, j
<1>8. /\ mItem' \in [MItems -> MItemRow] /\ mItem'[i] = row
      /\ \A k \in MItems : k # i => mItem'[k] = mItem[k]
  BY <1>0, <1>2, <1>3, <1>6 DEF MTypes
<1>9. /\ mJob' \in [MJobs -> MJobStatus] /\ mJob'[j] = status
      /\ \A k \in MJobs : k # j => mJob'[k] = mJob[k]
  BY <1>0, <1>2, <1>3, <1>5 DEF MTypes, MJobStatus
<1>10. MTypes'
  BY <1>0, <1>3, <1>4, <1>8, <1>9 DEF MTypes, mPlans, mBooks
<1>11. MAttempt'
  BY <1>2, <1>4 DEF MAttempt, MRunning
<1>12. MSaved' /\ MRecorded' /\ MResolved' /\ MResolving' /\ OneCostPerResolution'
  BY <1>2, <1>3, <1>5, <1>6, <1>7, <1>8, <1>9, <1>10, OneJobStep
<1> QED
  BY <1>10, <1>11, <1>12 DEF MediaInv

\* The resolution is complete: the item shows the asset, which keeps the
\* provenance it has.
LEMMA CompleteKeepsMedia == ASSUME MediaInv, CompleteResolution PROVE MediaInv'
<1> DEFINE j == mWorker.job
           i == j[1]
           asset == AssetOf(j)
           row == [status |-> "resolved", selected |-> {asset}, attention |-> ~Allowed(asset)]
<1>0. /\ MTypes /\ MAttempt /\ MSaved /\ MRecorded /\ MResolved /\ MResolving
      /\ OneCostPerResolution
  BY DEF MediaInv
<1>1. /\ mWorker.pc = "completing"
      /\ mOwner' = [mOwner EXCEPT ![asset] = IF @ = 0 THEN MPlanOf[i] ELSE @]
      /\ mJob' = [mJob EXCEPT ![j] = "succeeded"]
      /\ mItem' = [mItem EXCEPT ![i] = row]
      /\ mWorker' = [mWorker EXCEPT !.pc = "over"]
      /\ UNCHANGED <<mPlans, mRegistered, mCosts, mRedis, mPushing, mLost, mFaults>>
  BY DEF CompleteResolution
<1>2. /\ j \in MJobs /\ mWorker \in MWorkerRow /\ mJob[j] = "running" /\ i \in MItems
      /\ asset \in mRegistered /\ mCosts[j] = 1 /\ asset \in MAssets
      /\ MPlanOf[i] \in MPlans /\ MPlanOf[i] # 0
  <2>1. mWorker.pc \in MHeld /\ mWorker.pc \in MRunning
    BY <1>1 DEF MHeld, MRunning
  <2> QED
    BY <1>0, <1>1, <2>1, HeldJob, MediaRows, MediaConstants DEF MAttempt
<1>3. mWorker' \in MWorkerRow /\ mWorker'.pc = "over" /\ mWorker'.job = j
  BY <1>1, <1>2 DEF MWorkerRow, MHeld
<1>4. /\ row \in MItemRow /\ row.status = "resolved" /\ row.selected = {asset}
  BY <1>2 DEF MItemRow, Allowed
<1>5. /\ i = j[1] /\ asset = AssetOf(j)
  OBVIOUS
<1>6. mItem[i].status # "absent"
  BY <1>0, <1>2 DEF MSaved
<1> HIDE DEF row, asset, i, j
<1>7. /\ mItem' \in [MItems -> MItemRow] /\ mItem'[i] = row
      /\ \A k \in MItems : k # i => mItem'[k] = mItem[k]
  BY <1>0, <1>1, <1>2, <1>4 DEF MTypes
<1>8. /\ mJob' \in [MJobs -> MJobStatus] /\ mJob'[j] = "succeeded"
      /\ \A k \in MJobs : k # j => mJob'[k] = mJob[k]
  BY <1>0, <1>1, <1>2 DEF MTypes, MJobStatus
<1>9. /\ mOwner' \in [MAssets -> MPlans \cup {0}] /\ mOwner'[asset] # 0
      /\ mOwner'[asset] \in {mOwner[asset], MPlanOf[i]}
      /\ mOwner[asset] # 0 => mOwner'[asset] = mOwner[asset]
      /\ \A a \in MAssets : a # asset => mOwner'[a] = mOwner[a]
  BY <1>0, <1>1, <1>2 DEF MTypes
<1>10. MTypes'
  BY <1>0, <1>1, <1>3, <1>7, <1>8, <1>9 DEF MTypes, mPlans
<1>11. MAttempt'
  BY <1>2, <1>3 DEF MAttempt, MRunning
<1>12. MSaved'
  <2>1. \A k \in MItems : mItem'[k].status = "absent" <=> mItem[k].status = "absent"
    BY <1>2, <1>4, <1>6, <1>7
  <2>2. \A k \in MJobs : mJob'[k] # "none" => mItem[k[1]].status # "absent"
    BY <1>0, <1>5, <1>6, <1>8 DEF MSaved
  <2>3. \A a \in MAssets, k \in MItems : mOwner'[a] = MPlanOf[k] => mItem[k].status # "absent"
    <3> SUFFICES ASSUME NEW a \in MAssets, NEW k \in MItems, mOwner'[a] = MPlanOf[k]
                 PROVE  mItem[k].status # "absent"
      OBVIOUS
    <3>1. CASE mOwner'[a] = mOwner[a]
      BY <1>0, <3>1 DEF MSaved
    <3>2. CASE mOwner'[a] = MPlanOf[i]
      BY <1>0, <1>2, <1>6, <3>2 DEF MSaved
    <3> QED
      BY <1>9, <3>1, <3>2
  <2> QED
    BY <1>0, <2>1, <2>2, <2>3, MediaRows DEF MSaved
<1>13. MRecorded'
  <2> SUFFICES ASSUME NEW k \in MJobs, k[1] \notin MReusing
               PROVE  mOwner'[k] \in {0, MPlanOf[k[1]]}
    BY DEF MRecorded
  <2>1. k \in MAssets /\ mOwner[k] \in {0, MPlanOf[k[1]]} /\ k # Upload /\ AssetOf(k) = k
    BY <1>0, MediaRows DEF MRecorded
  <2>2. CASE k = asset
    <3>1. j[1] \notin MReusing /\ j = k
      BY <1>2, <1>5, <2>1, <2>2, MediaRows
    <3> QED
      BY <1>5, <1>9, <2>1, <2>2, <3>1
  <2>3. CASE k # asset
    BY <1>9, <2>1, <2>3
  <2> QED
    BY <2>2, <2>3
<1>14. MResolved'
  <2> SUFFICES ASSUME NEW k \in MItems, mItem'[k].status = "resolved"
               PROVE  \E l \in MJobs : /\ l[1] = k /\ mJob'[l] = "succeeded"
                                       /\ mItem'[k].selected = {AssetOf(l)}
                                       /\ AssetOf(l) \in mRegistered
                                       /\ mOwner'[AssetOf(l)] # 0
    BY <1>1 DEF MResolved
  <2>1. CASE k = i
    BY <1>2, <1>4, <1>5, <1>7, <1>8, <1>9, <2>1
  <2>2. CASE k # i
    <3>1. PICK l \in MJobs : /\ l[1] = k /\ mJob[l] = "succeeded"
                             /\ mItem[k].selected = {AssetOf(l)}
                             /\ AssetOf(l) \in mRegistered
                             /\ mOwner[AssetOf(l)] # 0
      BY <1>0, <1>7, <2>2 DEF MResolved
    <3>2. mOwner'[AssetOf(l)] # 0
      BY <1>9, <3>1, MediaRows
    <3> QED
      BY <1>7, <1>8, <2>2, <3>1, <3>2
  <2> QED
    BY <2>1, <2>2
<1>15. MResolving'
  <2> SUFFICES ASSUME NEW k \in MItems, mItem'[k].status = "resolving"
               PROVE  \E l \in MJobs : l[1] = k /\ mJob'[l] \in {"queued", "running"}
    BY DEF MResolving, MOpen
  <2>1. k # i
    BY <1>4, <1>7
  <2>2. PICK l \in MJobs : l[1] = k /\ MOpen(l)
    BY <1>0, <1>7, <2>1 DEF MResolving
  <2> QED
    BY <1>5, <1>8, <2>1, <2>2 DEF MOpen
<1>16. OneCostPerResolution'
  BY <1>0, <1>1, <1>2, <1>8 DEF OneCostPerResolution
<1> QED
  BY <1>10, <1>11, <1>12, <1>13, <1>14, <1>15, <1>16 DEF MediaInv

-----------------------------------------------------------------------------
(* Media: the theorems.                                                    *)

\* Every step keeps the invariant.
LEMMA MediaStepInv == MediaInv /\ [MNext]_mVars => MediaInv'
<1> SUFFICES ASSUME MediaInv, [MNext]_mVars PROVE MediaInv'
  OBVIOUS
<1>1. ASSUME NEW p \in MPlans, CreatePlan(p) \/ SavePlanItems(p) \/ PlanningFails(p)
      PROVE  MediaInv'
  BY <1>1, PlanKeepsMedia, SaveKeepsMedia
<1>2. ASSUME NEW j \in MJobs, EnqueueResolution(j) \/ PushResolution(j) PROVE MediaInv'
  BY <1>2, EnqueueKeepsMedia, PlanKeepsMedia
<1>3. CASE MediaWorkerStep
  <2>1. CASE BeginResolution
    BY <2>1, BeginKeepsMedia, MoveKeepsMedia
  <2>2. CASE MakeMedia
    <3>1. mWorker.pc \in MHeld
      BY <2>2 DEF MakeMedia, MHeld, MRunning
    <3>2. mWorker \in MWorkerRow
      BY <3>1, HeldJob
    <3>3. \/ /\ mRegistered' = mRegistered \cup {AssetOf(mWorker.job)}
             /\ mWorker'.pc = "metering"
          \/ mWorker'.pc = "failing" /\ UNCHANGED mRegistered
      BY <2>2, <3>2 DEF MakeMedia, MWorkerRow
    <3> QED
      BY <2>2, <3>3, MeterKeepsMedia, MoveKeepsMedia
  <2> QED
    BY <1>3, <2>1, <2>2, RecoveryKeepsMedia, TakeKeepsMedia, FailKeepsMedia, MeterKeepsMedia,
       CompleteKeepsMedia DEF MediaWorkerStep
<1>4. CASE MediaApiCrash \/ ResolutionRaises \/ ResolutionEscapes \/ MediaWorkerCrash
  BY <1>4, PlanKeepsMedia, MoveKeepsMedia, TakeKeepsMedia
<1>5. CASE UNCHANGED mVars
  <2>1. UNCHANGED <<mPlans, mItem, mJob, mBooks, mRedis, mPushing, mWorker, mLost, mFaults>>
    BY <1>5 DEF mVars, mPlans, mBooks
  <2>2. MTypes'
    BY <2>1 DEF MediaInv, MTypes, mPlans, mBooks
  <2> QED
    BY <2>1, <2>2, BooksLeftAlone DEF MediaInv
<1> QED
  BY <1>1, <1>2, <1>3, <1>4, <1>5 DEF MNext

LEMMA MediaInvariant == MSpec => []MediaInv
<1>1. MInit => MediaInv
  BY MediaInitInv
<1>2. MediaInv /\ [MNext]_mVars => MediaInv'
  BY MediaStepInv
<1> QED
  BY <1>1, <1>2, PTL DEF MSpec

\* Rows, lists and positions have their types (media plans and their queue).
THEOREM MediaTypes == MSpec => []MTypeOK
<1>1. MediaInv => MTypeOK
  BY DEF MediaInv, MTypes, MTypeOK, MItemRow, MJobStatus, MWorkerRow, Lists
<1> QED
  BY <1>1, MediaInvariant, PTL

\* What a plan shows follows its jobs (complete_resolution, mark_resolution_failed).
THEOREM ItemsFollow == MSpec => []ItemsFollowTheirJobs
<1>1. MediaInv => ItemsFollowTheirJobs
  <2> SUFFICES ASSUME MediaInv PROVE ItemsFollowTheirJobs
    OBVIOUS
  <2>1. \A i \in MItems : mItem[i].status = "resolved" =>
              \E j \in MJobs : /\ j[1] = i /\ mJob[j] = "succeeded"
                               /\ AssetOf(j) \in mItem[i].selected \cap mRegistered
                               /\ mOwner[AssetOf(j)] # 0
    BY DEF MediaInv, MResolved
  <2> QED
    BY <2>1 DEF MediaInv, MResolving, ItemsFollowTheirJobs
<1> QED
  BY <1>1, MediaInvariant, PTL

\* One cost record for a resolution, however often it runs
\* (record_provider_operation).
THEOREM ResolutionsArePaidOnce == MSpec => []OneCostPerResolution
<1>1. MediaInv => OneCostPerResolution
  BY DEF MediaInv
<1> QED
  BY <1>1, MediaInvariant, PTL

\* A plan that does not block publishing shows only assets that may be published,
\* whichever plan the upload was recorded under (publishing_blocked).
THEOREM PublishableIsAllowed == MSpec => []PublishableMeansAllowed
<1>1. MediaInv => PublishableMeansAllowed
  <2> SUFFICES ASSUME MediaInv, NEW p \in MPlans, ~PublishingBlocked(p), NEW i \in ItemsOf(p)
               PROVE  mItem[i].selected # {} /\ \A a \in mItem[i].selected : Allowed(a)
    BY DEF PublishableMeansAllowed
  <2>1. /\ i \in MItems /\ MPlanOf[i] = p /\ mItem[i].status \in {"resolved", "absent"}
        /\ \A a \in MAssets : mOwner[a] = p => Allowed(a)
        /\ \E a \in MAssets : mOwner[a] = p
    BY DEF PublishingBlocked, ItemsOf
  <2>2. PICK a \in MAssets : mOwner[a] = p /\ Allowed(a)
    BY <2>1
  <2>3. mItem[i].status = "resolved"
    BY <2>1, <2>2 DEF MediaInv, MSaved
  <2>4. PICK j \in MJobs : /\ j[1] = i /\ mItem[i].selected = {AssetOf(j)}
                           /\ mOwner[AssetOf(j)] # 0
    BY <2>1, <2>3 DEF MediaInv, MResolved
  <2>5. CASE i \in MReusing
    <3>1. AssetOf(j) = Upload
      BY <2>4, <2>5, MediaRows
    <3>2. Allowed(Upload)
      BY <2>2 DEF Allowed
    <3> QED
      BY <2>4, <3>1, <3>2
  <2>6. CASE i \notin MReusing
    <3>1. AssetOf(j) = j /\ j \in MAssets
      BY <2>4, <2>6, MediaRows
    <3>2. mOwner[j] = p
      BY <2>1, <2>4, <2>6, <3>1 DEF MediaInv, MRecorded
    <3> QED
      BY <2>1, <2>4, <3>1, <3>2
  <2> QED
    BY <2>5, <2>6
<1> QED
  BY <1>1, MediaInvariant, PTL

-----------------------------------------------------------------------------
(* The worker's queues side by side.                                       *)

\* Rows, lists and positions of every queue have their types.
THEOREM ServicesHaveTypes == ServicesSpec => []TypesHold
BY VideoJobTypes, PreviewTypes, DeliveriesHaveTypes, SyncsHaveTypes, MediaTypes, PTL
   DEF ServicesSpec, TypesHold

\* No queue forgets work that its rows call unfinished.
THEOREM ServicesForgetNothing == ServicesSpec => []NothingForgotten
BY JobsRemembered, PreviewsRemembered, DeliveriesRemembered, SyncsRemembered, PTL
   DEF ServicesSpec, NothingForgotten

\* Attempts are counted for what was sent, and past the maximum only for faults.
THEOREM ServicesCountAttempts == ServicesSpec => []AttemptsAreCounted
BY SendsAreCovered, SyncsAreCounted, PTL DEF ServicesSpec, AttemptsAreCounted

\* Deliveries and synchronisations implement the at-least-once outbox.
THEOREM ServicesImplementOutboxes == ServicesSpec => OutboxesImplemented
BY DeliveriesImplementOutbox, SyncsImplementOutbox DEF ServicesSpec, OutboxesImplemented

\* The latest preview is of the current version, and a ready one shows its file.
THEOREM ServicesShowCurrentPreviews == ServicesSpec => []PreviewsAreCurrent
BY PreviewsShowTheirVersions, PTL DEF ServicesSpec, PreviewsAreCurrent

\* Items follow their jobs, what is publishable is allowed, and one cost is paid.
THEOREM ServicesAccountForMedia == ServicesSpec => []MediaIsAccounted
BY ItemsFollow, PublishableIsAllowed, ResolutionsArePaidOnce, PTL
   DEF ServicesSpec, MediaIsAccounted

\* One key is one job, delivered once, whose artifacts are those recorded.
THEOREM ServicesKeepJobsSingle == ServicesSpec => []JobsAreSingle
BY OneJobForOneKey, JobsAreDeliveredOnce, ReviewableJobsMatch, PTL
   DEF ServicesSpec, JobsAreSingle

\* What was settled is not taken back by a late step or a repeated run.
THEOREM ServicesStaySettled == ServicesSpec => SettledStays
BY PreviewsStayStale, JobsNeverStepBack DEF ServicesSpec, SettledStays

-----------------------------------------------------------------------------
(* Deliverables.                                                           *)

VCue == [start : Int, end : Int, chars : Int]
VSpokenRow == [start : Int, end : Int, speed : Int]
VRendering == {"narration", "mixed", "rendered", "ready", "published", "blocked"}

\* What was spoken, cue by cue: each within its cue, and none ends before one
\* above it.
VoiceHolds(spoken, cues, length) ==
    /\ Len(spoken) <= Len(cues)
    /\ \A i \in 1 .. Len(spoken) :
          /\ spoken[i].start = cues[i].start
          /\ spoken[i].end <= cues[i].end /\ spoken[i].end <= length
          /\ spoken[i].speed <= MostSpeed
    /\ \A i, j \in 1 .. Len(spoken) :
          i < j => spoken[i].end <= spoken[j].end /\ spoken[j].start >= spoken[i].end - 34

VInv ==
    /\ vCut \in VCuts
    /\ vPc \in {"cut", "package", "refused", "failed"} \cup VRendering
    /\ vCues \in Seq(VCue) /\ vSpoken \in Seq(VSpokenRow)
    /\ vPc \in {"cut", "refused", "package"} => vSpoken = <<>>
    /\ vPc \in {"package"} \cup VRendering => vCues # <<>> /\ CuesFit(vCues)
    /\ VoiceHolds(vSpoken, vCues, vCut.length)
    /\ vPc \in VRendering => Renderable /\ vProfile \in {"vertical", "landscape"}
    /\ vPc \in {"ready", "published", "blocked"} => QCPasses(vFile)
    /\ vPc = "published" =>
          /\ \A a \in SourceAssets(vRequest) : RightsVerified(VAssets[a])
          /\ PlatformTakes(vRequest)

LEMMA NoVoice ==
    ASSUME NEW cues \in Seq(VCue), NEW length
    PROVE  VoiceHolds(<<>>, cues, length)
  BY LenProperties DEF VoiceHolds

\* The cues of a package are as long as they say.
LEMMA DerivedAreCues ==
    ASSUME vCut \in VCuts, \A c, d \in ToldClips : c.start = d.start => c = d, ToldClips # {}
    PROVE  DerivedCues \in Seq(VCue) /\ DerivedCues # <<>>
<1> DEFINE S == {CueOf(c) : c \in ToldClips}
           R == {p \in S \X S : p[1].start < p[2].start}
           s == InOrder(S, LAMBDA a, b : a.start < b.start)
<1>1. /\ IsFiniteSet(vCut.clips) /\ ToldClips \subseteq vCut.clips /\ vCut.length \in Int
      /\ \A c \in ToldClips : c.start \in Int /\ c.length \in Int /\ c.chars \in Int
  BY DeliverableConstants DEF ToldClips
<1>2. IsFiniteSet(S) /\ S # {}
  <2>1. IsFiniteSet(ToldClips)
    BY <1>1, FS_Subset
  <2>2. IsFiniteSet(S)
    <3> DEFINE f == [c \in ToldClips |-> CueOf(c)]
    <3>1. S = {f[c] : c \in ToldClips}
      OBVIOUS
    <3> HIDE DEF f, S
    <3> QED
      BY <2>1, <3>1, FiniteImage
  <2> QED
    BY <2>2
<1>3. ASSUME NEW c \in ToldClips PROVE CueOf(c) \in VCue /\ CueOf(c).start = c.start
  <2>1. c.start \in Int /\ c.start + c.length \in Int
    BY <1>1
  <2>2. Min({vCut.length, c.start + c.length}) \in Int /\ Min({180, c.chars}) \in Int
    <3> DEFINE a == vCut.length
               b == c.start + c.length
               d == c.chars
    <3>1. a \in Int /\ b \in Int /\ d \in Int
      BY <1>1, <2>1
    <3> HIDE DEF a, b, d
    <3>2. Min({a, b}) = IF a <= b THEN a ELSE b
      BY <3>1, OfTwo
    <3>3. Min({180, d}) = IF 180 <= d THEN 180 ELSE d
      BY <3>1, OfTwo
    <3>4. Min({a, b}) \in Int /\ Min({180, d}) \in Int
      BY <3>1, <3>2, <3>3
    <3> QED
      BY <3>4 DEF a, b, d
  <2> QED
    BY <1>1, <2>1, <2>2 DEF CueOf, VCue
<1>4. \A x, y \in S : x.start \in Int /\ (x.start = y.start => x = y)
  BY <1>1, <1>3
<1>5. S \subseteq VCue
  BY <1>3
<1>6. \A x, y \in S : <<x, y>> \in R <=> x.start < y.start
  OBVIOUS
<1> HIDE DEF S, R
<1>7. IsOrder(S, R)
  <2>1. ASSUME NEW x \in S, NEW y \in S PROVE x = y \/ x.start < y.start \/ y.start < x.start
    BY <1>4
  <2>2. ASSUME NEW x \in S, NEW y \in S, NEW z \in S, x.start < y.start, y.start < z.start
        PROVE  x.start < z.start
    BY <1>4, <2>2
  <2>3. \A x \in S : ~(x.start < x.start)
    BY <1>4
  <2> QED
    BY <1>6, <2>1, <2>2, <2>3 DEF IsOrder
<1>8. ByRank(s, S, R)
  <2>1. ASSUME NEW x \in S PROVE Rank(S, R, x) = Cardinality({y \in S : y.start < x.start})
    <3>1. {y \in S : <<y, x>> \in R} = {y \in S : y.start < x.start}
      BY <1>6
    <3> QED
      BY <3>1 DEF Rank
  <2>2. ASSUME NEW n \in 1 .. Cardinality(S), \E x \in S : Rank(S, R, x) = n - 1
        PROVE  s[n] \in S /\ Rank(S, R, s[n]) = n - 1
    <3>1. s[n] = CHOOSE x \in S : Cardinality({y \in S : y.start < x.start}) = n - 1
      BY DEF InOrder
    <3>2. \E x \in S : Cardinality({y \in S : y.start < x.start}) = n - 1
      BY <2>1, <2>2
    <3>3. s[n] \in S /\ Cardinality({y \in S : y.start < s[n].start}) = n - 1
      BY <3>1, <3>2
    <3> QED
      BY <2>1, <3>3
  <2>3. s = [n \in 1 .. Cardinality(S) |-> s[n]]
    <3> DEFINE e(n) == CHOOSE x \in S : Cardinality({y \in S : y.start < x.start}) = n - 1
    <3>1. s = [n \in 1 .. Cardinality(S) |-> e(n)]
      BY DEF InOrder
    <3> HIDE DEF s, e
    <3> QED
      BY <3>1
  <2> HIDE DEF s
  <2> QED
    BY <2>2, <2>3 DEF ByRank
<1>9. s = DerivedCues
  BY DEF DerivedCues, S
<1> HIDE DEF s
<1>10. s \in Seq(S) /\ Len(s) = Cardinality(S)
  BY <1>2, <1>7, <1>8, Ordering
<1>11. s \in Seq(VCue)
  BY <1>5, <1>10
<1>12. s # <<>>
  <2>1. Cardinality(S) # 0
    BY <1>2, FS_EmptySet
  <2> QED
    BY <1>10, <2>1
<1> QED
  BY <1>9, <1>11, <1>12

LEMMA PackageKeeps == ASSUME VInv, CreatePackage \/ ReplaceCues \/ ReplaceMix PROVE VInv'
<1>1. CASE CreatePackage
  <2>1. CASE vPc' = "refused"
    <3>1. vCues' = vCues /\ vSpoken' = <<>> /\ vSpoken = <<>> /\ vCut' = vCut
      BY <1>1, <2>1 DEF VInv, CreatePackage
    <3> QED
      BY <2>1, <3>1 DEF VInv, VRendering
  <2>2. CASE vPc' # "refused"
    <3>1. /\ vCues' = DerivedCues /\ vPc' = "package" /\ vSpoken' = <<>> /\ vCut' = vCut
          /\ CuesFit(DerivedCues) /\ DerivedCues \in Seq(VCue) /\ DerivedCues # <<>>
      BY <1>1, <2>2, DerivedAreCues DEF VInv, CreatePackage
    <3>3. CuesFit(vCues)'
      <4> DEFINE d == DerivedCues
      <4>1. vCues' = d /\ CuesFit(d)
        BY <3>1
      <4> HIDE DEF d
      <4> QED
        BY <3>1, <4>1 DEF CuesFit
    <3>4. VoiceHolds(vSpoken', vCues', vCut'.length)
      BY <3>1, NoVoice
    <3>5. vSpoken' \in Seq(VSpokenRow)
      BY <3>1
    <3> QED
      BY <3>1, <3>3, <3>4, <3>5 DEF VInv, VRendering
  <2> QED
    BY <2>1, <2>2
<1>2. CASE ReplaceCues
  <2>1. PICK cues \in VOffers : CuesFit(cues) /\ vCues' = cues
    BY <1>2 DEF ReplaceCues
  <2>2. vPc = "package" /\ vPc' = "package" /\ vSpoken = <<>> /\ vSpoken' = <<>> /\ vCut' = vCut
    BY <1>2 DEF VInv, ReplaceCues
  <2>3. cues \in Seq(VCue) /\ cues # <<>>
    <3>1. [start : Nat, end : Nat, chars : Nat] \subseteq VCue
      BY DEF VCue
    <3>2. cues \in Seq([start : Nat, end : Nat, chars : Nat]) /\ cues # <<>>
      BY DeliverableConstants
    <3>3. \A S, T : S \subseteq T => Seq(S) \subseteq Seq(T)
      OBVIOUS
    <3> QED
      BY <3>1, <3>2, <3>3
  <2>4. CuesFit(vCues)'
    BY <2>1, <2>2 DEF CuesFit
  <2>5. VoiceHolds(vSpoken', vCues', vCut'.length)
    BY <2>1, <2>2, <2>3, NoVoice
  <2>6. vSpoken' \in Seq(VSpokenRow) /\ vCues' \in Seq(VCue) /\ vCues' # <<>>
    BY <2>1, <2>2, <2>3
  <2> QED
    BY <2>2, <2>4, <2>5, <2>6 DEF VInv, VRendering
<1>3. CASE ReplaceMix
  <2>1. vPc = "package" /\ vPc' = "package" /\ vSpoken' = vSpoken /\ vCues' = vCues /\ vCut' = vCut
    BY <1>3 DEF ReplaceMix
  <2> QED
    BY <2>1 DEF VInv, VRendering, CuesFit
<1> QED
  BY <1>1, <1>2, <1>3

\* What was rendered stays rendered from the same.
LEMMA RenderSame ==
    ASSUME VInv, vCut' = vCut, vCues' = vCues, vMix' = vMix, vPc \in VRendering
    PROVE  Renderable' /\ CuesFit(vCues)'
  BY DEF VInv, Renderable, NoGaps, Active, Visible, CuesFit

LEMMA StartRenderKeeps == ASSUME VInv, StartRender PROVE VInv'
<1>1. /\ vPc = "package" /\ vProfile' \in {"vertical", "landscape"}
      /\ vPc' = IF Renderable THEN "narration" ELSE "failed"
      /\ vCut' = vCut /\ vCues' = vCues /\ vMix' = vMix /\ vSpoken' = vSpoken
  BY DEF StartRender
<1>2. Renderable' <=> Renderable
  BY <1>1 DEF Renderable, NoGaps, Active, Visible, CuesFit
<1>3. CuesFit(vCues)' <=> CuesFit(vCues)
  BY <1>1 DEF CuesFit
<1> QED
  BY <1>1, <1>2, <1>3 DEF VInv, VRendering

\* A cue is spoken within itself, after what was spoken before.
LEMMA SpokenHolds ==
    ASSUME NEW spoken \in Seq(VSpokenRow), NEW cues \in Seq(VCue), NEW length, NEW end \in Int,
           NEW speed \in Int, VoiceHolds(spoken, cues, length),
           NEW i, i = Len(spoken) + 1, i <= Len(cues),
           i > 1 => cues[i].start >= cues[i - 1].end - 34,
           end >= cues[i].start + 34, end <= cues[i].end, end <= length, speed <= MostSpeed
    PROVE  /\ Append(spoken, [start |-> cues[i].start, end |-> end, speed |-> speed]) \in Seq(VSpokenRow)
           /\ VoiceHolds(Append(spoken, [start |-> cues[i].start, end |-> end, speed |-> speed]),
                         cues, length)
<1> DEFINE row == [start |-> cues[i].start, end |-> end, speed |-> speed]
           more == Append(spoken, row)
<1>1. Len(spoken) \in Nat /\ Len(cues) \in Nat /\ i \in 1 .. Len(cues)
  BY LenProperties
<1>2. cues[i].start \in Int /\ \A n \in 1 .. Len(cues) : cues[n].start \in Int /\ cues[n].end \in Int
  <2>1. \A n \in 1 .. Len(cues) : cues[n] \in VCue
    OBVIOUS
  <2> QED
    BY <1>1, <2>1 DEF VCue
<1>3. row \in VSpokenRow /\ row.start = cues[i].start /\ row.end = end /\ row.speed = speed
  BY <1>2 DEF VSpokenRow
<1> HIDE DEF row
<1>4. /\ more \in Seq(VSpokenRow) /\ Len(more) = i /\ more[i] = row
      /\ \A n \in 1 .. Len(spoken) : more[n] = spoken[n]
  BY <1>1, <1>3, AppendProperties
<1>5. ASSUME NEW m \in 1 .. Len(spoken) PROVE spoken[m].end \in Int /\ spoken[m].end <= cues[i - 1].end
  <2>1. i - 1 \in 1 .. Len(spoken) /\ i - 1 = Len(spoken) /\ m \in Int /\ i - 1 \in 1 .. Len(cues)
    BY <1>1
  <2>0. spoken[m] \in VSpokenRow /\ spoken[i - 1] \in VSpokenRow
    BY <1>1, <2>1
  <2>2. spoken[m].end \in Int /\ spoken[i - 1].end \in Int /\ cues[i - 1].end \in Int
    BY <1>2, <2>0, <2>1 DEF VSpokenRow
  <2>3. spoken[i - 1].end <= cues[i - 1].end
    BY <2>1 DEF VoiceHolds
  <2>4. m = i - 1 \/ spoken[m].end <= spoken[i - 1].end
    <3>0. m \in Int /\ i - 1 \in Int /\ m <= i - 1
      BY <1>1, <2>1
    <3>1. m = i - 1 \/ m < i - 1
      BY <3>0
    <3> QED
      BY <2>1, <3>1 DEF VoiceHolds
  <2> QED
    BY <2>2, <2>3, <2>4
<1> HIDE DEF more
<1>6. ASSUME NEW m \in 1 .. i
      PROVE  /\ more[m].start = cues[m].start
             /\ more[m].end <= cues[m].end /\ more[m].end <= length
             /\ more[m].speed <= MostSpeed
  <2>1. m \in 1 .. Len(spoken) \/ m = i
    BY <1>1
  <2> QED
    BY <1>3, <1>4, <2>1 DEF VoiceHolds
<1>7. ASSUME NEW m \in 1 .. i, NEW n \in 1 .. i, m < n
      PROVE  more[m].end <= more[n].end /\ more[n].start >= more[m].end - 34
  <2>1. m \in 1 .. Len(spoken)
    BY <1>1, <1>7
  <2>2. CASE n \in 1 .. Len(spoken)
    BY <1>4, <1>7, <2>1, <2>2 DEF VoiceHolds
  <2>3. CASE n = i
    <3>1. more[n] = row /\ more[m] = spoken[m]
      BY <1>4, <2>1, <2>3
    <3>2. spoken[m].end \in Int /\ spoken[m].end <= cues[i - 1].end
      BY <1>5, <2>1
    <3>3. i > 1 /\ i - 1 \in 1 .. Len(cues)
      BY <1>1, <2>1
    <3>4. cues[i].start >= cues[i - 1].end - 34 /\ cues[i - 1].end \in Int
      BY <1>2, <3>3
    <3>6. cues[i].start \in Int /\ end \in Int /\ end >= cues[i].start + 34
      BY <1>2
    <3>5. cues[i].start >= spoken[m].end - 34 /\ end >= spoken[m].end
      BY <3>2, <3>4, <3>6
    <3> QED
      BY <1>3, <3>1, <3>5
  <2> QED
    BY <1>1, <2>2, <2>3
<1>8. VoiceHolds(more, cues, length)
  BY <1>1, <1>4, <1>6, <1>7 DEF VoiceHolds
<1> QED
  BY <1>4, <1>8 DEF more, row

LEMMA NarrateKeeps == ASSUME VInv, Narrate PROVE VInv'
<1> DEFINE i == Len(vSpoken) + 1
           slot == vCues[i].end - vCues[i].start
           Late(length) == length > slot
           Chunk(length, misfit) == IF Late(length) THEN FitLength(slot) + misfit ELSE length
           End(length, misfit) == vCues[i].start + Chunk(length, misfit)
           Speed(length) == IF Late(length) THEN SpeedUp(length, slot) ELSE 100
<1>1. /\ vPc = "narration" /\ vCut' = vCut /\ vCues' = vCues /\ vMix' = vMix
      /\ vProfile' = vProfile /\ vPc \in VRendering
  BY DEF Narrate, VRendering
<1>2. Renderable' /\ CuesFit(vCues)' /\ vCues # <<>> /\ vProfile \in {"vertical", "landscape"}
  BY <1>1, RenderSame DEF VInv
<1>3. /\ vSpoken \in Seq(VSpokenRow) /\ vCues \in Seq(VCue) /\ vCut \in VCuts
      /\ VoiceHolds(vSpoken, vCues, vCut.length) /\ CuesFit(vCues)
  BY <1>1 DEF VInv
<1>4. CASE vSpoken' = vSpoken /\ vPc' \in {"mixed", "failed"}
  BY <1>1, <1>2, <1>3, <1>4 DEF VInv, VRendering
<1>5. ASSUME NEW length \in VSpeech, NEW misfit \in VMisfits, i <= Len(vCues),
             Late(length) => SpeedUp(length, slot) <= MostSpeed,
             End(length, misfit) <= vCues[i].end, End(length, misfit) <= vCut.length,
             vSpoken' = Append(vSpoken, [start |-> vCues[i].start, end |-> End(length, misfit),
                                         speed |-> Speed(length)]),
             vPc' = vPc
      PROVE  VInv'
  <2>1. i \in 1 .. Len(vCues) /\ vCues[i] \in VCue /\ vCues[i].start \in Int /\ vCues[i].end \in Int
    <3>1. Len(vSpoken) \in Nat /\ Len(vCues) \in Nat
      BY <1>3, LenProperties
    <3>2. i \in 1 .. Len(vCues)
      BY <1>5, <3>1
    <3>3. vCues[i] \in VCue
      BY <1>3, <3>2
    <3> QED
      BY <3>2, <3>3 DEF VCue
  <2>2. length \in Nat /\ length >= 34 /\ misfit \in Int /\ 80 + misfit >= 34
    BY DeliverableConstants
  <2>3. slot \in Int /\ FitLength(slot) \in Int /\ FitLength(slot) >= 80
    <3>1. slot \in Int /\ slot - 20 \in Int
      BY <2>1
    <3> DEFINE b == slot - 20
    <3> HIDE DEF slot
    <3>4. FitLength(slot) = Max({80, b})
      BY DEF FitLength
    <3>5. b \in Int
      BY <3>1
    <3> HIDE DEF b
    <3>2. Max({80, b}) = IF 80 <= b THEN b ELSE 80
      BY <3>5, OfTwo
    <3> QED
      BY <3>1, <3>2, <3>4, <3>5
  <2> HIDE DEF slot
  <2>4. Chunk(length, misfit) \in Int /\ Chunk(length, misfit) >= 34
    BY <2>2, <2>3
  <2>5. Speed(length) \in Int /\ Speed(length) <= MostSpeed
    <3>1. SpeedUp(length, slot) \in Int
      BY <2>2, <2>3 DEF SpeedUp
    <3> QED
      BY <1>5, <3>1 DEF MostSpeed
  <2> HIDE DEF Late
  <2>6. End(length, misfit) \in Int /\ End(length, misfit) >= vCues[i].start + 34
    <3> HIDE DEF Chunk
    <3> QED
      BY <2>1, <2>4
  <2>7. i > 1 => vCues[i].start >= vCues[i - 1].end - 34
    <3>1. i \in DOMAIN vCues
      BY <1>3, <2>1, LenProperties
    <3> QED
      BY <1>3, <3>1 DEF CuesFit
  <2> DEFINE e == End(length, misfit)
             f == Speed(length)
  <2>8. /\ e \in Int /\ f \in Int /\ e >= vCues[i].start + 34 /\ f <= MostSpeed
        /\ e <= vCues[i].end /\ e <= vCut.length
    BY <1>5, <2>5, <2>6
  <2>9. vSpoken' = Append(vSpoken, [start |-> vCues[i].start, end |-> e, speed |-> f])
    BY <1>5
  <2> HIDE DEF e, f
  <2>10. i = Len(vSpoken) + 1 /\ i <= Len(vCues)
    BY <1>5
  <2> HIDE DEF i
  <2>11. vSpoken' \in Seq(VSpokenRow) /\ VoiceHolds(vSpoken', vCues, vCut.length)
    BY <1>3, <2>7, <2>8, <2>9, <2>10, SpokenHolds
  <2> QED
    BY <1>1, <1>2, <1>3, <1>5, <2>11 DEF VInv, VRendering
<1>6. CASE \E length \in VSpeech, misfit \in VMisfits :
             /\ i <= Len(vCues)
             /\ Late(length) => SpeedUp(length, slot) <= MostSpeed
             /\ End(length, misfit) <= vCues[i].end /\ End(length, misfit) <= vCut.length
             /\ vSpoken' = Append(vSpoken, [start |-> vCues[i].start, end |-> End(length, misfit),
                                            speed |-> Speed(length)])
             /\ vPc' = vPc
  BY <1>5, <1>6
<1>7. Len(vSpoken) \in Nat /\ Len(vCues) \in Nat
  BY <1>3, LenProperties
<1>8. CASE ~(~vMix.voice \/ i > Len(vCues))
  <2>1. \/ vSpoken' = vSpoken /\ vPc' \in {"mixed", "failed"}
        \/ \E length \in VSpeech, misfit \in VMisfits :
             /\ i <= Len(vCues)
             /\ Late(length) => SpeedUp(length, slot) <= MostSpeed
             /\ End(length, misfit) <= vCues[i].end /\ End(length, misfit) <= vCut.length
             /\ vSpoken' = Append(vSpoken, [start |-> vCues[i].start, end |-> End(length, misfit),
                                            speed |-> Speed(length)])
             /\ vPc' = vPc
    <3>1. PICK length \in VSpeech, misfit \in VMisfits :
            IF /\ Late(length) => SpeedUp(length, slot) <= MostSpeed
               /\ End(length, misfit) <= vCues[i].end /\ End(length, misfit) <= vCut.length
            THEN /\ vSpoken' = Append(vSpoken, [start |-> vCues[i].start, end |-> End(length, misfit),
                                                 speed |-> Speed(length)])
                 /\ vPc' = vPc
            ELSE vPc' = "failed" /\ vSpoken' = vSpoken
      BY <1>8 DEF Narrate
    <3>2. i <= Len(vCues)
      BY <1>7, <1>8
    <3> HIDE DEF i, slot, Late, End, Speed
    <3> QED
      BY <3>1, <3>2
  <2> QED
    BY <1>4, <1>6, <2>1
<1>9. CASE ~vMix.voice \/ i > Len(vCues)
  BY <1>4, <1>9 DEF Narrate
<1> QED
  BY <1>8, <1>9

LEMMA AfterNarrationKeeps == ASSUME VInv, Render \/ Inspect \/ Publish PROVE VInv'
<1>1. /\ vPc \in {"mixed", "rendered", "ready"} /\ vCut' = vCut /\ vCues' = vCues /\ vMix' = vMix
      /\ vProfile' = vProfile /\ vSpoken' = vSpoken
  BY DEF Render, Inspect, Publish
<1>2. Renderable' /\ CuesFit(vCues)' /\ vCues # <<>> /\ vProfile \in {"vertical", "landscape"}
  <2>1. vPc \in VRendering
    BY <1>1 DEF VRendering
  <2> QED
    BY <1>1, <2>1, RenderSame DEF VInv
<1>3. /\ vCut' \in VCuts /\ vCues' \in Seq(VCue) /\ vSpoken' \in Seq(VSpokenRow)
      /\ VoiceHolds(vSpoken', vCues', vCut'.length) /\ vCues' # <<>>
      /\ vProfile' \in {"vertical", "landscape"}
  BY <1>1, <1>2 DEF VInv
<1>4. CASE Render \/ (Inspect /\ vPc' = "failed")
  <2>1. vPc' \in {"rendered", "failed"}
    BY <1>4 DEF Render
  <2> QED
    BY <1>2, <1>3, <2>1 DEF VInv, VRendering
<1>5. CASE Inspect /\ vPc' # "failed"
  <2>1. vPc' = "ready" /\ QCPasses(vFile) /\ vFile' = vFile
    BY <1>5 DEF Inspect
  <2>2. QCPasses(vFile)'
    BY <1>1, <2>1 DEF QCPasses
  <2> QED
    BY <1>2, <1>3, <2>1, <2>2 DEF VInv, VRendering
<1>6. CASE Publish
  <2>1. vPc' \in {"published", "blocked"} /\ vFile' = vFile /\ vPc = "ready"
    BY <1>6 DEF Publish
  <2>2. QCPasses(vFile)'
    BY <1>1, <2>1 DEF VInv, QCPasses
  <2>3. vPc' = "published" =>
          /\ \A a \in SourceAssets(vRequest)' : RightsVerified(VAssets[a])
          /\ PlatformTakes(vRequest)'
    <3> SUFFICES ASSUME vPc' = "published"
                 PROVE  /\ \A a \in SourceAssets(vRequest)' : RightsVerified(VAssets[a])
                        /\ PlatformTakes(vRequest)'
      OBVIOUS
    <3>1. PICK request \in VRequests :
            /\ vRequest' = request
            /\ vPc' = IF /\ SourceAssets(request) # {}
                         /\ \A a \in SourceAssets(request) : RightsVerified(VAssets[a])
                         /\ PlatformTakes(request)
                      THEN "published" ELSE "blocked"
      BY <1>6 DEF Publish
    <3>2. (\A a \in SourceAssets(request) : RightsVerified(VAssets[a])) /\ PlatformTakes(request)
      BY <3>1
    <3>3. SourceAssets(vRequest)' = SourceAssets(request)
      BY <1>1, <3>1 DEF SourceAssets
    <3>4. PlatformTakes(vRequest)'
      BY <1>1, <2>1, <3>1, <3>2 DEF PlatformTakes
    <3> QED
      BY <3>2, <3>3, <3>4
  <2>4. \A a \in SourceAssets(vRequest)' : RightsVerified(VAssets[a]) <=> RightsVerified(VAssets[a])'
    BY DEF RightsVerified
  <2> QED
    BY <1>2, <1>3, <2>1, <2>2, <2>3, <2>4 DEF VInv, VRendering
<1> QED
  BY <1>4, <1>5, <1>6

\* Every step keeps what the checks before it found.
LEMMA DeliveryKeeps == ASSUME VInv, [VNext]_vVars PROVE VInv'
<1>1. CASE UNCHANGED vVars
  <2>1. /\ vCut' = vCut /\ vCues' = vCues /\ vMix' = vMix /\ vProfile' = vProfile
        /\ vSpoken' = vSpoken /\ vFile' = vFile /\ vRequest' = vRequest /\ vPc' = vPc
    BY <1>1 DEF vVars
  <2>2. /\ CuesFit(vCues)' <=> CuesFit(vCues)
        /\ Renderable' <=> Renderable
    BY <2>1 DEF CuesFit, Renderable, NoGaps, Active, Visible
  <2>3. QCPasses(vFile)' <=> QCPasses(vFile)
    BY <2>1 DEF QCPasses
  <2>4. /\ SourceAssets(vRequest)' = SourceAssets(vRequest)
        /\ PlatformTakes(vRequest)' <=> PlatformTakes(vRequest)
    BY <2>1 DEF SourceAssets, PlatformTakes
  <2> QED
    BY <2>1, <2>2, <2>3, <2>4 DEF VInv
<1> QED
  BY <1>1, PackageKeeps, StartRenderKeeps, NarrateKeeps, AfterNarrationKeeps DEF VNext

LEMMA DeliveryStarts == ASSUME VInit PROVE VInv
<1>1. vPc = "cut" /\ vCues = <<>> /\ vSpoken = <<>> /\ vCut \in VCuts
  BY DEF VInit
<1>2. <<>> \in Seq(VCue) /\ <<>> \in Seq(VSpokenRow)
  OBVIOUS
<1>3. VoiceHolds(vSpoken, vCues, vCut.length)
  BY <1>1, <1>2, NoVoice
<1> QED
  BY <1>1, <1>2, <1>3 DEF VInv, VRendering

\* Where no gap is longer than 50 ms a picture is never further away.
LEMMA PictureIsNear ==
    ASSUME vCut \in VCuts, NoGaps(vCut), NEW t \in Nat, t < vCut.length - 50
    PROVE  \E c \in Visible(vCut) : c.start <= t + 50 /\ ClipEnd(c) > t
<1> DEFINE V == Visible(vCut)
           L == vCut.length
<1>1. /\ V # {} /\ IsFiniteSet(V) /\ L \in Int
      /\ \A c \in V : c.start \in Nat /\ ClipEnd(c) \in Nat
  <2>1. V \subseteq vCut.clips
    BY DEF Visible, Active
  <2> QED
    BY <2>1, DeliverableConstants, FS_Subset DEF NoGaps, ClipEnd
<1>2. \A T : T \subseteq V => IsFiniteSet({ClipEnd(c) : c \in T})
  <2> SUFFICES ASSUME NEW T, T \subseteq V PROVE IsFiniteSet({ClipEnd(c) : c \in T})
    OBVIOUS
  <2> DEFINE f == [c \in T |-> ClipEnd(c)]
  <2>1. {ClipEnd(c) : c \in T} = {f[c] : c \in T}
    OBVIOUS
  <2>2. IsFiniteSet(T)
    BY <1>1, FS_Subset
  <2> HIDE DEF f
  <2> QED
    BY <2>1, <2>2, FiniteImage
<1>3. \E c \in V : ClipEnd(c) > t
  <2> DEFINE E == {ClipEnd(c) : c \in V}
  <2>1. E \subseteq Int /\ IsFiniteSet(E) /\ E # {}
    BY <1>1, <1>2
  <2>2. Max(E) >= L - 50
    BY DEF NoGaps
  <2>3. Max(E) \in E
    <3> HIDE DEF E
    <3> QED
      BY <2>1, ExtremesAre
  <2>4. PICK c \in V : Max(E) = ClipEnd(c)
    BY <2>3
  <2> HIDE DEF E, V
  <2>5. ClipEnd(c) >= L - 50 /\ ClipEnd(c) \in Int
    BY <1>1, <2>2, <2>4
  <2> QED
    BY <1>1, <2>5
<1> SUFFICES ASSUME \A c \in V : ClipEnd(c) > t => c.start > t + 50
             PROVE  FALSE
  BY <1>1
<1> DEFINE late == {c \in V : ClipEnd(c) > t}
           starts == {c.start : c \in late}
<1>4. starts # {} /\ starts \in SUBSET Nat
  BY <1>1, <1>3
<1>5. PICK first \in starts : \A n \in starts : first <= n
  <2> HIDE DEF starts
  <2> QED
    BY <1>4, LeastIndex
<1>6. PICK c \in V : ClipEnd(c) > t /\ c.start = first
  BY <1>5
<1> DEFINE before == {ClipEnd(d) : d \in {e \in V : e.start < c.start}}
           all == {0} \cup before
<1>7. c.start <= Max(all) + 50
  BY <1>6 DEF NoGaps
<1>8. \A x \in all : x \in Int /\ x <= t
  <2>1. ASSUME NEW d \in V, d.start < c.start PROVE ClipEnd(d) \in Int /\ ClipEnd(d) <= t
    <3>1. ClipEnd(d) > t => first <= d.start
      BY <1>5
    <3> QED
      BY <1>1, <1>6, <2>1, <3>1
  <2> QED
    BY <1>1, <2>1
<1>9. IsFiniteSet(all) /\ all # {}
  <2>1. IsFiniteSet(before)
    BY <1>2
  <2> HIDE DEF before
  <2> QED
    BY <2>1, FS_AddElement
<1>10. Max(all) \in all
  <2> HIDE DEF all
  <2>1. all \subseteq Int
    BY <1>8
  <2> QED
    BY <1>9, <2>1, ExtremesAre
<1>11. Max(all) \in Int /\ Max(all) <= t
  <2> HIDE DEF all
  <2> QED
    BY <1>8, <1>10
<1>12. c.start > t + 50 /\ c.start \in Nat
  BY <1>1, <1>6
<1> HIDE DEF all
<1> QED
  BY <1>7, <1>11, <1>12

\* What the checks add up to.
LEMMA DeliveryHolds ==
    ASSUME VInv
    PROVE  VTypeOK /\ VoicesTakeTurns /\ PublishedShowsTheCut /\ PublishedIsCleared
<1>1. VTypeOK
  <2>1. vPc \in {"ready", "published", "blocked"} => vFile # NoFile /\ vCues # <<>>
    BY DEF VInv, VRendering, QCPasses, NoFile
  <2> QED
    BY <2>1 DEF VInv, VRendering, VTypeOK, VoiceHolds
<1>2. VoicesTakeTurns
  <2>1. DOMAIN vSpoken = 1 .. Len(vSpoken)
    BY LenProperties DEF VInv
  <2> QED
    BY <2>1 DEF VInv, VoiceHolds, VoicesTakeTurns
<1>3. ASSUME vPc = "published"
      PROVE  /\ Renderable /\ QCPasses(vFile) /\ PlatformTakes(vRequest) /\ vCut \in VCuts
             /\ \A a \in SourceAssets(vRequest) : RightsVerified(VAssets[a])
  BY <1>3 DEF VInv, VRendering
<1>4. PublishedShowsTheCut
  <2> SUFFICES ASSUME vPc = "published" PROVE PublishedShowsTheCut
    BY DEF PublishedShowsTheCut
  <2>1. \A t \in {0} \cup {ClipEnd(c) : c \in Visible(vCut)} :
              t < vCut.length - 50 => \E c \in Visible(vCut) : c.start <= t + 50 /\ ClipEnd(c) > t
    <3>1. \A c \in Visible(vCut) : ClipEnd(c) \in Nat
      BY <1>3, DeliverableConstants DEF Visible, Active, ClipEnd
    <3>2. \A t \in Nat : t < vCut.length - 50 =>
              \E c \in Visible(vCut) : c.start <= t + 50 /\ ClipEnd(c) > t
      BY <1>3, PictureIsNear DEF Renderable
    <3> QED
      BY <3>1, <3>2
  <2>2. 1000 <= vFile.length /\ vFile.length <= 180000 /\ vProfile \in Limits(vRequest.platform).profiles
    BY <1>3 DEF PlatformTakes, Limits
  <2>3. /\ Near(vFile.length, vCut.length, 500) /\ Near(vFile.rate, vCut.rate, 2)
        /\ vFile.profile = vProfile
    BY <1>3 DEF QCPasses
  <2> QED
    BY <2>1, <2>2, <2>3 DEF PublishedShowsTheCut
<1>5. PublishedIsCleared
  <2> SUFFICES ASSUME vPc = "published" PROVE PublishedIsCleared
    BY DEF PublishedIsCleared
  <2>1. ASSUME NEW a \in {c.asset : c \in Visible(vCut)}
        PROVE  RightsVerified(VAssets[a]) /\ VAssets[a].content \in {"image", "video"}
    <3>1. a # NoAsset /\ VAssets[a].content \in {"image", "video"}
      BY <1>3 DEF Renderable
    <3>2. a \in SourceAssets(vRequest)
      BY <3>1 DEF Visible, Active, SourceAssets
    <3> QED
      BY <1>3, <3>1, <3>2
  <2>2. vMix.music # NoAsset => VAssets[vMix.music].eligible /\ MusicCleared(VAssets[vMix.music])
    <3>1. vMix.music # NoAsset => vMix.music \in SourceAssets(vRequest) /\ MusicCleared(VAssets[vMix.music])
      BY <1>3 DEF Renderable, SourceAssets
    <3> QED
      BY <1>3, <3>1 DEF RightsVerified
  <2>3. vRequest.thumbnail # NoAsset => VAssets[vRequest.thumbnail].content = "image"
    BY <1>3 DEF PlatformTakes
  <2> QED
    BY <2>1, <2>2, <2>3 DEF PublishedIsCleared
<1> QED
  BY <1>1, <1>2, <1>4, <1>5

-----------------------------------------------------------------------------
(* Learning.                                                               *)

LInv ==
    /\ lValues \in LValues
    /\ lState \in {"new", "insufficient_data", "winner_candidate", "normal", "underperforming"}
    /\ lState = "new" => lInsights = {}
    /\ lState \notin {"new", "insufficient_data"} =>
          Sufficient /\ lState = ClassOf(WeightedSum(KnownFactors), Coverage(KnownFactors))
    /\ lState # "new" => lInsights = InsightsFor(lState)

LEMMA LearningKeeps == ASSUME LInv, [LNext]_lVars PROVE LInv'
<1>1. /\ lMetrics' = lMetrics /\ lViews' = lViews /\ lHours' = lHours
      /\ lValues' = lValues /\ lFeatures' = lFeatures
  BY DEF LNext, Assess, lVars
<1>2. /\ KnownFactors' = KnownFactors /\ Sufficient' <=> Sufficient
      /\ WeightedSum(KnownFactors)' = WeightedSum(KnownFactors)
      /\ Coverage(KnownFactors)' = Coverage(KnownFactors)
  BY <1>1 DEF KnownFactors, Sufficient, WeightedSum, Coverage, FactorScore, Supported, ViewsKnown
<1>3. InsightsFor(lState)' = InsightsFor(lState')
  BY <1>1, <1>2 DEF InsightsFor, Collecting, Confidence, BaseConfidence
<1>4. CASE LNext
  <2>1. /\ lState' = IF Sufficient THEN ClassOf(WeightedSum(KnownFactors), Coverage(KnownFactors))
                     ELSE "insufficient_data"
        /\ lInsights' = InsightsFor(lState')
    BY <1>4 DEF LNext, Assess
  <2>2. ClassOf(WeightedSum(KnownFactors), Coverage(KnownFactors))
            \in {"winner_candidate", "normal", "underperforming"}
    BY DEF ClassOf
  <2> QED
    BY <1>1, <1>2, <1>3, <2>1, <2>2 DEF LInv, ClassOf
<1>5. CASE UNCHANGED lVars
  <2>1. lState' = lState /\ lInsights' = lInsights
    BY <1>5 DEF lVars
  <2> QED
    BY <1>1, <1>2, <1>3, <2>1 DEF LInv, ClassOf
<1> QED
  BY <1>4, <1>5

LEMMA ScoresAre ==
    ASSUME LInv, NEW f \in Factors
    PROVE  FactorScore(f) \in 0 .. 100
<1>1. lValues[f] \in Int
  BY LearningConstants DEF LInv
<1> DEFINE v == lValues[f]
           low == Min({100, v})
<1>2. low = IF 100 <= v THEN 100 ELSE v
  <2> HIDE DEF v
  <2> QED
    BY <1>1, OfTwo DEF v
<1>3. low \in Int
  BY <1>1, <1>2
<1>4. FactorScore(f) = Max({0, low})
  BY DEF FactorScore
<1> HIDE DEF low
<1>5. Max({0, low}) = IF 0 <= low THEN low ELSE 0
  BY <1>3, OfTwo
<1> QED
  BY <1>1, <1>2, <1>3, <1>4, <1>5

\* The sums of what is known, term by term.
LEMMA SumsAre ==
    ASSUME NEW known \in SUBSET Factors, LInv
    PROVE  /\ Coverage(known) \in Nat /\ WeightedSum(known) \in Nat
           /\ (\A f \in known : FactorScore(f) >= 72) => WeightedSum(known) >= 72 * Coverage(known)
           /\ (\A f \in known : FactorScore(f) <= 38) => WeightedSum(known) <= 38 * Coverage(known)
<1> DEFINE c == [f \in Factors |-> IF f \in known THEN Weight[f] ELSE 0]
           w == [f \in Factors |-> IF f \in known THEN FactorScore(f) * Weight[f] ELSE 0]
<1>1. Factors = {"velocity", "retention", "completion", "engagement", "shares", "saves",
                 "ctr", "followers", "revenue", "cost"}
  BY DEF Factors, Weight
<1>2. \A f \in Factors : Weight[f] \in Nat
  BY <1>1 DEF Weight
<1>3. ASSUME NEW f \in Factors
      PROVE  /\ c[f] \in Nat /\ w[f] \in Nat
             /\ (\A g \in known : FactorScore(g) >= 72) => w[f] >= 72 * c[f]
             /\ (\A g \in known : FactorScore(g) <= 38) => w[f] <= 38 * c[f]
  <2> DEFINE x == FactorScore(f)
             y == Weight[f]
  <2>1. x \in Nat /\ y \in Nat
    BY <1>2, ScoresAre
  <2>2. /\ c[f] = IF f \in known THEN y ELSE 0
        /\ w[f] = IF f \in known THEN x * y ELSE 0
    OBVIOUS
  <2>3. /\ f \in known /\ (\A g \in known : FactorScore(g) >= 72) => x >= 72
        /\ f \in known /\ (\A g \in known : FactorScore(g) <= 38) => x <= 38
    OBVIOUS
  <2> HIDE DEF x, y, c, w
  <2>4. x * y \in Nat /\ (x >= 72 => x * y >= 72 * y) /\ (x <= 38 => x * y <= 38 * y)
    BY <2>1
  <2> QED
    BY <2>1, <2>2, <2>3, <2>4
<1>4. Coverage(known) = Total(c) /\ WeightedSum(known) = Total(w)
  BY DEF Coverage, WeightedSum
<1> HIDE DEF c, w
<1>0. /\ c.velocity \in Nat /\ c.retention \in Nat /\ c.completion \in Nat /\ c.engagement \in Nat /\ c.shares \in Nat
      /\ c.saves \in Nat /\ c.ctr \in Nat /\ c.followers \in Nat /\ c.revenue \in Nat /\ c.cost \in Nat
      /\ w.velocity \in Nat /\ w.retention \in Nat /\ w.completion \in Nat /\ w.engagement \in Nat /\ w.shares \in Nat
      /\ w.saves \in Nat /\ w.ctr \in Nat /\ w.followers \in Nat /\ w.revenue \in Nat /\ w.cost \in Nat
  BY <1>1, <1>3
<1>5. Total(c) \in Nat /\ Total(w) \in Nat
  <2>1. \A x, y \in Nat : x + y \in Nat
    OBVIOUS
  <2>2. Total(c) \in Nat
    BY <1>0, <2>1, Zenon DEF Total
  <2>3. Total(w) \in Nat
    BY <1>0, <2>1, Zenon DEF Total
  <2> QED
    BY <2>2, <2>3
<1>6. ASSUME \A f \in Factors : w[f] >= 72 * c[f] PROVE Total(w) >= 72 * Total(c)
  <2>1. /\ w.velocity >= 72 * c.velocity /\ w.retention >= 72 * c.retention
        /\ w.completion >= 72 * c.completion /\ w.engagement >= 72 * c.engagement
        /\ w.shares >= 72 * c.shares /\ w.saves >= 72 * c.saves /\ w.ctr >= 72 * c.ctr
        /\ w.followers >= 72 * c.followers /\ w.revenue >= 72 * c.revenue /\ w.cost >= 72 * c.cost
    BY <1>1, <1>6
  <2> QED
    BY <1>0, <2>1 DEF Total
<1>7. ASSUME \A f \in Factors : w[f] <= 38 * c[f] PROVE Total(w) <= 38 * Total(c)
  <2>1. /\ w.velocity <= 38 * c.velocity /\ w.retention <= 38 * c.retention
        /\ w.completion <= 38 * c.completion /\ w.engagement <= 38 * c.engagement
        /\ w.shares <= 38 * c.shares /\ w.saves <= 38 * c.saves /\ w.ctr <= 38 * c.ctr
        /\ w.followers <= 38 * c.followers /\ w.revenue <= 38 * c.revenue /\ w.cost <= 38 * c.cost
    BY <1>1, <1>7
  <2> QED
    BY <1>0, <2>1 DEF Total
<1> QED
  BY <1>3, <1>4, <1>5, <1>6, <1>7

LEMMA LearningHolds == ASSUME LInv PROVE MissingIsNotZero
<1> DEFINE known == KnownFactors
           cover == Coverage(known)
           sum == WeightedSum(known)
<1>1. known \in SUBSET Factors
  BY DEF KnownFactors
<1>2. /\ cover \in Nat /\ sum \in Nat
      /\ (\A f \in known : FactorScore(f) >= 72) => sum >= 72 * cover
      /\ (\A f \in known : FactorScore(f) <= 38) => sum <= 38 * cover
  <2> HIDE DEF known
  <2> QED
    BY <1>1, SumsAre
<1>3. lState \notin {"new", "insufficient_data"} => Sufficient /\ lState = ClassOf(sum, cover)
  BY DEF LInv
<1>4. Sufficient => cover >= 55
  BY DEF Sufficient
<1>5. Sufficient /\ {"retention", "completion"} \cap known = {} => "average_duration" \in lMetrics
  BY DEF Sufficient, KnownFactors, Supported, Factors, Weight
<1>6. BaseConfidence \in Nat /\ BaseConfidence <= Max({200, 10 * cover})
  <2> DEFINE x == 10 * cover
             y == Max({200, x})
  <2>1. x \in Nat
    BY <1>2
  <2>2. BaseConfidence = Min({950, y})
    BY DEF BaseConfidence
  <2> HIDE DEF x
  <2>3. y = IF 200 <= x THEN x ELSE 200
    BY <2>1, OfTwo
  <2>4. y \in Nat
    BY <2>1, <2>3
  <2> HIDE DEF y
  <2>5. Min({950, y}) = IF 950 <= y THEN 950 ELSE y
    BY <2>4, OfTwo
  <2>6. BaseConfidence \in Nat /\ BaseConfidence <= y
    BY <2>2, <2>4, <2>5
  <2> QED
    BY <2>6 DEF x, y
<1> HIDE DEF known, cover, sum
<1>7. ASSUME NEW feature PROVE Confidence(feature) \in Int /\ Confidence(feature) <= BaseConfidence
  <2>1. /\ (9 * BaseConfidence) \div 10 \in Int /\ (9 * BaseConfidence) \div 10 <= BaseConfidence
        /\ (8 * BaseConfidence) \div 10 \in Int /\ (8 * BaseConfidence) \div 10 <= BaseConfidence
    BY <1>6
  <2>2. Min({BaseConfidence, 550}) = IF BaseConfidence <= 550 THEN BaseConfidence ELSE 550
    BY <1>6, OfTwo
  <2> QED
    BY <1>6, <2>1, <2>2 DEF Confidence
<1>8. ASSUME NEW i \in lInsights
      PROVE  /\ i.type # "data_collection" => lState # "insufficient_data" /\ lViews >= 500
             /\ i.confidence \in Int /\ i.confidence <= BaseConfidence
  <2>1. lState # "new" /\ i \in InsightsFor(lState)
    BY DEF LInv
  <2>2. CASE lState = "insufficient_data" \/ lFeatures = {}
    <3>1. i = [type |-> "data_collection", confidence |-> BaseConfidence]
      BY <2>1, <2>2 DEF InsightsFor, Collecting
    <3> QED
      BY <1>6, <3>1
  <2>3. CASE ~(lState = "insufficient_data" \/ lFeatures = {})
    <3>1. PICK f \in lFeatures : i = [type |-> f, confidence |-> Confidence(f)]
      BY <2>1, <2>3 DEF InsightsFor
    <3>2. Sufficient
      BY <1>3, <2>1, <2>3
    <3> QED
      BY <1>7, <2>3, <3>1, <3>2 DEF Sufficient
  <2> QED
    BY <2>2, <2>3
<1>9. ASSUME NEW i \in lInsights PROVE i.confidence <= Max({200, 10 * cover})
  <2> DEFINE x == 10 * cover
             y == Max({200, x})
  <2>1. x \in Nat
    BY <1>2
  <2> HIDE DEF x
  <2>3. y = IF 200 <= x THEN x ELSE 200
    BY <2>1, OfTwo
  <2>4. y \in Nat
    BY <2>1, <2>3
  <2>5. BaseConfidence <= y
    BY <1>6 DEF x
  <2> HIDE DEF y
  <2>6. i.confidence <= y
    BY <1>6, <1>8, <2>4, <2>5
  <2> QED
    BY <2>6 DEF x, y
<1>10. ASSUME lState \in {"winner_candidate", "normal", "underperforming"}
       PROVE  /\ (\A f \in known : FactorScore(f) >= 72) => lState = "winner_candidate"
              /\ (\A f \in known : FactorScore(f) <= 38) => lState = "underperforming"
  <2>1. lState = ClassOf(sum, cover) /\ cover >= 55
    BY <1>3, <1>4, <1>10
  <2> QED
    BY <1>2, <2>1 DEF ClassOf
<1> QED
  BY <1>3, <1>5, <1>8, <1>9, <1>10 DEF MissingIsNotZero, known, cover

LEMMA LearningStarts == ASSUME LInit PROVE LInv
BY DEF LInit, LInv

-----------------------------------------------------------------------------
(* Media plans.                                                            *)

UCandidate == [id : Int, semantic : Int, overlap : Int]

\* The sources the request names.
Named == {uRequest.priority[i] : i \in DOMAIN uRequest.priority}

UInv ==
    /\ uRequest.priority \in UPriorities /\ uRequest.ceiling \in UCeilings
    /\ Free \subseteq uRequest.allowed /\ Free \subseteq uReady
    /\ uScenes \in UScenes
    /\ uPrice \in [Generated -> Nat \cup {Unpriced}]
    /\ uFound \in Seq(Seq(UCandidate)) /\ Len(uFound) <= Len(uScenes)
    /\ \A k \in 1 .. Len(uFound) : Select(k) \notin Stock => uFound[k] = <<>>
    /\ uPlan = "planning" => uItems = <<>>
    /\ uItems = <<>> \/ (Len(uFound) = Len(uScenes) /\ uItems = [k \in DOMAIN uScenes |-> Item(k)])
    /\ uPlan = "planned" => /\ ~(TotalCost(uItems) > uRequest.ceiling)
                            /\ \A k \in DOMAIN uItems : ~uItems[k].asks

LEMMA ScenesAre ==
    ASSUME UInv
    PROVE  /\ Len(uScenes) \in Nat /\ DOMAIN uScenes = 1 .. Len(uScenes)
           /\ \A k \in DOMAIN uScenes : uScenes[k] \in {"video", "image"}
           /\ Len(uFound) \in Nat /\ DOMAIN uFound = 1 .. Len(uFound)
           /\ \A k \in DOMAIN uFound : uFound[k] \in Seq(UCandidate)
           /\ uRequest.priority \in Seq(Sources)
           /\ \A i, j \in DOMAIN uRequest.priority :
                 uRequest.priority[i] = uRequest.priority[j] => i = j
           /\ uRequest.ceiling \in Nat
<1>1. uScenes \in Seq({"video", "image"}) /\ uFound \in Seq(Seq(UCandidate))
  BY MediaPlanningConstants DEF UInv
<1>2. /\ uRequest.priority \in Seq(Sources)
      /\ \A i, j \in DOMAIN uRequest.priority : uRequest.priority[i] = uRequest.priority[j] => i = j
  BY MediaPlanningConstants DEF UInv
<1>3. uRequest.ceiling \in Nat
  BY MediaPlanningConstants DEF UInv
<1>4. /\ Len(uScenes) \in Nat /\ DOMAIN uScenes = 1 .. Len(uScenes)
      /\ \A k \in DOMAIN uScenes : uScenes[k] \in {"video", "image"}
  BY <1>1, LenProperties
<1>5. /\ Len(uFound) \in Nat /\ DOMAIN uFound = 1 .. Len(uFound)
      /\ \A k \in DOMAIN uFound : uFound[k] \in Seq(UCandidate)
  BY <1>1, LenProperties
<1> QED
  BY <1>2, <1>3, <1>4, <1>5

\* What a scene desires: strategies of named sources, each once.
DesiredAre(d) ==
    /\ Len(d) \in Nat \ {0} /\ DOMAIN d = 1 .. Len(d)
    /\ \A i \in DOMAIN d : d[i] \in Generated => d[i] \in Named
    /\ \A i, j \in DOMAIN d : d[i] = d[j] => i = j

LEMMA Desires ==
    ASSUME UInv, NEW prefers \in {"video", "image"}
    PROVE  DesiredAre(Desired(prefers))
<1> DEFINE asked == uRequest.priority
           I == {i \in DOMAIN asked : asked[i] # "internal_library"}
           named == Entries(asked, I)
<1>1. /\ asked \in Seq(Sources)
      /\ \A i, j \in DOMAIN asked : asked[i] = asked[j] => i = j
  BY ScenesAre
<1>2. Len(asked) \in Nat /\ DOMAIN asked = 1 .. Len(asked) /\ \A i \in DOMAIN asked : asked[i] \in Sources
  BY <1>1, LenProperties
<1>3. I \in SUBSET Nat /\ IsFiniteSet(I)
  <2>1. IsFiniteSet(1 .. Len(asked))
    BY <1>2, FS_Interval
  <2>2. I \subseteq 1 .. Len(asked)
    BY <1>2
  <2> QED
    BY <1>2, <2>1, <2>2, FS_Subset
<1>4. \A i \in I : i \in DOMAIN asked /\ asked[i] \in Sources \ {"internal_library"}
  BY <1>2
<1>5. Desired(prefers) = IF named = <<>> THEN <<"motion_graphic">>
                         ELSE [i \in DOMAIN named |-> StrategyOf(named[i], prefers)]
  BY DEF Desired
<1>6. Named = {asked[i] : i \in DOMAIN asked}
  BY DEF Named
<1> HIDE DEF asked, I
<1>7. PICK o : PickedBy(named, asked, I, o)
  BY <1>3, EntriesAre
<1>8. /\ Len(o) \in Nat /\ Len(named) = Len(o) /\ DOMAIN named = 1 .. Len(o)
      /\ \A n \in 1 .. Len(o) : o[n] \in I /\ named[n] = asked[o[n]]
      /\ \A m, n \in 1 .. Len(o) : m < n => o[m] < o[n]
  BY <1>7 DEF PickedBy
<1> HIDE DEF named
<1>9. CASE named = <<>>
  <2>1. Desired(prefers) = <<"motion_graphic">>
    BY <1>5, <1>9
  <2>2. "motion_graphic" \notin Generated
    BY DEF Generated
  <2> QED
    BY <2>1, <2>2 DEF DesiredAre
<1>10. CASE named # <<>>
  <2> DEFINE e(i) == StrategyOf(named[i], prefers)
             d == [i \in DOMAIN named |-> e(i)]
  <2>1. Desired(prefers) = d
    BY <1>5, <1>10
  <2>2. Len(o) # 0
    <3>1. ASSUME Len(o) = 0 PROVE FALSE
      <4>0. named = [n \in 1 .. Len(o) |-> named[n]]
        BY <1>7 DEF PickedBy
      <4>1. named \in [1 .. 0 -> {}]
        BY <1>8, <3>1, <4>0
      <4>2. named \in Seq({}) /\ Len(named) = 0
        BY <1>8, <3>1, <4>1, FunctionIsList
      <4> QED
        BY <1>10, <4>2, EmptySeq
    <3> QED
      BY <3>1
  <2>3. \A i \in 1 .. Len(o) : named[i] \in Sources \ {"internal_library"}
    BY <1>4, <1>8
  <2>4. ASSUME NEW i \in 1 .. Len(o)
        PROVE  /\ e(i) \in Generated => e(i) = named[i]
               /\ \A s \in Sources \ {"internal_library"} : StrategyOf(s, prefers) = e(i) => s = named[i]
    BY <2>3 DEF StrategyOf, Sources, Free, Generated
  <2>5. DOMAIN d = 1 .. Len(o) /\ \A i \in 1 .. Len(o) : d[i] = e(i)
    BY <1>8
  <2>6. Len(d) = Len(o)
    <3> DEFINE V == {e(i) : i \in 1 .. Len(o)}
    <3>1. \A i \in 1 .. Len(o) : e(i) \in V
      OBVIOUS
    <3> HIDE DEF V, e
    <3>2. d \in [1 .. Len(o) -> V]
      BY <1>8, <3>1
    <3> QED
      BY <1>8, <3>2, FunctionIsList
  <2>7. ASSUME NEW i \in 1 .. Len(o), e(i) \in Generated PROVE e(i) \in Named
    BY <1>4, <1>6, <1>8, <2>4, <2>7
  <2>8. ASSUME NEW i \in 1 .. Len(o), NEW j \in 1 .. Len(o), e(i) = e(j) PROVE i = j
    <3>1. named[i] = named[j]
      BY <2>3, <2>4, <2>8
    <3>2. o[i] = o[j]
      BY <1>1, <1>4, <1>8, <3>1
    <3>3. o[i] \in Nat /\ o[j] \in Nat
      BY <1>3, <1>8
    <3>4. i < j \/ j < i \/ i = j
      OBVIOUS
    <3> QED
      BY <1>8, <3>2, <3>3, <3>4
  <2> HIDE DEF d, e
  <2>9. DesiredAre(d)
    BY <1>8, <2>2, <2>5, <2>6, <2>7, <2>8 DEF DesiredAre
  <2> QED
    BY <2>1, <2>9
<1> QED
  BY <1>9, <1>10

\* The strategy of a scene.
LEMMA Selected ==
    ASSUME UInv, NEW k \in DOMAIN uScenes
    PROVE  /\ Select(k) \in uReady \cap uRequest.allowed
           /\ Select(k) \in Generated => Select(k) \in Named
<1> DEFINE desired == Desired(uScenes[k])
           n == Len(desired)
           turn == [i \in 0 .. n - 1 |-> desired[((k - 1 + i) % n) + 1]]
           possible == {i \in 0 .. n - 1 : Possible(turn[i])}
<1>1. k \in Nat \ {0} /\ uScenes[k] \in {"video", "image"}
  BY ScenesAre
<1>2. DesiredAre(desired)
  BY <1>1, Desires
<1>3. Select(k) = IF possible = {} THEN "motion_graphic" ELSE turn[Min(possible)]
  BY DEF Select
<1> HIDE DEF desired
<1>4. /\ n \in Nat \ {0} /\ DOMAIN desired = 1 .. n
      /\ \A i \in 1 .. n : desired[i] \in Generated => desired[i] \in Named
  BY <1>2 DEF DesiredAre
<1>5. "motion_graphic" \in uReady \cap uRequest.allowed /\ "motion_graphic" \notin Generated
  BY DEF UInv, Free, Generated
<1>6. ASSUME possible # {}
      PROVE  Possible(turn[Min(possible)]) /\ (turn[Min(possible)] \in Generated => turn[Min(possible)] \in Named)
  <2>1. IsFiniteSet(0 .. n - 1)
    BY <1>4, FS_Interval
  <2>2. possible \subseteq 0 .. n - 1 /\ possible \subseteq Int
    BY <1>4
  <2>3. IsFiniteSet(possible)
    BY <2>1, <2>2, FS_Subset
  <2>4. Min(possible) \in possible
    <3> HIDE DEF possible
    <3> QED
      BY <1>6, <2>2, <2>3, ExtremesAre
  <2> DEFINE i == Min(possible)
  <2>5. i \in 0 .. n - 1 /\ Possible(turn[i])
    BY <2>4
  <2> HIDE DEF i, possible
  <2>6. turn[i] = desired[((k - 1 + i) % n) + 1]
    BY <2>5
  <2>7. ((k - 1 + i) % n) + 1 \in 1 .. n
    <3> DEFINE m == k - 1 + i
    <3>1. m \in Nat
      BY <1>1, <1>4, <2>5
    <3> HIDE DEF m, n
    <3>2. m % n \in 0 .. n - 1
      BY <1>4, <3>1
    <3> QED
      BY <1>4, <3>2 DEF m
  <2>8. turn[i] \in Generated => turn[i] \in Named
    BY <1>4, <2>6, <2>7
  <2> QED
    BY <2>5, <2>8 DEF i
<1> QED
  BY <1>3, <1>5, <1>6 DEF Possible

\* Its fallbacks.
LEMMA FallbacksAre ==
    ASSUME UInv, NEW k \in DOMAIN uScenes
    PROVE  \A i \in DOMAIN Fallbacks(k) :
              /\ Fallbacks(k)[i] \in (uReady \cap uRequest.allowed) \ {Select(k)}
              /\ \A j \in 1 .. i - 1 : Fallbacks(k)[j] # Fallbacks(k)[i]
<1> DEFINE desired == Desired(uScenes[k])
           I == {i \in DOMAIN desired : Possible(desired[i]) /\ desired[i] # Select(k)}
           f == Entries(desired, I)
<1>1. Fallbacks(k) = f
  BY DEF Fallbacks
<1>2. DesiredAre(desired)
  BY ScenesAre, Desires
<1> HIDE DEF desired
<1>3. /\ Len(desired) \in Nat /\ DOMAIN desired = 1 .. Len(desired)
      /\ \A i, j \in DOMAIN desired : desired[i] = desired[j] => i = j
  BY <1>2 DEF DesiredAre
<1>4. I \in SUBSET Nat /\ IsFiniteSet(I)
  <2>1. IsFiniteSet(1 .. Len(desired))
    BY <1>3, FS_Interval
  <2>2. I \subseteq 1 .. Len(desired)
    BY <1>3
  <2> QED
    BY <1>3, <2>1, <2>2, FS_Subset
<1>5. \A i \in I : i \in DOMAIN desired /\ Possible(desired[i]) /\ desired[i] # Select(k)
  OBVIOUS
<1> HIDE DEF I
<1>6. PICK o : PickedBy(f, desired, I, o)
  BY <1>4, EntriesAre
<1>7. /\ Len(o) \in Nat /\ DOMAIN f = 1 .. Len(o)
      /\ \A n \in 1 .. Len(o) : o[n] \in I /\ f[n] = desired[o[n]]
      /\ \A m, n \in 1 .. Len(o) : m < n => o[m] < o[n]
  BY <1>6 DEF PickedBy
<1> HIDE DEF f
<1>8. ASSUME NEW i \in DOMAIN f
      PROVE  /\ f[i] \in (uReady \cap uRequest.allowed) \ {Select(k)}
             /\ \A j \in 1 .. i - 1 : f[j] # f[i]
  <2>1. f[i] \in (uReady \cap uRequest.allowed) \ {Select(k)}
    BY <1>5, <1>7 DEF Possible
  <2>2. ASSUME NEW j \in 1 .. i - 1 PROVE f[j] # f[i]
    <3>1. i \in 1 .. Len(o) /\ j \in 1 .. Len(o) /\ j < i
      BY <1>7
    <3>2. o[j] < o[i] /\ o[i] \in Nat /\ o[j] \in Nat
      BY <1>4, <1>7, <3>1
    <3> QED
      BY <1>3, <1>5, <1>7, <3>1, <3>2
  <2> QED
    BY <2>1, <2>2
<1> QED
  BY <1>1, <1>8

\* The finds of a scene, ranked.
RankingOf(r, found) ==
    /\ {r[i] : i \in DOMAIN r} = {found[i] : i \in DOMAIN found}
    /\ \A i \in 2 .. Len(r) : Rerank(r[i - 1]) >= Rerank(r[i])

LEMMA RankedAre ==
    ASSUME NEW found \in Seq(UCandidate)
    PROVE  RankingOf(Ranked(found), found)
<1> DEFINE D == DOMAIN found
           R == {p \in D \X D : Ahead(found, p[1], p[2])}
           s == InOrder(D, LAMBDA i, j : Ahead(found, i, j))
           r == [n \in DOMAIN s |-> found[s[n]]]
<1>0. Ranked(found) = r
  BY DEF Ranked
<1>1. /\ Len(found) \in Nat /\ D = 1 .. Len(found) /\ IsFiniteSet(D)
      /\ \A i \in D : found[i] \in UCandidate
  BY LenProperties, FS_Interval
<1>2. \A i \in D : /\ i \in Int /\ found[i].id \in Int /\ found[i].semantic \in Int
                   /\ found[i].overlap \in Int /\ Rerank(found[i]) \in Int
  BY <1>1 DEF UCandidate, Rerank
<1>3. \A i, j \in D : <<i, j>> \in R <=> Ahead(found, i, j)
  OBVIOUS
<1> HIDE DEF D, R
<1>4. IsOrder(D, R)
  <2>1. \A x \in D : <<x, x>> \notin R
    BY <1>2, <1>3 DEF Ahead
  <2>2. ASSUME NEW x \in D, NEW y \in D, NEW z \in D, <<x, y>> \in R, <<y, z>> \in R PROVE <<x, z>> \in R
    <3> DEFINE a == Rerank(found[x])
               b == Rerank(found[y])
               c == Rerank(found[z])
               d == found[x].semantic
               e == found[y].semantic
               f == found[z].semantic
               g == found[x].id
               h == found[y].id
               i == found[z].id
    <3>1. /\ a \in Int /\ b \in Int /\ c \in Int /\ d \in Int /\ e \in Int /\ f \in Int
          /\ g \in Int /\ h \in Int /\ i \in Int /\ x \in Int /\ y \in Int /\ z \in Int
      BY <1>2
    <3>2. a > b \/ (a = b /\ d > e) \/ (a = b /\ d = e /\ g > h) \/ (a = b /\ d = e /\ g = h /\ x < y)
      BY <1>3, <2>2 DEF Ahead
    <3>3. b > c \/ (b = c /\ e > f) \/ (b = c /\ e = f /\ h > i) \/ (b = c /\ e = f /\ h = i /\ y < z)
      BY <1>3, <2>2 DEF Ahead
    <3>4. Ahead(found, x, z)
            <=> a > c \/ (a = c /\ d > f) \/ (a = c /\ d = f /\ g > i) \/ (a = c /\ d = f /\ g = i /\ x < z)
      BY DEF Ahead
    <3> HIDE DEF a, b, c, d, e, f, g, h, i
    <3> QED
      BY <1>3, <3>1, <3>2, <3>3, <3>4
  <2>3. ASSUME NEW x \in D, NEW y \in D PROVE x = y \/ <<x, y>> \in R \/ <<y, x>> \in R
    BY <1>2, <1>3 DEF Ahead
  <2> QED
    BY <2>1, <2>2, <2>3 DEF IsOrder
<1>5. ByRank(s, D, R)
  <2>1. ASSUME NEW x \in D PROVE Rank(D, R, x) = Cardinality({y \in D : Ahead(found, y, x)})
    <3>1. {y \in D : <<y, x>> \in R} = {y \in D : Ahead(found, y, x)}
      BY <1>3
    <3> QED
      BY <3>1 DEF Rank
  <2>2. ASSUME NEW n \in 1 .. Cardinality(D), \E x \in D : Rank(D, R, x) = n - 1
        PROVE  s[n] \in D /\ Rank(D, R, s[n]) = n - 1
    <3>1. s[n] = CHOOSE x \in D : Cardinality({y \in D : Ahead(found, y, x)}) = n - 1
      BY DEF InOrder
    <3>2. \E x \in D : Cardinality({y \in D : Ahead(found, y, x)}) = n - 1
      BY <2>1, <2>2
    <3>3. s[n] \in D /\ Cardinality({y \in D : Ahead(found, y, s[n])}) = n - 1
      BY <3>1, <3>2
    <3> QED
      BY <2>1, <3>3
  <2>3. s = [n \in 1 .. Cardinality(D) |-> s[n]]
    <3> DEFINE e(n) == CHOOSE x \in D : Cardinality({y \in D : Ahead(found, y, x)}) = n - 1
    <3>1. s = [n \in 1 .. Cardinality(D) |-> e(n)]
      BY DEF InOrder
    <3> HIDE DEF s, e
    <3> QED
      BY <3>1
  <2> HIDE DEF s
  <2> QED
    BY <2>2, <2>3 DEF ByRank
<1> HIDE DEF s
<1>6. /\ s \in Seq(D) /\ Len(s) \in Nat
      /\ \A x \in D : \E n \in 1 .. Len(s) : s[n] = x
      /\ \A n \in 1 .. Len(s) : s[n] \in D
      /\ \A m, n \in 1 .. Len(s) : m < n => <<s[m], s[n]>> \in R
  BY <1>1, <1>4, <1>5, Ordering
<1>7. DOMAIN s = 1 .. Len(s)
  BY <1>6, LenProperties
<1>8. /\ DOMAIN r = 1 .. Len(s) /\ \A n \in 1 .. Len(s) : r[n] = found[s[n]]
  BY <1>7
<1>9. r \in [1 .. Len(s) -> UCandidate]
  BY <1>1, <1>6, <1>7
<1> HIDE DEF r
<1>10. Len(r) = Len(s)
  BY <1>6, <1>9, FunctionIsList
<1>11. {r[i] : i \in DOMAIN r} = {found[i] : i \in D}
  <2>1. \A i \in DOMAIN r : \E j \in D : r[i] = found[j]
    BY <1>6, <1>8
  <2>2. ASSUME NEW j \in D PROVE \E i \in DOMAIN r : found[j] = r[i]
    <3>1. PICK n \in 1 .. Len(s) : s[n] = j
      BY <1>6
    <3> QED
      BY <1>8, <3>1
  <2> QED
    BY <2>1, <2>2
<1>12. ASSUME NEW i \in 2 .. Len(r) PROVE Rerank(r[i - 1]) >= Rerank(r[i])
  <2>1. i \in 1 .. Len(s) /\ i - 1 \in 1 .. Len(s) /\ i - 1 < i
    BY <1>6, <1>10
  <2>2. s[i - 1] \in D /\ s[i] \in D /\ Ahead(found, s[i - 1], s[i])
    BY <1>3, <1>6, <2>1
  <2>3. r[i - 1] = found[s[i - 1]] /\ r[i] = found[s[i]]
    BY <1>8, <2>1
  <2> QED
    BY <1>2, <2>2, <2>3 DEF Ahead
<1>13. RankingOf(r, found)
  BY <1>11, <1>12 DEF RankingOf, D
<1> QED
  BY <1>0, <1>13

\* What the items of a plan cost.
LEMMA CostsAre ==
    ASSUME NEW items, Len(items) \in Nat, \A n \in 1 .. Len(items) : items[n].cost \in Nat
    PROVE  TotalCost(items) \in Nat
<1> DEFINE N == Len(items)
           step == [p \in (1 .. N) \X Nat |-> p[2] + items[p[1]].cost]
           IsSum(g) == g = [n \in 0 .. N |-> IF n = 0 THEN 0 ELSE g[n - 1] + items[n].cost]
<1>1. TotalCost(items) = (CHOOSE g : IsSum(g))[N]
  BY DEF TotalCost
<1> HIDE DEF N
<1>0. N \in Nat /\ \A n \in 1 .. N : items[n].cost \in Nat
  BY DEF N
<1>2. ASSUME NEW n \in 1 .. N, NEW a \in Nat PROVE step[<<n, a>>] = a + items[n].cost /\ step[<<n, a>>] \in Nat
  BY <1>0
<1> HIDE DEF step
<1>3. StaysIn(step, N, Nat)
  BY <1>2 DEF StaysIn
<1>4. PICK g : Follows(g, N, Nat, 0, step)
  BY <1>0, <1>3, StepsExist
<1>5. g \in [0 .. N -> Nat] /\ g[0] = 0 /\ \A n \in 1 .. N : g[n] = step[<<n, g[n - 1]>>]
  BY <1>4 DEF Follows
<1>6. IsSum(g)
  <2>1. ASSUME NEW n \in 0 .. N PROVE g[n] = IF n = 0 THEN 0 ELSE g[n - 1] + items[n].cost
    <3>1. n # 0 => n \in 1 .. N /\ g[n - 1] \in Nat
      BY <1>0, <1>5
    <3> QED
      BY <1>2, <1>5, <3>1
  <2> QED
    BY <1>5, <2>1
<1> DEFINE h == CHOOSE f : IsSum(f)
<1>7. IsSum(h)
  BY <1>6
<1> HIDE DEF h
<1>8. h[0] = 0 /\ \A n \in 1 .. N : h[n] = h[n - 1] + items[n].cost
  BY <1>0, <1>7
<1> DEFINE G == {n \in 0 .. N : h[n] \in Nat}
<1>9. 0 \in G
  BY <1>0, <1>8
<1>10. \A n \in 0 .. N - 1 : n \in G => n + 1 \in G
  <2>1. ASSUME NEW n \in 0 .. N - 1, h[n] \in Nat PROVE h[n + 1] \in Nat
    <3>1. n + 1 \in 1 .. N /\ (n + 1) - 1 = n
      BY <1>0
    <3>2. h[n + 1] = h[n] + items[n + 1].cost
      BY <1>8, <3>1
    <3> QED
      BY <1>0, <2>1, <3>1, <3>2
  <2>2. \A n \in 0 .. N - 1 : n + 1 \in 0 .. N
    BY <1>0
  <2> QED
    BY <2>1, <2>2
<1> HIDE DEF G
<1>11. \A n \in 0 .. N : n \in G
  BY <1>0, <1>9, <1>10, UpTo
<1>12. h[N] \in Nat
  BY <1>0, <1>11 DEF G
<1> QED
  BY <1>1, <1>12 DEF h

\* What an item holds.
ItemHolds(item, k) ==
    /\ item.strategy \in uReady \cap uRequest.allowed
    /\ item.strategy \in Generated => item.strategy \in Named
    /\ \A i \in DOMAIN item.fallback :
          /\ item.fallback[i] \in (uReady \cap uRequest.allowed) \ {item.strategy}
          /\ \A j \in 1 .. i - 1 : item.fallback[j] # item.fallback[i]
    /\ RankingOf(item.candidates, uFound[k])
    /\ item.cost \in Nat
    /\ ~item.asks /\ item.strategy \in Generated => uPrice[item.strategy] # Unpriced

LEMMA ItemsHold ==
    ASSUME UInv, Len(uFound) = Len(uScenes), NEW k \in DOMAIN uScenes
    PROVE  ItemHolds(Item(k), k)
<1> DEFINE cost == Priced(Select(k))
<1>1. /\ Item(k).strategy = Select(k) /\ Item(k).fallback = Fallbacks(k)
      /\ Item(k).candidates = IF Select(k) \in Stock THEN Ranked(uFound[k]) ELSE <<>>
      /\ Item(k).cost = IF cost = Unpriced THEN 0 ELSE cost
      /\ Item(k).asks = NeedsApproval(cost)
  BY DEF Item
<1>2. /\ k \in DOMAIN uFound /\ uFound[k] \in Seq(UCandidate)
      /\ Select(k) \notin Stock => uFound[k] = <<>>
  BY ScenesAre DEF UInv
<1>3. cost \in Nat \cup {Unpriced} /\ (Select(k) \in Generated => cost = uPrice[Select(k)])
  BY DEF Priced, UInv
<1>4. RankingOf(Item(k).candidates, uFound[k])
  <2>1. CASE Select(k) \in Stock
    BY <1>1, <1>2, <2>1, RankedAre
  <2>2. CASE Select(k) \notin Stock
    <3>1. RankingOf(<<>>, <<>>)
      BY DEF RankingOf
    <3> QED
      BY <1>1, <1>2, <2>2, <3>1
  <2> QED
    BY <2>1, <2>2
<1> HIDE DEF cost
<1>5. Item(k).cost \in Nat
  BY <1>1, <1>3
<1>6. ~Item(k).asks => cost # Unpriced
  BY <1>1 DEF NeedsApproval
<1> DEFINE item == Item(k)
           s == Select(k)
           f == Fallbacks(k)
<1>7. /\ s \in uReady \cap uRequest.allowed /\ (s \in Generated => s \in Named)
      /\ \A i \in DOMAIN f : /\ f[i] \in (uReady \cap uRequest.allowed) \ {s}
                             /\ \A j \in 1 .. i - 1 : f[j] # f[i]
  BY Selected, FallbacksAre
<1>8. item.strategy = s /\ item.fallback = f
  BY <1>1
<1>9. RankingOf(item.candidates, uFound[k]) /\ item.cost \in Nat
      /\ (~item.asks /\ s \in Generated => uPrice[s] # Unpriced)
  BY <1>3, <1>4, <1>5, <1>6
<1> HIDE DEF item, s, f
<1>10. ItemHolds(item, k)
  BY <1>7, <1>8, <1>9 DEF ItemHolds
<1> QED
  BY <1>10 DEF item

\* The same request selects the same.
LEMMA SelectSame ==
    ASSUME UNCHANGED <<uRequest, uScenes, uReady, uPrice>>, NEW k
    PROVE  Select(k)' = Select(k)
BY DEF Select, Desired, Possible

LEMMA ItemSame ==
    ASSUME UNCHANGED <<uRequest, uScenes, uReady, uPrice, uFound>>, NEW k
    PROVE  Item(k)' = Item(k)
<1>1. Select(k)' = Select(k)
  BY SelectSame
<1>2. Fallbacks(k)' = Fallbacks(k)
  BY <1>1 DEF Fallbacks, Desired, Possible
<1> QED
  BY <1>1, <1>2 DEF Item, Priced, NeedsApproval

LEMMA SearchKeeps == ASSUME UInv, Search PROVE UInv'
<1>1. /\ uPlan = "planning" /\ Len(uFound) + 1 <= Len(uScenes)
      /\ UNCHANGED <<uRequest, uScenes, uReady, uPrice, uItems>>
      /\ uPlan' \in {"planning", "failed"}
      /\ uItems = <<>>
  BY DEF Search, UInv
<1>2. \A k : Select(k)' = Select(k)
  BY <1>1, SelectSame
<1>3. Len(uFound) \in Nat /\ Len(uScenes) \in Nat /\ DOMAIN uFound = 1 .. Len(uFound)
  BY ScenesAre
<1>4. \/ uFound' = uFound
      \/ \E found : /\ uFound' = Append(uFound, found) /\ found \in Seq(UCandidate)
                    /\ Select(Len(uFound) + 1) \notin Stock => found = <<>>
  <2>1. <<>> \in Seq(UCandidate)
    OBVIOUS
  <2>2. \A found \in UFinds : found \in Seq(UCandidate)
    BY MediaPlanningConstants DEF UCandidate
  <2> QED
    BY <2>1, <2>2 DEF Search
<1>5. /\ uFound' \in Seq(Seq(UCandidate)) /\ Len(uFound') <= Len(uScenes)
      /\ \A k \in 1 .. Len(uFound') : Select(k) \notin Stock => uFound'[k] = <<>>
  <2>0. uFound \in Seq(Seq(UCandidate)) /\ (\A k \in 1 .. Len(uFound) : Select(k) \notin Stock => uFound[k] = <<>>)
    BY DEF UInv
  <2>1. CASE uFound' = uFound
    BY <1>1, <1>3, <2>0, <2>1
  <2>2. CASE uFound' # uFound
    <3>1. PICK found : /\ uFound' = Append(uFound, found) /\ found \in Seq(UCandidate)
                       /\ Select(Len(uFound) + 1) \notin Stock => found = <<>>
      BY <1>4, <2>2
    <3>2. /\ uFound' \in Seq(Seq(UCandidate)) /\ Len(uFound') = Len(uFound) + 1
          /\ uFound'[Len(uFound) + 1] = found
          /\ \A k \in 1 .. Len(uFound) : uFound'[k] = uFound[k]
      BY <2>0, <3>1, AppendProperties
    <3>3. ASSUME NEW k \in 1 .. Len(uFound') PROVE k \in 1 .. Len(uFound) \/ k = Len(uFound) + 1
      BY <1>3, <3>2
    <3> QED
      BY <1>1, <1>3, <2>0, <3>1, <3>2, <3>3
  <2> QED
    BY <2>1, <2>2
<1>6. /\ (uRequest.priority \in UPriorities /\ uRequest.ceiling \in UCeilings
           /\ Free \subseteq uRequest.allowed /\ Free \subseteq uReady
           /\ uScenes \in UScenes /\ uPrice \in [Generated -> Nat \cup {Unpriced}])'
  BY <1>1 DEF UInv
<1>7. \A k \in 1 .. Len(uFound') : Select(k)' \notin Stock => uFound'[k] = <<>>
  BY <1>2, <1>5
<1> QED
  BY <1>1, <1>5, <1>6, <1>7 DEF UInv

LEMMA DecideKeeps == ASSUME UInv, Decide PROVE UInv'
<1>1. /\ uPlan = "planning" /\ Len(uFound) = Len(uScenes)
      /\ UNCHANGED <<uRequest, uScenes, uReady, uPrice, uFound>>
      /\ uItems' = [k \in DOMAIN uScenes |-> Item(k)]
      /\ uPlan' \in {"needs_approval", "planned"}
      /\ uPlan' = "planned" => /\ \A k \in DOMAIN uItems' : ~uItems'[k].asks
                               /\ ~(TotalCost(uItems') > uRequest.ceiling)
  BY DEF Decide
<1>2. \A k : Select(k)' = Select(k)
  BY <1>1, SelectSame
<1>3. \A k : Item(k)' = Item(k)
  BY <1>1, ItemSame
<1>4. uItems' = [k \in DOMAIN uScenes' |-> Item(k)']
  BY <1>1, <1>3
<1>5. /\ (uRequest.priority \in UPriorities /\ uRequest.ceiling \in UCeilings
           /\ Free \subseteq uRequest.allowed /\ Free \subseteq uReady
           /\ uScenes \in UScenes /\ uPrice \in [Generated -> Nat \cup {Unpriced}])'
      /\ (uFound \in Seq(Seq(UCandidate)) /\ Len(uFound) <= Len(uScenes))'
  BY <1>1 DEF UInv
<1>6. \A k \in 1 .. Len(uFound') : Select(k)' \notin Stock => uFound'[k] = <<>>
  BY <1>1, <1>2 DEF UInv
<1> QED
  BY <1>1, <1>4, <1>5, <1>6 DEF UInv

LEMMA PlanningKeeps == ASSUME UInv, [UNext]_uVars PROVE UInv'
<1>1. CASE Search
  BY <1>1, SearchKeeps
<1>2. CASE Decide
  BY <1>2, DecideKeeps
<1>3. CASE UNCHANGED uVars
  <2>1. UNCHANGED <<uRequest, uScenes, uReady, uPrice, uFound, uItems, uPlan>>
    BY <1>3 DEF uVars
  <2>2. \A k : Select(k)' = Select(k)
    BY <2>1, SelectSame
  <2>3. \A k : Item(k)' = Item(k)
    BY <2>1, ItemSame
  <2>4. [k \in DOMAIN uScenes |-> Item(k)]' = [k \in DOMAIN uScenes |-> Item(k)]
    BY <2>1, <2>3
  <2> QED
    BY <2>1, <2>2, <2>4 DEF UInv
<1> QED
  BY <1>1, <1>2, <1>3 DEF UNext

LEMMA PlanningStarts == ASSUME UInit PROVE UInv
<1>1. /\ uRequest.priority \in UPriorities /\ uRequest.ceiling \in UCeilings
      /\ Free \subseteq uRequest.allowed /\ Free \subseteq uReady /\ uScenes \in UScenes
      /\ uFound = <<>> /\ uItems = <<>> /\ uPlan = "planning"
  BY DEF UInit
<1>2. uPrice \in [Generated -> Nat \cup {Unpriced}]
  BY MediaPlanningConstants DEF UInit
<1>3. Len(uScenes) \in Nat
  BY <1>1, MediaPlanningConstants
<1>4. uFound \in Seq(Seq(UCandidate)) /\ Len(uFound) = 0
  BY <1>1
<1> QED
  BY <1>1, <1>2, <1>3, <1>4 DEF UInv

LEMMA PlanningHolds == ASSUME UInv PROVE PlansStayPossible /\ PlansAreAffordable
<1>1. CASE uItems = <<>>
  <2>1. DOMAIN uItems = {}
    BY <1>1
  <2>2. TotalCost(uItems) \in Nat
    BY <1>1, CostsAre
  <2>3. uRequest.ceiling \in Nat
    BY ScenesAre
  <2>4. uPlan = "planned" => TotalCost(uItems) <= uRequest.ceiling
    BY <2>2, <2>3 DEF UInv
  <2> QED
    BY <2>1, <2>4 DEF PlansStayPossible, PlansAreAffordable
<1>2. CASE uItems # <<>>
  <2>1. Len(uFound) = Len(uScenes) /\ uItems = [k \in DOMAIN uScenes |-> Item(k)]
    BY <1>2 DEF UInv
  <2>2. /\ DOMAIN uItems = DOMAIN uScenes
        /\ \A k \in DOMAIN uItems : ItemHolds(uItems[k], k)
    BY <2>1, ItemsHold
  <2>3. Len(uScenes) \in Nat /\ DOMAIN uScenes = 1 .. Len(uScenes)
    BY ScenesAre
  <2>4. Len(uItems) = Len(uScenes)
    <3> DEFINE V == {uItems[k] : k \in DOMAIN uScenes}
    <3>1. \A k \in DOMAIN uScenes : uItems[k] \in V
      OBVIOUS
    <3> HIDE DEF V
    <3>0. uItems = [k \in DOMAIN uScenes |-> uItems[k]]
      <4> DEFINE e(k) == Item(k)
      <4>1. uItems = [k \in DOMAIN uScenes |-> e(k)]
        BY <2>1
      <4> HIDE DEF e
      <4> QED
        BY <4>1
    <3>2. uItems \in [1 .. Len(uScenes) -> V]
      BY <2>3, <3>0, <3>1
    <3> QED
      BY <2>3, <3>2, FunctionIsList
  <2>5. TotalCost(uItems) \in Nat
    <3>1. \A k \in 1 .. Len(uItems) : uItems[k].cost \in Nat
      BY <2>2, <2>3, <2>4 DEF ItemHolds
    <3> QED
      BY <2>3, <2>4, <3>1, CostsAre
  <2>6. uRequest.ceiling \in Nat
    BY ScenesAre
  <2>7. uPlan = "planned" => TotalCost(uItems) <= uRequest.ceiling
    BY <2>5, <2>6 DEF UInv
  <2>8. uPlan = "planned" => \A k \in DOMAIN uItems : ~uItems[k].asks
    BY DEF UInv
  <2>9. PlansAreAffordable
    BY <2>2, <2>7, <2>8 DEF PlansAreAffordable, ItemHolds
  <2>10. PlansStayPossible
    BY <2>2 DEF PlansStayPossible, ItemHolds, RankingOf, Named
  <2> QED
    BY <2>9, <2>10
<1> QED
  BY <1>1, <1>2

-----------------------------------------------------------------------------
(* Samples.                                                                *)

LEMMA RequestsAre ==
    ASSUME NEW r \in GRequests
    PROVE  /\ r.length \in Nat \ {0} /\ r.interval \in Nat \ {0} /\ r.frames \in Nat \ {0}
           /\ r.trust \in Nat /\ r.jump \in Nat /\ r.floor \in Int
           /\ Len(r.scenes) \in Nat /\ DOMAIN r.scenes = 1 .. Len(r.scenes)
           /\ \A k \in DOMAIN r.scenes :
                 /\ r.scenes[k].from \in 0 .. r.length /\ r.scenes[k].to \in 0 .. r.length
                 /\ r.scenes[k].from < r.scenes[k].to
           /\ \A j, k \in DOMAIN r.scenes : j < k => r.scenes[j].to <= r.scenes[k].from
           /\ r.overrides \in Seq([time : Nat, x : Places, y : Places])
<1> DEFINE s == r.scenes
           V == [from : 0 .. r.length, to : 0 .. r.length]
<1>1. /\ {r.length, r.interval, r.frames} \subseteq Nat \ {0}
      /\ s \in SceneLists(r.length)
      /\ r.trust \in Nat /\ r.jump \in Nat /\ r.floor \in Int
      /\ r.overrides \in Seq([time : Nat, x : Places, y : Places])
  BY ReframingConstants
<1>2. /\ s \in Seq(V) /\ \A k \in DOMAIN s : s[k].from < s[k].to
      /\ \A j, k \in DOMAIN s : j < k => s[j].to <= s[k].from
  BY <1>1 DEF SceneLists
<1> HIDE DEF s
<1>3. Len(s) \in Nat /\ DOMAIN s = 1 .. Len(s) /\ \A k \in DOMAIN s : s[k] \in V
  <2> HIDE DEF V
  <2> QED
    BY <1>2, LenProperties
<1>4. \A k \in DOMAIN s : s[k].from \in 0 .. r.length /\ s[k].to \in 0 .. r.length
  BY <1>3
<1> QED
  BY <1>1, <1>2, <1>3, <1>4 DEF s

\* The thinned indexes: inside, from the first to the last.
LEMMA IndexesAre ==
    ASSUME NEW f \in Nat \ {0}, NEW m \in Nat
    PROVE  /\ \A i \in 0 .. f : RoundedQuotient(i * m, f) \in 0 .. m
           /\ RoundedQuotient(0 * m, f) = 0 /\ RoundedQuotient(f * m, f) = m
<1>1. ASSUME NEW a \in 0 .. f * m
      PROVE  /\ RoundedQuotient(a, f) \in 0 .. m
             /\ a = 0 => RoundedQuotient(a, f) = 0
             /\ a = f * m => RoundedQuotient(a, f) = m
  <2> DEFINE q == a \div f
             w == a % f
             p == f * q
             z == f * m
  <2>0. f * m \in Nat
    OBVIOUS
  <2>1. a \in Nat /\ q \in Nat /\ w \in 0 .. f - 1 /\ a = p + w /\ p \in Nat
    BY <2>0
  <2>2. RoundedQuotient(a, f) = IF 2 * w > f \/ (2 * w = f /\ q % 2 = 1) THEN q + 1 ELSE q
    BY DEF RoundedQuotient
  <2> HIDE DEF q, w
  <2>3. q >= m + 1 => p >= z + f
    <3>1. ASSUME q >= m + 1 PROVE f * q >= f * m + f
      <4>1. PICK d \in Nat : q = m + 1 + d
        <5>1. q - m - 1 \in Nat /\ q = m + 1 + (q - m - 1)
          BY <2>1, <3>1
        <5> QED
          BY <5>1
      <4>2. f * (m + 1 + d) = f * m + f + f * d /\ f * d \in Nat /\ f * m \in Nat
        OBVIOUS
      <4> QED
        BY <4>1, <4>2
    <3> QED
      BY <3>1
  <2>4. q <= m - 1 => p <= z - f
    <3>1. ASSUME q <= m - 1 PROVE f * q <= f * m - f
      <4>1. PICK d \in Nat : m = q + 1 + d
        <5>1. m - q - 1 \in Nat /\ m = q + 1 + (m - q - 1)
          BY <2>1, <3>1
        <5> QED
          BY <5>1
      <4>2. f * (q + 1 + d) = f * q + f + f * d /\ f * d \in Nat /\ f * q \in Nat
        BY <2>1
      <4> QED
        BY <4>1, <4>2
    <3> QED
      BY <3>1
  <2>5. q = m => p = z
    OBVIOUS
  <2>6. q >= 1 => p >= f
    <3>1. ASSUME q >= 1 PROVE f * q >= f
      <4>1. PICK d \in Nat : q = 1 + d
        <5>1. q - 1 \in Nat /\ q = 1 + (q - 1)
          BY <2>1, <3>1
        <5> QED
          BY <5>1
      <4>2. f * (1 + d) = f + f * d /\ f * d \in Nat
        OBVIOUS
      <4> QED
        BY <4>1, <4>2
    <3> QED
      BY <3>1
  <2>7. z \in Nat /\ a <= z
    BY <2>0
  <2>11. q = 0 => p = 0
    OBVIOUS
  <2> HIDE DEF p, z
  <2>8. q <= m /\ (q = m => w = 0)
    BY <2>1, <2>3, <2>5, <2>7
  <2>9. a = 0 => q = 0 /\ w = 0
    BY <2>1, <2>6
  <2>10. a = z => q = m /\ w = 0
    BY <2>1, <2>4, <2>8, <2>7
  <2> QED
    BY <2>1, <2>2, <2>8, <2>9, <2>10 DEF z
<1>2. ASSUME NEW i \in 0 .. f PROVE i * m \in 0 .. f * m
  <2>1. PICK d \in Nat : f = i + d
    <3>1. f - i \in Nat /\ f = i + (f - i)
      OBVIOUS
    <3> QED
      BY <3>1
  <2>2. (i + d) * m = i * m + d * m /\ i * m \in Nat /\ d * m \in Nat
    OBVIOUS
  <2> QED
    BY <2>1, <2>2
<1>3. 0 * m = 0 /\ 0 \in 0 .. f /\ f \in 0 .. f
  OBVIOUS
<1> QED
  BY <1>1, <1>2, <1>3

\* Candidates: moments inside the media.
LEMMA CandidatesAre ==
    ASSUME NEW r \in GRequests
    PROVE  /\ Candidates(r) \subseteq 0 .. r.length - 1
           /\ Candidates(r) # {} /\ IsFiniteSet(Candidates(r))
<1> DEFINE last == r.length - 1
           Middle(k) == Min({last, (r.scenes[k].from + r.scenes[k].to) \div 2})
           middles == {Middle(k) : k \in DOMAIN r.scenes}
           first == Min({r.interval \div 2, last})
           Grid(n) == {first + k * r.interval : k \in 0 .. n - 1}
           points == {n \in 1 .. r.length : /\ first + (n - 1) * r.interval < r.length
                                            /\ Cardinality(middles \cup Grid(n - 1)) < 3 * r.frames}
<1>1. Candidates(r) = middles \cup UNION {Grid(n) : n \in points}
  BY DEF Candidates
<1>2. /\ r.length \in Nat \ {0} /\ r.interval \in Nat \ {0} /\ r.frames \in Nat \ {0}
      /\ \A k \in DOMAIN r.scenes : r.scenes[k].from \in 0 .. r.length /\ r.scenes[k].to \in 0 .. r.length
      /\ last \in Nat /\ Len(r.scenes) \in Nat /\ DOMAIN r.scenes = 1 .. Len(r.scenes)
  BY RequestsAre
<1>3. middles \subseteq 0 .. last
  <2>1. ASSUME NEW k \in DOMAIN r.scenes PROVE Middle(k) \in 0 .. last
    <3> DEFINE c == (r.scenes[k].from + r.scenes[k].to) \div 2
    <3>1. c \in Nat
      BY <1>2
    <3> HIDE DEF c, last
    <3>2. Min({last, c}) = IF last <= c THEN last ELSE c
      BY <1>2, <3>1, OfTwo
    <3> QED
      BY <1>2, <3>1, <3>2 DEF c
  <2> HIDE DEF Middle
  <2> QED
    BY <2>1
<1>4. first \in 0 .. last
  <2> DEFINE c == r.interval \div 2
  <2>1. c \in Nat
    BY <1>2
  <2> HIDE DEF c, last
  <2>2. Min({c, last}) = IF c <= last THEN c ELSE last
    BY <1>2, <2>1, OfTwo
  <2> QED
    BY <1>2, <2>1, <2>2 DEF c
<1> HIDE DEF first, Middle
<1>5. ASSUME NEW n \in points, NEW k \in 0 .. n - 1
      PROVE  first + k * r.interval \in 0 .. last
  <2>1. n \in Nat /\ first + (n - 1) * r.interval < r.length
    OBVIOUS
  <2> HIDE DEF points
  <2>2. PICK d \in Nat : n - 1 = k + d
    <3>1. n - 1 - k \in Nat /\ n - 1 = k + (n - 1 - k)
      BY <2>1
    <3> QED
      BY <3>1
  <2> DEFINE v == r.interval
             a == k * v
             b == d * v
  <2>3. v \in Nat /\ k \in Nat /\ d \in Nat
    BY <1>2, <2>1
  <2>4. first + (n - 1) * v < r.length
    BY <2>1
  <2> HIDE DEF v
  <2>5. (k + d) * v = a + b /\ a \in Nat /\ b \in Nat
    BY <2>3
  <2>6. first + (a + b) < r.length
    BY <2>2, <2>4, <2>5
  <2> HIDE DEF a, b
  <2>7. first + a \in 0 .. last
    BY <1>2, <1>4, <2>5, <2>6
  <2> QED
    BY <2>7 DEF a, v
<1>6. Candidates(r) \subseteq 0 .. last
  <2>1. \A n \in points : Grid(n) \subseteq 0 .. last
    BY <1>5
  <2> HIDE DEF points, Grid, middles
  <2> QED
    BY <1>1, <1>3, <2>1
<1>7. Candidates(r) # {}
  <2>1. CASE middles # {}
    BY <1>1, <2>1
  <2>2. CASE middles = {}
    <3>1. Grid(0) = {}
      BY <1>4
    <3>2. Cardinality(middles \cup Grid(0)) = 0
      <4> HIDE DEF middles, Grid
      <4> QED
        BY <2>2, <3>1, FS_EmptySet
    <3>3. 1 - 1 = 0 /\ first + 0 * r.interval < r.length
      BY <1>2, <1>4
    <3>4. 1 \in points
      BY <1>2, <3>2, <3>3
    <3>5. first + 0 * r.interval \in Grid(1)
      <4>1. 0 \in 0 .. 1 - 1
        OBVIOUS
      <4> QED
        BY <4>1
    <3> HIDE DEF points, Grid, middles
    <3> QED
      BY <1>1, <3>4, <3>5
  <2> QED
    BY <2>1, <2>2
<1>8. IsFiniteSet(0 .. last)
  BY <1>2, FS_Interval
<1>9. IsFiniteSet(Candidates(r))
  BY <1>6, <1>8, FS_Subset
<1> QED
  BY <1>6, <1>7, <1>9

\* What is sent: different moments inside the media, with both ends.
SamplesHold(s, r) ==
    /\ Len(s) \in Nat /\ DOMAIN s = 1 .. Len(s)
    /\ \A i \in DOMAIN s : s[i] \in 0 .. r.length - 1
    /\ \A i, j \in DOMAIN s : i < j => s[i] < s[j]
    /\ Len(s) = r.frames /\ r.frames > 1 =>
          {Min(Candidates(r)), Max(Candidates(r))} \subseteq {s[i] : i \in DOMAIN s}

LEMMA SamplesAre ==
    ASSUME NEW r \in GRequests
    PROVE  SamplesHold(SampleTimes(r), r)
<1> DEFINE C == Candidates(r)
           ordered == InOrder(C, <)
           n == Len(ordered)
           f == r.frames
           At(i) == ordered[RoundedQuotient(i * (n - 1), f - 1) + 1]
           T == {At(i) : i \in 0 .. f - 1}
<1>0. SampleTimes(r) = IF n <= f THEN ordered
                       ELSE IF f = 1 THEN <<ordered[n \div 2 + 1]>>
                       ELSE InOrder(T, <)
  BY DEF SampleTimes
<1>1. /\ r.length \in Nat \ {0} /\ f \in Nat \ {0}
  BY RequestsAre
<1>2. C \subseteq 0 .. r.length - 1 /\ C # {} /\ IsFiniteSet(C)
  BY CandidatesAre
<1>3. C \in SUBSET Nat /\ C \subseteq Int
  BY <1>1, <1>2
<1> DEFINE lo == Min(C)
           hi == Max(C)
<1>4. lo \in C /\ hi \in C /\ \A y \in C : lo <= y /\ y <= hi
  <2> HIDE DEF C
  <2> QED
    BY <1>2, <1>3, ExtremesAre
<1> HIDE DEF C, lo, hi
<1>5. /\ ordered \in Seq(C)
      /\ \A x \in C : \E i \in 1 .. n : ordered[i] = x
      /\ \A i \in 1 .. n : ordered[i] \in C
      /\ \A i, j \in 1 .. n : i < j => ordered[i] < ordered[j]
  BY <1>2, <1>3, NumbersInOrder
<1> HIDE DEF ordered
<1>6. n \in Nat /\ DOMAIN ordered = 1 .. n
  BY <1>5, LenProperties
<1> HIDE DEF n
<1>7. n # 0
  <2>1. PICK i \in 1 .. n : ordered[i] = lo
    BY <1>4, <1>5
  <2> QED
    BY <1>6, <2>1
<1>8. 1 \in 1 .. n /\ n \in 1 .. n
  BY <1>6, <1>7
<1>9. ordered[1] = lo /\ ordered[n] = hi
  <2>1. PICK i \in 1 .. n : ordered[i] = lo
    BY <1>4, <1>5
  <2>2. PICK j \in 1 .. n : ordered[j] = hi
    BY <1>4, <1>5
  <2>3. \A k \in 1 .. n : ordered[k] \in Int
    BY <1>3, <1>5
  <2>4. i = 1
    <3>1. i = 1 \/ 1 < i
      OBVIOUS
    <3>2. 1 < i => ordered[1] < ordered[i]
      BY <1>5, <1>8
    <3> QED
      BY <1>4, <1>5, <1>8, <2>1, <2>3, <3>1, <3>2
  <2>5. j = n
    <3>1. j = n \/ j < n
      BY <1>6
    <3>2. j < n => ordered[j] < ordered[n]
      BY <1>5, <1>8
    <3> QED
      BY <1>4, <1>5, <1>8, <2>2, <2>3, <3>1, <3>2
  <2> QED
    BY <2>1, <2>2, <2>4, <2>5
<1>10. CASE n <= f
  <2>1. \A i \in 1 .. n : ordered[i] \in 0 .. r.length - 1
    BY <1>2, <1>5
  <2>2. {lo, hi} \subseteq {ordered[i] : i \in DOMAIN ordered}
    BY <1>6, <1>8, <1>9
  <2>3. SamplesHold(ordered, r)
    BY <1>5, <1>6, <2>1, <2>2 DEF SamplesHold, lo, hi, C, n
  <2> QED
    BY <1>0, <1>10, <2>3
<1>11. CASE n > f /\ f = 1
  <2> DEFINE m == n \div 2 + 1
             x == ordered[m]
  <2>1. m \in 1 .. n
    BY <1>6, <1>11
  <2>2. x \in 0 .. r.length - 1
    BY <1>2, <1>5, <2>1
  <2> HIDE DEF x
  <2>3. SamplesHold(<<x>>, r)
    BY <1>11, <2>2 DEF SamplesHold
  <2> QED
    BY <1>0, <1>6, <1>11, <2>3 DEF x
<1>12. CASE n > f /\ f # 1
  <2> DEFINE s == InOrder(T, <)
  <2>1. f - 1 \in Nat \ {0} /\ n - 1 \in Nat
    BY <1>1, <1>6, <1>7, <1>12
  <2>2. /\ \A i \in 0 .. f - 1 : RoundedQuotient(i * (n - 1), f - 1) \in 0 .. n - 1
        /\ RoundedQuotient(0 * (n - 1), f - 1) = 0
        /\ RoundedQuotient((f - 1) * (n - 1), f - 1) = n - 1
    <3> DEFINE u == f - 1
               w == n - 1
    <3> HIDE DEF u, w
    <3>1. u \in Nat \ {0} /\ w \in Nat
      BY <2>1 DEF u, w
    <3>2. /\ \A i \in 0 .. u : RoundedQuotient(i * w, u) \in 0 .. w
          /\ RoundedQuotient(0 * w, u) = 0 /\ RoundedQuotient(u * w, u) = w
      BY <3>1, IndexesAre
    <3> QED
      BY <3>2 DEF u, w
  <2>3. ASSUME NEW i \in 0 .. f - 1 PROVE At(i) \in C
    <3>1. RoundedQuotient(i * (n - 1), f - 1) + 1 \in 1 .. n
      <4> DEFINE g == RoundedQuotient(i * (n - 1), f - 1)
      <4>1. g \in 0 .. n - 1
        BY <2>2
      <4> HIDE DEF g
      <4>2. g + 1 \in 1 .. n
        BY <1>6, <4>1
      <4> QED
        BY <4>2 DEF g
    <3> QED
      BY <1>5, <3>1
  <2>4. At(0) = lo /\ At(f - 1) = hi
    <3>1. 0 + 1 = 1 /\ (n - 1) + 1 = n
      BY <1>6
    <3> QED
      BY <1>9, <2>2, <3>1
  <2>5. 0 \in 0 .. f - 1 /\ f - 1 \in 0 .. f - 1
    BY <2>1
  <2> HIDE DEF At
  <2>6. T \subseteq C /\ lo \in T /\ hi \in T
    BY <2>3, <2>4, <2>5
  <2>7. T \in SUBSET Nat /\ IsFiniteSet(T)
    BY <1>2, <1>3, <2>6, FS_Subset
  <2> HIDE DEF T
  <2>8. /\ s \in Seq(T)
        /\ \A x \in T : \E i \in 1 .. Len(s) : s[i] = x
        /\ \A i \in 1 .. Len(s) : s[i] \in T
        /\ \A i, j \in 1 .. Len(s) : i < j => s[i] < s[j]
    BY <2>7, NumbersInOrder
  <2> HIDE DEF s
  <2>9. Len(s) \in Nat /\ DOMAIN s = 1 .. Len(s)
    BY <2>8, LenProperties
  <2>10. \A i \in 1 .. Len(s) : s[i] \in 0 .. r.length - 1
    BY <1>2, <2>6, <2>8
  <2>11. {lo, hi} \subseteq {s[i] : i \in DOMAIN s}
    <3>1. PICK i \in 1 .. Len(s) : s[i] = lo
      BY <2>6, <2>8
    <3>2. PICK j \in 1 .. Len(s) : s[j] = hi
      BY <2>6, <2>8
    <3> QED
      BY <2>9, <3>1, <3>2
  <2>12. SamplesHold(s, r)
    BY <2>8, <2>9, <2>10, <2>11 DEF SamplesHold, lo, hi, C
  <2>13. SampleTimes(r) = InOrder(T, <)
    <3> DEFINE g == f
    <3>0. SampleTimes(r) = IF n <= g THEN ordered
                           ELSE IF g = 1 THEN <<ordered[n \div 2 + 1]>>
                           ELSE InOrder(T, <)
      BY <1>0
    <3>1. g \in Nat /\ n > g /\ g # 1
      BY <1>1, <1>12
    <3> HIDE DEF g
    <3>2. ~(n <= g)
      BY <1>6, <3>1
    <3> QED
      BY <3>0, <3>1, <3>2
  <2> QED
    BY <2>12, <2>13 DEF s
<1> QED
  BY <1>1, <1>6, <1>10, <1>11, <1>12

-----------------------------------------------------------------------------
(* Reframing.                                                              *)

GSighting == [who : Nat, category : DOMAIN CategoryOrder, confidence : Nat, x : Places, y : Places]

\* The plan follows the subject.
Tracks(subject) == \E s \in {subject} : gKeyframes = Smoothed(Observations(s))

GInv ==
    /\ gRequest \in GRequests
    /\ gPc \in {"asked", "sent", "answered", "planned", "failed"}
    /\ gCharged \in Nat /\ gCharged <= EstimatedCost
    /\ gPc \in {"sent", "answered", "planned"} =>
          gTimes = SampleTimes(gRequest) /\ Len(gTimes) = gRequest.frames
    /\ gPc \in {"answered", "planned"} => gSeen \in [DOMAIN gTimes -> GSightings]
    /\ IF gPc = "planned"
       THEN /\ gScenes = VisionScenes(gTimes) /\ (gTrack = NoSubject \/ gTrack \in Subjects)
            /\ IF gRequest.overrides # <<>>
               THEN gStrategy = "manual_override" /\ gKeyframes = Overridden
               ELSE IF gTrack # NoSubject
               THEN gStrategy = "subject_track" /\ Tracks(gTrack)
               ELSE gStrategy = "center_crop" /\ gKeyframes = Centered
       ELSE gStrategy = "none" /\ gTrack = NoSubject /\ gKeyframes = <<>>

LEMMA TimesHold ==
    ASSUME GInv, gPc \in {"sent", "answered", "planned"}
    PROVE  SamplesHold(gTimes, gRequest) /\ Len(gTimes) = gRequest.frames
BY SamplesAre DEF GInv

\* A frame is evidence of the scene it lies in.
LEMMA ScenesTell ==
    ASSUME GInv, gPc = "planned", NEW i \in DOMAIN gTimes
    PROVE  Cardinality({k \in DOMAIN gScenes : i \in gScenes[k].frames})
             = IF \E k \in DOMAIN gRequest.scenes :
                     gTimes[i] \in gRequest.scenes[k].from .. gRequest.scenes[k].to - 1
               THEN 1 ELSE 0
<1> DEFINE S == gRequest.scenes
           FramesOf(s) == {j \in DOMAIN gTimes : s.from <= gTimes[j] /\ gTimes[j] < s.to}
           shown == [k \in DOMAIN S |-> [scene |-> k, frames |-> FramesOf(S[k])]]
           I == {k \in DOMAIN shown : shown[k].frames # {}}
           K == {k \in DOMAIN gScenes : i \in gScenes[k].frames}
           t == gTimes[i]
<1>1. gScenes = Entries(shown, I)
  BY DEF GInv, VisionScenes
<1>2. gRequest \in GRequests
  BY DEF GInv
<1>3. /\ Len(S) \in Nat /\ DOMAIN S = 1 .. Len(S) /\ gRequest.length \in Nat
      /\ \A k \in DOMAIN S : S[k].from \in 0 .. gRequest.length /\ S[k].to \in 0 .. gRequest.length
      /\ \A j, k \in DOMAIN S : j < k => S[j].to <= S[k].from
  BY <1>2, RequestsAre
<1>4. t \in Nat
  BY <1>3, TimesHold DEF SamplesHold
<1>5. I \in SUBSET Nat /\ IsFiniteSet(I)
  <2>1. IsFiniteSet(1 .. Len(S))
    BY <1>3, FS_Interval
  <2>2. I \subseteq 1 .. Len(S)
    BY <1>3
  <2> QED
    BY <1>3, <2>1, <2>2, FS_Subset
<1>6. /\ \A k \in I : k \in DOMAIN S /\ shown[k].frames = FramesOf(S[k])
      /\ \A k \in DOMAIN S : FramesOf(S[k]) # {} => k \in I
  OBVIOUS
<1>7. \A k \in DOMAIN S : i \in FramesOf(S[k]) <=> S[k].from <= t /\ t < S[k].to
  OBVIOUS
<1>8. \A k \in DOMAIN S : t \in S[k].from .. S[k].to - 1 <=> S[k].from <= t /\ t < S[k].to
  BY <1>3, <1>4
<1> HIDE DEF I, shown, FramesOf, t, S
<1>9. PICK o : PickedBy(gScenes, shown, I, o)
  BY <1>1, <1>5, EntriesAre
<1>10. /\ Len(o) \in Nat /\ DOMAIN gScenes = 1 .. Len(o)
       /\ \A n \in 1 .. Len(o) : o[n] \in I /\ gScenes[n] = shown[o[n]]
       /\ \A x \in I : \E n \in 1 .. Len(o) : o[n] = x
       /\ \A m, n \in 1 .. Len(o) : m < n => o[m] < o[n]
  BY <1>9 DEF PickedBy
<1>11. \A n \in 1 .. Len(o) : n \in K <=> S[o[n]].from <= t /\ t < S[o[n]].to
  BY <1>6, <1>7, <1>10
<1>12. K \subseteq 1 .. Len(o)
  BY <1>10
<1>13. ASSUME NEW m \in K, NEW n \in K, m < n PROVE FALSE
  <2>1. o[m] \in DOMAIN S /\ o[n] \in DOMAIN S /\ o[m] < o[n]
    BY <1>6, <1>10, <1>12, <1>13
  <2>2. S[o[m]].to <= S[o[n]].from
    BY <1>3, <2>1
  <2>3. t < S[o[m]].to /\ S[o[n]].from <= t
    BY <1>11, <1>12
  <2> QED
    BY <1>3, <1>4, <2>1, <2>2, <2>3
<1>14. CASE \E k \in DOMAIN S : t \in S[k].from .. S[k].to - 1
  <2>1. PICK k \in DOMAIN S : S[k].from <= t /\ t < S[k].to
    BY <1>8, <1>14
  <2>2. k \in I
    BY <1>6, <1>7, <2>1
  <2>3. PICK n \in 1 .. Len(o) : o[n] = k
    BY <1>10, <2>2
  <2>4. n \in K
    BY <1>11, <2>1, <2>3
  <2>5. \A m \in K : m = n
    <3>1. ASSUME NEW m \in K PROVE m = n
      <4>1. m = n \/ m < n \/ n < m
        BY <1>12
      <4> QED
        BY <1>13, <2>4, <4>1
    <3> QED
      BY <3>1
  <2>6. K = {n}
    BY <2>4, <2>5
  <2>7. Cardinality(K) = 1
    BY <2>6, FS_Singleton
  <2> QED
    BY <1>14, <2>7 DEF S, t
<1>15. CASE ~\E k \in DOMAIN S : t \in S[k].from .. S[k].to - 1
  <2>1. K = {}
    <3>1. ASSUME NEW n \in K PROVE FALSE
      <4>1. S[o[n]].from <= t /\ t < S[o[n]].to /\ o[n] \in DOMAIN S
        BY <1>6, <1>10, <1>11, <1>12
      <4> QED
        BY <1>8, <1>15, <4>1
    <3> QED
      BY <3>1
  <2>2. Cardinality(K) = 0
    BY <2>1, FS_EmptySet
  <2> QED
    BY <1>15, <2>2 DEF S, t
<1> QED
  BY <1>14, <1>15

\* Where anything is seen.
Everywhere == UNION {{i} \X DOMAIN gSeen[i] : i \in DOMAIN gSeen}

LEMMA SightingsAre ==
    ASSUME GInv, gPc \in {"answered", "planned"}
    PROVE  /\ DOMAIN gSeen = DOMAIN gTimes /\ DOMAIN gTimes = 1 .. Len(gTimes) /\ Len(gTimes) \in Nat
           /\ Len(gSeen) = Len(gTimes)
           /\ \A p \in Everywhere : /\ p \in Int \X Int /\ p = <<p[1], p[2]>>
                                    /\ p[1] \in DOMAIN gTimes /\ p[2] \in DOMAIN gSeen[p[1]]
                                    /\ Sighting(p) \in GSighting
           /\ \A i \in DOMAIN gSeen : \A n \in DOMAIN gSeen[i] :
                 <<i, n>> \in Everywhere /\ Sighting(<<i, n>>) = gSeen[i][n]
           /\ IsFiniteSet(Everywhere)
<1>1. gSeen \in [DOMAIN gTimes -> GSightings] /\ SamplesHold(gTimes, gRequest)
  BY TimesHold DEF GInv
<1>2. DOMAIN gTimes = 1 .. Len(gTimes) /\ Len(gTimes) \in Nat /\ DOMAIN gSeen = DOMAIN gTimes
  BY <1>1 DEF SamplesHold
<1>3. Len(gSeen) = Len(gTimes)
  BY <1>1, <1>2, FunctionIsList
<1>4. ASSUME NEW i \in DOMAIN gSeen
      PROVE  /\ Len(gSeen[i]) \in Nat /\ DOMAIN gSeen[i] = 1 .. Len(gSeen[i])
             /\ \A n \in DOMAIN gSeen[i] : gSeen[i][n] \in GSighting
  <2> DEFINE s == gSeen[i]
  <2>1. s \in Seq(GSighting)
    BY <1>1, ReframingConstants DEF GSighting
  <2> HIDE DEF s
  <2>2. Len(s) \in Nat /\ DOMAIN s = 1 .. Len(s) /\ \A n \in DOMAIN s : s[n] \in GSighting
    BY <2>1, LenProperties
  <2> QED
    BY <2>2 DEF s
<1>5. ASSUME NEW p \in Everywhere
      PROVE  /\ p \in Int \X Int /\ p = <<p[1], p[2]>>
             /\ p[1] \in DOMAIN gTimes /\ p[2] \in DOMAIN gSeen[p[1]]
             /\ Sighting(p) \in GSighting
  <2>1. PICK i \in DOMAIN gSeen : p \in {i} \X DOMAIN gSeen[i]
    BY DEF Everywhere
  <2>2. p = <<p[1], p[2]>> /\ p[1] = i /\ p[2] \in DOMAIN gSeen[i]
    BY <2>1
  <2>3. i \in Int /\ p[2] \in Int
    BY <1>2, <1>4, <2>2
  <2>4. Sighting(p) \in GSighting
    BY <1>4, <2>2 DEF Sighting
  <2> QED
    BY <1>2, <2>2, <2>3, <2>4
<1>6. ASSUME NEW i \in DOMAIN gSeen, NEW n \in DOMAIN gSeen[i]
      PROVE  <<i, n>> \in Everywhere /\ Sighting(<<i, n>>) = gSeen[i][n]
  BY DEF Everywhere, Sighting
<1>7. IsFiniteSet(Everywhere)
  <2> DEFINE f == [i \in DOMAIN gSeen |-> {i} \X DOMAIN gSeen[i]]
             F == {f[i] : i \in DOMAIN gSeen}
  <2>1. IsFiniteSet(DOMAIN gSeen)
    BY <1>2, FS_Interval
  <2>2. ASSUME NEW i \in DOMAIN gSeen PROVE IsFiniteSet(f[i])
    <3> DEFINE L == Len(gSeen[i])
    <3>0. L \in Nat /\ DOMAIN gSeen[i] = 1 .. L
      BY <1>4
    <3> HIDE DEF L
    <3>3. IsFiniteSet(1 .. L)
      BY <3>0, FS_Interval
    <3>1. IsFiniteSet({i}) /\ IsFiniteSet(DOMAIN gSeen[i])
      BY <3>0, <3>3, FS_Singleton
    <3>2. IsFiniteSet({i} \X DOMAIN gSeen[i])
      BY <3>1, FS_Product
    <3> QED
      BY <3>2
  <2>3. Everywhere = UNION F
    BY DEF Everywhere
  <2> HIDE DEF f
  <2>4. IsFiniteSet(F)
    BY <2>1, FiniteImage
  <2>5. \A T \in F : IsFiniteSet(T)
    BY <2>2
  <2> HIDE DEF F
  <2> QED
    BY <2>3, <2>4, <2>5, FS_UNION
<1> QED
  BY <1>2, <1>3, <1>5, <1>6, <1>7

\* What is seen of one subject, in time.
ObservationsHold(obs) ==
    /\ Len(obs) \in Nat /\ DOMAIN obs = 1 .. Len(obs)
    /\ \A n \in DOMAIN obs : /\ obs[n].time \in Nat /\ obs[n].confidence \in Nat
                             /\ obs[n].x \in Places /\ obs[n].y \in Places
    /\ \A m, n \in DOMAIN obs : m < n => obs[m].time <= obs[n].time

LEMMA ObservationsAre ==
    ASSUME GInv, gPc \in {"answered", "planned"}, NEW s
    PROVE  ObservationsHold(Observations(s)) /\ (s \in Subjects => Len(Observations(s)) > 0)
<1> DEFINE P == Shows(s)
           o == InOrder(P, Earlier)
           obs == [n \in DOMAIN o |->
                      [time |-> gTimes[o[n][1]], x |-> Sighting(o[n]).x,
                       y |-> Sighting(o[n]).y, confidence |-> Sighting(o[n]).confidence]]
<1>1. Observations(s) = obs
  BY DEF Observations
<1>2. P \subseteq Everywhere /\ P \subseteq Int \X Int /\ IsFiniteSet(P)
  <2>1. P \subseteq Everywhere
    BY DEF Shows, Everywhere
  <2>2. IsFiniteSet(Everywhere) /\ \A p \in Everywhere : p \in Int \X Int
    BY SightingsAre
  <2> QED
    BY <2>1, <2>2, FS_Subset
<1>3. \A p \in P : /\ p[1] \in DOMAIN gTimes /\ Sighting(p) \in GSighting
                   /\ p[1] \in Int /\ p[2] \in Int
  BY <1>2, SightingsAre
<1>4. \A p \in P : /\ Sighting(p).x \in Places /\ Sighting(p).y \in Places
                   /\ Sighting(p).confidence \in Nat
  BY <1>3 DEF GSighting
<1>5. /\ \A i \in DOMAIN gTimes : gTimes[i] \in Nat
      /\ \A i, j \in DOMAIN gTimes : i < j => gTimes[i] < gTimes[j]
  <2>1. gRequest.length \in Nat
    BY RequestsAre DEF GInv
  <2>2. SamplesHold(gTimes, gRequest)
    BY TimesHold
  <2> QED
    BY <2>1, <2>2 DEF SamplesHold
<1>6. s \in Subjects => \E p \in P : TRUE
  <2>1. ASSUME s \in Subjects PROVE \E p \in P : TRUE
    <3>1. PICK q \in UNION {{gSeen[i][n] : n \in DOMAIN gSeen[i]} : i \in DOMAIN gSeen} :
                 Followed(q) /\ s = [who |-> q.who, category |-> q.category]
      BY <2>1 DEF Subjects
    <3>2. PICK i \in DOMAIN gSeen : \E n \in DOMAIN gSeen[i] : q = gSeen[i][n]
      BY <3>1
    <3>3. PICK n \in DOMAIN gSeen[i] : q = gSeen[i][n]
      BY <3>2
    <3>4. <<i, n>> \in Everywhere /\ Sighting(<<i, n>>) = q
      BY <3>3, SightingsAre
    <3>5. s.who = q.who /\ s.category = q.category
      BY <3>1
    <3>6. <<i, n>> \in P
      BY <3>1, <3>4, <3>5 DEF Shows, Everywhere
    <3> QED
      BY <3>6
  <2> QED
    BY <2>1
<1> HIDE DEF P
<1>7. /\ o \in Seq(P) /\ Len(o) \in Nat
      /\ \A x \in P : \E n \in 1 .. Len(o) : o[n] = x
      /\ \A n \in 1 .. Len(o) : o[n] \in P
      /\ \A m, n \in 1 .. Len(o) : m < n => Earlier(o[m], o[n])
  BY <1>2, PairsInOrder
<1> HIDE DEF o
<1>8. DOMAIN o = 1 .. Len(o)
  BY <1>7, LenProperties
<1>9. \A n \in 1 .. Len(o) : /\ obs[n].time = gTimes[o[n][1]] /\ obs[n].x = Sighting(o[n]).x
                             /\ obs[n].y = Sighting(o[n]).y /\ obs[n].confidence = Sighting(o[n]).confidence
  BY <1>8
<1>10. DOMAIN obs = 1 .. Len(o) /\ obs = [n \in 1 .. Len(o) |-> obs[n]]
  <2> DEFINE e(n) == [time |-> gTimes[o[n][1]], x |-> Sighting(o[n]).x,
                      y |-> Sighting(o[n]).y, confidence |-> Sighting(o[n]).confidence]
  <2>1. obs = [n \in DOMAIN o |-> e(n)]
    OBVIOUS
  <2> HIDE DEF e, obs
  <2> QED
    BY <1>8, <2>1
<1> HIDE DEF obs
<1>11. Len(obs) = Len(o)
  <2> DEFINE V == {obs[n] : n \in 1 .. Len(o)}
  <2>1. \A n \in 1 .. Len(o) : obs[n] \in V
    OBVIOUS
  <2> HIDE DEF V
  <2>2. obs \in [1 .. Len(o) -> V]
    BY <1>10, <2>1
  <2> QED
    BY <1>7, <2>2, FunctionIsList
<1>12. ASSUME NEW m \in 1 .. Len(o), NEW n \in 1 .. Len(o), m < n PROVE obs[m].time <= obs[n].time
  <2>1. Earlier(o[m], o[n]) /\ o[m] \in P /\ o[n] \in P
    BY <1>7, <1>12
  <2>2. o[m][1] < o[n][1] \/ o[m][1] = o[n][1]
    BY <2>1 DEF Earlier
  <2> QED
    BY <1>3, <1>5, <1>9, <2>1, <2>2
<1>13. ObservationsHold(obs)
  <2>1. ASSUME NEW n \in 1 .. Len(o)
        PROVE  /\ obs[n].time \in Nat /\ obs[n].confidence \in Nat
               /\ obs[n].x \in Places /\ obs[n].y \in Places
    <3> DEFINE q == o[n]
    <3>1. q \in P
      BY <1>7
    <3> HIDE DEF q
    <3>2. /\ q[1] \in DOMAIN gTimes /\ Sighting(q).x \in Places /\ Sighting(q).y \in Places
          /\ Sighting(q).confidence \in Nat
      BY <1>3, <1>4, <3>1
    <3>3. gTimes[q[1]] \in Nat
      BY <1>5, <3>2
    <3>4. /\ obs[n].time = gTimes[q[1]] /\ obs[n].x = Sighting(q).x
          /\ obs[n].y = Sighting(q).y /\ obs[n].confidence = Sighting(q).confidence
      BY <1>9 DEF q
    <3> QED
      BY <3>2, <3>3, <3>4
  <2> QED
    BY <1>7, <1>10, <1>11, <1>12, <2>1 DEF ObservationsHold
<1>14. s \in Subjects => Len(obs) > 0
  <2>1. ASSUME NEW p \in P PROVE Len(o) > 0
    <3>1. PICK n \in 1 .. Len(o) : o[n] = p
      BY <1>7
    <3> QED
      BY <1>7, <3>1
  <2> QED
    BY <1>6, <1>11, <2>1
<1> QED
  BY <1>1, <1>13, <1>14

\* The confidence of a track.
LEMMA TrustIs ==
    ASSUME NEW obs, Len(obs) \in Nat, \A n \in 1 .. Len(obs) : obs[n].confidence \in Nat
    PROVE  Trust(obs) \in Nat
<1> DEFINE N == Len(obs)
           step == [p \in (1 .. N) \X Nat |-> p[2] + obs[p[1]].confidence]
           IsSum(g) == g = [n \in 0 .. N |-> IF n = 0 THEN 0 ELSE g[n - 1] + obs[n].confidence]
<1>1. Trust(obs) = (CHOOSE g : IsSum(g))[N]
  BY DEF Trust
<1> HIDE DEF N
<1>0. N \in Nat /\ \A n \in 1 .. N : obs[n].confidence \in Nat
  BY DEF N
<1>2. ASSUME NEW n \in 1 .. N, NEW a \in Nat PROVE step[<<n, a>>] = a + obs[n].confidence /\ step[<<n, a>>] \in Nat
  BY <1>0
<1> HIDE DEF step
<1>3. StaysIn(step, N, Nat)
  BY <1>2 DEF StaysIn
<1>4. PICK g : Follows(g, N, Nat, 0, step)
  BY <1>0, <1>3, StepsExist
<1>5. g \in [0 .. N -> Nat] /\ g[0] = 0 /\ \A n \in 1 .. N : g[n] = step[<<n, g[n - 1]>>]
  BY <1>4 DEF Follows
<1>6. IsSum(g)
  <2>1. ASSUME NEW n \in 0 .. N PROVE g[n] = IF n = 0 THEN 0 ELSE g[n - 1] + obs[n].confidence
    <3>1. n # 0 => n \in 1 .. N /\ g[n - 1] \in Nat
      BY <1>0, <1>5
    <3> QED
      BY <1>2, <1>5, <3>1
  <2> QED
    BY <1>5, <2>1
<1> DEFINE h == CHOOSE f : IsSum(f)
<1>7. IsSum(h)
  BY <1>6
<1> HIDE DEF h
<1>8. h[0] = 0 /\ \A n \in 1 .. N : h[n] = h[n - 1] + obs[n].confidence
  BY <1>0, <1>7
<1> DEFINE G == {n \in 0 .. N : h[n] \in Nat}
<1>9. 0 \in G
  BY <1>0, <1>8
<1>10. \A n \in 0 .. N - 1 : n \in G => n + 1 \in G
  <2>1. ASSUME NEW n \in 0 .. N - 1, h[n] \in Nat PROVE h[n + 1] \in Nat
    <3>1. n + 1 \in 1 .. N /\ (n + 1) - 1 = n
      BY <1>0
    <3>2. h[n + 1] = h[n] + obs[n + 1].confidence
      BY <1>8, <3>1
    <3> QED
      BY <1>0, <2>1, <3>1, <3>2
  <2>2. \A n \in 0 .. N - 1 : n + 1 \in 0 .. N
    BY <1>0
  <2> QED
    BY <2>1, <2>2
<1> HIDE DEF G
<1>11. \A n \in 0 .. N : n \in G
  BY <1>0, <1>9, <1>10, UpTo
<1>12. h[N] \in Nat
  BY <1>0, <1>11 DEF G
<1> QED
  BY <1>1, <1>12 DEF h

-----------------------------------------------------------------------------
(* The subject that is followed.                                           *)

\* Products grow with their factors.
LEMMA Products ==
    ASSUME NEW x \in Nat, NEW y \in Nat, NEW z \in Nat \ {0}
    PROVE  /\ x > y => x * z > y * z
           /\ x >= y => x * z >= y * z
           /\ x * z > y * z => x > y
           /\ x * z >= y * z => x >= y
           /\ x * z \in Nat
<1>1. ASSUME NEW a \in Nat, NEW b \in Nat, a > b PROVE a * z > b * z
  <2>1. PICK d \in Nat : a = b + 1 + d
    <3>1. a - b - 1 \in Nat /\ a = b + 1 + (a - b - 1)
      BY <1>1
    <3> QED
      BY <3>1
  <2>2. (b + 1 + d) * z = b * z + z + d * z /\ d * z \in Nat /\ b * z \in Nat
    OBVIOUS
  <2> QED
    BY <2>1, <2>2
<1>2. x > y \/ x = y \/ y > x
  OBVIOUS
<1>3. x * z \in Nat /\ y * z \in Nat
  OBVIOUS
<1>4. x > y => x * z > y * z
  BY <1>1
<1>5. y > x => y * z > x * z
  BY <1>1
<1>6. x = y => x * z = y * z
  OBVIOUS
<1> DEFINE u == x * z
           v == y * z
<1> HIDE DEF u, v
<1>7. /\ u \in Nat /\ v \in Nat /\ (x > y => u > v) /\ (y > x => v > u) /\ (x = y => u = v)
  BY <1>3, <1>4, <1>5, <1>6 DEF u, v
<1>8. /\ x > y => u > v
      /\ x >= y => u >= v
      /\ u > v => x > y
      /\ u >= v => x >= y
      /\ u \in Nat
  BY <1>2, <1>7
<1> QED
  BY <1>8 DEF u, v

\* Quotients, compared across, are ordered.
LEMMA Quotients ==
    ASSUME NEW a \in Nat, NEW b \in Nat \ {0}, NEW c \in Nat, NEW d \in Nat \ {0},
           NEW e \in Nat, NEW f \in Nat \ {0}, a * d >= c * b, c * f >= e * d
    PROVE  /\ a * f >= e * b
           /\ a * d > c * b \/ c * f > e * d => a * f > e * b
<1>1. /\ a * d \in Nat /\ c * b \in Nat /\ c * f \in Nat /\ e * d \in Nat
      /\ a * f \in Nat /\ e * b \in Nat
  OBVIOUS
<1> DEFINE p == a * d
           q == c * b
           r == c * f
           s == e * d
           t == a * f
           u == e * b
<1>2. p * f = t * d /\ q * f = r * b /\ s * b = u * d
  OBVIOUS
<1> HIDE DEF p, q, r, s, t, u
<1>3. /\ p \in Nat /\ q \in Nat /\ r \in Nat /\ s \in Nat /\ t \in Nat /\ u \in Nat
      /\ p >= q /\ r >= s
  BY <1>1 DEF p, q, r, s, t, u
<1>4. p * f >= q * f /\ (p > q => p * f > q * f) /\ p * f \in Nat /\ q * f \in Nat
  BY <1>3, Products
<1>5. r * b >= s * b /\ (r > s => r * b > s * b) /\ r * b \in Nat /\ s * b \in Nat
  BY <1>3, Products
<1>6. (t * d >= u * d => t >= u) /\ (t * d > u * d => t > u) /\ t * d \in Nat /\ u * d \in Nat
  BY <1>3, Products
<1> DEFINE i == t * d
           j == r * b
           k == u * d
<1>7. /\ i >= j /\ (p > q => i > j) /\ j >= k /\ (r > s => j > k)
      /\ (i >= k => t >= u) /\ (i > k => t > u) /\ i \in Nat /\ j \in Nat /\ k \in Nat
  BY <1>2, <1>4, <1>5, <1>6
<1> HIDE DEF i, j, k
<1>8. t >= u /\ (p > q \/ r > s => t > u)
  BY <1>7
<1> QED
  BY <1>8 DEF p, q, r, s, t, u

\* What a subject is ranked by: score and mean over the number of sightings.
ScoreOf(s) == Trust(Observations(s)) * Min({Len(Observations(s)), Len(gSeen)})
MeanOf(s) == Trust(Observations(s))
TimesSeen(s) == Len(Observations(s))

LEMMA SubjectsAre ==
    ASSUME GInv, gPc \in {"answered", "planned"}
    PROVE  /\ \A s \in Subjects : /\ s = [who |-> s.who, category |-> s.category]
                                  /\ s.who \in Nat /\ CategoryOrder[s.category] \in Nat
                                  /\ ScoreOf(s) \in Nat /\ MeanOf(s) \in Nat
                                  /\ TimesSeen(s) \in Nat \ {0}
           /\ \A s, t \in Subjects :
                 s.who = t.who /\ CategoryOrder[s.category] = CategoryOrder[t.category] => s = t
           /\ IsFiniteSet(Subjects)
<1>1. \A s \in Subjects : \E p \in Everywhere :
         s = [who |-> Sighting(p).who, category |-> Sighting(p).category]
  <2>1. ASSUME NEW s \in Subjects
        PROVE  \E p \in Everywhere : s = [who |-> Sighting(p).who, category |-> Sighting(p).category]
    <3>1. PICK q \in UNION {{gSeen[i][n] : n \in DOMAIN gSeen[i]} : i \in DOMAIN gSeen} :
                 Followed(q) /\ s = [who |-> q.who, category |-> q.category]
      BY DEF Subjects
    <3>2. PICK i \in DOMAIN gSeen : \E n \in DOMAIN gSeen[i] : q = gSeen[i][n]
      BY <3>1
    <3>3. PICK n \in DOMAIN gSeen[i] : q = gSeen[i][n]
      BY <3>2
    <3>4. <<i, n>> \in Everywhere /\ Sighting(<<i, n>>) = q
      BY <3>3, SightingsAre
    <3> QED
      BY <3>1, <3>4
  <2> QED
    BY <2>1
<1>2. \A p \in Everywhere : Sighting(p).who \in Nat /\ Sighting(p).category \in DOMAIN CategoryOrder
  <2>1. \A p \in Everywhere : Sighting(p) \in GSighting
    BY SightingsAre
  <2> QED
    BY <2>1 DEF GSighting
<1>3. \A s \in Subjects : /\ s = [who |-> s.who, category |-> s.category]
                          /\ s.who \in Nat /\ s.category \in DOMAIN CategoryOrder
  <2>1. ASSUME NEW s \in Subjects
        PROVE  /\ s = [who |-> s.who, category |-> s.category]
               /\ s.who \in Nat /\ s.category \in DOMAIN CategoryOrder
    <3>1. PICK p \in Everywhere : s = [who |-> Sighting(p).who, category |-> Sighting(p).category]
      BY <1>1
    <3> QED
      BY <1>2, <3>1
  <2> QED
    BY <2>1
<1>4. /\ \A c \in DOMAIN CategoryOrder : CategoryOrder[c] \in Nat
      /\ \A c, d \in DOMAIN CategoryOrder : CategoryOrder[c] = CategoryOrder[d] => c = d
  <2>1. DOMAIN CategoryOrder = {"building", "face", "logo", "object", "person", "product", "text"}
    BY DEF CategoryOrder
  <2>2. /\ CategoryOrder["building"] = 1 /\ CategoryOrder["face"] = 2 /\ CategoryOrder["logo"] = 3
        /\ CategoryOrder["object"] = 4 /\ CategoryOrder["person"] = 5
        /\ CategoryOrder["product"] = 6 /\ CategoryOrder["text"] = 7
    BY DEF CategoryOrder
  <2> QED
    BY <2>1, <2>2
<1>5. ASSUME NEW s \in Subjects
      PROVE  ScoreOf(s) \in Nat /\ MeanOf(s) \in Nat /\ TimesSeen(s) \in Nat \ {0}
  <2> DEFINE obs == Observations(s)
             L == Len(gSeen)
             n == Len(obs)
  <2>1. ObservationsHold(obs) /\ n > 0
    BY ObservationsAre
  <2>2. L \in Nat
    BY SightingsAre
  <2> HIDE DEF obs, L
  <2>3. n \in Nat /\ n > 0 /\ \A k \in 1 .. n : obs[k].confidence \in Nat
    BY <2>1 DEF ObservationsHold
  <2>4. Trust(obs) \in Nat
    BY <2>3, TrustIs
  <2> HIDE DEF n
  <2>5. Min({n, L}) = IF n <= L THEN n ELSE L
    BY <2>2, <2>3, OfTwo
  <2>6. Min({n, L}) \in Nat
    BY <2>2, <2>3, <2>5
  <2> DEFINE a == Trust(obs)
             m == Min({n, L})
  <2> HIDE DEF a, m
  <2>7. a * m \in Nat
    BY <2>4, <2>6 DEF a, m
  <2> QED
    BY <2>3, <2>4, <2>7 DEF ScoreOf, MeanOf, TimesSeen, obs, L, n, a, m
<1>6. IsFiniteSet(Subjects)
  <2> DEFINE f == [p \in Everywhere |-> [who |-> Sighting(p).who, category |-> Sighting(p).category]]
             F == {f[p] : p \in Everywhere}
  <2>1. IsFiniteSet(Everywhere)
    BY SightingsAre
  <2>2. Subjects \subseteq F
    BY <1>1
  <2> HIDE DEF f
  <2>3. IsFiniteSet(F)
    BY <2>1, FiniteImage
  <2> HIDE DEF F
  <2> QED
    BY <2>2, <2>3, FS_Subset
<1>7. ASSUME NEW s \in Subjects, NEW t \in Subjects,
             s.who = t.who, CategoryOrder[s.category] = CategoryOrder[t.category]
      PROVE  s = t
  BY <1>3, <1>4, <1>7
<1> QED
  BY <1>3, <1>4, <1>5, <1>6, <1>7

LEMMA BetterIs ==
    ASSUME GInv, gPc \in {"answered", "planned"}, NEW s \in Subjects, NEW t \in Subjects
    PROVE  Better(s, t) <=>
               \/ ScoreOf(s) * TimesSeen(t) > ScoreOf(t) * TimesSeen(s)
               \/ /\ ScoreOf(s) * TimesSeen(t) = ScoreOf(t) * TimesSeen(s)
                  /\ MeanOf(s) * TimesSeen(t) > MeanOf(t) * TimesSeen(s)
               \/ /\ ScoreOf(s) * TimesSeen(t) = ScoreOf(t) * TimesSeen(s)
                  /\ MeanOf(s) * TimesSeen(t) = MeanOf(t) * TimesSeen(s)
                  /\ \/ s.who < t.who
                     \/ s.who = t.who /\ CategoryOrder[s.category] < CategoryOrder[t.category]
BY DEF Better, ScoreOf, MeanOf, TimesSeen, Earlier

LEMMA PrimaryIs ==
    ASSUME GInv, gPc \in {"answered", "planned"}
    PROVE  Primary = NoSubject \/ Primary \in Subjects
<1> DEFINE S == Subjects
           R == {p \in S \X S : Better(p[1], p[2])}
<1>1. \A s, t \in S : <<s, t>> \in R <=> Better(s, t)
  OBVIOUS
<1>2. Primary = IF S = {} THEN NoSubject ELSE CHOOSE s \in S : \A t \in S \ {s} : Better(s, t)
  BY DEF Primary
<1>3. /\ \A s \in S : /\ s.who \in Nat /\ CategoryOrder[s.category] \in Nat
                      /\ ScoreOf(s) \in Nat /\ MeanOf(s) \in Nat /\ TimesSeen(s) \in Nat \ {0}
      /\ \A s, t \in S : s.who = t.who /\ CategoryOrder[s.category] = CategoryOrder[t.category] => s = t
      /\ IsFiniteSet(S)
  BY SubjectsAre
<1> HIDE DEF R
<1>4. ASSUME NEW x \in S PROVE <<x, x>> \notin R
  <2> DEFINE p == ScoreOf(x) * TimesSeen(x)
             q == MeanOf(x) * TimesSeen(x)
  <2>1. p \in Nat /\ q \in Nat
    BY <1>3
  <2>2. Better(x, x) <=> \/ p > p \/ (p = p /\ q > q)
                         \/ (p = p /\ q = q /\ (x.who < x.who \/ (x.who = x.who
                                /\ CategoryOrder[x.category] < CategoryOrder[x.category])))
    BY BetterIs
  <2> HIDE DEF p, q
  <2>3. x.who \in Nat /\ CategoryOrder[x.category] \in Nat
    BY <1>3
  <2>4. ~Better(x, x)
    BY <2>1, <2>2, <2>3
  <2> QED
    BY <1>1, <2>4
<1>5. ASSUME NEW x \in S, NEW y \in S PROVE x = y \/ <<x, y>> \in R \/ <<y, x>> \in R
  <2> DEFINE a == ScoreOf(x) * TimesSeen(y)
             b == ScoreOf(y) * TimesSeen(x)
             c == MeanOf(x) * TimesSeen(y)
             d == MeanOf(y) * TimesSeen(x)
             i == CategoryOrder[x.category]
             j == CategoryOrder[y.category]
  <2>1. a \in Nat /\ b \in Nat /\ c \in Nat /\ d \in Nat
    BY <1>3
  <2>2. x.who \in Nat /\ y.who \in Nat /\ i \in Nat /\ j \in Nat /\ (x.who = y.who /\ i = j => x = y)
    BY <1>3
  <2>3. Better(x, y) <=> \/ a > b \/ (a = b /\ c > d)
                         \/ (a = b /\ c = d /\ (x.who < y.who \/ (x.who = y.who /\ i < j)))
    BY BetterIs
  <2>4. Better(y, x) <=> \/ b > a \/ (b = a /\ d > c)
                         \/ (b = a /\ d = c /\ (y.who < x.who \/ (y.who = x.who /\ j < i)))
    BY BetterIs
  <2> HIDE DEF a, b, c, d, i, j
  <2>5. x = y \/ Better(x, y) \/ Better(y, x)
    BY <2>1, <2>2, <2>3, <2>4
  <2> QED
    BY <1>1, <2>5
<1>6. ASSUME NEW x \in S, NEW y \in S, NEW z \in S, <<x, y>> \in R, <<y, z>> \in R PROVE <<x, z>> \in R
  <2> DEFINE a == ScoreOf(x)
             c == ScoreOf(y)
             e == ScoreOf(z)
             g == MeanOf(x)
             h == MeanOf(y)
             i == MeanOf(z)
             b == TimesSeen(x)
             d == TimesSeen(y)
             f == TimesSeen(z)
             k == CategoryOrder[x.category]
             l == CategoryOrder[y.category]
             m == CategoryOrder[z.category]
  <2>1. /\ a \in Nat /\ c \in Nat /\ e \in Nat /\ g \in Nat /\ h \in Nat /\ i \in Nat
        /\ b \in Nat \ {0} /\ d \in Nat \ {0} /\ f \in Nat \ {0}
        /\ k \in Nat /\ l \in Nat /\ m \in Nat /\ x.who \in Nat /\ y.who \in Nat /\ z.who \in Nat
    BY <1>3
  <2>2. \/ a * d > c * b \/ (a * d = c * b /\ g * d > h * b)
        \/ (a * d = c * b /\ g * d = h * b /\ (x.who < y.who \/ (x.who = y.who /\ k < l)))
    BY <1>1, <1>6, BetterIs
  <2>3. \/ c * f > e * d \/ (c * f = e * d /\ h * f > i * d)
        \/ (c * f = e * d /\ h * f = i * d /\ (y.who < z.who \/ (y.who = z.who /\ l < m)))
    BY <1>1, <1>6, BetterIs
  <2>4. \/ a * f > e * b \/ (a * f = e * b /\ g * f > i * b)
        \/ (a * f = e * b /\ g * f = i * b /\ (x.who < z.who \/ (x.who = z.who /\ k < m)))
        => <<x, z>> \in R
    BY <1>1, BetterIs
  <2> HIDE DEF a, b, c, d, e, f, g, h, i, k, l, m
  <2>5. /\ a * d \in Nat /\ c * b \in Nat /\ c * f \in Nat /\ e * d \in Nat
        /\ a * f \in Nat /\ e * b \in Nat
        /\ g * d \in Nat /\ h * b \in Nat /\ h * f \in Nat /\ i * d \in Nat
        /\ g * f \in Nat /\ i * b \in Nat
    BY <2>1
  <2>6. a * d >= c * b /\ c * f >= e * d
          => a * f >= e * b /\ (a * d > c * b \/ c * f > e * d => a * f > e * b)
    BY <2>1, Quotients
  <2>7. e * d >= c * f /\ c * b >= a * d => e * b >= a * f
    BY <2>1, Quotients
  <2>8. g * d >= h * b /\ h * f >= i * d
          => g * f >= i * b /\ (g * d > h * b \/ h * f > i * d => g * f > i * b)
    BY <2>1, Quotients
  <2>9. i * d >= h * f /\ h * b >= g * d => i * b >= g * f
    BY <2>1, Quotients
  <2> DEFINE ad == a * d
             cb == c * b
             cf == c * f
             ed == e * d
             af == a * f
             eb == e * b
             gd == g * d
             hb == h * b
             hf == h * f
             id == i * d
             gf == g * f
             ib == i * b
  <2>10. /\ ad > cb \/ (ad = cb /\ gd > hb)
              \/ (ad = cb /\ gd = hb /\ (x.who < y.who \/ (x.who = y.who /\ k < l)))
         /\ cf > ed \/ (cf = ed /\ hf > id)
              \/ (cf = ed /\ hf = id /\ (y.who < z.who \/ (y.who = z.who /\ l < m)))
    BY <2>2, <2>3
  <2>11. /\ ad \in Nat /\ cb \in Nat /\ cf \in Nat /\ ed \in Nat /\ af \in Nat /\ eb \in Nat
         /\ gd \in Nat /\ hb \in Nat /\ hf \in Nat /\ id \in Nat /\ gf \in Nat /\ ib \in Nat
    BY <2>5
  <2>12. /\ ad >= cb /\ cf >= ed => af >= eb /\ (ad > cb \/ cf > ed => af > eb)
         /\ ed >= cf /\ cb >= ad => eb >= af
         /\ gd >= hb /\ hf >= id => gf >= ib /\ (gd > hb \/ hf > id => gf > ib)
         /\ id >= hf /\ hb >= gd => ib >= gf
    BY <2>6, <2>7, <2>8, <2>9
  <2>13. \/ af > eb \/ (af = eb /\ gf > ib)
         \/ (af = eb /\ gf = ib /\ (x.who < z.who \/ (x.who = z.who /\ k < m)))
    <3> HIDE DEF ad, cb, cf, ed, af, eb, gd, hb, hf, id, gf, ib
    <3> QED
      BY <2>1, <2>10, <2>11, <2>12
  <2> QED
    BY <2>4, <2>13
<1>7. IsOrder(S, R)
  BY <1>4, <1>5, <1>6 DEF IsOrder
<1> HIDE DEF S
<1>8. CASE S # {}
  <2>1. PICK x \in S : \A y \in S : y = x \/ <<x, y>> \in R
    BY <1>3, <1>7, <1>8, FirstOf
  <2>2. \A t \in S \ {x} : Better(x, t)
    BY <1>1, <2>1
  <2>3. Primary \in S
    BY <1>2, <1>8, <2>2
  <2> QED
    BY <2>3 DEF S
<1> QED
  BY <1>2, <1>8

-----------------------------------------------------------------------------
(* The crop.                                                               *)

\* A step of the crop: between where it was and its target, within the jump.
LEMMA TowardIs ==
    ASSUME NEW p \in Places, NEW t \in Places, gRequest.jump \in Nat, GWidth \in Nat
    PROVE  /\ Toward(p, t) \in Places
           /\ p <= t => Toward(p, t) \in p .. t
           /\ t <= p => Toward(p, t) \in t .. p
           /\ Toward(p, t) - p \in -gRequest.jump .. gRequest.jump
<1> DEFINE j == gRequest.jump
           w == GWidth
           d == (9 * (t - p)) \div 20
           a == Min({j, d})
           b == Max({-j, a})
           v == p + b
           u == Min({w, v})
<1>0. Toward(p, t) = Max({0, u})
  BY DEF Toward, Clamp
<1>1. p \in 0 .. w /\ t \in 0 .. w /\ j \in Nat /\ w \in Nat /\ -j \in Int
  BY DEF Places
<1>2. d \in Int /\ (p <= t => d \in 0 .. t - p) /\ (t <= p => d \in t - p .. 0)
  BY <1>1
<1> HIDE DEF j, w, d
<1>3. a = IF j <= d THEN j ELSE d
  BY <1>1, <1>2, OfTwo
<1>4. a \in Int
  BY <1>1, <1>2, <1>3
<1> HIDE DEF a
<1>5. b = IF -j <= a THEN a ELSE -j
  BY <1>1, <1>4, OfTwo
<1>6. b \in Int /\ b \in -j .. j /\ (p <= t => b \in 0 .. t - p) /\ (t <= p => b \in t - p .. 0)
  BY <1>1, <1>2, <1>3, <1>4, <1>5
<1> HIDE DEF b
<1>7. v \in 0 .. w /\ v \in Int
  BY <1>1, <1>6
<1>8. u = IF w <= v THEN w ELSE v
  <2> HIDE DEF v
  <2> QED
    BY <1>1, <1>7, OfTwo
<1>9. u = v
  BY <1>1, <1>7, <1>8
<1> HIDE DEF u
<1>10. Max({0, u}) = IF 0 <= u THEN u ELSE 0
  <2>1. u \in Int /\ 0 \in Int
    BY <1>7, <1>9
  <2> QED
    BY <2>1, OfTwo, Zenon
<1>11. Toward(p, t) = p + b
  BY <1>0, <1>7, <1>9, <1>10
<1> QED
  BY <1>1, <1>6, <1>7, <1>11 DEF j, w, Places

\* The path of the crop, from the middle of the first sighting on.
PathHolds(path, obs, lo, hi, most) ==
    /\ Len(path) \in Nat /\ DOMAIN path = 1 .. Len(path) /\ Len(path) = Len(obs)
    /\ \A n \in DOMAIN path : /\ path[n].time = obs[n].time
                              /\ path[n].x \in lo .. hi /\ path[n].x \in Places
                              /\ path[n].y \in Places /\ path[n].y <= most
    /\ \A n \in DOMAIN path : n > 1 =>
          /\ path[n].x - path[n - 1].x \in -gRequest.jump .. gRequest.jump
          /\ path[n].y - path[n - 1].y \in -gRequest.jump .. gRequest.jump

LEMMA SmoothedHolds ==
    ASSUME GWidth \in Nat, gRequest.jump \in Nat, gRequest.floor \in Int,
           NEW obs, ObservationsHold(obs), Len(obs) > 0, NEW lo \in Int, NEW hi \in Int,
           \A n \in DOMAIN obs : obs[n].x \in lo .. hi
    PROVE  PathHolds(Smoothed(obs), obs, lo, hi, Max({GWidth \div 2, gRequest.floor}))
<1> DEFINE N == Len(obs)
           most == Max({GWidth \div 2, gRequest.floor})
           High(y) == Min({y, most})
           First == [time |-> obs[1].time, x |-> obs[1].x, y |-> High(obs[1].y)]
           Then(was, n) == [time |-> obs[n].time, x |-> Toward(was.x, obs[n].x),
                            y |-> Toward(was.y, High(obs[n].y))]
           Walks(g) == g = [n \in 1 .. N |-> IF n = 1 THEN First ELSE Then(g[n - 1], n)]
           A == {c \in [time : Nat, x : Places, y : Places] : c.x \in lo .. hi /\ c.y <= most}
           step == [q \in (1 .. N - 1) \X A |-> Then(q[2], q[1] + 1)]
           path == CHOOSE g : Walks(g)
<1>0. Smoothed(obs) = [n \in 1 .. N |-> path[n]]
  BY DEF Smoothed
<1>1. /\ N \in Nat /\ N > 0 /\ DOMAIN obs = 1 .. N
      /\ \A n \in 1 .. N : obs[n].time \in Nat /\ obs[n].x \in Places /\ obs[n].y \in Places
                           /\ obs[n].x \in lo .. hi
  BY DEF ObservationsHold
<1>2. most \in Nat
  <2> DEFINE h == GWidth \div 2
             f == gRequest.floor
  <2>1. h \in Nat /\ f \in Int
    OBVIOUS
  <2> HIDE DEF h, f
  <2>3. h \in Int
    BY <2>1
  <2>2. Max({h, f}) = IF h <= f THEN f ELSE h
    BY <2>1, <2>3, OfTwo, Zenon
  <2> QED
    BY <2>1, <2>2 DEF h, f
<1> HIDE DEF most, N
<1>3. ASSUME NEW y \in Places PROVE High(y) \in Places /\ High(y) <= most
  <2>1. y \in 0 .. GWidth /\ y \in Int /\ most \in Int
    BY <1>2 DEF Places
  <2>2. Min({y, most}) = IF y <= most THEN y ELSE most
    BY <2>1, OfTwo
  <2> QED
    BY <1>2, <2>1, <2>2 DEF Places
<1> HIDE DEF High
<1>4. First \in A
  <2>1. 1 \in 1 .. N
    BY <1>1
  <2>2. /\ obs[1].time \in Nat /\ obs[1].x \in Places /\ obs[1].x \in lo .. hi
        /\ High(obs[1].y) \in Places /\ High(obs[1].y) <= most
    BY <1>1, <1>3, <2>1
  <2> QED
    BY <2>2
<1>5. ASSUME NEW n \in 1 .. N, NEW c \in A
      PROVE  /\ Then(c, n) \in A
             /\ Then(c, n).x - c.x \in -gRequest.jump .. gRequest.jump
             /\ Then(c, n).y - c.y \in -gRequest.jump .. gRequest.jump
  <2> DEFINE t == obs[n].x
             v == High(obs[n].y)
             r == Toward(c.x, t)
             s == Toward(c.y, v)
  <2>1. /\ c.x \in Places /\ c.y \in Places /\ c.x \in lo .. hi /\ c.y <= most
        /\ t \in Places /\ t \in lo .. hi /\ v \in Places /\ v <= most /\ obs[n].time \in Nat
    BY <1>1, <1>3
  <2> HIDE DEF t, v
  <2>2. /\ r \in Places /\ (c.x <= t => r \in c.x .. t) /\ (t <= c.x => r \in t .. c.x)
        /\ r - c.x \in -gRequest.jump .. gRequest.jump
    BY <2>1, TowardIs
  <2>3. /\ s \in Places /\ (c.y <= v => s \in c.y .. v) /\ (v <= c.y => s \in v .. c.y)
        /\ s - c.y \in -gRequest.jump .. gRequest.jump
    BY <2>1, TowardIs
  <2>4. Then(c, n).time = obs[n].time /\ Then(c, n).x = r /\ Then(c, n).y = s
        /\ Then(c, n) = [time |-> obs[n].time, x |-> r, y |-> s]
    BY DEF t, v
  <2> HIDE DEF r, s
  <2>5. /\ c.x \in Int /\ c.y \in Int /\ t \in Int /\ v \in Int /\ r \in Int /\ s \in Int
    BY <2>1, <2>2, <2>3 DEF Places
  <2>6. r \in lo .. hi /\ s <= most
    <3>1. c.x <= t \/ t <= c.x
      BY <2>5
    <3>2. c.y <= v \/ v <= c.y
      BY <2>5
    <3>3. lo <= c.x /\ c.x <= hi /\ lo <= t /\ t <= hi
      BY <2>1
    <3> DEFINE cx == c.x
               cy == c.y
    <3>4. cx \in Int /\ cy \in Int /\ lo <= cx /\ cx <= hi /\ cy <= most
          /\ (cx <= t => r \in cx .. t) /\ (t <= cx => r \in t .. cx) /\ (cx <= t \/ t <= cx)
          /\ (cy <= v => s \in cy .. v) /\ (v <= cy => s \in v .. cy) /\ (cy <= v \/ v <= cy)
      BY <2>1, <2>2, <2>3, <2>5, <3>1, <3>2, <3>3
    <3> HIDE DEF cx, cy
    <3>5. r \in lo .. hi
      BY <2>5, <3>3, <3>4
    <3>6. s <= most
      BY <1>2, <2>1, <2>5, <3>4
    <3> QED
      BY <3>5, <3>6
  <2> HIDE DEF Then
  <2> QED
    BY <2>1, <2>2, <2>3, <2>4, <2>6
<1> HIDE DEF A, First, Then
<1>6. \A n \in 1 .. N - 1 : \A c \in A : step[<<n, c>>] = Then(c, n + 1)
  OBVIOUS
<1>7. StaysIn(step, N - 1, A)
  <2>1. ASSUME NEW n \in 1 .. N - 1, NEW c \in A PROVE step[<<n, c>>] \in A
    <3>1. n + 1 \in 1 .. N
      BY <1>1
    <3> QED
      BY <1>5, <1>6, <3>1
  <2> QED
    BY <2>1 DEF StaysIn
<1> HIDE DEF step
<1>8. PICK g : Follows(g, N - 1, A, First, step)
  <2> DEFINE m == N - 1
  <2>1. m \in Nat
    BY <1>1
  <2> HIDE DEF m
  <2>2. StaysIn(step, m, A)
    BY <1>7 DEF m
  <2>3. \E g : Follows(g, m, A, First, step)
    BY <1>4, <2>1, <2>2, StepsExist
  <2> QED
    BY <2>3 DEF m
<1>9. /\ g \in [0 .. N - 1 -> A] /\ g[0] = First
      /\ \A n \in 1 .. N - 1 : g[n] = step[<<n, g[n - 1]>>]
  BY <1>8 DEF Follows
<1> DEFINE q == [n \in 1 .. N |-> g[n - 1]]
<1>10. Walks(q)
  <2>1. ASSUME NEW n \in 1 .. N PROVE q[n] = IF n = 1 THEN First ELSE Then(q[n - 1], n)
    <3>1. q[n] = g[n - 1]
      OBVIOUS
    <3>2. CASE n = 1
      BY <1>9, <3>1, <3>2
    <3>3. CASE n # 1
      <4>1. n - 1 \in 1 .. N - 1 /\ n - 1 \in 1 .. N /\ (n - 1) - 1 \in 0 .. N - 1 /\ (n - 1) + 1 = n
        BY <1>1, <3>3
      <4>2. g[n - 1] = step[<<n - 1, g[(n - 1) - 1]>>] /\ g[(n - 1) - 1] \in A
        BY <1>9, <4>1
      <4>3. step[<<n - 1, g[(n - 1) - 1]>>] = Then(g[(n - 1) - 1], n)
        BY <1>6, <4>1, <4>2
      <4>4. q[n - 1] = g[(n - 1) - 1]
        BY <4>1
      <4> QED
        BY <3>1, <3>3, <4>2, <4>3, <4>4
    <3> QED
      BY <3>2, <3>3
  <2>2. q = [n \in 1 .. N |-> q[n]]
    OBVIOUS
  <2> HIDE DEF q
  <2> QED
    BY <2>1, <2>2
<1>11. Walks(path)
  <2> HIDE DEF q
  <2> QED
    BY <1>10
<1> HIDE DEF path, q
<1>12. /\ path[1] = First
       /\ \A n \in 1 .. N : n # 1 => path[n] = Then(path[n - 1], n)
       /\ path = [n \in 1 .. N |-> path[n]]
  <2>1. 1 \in 1 .. N
    BY <1>1
  <2>2. \A n \in 1 .. N : path[n] = IF n = 1 THEN First ELSE Then(path[n - 1], n)
    BY <1>11
  <2>3. DOMAIN path = 1 .. N
    BY <1>11
  <2>4. path = [n \in 1 .. N |-> path[n]]
    <3> DEFINE e(n) == IF n = 1 THEN First ELSE Then(path[n - 1], n)
    <3>1. path = [n \in 1 .. N |-> e(n)]
      BY <1>11
    <3> HIDE DEF e
    <3> QED
      BY <3>1
  <2> QED
    BY <2>1, <2>2, <2>4
<1> DEFINE G == {n \in 0 .. N - 1 : path[n + 1] \in A}
<1>13. 0 \in G
  <2>1. 0 \in 0 .. N - 1 /\ 0 + 1 = 1
    BY <1>1
  <2> QED
    BY <1>4, <1>12, <2>1
<1>14. \A n \in 0 .. (N - 1) - 1 : n \in G => n + 1 \in G
  <2>1. ASSUME NEW n \in 0 .. (N - 1) - 1, path[n + 1] \in A PROVE n + 1 \in 0 .. N - 1 /\ path[(n + 1) + 1] \in A
    <3>1. n + 1 \in 0 .. N - 1 /\ (n + 1) + 1 \in 1 .. N /\ (n + 1) + 1 # 1 /\ ((n + 1) + 1) - 1 = n + 1
      BY <1>1
    <3>2. path[(n + 1) + 1] = Then(path[n + 1], (n + 1) + 1)
      BY <1>12, <3>1
    <3> QED
      BY <1>5, <2>1, <3>1, <3>2
  <2> QED
    BY <2>1
<1> HIDE DEF G
<1>15. \A n \in 0 .. N - 1 : n \in G
  <2> DEFINE m == N - 1
  <2>1. m \in Nat /\ \A n \in 0 .. m - 1 : n \in G => n + 1 \in G
    BY <1>1, <1>14
  <2> HIDE DEF m
  <2>2. \A n \in 0 .. m : n \in G
    BY <1>13, <2>1, UpTo
  <2> QED
    BY <2>2 DEF m
<1>16. ASSUME NEW n \in 1 .. N PROVE path[n] \in A
  <2>1. n - 1 \in 0 .. N - 1 /\ (n - 1) + 1 = n
    BY <1>1
  <2>2. n - 1 \in G
    BY <1>15, <2>1
  <2> QED
    BY <2>1, <2>2 DEF G
<1>17. ASSUME NEW n \in 1 .. N
       PROVE  /\ path[n].time = obs[n].time
              /\ path[n].x \in lo .. hi /\ path[n].x \in Places
              /\ path[n].y \in Places /\ path[n].y <= most
  <2>1. path[n].x \in lo .. hi /\ path[n].x \in Places /\ path[n].y \in Places /\ path[n].y <= most
    <3> DEFINE c == path[n]
    <3>1. c \in A
      BY <1>16
    <3> HIDE DEF c
    <3>2. c.x \in lo .. hi /\ c.x \in Places /\ c.y \in Places /\ c.y <= most
      BY <3>1 DEF A
    <3> QED
      BY <3>2 DEF c
  <2>2. path[n].time = obs[n].time
    <3>1. CASE n = 1
      BY <1>12, <3>1 DEF First
    <3>2. CASE n # 1
      <4>1. path[n] = Then(path[n - 1], n)
        BY <1>12, <3>2
      <4>2. Then(path[n - 1], n).time = obs[n].time
        BY DEF Then
      <4> QED
        BY <4>1, <4>2
    <3> QED
      BY <3>1, <3>2
  <2> QED
    BY <2>1, <2>2
<1>18. ASSUME NEW n \in 1 .. N, n > 1
       PROVE  /\ path[n].x - path[n - 1].x \in -gRequest.jump .. gRequest.jump
              /\ path[n].y - path[n - 1].y \in -gRequest.jump .. gRequest.jump
  <2>1. n - 1 \in 1 .. N /\ n # 1
    BY <1>1, <1>18
  <2>2. path[n - 1] \in A /\ path[n] = Then(path[n - 1], n)
    BY <1>12, <1>16, <2>1
  <2> QED
    BY <1>5, <2>2
<1>19. Smoothed(obs) = path
  BY <1>0, <1>12
<1>20. Len(path) = N /\ DOMAIN path = 1 .. N
  <2>1. path \in [1 .. N -> A]
    BY <1>12, <1>16
  <2> QED
    BY <1>1, <2>1, FunctionIsList
<1>21. PathHolds(path, obs, lo, hi, most)
  BY <1>1, <1>17, <1>18, <1>20 DEF PathHolds, N
<1> QED
  BY <1>19, <1>21 DEF most

\* The owner's crops are crops.
LEMMA OverriddenAre ==
    ASSUME gRequest \in GRequests, NEW n \in DOMAIN Overridden
    PROVE  Overridden[n].x \in Places /\ Overridden[n].y \in Places
<1> DEFINE crops == gRequest.overrides
           V == [time : Nat, x : Places, y : Places]
           f == [i \in DOMAIN crops |-> <<crops[i].time, i>>]
           T == {<<crops[i].time, i>> : i \in DOMAIN crops}
           o == InOrder(T, Earlier)
<1>1. crops \in Seq(V)
  BY RequestsAre
<1>2. Overridden = [k \in DOMAIN o |-> crops[o[k][2]]]
  BY DEF Overridden
<1> HIDE DEF crops
<1>3. /\ Len(crops) \in Nat /\ DOMAIN crops = 1 .. Len(crops)
      /\ \A i \in DOMAIN crops : crops[i] \in V
  <2> HIDE DEF V
  <2> QED
    BY <1>1, LenProperties
<1>4. T \subseteq Int \X Int /\ IsFiniteSet(T)
  <2>1. \A i \in DOMAIN crops : crops[i].time \in Int /\ i \in Int
    BY <1>3
  <2>2. IsFiniteSet(DOMAIN crops)
    BY <1>3, FS_Interval
  <2>3. T = {f[i] : i \in DOMAIN crops}
    OBVIOUS
  <2>4. IsFiniteSet({f[i] : i \in DOMAIN crops})
    <3> HIDE DEF f
    <3> QED
      BY <2>2, FiniteImage
  <2> QED
    BY <2>1, <2>3, <2>4
<1>5. \A q \in T : q[2] \in DOMAIN crops
  OBVIOUS
<1> HIDE DEF T
<1>6. o \in Seq(T) /\ \A k \in 1 .. Len(o) : o[k] \in T
  BY <1>4, PairsInOrder
<1> HIDE DEF o
<1>7. DOMAIN o = 1 .. Len(o)
  BY <1>6, LenProperties
<1>8. n \in DOMAIN o /\ Overridden[n] = crops[o[n][2]]
  BY <1>2
<1>9. crops[o[n][2]] \in V
  BY <1>3, <1>5, <1>6, <1>7, <1>8
<1> QED
  BY <1>8, <1>9

\* What follows a subject.
LEMMA FollowsSubject ==
    ASSUME GInv, gPc = "planned", gStrategy = "subject_track"
    PROVE  LET seen == Observations(gTrack)
               xs == {seen[n].x : n \in DOMAIN seen}
           IN  /\ ObservationsHold(seen)
               /\ PathHolds(gKeyframes, seen, Min(xs), Max(xs), Max({GWidth \div 2, gRequest.floor}))
<1> DEFINE seen == Observations(gTrack)
           xs == {seen[n].x : n \in DOMAIN seen}
           f == [n \in DOMAIN seen |-> seen[n].x]
<1>1. gRequest \in GRequests /\ gTrack \in Subjects /\ Tracks(gTrack)
  BY DEF GInv
<1>2. gTrack \in Subjects
  BY <1>1
<1>3. ObservationsHold(seen) /\ Len(seen) > 0
  BY <1>2, ObservationsAre
<1>4. GWidth \in Nat /\ gRequest.jump \in Nat /\ gRequest.floor \in Int
  BY <1>1, RequestsAre, ReframingConstants
<1>5. gKeyframes = Smoothed(seen)
  BY <1>1 DEF Tracks
<1> HIDE DEF seen
<1>6. /\ Len(seen) \in Nat /\ DOMAIN seen = 1 .. Len(seen)
      /\ \A n \in DOMAIN seen : seen[n].x \in Int
  BY <1>3, <1>4 DEF ObservationsHold, Places
<1>7. IsFiniteSet(xs)
  <2>1. IsFiniteSet(DOMAIN seen)
    BY <1>6, FS_Interval
  <2>2. xs = {f[n] : n \in DOMAIN seen}
    OBVIOUS
  <2>3. IsFiniteSet({f[n] : n \in DOMAIN seen})
    <3> HIDE DEF f
    <3> QED
      BY <2>1, FiniteImage
  <2> QED
    BY <2>2, <2>3
<1>8. xs \subseteq Int /\ xs # {} /\ \A n \in DOMAIN seen : seen[n].x \in xs
  <2>1. 1 \in DOMAIN seen
    BY <1>3, <1>6
  <2> QED
    BY <1>6, <2>1
<1> DEFINE lo == Min(xs)
           hi == Max(xs)
<1> HIDE DEF xs
<1>9. lo \in xs /\ hi \in xs /\ \A y \in xs : lo <= y /\ y <= hi
  BY <1>7, <1>8, ExtremesAre
<1> HIDE DEF lo, hi
<1>10. lo \in Int /\ hi \in Int /\ \A n \in DOMAIN seen : seen[n].x \in lo .. hi
  BY <1>6, <1>8, <1>9
<1>11. PathHolds(Smoothed(seen), seen, lo, hi, Max({GWidth \div 2, gRequest.floor}))
  BY <1>3, <1>4, <1>10, SmoothedHolds
<1> QED
  BY <1>3, <1>5, <1>11 DEF lo, hi, xs, seen

LEMMA ReframingHolds ==
    ASSUME GInv
    PROVE  GTypeOK /\ FramesTellTheirScene /\ CropFollows /\ CostWasReserved
<1>0. GWidth \in Nat /\ gRequest \in GRequests
  BY ReframingConstants DEF GInv
<1>1. GTypeOK
  <2>1. gTrack = NoSubject \/ gTrack \in Subjects
    BY DEF GInv
  <2>2. ASSUME NEW n \in DOMAIN gKeyframes
        PROVE  gKeyframes[n].x \in Places /\ gKeyframes[n].y \in Places
    <3>1. gPc = "planned"
      BY DEF GInv
    <3>2. CASE gStrategy = "subject_track"
      <4>1. \E seen, lo, hi, most : PathHolds(gKeyframes, seen, lo, hi, most)
        BY <3>1, <3>2, FollowsSubject
      <4> QED
        BY <4>1 DEF PathHolds
    <3>3. CASE gKeyframes = Overridden
      BY <1>0, <3>3, OverriddenAre
    <3>4. CASE gKeyframes = Centered
      BY <1>0, <3>4 DEF Centered, Places
    <3> QED
      BY <3>1, <3>2, <3>3, <3>4 DEF GInv
  <2> QED
    BY <2>1, <2>2 DEF GTypeOK, GInv, Places
<1>2. FramesTellTheirScene
  <2>1. ASSUME gPc \in {"sent", "answered", "planned"}
        PROVE  /\ \A i \in DOMAIN gTimes : gTimes[i] \in 0 .. gRequest.length - 1
               /\ \A i \in 2 .. Len(gTimes) : gTimes[i - 1] < gTimes[i]
               /\ gRequest.frames > 1 => {Min(Candidates(gRequest)), Max(Candidates(gRequest))}
                                             \subseteq {gTimes[i] : i \in DOMAIN gTimes}
    <3>1. SamplesHold(gTimes, gRequest) /\ Len(gTimes) = gRequest.frames
      BY <2>1, TimesHold
    <3>2. Len(gTimes) \in Nat /\ DOMAIN gTimes = 1 .. Len(gTimes)
      BY <3>1 DEF SamplesHold
    <3>3. ASSUME NEW i \in 2 .. Len(gTimes) PROVE gTimes[i - 1] < gTimes[i]
      <4>1. i - 1 \in DOMAIN gTimes /\ i \in DOMAIN gTimes /\ i - 1 < i
        BY <3>2
      <4> QED
        BY <3>1, <4>1 DEF SamplesHold
    <3> QED
      BY <3>1, <3>3 DEF SamplesHold
  <2> QED
    BY <2>1, ScenesTell DEF FramesTellTheirScene
<1>3. CropFollows
  <2>1. SUFFICES ASSUME gStrategy = "subject_track" PROVE CropFollows
    BY DEF CropFollows
  <2> DEFINE seen == Observations(gTrack)
             xs == {seen[n].x : n \in DOMAIN seen}
             lo == Min(xs)
             hi == Max(xs)
             most == Max({GWidth \div 2, gRequest.floor})
             k == gKeyframes
  <2>2. gPc = "planned"
    BY <2>1 DEF GInv
  <2>3. ObservationsHold(seen) /\ PathHolds(k, seen, lo, hi, most)
    BY <2>1, <2>2, FollowsSubject
  <2>4. CropFollows <=>
            \A n \in DOMAIN k :
              /\ k[n].x \in lo .. hi
              /\ k[n].y <= most
              /\ n > 1 => /\ k[n - 1].time <= k[n].time
                          /\ k[n].x - k[n - 1].x \in -gRequest.jump .. gRequest.jump
                          /\ k[n].y - k[n - 1].y \in -gRequest.jump .. gRequest.jump
    BY <2>1 DEF CropFollows
  <2> HIDE DEF seen, xs, lo, hi, most, k
  <2>5. /\ Len(k) \in Nat /\ DOMAIN k = 1 .. Len(k) /\ Len(k) = Len(seen) /\ DOMAIN seen = 1 .. Len(seen)
        /\ \A n \in DOMAIN k : k[n].time = seen[n].time
        /\ \A m, n \in DOMAIN seen : m < n => seen[m].time <= seen[n].time
    BY <2>3 DEF PathHolds, ObservationsHold
  <2>6. ASSUME NEW n \in DOMAIN k, n > 1 PROVE k[n - 1].time <= k[n].time
    <3>1. n - 1 \in DOMAIN k /\ n - 1 \in DOMAIN seen /\ n \in DOMAIN seen /\ n - 1 < n
      BY <2>5, <2>6
    <3> QED
      BY <2>5, <3>1
  <2> QED
    BY <2>3, <2>4, <2>6 DEF PathHolds
<1>4. CostWasReserved
  BY DEF GInv, CostWasReserved
<1> QED
  BY <1>1, <1>2, <1>3, <1>4

-----------------------------------------------------------------------------
(* Its steps.                                                              *)

\* What an accepted answer costs.
LEMMA CostsReserved ==
    ASSUME NEW u \in GUsages, UsageAccepted(u)
    PROVE  ActualCost(u) \in Nat /\ ActualCost(u) <= EstimatedCost
<1>1. u.input \in Nat /\ u.cached \in Nat /\ u.output \in Nat
  BY ReframingConstants
<1>2. u.input <= 16384 /\ u.output <= 4096
  BY DEF UsageAccepted, InputCeiling, OutputCeiling
<1> DEFINE a == u.input
           b == u.cached
           c == u.output
           m == Min({b, a})
<1>3. a \in Nat /\ b \in Nat /\ c \in Nat /\ a \in Int /\ b \in Int /\ a <= 16384 /\ c <= 4096
  BY <1>1, <1>2
<1>4. ActualCost(u) = 2 * 6565 * (a - m) + 1313 * m + 2 * 52520 * c
  BY DEF ActualCost
<1> HIDE DEF a, b, c
<1>5. Min({b, a}) = IF b <= a THEN b ELSE a
  <2>1. a \in Int /\ b \in Int
    BY <1>3
  <2> QED
    BY <2>1, OfTwo
<1>6. m \in 0 .. a
  BY <1>3, <1>5
<1> HIDE DEF m
<1> QED
  BY <1>3, <1>4, <1>6 DEF EstimatedCost

\* What a plan is computed from stays with the answer.
LEMMA GSame ==
    ASSUME UNCHANGED <<gRequest, gTimes, gSeen>>
    PROVE  /\ VisionScenes(gTimes)' = VisionScenes(gTimes)
           /\ Subjects' = Subjects
           /\ \A s : Smoothed(Observations(s))' = Smoothed(Observations(s))
           /\ Overridden' = Overridden /\ Centered' = Centered
<1>1. VisionScenes(gTimes)' = VisionScenes(gTimes)
  BY DEF VisionScenes
<1>2. \A s : Shows(s)' = Shows(s)
  BY DEF Shows, Sighting, Followed
<1>3. \A s : Observations(s)' = Observations(s)
  BY <1>2 DEF Observations, Sighting
<1>4. Subjects' = Subjects
  BY DEF Subjects, Followed
<1>5. \A s : Smoothed(Observations(s))' = Smoothed(Observations(s))
  <2>1. \A obs : Smoothed(obs)' = Smoothed(obs)
    BY DEF Smoothed, Toward, Clamp
  <2> QED
    BY <1>3, <2>1
<1>6. Overridden' = Overridden /\ Centered' = Centered
  BY DEF Overridden, Centered
<1> QED
  BY <1>1, <1>4, <1>5, <1>6

LEMMA SampleKeeps == ASSUME GInv, Sample PROVE GInv'
<1>1. /\ gPc = "asked" /\ gTimes' = SampleTimes(gRequest)
      /\ gPc' = IF Len(gTimes') = gRequest.frames THEN "sent" ELSE "failed"
      /\ UNCHANGED <<gRequest, gSeen, gScenes, gTrack, gKeyframes, gStrategy, gCharged>>
  BY DEF Sample
<1>2. SampleTimes(gRequest)' = SampleTimes(gRequest)
  BY <1>1
<1>3. gRequest' \in GRequests /\ gCharged' \in Nat /\ gCharged' <= EstimatedCost
  BY <1>1 DEF GInv
<1>4. gPc' \in {"sent", "failed"} /\ (gPc' = "sent" => gTimes' = SampleTimes(gRequest)' /\ Len(gTimes') = gRequest'.frames)
  BY <1>1, <1>2
<1>5. gStrategy' = "none" /\ gTrack' = NoSubject /\ gKeyframes' = <<>>
  BY <1>1 DEF GInv
<1> QED
  BY <1>3, <1>4, <1>5 DEF GInv

LEMMA AnswerKeeps == ASSUME GInv, Answer PROVE GInv'
<1>1. /\ gPc = "sent"
      /\ UNCHANGED <<gRequest, gTimes, gScenes, gTrack, gKeyframes, gStrategy>>
      /\ \/ gPc' = "failed" /\ gCharged' = gCharged
         \/ /\ gPc' = "answered" /\ gSeen' \in [DOMAIN gTimes -> GSightings]
            /\ \E u \in GUsages : UsageAccepted(u) /\ gCharged' = ActualCost(u)
  <2>1. /\ gPc = "sent" /\ UNCHANGED <<gRequest, gTimes, gScenes, gTrack, gKeyframes, gStrategy>>
    BY DEF Answer
  <2>2. PICK indexes \in SUBSET (1 .. gRequest.frames), repeated \in BOOLEAN, u \in GUsages :
           \E seen \in [indexes -> GSightings] :
              IF indexes = DOMAIN gTimes /\ ~repeated /\ UsageAccepted(u)
              THEN /\ gSeen' = [i \in DOMAIN gTimes |-> seen[i]]
                   /\ gCharged' = ActualCost(u)
                   /\ gPc' = "answered"
              ELSE /\ gPc' = "failed"
                   /\ UNCHANGED <<gSeen, gCharged>>
    BY Zenon DEF Answer
  <2>3. PICK seen \in [indexes -> GSightings] :
              IF indexes = DOMAIN gTimes /\ ~repeated /\ UsageAccepted(u)
              THEN /\ gSeen' = [i \in DOMAIN gTimes |-> seen[i]]
                   /\ gCharged' = ActualCost(u)
                   /\ gPc' = "answered"
              ELSE /\ gPc' = "failed"
                   /\ UNCHANGED <<gSeen, gCharged>>
    BY <2>2
  <2>4. CASE indexes = DOMAIN gTimes /\ ~repeated /\ UsageAccepted(u)
    <3>1. /\ gSeen' = [i \in DOMAIN gTimes |-> seen[i]] /\ gCharged' = ActualCost(u) /\ gPc' = "answered"
      BY <2>3, <2>4
    <3>2. \A i \in DOMAIN gTimes : seen[i] \in GSightings
      BY <2>4
    <3> QED
      BY <2>1, <2>4, <3>1, <3>2
  <2>5. CASE ~(indexes = DOMAIN gTimes /\ ~repeated /\ UsageAccepted(u))
    BY <2>1, <2>3, <2>5
  <2> QED
    BY <2>4, <2>5
<1>2. gCharged' \in Nat /\ gCharged' <= EstimatedCost
  BY <1>1, CostsReserved DEF GInv
<1>3. gRequest' \in GRequests /\ gPc' \in {"answered", "failed"}
  BY <1>1 DEF GInv
<1>4. (gTimes = SampleTimes(gRequest) /\ Len(gTimes) = gRequest.frames)'
  <2>1. SampleTimes(gRequest)' = SampleTimes(gRequest)
    BY <1>1
  <2> QED
    BY <1>1, <2>1 DEF GInv
<1>5. gStrategy' = "none" /\ gTrack' = NoSubject /\ gKeyframes' = <<>>
  BY <1>1 DEF GInv
<1>6. gPc' = "answered" => gSeen' \in [DOMAIN gTimes' -> GSightings]
  BY <1>1
<1> QED
  BY <1>2, <1>3, <1>4, <1>5, <1>6 DEF GInv

LEMMA PlanKeeps == ASSUME GInv, Plan PROVE GInv'
<1>1. /\ gPc = "answered" /\ gPc' = "planned" /\ UNCHANGED <<gRequest, gTimes, gSeen, gCharged>>
      /\ gScenes' = VisionScenes(gTimes) /\ gTrack' = Primary
      /\ IF gRequest.overrides # <<>>
         THEN gStrategy' = "manual_override" /\ gKeyframes' = Overridden
         ELSE IF Primary # NoSubject
         THEN gStrategy' = "subject_track" /\ gKeyframes' = Smoothed(Observations(Primary))
         ELSE gStrategy' = "center_crop" /\ gKeyframes' = Centered
  BY DEF Plan
<1>2. /\ VisionScenes(gTimes)' = VisionScenes(gTimes) /\ Subjects' = Subjects
      /\ \A s : Smoothed(Observations(s))' = Smoothed(Observations(s))
      /\ Overridden' = Overridden /\ Centered' = Centered
  BY <1>1, GSame
<1>3. /\ gRequest' \in GRequests /\ gCharged' \in Nat /\ gCharged' <= EstimatedCost
      /\ gSeen' \in [DOMAIN gTimes' -> GSightings]
  BY <1>1 DEF GInv
<1>4. (gTimes = SampleTimes(gRequest) /\ Len(gTimes) = gRequest.frames)'
  <2>1. SampleTimes(gRequest)' = SampleTimes(gRequest)
    BY <1>1
  <2> QED
    BY <1>1, <2>1 DEF GInv
<1>5. gTrack' = NoSubject \/ gTrack' \in Subjects'
  BY <1>1, <1>2, PrimaryIs
<1>6. gRequest.overrides = <<>> /\ gTrack' # NoSubject => Tracks(gTrack)'
  BY <1>1, <1>2 DEF Tracks
<1>7. /\ gScenes' = VisionScenes(gTimes)'
      /\ IF gRequest'.overrides # <<>>
         THEN gStrategy' = "manual_override" /\ gKeyframes' = Overridden'
         ELSE IF gTrack' # NoSubject
         THEN gStrategy' = "subject_track" /\ Tracks(gTrack)'
         ELSE gStrategy' = "center_crop" /\ gKeyframes' = Centered'
  BY <1>1, <1>2, <1>6
<1> QED
  BY <1>1, <1>3, <1>4, <1>5, <1>7 DEF GInv

LEMMA ReframingKeeps == ASSUME GInv, [GNext]_gVars PROVE GInv'
<1>1. CASE Sample
  BY <1>1, SampleKeeps
<1>2. CASE Answer
  BY <1>2, AnswerKeeps
<1>3. CASE Plan
  BY <1>3, PlanKeeps
<1>4. CASE UNCHANGED gVars
  <2>1. UNCHANGED <<gRequest, gTimes, gSeen, gScenes, gTrack, gKeyframes, gStrategy, gCharged, gPc>>
    BY <1>4 DEF gVars
  <2>2. /\ VisionScenes(gTimes)' = VisionScenes(gTimes) /\ Subjects' = Subjects
        /\ \A s : Smoothed(Observations(s))' = Smoothed(Observations(s))
        /\ Overridden' = Overridden /\ Centered' = Centered
    BY <2>1, GSame
  <2>4. Tracks(gTrack)' <=> Tracks(gTrack)
    BY <2>1, <2>2 DEF Tracks
  <2>3. SampleTimes(gRequest)' = SampleTimes(gRequest)
    BY <2>1
  <2> QED
    BY <2>1, <2>2, <2>3, <2>4 DEF GInv
<1> QED
  BY <1>1, <1>2, <1>3, <1>4 DEF GNext

LEMMA ReframingStarts == ASSUME GInit PROVE GInv
BY DEF GInit, GInv, EstimatedCost

-----------------------------------------------------------------------------
(* Transcripts: runs of points and the parts they get.                     *)

HWord == [id : Nat, start : Int, end : Int]

\* A point that stands where word i does.
Joined(words, i, j) == IsPoint(words[j]) /\ words[j].start = words[i].start

\* a .. b is the run of word i.
IsRun(words, i, a, b) ==
    /\ a \in 1 .. i /\ b \in i .. Len(words)
    /\ \A j \in a .. b - 1 : j = i \/ Joined(words, i, j)
    /\ i < b => IsPoint(words[i])
    /\ a = RunStart(words, i) /\ b = RunEnd(words, i)

LEMMA RunIs ==
    ASSUME NEW words \in Seq(HWord), NEW i \in 1 .. Len(words)
    PROVE  IsRun(words, i, RunStart(words, i), RunEnd(words, i))
<1> DEFINE Before == {a \in 1 .. i : \A j \in a .. i - 1 : Joined(words, i, j)}
           After == {j \in i .. Len(words) : j = Len(words) \/ ~Joined(words, i, j)}
           a == RunStart(words, i)
           b == RunEnd(words, i)
<1>1. Len(words) \in Nat /\ i \in Nat /\ i >= 1 /\ i <= Len(words)
  BY LenProperties
<1>2. a = Min(Before)
  BY DEF RunStart, Joined
<1>3. b = Min(After)
  <2>1. After = {j \in i .. Len(words) :
                   j = Len(words) \/ ~IsPoint(words[j]) \/ words[j].start # words[i].start}
    BY DEF Joined
  <2> HIDE DEF After
  <2> QED
    BY <2>1 DEF RunEnd
<1>4. Before \subseteq Int /\ IsFiniteSet(Before) /\ i \in Before
  <2>1. IsFiniteSet(1 .. i) /\ Before \subseteq 1 .. i
    BY <1>1, FS_Interval
  <2> QED
    BY <1>1, <2>1, FS_Subset
<1>5. After \subseteq Int /\ IsFiniteSet(After) /\ Len(words) \in After
  <2>1. IsFiniteSet(i .. Len(words)) /\ After \subseteq i .. Len(words)
    BY <1>1, FS_Interval
  <2> QED
    BY <1>1, <2>1, FS_Subset
<1>6. \A x \in Before : x \in 1 .. i /\ \A j \in x .. i - 1 : Joined(words, i, j)
  OBVIOUS
<1>7. \A x \in i .. Len(words) : x \in After <=> (x = Len(words) \/ ~Joined(words, i, x))
  OBVIOUS
<1>8. \A x \in After : x \in i .. Len(words)
  OBVIOUS
<1> HIDE DEF Before, After, a, b
<1>9. a \in Before
  BY <1>2, <1>4, ExtremesAre
<1>10. b \in After /\ \A x \in After : b <= x
  BY <1>3, <1>5, ExtremesAre
<1>11. a \in 1 .. i /\ b \in i .. Len(words)
  BY <1>6, <1>8, <1>9, <1>10
<1>12. ASSUME NEW j \in i .. b - 1 PROVE Joined(words, i, j)
  <2>1. j \in i .. Len(words) /\ ~(b <= j)
    BY <1>1, <1>11
  <2> QED
    BY <1>7, <1>10, <2>1
<1>13. ASSUME NEW j \in a .. b - 1 PROVE j = i \/ Joined(words, i, j)
  <2>1. j \in a .. i - 1 \/ j \in i .. b - 1
    BY <1>1, <1>11
  <2> QED
    BY <1>6, <1>9, <1>12, <2>1
<1>14. i < b => IsPoint(words[i])
  <2>1. i < b => i \in i .. b - 1
    BY <1>1, <1>11
  <2> QED
    BY <1>12, <2>1 DEF Joined
<1> QED
  BY <1>11, <1>13, <1>14 DEF IsRun, a, b

\* The words of a run that ends in an interval have the same run.
LEMMA RunIsShared ==
    ASSUME NEW words \in Seq(HWord), NEW i \in 1 .. Len(words), Anchored(words, i),
           NEW j \in RunStart(words, i) .. RunEnd(words, i)
    PROVE  /\ RunStart(words, j) = RunStart(words, i) /\ RunEnd(words, j) = RunEnd(words, i)
           /\ words[j].start = words[i].start
<1> DEFINE a == RunStart(words, i)
           b == RunEnd(words, i)
<1>1. /\ IsRun(words, i, a, b) /\ Len(words) \in Nat
      /\ ~IsPoint(words[b]) /\ words[b].start = words[i].start
  BY RunIs, LenProperties DEF Anchored
<1> HIDE DEF a, b
<1>2. /\ a \in Nat /\ b \in Nat /\ i \in Nat /\ a >= 1 /\ a <= i /\ i <= b /\ b <= Len(words)
      /\ j \in a .. b /\ j \in 1 .. Len(words)
  BY <1>1 DEF IsRun, a, b
<1>3. ASSUME NEW x \in a .. b - 1 PROVE IsPoint(words[x]) /\ words[x].start = words[i].start
  <2>1. x = i \/ Joined(words, i, x)
    BY <1>1 DEF IsRun
  <2>2. x = i => i < b
    BY <1>2
  <2> QED
    BY <1>1, <2>1, <2>2 DEF IsRun, Joined
<1>4. words[j].start = words[i].start
  <2>1. j = b \/ j \in a .. b - 1
    BY <1>2
  <2> QED
    BY <1>1, <1>3, <2>1
<1> DEFINE c == RunStart(words, j)
           d == RunEnd(words, j)
<1>5. IsRun(words, j, c, d)
  BY <1>2, RunIs
<1>6. c \in 1 .. j /\ d \in j .. Len(words) /\ c \in Nat /\ d \in Nat /\ j \in Nat
  BY <1>2, <1>5 DEF IsRun
<1>7. ASSUME NEW x \in c .. j - 1 PROVE Joined(words, i, x)
  <2>1. x \in c .. d - 1 /\ x # j
    BY <1>6
  <2> QED
    BY <1>4, <1>5, <2>1 DEF IsRun, Joined
<1>8. c <= a
  <2> DEFINE Before == {x \in 1 .. j : \A y \in x .. j - 1 : Joined(words, j, y)}
  <2>1. c = Min(Before)
    BY DEF RunStart, Joined
  <2>2. a \in Before
    <3>1. a \in 1 .. j
      BY <1>2
    <3>2. ASSUME NEW y \in a .. j - 1 PROVE Joined(words, j, y)
      <4>1. y \in a .. b - 1
        BY <1>2
      <4> QED
        BY <1>3, <1>4, <4>1 DEF Joined
    <3> QED
      BY <3>1, <3>2
  <2>3. Before \subseteq Int /\ IsFiniteSet(Before)
    <3>1. IsFiniteSet(1 .. j) /\ Before \subseteq 1 .. j
      BY <1>6, FS_Interval
    <3> QED
      BY <1>6, <3>1, FS_Subset
  <2> HIDE DEF Before, c
  <2> QED
    BY <2>1, <2>2, <2>3, ExtremesAre
<1>9. a <= c
  <2> DEFINE Before == {x \in 1 .. i : \A y \in x .. i - 1 : Joined(words, i, y)}
  <2>1. a = Min(Before)
    BY DEF RunStart, Joined, a
  <2>2. CASE ~(c <= i)
    BY <1>2, <1>6, <2>2
  <2>3. CASE c <= i
    <3>1. c \in Before
      <4>1. c \in 1 .. i
        BY <1>2, <1>6, <2>3
      <4>2. ASSUME NEW y \in c .. i - 1 PROVE Joined(words, i, y)
        <5>1. CASE y \in c .. j - 1
          BY <1>7, <5>1
        <5>2. CASE ~(y \in c .. j - 1)
          <6>1. y \in a .. b - 1 /\ y # i
            BY <1>2, <1>6, <5>2
          <6> QED
            BY <1>3, <6>1 DEF Joined
        <5> QED
          BY <5>1, <5>2
      <4> QED
        BY <4>1, <4>2
    <3>2. Before \subseteq Int /\ IsFiniteSet(Before)
      <4>1. IsFiniteSet(1 .. i) /\ Before \subseteq 1 .. i
        BY <1>2, FS_Interval
      <4> QED
        BY <1>2, <4>1, FS_Subset
    <3> HIDE DEF Before, c
    <3> QED
      BY <2>1, <3>1, <3>2, ExtremesAre
  <2> QED
    BY <2>2, <2>3
<1>10. d = b
  <2>1. ~(d < b)
    <3>1. SUFFICES ASSUME d < b PROVE FALSE
      OBVIOUS
    <3> DEFINE After == {x \in j .. Len(words) : x = Len(words) \/ ~Joined(words, j, x)}
    <3>2. d = Min(After)
      <4>1. After = {x \in j .. Len(words) :
                       x = Len(words) \/ ~IsPoint(words[x]) \/ words[x].start # words[j].start}
        BY DEF Joined
      <4> HIDE DEF After
      <4> QED
        BY <4>1 DEF RunEnd
    <3>3. After \subseteq Int /\ IsFiniteSet(After) /\ Len(words) \in After
      <4>1. IsFiniteSet(j .. Len(words)) /\ After \subseteq j .. Len(words)
        BY <1>1, <1>6, FS_Interval
      <4>2. Len(words) \in j .. Len(words)
        BY <1>1, <1>6
      <4> QED
        BY <1>1, <1>6, <4>1, <4>2, FS_Subset
    <3>4. \A x \in After : x = Len(words) \/ ~Joined(words, j, x)
      OBVIOUS
    <3> HIDE DEF After, d
    <3>5. d \in After
      BY <3>2, <3>3, ExtremesAre
    <3>6. d \in a .. b - 1 /\ d # Len(words)
      BY <1>1, <1>2, <1>6, <3>1
    <3> QED
      BY <1>3, <1>4, <3>4, <3>5, <3>6 DEF Joined
  <2>2. ~(b < d)
    <3>1. SUFFICES ASSUME b < d PROVE FALSE
      OBVIOUS
    <3>2. b \in c .. d - 1 /\ j < d
      BY <1>2, <1>6, <3>1
    <3>3. b = j \/ Joined(words, j, b)
      BY <1>5, <3>2 DEF IsRun
    <3> QED
      BY <1>1, <1>5, <3>2, <3>3 DEF IsRun, Joined
  <2> QED
    BY <1>2, <1>6, <2>1, <2>2
<1> QED
  BY <1>2, <1>4, <1>6, <1>8, <1>9, <1>10 DEF a, b, c, d

\* The bounds that split an interval stay within it, from end to end.
LEMMA PartBounds ==
    ASSUME NEW d \in Nat, NEW m \in Nat, m >= 1, NEW k \in 0 .. m
    PROVE  /\ (d * k) \div m \in 0 .. d
           /\ (d * 0) \div m = 0 /\ (d * m) \div m = d
<1>1. d * k \in Nat /\ d * m \in Nat /\ d * 0 = 0
  OBVIOUS
<1>2. d * k <= d * m
  <2>1. PICK e \in Nat : m = k + e
    <3>1. m - k \in Nat /\ m = k + (m - k)
      OBVIOUS
    <3> QED
      BY <3>1
  <2>2. d * m = d * k + d * e /\ d * e \in Nat
    BY <2>1
  <2> QED
    BY <1>1, <2>2
<1>3. 0 \div m = 0
  OBVIOUS
<1>4. (d * m) \div m = d
  OBVIOUS
<1> DEFINE q == (d * k) \div m
           x == d * k
           y == d * m
<1>5. q \in Int /\ m * q <= x /\ x < m * q + m
  OBVIOUS
<1>6. q >= 0
  <2>1. SUFFICES ASSUME q <= 0 - 1 PROVE FALSE
    <3> HIDE DEF q
    <3> QED
      BY <1>5
  <2> HIDE DEF q, x
  <2>2. PICK e \in Nat : q = 0 - 1 - e
    <3>1. 0 - 1 - q \in Nat /\ q = 0 - 1 - (0 - 1 - q)
      BY <1>5, <2>1
    <3> QED
      BY <3>1
  <2>3. m * q = 0 - m - m * e /\ m * e \in Nat
    BY <2>2
  <2>4. x \in Nat
    BY <1>1 DEF x
  <2> QED
    BY <1>5, <2>3, <2>4
<1>7. q <= d
  <2>1. SUFFICES ASSUME q >= d + 1 PROVE FALSE
    <3> HIDE DEF q
    <3> QED
      BY <1>5
  <2> HIDE DEF q, x, y
  <2>2. PICK e \in Nat : q = d + 1 + e
    <3>1. q - (d + 1) \in Nat /\ q = d + 1 + (q - (d + 1))
      BY <1>5, <2>1
    <3> QED
      BY <3>1
  <2>3. m * q = m * d + m + m * e /\ m * e \in Nat
    BY <2>2
  <2>4. m * d = y /\ x <= y /\ x \in Nat /\ y \in Nat
    BY <1>1, <1>2 DEF x, y
  <2> QED
    BY <1>5, <2>3, <2>4
<1>8. q \in 0 .. d
  <2> HIDE DEF q
  <2> QED
    BY <1>5, <1>6, <1>7
<1> QED
  BY <1>1, <1>3, <1>4, <1>8

\* The k-th bound of m parts of an interval.
PartAt(start, end, m, k) == start + ((end - start) * k) \div m

Proper(words) == words \in Seq(HWord) /\ \A i \in DOMAIN words : words[i].start <= words[i].end

\* D has the parts that the run a .. b of word i divides its interval into.
IsParted(words, D, i, a, b) ==
    /\ a \in 1 .. i /\ b \in i .. Len(words)
    /\ words[b].start = words[i].start /\ words[b].start < words[b].end
    /\ \A j \in a .. b :
          /\ D[j].start = PartAt(words[b].start, words[b].end, b - a + 1, j - a)
          /\ D[j].end = PartAt(words[b].start, words[b].end, b - a + 1, j - a + 1)

LEMMA DerivedIds ==
    ASSUME NEW words \in Seq(HWord)
    PROVE  /\ Derived(words) \in Seq(HWord) /\ Len(Derived(words)) = Len(words)
           /\ DOMAIN Derived(words) = 1 .. Len(words)
           /\ \A i \in 1 .. Len(words) :
                /\ Derived(words)[i].id = words[i].id
                /\ Derived(words)[i] =
                     [id |-> words[i].id,
                      start |-> PartBound(words, i, i - RunStart(words, i)),
                      end |-> PartBound(words, i, i - RunStart(words, i) + 1)]
<1> DEFINE D == Derived(words)
           e(i) == [id |-> words[i].id,
                    start |-> PartBound(words, i, i - RunStart(words, i)),
                    end |-> PartBound(words, i, i - RunStart(words, i) + 1)]
<1>1. Len(words) \in Nat /\ DOMAIN words = 1 .. Len(words)
  BY LenProperties
<1>2. ASSUME NEW i \in 1 .. Len(words) PROVE D[i] = e(i) /\ e(i) \in HWord
  <2>1. words[i] \in HWord
    BY <1>1
  <2> DEFINE p == PartBound(words, i, i - RunStart(words, i))
             q == PartBound(words, i, i - RunStart(words, i) + 1)
  <2>2. D[i] = [words[i] EXCEPT !.start = p, !.end = q]
    BY <1>1 DEF Derived
  <2>3. p \in Int /\ q \in Int
    <3>1. IsRun(words, i, RunStart(words, i), RunEnd(words, i))
      BY RunIs
    <3> DEFINE a == RunStart(words, i)
               b == RunEnd(words, i)
               m == b - a + 1
    <3>2. a \in 1 .. i /\ b \in i .. Len(words) /\ i \in Nat
      BY <3>1 DEF IsRun
    <3>4. /\ p = words[i].start + ((words[b].end - words[i].start) * (i - a)) \div m
          /\ q = words[i].start + ((words[b].end - words[i].start) * (i - a + 1)) \div m
      BY DEF PartBound
    <3> HIDE DEF a, b
    <3>3. words[b] \in HWord /\ words[b].end \in Int /\ words[i].start \in Int
      <4>1. b \in 1 .. Len(words)
        BY <1>1, <3>2
      <4>2. words[b] \in HWord
        BY <1>1, <4>1
      <4> QED
        BY <2>1, <4>2 DEF HWord
    <3>5. m \in Nat /\ m >= 1 /\ i - a \in Int /\ i - a + 1 \in Int
      BY <1>1, <3>2
    <3> HIDE DEF m, p, q
    <3>6. \A s, t, k \in Int : s + ((t - s) * k) \div m \in Int
      <4>1. ASSUME NEW s \in Int, NEW t \in Int, NEW k \in Int
            PROVE  s + ((t - s) * k) \div m \in Int
        <5>1. (t - s) * k \in Int
          OBVIOUS
        <5> QED
          BY <3>5, <5>1
      <4> QED
        BY <4>1
    <3> QED
      BY <3>3, <3>4, <3>5, <3>6
  <2> HIDE DEF p, q, D
  <2>4. [words[i] EXCEPT !.start = p, !.end = q] = [id |-> words[i].id, start |-> p, end |-> q]
    <3> DEFINE w == words[i]
               v == [w EXCEPT !.start = p]
    <3>1. w = [id |-> w.id, start |-> w.start, end |-> w.end]
      BY <2>1 DEF HWord
    <3> HIDE DEF w
    <3>2. v = [id |-> w.id, start |-> p, end |-> w.end]
      BY <3>1
    <3>3. [w EXCEPT !.start = p, !.end = q] = [v EXCEPT !.end = q]
      OBVIOUS
    <3> HIDE DEF v
    <3>4. [v EXCEPT !.end = q] = [id |-> w.id, start |-> p, end |-> q]
      BY <3>2
    <3> QED
      BY <3>3, <3>4 DEF w
  <2>5. [id |-> words[i].id, start |-> p, end |-> q] \in HWord
    BY <2>1, <2>3 DEF HWord
  <2>6. e(i) = [id |-> words[i].id, start |-> p, end |-> q]
    BY DEF p, q
  <2> QED
    BY <2>2, <2>4, <2>5, <2>6
<1>3. D = [i \in 1 .. Len(words) |-> D[i]]
  BY <1>1 DEF Derived
<1> HIDE DEF D
<1>4. ASSUME NEW i \in 1 .. Len(words) PROVE D[i].id = words[i].id
  <2>1. D[i] = e(i) /\ e(i).id = words[i].id
    BY <1>2
  <2> HIDE DEF e
  <2> QED
    BY <2>1
<1>5. D \in [1 .. Len(words) -> HWord]
  BY <1>2, <1>3
<1>6. D \in Seq(HWord) /\ Len(D) = Len(words)
  BY <1>1, <1>5, FunctionIsList
<1> QED
  BY <1>2, <1>4, <1>5, <1>6 DEF D

LEMMA RunIsParted ==
    ASSUME NEW words, Proper(words), NEW i \in 1 .. Len(words), Anchored(words, i)
    PROVE  IsParted(words, Derived(words), i, RunStart(words, i), RunEnd(words, i))
<1> DEFINE a == RunStart(words, i)
           b == RunEnd(words, i)
<1>1. /\ words \in Seq(HWord) /\ Len(words) \in Nat /\ DOMAIN words = 1 .. Len(words)
      /\ ~IsPoint(words[b]) /\ words[b].start = words[i].start
  BY LenProperties DEF Anchored, Proper
<1>2. IsRun(words, i, a, b)
  BY <1>1, RunIs
<1>3. /\ \A j \in a .. b : RunStart(words, j) = a /\ RunEnd(words, j) = b
      /\ \A j \in a .. b : words[j].start = words[i].start
  BY <1>1, RunIsShared
<1> HIDE DEF a, b
<1>4. a \in 1 .. i /\ b \in i .. Len(words) /\ i \in Nat /\ b \in 1 .. Len(words)
  BY <1>1, <1>2 DEF IsRun
<1>5. words[b].start < words[b].end
  <2>1. words[b].start <= words[b].end /\ words[b] \in HWord
    BY <1>1, <1>4 DEF Proper
  <2> QED
    BY <1>1, <2>1 DEF IsPoint, HWord
<1>6. ASSUME NEW j \in a .. b
      PROVE  /\ Derived(words)[j].start = PartAt(words[b].start, words[b].end, b - a + 1, j - a)
             /\ Derived(words)[j].end = PartAt(words[b].start, words[b].end, b - a + 1, j - a + 1)
  <2>1. j \in 1 .. Len(words)
    BY <1>1, <1>4
  <2>2. Derived(words)[j] = [id |-> words[j].id,
                             start |-> PartBound(words, j, j - RunStart(words, j)),
                             end |-> PartBound(words, j, j - RunStart(words, j) + 1)]
    BY <1>1, <2>1, DerivedIds
  <2>3. RunStart(words, j) = a /\ RunEnd(words, j) = b /\ words[j].start = words[b].start
    BY <1>1, <1>3
  <2>4. \A k : PartBound(words, j, k) = PartAt(words[b].start, words[b].end, b - a + 1, k)
    BY <2>3 DEF PartBound, PartAt
  <2> QED
    BY <2>2, <2>3, <2>4
<1>7. IsParted(words, Derived(words), i, a, b)
  BY <1>1, <1>4, <1>5, <1>6 DEF IsParted
<1> QED
  BY <1>7 DEF a, b

\* The parts of a run fill its interval, and nothing else.
LEMMA RunIsFilled ==
    ASSUME NEW words, Proper(words), NEW D, NEW i \in 1 .. Len(words), NEW a, NEW b,
           IsParted(words, D, i, a, b)
    PROVE  /\ \A j \in a .. b : \A x \in D[j].start .. D[j].end - 1 :
                  x \in words[b].start .. words[b].end - 1
           /\ \A x \in words[b].start .. words[b].end - 1 :
                  \E j \in a .. b : x \in D[j].start .. D[j].end - 1
           /\ D[b].end = words[b].end
<1> DEFINE s == words[b].start
           e == words[b].end
           m == b - a + 1
           f(k) == PartAt(s, e, m, k)
<1>1. Len(words) \in Nat /\ DOMAIN words = 1 .. Len(words) /\ words \in Seq(HWord)
  BY LenProperties DEF Proper
<1>2. /\ a \in Nat /\ b \in Nat /\ a >= 1 /\ a <= b /\ b \in 1 .. Len(words)
      /\ m \in Nat /\ m >= 1
  BY <1>1 DEF IsParted
<1>3. s \in Int /\ e \in Int /\ s < e
  <2>1. words[b] \in HWord
    BY <1>1, <1>2
  <2> QED
    BY <2>1 DEF HWord, IsParted
<1>4. \A j \in a .. b : D[j].start = f(j - a) /\ D[j].end = f(j - a + 1)
  BY DEF IsParted
<1> HIDE DEF s, e, m
<1>5. ASSUME NEW k \in 0 .. m PROVE f(k) \in s .. e
  <2>1. e - s \in Nat
    BY <1>3
  <2> DEFINE q == ((e - s) * k) \div m
  <2>2. q \in 0 .. e - s
    BY <1>2, <2>1, PartBounds
  <2>3. f(k) = s + q
    BY DEF PartAt
  <2> HIDE DEF q, f
  <2> QED
    BY <1>3, <2>2, <2>3
<1>6. f(0) = s /\ f(m) = e
  <2>1. e - s \in Nat /\ 0 \in 0 .. m
    BY <1>2, <1>3
  <2>2. ((e - s) * 0) \div m = 0 /\ ((e - s) * m) \div m = e - s
    BY <1>2, <2>1, PartBounds
  <2>3. f(0) = s + 0 /\ f(m) = s + (e - s)
    BY <2>2 DEF PartAt
  <2> HIDE DEF f
  <2> QED
    BY <1>3, <2>3
<1> HIDE DEF f
<1>7. ASSUME NEW j \in a .. b PROVE j - a \in 0 .. m /\ j - a + 1 \in 0 .. m
  BY <1>2 DEF m
<1>8. ASSUME NEW j \in a .. b, NEW x \in D[j].start .. D[j].end - 1
      PROVE  x \in s .. e - 1
  <2>1. D[j].start = f(j - a) /\ D[j].end = f(j - a + 1) /\ f(j - a) \in s .. e /\ f(j - a + 1) \in s .. e
    BY <1>4, <1>5, <1>7
  <2> QED
    BY <1>3, <2>1
<1>9. ASSUME NEW x \in s .. e - 1 PROVE \E j \in a .. b : x \in D[j].start .. D[j].end - 1
  <2> DEFINE G == {k \in 0 .. m : f(k) <= x}
  <2>1. G \subseteq Int /\ IsFiniteSet(G) /\ 0 \in G
    <3>1. IsFiniteSet(0 .. m) /\ G \subseteq 0 .. m
      BY <1>2, FS_Interval
    <3>2. 0 \in 0 .. m /\ f(0) <= x
      BY <1>2, <1>3, <1>6
    <3>3. 0 \in G
      BY <3>2
    <3>4. G \subseteq Int
      BY <3>1
    <3> HIDE DEF G
    <3>5. IsFiniteSet(G)
      BY <3>1, FS_Subset
    <3> QED
      BY <3>3, <3>4, <3>5
  <2>2. \A k \in 0 .. m : k \in G <=> f(k) <= x
    OBVIOUS
  <2>3. \A k \in G : k \in 0 .. m
    OBVIOUS
  <2> HIDE DEF G
  <2> DEFINE k == Max(G)
  <2>4. k \in G /\ \A y \in G : y <= k
    BY <2>1, ExtremesAre
  <2> HIDE DEF k
  <2>5. k \in 0 .. m /\ f(k) <= x
    BY <2>2, <2>3, <2>4
  <2>6. k # m
    BY <1>3, <1>6, <2>5
  <2>7. k + 1 \in 0 .. m /\ ~(k + 1 <= k)
    BY <1>2, <2>5, <2>6
  <2>8. ~(f(k + 1) <= x)
    BY <2>2, <2>4, <2>7
  <2>9. a + k \in a .. b /\ (a + k) - a = k
    BY <1>2, <2>5, <2>6 DEF m
  <2>10. D[a + k].start = f(k) /\ D[a + k].end = f(k + 1)
    BY <1>4, <2>9
  <2>11. f(k) \in Int /\ f(k + 1) \in Int
    BY <1>3, <1>5, <2>5, <2>7
  <2>12. x \in D[a + k].start .. D[a + k].end - 1
    BY <2>5, <2>8, <2>10, <2>11
  <2> QED
    BY <2>9, <2>12
<1>10. D[b].end = e
  <2>1. b \in a .. b /\ b - a + 1 = m
    BY <1>2 DEF m
  <2> QED
    BY <1>4, <1>6, <2>1
<1> QED
  BY <1>8, <1>9, <1>10 DEF s, e

\* Some word stands at x.
SaidAt(words, x) == \E i \in DOMAIN words : x \in words[i].start .. words[i].end - 1

LEMMA FilledIs ==
    ASSUME NEW words
    PROVE  \A x : x \in Filled(words) <=> SaidAt(words, x)
BY DEF Filled, SaidAt

LEMMA DerivedFills ==
    ASSUME NEW words, Proper(words), \A i \in 1 .. Len(words) : Anchored(words, i)
    PROVE  \A x : SaidAt(Derived(words), x) <=> SaidAt(words, x)
<1> DEFINE D == Derived(words)
<1>1. /\ Len(words) \in Nat /\ DOMAIN words = 1 .. Len(words) /\ words \in Seq(HWord)
      /\ DOMAIN D = 1 .. Len(words)
  BY LenProperties, DerivedIds DEF Proper
<1> HIDE DEF D
<1>2. ASSUME NEW i \in 1 .. Len(words)
      PROVE  /\ RunStart(words, i) \in 1 .. i /\ RunEnd(words, i) \in i .. Len(words)
             /\ \A x \in D[i].start .. D[i].end - 1 :
                    RunEnd(words, i) \in 1 .. Len(words)
                    /\ x \in words[RunEnd(words, i)].start .. words[RunEnd(words, i)].end - 1
             /\ \A x \in words[RunEnd(words, i)].start .. words[RunEnd(words, i)].end - 1 :
                    \E j \in 1 .. Len(words) : x \in D[j].start .. D[j].end - 1
  <2> DEFINE a == RunStart(words, i)
             b == RunEnd(words, i)
  <2>1. IsParted(words, D, i, a, b)
    BY RunIsParted DEF D
  <2> HIDE DEF a, b
  <2>2. a \in 1 .. i /\ b \in i .. Len(words) /\ i \in a .. b /\ b \in 1 .. Len(words)
        /\ \A j \in a .. b : j \in 1 .. Len(words)
    BY <1>1, <2>1 DEF IsParted
  <2>3. /\ \A j \in a .. b : \A x \in D[j].start .. D[j].end - 1 :
               x \in words[b].start .. words[b].end - 1
        /\ \A x \in words[b].start .. words[b].end - 1 :
               \E j \in a .. b : x \in D[j].start .. D[j].end - 1
    BY <2>1, RunIsFilled
  <2>4. \A x \in D[i].start .. D[i].end - 1 : x \in words[b].start .. words[b].end - 1
    BY <2>2, <2>3
  <2>5. \A x \in words[b].start .. words[b].end - 1 :
            \E j \in 1 .. Len(words) : x \in D[j].start .. D[j].end - 1
    BY <2>2, <2>3
  <2> QED
    BY <2>2, <2>4, <2>5 DEF a, b
<1>3. ASSUME NEW x, SaidAt(D, x) PROVE SaidAt(words, x)
  <2>1. PICK i \in 1 .. Len(words) : x \in D[i].start .. D[i].end - 1
    BY <1>1, <1>3 DEF SaidAt
  <2>2. /\ RunEnd(words, i) \in 1 .. Len(words)
        /\ x \in words[RunEnd(words, i)].start .. words[RunEnd(words, i)].end - 1
    BY <1>2, <2>1
  <2> QED
    BY <1>1, <2>2 DEF SaidAt
<1>4. ASSUME NEW x, SaidAt(words, x) PROVE SaidAt(D, x)
  <2>1. PICK i \in 1 .. Len(words) : x \in words[i].start .. words[i].end - 1
    BY <1>1, <1>4 DEF SaidAt
  <2>2. RunEnd(words, i) = i
    <3>1. ~IsPoint(words[i])
      <4>1. words[i] \in HWord
        BY <1>1
      <4> QED
        BY <2>1, <4>1 DEF IsPoint, HWord
    <3>2. IsRun(words, i, RunStart(words, i), RunEnd(words, i))
      BY <1>1, RunIs
    <3> QED
      BY <1>1, <3>1, <3>2 DEF IsRun
  <2>3. \E j \in 1 .. Len(words) : x \in D[j].start .. D[j].end - 1
    BY <1>2, <2>1, <2>2
  <2> QED
    BY <1>1, <2>3 DEF SaidAt
<1> QED
  BY <1>3, <1>4 DEF D

\* A word that changes stands where a point does.
LEMMA ChangedSharesAPoint ==
    ASSUME NEW words, Proper(words), NEW i \in 1 .. Len(words), Anchored(words, i),
           Derived(words)[i] # words[i]
    PROVE  \E j \in 1 .. Len(words) : IsPoint(words[j]) /\ words[j].start = words[i].start
<1> DEFINE D == Derived(words)
           a == RunStart(words, i)
           b == RunEnd(words, i)
<1>1. /\ Len(words) \in Nat /\ DOMAIN words = 1 .. Len(words) /\ words \in Seq(HWord)
      /\ D[i] \in HWord /\ D[i].id = words[i].id
  <2>1. Len(words) \in Nat /\ DOMAIN words = 1 .. Len(words) /\ words \in Seq(HWord)
    BY LenProperties DEF Proper
  <2>2. D \in Seq(HWord) /\ Len(D) = Len(words) /\ D[i].id = words[i].id
    BY <2>1, DerivedIds
  <2> HIDE DEF D
  <2>3. D[i] \in HWord
    BY <2>1, <2>2
  <2> QED
    BY <2>1, <2>2, <2>3
<1>2. IsRun(words, i, a, b) /\ IsParted(words, D, i, a, b)
  BY <1>1, RunIs, RunIsParted
<1> HIDE DEF D, a, b
<1>3. a \in 1 .. i /\ b \in i .. Len(words) /\ i \in Nat
  BY <1>2 DEF IsRun
<1>4. CASE i < b
  BY <1>2, <1>4 DEF IsRun
<1>5. CASE a < i
  <2>1. a \in a .. b - 1 /\ a # i /\ a \in 1 .. Len(words)
    BY <1>1, <1>3, <1>5
  <2>2. Joined(words, i, a)
    BY <1>2, <2>1 DEF IsRun
  <2> QED
    BY <2>1, <2>2 DEF Joined
<1>6. CASE a = i /\ b = i
  <2>1. i \in a .. b /\ i - a = 0 /\ b - a + 1 = 1 /\ i - a + 1 = 1
    BY <1>3, <1>6
  <2>2. words[i] \in HWord
    BY <1>1
  <2>3. words[i].start \in Int /\ words[i].end \in Int
    BY <2>2 DEF HWord
  <2>4. /\ D[i].start = PartAt(words[i].start, words[i].end, 1, 0)
        /\ D[i].end = PartAt(words[i].start, words[i].end, 1, 1)
    BY <1>2, <1>6, <2>1 DEF IsParted
  <2>5. \A s, e \in Int : PartAt(s, e, 1, 0) = s /\ PartAt(s, e, 1, 1) = e
    BY DEF PartAt
  <2>6. D[i].start = words[i].start /\ D[i].end = words[i].end
    BY <2>3, <2>4, <2>5
  <2>7. D[i] = words[i]
    <3> DEFINE v == D[i]
               w == words[i]
    <3>1. v \in HWord /\ w \in HWord
      BY <1>1, <2>2
    <3>2. v.id = w.id /\ v.start = w.start /\ v.end = w.end
      BY <1>1, <2>6
    <3> HIDE DEF v, w
    <3>3. v = w
      BY <3>1, <3>2 DEF HWord
    <3> QED
      BY <3>3 DEF v, w
  <2> QED
    BY <2>7 DEF D
<1> QED
  BY <1>3, <1>4, <1>5, <1>6

\* Each word has one with duration at its start, and its first part starts there.
LEMMA HostExists ==
    ASSUME NEW words, Proper(words), NEW i \in 1 .. Len(words), Anchored(words, i)
    PROVE  \E p, q \in 1 .. Len(words) :
              /\ words[q].start = words[i].start /\ words[q].start < words[q].end
              /\ Derived(words)[q].end = words[q].end
              /\ Derived(words)[p].start = words[i].start
<1> DEFINE D == Derived(words)
           a == RunStart(words, i)
           b == RunEnd(words, i)
<1>1. Len(words) \in Nat /\ DOMAIN words = 1 .. Len(words) /\ words \in Seq(HWord)
  BY LenProperties DEF Proper
<1>2. IsParted(words, D, i, a, b)
  BY <1>1, RunIsParted
<1> HIDE DEF D, a, b
<1>3. a \in 1 .. Len(words) /\ b \in 1 .. Len(words) /\ a \in a .. b /\ a - a = 0 /\ b - a + 1 \in Nat
      /\ b - a + 1 >= 1
  BY <1>1, <1>2 DEF IsParted
<1>4. words[b].start = words[i].start /\ words[b].start < words[b].end
  BY <1>2 DEF IsParted
<1>5. D[b].end = words[b].end
  BY <1>2, RunIsFilled
<1>6. D[a].start = words[b].start
  <2>1. D[a].start = PartAt(words[b].start, words[b].end, b - a + 1, 0)
    BY <1>2, <1>3 DEF IsParted
  <2>2. words[b] \in HWord
    BY <1>1, <1>3
  <2> DEFINE s == words[b].start
             e == words[b].end
             m == b - a + 1
  <2>3. s \in Int /\ e \in Int /\ m \in Nat /\ m >= 1
    BY <1>3, <2>2 DEF HWord
  <2> HIDE DEF s, e, m
  <2>4. PartAt(s, e, m, 0) = s
    <3>1. (e - s) * 0 = 0 /\ 0 \div m = 0
      BY <2>3
    <3> QED
      BY <2>3, <3>1 DEF PartAt
  <2> QED
    BY <2>1, <2>4 DEF s, e, m
<1> QED
  BY <1>3, <1>4, <1>5, <1>6 DEF D

-----------------------------------------------------------------------------
(* Transcripts: what the provider was heard to say.                        *)

HSegment == [start : Int, end : Int, words : Seq(HWord)]

Reach(near, i) == IF i \in near THEN HTolerance ELSE HTolerance - 1
InReach(word, segment, reach) ==
    word.start >= segment.start - reach /\ word.end <= segment.end + reach

\* The segments have the words in order, each those that are assigned to it; a
\* word with duration is in reach of no other.
IsHeard(segs, W, seg, near) ==
    /\ W \in Seq(HWindow) /\ segs \in Seq(HSegment)
    /\ seg \in [1 .. Len(W) -> 1 .. Len(segs)]
    /\ \A i \in 1 .. Len(W) : W[i].start <= W[i].end
    /\ \A i \in 2 .. Len(W) :
          \/ W[i].start >= W[i - 1].end
          \/ W[i].start >= W[i - 1].end - 1 /\ i \in near
    /\ \A k \in 1 .. Len(segs) :
          /\ segs[k].start < segs[k].end
          /\ segs[k].words = Entries(Numbered(W), {i \in 1 .. Len(W) : seg[i] = k})
          /\ \E i \in 1 .. Len(W) : seg[i] = k
    /\ \A k \in 2 .. Len(segs) : segs[k].start >= segs[k - 1].end - 1
    /\ \A i \in 1 .. Len(W) : InReach(W[i], segs[seg[i]], Reach(near, i))
    /\ \A i \in 1 .. Len(W) : \A k \in 1 .. Len(segs) :
          W[i].start < W[i].end /\ InReach(W[i], segs[k], Reach(near, i)) => k = seg[i]

\* Every word has a word with duration at its start, in its segment, and where
\* it is a point or another's part none starts before its segment.
Hosted(segs, W, seg) ==
    /\ \A i \in 1 .. Len(W) : \E q \in 1 .. Len(W) :
          seg[q] = seg[i] /\ W[q].start = W[i].start /\ W[q].start < W[q].end
    /\ \/ \A i \in 1 .. Len(W) : W[i].start < W[i].end
       \/ \A i \in 1 .. Len(W) : segs[seg[i]].start <= W[i].start

LEMMA HeardTypes ==
    ASSUME NEW segs, NEW W, NEW seg, NEW near, IsHeard(segs, W, seg, near)
    PROVE  /\ Len(W) \in Nat /\ DOMAIN W = 1 .. Len(W) /\ W \in Seq(HWindow)
           /\ Len(segs) \in Nat /\ DOMAIN segs = 1 .. Len(segs)
           /\ \A i \in 1 .. Len(W) : W[i].start \in Int /\ W[i].end \in Int /\ seg[i] \in 1 .. Len(segs)
           /\ \A k \in 1 .. Len(segs) :
                 segs[k].start \in Int /\ segs[k].end \in Int /\ segs[k].words \in Seq(HWord)
           /\ \A i : Reach(near, i) \in Int /\ Reach(near, i) >= 1
           /\ \A i : i \in near => \A j : Reach(near, j) <= Reach(near, i)
           /\ \A i, j : Reach(near, j) <= Reach(near, i) + 1
<1>1. W \in Seq(HWindow) /\ segs \in Seq(HSegment) /\ seg \in [1 .. Len(W) -> 1 .. Len(segs)]
  BY DEF IsHeard
<1>2. /\ Len(W) \in Nat /\ DOMAIN W = 1 .. Len(W)
      /\ Len(segs) \in Nat /\ DOMAIN segs = 1 .. Len(segs)
  BY <1>1, LenProperties
<1>3. ASSUME NEW i \in 1 .. Len(W)
      PROVE  W[i].start \in Int /\ W[i].end \in Int /\ seg[i] \in 1 .. Len(segs)
  <2>1. W[i] \in HWindow
    BY <1>1, <1>2
  <2> QED
    BY <1>1, <2>1 DEF HWindow
<1>4. ASSUME NEW k \in 1 .. Len(segs)
      PROVE  segs[k].start \in Int /\ segs[k].end \in Int /\ segs[k].words \in Seq(HWord)
  <2>1. segs[k] \in HSegment
    BY <1>1, <1>2
  <2> QED
    BY <2>1 DEF HSegment
<1>5. /\ \A i : Reach(near, i) \in Int /\ Reach(near, i) >= 1
      /\ \A i : i \in near => \A j : Reach(near, j) <= Reach(near, i)
      /\ \A i, j : Reach(near, j) <= Reach(near, i) + 1
  BY TranscriptConstants DEF Reach
<1> QED
  BY <1>1, <1>2, <1>3, <1>4, <1>5

\* A later segment ends no earlier.
LEMMA EndsNeverFall ==
    ASSUME NEW segs, NEW W, NEW seg, NEW near, IsHeard(segs, W, seg, near)
    PROVE  \A k, m \in 1 .. Len(segs) : k <= m => segs[k].end <= segs[m].end
<1> DEFINE f == [k \in 1 .. Len(segs) |-> segs[k].end]
<1>1. Len(segs) \in Nat /\ \A k \in 1 .. Len(segs) : segs[k].start \in Int /\ segs[k].end \in Int
  BY HeardTypes
<1>2. f \in [1 .. Len(segs) -> Int] /\ \A k \in 1 .. Len(segs) : f[k] = segs[k].end
  BY <1>1
<1>3. ASSUME NEW k \in 2 .. Len(segs) PROVE f[k - 1] <= f[k]
  <2>1. k \in 1 .. Len(segs) /\ k - 1 \in 1 .. Len(segs)
    BY <1>1
  <2>2. segs[k].start >= segs[k - 1].end - 1 /\ segs[k].start < segs[k].end
    BY <2>1 DEF IsHeard
  <2>3. segs[k - 1].end <= segs[k].end
    <3> DEFINE x == segs[k - 1].end
               y == segs[k].start
               z == segs[k].end
    <3>1. x \in Int /\ y \in Int /\ z \in Int /\ y >= x - 1 /\ y < z
      BY <1>1, <2>1, <2>2
    <3> HIDE DEF x, y, z
    <3>2. x <= z
      BY <3>1
    <3> QED
      BY <3>2 DEF x, z
  <2> QED
    BY <1>2, <2>1, <2>3
<1> HIDE DEF f
<1>4. \A k, m \in 1 .. Len(segs) : k <= m => f[k] <= f[m]
  BY <1>1, <1>2, <1>3, NeverFalls
<1> QED
  BY <1>2, <1>4

\* Words that follow each other do not go back to an earlier segment.
LEMMA SegmentsFollow ==
    ASSUME NEW segs, NEW W, NEW seg, NEW near, IsHeard(segs, W, seg, near), Hosted(segs, W, seg)
    PROVE  \A i, j \in 1 .. Len(W) : i <= j => seg[i] <= seg[j]
<1>1. /\ Len(W) \in Nat /\ Len(segs) \in Nat /\ seg \in [1 .. Len(W) -> Int]
      /\ \A i \in 1 .. Len(W) : W[i].start \in Int /\ W[i].end \in Int /\ seg[i] \in 1 .. Len(segs)
      /\ \A k \in 1 .. Len(segs) : segs[k].start \in Int /\ segs[k].end \in Int
      /\ \A i : Reach(near, i) \in Int /\ Reach(near, i) >= 1
      /\ \A i : i \in near => \A j : Reach(near, j) <= Reach(near, i)
      /\ \A i, j : Reach(near, j) <= Reach(near, i) + 1
  <2>1. seg \in [1 .. Len(W) -> 1 .. Len(segs)]
    BY DEF IsHeard
  <2>2. seg \in [1 .. Len(W) -> Int]
    BY <2>1
  <2> QED
    BY <2>2, HeardTypes
<1>2. ASSUME NEW i \in 2 .. Len(W), ~(seg[i - 1] <= seg[i]) PROVE FALSE
  <2>1. i \in 1 .. Len(W) /\ i - 1 \in 1 .. Len(W)
    BY <1>1
  <2> DEFINE k == seg[i - 1]
             m == seg[i]
  <2>2. k \in 1 .. Len(segs) /\ m \in 1 .. Len(segs) /\ m < k
    BY <1>1, <1>2, <2>1
  <2> HIDE DEF k, m
  <2>3. segs[m].end <= segs[k].end
    BY <1>1, <2>2, EndsNeverFall
  <2>4. ASSUME NEW q \in 1 .. Len(W), seg[q] = m, W[q].start < W[q].end,
               W[q].start >= segs[k].start - Reach(near, q)
        PROVE  FALSE
    <3>1. InReach(W[q], segs[m], Reach(near, q))
      BY <2>4 DEF IsHeard
    <3>2. InReach(W[q], segs[k], Reach(near, q))
      <4> DEFINE e == W[q].end
                 x == segs[m].end
                 y == segs[k].end
                 r == Reach(near, q)
      <4>1. e \in Int /\ x \in Int /\ y \in Int /\ r \in Int /\ e <= x + r /\ x <= y
        BY <1>1, <2>2, <2>3, <3>1 DEF InReach
      <4> HIDE DEF e, x, y, r
      <4>2. e <= y + r
        BY <4>1
      <4> QED
        BY <2>4, <4>2 DEF InReach, e, y, r
    <3>3. k = seg[q]
      BY <2>2, <2>4, <3>2 DEF IsHeard
    <3> QED
      BY <2>2, <2>4, <3>3
  <2>5. /\ \/ W[i].start >= W[i - 1].end
           \/ W[i].start >= W[i - 1].end - 1 /\ i \in near
        /\ W[i - 1].start <= W[i - 1].end /\ W[i].start <= W[i].end
        /\ InReach(W[i - 1], segs[k], Reach(near, i - 1))
    BY <2>1 DEF IsHeard, k
  <2> DEFINE s == W[i].start
             t == W[i - 1].start
             e == W[i - 1].end
             u == segs[k].start
             r == Reach(near, i)
             p == Reach(near, i - 1)
  <2>6. /\ s \in Int /\ t \in Int /\ e \in Int /\ u \in Int /\ r \in Int /\ p \in Int
        /\ r >= 1 /\ p >= 1 /\ p <= r + 1 /\ (i \in near => p <= r)
        /\ (s >= e \/ (s >= e - 1 /\ i \in near)) /\ t <= e /\ t >= u - p
    BY <1>1, <2>1, <2>2, <2>5 DEF InReach
  <2>7. CASE \A j \in 1 .. Len(W) : W[j].start < W[j].end
    <3>1. t < e /\ W[i].start < W[i].end
      BY <2>1, <2>7
    <3>2. s >= u - r
      <4> HIDE DEF s, t, e, u, r, p
      <4> QED
        BY <2>6, <3>1
    <3> QED
      BY <2>1, <2>4, <3>1, <3>2 DEF m
  <2>8. CASE \A j \in 1 .. Len(W) : segs[seg[j]].start <= W[j].start
    <3>1. u <= t
      BY <2>1, <2>8 DEF k
    <3>2. PICK q \in 1 .. Len(W) :
              seg[q] = seg[i] /\ W[q].start = W[i].start /\ W[q].start < W[q].end
      BY <2>1 DEF Hosted
    <3> DEFINE v == Reach(near, q)
    <3>3. v \in Int /\ v >= 1
      BY <1>1
    <3>4. s >= u - v
      <4> HIDE DEF s, t, e, u, r, p, v
      <4> QED
        BY <2>6, <3>1, <3>3
    <3> QED
      BY <2>4, <3>2, <3>4 DEF m
  <2> QED
    BY <2>7, <2>8 DEF Hosted
<1>3. \A i \in 2 .. Len(W) : seg[i - 1] <= seg[i]
  BY <1>2
<1> QED
  BY <1>1, <1>3, NeverFalls

\* Where segment k's words end, for segments that do not go back.
CutAt(seg, n, k) == Max({0} \cup {i \in 1 .. n : seg[i] <= k})
CutsOf(seg, n, m) == [k \in 0 .. m |-> CutAt(seg, n, k)]

LEMMA CutsAre ==
    ASSUME NEW n \in Nat, NEW m \in Nat, NEW seg \in [1 .. n -> 1 .. m],
           \A i, j \in 1 .. n : i <= j => seg[i] <= seg[j], NEW k \in 0 .. m
    PROVE  CutAt(seg, n, k) \in 0 .. n /\ \A i \in 1 .. n : seg[i] <= k <=> i <= CutAt(seg, n, k)
<1> DEFINE S == {0} \cup {i \in 1 .. n : seg[i] <= k}
           x == CutAt(seg, n, k)
<1>1. S \subseteq 0 .. n /\ IsFiniteSet(0 .. n) /\ 0 \in S
  BY FS_Interval
<1>2. S \subseteq Int /\ S # {}
  BY <1>1
<1>3. \A i \in 1 .. n : i \in S <=> seg[i] <= k
  OBVIOUS
<1>4. x = Max(S)
  BY DEF CutAt
<1> HIDE DEF S, x
<1>5. IsFiniteSet(S)
  BY <1>1, FS_Subset
<1>6. x \in S /\ \A y \in S : y <= x
  BY <1>2, <1>4, <1>5, ExtremesAre
<1>7. x \in 0 .. n
  BY <1>1, <1>6
<1>8. ASSUME NEW i \in 1 .. n PROVE seg[i] <= k <=> i <= x
  <2>1. CASE seg[i] <= k
    BY <1>3, <1>6, <2>1
  <2>2. CASE i <= x
    <3>1. x \in 1 .. n
      BY <1>7, <2>2
    <3>2. seg[x] <= k /\ seg[i] <= seg[x] /\ seg[x] \in Int /\ seg[i] \in Int
      BY <1>3, <1>6, <2>2, <3>1
    <3>3. seg[i] <= k
      BY <3>2
    <3> QED
      BY <2>2, <3>3
  <2> QED
    BY <2>1, <2>2
<1> QED
  BY <1>7, <1>8 DEF x

\* The words of segment k, numbered as they were received.
Stretch(w, k, seg, W) ==
    LET h == CutsOf(seg, Len(W), k)
    IN  /\ w \in Seq(HWord)
        /\ h[k] \in Nat /\ h[k - 1] \in Nat /\ h[k] = h[k - 1] + Len(w) /\ Len(w) \in Nat /\ Len(w) >= 1
        /\ h[k] <= Len(W)
        /\ \A j \in 1 .. Len(w) : w[j] = Numbered(W)[h[k - 1] + j]

LEMMA NumberedWords ==
    ASSUME NEW W \in Seq(HWindow)
    PROVE  /\ Numbered(W) \in Seq(HWord) /\ Len(Numbered(W)) = Len(W)
           /\ \A i \in 1 .. Len(W) :
                 /\ Numbered(W)[i] = [id |-> i, start |-> W[i].start, end |-> W[i].end]
                 /\ Numbered(W)[i].id = i
                 /\ Numbered(W)[i].start = W[i].start /\ Numbered(W)[i].end = W[i].end
<1>1. Len(W) \in Nat /\ DOMAIN W = 1 .. Len(W)
  BY LenProperties
<1> DEFINE N == Numbered(W)
           e(i) == [id |-> i, start |-> W[i].start, end |-> W[i].end]
<1>2. N = [i \in 1 .. Len(W) |-> e(i)]
  BY <1>1 DEF Numbered
<1>3. ASSUME NEW i \in 1 .. Len(W)
      PROVE  e(i) \in HWord /\ e(i).id = i /\ e(i).start = W[i].start /\ e(i).end = W[i].end
  <2>1. W[i] \in HWindow
    BY <1>1
  <2>2. W[i].start \in Int /\ W[i].end \in Int /\ i \in Nat
    BY <2>1 DEF HWindow
  <2> QED
    BY <2>2 DEF HWord
<1>4. N \in [1 .. Len(W) -> HWord]
  BY <1>2, <1>3
<1>5. N \in Seq(HWord) /\ Len(N) = Len(W)
  <2> HIDE DEF N
  <2> QED
    BY <1>1, <1>4, FunctionIsList
<1>6. \A i \in 1 .. Len(W) : N[i] = e(i)
  BY <1>2
<1> HIDE DEF N
<1>7. ASSUME NEW i \in 1 .. Len(W)
      PROVE  N[i].id = i /\ N[i].start = W[i].start /\ N[i].end = W[i].end
  BY <1>3, <1>6
<1> QED
  BY <1>5, <1>6, <1>7 DEF N

LEMMA SegmentIsStretch ==
    ASSUME NEW segs, NEW W, NEW seg, NEW near, IsHeard(segs, W, seg, near), Hosted(segs, W, seg),
           NEW k \in 1 .. Len(segs)
    PROVE  Stretch(segs[k].words, k, seg, W)
<1> DEFINE n == Len(W)
           m == Len(segs)
           lo == CutAt(seg, n, k - 1)
           hi == CutAt(seg, n, k)
           I == {i \in 1 .. n : seg[i] = k}
           w == segs[k].words
<1>1. /\ n \in Nat /\ m \in Nat /\ seg \in [1 .. n -> 1 .. m] /\ W \in Seq(HWindow)
      /\ w \in Seq(HWord) /\ w = Entries(Numbered(W), I) /\ \E i \in 1 .. n : seg[i] = k
  <2>1. seg \in [1 .. n -> 1 .. m] /\ W \in Seq(HWindow)
    BY DEF IsHeard
  <2>2. w = Entries(Numbered(W), I) /\ \E i \in 1 .. n : seg[i] = k
    BY DEF IsHeard
  <2>3. n \in Nat /\ m \in Nat /\ w \in Seq(HWord)
    BY HeardTypes
  <2> QED
    BY <2>1, <2>2, <2>3
<1>2. \A i, j \in 1 .. n : i <= j => seg[i] <= seg[j]
  BY SegmentsFollow
<1> HIDE DEF n, m
<1>3. k \in 0 .. m /\ k - 1 \in 0 .. m /\ k \in Int
  BY <1>1 DEF m
<1>4. /\ lo \in 0 .. n /\ \A i \in 1 .. n : seg[i] <= k - 1 <=> i <= lo
      /\ hi \in 0 .. n /\ \A i \in 1 .. n : seg[i] <= k <=> i <= hi
  BY <1>1, <1>2, <1>3, CutsAre
<1> HIDE DEF lo, hi
<1>5. ASSUME NEW i \in 1 .. n PROVE seg[i] = k <=> i \in (lo + 1) .. hi
  <2>1. seg[i] \in Int /\ (seg[i] <= k - 1 <=> i <= lo) /\ (seg[i] <= k <=> i <= hi)
    BY <1>1, <1>4
  <2> QED
    BY <1>3, <1>4, <2>1
<1>6. I = (lo + 1) .. hi
  <2>1. \A i \in (lo + 1) .. hi : i \in 1 .. n
    BY <1>1, <1>4
  <2> QED
    BY <1>5, <2>1
<1>7. lo < hi
  BY <1>1, <1>4, <1>5
<1>8. lo \in Nat /\ hi \in Nat /\ lo <= hi /\ hi - lo \in Nat
  BY <1>1, <1>4, <1>7
<1>9. InOrder((lo + 1) .. hi, <) = [j \in 1 .. hi - lo |-> lo + j]
  BY <1>8, IntervalInOrder
<1> DEFINE order == InOrder(I, <)
<1>10. order = [j \in 1 .. hi - lo |-> lo + j]
  BY <1>6, <1>9
<1>11. w = [j \in DOMAIN order |-> Numbered(W)[order[j]]]
  BY <1>1 DEF Entries
<1> HIDE DEF order, I, w
<1>12. DOMAIN order = 1 .. hi - lo /\ \A j \in 1 .. hi - lo : order[j] = lo + j
  BY <1>10
<1>13. /\ DOMAIN w = 1 .. hi - lo /\ w = [j \in 1 .. hi - lo |-> w[j]]
       /\ \A j \in 1 .. hi - lo : w[j] = Numbered(W)[lo + j]
  BY <1>11, <1>12
<1>14. Len(w) = hi - lo
  <2>1. Len(w) \in Nat /\ DOMAIN w = 1 .. Len(w)
    BY <1>1, LenProperties
  <2> QED
    BY <1>8, <1>13, <2>1, SameLength
<1> DEFINE h == CutsOf(seg, n, k)
<1>15. h[k] = hi /\ h[k - 1] = lo
  BY <1>3 DEF CutsOf, lo, hi
<1> HIDE DEF h
<1>16. h[k] = h[k - 1] + Len(w) /\ Len(w) \in Nat /\ Len(w) >= 1 /\ h[k] <= n
  BY <1>4, <1>7, <1>8, <1>14, <1>15
<1> QED
  BY <1>1, <1>8, <1>13, <1>14, <1>15, <1>16 DEF Stretch, h, n, w

\* The segments' lists, one after the other.
ListsOf(segs) == [k \in DOMAIN segs |-> segs[k].words]

LEMMA HeardLists ==
    ASSUME NEW segs, NEW W, NEW seg, NEW near, IsHeard(segs, W, seg, near), Hosted(segs, W, seg)
    PROVE  /\ ListsOf(segs) \in Seq(Seq(HWord)) /\ Len(ListsOf(segs)) = Len(segs)
           /\ \A k \in 1 .. Len(segs) : ListsOf(segs)[k] = segs[k].words
           /\ Ends(CutsOf(seg, Len(W), Len(segs)), ListsOf(segs))
           /\ CutsOf(seg, Len(W), Len(segs))[Len(segs)] = Len(W)
<1> DEFINE n == Len(W)
           m == Len(segs)
           L == ListsOf(segs)
           h == CutsOf(seg, n, m)
<1>1. /\ n \in Nat /\ m \in Nat /\ DOMAIN segs = 1 .. m /\ seg \in [1 .. n -> 1 .. m]
      /\ \A k \in 1 .. m : segs[k].words \in Seq(HWord)
  <2>1. seg \in [1 .. n -> 1 .. m]
    BY DEF IsHeard
  <2>2. /\ n \in Nat /\ m \in Nat /\ DOMAIN segs = 1 .. m
        /\ \A k \in 1 .. m : segs[k].words \in Seq(HWord)
    BY HeardTypes
  <2> QED
    BY <2>1, <2>2
<1>2. \A i, j \in 1 .. n : i <= j => seg[i] <= seg[j]
  BY SegmentsFollow
<1>3. \A k \in 1 .. m : Stretch(segs[k].words, k, seg, W)
  BY SegmentIsStretch
<1>4. L = [k \in 1 .. m |-> segs[k].words]
  BY <1>1 DEF ListsOf
<1> HIDE DEF n, m, L
<1>5. L \in [1 .. m -> Seq(HWord)] /\ \A k \in 1 .. m : L[k] = segs[k].words
  BY <1>1, <1>4
<1>6. L \in Seq(Seq(HWord)) /\ Len(L) = m
  BY <1>1, <1>5, FunctionIsList
<1>7. \A k \in 0 .. m : h[k] = CutAt(seg, n, k) /\ h[k] \in 0 .. n /\ (\A i \in 1 .. n : seg[i] <= k <=> i <= h[k])
  BY <1>1, <1>2, CutsAre DEF CutsOf
<1>8. h = [k \in 0 .. m |-> h[k]]
  BY DEF CutsOf
<1> HIDE DEF h
<1>9. h \in [0 .. m -> Nat]
  <2>1. \A k \in 0 .. m : h[k] \in Nat
    BY <1>1, <1>7
  <2> QED
    BY <1>8, <2>1
<1>10. h[0] = 0
  <2>1. 0 \in 0 .. m
    BY <1>1
  <2>2. h[0] \in 0 .. n /\ \A i \in 1 .. n : seg[i] <= 0 <=> i <= h[0]
    BY <1>7, <2>1
  <2>3. h[0] \in 1 .. n => seg[h[0]] \in 1 .. m /\ seg[h[0]] <= 0
    BY <1>1, <2>2
  <2> QED
    BY <1>1, <2>2, <2>3
<1>11. h[m] = n
  <2>1. m \in 0 .. m
    BY <1>1
  <2>2. h[m] \in 0 .. n /\ \A i \in 1 .. n : seg[i] <= m <=> i <= h[m]
    BY <1>7, <2>1
  <2>3. n \in 1 .. n => seg[n] \in 1 .. m /\ seg[n] <= m
    BY <1>1
  <2> QED
    BY <1>1, <2>2, <2>3
<1>12. ASSUME NEW k \in 1 .. m PROVE h[k] = h[k - 1] + Len(L[k])
  <2>1. k \in 0 .. m /\ k - 1 \in 0 .. m /\ k \in 0 .. k /\ k - 1 \in 0 .. k
    BY <1>1
  <2> DEFINE g == CutsOf(seg, n, k)
  <2>2. g[k] = CutAt(seg, n, k) /\ g[k - 1] = CutAt(seg, n, k - 1)
    BY <2>1 DEF CutsOf
  <2>3. g[k] = g[k - 1] + Len(segs[k].words)
    BY <1>3 DEF Stretch, n
  <2> HIDE DEF g
  <2> QED
    BY <1>5, <1>7, <2>1, <2>2, <2>3
<1>13. Ends(h, L)
  BY <1>6, <1>9, <1>10, <1>12 DEF Ends
<1> QED
  BY <1>5, <1>6, <1>11, <1>13 DEF n, m, L, h

\* All words, as they were received.
LEMMA AllWordsHeard ==
    ASSUME NEW segs, NEW W, NEW seg, NEW near, IsHeard(segs, W, seg, near), Hosted(segs, W, seg)
    PROVE  AllWords(segs) = Numbered(W)
<1> DEFINE n == Len(W)
           m == Len(segs)
           L == ListsOf(segs)
           h == CutsOf(seg, n, m)
           t == FlattenSeq(L)
           N == Numbered(W)
<1>1. /\ L \in Seq(Seq(HWord)) /\ Len(L) = m /\ Ends(h, L) /\ h[m] = n
      /\ \A k \in 1 .. m : L[k] = segs[k].words
  BY HeardLists
<1>2. n \in Nat /\ m \in Nat /\ W \in Seq(HWindow)
  BY HeardTypes DEF IsHeard
<1>3. N \in Seq(HWord) /\ Len(N) = n
  BY <1>2, NumberedWords
<1>4. \A k \in 1 .. m : Stretch(segs[k].words, k, seg, W)
  BY SegmentIsStretch
<1>5. AllWords(segs) = t
  BY DEF AllWords, ListsOf
<1>6. \A k \in 0 .. m : h[k] = CutAt(seg, n, k)
  BY DEF CutsOf
<1> HIDE DEF n, m, L, h, N
<1>7. t \in Seq(HWord) /\ LaidTo(t, L, h, m)
  BY <1>1, FlattenLays
<1> HIDE DEF t
<1>8. Len(t) = n
  BY <1>1, <1>7 DEF LaidTo
<1>9. ASSUME NEW i \in 1 .. n PROVE t[i] = N[i]
  <2>1. PICK k \in 1 .. m : \E j \in 1 .. Len(L[k]) : i = h[k - 1] + j
    BY <1>1, <1>7 DEF LaidTo
  <2>2. PICK j \in 1 .. Len(L[k]) : i = h[k - 1] + j
    BY <2>1
  <2>3. t[i] = L[k][j]
    BY <1>7, <2>2 DEF LaidTo
  <2> DEFINE g == CutsOf(seg, n, k)
  <2>4. k - 1 \in 0 .. m /\ k - 1 \in 0 .. k
    BY <1>2
  <2>5. g[k - 1] = h[k - 1]
    BY <1>6, <2>4 DEF CutsOf
  <2>6. segs[k].words[j] = N[g[k - 1] + j]
    BY <1>1, <1>4, <2>2 DEF Stretch, n, N
  <2> HIDE DEF g
  <2> QED
    BY <1>1, <2>2, <2>3, <2>5, <2>6
<1>10. DOMAIN t = 1 .. n /\ DOMAIN N = 1 .. n /\ t = [i \in 1 .. n |-> t[i]] /\ N = [i \in 1 .. n |-> N[i]]
  <2>1. DOMAIN t = 1 .. Len(t) /\ t = [i \in 1 .. Len(t) |-> t[i]]
    BY <1>7, LenProperties, SeqDef
  <2>2. DOMAIN N = 1 .. Len(N) /\ N = [i \in 1 .. Len(N) |-> N[i]]
    BY <1>3, LenProperties, SeqDef
  <2> QED
    BY <1>3, <1>8, <2>1, <2>2
<1>11. t = N
  BY <1>9, <1>10
<1> QED
  BY <1>5, <1>11 DEF N

-----------------------------------------------------------------------------
(* Transcripts: what consumers are told.                                   *)

HasItsWords(w, W, seg, k) ==
    /\ \A i \in 1 .. Len(W) : seg[i] = k => \E p \in 1 .. Len(w) : w[p] = Numbered(W)[i]
    /\ \A p \in 1 .. Len(w) : \E i \in 1 .. Len(W) : seg[i] = k /\ w[p] = Numbered(W)[i]

LEMMA WordsOfSegment ==
    ASSUME NEW segs, NEW W, NEW seg, NEW near, IsHeard(segs, W, seg, near),
           NEW k \in 1 .. Len(segs)
    PROVE  HasItsWords(segs[k].words, W, seg, k)
<1> DEFINE n == Len(W)
           I == {i \in 1 .. n : seg[i] = k}
           w == segs[k].words
           N == Numbered(W)
<1>1. n \in Nat
  BY HeardTypes
<1>2. w = Entries(N, I)
  BY DEF IsHeard
<1>3. I \in SUBSET Nat /\ IsFiniteSet(I)
  <2>1. IsFiniteSet(1 .. n) /\ I \subseteq 1 .. n
    BY <1>1, FS_Interval
  <2>2. I \in SUBSET Nat
    BY <2>1
  <2> HIDE DEF I
  <2> QED
    BY <2>1, <2>2, FS_Subset
<1>4. /\ \A i \in 1 .. n : seg[i] = k => i \in I
      /\ \A i \in I : i \in 1 .. n /\ seg[i] = k
  OBVIOUS
<1> HIDE DEF I, w, N, n
<1>5. PICK o : PickedBy(w, N, I, o)
  BY <1>2, <1>3, EntriesAre
<1>6. ASSUME NEW i \in 1 .. n, seg[i] = k PROVE \E p \in 1 .. Len(w) : w[p] = N[i]
  <2>1. PICK p \in 1 .. Len(o) : o[p] = i
    BY <1>4, <1>5, <1>6 DEF PickedBy
  <2> QED
    BY <1>5, <2>1 DEF PickedBy
<1>7. ASSUME NEW p \in 1 .. Len(w) PROVE \E i \in 1 .. n : seg[i] = k /\ w[p] = N[i]
  <2>1. p \in 1 .. Len(o) /\ o[p] \in I /\ w[p] = N[o[p]]
    BY <1>5 DEF PickedBy
  <2> QED
    BY <1>4, <2>1
<1> QED
  BY <1>6, <1>7 DEF HasItsWords, n, w, N

\* What is heard is proper, segment by segment.
LEMMA HeardIsProper ==
    ASSUME NEW segs, NEW W, NEW seg, NEW near, IsHeard(segs, W, seg, near),
           NEW k \in 1 .. Len(segs)
    PROVE  Proper(segs[k].words)
<1> DEFINE w == segs[k].words
<1>1. w \in Seq(HWord) /\ W \in Seq(HWindow) /\ Len(w) \in Nat /\ DOMAIN w = 1 .. Len(w)
  <2>1. w \in Seq(HWord) /\ W \in Seq(HWindow)
    BY HeardTypes
  <2> HIDE DEF w
  <2> QED
    BY <2>1, LenProperties
<1>2. ASSUME NEW p \in 1 .. Len(w) PROVE w[p].start <= w[p].end
  <2>0. HasItsWords(w, W, seg, k)
    BY WordsOfSegment
  <2> HIDE DEF w
  <2>1. PICK i \in 1 .. Len(W) : w[p] = Numbered(W)[i]
    BY <2>0 DEF HasItsWords
  <2>2. Numbered(W)[i].start = W[i].start /\ Numbered(W)[i].end = W[i].end
    BY <1>1, NumberedWords
  <2>3. W[i].start <= W[i].end
    BY DEF IsHeard
  <2> QED
    BY <2>1, <2>2, <2>3
<1> QED
  BY <1>1, <1>2 DEF Proper

\* What passes the strict policy has no points.
LEMMA StrictHasNoPoints ==
    ASSUME NEW segs, NEW W, NEW seg, NEW near, IsHeard(segs, W, seg, near), Strict(segs)
    PROVE  /\ \A i \in 1 .. Len(W) : W[i].start < W[i].end
           /\ Hosted(segs, W, seg)
<1>1. /\ Len(W) \in Nat /\ DOMAIN segs = 1 .. Len(segs) /\ W \in Seq(HWindow)
      /\ \A i \in 1 .. Len(W) : W[i].start \in Int /\ W[i].end \in Int /\ seg[i] \in 1 .. Len(segs)
  BY HeardTypes
<1>2. ASSUME NEW i \in 1 .. Len(W) PROVE W[i].start < W[i].end
  <2> DEFINE k == seg[i]
             w == segs[k].words
  <2>1. k \in 1 .. Len(segs)
    BY <1>1
  <2>a. HasItsWords(w, W, seg, k)
    BY <2>1, WordsOfSegment
  <2>2. PICK p \in 1 .. Len(w) : w[p] = Numbered(W)[i]
    BY <2>a DEF HasItsWords
  <2>3. ~IsPoint(w[p])
    <3>1. p \in DOMAIN w
      BY <2>1, HeardTypes, LenProperties
    <3> QED
      BY <1>1, <2>1, <3>1 DEF Strict
  <2>4. Numbered(W)[i].start = W[i].start /\ Numbered(W)[i].end = W[i].end
    BY <1>1, NumberedWords
  <2>5. W[i].start <= W[i].end
    BY DEF IsHeard
  <2> QED
    BY <1>1, <2>2, <2>3, <2>4, <2>5 DEF IsPoint
<1> QED
  BY <1>2 DEF Hosted

\* What derivations pass has anchored points only, within their segments.
LEMMA DerivableIsHosted ==
    ASSUME NEW segs, NEW W, NEW seg, NEW near, IsHeard(segs, W, seg, near),
           \A k \in 1 .. Len(segs) : Derivable(segs[k])
    PROVE  Hosted(segs, W, seg)
<1>1. /\ Len(W) \in Nat /\ W \in Seq(HWindow)
      /\ \A i \in 1 .. Len(W) : W[i].start \in Int /\ W[i].end \in Int /\ seg[i] \in 1 .. Len(segs)
  BY HeardTypes
<1>2. ASSUME NEW i \in 1 .. Len(W)
      PROVE  /\ \E q \in 1 .. Len(W) :
                   seg[q] = seg[i] /\ W[q].start = W[i].start /\ W[q].start < W[q].end
             /\ segs[seg[i]].start <= W[i].start
  <2> DEFINE k == seg[i]
             w == segs[k].words
             D == Derived(w)
  <2>1. k \in 1 .. Len(segs)
    BY <1>1
  <2>a. HasItsWords(w, W, seg, k)
    BY <2>1, WordsOfSegment
  <2>2. PICK p \in 1 .. Len(w) : w[p] = Numbered(W)[i]
    BY <2>a DEF HasItsWords
  <2>3. Proper(w) /\ w \in Seq(HWord) /\ DOMAIN w = 1 .. Len(w) /\ DOMAIN D = 1 .. Len(w)
    <3>1. Proper(w)
      BY <2>1, HeardIsProper
    <3> HIDE DEF w
    <3> QED
      BY <3>1, LenProperties, DerivedIds DEF Proper
  <2>4. /\ \A j \in 1 .. Len(w) : Anchored(w, j)
        /\ \A j \in 1 .. Len(w) : segs[k].start <= D[j].start
    BY <2>1, <2>3 DEF Derivable
  <2> HIDE DEF D
  <2>5. PICK a, q \in 1 .. Len(w) :
            /\ w[q].start = w[p].start /\ w[q].start < w[q].end
            /\ D[a].start = w[p].start
    BY <2>3, <2>4, HostExists DEF D
  <2>6. PICK j \in 1 .. Len(W) : seg[j] = k /\ w[q] = Numbered(W)[j]
    BY <2>a DEF HasItsWords
  <2>7. /\ Numbered(W)[i].start = W[i].start /\ Numbered(W)[i].end = W[i].end
        /\ Numbered(W)[j].start = W[j].start /\ Numbered(W)[j].end = W[j].end
    BY <1>1, NumberedWords
  <2>8. seg[j] = seg[i] /\ W[j].start = W[i].start /\ W[j].start < W[j].end
    BY <2>2, <2>5, <2>6, <2>7
  <2>9. segs[k].start <= W[i].start
    BY <2>2, <2>4, <2>5, <2>7
  <2> QED
    BY <2>8, <2>9
<1> QED
  BY <1>2 DEF Hosted

\* The derived projection of heard segments.
DerivedAll(segs) == [k \in DOMAIN segs |-> [segs[k] EXCEPT !.words = Derived(segs[k].words)]]

\* Word i of all is word j of segment k, heard and told.
IsWord(segs, h, i, k, j) ==
    /\ k \in 1 .. Len(segs) /\ j \in 1 .. Len(segs[k].words) /\ i = h[k - 1] + j
    /\ AllWords(segs)[i] = segs[k].words[j]
    /\ AllWords(DerivedAll(segs))[i] = Derived(segs[k].words)[j]

LEMMA ToldWords ==
    ASSUME NEW segs, NEW W, NEW seg, NEW near, IsHeard(segs, W, seg, near), Hosted(segs, W, seg),
           NEW h, h = CutsOf(seg, Len(W), Len(segs))
    PROVE  /\ DOMAIN AllWords(DerivedAll(segs)) = 1 .. Len(W) /\ Len(AllWords(DerivedAll(segs))) = Len(W)
           /\ \A i \in 1 .. Len(W) : \E k, j : IsWord(segs, h, i, k, j)
           /\ \A k \in 1 .. Len(segs) : \A j \in 1 .. Len(segs[k].words) :
                 h[k - 1] + j \in 1 .. Len(W) /\ IsWord(segs, h, h[k - 1] + j, k, j)
           /\ \A k \in 1 .. Len(segs) : DerivedAll(segs)[k].words = Derived(segs[k].words)
           /\ DOMAIN DerivedAll(segs) = 1 .. Len(segs)
           /\ h[0] = 0 /\ h \in [0 .. Len(segs) -> Nat]
           /\ \A k \in 1 .. Len(segs) : h[k] = h[k - 1] + Len(segs[k].words)
<1> DEFINE n == Len(W)
           m == Len(segs)
           L == ListsOf(segs)
           T == DerivedAll(segs)
           M == ListsOf(T)
           t == FlattenSeq(L)
           u == FlattenSeq(M)
<1>1. /\ L \in Seq(Seq(HWord)) /\ Len(L) = m /\ Ends(h, L) /\ h[m] = n
      /\ \A k \in 1 .. m : L[k] = segs[k].words
  BY HeardLists
<1>2. /\ n \in Nat /\ m \in Nat /\ DOMAIN segs = 1 .. m
      /\ \A k \in 1 .. m : segs[k].words \in Seq(HWord)
  BY HeardTypes
<1>3. ASSUME NEW k \in 1 .. m
      PROVE  /\ Derived(segs[k].words) \in Seq(HWord)
             /\ Len(Derived(segs[k].words)) = Len(segs[k].words)
  BY <1>2, DerivedIds
<1>4. ASSUME NEW k \in 1 .. m PROVE T[k].words = Derived(segs[k].words)
  <2>1. segs \in Seq(HSegment)
    BY DEF IsHeard
  <2>2. segs[k] \in HSegment
    BY <1>2, <2>1
  <2> DEFINE w == Derived(segs[k].words)
  <2>3. T[k] = [segs[k] EXCEPT !.words = w]
    BY <1>2 DEF DerivedAll
  <2> HIDE DEF w, T
  <2>4. T[k].words = w
    BY <2>2, <2>3 DEF HSegment
  <2> QED
    BY <2>4 DEF w
<1>5. DOMAIN T = 1 .. m
  BY <1>2 DEF DerivedAll
<1>6. M = [k \in 1 .. m |-> T[k].words]
  BY <1>5 DEF ListsOf
<1>7. AllWords(segs) = t /\ AllWords(T) = u
  BY DEF AllWords, ListsOf
<1> HIDE DEF n, m, L, T, M
<1>8. M \in [1 .. m -> Seq(HWord)] /\ \A k \in 1 .. m : M[k] = Derived(segs[k].words)
  BY <1>3, <1>4, <1>6
<1>9. M \in Seq(Seq(HWord)) /\ Len(M) = m
  BY <1>2, <1>8, FunctionIsList
<1>10. Ends(h, M)
  <2>1. \A k \in 1 .. m : Len(M[k]) = Len(L[k])
    BY <1>1, <1>3, <1>8
  <2> QED
    BY <1>1, <1>9, <2>1 DEF Ends
<1>11. /\ LaidTo(t, L, h, m) /\ LaidTo(u, M, h, m) /\ u \in Seq(HWord)
  BY <1>1, <1>9, <1>10, FlattenLays
<1> HIDE DEF t, u
<1>12. Len(u) = n /\ DOMAIN u = 1 .. n
  <2>1. Len(u) = n
    BY <1>1, <1>11 DEF LaidTo
  <2> QED
    BY <1>11, <2>1, LenProperties
<1>13. ASSUME NEW k \in 1 .. m, NEW j \in 1 .. Len(segs[k].words)
       PROVE  h[k - 1] + j \in 1 .. n /\ IsWord(segs, h, h[k - 1] + j, k, j)
  <2>1. j \in 1 .. Len(L[k]) /\ j \in 1 .. Len(M[k])
    BY <1>1, <1>3, <1>8
  <2>2. h[k - 1] + j \in 1 .. n /\ t[h[k - 1] + j] = L[k][j]
    BY <1>1, <1>11, <2>1 DEF LaidTo
  <2>3. u[h[k - 1] + j] = M[k][j]
    BY <1>11, <2>1 DEF LaidTo
  <2> QED
    BY <1>1, <1>7, <1>8, <2>2, <2>3 DEF IsWord, m, T
<1>14. ASSUME NEW i \in 1 .. n PROVE \E k, j : IsWord(segs, h, i, k, j)
  <2>1. PICK k \in 1 .. m : \E j \in 1 .. Len(L[k]) : i = h[k - 1] + j
    BY <1>1, <1>11 DEF LaidTo
  <2>2. PICK j \in 1 .. Len(L[k]) : i = h[k - 1] + j
    BY <2>1
  <2>3. j \in 1 .. Len(segs[k].words)
    BY <1>1
  <2>4. IsWord(segs, h, i, k, j)
    BY <1>13, <2>2, <2>3
  <2> QED
    BY <2>4
<1>15. /\ h[0] = 0 /\ h \in [0 .. m -> Nat]
       /\ \A k \in 1 .. m : h[k] = h[k - 1] + Len(segs[k].words)
  BY <1>1 DEF Ends
<1>16. DOMAIN AllWords(DerivedAll(segs)) = 1 .. n /\ Len(AllWords(DerivedAll(segs))) = n
  BY <1>7, <1>12 DEF T
<1>17. \A k \in 1 .. m : DerivedAll(segs)[k].words = Derived(segs[k].words)
  BY <1>4 DEF T
<1>18. DOMAIN DerivedAll(segs) = 1 .. m
  BY <1>5 DEF T
<1> QED
  BY <1>13, <1>14, <1>15, <1>16, <1>17, <1>18 DEF n, m

\* What the properties say of a projection.
NamesKept(told, n) ==
    [i \in DOMAIN AllWords(told) |-> AllWords(told)[i].id] = [i \in 1 .. n |-> i]
TimesKept(heardSegs, toldSegs, policy) ==
    LET heard == AllWords(heardSegs)
        told == AllWords(toldSegs)
        FirstOfSegment(i) == \E k \in DOMAIN toldSegs : told[i] = toldSegs[k].words[1]
    IN  /\ \A i \in DOMAIN told : told[i].start < told[i].end
        /\ Filled(told) = Filled(heard)
        /\ \A i \in DOMAIN told :
              /\ i > 1 => told[i].start >= told[i - 1].end
                              - (IF policy = "strict" \/ FirstOfSegment(i) THEN 1 ELSE 0)
              /\ told[i] # heard[i] =>
                    \E j \in DOMAIN heard :
                        IsPoint(heard[j]) /\ heard[j].start = heard[i].start

\* The strict projection is what was heard.
LEMMA StrictTold ==
    ASSUME NEW segs, NEW W, NEW seg, NEW near, IsHeard(segs, W, seg, near), Hosted(segs, W, seg),
           \A i \in 1 .. Len(W) : W[i].start < W[i].end
    PROVE  NamesKept(segs, Len(W)) /\ TimesKept(segs, segs, "strict")
<1> DEFINE n == Len(W)
           N == Numbered(W)
<1>1. AllWords(segs) = N
  BY AllWordsHeard
<1>2. /\ n \in Nat /\ W \in Seq(HWindow)
      /\ \A i \in 1 .. n : W[i].start \in Int /\ W[i].end \in Int
  BY HeardTypes
<1>3. /\ N \in Seq(HWord) /\ Len(N) = n
      /\ \A i \in 1 .. n : N[i].id = i /\ N[i].start = W[i].start /\ N[i].end = W[i].end
  BY <1>2, NumberedWords
<1>4. ASSUME NEW i \in 1 .. n, i > 1 PROVE W[i].start >= W[i - 1].end - 1
  <2>1. i \in 2 .. n /\ i - 1 \in 1 .. n
    BY <1>2, <1>4
  <2>2. W[i].start >= W[i - 1].end \/ W[i].start >= W[i - 1].end - 1
    BY <2>1 DEF IsHeard
  <2> QED
    BY <1>2, <2>1, <2>2
<1> HIDE DEF N, n
<1>5. DOMAIN N = 1 .. n
  BY <1>3, LenProperties
<1>6. NamesKept(segs, n)
  BY <1>1, <1>3, <1>5 DEF NamesKept
<1>7. \A i \in 1 .. n : N[i].start < N[i].end
  BY <1>3 DEF n
<1>8. ASSUME NEW i \in 1 .. n, i > 1 PROVE N[i].start >= N[i - 1].end - 1
  <2>1. i - 1 \in 1 .. n
    BY <1>2, <1>8
  <2> QED
    BY <1>3, <1>4, <1>8, <2>1
<1>9. TimesKept(segs, segs, "strict")
  BY <1>1, <1>5, <1>7, <1>8 DEF TimesKept
<1> QED
  BY <1>6, <1>9 DEF n

\* The derived projection fills the same time, segment by segment.
LEMMA DerivedFillsAll ==
    ASSUME NEW segs, NEW W, NEW seg, NEW near, IsHeard(segs, W, seg, near), Hosted(segs, W, seg),
           \A k \in 1 .. Len(segs) : Derivable(segs[k])
    PROVE  Filled(AllWords(DerivedAll(segs))) = Filled(AllWords(segs))
<1> DEFINE n == Len(W)
           m == Len(segs)
           h == CutsOf(seg, n, m)
           t == AllWords(segs)
           u == AllWords(DerivedAll(segs))
<1>1. /\ DOMAIN u = 1 .. n
      /\ \A i \in 1 .. n : \E k, j : IsWord(segs, h, i, k, j)
      /\ \A k \in 1 .. m : \A j \in 1 .. Len(segs[k].words) :
            h[k - 1] + j \in 1 .. n /\ IsWord(segs, h, h[k - 1] + j, k, j)
  <2> DEFINE g == h
  <2>1. g = CutsOf(seg, Len(W), Len(segs))
    OBVIOUS
  <2> HIDE DEF g
  <2>2. /\ DOMAIN AllWords(DerivedAll(segs)) = 1 .. Len(W)
        /\ \A i \in 1 .. Len(W) : \E k, j : IsWord(segs, g, i, k, j)
        /\ \A k \in 1 .. Len(segs) : \A j \in 1 .. Len(segs[k].words) :
              g[k - 1] + j \in 1 .. Len(W) /\ IsWord(segs, g, g[k - 1] + j, k, j)
    BY <2>1, ToldWords
  <2> QED
    BY <2>2 DEF g
<1>2. /\ n \in Nat /\ W \in Seq(HWindow)
  BY HeardTypes
<1>3. DOMAIN t = 1 .. n
  <2>1. t = Numbered(W) /\ Numbered(W) \in Seq(HWord) /\ Len(Numbered(W)) = n
    BY <1>2, AllWordsHeard, NumberedWords
  <2> HIDE DEF t
  <2>2. t \in Seq(HWord) /\ Len(t) = n
    BY <2>1
  <2> QED
    BY <2>2, LenProperties
<1>4. ASSUME NEW k \in 1 .. m
      PROVE  /\ DOMAIN segs[k].words = 1 .. Len(segs[k].words)
             /\ DOMAIN Derived(segs[k].words) = 1 .. Len(segs[k].words)
             /\ \A x : SaidAt(Derived(segs[k].words), x) <=> SaidAt(segs[k].words, x)
  <2> DEFINE w == segs[k].words
             D == Derived(w)
  <2>1. Proper(w)
    BY HeardIsProper
  <2> HIDE DEF w
  <2>2. w \in Seq(HWord)
    BY <2>1 DEF Proper
  <2>3. DOMAIN w = 1 .. Len(w) /\ DOMAIN D = 1 .. Len(w)
    BY <2>2, LenProperties, DerivedIds
  <2>4. Derivable(segs[k])
    OBVIOUS
  <2>5. \A i \in 1 .. Len(w) : Anchored(w, i)
    BY <2>3, <2>4 DEF Derivable, w
  <2>6. \A x : SaidAt(D, x) <=> SaidAt(w, x)
    BY <2>1, <2>5, DerivedFills
  <2> QED
    BY <2>3, <2>6 DEF w
<1> HIDE DEF t, u, h, n, m
<1>5. ASSUME NEW x, SaidAt(u, x) PROVE SaidAt(t, x)
  <2>1. PICK i \in 1 .. n : x \in u[i].start .. u[i].end - 1
    BY <1>1, <1>5 DEF SaidAt
  <2>2. PICK k, j : IsWord(segs, h, i, k, j)
    BY <1>1
  <2> DEFINE w == segs[k].words
             D == Derived(w)
  <2>3. k \in 1 .. m /\ j \in 1 .. Len(w) /\ u[i] = D[j]
    BY <2>2 DEF IsWord, m, u
  <2>4. SaidAt(D, x)
    BY <1>4, <2>1, <2>3 DEF SaidAt
  <2>5. SaidAt(w, x)
    BY <1>4, <2>3, <2>4
  <2>6. PICK p \in 1 .. Len(w) : x \in w[p].start .. w[p].end - 1
    BY <1>4, <2>3, <2>5 DEF SaidAt
  <2>7. h[k - 1] + p \in 1 .. n /\ IsWord(segs, h, h[k - 1] + p, k, p)
    BY <1>1, <2>3
  <2>8. t[h[k - 1] + p] = w[p]
    BY <2>7 DEF IsWord, t
  <2> QED
    BY <1>3, <2>6, <2>7, <2>8 DEF SaidAt
<1>6. ASSUME NEW x, SaidAt(t, x) PROVE SaidAt(u, x)
  <2>1. PICK i \in 1 .. n : x \in t[i].start .. t[i].end - 1
    BY <1>3, <1>6 DEF SaidAt
  <2>2. PICK k, j : IsWord(segs, h, i, k, j)
    BY <1>1
  <2> DEFINE w == segs[k].words
             D == Derived(w)
  <2>3. k \in 1 .. m /\ j \in 1 .. Len(w) /\ t[i] = w[j]
    BY <2>2 DEF IsWord, m, t
  <2>4. SaidAt(w, x)
    BY <1>4, <2>1, <2>3 DEF SaidAt
  <2>5. SaidAt(D, x)
    BY <1>4, <2>3, <2>4
  <2>6. PICK p \in 1 .. Len(w) : x \in D[p].start .. D[p].end - 1
    BY <1>4, <2>3, <2>5 DEF SaidAt
  <2>7. h[k - 1] + p \in 1 .. n /\ IsWord(segs, h, h[k - 1] + p, k, p)
    BY <1>1, <2>3
  <2>8. u[h[k - 1] + p] = D[p]
    BY <2>7 DEF IsWord, u
  <2> QED
    BY <1>1, <2>6, <2>7, <2>8 DEF SaidAt
<1>7. \A x : x \in Filled(u) <=> x \in Filled(t)
  BY <1>5, <1>6, FilledIs
<1> HIDE DEF Filled
<1>8. Filled(u) = Filled(t)
  BY <1>7
<1> QED
  BY <1>8 DEF u, t

\* The words of the derived projection follow each other.
LEMMA DerivedFollow ==
    ASSUME NEW segs, NEW W, NEW seg, NEW near, IsHeard(segs, W, seg, near), Hosted(segs, W, seg),
           \A k \in 1 .. Len(segs) : Derivable(segs[k]),
           NEW u, u = AllWords(DerivedAll(segs)), NEW i \in 1 .. Len(W)
    PROVE  /\ u[i].id = i
           /\ u[i].start < u[i].end
           /\ i > 1 => \/ u[i].start >= u[i - 1].end
                       \/ /\ u[i].start >= u[i - 1].end - 1
                          /\ \E k \in DOMAIN DerivedAll(segs) : u[i] = DerivedAll(segs)[k].words[1]
           /\ u[i] # AllWords(segs)[i] =>
                 \E j \in 1 .. Len(W) :
                     IsPoint(AllWords(segs)[j]) /\ AllWords(segs)[j].start = AllWords(segs)[i].start
<1> DEFINE n == Len(W)
           m == Len(segs)
           h == CutsOf(seg, n, m)
           t == AllWords(segs)
           T == DerivedAll(segs)
<1>1. /\ \A p \in 1 .. n : \E k, j : IsWord(segs, h, p, k, j)
      /\ \A k \in 1 .. m : \A j \in 1 .. Len(segs[k].words) :
            h[k - 1] + j \in 1 .. n /\ IsWord(segs, h, h[k - 1] + j, k, j)
      /\ \A k \in 1 .. m : T[k].words = Derived(segs[k].words)
      /\ DOMAIN T = 1 .. m
      /\ h[0] = 0 /\ h \in [0 .. m -> Nat]
      /\ \A k \in 1 .. m : h[k] = h[k - 1] + Len(segs[k].words)
  <2> DEFINE g == h
  <2>1. g = CutsOf(seg, Len(W), Len(segs))
    OBVIOUS
  <2> HIDE DEF g
  <2>2. /\ \A p \in 1 .. Len(W) : \E k, j : IsWord(segs, g, p, k, j)
        /\ \A k \in 1 .. Len(segs) : \A j \in 1 .. Len(segs[k].words) :
              g[k - 1] + j \in 1 .. Len(W) /\ IsWord(segs, g, g[k - 1] + j, k, j)
        /\ \A k \in 1 .. Len(segs) : DerivedAll(segs)[k].words = Derived(segs[k].words)
        /\ DOMAIN DerivedAll(segs) = 1 .. Len(segs)
        /\ g[0] = 0 /\ g \in [0 .. Len(segs) -> Nat]
        /\ \A k \in 1 .. Len(segs) : g[k] = g[k - 1] + Len(segs[k].words)
    BY <2>1, ToldWords
  <2> QED
    BY <2>2 DEF g
<1>2. /\ n \in Nat /\ m \in Nat /\ W \in Seq(HWindow)
      /\ \A k \in 1 .. m : segs[k].start \in Int /\ segs[k].end \in Int /\ segs[k].words \in Seq(HWord)
  BY HeardTypes
<1>3. \A p \in 1 .. n : t[p].id = p
  <2>1. t = Numbered(W)
    BY AllWordsHeard
  <2>2. \A p \in 1 .. n : Numbered(W)[p].id = p
    BY <1>2, NumberedWords
  <2> QED
    BY <2>1, <2>2
<1>4. ASSUME NEW k \in 1 .. m
      PROVE  /\ Proper(segs[k].words) /\ Len(segs[k].words) \in Nat
             /\ \A j \in 1 .. Len(segs[k].words) :
                   /\ Anchored(segs[k].words, j)
                   /\ Derived(segs[k].words)[j].id = segs[k].words[j].id
                   /\ Derived(segs[k].words)[j].start \in Int
                   /\ Derived(segs[k].words)[j].end \in Int
                   /\ Derived(segs[k].words)[j].start < Derived(segs[k].words)[j].end
                   /\ segs[k].start <= Derived(segs[k].words)[j].start
                   /\ Derived(segs[k].words)[j].end <= segs[k].end
                   /\ j > 1 => Derived(segs[k].words)[j - 1].end <= Derived(segs[k].words)[j].start
  <2> DEFINE w == segs[k].words
             D == Derived(w)
  <2>1. Proper(w)
    BY HeardIsProper
  <2>2. Derivable(segs[k])
    OBVIOUS
  <2> HIDE DEF w
  <2>3. w \in Seq(HWord)
    BY <2>1 DEF Proper
  <2>4. DOMAIN w = 1 .. Len(w) /\ DOMAIN D = 1 .. Len(w) /\ Len(w) \in Nat /\ D \in Seq(HWord)
    BY <2>3, LenProperties, DerivedIds
  <2> HIDE DEF D
  <2>5. \A j \in 1 .. Len(w) : D[j] \in HWord
    BY <2>4
  <2>6. \A j \in 1 .. Len(w) : D[j].start \in Int /\ D[j].end \in Int
    BY <2>5 DEF HWord
  <2>7. \A j \in 1 .. Len(w) : D[j].id = w[j].id
    BY <2>3, DerivedIds DEF D
  <2>8. \A j \in 1 .. Len(w) :
           /\ Anchored(w, j)
           /\ D[j].start < D[j].end /\ segs[k].start <= D[j].start /\ D[j].end <= segs[k].end
           /\ j > 1 => D[j - 1].end <= D[j].start
    BY <2>2, <2>4 DEF Derivable, w, D
  <2> QED
    BY <2>1, <2>4, <2>6, <2>7, <2>8 DEF w, D
<1>5. PICK k, j : IsWord(segs, h, i, k, j)
  BY <1>1
<1> DEFINE w == segs[k].words
           D == Derived(w)
<1>6. k \in 1 .. m /\ j \in 1 .. Len(w) /\ i = h[k - 1] + j /\ t[i] = w[j] /\ u[i] = D[j]
  BY <1>5 DEF IsWord
<1>7. \A q \in 2 .. m : segs[q].start >= segs[q - 1].end - 1
  BY DEF IsHeard
<1>8. \A q \in 1 .. m : Len(segs[q].words) >= 1
  <2> TAKE q \in 1 .. m
  <2>1. PICK p \in 1 .. n : seg[p] = q
    BY DEF IsHeard
  <2>2. HasItsWords(segs[q].words, W, seg, q)
    BY WordsOfSegment
  <2>3. \E v \in 1 .. Len(segs[q].words) : segs[q].words[v] = Numbered(W)[p]
    BY <2>1, <2>2 DEF HasItsWords
  <2>4. Len(segs[q].words) \in Nat
    BY <1>4
  <2> QED
    BY <2>3, <2>4
<1>9. \A q \in 1 .. m : \A v \in 1 .. Len(segs[q].words) :
         /\ t[h[q - 1] + v] = segs[q].words[v]
         /\ u[h[q - 1] + v] = Derived(segs[q].words)[v]
         /\ h[q - 1] + v \in 1 .. n
  BY <1>1 DEF IsWord
<1> HIDE DEF t, T, h, n, m
<1>10. u[i].id = i
  BY <1>3, <1>4, <1>6 DEF n
<1>11. u[i].start < u[i].end
  BY <1>4, <1>6
<1>12. ASSUME i > 1, j > 1 PROVE u[i].start >= u[i - 1].end
  <2>0. Len(w) \in Nat /\ m \in Nat /\ k - 1 \in 0 .. m
    BY <1>2, <1>4, <1>6
  <2>1. j - 1 \in 1 .. Len(w) /\ h[k - 1] \in Nat /\ j \in Nat
    BY <1>1, <1>6, <1>12, <2>0
  <2>2. u[h[k - 1] + (j - 1)] = D[j - 1]
    BY <1>6, <1>9, <2>1
  <2>3. h[k - 1] + (j - 1) = i - 1
    <3> DEFINE a == h[k - 1]
    <3>1. a \in Nat /\ j \in Nat /\ i = a + j
      BY <1>6, <2>1
    <3> HIDE DEF a
    <3>2. a + (j - 1) = i - 1
      BY <3>1
    <3> QED
      BY <3>2 DEF a
  <2>4. D[j - 1].end <= D[j].start /\ D[j - 1].end \in Int /\ D[j].start \in Int
    BY <1>4, <1>6, <1>12, <2>1
  <2> QED
    BY <1>6, <2>2, <2>3, <2>4
<1>13. ASSUME i > 1, j = 1
       PROVE  /\ u[i].start >= u[i - 1].end - 1
              /\ \E q \in DOMAIN T : u[i] = T[q].words[1]
  <2>1. u[i] = T[k].words[1] /\ k \in DOMAIN T
    BY <1>1, <1>6, <1>13
  <2>2. h[k - 1] = i - 1 /\ i \in Nat
    <3>1. h[k - 1] \in Nat
      BY <1>1, <1>2, <1>6
    <3> QED
      BY <1>2, <1>6, <1>13, <3>1
  <2>3. k # 1
    BY <1>1, <1>13, <2>2
  <2>4. k - 1 \in 1 .. m /\ k \in 2 .. m
    BY <1>2, <1>6, <2>3
  <2> DEFINE l == Len(segs[k - 1].words)
  <2>5. l \in Nat /\ l >= 1 /\ l \in 1 .. l
    BY <1>4, <1>8, <2>4
  <2>6. h[k - 1] = h[(k - 1) - 1] + l
    BY <1>1, <2>4
  <2>7. u[i - 1] = Derived(segs[k - 1].words)[l]
    BY <1>9, <2>2, <2>4, <2>5, <2>6
  <2>8. u[i - 1].end <= segs[k - 1].end /\ u[i - 1].end \in Int
    BY <1>4, <2>4, <2>5, <2>7
  <2>9. segs[k].start <= u[i].start /\ u[i].start \in Int
    BY <1>4, <1>6
  <2>10. segs[k].start >= segs[k - 1].end - 1
    BY <1>7, <2>4
  <2>11. segs[k].start \in Int /\ segs[k - 1].end \in Int
    BY <1>2, <1>6, <2>4
  <2> HIDE DEF l
  <2>12. u[i].start >= u[i - 1].end - 1
    BY <2>8, <2>9, <2>10, <2>11
  <2> QED
    BY <2>1, <2>12
<1>14. ASSUME u[i] # t[i]
       PROVE  \E p \in 1 .. n : IsPoint(t[p]) /\ t[p].start = t[i].start
  <2>1. Proper(w) /\ Anchored(w, j) /\ D[j] # w[j]
    BY <1>4, <1>6, <1>14
  <2> HIDE DEF w, D
  <2>2. PICK v \in 1 .. Len(w) : IsPoint(w[v]) /\ w[v].start = w[j].start
    BY <1>6, <2>1, ChangedSharesAPoint DEF D
  <2>3. t[h[k - 1] + v] = w[v] /\ h[k - 1] + v \in 1 .. n
    BY <1>6, <1>9 DEF w
  <2> QED
    BY <1>6, <2>2, <2>3
<1>15. j = 1 \/ j > 1
  BY <1>4, <1>6
<1> QED
  BY <1>10, <1>11, <1>12, <1>13, <1>14, <1>15 DEF t, T, n

\* The derived projection keeps every word and the time that was heard.
LEMMA DerivedTold ==
    ASSUME NEW segs, NEW W, NEW seg, NEW near, IsHeard(segs, W, seg, near), Hosted(segs, W, seg),
           \A k \in 1 .. Len(segs) : Derivable(segs[k])
    PROVE  NamesKept(DerivedAll(segs), Len(W)) /\ TimesKept(segs, DerivedAll(segs), "derived")
<1> DEFINE n == Len(W)
           t == AllWords(segs)
           T == DerivedAll(segs)
           u == AllWords(T)
<1>1. DOMAIN u = 1 .. n
  BY ToldWords
<1>2. n \in Nat /\ W \in Seq(HWindow)
  BY HeardTypes
<1>3. DOMAIN t = 1 .. n
  <2>1. t = Numbered(W) /\ Numbered(W) \in Seq(HWord) /\ Len(Numbered(W)) = n
    BY <1>2, AllWordsHeard, NumberedWords
  <2> HIDE DEF t
  <2>2. t \in Seq(HWord) /\ Len(t) = n
    BY <2>1
  <2> QED
    BY <2>2, LenProperties
<1>4. Filled(u) = Filled(t)
  BY DerivedFillsAll
<1> HIDE DEF u
<1>5. \A i \in 1 .. n :
         /\ u[i].id = i
         /\ u[i].start < u[i].end
         /\ i > 1 => \/ u[i].start >= u[i - 1].end
                     \/ /\ u[i].start >= u[i - 1].end - 1
                        /\ \E k \in DOMAIN T : u[i] = T[k].words[1]
         /\ u[i] # t[i] => \E j \in 1 .. n : IsPoint(t[j]) /\ t[j].start = t[i].start
  <2>1. u = AllWords(DerivedAll(segs))
    BY DEF u
  <2> QED
    BY <2>1, DerivedFollow
<1>6. NamesKept(T, n)
  BY <1>1, <1>5 DEF NamesKept, u
<1>7. \A i \in 1 .. n : i > 1 => u[i].start \in Int /\ u[i - 1].end \in Int
  <2>1. T = DerivedAll(segs) /\ u = AllWords(T)
    BY DEF u
  <2> TAKE i \in 1 .. n
  <2> HAVE i > 1
  <2>2. i - 1 \in 1 .. n
    BY <1>2
  <2>3. \A p \in 1 .. n : u[p].start \in Int /\ u[p].end \in Int
    <3> TAKE p \in 1 .. n
    <3> DEFINE h == CutsOf(seg, Len(W), Len(segs))
    <3>1. PICK k, j : IsWord(segs, h, p, k, j)
      <4> DEFINE g == h
      <4>1. g = CutsOf(seg, Len(W), Len(segs))
        OBVIOUS
      <4> HIDE DEF g
      <4>2. \A x \in 1 .. Len(W) : \E k, j : IsWord(segs, g, x, k, j)
        BY <4>1, ToldWords
      <4> QED
        BY <4>2 DEF g
    <3> DEFINE D == Derived(segs[k].words)
    <3>2. k \in 1 .. Len(segs) /\ j \in 1 .. Len(segs[k].words) /\ u[p] = D[j]
      BY <2>1, <3>1 DEF IsWord
    <3>3. segs[k].words \in Seq(HWord)
      BY <3>2, HeardTypes
    <3>4. D \in Seq(HWord) /\ Len(D) = Len(segs[k].words)
      BY <3>3, DerivedIds
    <3> HIDE DEF D
    <3>5. D[j] \in HWord
      BY <3>2, <3>4
    <3> QED
      BY <3>2, <3>5 DEF HWord
  <2> QED
    BY <2>2, <2>3
<1> HIDE DEF t, T, n
<1>8. /\ AllWords(T) = u /\ AllWords(segs) = t
  BY DEF u, t
<1>9. \A i \in 1 .. n : i > 1 =>
         u[i].start >= u[i - 1].end
            - (IF "derived" = "strict" \/ \E k \in DOMAIN T : u[i] = T[k].words[1] THEN 1 ELSE 0)
  BY <1>5, <1>7
<1>10. TimesKept(segs, T, "derived")
  BY <1>1, <1>3, <1>4, <1>5, <1>8, <1>9 DEF TimesKept
<1> QED
  BY <1>6, <1>10 DEF T, n

-----------------------------------------------------------------------------
(* Transcripts: what the adapters map.                                     *)

LEMMA CanonicalWindows ==
    ASSUME NEW items \in Seq(HWindow)
    PROVE  /\ Canonical(items) \in Seq(HWindow) /\ Len(Canonical(items)) = Len(items)
           /\ Len(items) \in Nat /\ DOMAIN items = 1 .. Len(items)
           /\ DOMAIN Canonical(items) = 1 .. Len(items)
           /\ \A i \in 1 .. Len(items) :
                 /\ items[i].start \in Int /\ items[i].end \in Int
                 /\ Canonical(items)[i].start = Rounded(items[i].start)
                 /\ Canonical(items)[i].end = Rounded(items[i].end)
                 /\ Rounded(items[i].start) \in Int /\ Rounded(items[i].end) \in Int
                 /\ items[i].start <= items[i].end =>
                       Rounded(items[i].start) <= Rounded(items[i].end)
<1> DEFINE n == Len(items)
           W == Canonical(items)
<1>1. n \in Nat /\ DOMAIN items = 1 .. n
  BY LenProperties
<1>2. \A i \in 1 .. n : items[i].start \in Int /\ items[i].end \in Int
  <2> TAKE i \in 1 .. n
  <2>1. items[i] \in HWindow
    BY <1>1
  <2> QED
    BY <2>1 DEF HWindow
<1>3. \A t \in Int : Rounded(t) \in Int
  BY DEF Rounded
<1>4. \A s, t \in Int : s <= t => Rounded(s) <= Rounded(t)
  BY DEF Rounded
<1>5. W = [i \in 1 .. n |-> [start |-> Rounded(items[i].start), end |-> Rounded(items[i].end)]]
  BY <1>1 DEF Canonical
<1>6. W \in [1 .. n -> HWindow]
  <2>1. \A i \in 1 .. n :
           [start |-> Rounded(items[i].start), end |-> Rounded(items[i].end)] \in HWindow
    BY <1>2, <1>3 DEF HWindow
  <2> HIDE DEF W
  <2> QED
    BY <1>5, <2>1
<1> HIDE DEF W
<1>7. W \in Seq(HWindow) /\ Len(W) = n
  BY <1>1, <1>6, FunctionIsList
<1>8. DOMAIN W = 1 .. n
  BY <1>5
<1>9. \A i \in 1 .. n : W[i].start = Rounded(items[i].start) /\ W[i].end = Rounded(items[i].end)
  BY <1>5
<1> QED
  BY <1>1, <1>2, <1>3, <1>4, <1>7, <1>8, <1>9 DEF W

\* Words at some positions; where there are words, there is a position.
LEMMA EntriesOfWords ==
    ASSUME NEW W \in Seq(HWindow), NEW I \in SUBSET (1 .. Len(W))
    PROVE  /\ Entries(Numbered(W), I) \in Seq(HWord)
           /\ Entries(Numbered(W), I) # <<>> => \E i \in 1 .. Len(W) : i \in I
<1> DEFINE N == Numbered(W)
           t == Entries(N, I)
<1>1. Len(W) \in Nat
  BY LenProperties
<1>2. IsFiniteSet(I) /\ I \in SUBSET Nat
  <2> DEFINE U == 1 .. Len(W)
  <2>1. IsFiniteSet(U) /\ I \in SUBSET U
    BY <1>1, FS_Interval
  <2> HIDE DEF U
  <2>2. IsFiniteSet(I)
    BY <2>1, FS_Subset
  <2> QED
    BY <1>1, <2>2
<1>3. N \in Seq(HWord) /\ Len(N) = Len(W)
  BY NumberedWords
<1> HIDE DEF N
<1>4. PICK o : PickedBy(t, N, I, o)
  BY <1>2, EntriesAre
<1> HIDE DEF t
<1>5. Len(o) \in Nat /\ \A n \in 1 .. Len(o) : o[n] \in I /\ t[n] = N[o[n]]
  BY <1>4 DEF PickedBy
<1>6. \A n \in 1 .. Len(o) : t[n] \in HWord
  <2>1. \A i \in 1 .. Len(W) : N[i] \in HWord
    BY <1>3
  <2>2. \A n \in 1 .. Len(o) : o[n] \in 1 .. Len(W)
    BY <1>5
  <2> QED
    BY <1>5, <2>1, <2>2
<1>7. t \in [1 .. Len(o) -> HWord]
  BY <1>4, <1>6 DEF PickedBy
<1>8. t \in Seq(HWord) /\ Len(t) = Len(o)
  BY <1>5, <1>7, FunctionIsList
<1>9. t # <<>> => 1 \in 1 .. Len(o)
  BY <1>5, <1>8, EmptySeq, LenProperties
<1>10. t # <<>> => \E i \in 1 .. Len(W) : i \in I
  BY <1>5, <1>9
<1> QED
  BY <1>8, <1>10 DEF t, N

\* Some segments hold the word, and where one alone does, it is a candidate;
\* a word with duration belongs to all that can hold it.
LEMMA SegmentsForIs ==
    ASSUME NEW words, NEW segments, NEW i
    PROVE  /\ SegmentsFor(words, segments, i)
                \subseteq {k \in DOMAIN segments : Within(words[i], segments[k], i)}
           /\ words[i].start < words[i].end =>
                SegmentsFor(words, segments, i)
                  = {k \in DOMAIN segments : Within(words[i], segments[k], i)}
<1> DEFINE C == {k \in DOMAIN segments : Within(words[i], segments[k], i)}
           A == {k \in C : NearBy(words[i].start, segments[k].start, i)}
           B == {k \in C : segments[k].start <= words[i].start /\ words[i].start < segments[k].end}
           D == {k \in C : k = Len(segments) /\ words[i].start = segments[k].end}
           F == SegmentsFor(words, segments, i)
<1>1. F = IF words[i].start < words[i].end \/ C = {} THEN C
          ELSE IF Cardinality(A) = 1 THEN A
          ELSE IF Cardinality(B) = 1 THEN B
          ELSE IF Cardinality(C) > 1 /\ D # {} THEN D
          ELSE C
  BY DEF SegmentsFor
<1>2. A \subseteq C /\ B \subseteq C /\ D \subseteq C
  OBVIOUS
<1> HIDE DEF A, B, C, D, F
<1>3. F \subseteq C /\ (words[i].start < words[i].end => F = C)
  BY <1>1, <1>2
<1> QED
  BY <1>3 DEF C, F

Taken(words, segments, k) ==
    Entries(Numbered(words), {i \in DOMAIN words : SegmentsFor(words, segments, i) = {k}})

\* What a mapped response passed.
Passed(r, words, segments) ==
    /\ UsableTimes(r.segments, "segment") /\ UsableTimes(r.words, "word")
    /\ Ordered(segments) /\ Ordered(words)
    /\ \A i \in DOMAIN words : Cardinality(SegmentsFor(words, segments, i)) = 1
    /\ \A k \in DOMAIN segments : Taken(words, segments, k) # <<>>
    /\ Mapped(r) = [k \in DOMAIN segments |->
          [start |-> segments[k].start, end |-> segments[k].end,
           words |-> Taken(words, segments, k)]]

LEMMA MappedPassed ==
    ASSUME NEW r, Mapped(r) # <<>>
    PROVE  Passed(r, Canonical(r.words), Canonical(r.segments))
BY DEF Mapped, Taken, Passed

LEMMA MappedIsHeard ==
    ASSUME NEW r \in HResponses, Mapped(r) # <<>>
    PROVE  \E seg : IsHeard(Mapped(r), Canonical(r.words), seg, hNear)
<1> DEFINE W == Canonical(r.words)
           S == Canonical(r.segments)
           T == Mapped(r)
<1>1. r.words \in Seq(HWindow) /\ r.segments \in Seq(HWindow)
  BY TranscriptConstants
<1>2. PICK n \in Nat : n = Len(r.words) /\ n = Len(W) /\ W \in Seq(HWindow) /\ DOMAIN W = 1 .. n
  <2> DEFINE items == r.words
  <2> HIDE DEF items
  <2>1. items \in Seq(HWindow)
    BY <1>1 DEF items
  <2>2. /\ Canonical(items) \in Seq(HWindow) /\ Len(Canonical(items)) = Len(items)
        /\ Len(items) \in Nat /\ DOMAIN Canonical(items) = 1 .. Len(items)
    BY <2>1, CanonicalWindows
  <2> QED
    BY <2>2 DEF items
<1>3. PICK m \in Nat : m = Len(r.segments) /\ m = Len(S) /\ DOMAIN S = 1 .. m
  <2> DEFINE items == r.segments
  <2> HIDE DEF items
  <2>1. items \in Seq(HWindow)
    BY <1>1 DEF items
  <2>2. /\ Len(Canonical(items)) = Len(items)
        /\ Len(items) \in Nat /\ DOMAIN Canonical(items) = 1 .. Len(items)
    BY <2>1, CanonicalWindows
  <2> QED
    BY <2>2 DEF items
<1>4. /\ DOMAIN r.words = 1 .. n
      /\ \A i \in 1 .. n :
            /\ W[i].start \in Int /\ W[i].end \in Int
            /\ r.words[i].start \in Int /\ r.words[i].end \in Int
            /\ r.words[i].start <= r.words[i].end => W[i].start <= W[i].end
  <2> DEFINE items == r.words
  <2> HIDE DEF items
  <2>1. items \in Seq(HWindow)
    BY <1>1 DEF items
  <2>2. /\ DOMAIN items = 1 .. Len(items)
        /\ \A i \in 1 .. Len(items) :
              /\ items[i].start \in Int /\ items[i].end \in Int
              /\ Canonical(items)[i].start = Rounded(items[i].start)
              /\ Canonical(items)[i].end = Rounded(items[i].end)
              /\ Rounded(items[i].start) \in Int /\ Rounded(items[i].end) \in Int
              /\ items[i].start <= items[i].end =>
                    Rounded(items[i].start) <= Rounded(items[i].end)
    BY <2>1, CanonicalWindows
  <2>3. \A i \in 1 .. Len(items) :
           /\ Canonical(items)[i].start \in Int /\ Canonical(items)[i].end \in Int
           /\ items[i].start \in Int /\ items[i].end \in Int
           /\ items[i].start <= items[i].end => Canonical(items)[i].start <= Canonical(items)[i].end
    BY <2>2
  <2> QED
    BY <1>2, <2>2, <2>3 DEF items
<1>5. /\ DOMAIN r.segments = 1 .. m
      /\ \A k \in 1 .. m :
            /\ S[k].start = Rounded(r.segments[k].start) /\ S[k].end = Rounded(r.segments[k].end)
            /\ S[k].start \in Int /\ S[k].end \in Int
            /\ r.segments[k].start \in Int /\ r.segments[k].end \in Int
  <2> DEFINE items == r.segments
  <2> HIDE DEF items
  <2>1. items \in Seq(HWindow)
    BY <1>1 DEF items
  <2>2. /\ DOMAIN items = 1 .. Len(items)
        /\ \A i \in 1 .. Len(items) :
              /\ items[i].start \in Int /\ items[i].end \in Int
              /\ Canonical(items)[i].start = Rounded(items[i].start)
              /\ Canonical(items)[i].end = Rounded(items[i].end)
              /\ Rounded(items[i].start) \in Int /\ Rounded(items[i].end) \in Int
    BY <2>1, CanonicalWindows
  <2>3. \A k \in 1 .. Len(items) :
            /\ Canonical(items)[k].start = Rounded(items[k].start)
            /\ Canonical(items)[k].end = Rounded(items[k].end)
            /\ Canonical(items)[k].start \in Int /\ Canonical(items)[k].end \in Int
            /\ items[k].start \in Int /\ items[k].end \in Int
    BY <2>2
  <2> QED
    BY <1>3, <2>2, <2>3 DEF items
<1> HIDE DEF W, S
<1>6. /\ UsableTimes(r.segments, "segment") /\ UsableTimes(r.words, "word")
      /\ Ordered(S) /\ Ordered(W)
      /\ \A i \in DOMAIN W : Cardinality(SegmentsFor(W, S, i)) = 1
      /\ \A k \in DOMAIN S : Taken(W, S, k) # <<>>
      /\ T = [k \in DOMAIN S |->
            [start |-> S[k].start, end |-> S[k].end, words |-> Taken(W, S, k)]]
  <2>1. Passed(r, W, S)
    BY MappedPassed DEF W, S
  <2> QED
    BY <2>1 DEF Passed
<1>7. \A i \in 1 .. n : r.words[i].start <= r.words[i].end
  BY <1>4, <1>6 DEF UsableTimes
<1>8. \A k \in 1 .. m : S[k].start < S[k].end
  <2> TAKE k \in 1 .. m
  <2>1. r.segments[k].start <= r.segments[k].end /\ r.segments[k].start # r.segments[k].end
    BY <1>5, <1>6 DEF UsableTimes
  <2>2. r.segments[k].start < r.segments[k].end
    BY <1>5, <2>1
  <2> QED
    BY <1>5, <1>6, <2>2 DEF UsableTimes
<1>9. \A i \in 2 .. n :
         \/ W[i].start >= W[i - 1].end
         \/ W[i].start >= W[i - 1].end - 1 /\ i \in hNear
  <2> TAKE i \in 2 .. n
  <2>1. i \in 1 .. n /\ i - 1 \in 1 .. n /\ i > 1
    OBVIOUS
  <2>2. W[i].start >= W[i - 1].end \/ NearBy(W[i].start, W[i - 1].end, i)
    BY <1>2, <1>6, <2>1 DEF Ordered
  <2> QED
    BY <1>4, <2>1, <2>2 DEF NearBy
<1>10. \A k \in 2 .. m : S[k].start >= S[k - 1].end - 1
  <2> TAKE k \in 2 .. m
  <2>1. k \in 1 .. m /\ k - 1 \in 1 .. m /\ k > 1
    OBVIOUS
  <2>2. S[k].start >= S[k - 1].end \/ NearBy(S[k].start, S[k - 1].end, k)
    BY <1>3, <1>6, <2>1 DEF Ordered
  <2> QED
    BY <1>5, <2>1, <2>2 DEF NearBy
<1>11. \A w, s, i : Within(w, s, i) <=> InReach(w, s, Reach(hNear, i))
  BY DEF Within, InReach, Reach
<1>12. \A i \in 1 .. n : \E k : SegmentsFor(W, S, i) = {k}
  <2> TAKE i \in 1 .. n
  <2> DEFINE F == SegmentsFor(W, S, i)
  <2>1. F \subseteq 1 .. m
    BY <1>3, SegmentsForIs
  <2>2. Cardinality(F) = 1
    BY <1>2, <1>6
  <2> HIDE DEF F
  <2>3. IsFiniteSet(F)
    <3> DEFINE U == 1 .. m
    <3>1. IsFiniteSet(U) /\ F \in SUBSET U
      BY <2>1, FS_Interval
    <3> HIDE DEF U
    <3> QED
      BY <3>1, FS_Subset
  <2>4. \E k : F = {k}
    BY <2>2, <2>3, FS_Singleton
  <2> QED
    BY <2>4 DEF F
<1> DEFINE seg == [i \in 1 .. n |-> CHOOSE k : SegmentsFor(W, S, i) = {k}]
<1>13. \A i \in 1 .. n : SegmentsFor(W, S, i) = {seg[i]}
  BY <1>12
<1>14. DOMAIN seg = 1 .. n /\ seg = [i \in 1 .. n |-> seg[i]]
  OBVIOUS
<1> HIDE DEF seg
<1>15. \A i \in 1 .. n :
          /\ seg[i] \in 1 .. m
          /\ Within(W[i], S[seg[i]], i)
          /\ \A k \in 1 .. m : W[i].start < W[i].end /\ Within(W[i], S[k], i) => k = seg[i]
  <2> TAKE i \in 1 .. n
  <2> DEFINE F == SegmentsFor(W, S, i)
             C == {k \in DOMAIN S : Within(W[i], S[k], i)}
  <2>1. F \subseteq C /\ (W[i].start < W[i].end => F = C)
    BY SegmentsForIs
  <2>2. F = {seg[i]}
    BY <1>13
  <2>3. \A k : k \in C <=> k \in 1 .. m /\ Within(W[i], S[k], i)
    BY <1>3
  <2> HIDE DEF F, C
  <2> QED
    BY <2>1, <2>2, <2>3
<1>16. seg \in [1 .. n -> 1 .. m]
  BY <1>14, <1>15
<1>17. ASSUME NEW k \in 1 .. m
       PROVE  /\ Taken(W, S, k) = Entries(Numbered(W), {i \in 1 .. n : seg[i] = k})
              /\ Taken(W, S, k) \in Seq(HWord)
              /\ \E i \in 1 .. n : seg[i] = k
  <2> DEFINE I == {i \in 1 .. n : seg[i] = k}
             J == {i \in DOMAIN W : SegmentsFor(W, S, i) = {k}}
  <2>1. I = J
    BY <1>2, <1>13
  <2>2. Taken(W, S, k) = Entries(Numbered(W), J)
    BY DEF Taken
  <2>3. Taken(W, S, k) # <<>>
    BY <1>3, <1>6
  <2>4. I \in SUBSET (1 .. n) /\ \A i \in I : seg[i] = k
    OBVIOUS
  <2> HIDE DEF I, J
  <2>5. I \in SUBSET (1 .. Len(W))
    BY <1>2, <2>4
  <2>6. /\ Entries(Numbered(W), I) \in Seq(HWord)
        /\ Entries(Numbered(W), I) # <<>> => \E i \in 1 .. Len(W) : i \in I
    BY <1>2, <2>5, EntriesOfWords
  <2>7. \E i \in 1 .. n : seg[i] = k
    BY <1>2, <2>1, <2>2, <2>3, <2>4, <2>6
  <2>8. Taken(W, S, k) = Entries(Numbered(W), I) /\ Taken(W, S, k) \in Seq(HWord)
    BY <2>1, <2>2, <2>6
  <2> QED
    BY <2>7, <2>8 DEF I
<1> HIDE DEF T
<1>18. T = [k \in 1 .. m |->
              [start |-> S[k].start, end |-> S[k].end, words |-> Taken(W, S, k)]]
  BY <1>3, <1>6
<1>19. T \in [1 .. m -> HSegment]
  BY <1>5, <1>17, <1>18 DEF HSegment
<1>20. T \in Seq(HSegment) /\ Len(T) = m
  BY <1>19, FunctionIsList
<1>21. \A k \in 1 .. m :
          T[k].start = S[k].start /\ T[k].end = S[k].end /\ T[k].words = Taken(W, S, k)
  BY <1>18
<1>22. \A k \in 1 .. m :
          /\ T[k].start < T[k].end
          /\ T[k].words = Entries(Numbered(W), {i \in 1 .. n : seg[i] = k})
          /\ \E i \in 1 .. n : seg[i] = k
  BY <1>8, <1>17, <1>21
<1>23. \A k \in 2 .. m : T[k].start >= T[k - 1].end - 1
  <2> TAKE k \in 2 .. m
  <2>1. k \in 1 .. m /\ k - 1 \in 1 .. m
    OBVIOUS
  <2> QED
    BY <1>10, <1>21, <2>1
<1>24. /\ \A i \in 1 .. n : InReach(W[i], T[seg[i]], Reach(hNear, i))
       /\ \A i \in 1 .. n : \A k \in 1 .. m :
             W[i].start < W[i].end /\ InReach(W[i], T[k], Reach(hNear, i)) => k = seg[i]
  <2>1. \A k \in 1 .. m : \A i \in 1 .. n :
           InReach(W[i], T[k], Reach(hNear, i)) <=> Within(W[i], S[k], i)
    BY <1>11, <1>21 DEF InReach
  <2> QED
    BY <1>15, <2>1
<1>25. \A i \in 1 .. n : W[i].start <= W[i].end
  BY <1>4, <1>7
<1>26. IsHeard(T, W, seg, hNear)
  <2> DEFINE p == Len(W)
             q == Len(T)
  <2>1. p = n /\ q = m
    BY <1>2, <1>20
  <2> HIDE DEF p, q
  <2>2. W \in Seq(HWindow) /\ T \in Seq(HSegment) /\ seg \in [1 .. p -> 1 .. q]
    BY <1>2, <1>16, <1>20, <2>1
  <2>3. /\ \A i \in 1 .. p : W[i].start <= W[i].end
        /\ \A i \in 2 .. p :
              \/ W[i].start >= W[i - 1].end
              \/ W[i].start >= W[i - 1].end - 1 /\ i \in hNear
    BY <1>9, <1>25, <2>1
  <2>4. /\ \A k \in 1 .. q :
              /\ T[k].start < T[k].end
              /\ T[k].words = Entries(Numbered(W), {i \in 1 .. p : seg[i] = k})
              /\ \E i \in 1 .. p : seg[i] = k
        /\ \A k \in 2 .. q : T[k].start >= T[k - 1].end - 1
    BY <1>22, <1>23, <2>1
  <2>5. /\ \A i \in 1 .. p : InReach(W[i], T[seg[i]], Reach(hNear, i))
        /\ \A i \in 1 .. p : \A k \in 1 .. q :
              W[i].start < W[i].end /\ InReach(W[i], T[k], Reach(hNear, i)) => k = seg[i]
    BY <1>24, <2>1
  <2> QED
    BY <2>2, <2>3, <2>4, <2>5 DEF IsHeard, p, q
<1> QED
  BY <1>26 DEF T, W

\* A job's words are one segment.
LEMMA JobIsHeard ==
    ASSUME NEW r \in HResponses, JobMapped(r) # <<>>
    PROVE  \E seg : IsHeard(JobMapped(r), Canonical(r.words), seg, hNear)
<1> DEFINE W == Canonical(r.words)
           T == JobMapped(r)
<1>1. PICK n \in Nat : n = Len(W) /\ W \in Seq(HWindow) /\ DOMAIN W = 1 .. n
  <2> DEFINE items == r.words
  <2>1. items \in Seq(HWindow)
    BY TranscriptConstants
  <2> HIDE DEF items
  <2>2. /\ Canonical(items) \in Seq(HWindow) /\ Len(Canonical(items)) = Len(items)
        /\ Len(items) \in Nat /\ DOMAIN Canonical(items) = 1 .. Len(items)
    BY <2>1, CanonicalWindows
  <2> QED
    BY <2>2 DEF items
<1>2. /\ W # <<>>
      /\ \A i \in DOMAIN W : W[i].start < W[i].end
      /\ \A i \in DOMAIN W : i > 1 => W[i - 1].end <= W[i].start
      /\ T = <<[start |-> W[1].start, end |-> Last(W).end, words |-> Numbered(W)]>>
  BY DEF JobMapped
<1> HIDE DEF W, T
<1>3. n >= 1
  BY <1>1, <1>2, EmptySeq, LenProperties
<1>4. Last(W) = W[n]
  BY <1>1 DEF Last
<1>5. \A i \in 1 .. n : W[i].start \in Int /\ W[i].end \in Int
  <2> TAKE i \in 1 .. n
  <2>1. W[i] \in HWindow
    BY <1>1
  <2> QED
    BY <2>1 DEF HWindow
<1>6. /\ \A i \in 1 .. n : W[i].start < W[i].end
      /\ \A i \in 2 .. n : W[i - 1].end <= W[i].start
  BY <1>1, <1>2
<1>7. \A i \in 2 .. n : W[i - 1].start <= W[i].start /\ W[i - 1].end <= W[i].end
  <2> TAKE i \in 2 .. n
  <2>1. i \in 1 .. n /\ i - 1 \in 1 .. n
    OBVIOUS
  <2> QED
    BY <1>5, <1>6, <2>1
<1> DEFINE f == [i \in 1 .. n |-> W[i].start]
           g == [i \in 1 .. n |-> W[i].end]
<1>8. f \in [1 .. n -> Int] /\ g \in [1 .. n -> Int]
  BY <1>5
<1>9. \A i \in 2 .. n : f[i - 1] <= f[i] /\ g[i - 1] <= g[i]
  BY <1>7
<1>10. \A i \in 1 .. n : f[i] = W[i].start /\ g[i] = W[i].end
  OBVIOUS
<1> HIDE DEF f, g
<1>11. /\ \A i, j \in 1 .. n : i <= j => f[i] <= f[j]
       /\ \A i, j \in 1 .. n : i <= j => g[i] <= g[j]
  BY <1>8, <1>9, NeverFalls
<1>12. \A i \in 1 .. n : W[1].start <= W[i].start /\ W[i].end <= W[n].end
  <2> TAKE i \in 1 .. n
  <2>1. 1 \in 1 .. n /\ n \in 1 .. n /\ 1 <= i /\ i <= n
    BY <1>3
  <2> QED
    BY <1>10, <1>11, <2>1
<1> DEFINE seg == [i \in 1 .. n |-> 1]
           N == Numbered(W)
<1>13. /\ N \in Seq(HWord) /\ Len(N) = n
  BY <1>1, NumberedWords
<1> HIDE DEF N
<1>14. Entries(N, 1 .. n) = N
  <2> DEFINE a == 0
             b == n
  <2>a. a \in Nat /\ b \in Nat /\ a <= b
    OBVIOUS
  <2> HIDE DEF a, b
  <2>0. InOrder((a + 1) .. b, <) = [k \in 1 .. b - a |-> a + k]
    BY <2>a, IntervalInOrder
  <2>b. (a + 1) .. b = 1 .. n /\ [k \in 1 .. b - a |-> a + k] = [k \in 1 .. n |-> k]
    BY DEF a, b
  <2> DEFINE R == 1 .. n
             Q == (a + 1) .. b
  <2>c. R = Q /\ InOrder(Q, <) = [k \in 1 .. n |-> k]
    BY <2>0, <2>b
  <2> HIDE DEF R, Q
  <2>d. InOrder(R, <) = [k \in 1 .. n |-> k]
    BY <2>c
  <2>1. InOrder(1 .. n, <) = [k \in 1 .. n |-> k]
    BY <2>d DEF R
  <2>2. Entries(N, 1 .. n) = [k \in 1 .. n |-> N[k]]
    BY <2>1 DEF Entries
  <2>3. DOMAIN N = 1 .. n
    BY <1>13, LenProperties
  <2>4. N = [k \in 1 .. n |-> N[k]]
    BY <1>13, <2>3
  <2> QED
    BY <2>2, <2>4
<1>15. /\ seg \in [1 .. n -> 1 .. 1] /\ {i \in 1 .. n : seg[i] = 1} = 1 .. n
       /\ \A i \in 1 .. n : seg[i] = 1
  OBVIOUS
<1> HIDE DEF seg
<1> DEFINE s == [start |-> W[1].start, end |-> W[n].end, words |-> N]
<1>16. /\ s \in HSegment
       /\ s.start = W[1].start /\ s.end = W[n].end /\ s.words = N
  BY <1>3, <1>5, <1>13 DEF HSegment
<1>17. T = <<s>>
  BY <1>2, <1>4 DEF N
<1> HIDE DEF s
<1>18. T \in Seq(HSegment) /\ Len(T) = 1 /\ T[1] = s
  BY <1>16, <1>17
<1>19. s.start < s.end
  <2>1. 1 \in 1 .. n /\ n \in 1 .. n
    BY <1>3
  <2>2. W[1].start < W[1].end /\ W[1].end <= W[n].end
    BY <1>6, <1>12, <2>1
  <2> QED
    BY <1>5, <1>16, <2>1, <2>2
<1>20. \A i : Reach(hNear, i) \in Int /\ Reach(hNear, i) >= 0
  BY TranscriptConstants DEF Reach
<1>21. \A i \in 1 .. n : InReach(W[i], s, Reach(hNear, i))
  <2> TAKE i \in 1 .. n
  <2>1. 1 \in 1 .. n /\ n \in 1 .. n
    BY <1>3
  <2>2. W[1].start <= W[i].start /\ W[i].end <= W[n].end
    BY <1>12
  <2> QED
    BY <1>5, <1>16, <1>20, <2>1, <2>2 DEF InReach
<1>22. \A i \in 1 .. n : W[i].start <= W[i].end
  BY <1>5, <1>6
<1>23. \A i \in 2 .. n : W[i].start >= W[i - 1].end
  <2> TAKE i \in 2 .. n
  <2>1. i \in 1 .. n /\ i - 1 \in 1 .. n
    OBVIOUS
  <2> QED
    BY <1>5, <1>6, <2>1
<1>24. /\ \A k \in 1 .. 1 :
             /\ T[k].start < T[k].end
             /\ T[k].words = Entries(N, {i \in 1 .. n : seg[i] = k})
             /\ \E i \in 1 .. n : seg[i] = k
       /\ \A i \in 1 .. n : InReach(W[i], T[seg[i]], Reach(hNear, i))
  <2>1. \E i \in 1 .. n : seg[i] = 1
    BY <1>3, <1>15
  <2>2. \A k \in 1 .. 1 : k = 1
    OBVIOUS
  <2> QED
    BY <1>14, <1>15, <1>16, <1>18, <1>19, <1>21, <2>1, <2>2
<1>25. \A i \in 1 .. n : \A k \in 1 .. 1 : k = seg[i]
  BY <1>15
<1>26. IsHeard(T, W, seg, hNear)
  <2>1. Len(T) = 1 /\ n = Len(W)
    BY <1>1, <1>18
  <2>2. 2 .. 1 = {}
    OBVIOUS
  <2> QED
    BY <1>1, <1>15, <1>18, <1>22, <1>23, <1>24, <1>25, <2>1, <2>2 DEF IsHeard, N
<1> QED
  BY <1>26 DEF T, W

\* What was heard has its words in order, and what is told keeps them.
HeardFrom(r) == \E seg : IsHeard(hHeard, Canonical(r.words), seg, hNear)
HInv ==
    /\ hPc \in {"called", "heard", "told", "failed"}
    /\ hPolicy \in {"strict", "derived"} /\ hResponse \in HResponses
    /\ hPc \in {"called", "failed"} => hTold = <<>>
    /\ hPc = "heard" => hHeard # <<>>
    /\ hHeard = <<>> \/ HeardFrom(hResponse)
    /\ hPc = "told" =>
          NamesKept(hTold, Len(hResponse.words)) /\ TimesKept(hHeard, hTold, hPolicy)

LEMMA TranscriptStarts == ASSUME HInit PROVE HInv
BY DEF HInit, HInv

LEMMA HearKeeps == ASSUME HInv, Hear PROVE HInv'
<1>1. /\ hPc = "called" /\ hTold = <<>> /\ hResponse \in HResponses
      /\ hHeard' = IF hService = "openai" THEN Mapped(hResponse) ELSE JobMapped(hResponse)
      /\ hPc' = IF hHeard' = <<>> THEN "failed" ELSE "heard"
      /\ UNCHANGED <<hPolicy, hResponse, hNear, hTold>>
  BY DEF Hear, HInv
<1> DEFINE T == hHeard'
<1>2. T = Mapped(hResponse) \/ T = JobMapped(hResponse)
  BY <1>1
<1>3. T # <<>> => \E seg : IsHeard(T, Canonical(hResponse.words), seg, hNear)
  BY <1>1, <1>2, MappedIsHeard, JobIsHeard
<1>4. hHeard' = <<>> \/ HeardFrom(hResponse)'
  BY <1>1, <1>3 DEF HeardFrom
<1> QED
  BY <1>1, <1>4 DEF HInv

LEMMA CanonicalLength ==
    ASSUME NEW r \in HResponses
    PROVE  Len(Canonical(r.words)) = Len(r.words)
<1> DEFINE items == r.words
<1>1. items \in Seq(HWindow)
  BY TranscriptConstants
<1> HIDE DEF items
<1>2. Len(Canonical(items)) = Len(items)
  BY <1>1, CanonicalWindows
<1> QED
  BY <1>2 DEF items

LEMMA ProjectKeeps == ASSUME HInv, Project PROVE HInv'
<1> DEFINE told == IF hPolicy = "strict" THEN Strict(hHeard)
                   ELSE \A k \in DOMAIN hHeard : Derivable(hHeard[k])
           W == Canonical(hResponse.words)
<1>1. /\ hPc = "heard" /\ hHeard # <<>> /\ HeardFrom(hResponse)
      /\ hResponse \in HResponses /\ hPolicy \in {"strict", "derived"}
      /\ hPc' = IF told THEN "told" ELSE "failed"
      /\ hTold' = IF ~told THEN <<>>
                  ELSE IF hPolicy = "strict" THEN hHeard
                  ELSE DerivedAll(hHeard)
      /\ UNCHANGED <<hPolicy, hResponse, hNear, hHeard>>
  BY DEF Project, HInv, DerivedAll
<1>2. HeardFrom(hResponse)'
  BY <1>1 DEF HeardFrom
<1>3. ASSUME told
      PROVE  NamesKept(hTold', Len(W)) /\ TimesKept(hHeard, hTold', hPolicy)
  <2>1. PICK seg : IsHeard(hHeard, W, seg, hNear)
    BY <1>1 DEF HeardFrom
  <2> HIDE DEF W
  <2>2. CASE hPolicy = "strict"
    <3>1. Strict(hHeard) /\ hTold' = hHeard
      BY <1>1, <1>3, <2>2
    <3>2. (\A i \in 1 .. Len(W) : W[i].start < W[i].end) /\ Hosted(hHeard, W, seg)
      BY <2>1, <3>1, StrictHasNoPoints
    <3>3. NamesKept(hHeard, Len(W)) /\ TimesKept(hHeard, hHeard, "strict")
      BY <2>1, <3>2, StrictTold
    <3> QED
      BY <2>2, <3>1, <3>3
  <2>3. CASE hPolicy = "derived"
    <3>1. (\A k \in DOMAIN hHeard : Derivable(hHeard[k])) /\ hTold' = DerivedAll(hHeard)
      BY <1>1, <1>3, <2>3
    <3>2. \A k \in 1 .. Len(hHeard) : Derivable(hHeard[k])
      BY <2>1, <3>1, HeardTypes
    <3>3. Hosted(hHeard, W, seg)
      BY <2>1, <3>2, DerivableIsHosted
    <3>4. NamesKept(DerivedAll(hHeard), Len(W)) /\ TimesKept(hHeard, DerivedAll(hHeard), "derived")
      BY <2>1, <3>2, <3>3, DerivedTold
    <3> QED
      BY <2>3, <3>1, <3>4
  <2> QED
    BY <1>1, <2>2, <2>3
<1>4. Len(W) = Len(hResponse.words)
  BY <1>1, CanonicalLength
<1> HIDE DEF told, W
<1>5. hPc' = "told" =>
         NamesKept(hTold', Len(hResponse.words)) /\ TimesKept(hHeard, hTold', hPolicy)
  BY <1>1, <1>3, <1>4
<1>6. hPc' = "failed" => hTold' = <<>>
  BY <1>1
<1> QED
  BY <1>1, <1>2, <1>5, <1>6 DEF HInv

LEMMA TranscriptKeeps == ASSUME HInv, [HNext]_hVars PROVE HInv'
<1>1. CASE Hear
  BY <1>1, HearKeeps
<1>2. CASE Project
  BY <1>2, ProjectKeeps
<1>3. CASE UNCHANGED hVars
  <2>1. UNCHANGED <<hPolicy, hResponse, hNear, hHeard, hTold, hPc>>
    BY <1>3 DEF hVars
  <2>2. HeardFrom(hResponse)' <=> HeardFrom(hResponse)
    BY <2>1 DEF HeardFrom
  <2> QED
    BY <2>1, <2>2 DEF HInv
<1> QED
  BY <1>1, <1>2, <1>3 DEF HNext

LEMMA TranscriptHolds == ASSUME HInv PROVE HTypeOK /\ EveryWordOnce /\ TimesAreTheProviders
<1>1. HTypeOK
  <2>1. ASSUME HeardFrom(hResponse) PROVE \A k \in DOMAIN hHeard : hHeard[k].start < hHeard[k].end
    <3>1. PICK seg : IsHeard(hHeard, Canonical(hResponse.words), seg, hNear)
      BY <2>1 DEF HeardFrom
    <3>2. DOMAIN hHeard = 1 .. Len(hHeard)
      BY <3>1, HeardTypes
    <3> QED
      BY <3>1, <3>2 DEF IsHeard
  <2>2. hHeard = <<>> => \A k \in DOMAIN hHeard : hHeard[k].start < hHeard[k].end
    OBVIOUS
  <2> QED
    BY <2>1, <2>2 DEF HInv, HTypeOK
<1>2. EveryWordOnce
  <2>1. hResponse \in HResponses
    BY DEF HInv
  <2>2. hResponse.words \in Seq(HWindow)
    BY <2>1, TranscriptConstants
  <2> DEFINE words == hResponse.words
  <2>3. DOMAIN words = 1 .. Len(words)
    BY <2>2, LenProperties
  <2>4. hPc = "told" => NamesKept(hTold, Len(words))
    BY DEF HInv
  <2> QED
    BY <2>3, <2>4 DEF EveryWordOnce, NamesKept
<1>3. TimesAreTheProviders
  <2>1. hPc = "told" => TimesKept(hHeard, hTold, hPolicy)
    BY DEF HInv
  <2> QED
    BY <2>1 DEF TimesAreTheProviders, TimesKept
<1> QED
  BY <1>1, <1>2, <1>3

-----------------------------------------------------------------------------
(* The rules together.                                                     *)

\* A rule that is not followed stands before its input and has judged nothing.
VRests == vPc = "cut" /\ vCues = <<>> /\ vSpoken = <<>>
GRests ==
    /\ gPc = "asked" /\ gTrack = NoSubject /\ gKeyframes = <<>>
    /\ gStrategy = "none" /\ gCharged = 0
URests == uPlan = "planning" /\ uItems = <<>>
LRests == lState = "new" /\ lInsights = {}
HRests == hPc = "called" /\ hHeard = <<>> /\ hTold = <<>>

TranscriptInv == IF evaluation = "transcript" THEN HInv ELSE HRests

DeliverableInv == IF evaluation = "deliverable" THEN VInv ELSE VRests
ChoicesInv ==
    /\ IF evaluation = "reframing" THEN GInv ELSE GRests
    /\ IF evaluation = "plan" THEN UInv ELSE URests
    /\ IF evaluation = "learning" THEN LInv ELSE LRests

\* A step of the rules is a step of the one that is followed; the others stay.
LEMMA EvaluationsStep ==
    ASSUME [EvNext]_evVars
    PROVE  /\ evaluation' = evaluation
           /\ IF evaluation = "transcript" THEN [HNext]_hVars ELSE UNCHANGED hVars
           /\ IF evaluation = "deliverable" THEN [VNext]_vVars ELSE UNCHANGED vVars
           /\ IF evaluation = "reframing" THEN [GNext]_gVars ELSE UNCHANGED gVars
           /\ IF evaluation = "plan" THEN [UNext]_uVars ELSE UNCHANGED uVars
           /\ IF evaluation = "learning" THEN [LNext]_lVars ELSE UNCHANGED lVars
BY DEF EvNext, EvaluateWith, evVars

LEMMA EvaluationsStart == ASSUME EvInit PROVE TranscriptInv /\ DeliverableInv /\ ChoicesInv
<1>0. TranscriptInv
  <2>1. IF evaluation = "transcript" THEN HInit ELSE HStill
    BY DEF EvInit
  <2>2. HStill => HRests
    BY DEF HStill, HRests
  <2> QED
    BY <2>1, <2>2, TranscriptStarts DEF TranscriptInv
<1>1. DeliverableInv
  <2>1. IF evaluation = "deliverable" THEN VInit ELSE VStill
    BY DEF EvInit
  <2>2. VStill => VRests
    BY DEF VStill, VRests
  <2> QED
    BY <2>1, <2>2, DeliveryStarts DEF DeliverableInv
<1>2. /\ IF evaluation = "reframing" THEN GInit ELSE GStill
      /\ IF evaluation = "plan" THEN UInit ELSE UStill
      /\ IF evaluation = "learning" THEN LInit ELSE LStill
  BY DEF EvInit
<1>3. (GStill => GRests) /\ (UStill => URests) /\ (LStill => LRests)
  BY DEF GStill, GRests, UStill, URests, LStill, LRests
<1> QED
  BY <1>0, <1>1, <1>2, <1>3, ReframingStarts, PlanningStarts, LearningStarts DEF ChoicesInv

LEMMA RestsStay ==
    /\ VRests /\ UNCHANGED vVars => VRests'
    /\ GRests /\ UNCHANGED gVars => GRests'
    /\ URests /\ UNCHANGED uVars => URests'
    /\ LRests /\ UNCHANGED lVars => LRests'
    /\ HRests /\ UNCHANGED hVars => HRests'
BY DEF VRests, GRests, URests, LRests, HRests, vVars, gVars, uVars, lVars, hVars

LEMMA EvaluationsKeep ==
    ASSUME [EvNext]_evVars
    PROVE  /\ TranscriptInv => TranscriptInv'
           /\ DeliverableInv => DeliverableInv'
           /\ ChoicesInv => ChoicesInv'
<1>0. ASSUME TranscriptInv PROVE TranscriptInv'
  BY <1>0, EvaluationsStep, RestsStay, TranscriptKeeps DEF TranscriptInv
<1>1. ASSUME DeliverableInv PROVE DeliverableInv'
  BY <1>1, EvaluationsStep, RestsStay, DeliveryKeeps DEF DeliverableInv
<1>2. ASSUME ChoicesInv PROVE ChoicesInv'
  <2>1. (IF evaluation = "reframing" THEN GInv ELSE GRests)'
    BY <1>2, EvaluationsStep, RestsStay, ReframingKeeps DEF ChoicesInv
  <2>2. (IF evaluation = "plan" THEN UInv ELSE URests)'
    BY <1>2, EvaluationsStep, RestsStay, PlanningKeeps DEF ChoicesInv
  <2>3. (IF evaluation = "learning" THEN LInv ELSE LRests)'
    BY <1>2, EvaluationsStep, RestsStay, LearningKeeps DEF ChoicesInv
  <2> QED
    BY <2>1, <2>2, <2>3 DEF ChoicesInv
<1> QED
  BY <1>0, <1>1, <1>2

LEMMA TranscriptsFollow == ASSUME TranscriptInv PROVE TranscriptsAreFaithful
<1>1. CASE HInv
  BY <1>1, TranscriptHolds DEF TranscriptsAreFaithful
<1>2. CASE HRests
  BY <1>2 DEF HRests, TranscriptsAreFaithful, HTypeOK, EveryWordOnce, TimesAreTheProviders
<1> QED
  BY <1>1, <1>2 DEF TranscriptInv

LEMMA DeliverablesFollow == ASSUME DeliverableInv PROVE DeliverablesHold
<1>1. CASE VInv
  BY <1>1, DeliveryHolds DEF DeliverablesHold
<1>2. CASE VRests
  <2>1. VTypeOK /\ VoicesTakeTurns
    BY <1>2, LenProperties DEF VRests, VTypeOK, VoicesTakeTurns
  <2>2. PublishedShowsTheCut /\ PublishedIsCleared
    BY <1>2 DEF VRests, PublishedShowsTheCut, PublishedIsCleared
  <2> QED
    BY <2>1, <2>2 DEF DeliverablesHold
<1> QED
  BY <1>1, <1>2 DEF DeliverableInv

LEMMA ChoicesFollow == ASSUME ChoicesInv PROVE ChoicesHold
<1>1. GTypeOK /\ FramesTellTheirScene /\ CropFollows /\ CostWasReserved
  <2>1. CASE GInv
    BY <2>1, ReframingHolds
  <2>2. CASE GRests
    BY <2>2 DEF GRests, GTypeOK, FramesTellTheirScene, CropFollows, CostWasReserved, EstimatedCost
  <2> QED
    BY <2>1, <2>2 DEF ChoicesInv
<1>2. PlansStayPossible /\ PlansAreAffordable
  <2>1. CASE UInv
    BY <2>1, PlanningHolds
  <2>2. CASE URests
    BY <2>2 DEF URests, PlansStayPossible, PlansAreAffordable
  <2> QED
    BY <2>1, <2>2 DEF ChoicesInv
<1>3. MissingIsNotZero
  <2>1. CASE LInv
    BY <2>1, LearningHolds
  <2>2. CASE LRests
    BY <2>2 DEF LRests, MissingIsNotZero
  <2> QED
    BY <2>1, <2>2 DEF ChoicesInv
<1> QED
  BY <1>1, <1>2, <1>3 DEF ChoicesHold

\* The words that edits are cut by are the provider's: none is lost, repeated or
\* moved, and their intervals fill the time it heard words in, in order.
THEOREM EvaluationsHear == EvSpec => []TranscriptsAreFaithful
<1>1. EvInit => TranscriptInv
  BY EvaluationsStart
<1>2. TranscriptInv /\ [EvNext]_evVars => TranscriptInv'
  BY EvaluationsKeep
<1>3. TranscriptInv => TranscriptsAreFaithful
  BY TranscriptsFollow
<1> QED
  BY <1>1, <1>2, <1>3, PTL DEF EvSpec

\* What is published is the cut, cleared, with voices that take turns.
THEOREM EvaluationsDeliver == EvSpec => []DeliverablesHold
<1>1. EvInit => DeliverableInv
  BY EvaluationsStart
<1>2. DeliverableInv /\ [EvNext]_evVars => DeliverableInv'
  BY EvaluationsKeep
<1>3. DeliverableInv => DeliverablesHold
  BY DeliverablesFollow
<1> QED
  BY <1>1, <1>2, <1>3, PTL DEF EvSpec

\* Crops follow their subject at the reserved cost, plans stay possible and
\* affordable, and a missing metric is no zero.
THEOREM EvaluationsChoose == EvSpec => []ChoicesHold
<1>1. EvInit => ChoicesInv
  BY EvaluationsStart
<1>2. ChoicesInv /\ [EvNext]_evVars => ChoicesInv'
  BY EvaluationsKeep
<1>3. ChoicesInv => ChoicesHold
  BY ChoicesFollow
<1> QED
  BY <1>1, <1>2, <1>3, PTL DEF EvSpec
=============================================================================
