---------------------------- MODULE ReleaseProofs -----------------------------
(***************************************************************************)
(* Proofs about what happens around the package, for any numbers of        *)
(* renders, approvals, keys, handlers, requests and crashes: publications  *)
(* are safe (Publishing.tla), an edit that overlaps the creation of a      *)
(* render (EditRace.tla) leaves every usable render on its package's       *)
(* tuple, and the worker that renders (RenderWorker.tla) implements        *)
(* Production.tla, forgets no render and registers what is stored.  All    *)
(* rest on the invariant of the package proved in ProductionProofs.tla.    *)
(***************************************************************************)
EXTENDS Publishing, EditRace, RenderWorker, ProductionProofs, ListProofs

-----------------------------------------------------------------------------
(* Publications: the inductive invariant.                                  *)

\* Handlers and publication rows are records of these fields, and a handler
\* that serves a request knows its key and its render.
SeenPackage ==
    [approval : Approvals \cup {None}, status : ApprovalStatus, bind : Bind,
     final : Renders \cup {None}, current : BOOLEAN]
Handler ==
    [pc : {"idle", "package", "render", "reserve", "check"},
     key : Keys \cup {None}, render : Renders \cup {None}, mode : Mode,
     seen : SeenPackage, row : RenderRow, usable : BOOLEAN]
Publication ==
    [status : {"none", "validating", "blocked", "dry_run_succeeded"},
     render : Renders \cup {None}, mode : Mode]

PublisherTypes ==
    /\ publisher \in [Publishers -> Handler]
    /\ publication \in [Keys -> Publication]
    /\ published \in [Keys -> BOOLEAN]
    /\ \A p \in Publishers : publisher[p].pc # "idle" =>
          publisher[p].key \in Keys /\ publisher[p].render \in Renders

\* A ready final render that a handler has read was usable when it read it:
\* the invariant of the package held at that moment.
ReadyWasUsable ==
    \A p \in Publishers :
        publisher[p].row.status = "ready" /\ publisher[p].row.kind = "final" => publisher[p].usable

PubInv == IInv /\ PublisherTypes /\ ReadyWasUsable /\ PublishedRenderWasUsable

-----------------------------------------------------------------------------
\* The handler that serves nobody.
LEMMA AbsentHandler ==
    /\ Absent \in Handler
    /\ Absent.pc = "idle"
    /\ Absent.row.status = "none"
BY BindType DEF Absent, Handler, SeenPackage, Unseen, Mode, ApprovalStatus, NoRenderRow, RenderRow,
                RenderStatus

\* Before any request there is nothing to publish.
LEMMA PubInitInv == PubInit => PubInv
<1> SUFFICES ASSUME PubInit PROVE PubInv
  OBVIOUS
<1>1. IInv
  BY InitInv DEF PubInit
<1>3. PublisherTypes
  BY AbsentHandler DEF PubInit, PublisherTypes, NoPublication, Publication, Mode
<1>4. ReadyWasUsable
  BY AbsentHandler DEF PubInit, ReadyWasUsable
<1>5. PublishedRenderWasUsable
  BY DEF PubInit, PublishedRenderWasUsable, NoPublication
<1> QED
  BY <1>1, <1>3, <1>4, <1>5 DEF PubInv

\* A step of one handler keeps the types and what ready rows say, if what it
\* makes of the handler does.
LEMMA HandlerStep ==
    ASSUME PublisherTypes, ReadyWasUsable, NEW p \in Publishers, NEW new \in Handler,
           publisher' = [publisher EXCEPT ![p] = new],
           publication' \in [Keys -> Publication], published' \in [Keys -> BOOLEAN],
           new.pc # "idle" => new.key \in Keys /\ new.render \in Renders,
           new.row.status = "ready" /\ new.row.kind = "final" => new.usable
    PROVE  PublisherTypes' /\ ReadyWasUsable'
<1>1. \A q \in Publishers : publisher'[q] = IF q = p THEN new ELSE publisher[q]
  BY DEF PublisherTypes
<1>2. publisher' \in [Publishers -> Handler]
  BY DEF PublisherTypes
<1> QED
  BY <1>1, <1>2 DEF PublisherTypes, ReadyWasUsable

\* A handler that answers or stops keeps nothing.
LEMMA AnswerStep ==
    ASSUME PublisherTypes, ReadyWasUsable, NEW p \in Publishers, Answer(p),
           publication' \in [Keys -> Publication], published' \in [Keys -> BOOLEAN]
    PROVE  PublisherTypes' /\ ReadyWasUsable'
BY AbsentHandler, HandlerStep DEF Answer

\* Every step keeps the invariant.
LEMMA PubNextInv == PubInv /\ [PubNext]_<<vars, pubVars>> => PubInv'
<1> SUFFICES ASSUME PubInv, [PubNext]_<<vars, pubVars>> PROVE PubInv'
  OBVIOUS
<1>i. IInv'
  <2>1. [Next]_vars
    BY DEF PubNext, PublisherStep, CallPublish, ReadPackage, ReadRender, Reserve, Succeed, Block,
           PublisherStops
  <2> QED
    BY <2>1, NextInv DEF PubInv
<1>0. PublisherTypes /\ ReadyWasUsable /\ PublishedRenderWasUsable
  BY DEF PubInv
<1>r. /\ \A r \in Renders : render[r] \in RenderRow
      /\ package \in PackageRow
      /\ \A a \in Approvals : approval[a] \in ApprovalRow
  BY DEF PubInv, IInv, TypeOK
<1>h. \A p \in Publishers :
          /\ publisher[p] \in Handler
          /\ publisher[p].row.status = "ready" /\ publisher[p].row.kind = "final" => publisher[p].usable
          /\ publisher[p].pc # "idle" => publisher[p].key \in Keys /\ publisher[p].render \in Renders
  BY <1>0 DEF PublisherTypes, ReadyWasUsable
<1>p. publication \in [Keys -> Publication] /\ published \in [Keys -> BOOLEAN]
  BY <1>0 DEF PublisherTypes
<1>u. ASSUME UNCHANGED pubVars PROVE PubInv'
  BY <1>i, <1>u DEF PubInv, pubVars, PublisherTypes, ReadyWasUsable, PublishedRenderWasUsable
<1>k. ASSUME UNCHANGED <<publication, published>>, PublisherTypes', ReadyWasUsable' PROVE PubInv'
  BY <1>i, <1>0, <1>k DEF PubInv, PublishedRenderWasUsable
<1>1. ASSUME NEW p \in Publishers, NEW k \in Keys, NEW r \in Renders, NEW m \in Mode,
             CallPublish(p, k, r, m)
      PROVE  PubInv'
  <2> DEFINE new == [Absent EXCEPT !.pc = "package", !.key = k, !.render = r, !.mode = m]
  <2>1. /\ new \in Handler /\ new.row = Absent.row
        /\ new.key = k /\ new.render = r
    BY AbsentHandler DEF Absent, Handler
  <2>2. publisher' = [publisher EXCEPT ![p] = new] /\ UNCHANGED <<publication, published>>
    BY <1>1 DEF CallPublish
  <2> HIDE DEF new
  <2> QED
    BY <1>0, <1>p, <1>k, <2>1, <2>2, AbsentHandler, HandlerStep
<1>2. ASSUME NEW p \in Publishers, ReadPackage(p) PROVE PubInv'
  <2>1. UNCHANGED <<publication, published>> /\ publisher[p].pc = "package"
    BY <1>2 DEF ReadPackage
  <2>2. CASE PackageExists
    <3> DEFINE seen == [approval |-> package.approval,
                   status |-> IF package.approval = None THEN "none" ELSE approval[package.approval].status,
                   bind |-> IF package.approval = None THEN NoBind ELSE approval[package.approval].bind,
                   final |-> package.final,
                   current |-> CurrentTimeline]
               new == [publisher[p] EXCEPT !.pc = "render", !.seen = seen]
    <3>1. seen \in SeenPackage
      <4>1. package.approval \in Approvals \cup {None} /\ package.final \in Renders \cup {None}
        BY <1>r DEF PackageRow
      <4>2. package.approval # None =>
               /\ approval[package.approval].status \in ApprovalStatus
               /\ approval[package.approval].bind \in Bind
        BY <1>r, <4>1 DEF ApprovalRow
      <4>3. CurrentTimeline \in BOOLEAN
        BY DEF CurrentTimeline, PackageExists
      <4> QED
        BY <4>1, <4>2, <4>3, BindType DEF ApprovalStatus, SeenPackage
    <3>2. publisher' = [publisher EXCEPT ![p].pc = "render", ![p].seen = seen]
      BY <1>2, <2>2 DEF ReadPackage
    <3> HIDE DEF seen
    <3>3. /\ publisher' = [publisher EXCEPT ![p] = new]
          /\ new \in Handler
          /\ new.row = publisher[p].row /\ new.usable = publisher[p].usable
          /\ new.key = publisher[p].key /\ new.render = publisher[p].render
      BY <1>0, <1>h, <3>1, <3>2 DEF PublisherTypes, Handler
    <3> HIDE DEF new
    <3> QED
      BY <1>0, <1>h, <1>p, <1>k, <2>1, <3>3, HandlerStep
  <2>3. CASE ~PackageExists
    BY <1>0, <1>2, <1>p, <1>k, <2>1, <2>3, AnswerStep DEF ReadPackage
  <2> QED
    BY <2>2, <2>3
<1>3. ASSUME NEW p \in Publishers, ReadRender(p) PROVE PubInv'
  <2>1. UNCHANGED <<publication, published>>
    BY <1>3 DEF ReadRender
  <2>2. CASE Answer(p)
    BY <1>0, <1>p, <1>k, <2>1, <2>2, AnswerStep
  <2>3. CASE ~Answer(p)
    <3> DEFINE row == render[publisher[p].render]
               usable == /\ row.status = "ready"
                         /\ row.kind = "final"
                         /\ row.bind = package.bind
                         /\ CurrentTimeline
                         /\ approval[row.approval].bind = package.bind
               new == [publisher[p] EXCEPT !.pc = "reserve", !.row = row, !.usable = usable]
    <3>1. /\ publisher' = [publisher EXCEPT ![p].pc = "reserve", ![p].row = row,
                              ![p].usable = usable]
          /\ publisher[p].pc = "render"
      BY <1>3, <2>3 DEF ReadRender
    <3>2. publisher[p].render \in Renders
      BY <1>h, <3>1
    <3>3. row.status = "ready" /\ row.kind = "final" => usable
      BY <3>2 DEF PubInv, IInv, LiveRendersAreCurrent, FinalRendersAreApproved, LiveStatus
    <3>4. usable \in BOOLEAN /\ row \in RenderRow
      BY <1>r, <3>2
    <3> HIDE DEF usable, row
    <3>5. /\ publisher' = [publisher EXCEPT ![p] = new]
          /\ new \in Handler
          /\ new.row = row /\ new.usable = usable
          /\ new.key = publisher[p].key /\ new.render = publisher[p].render
      BY <1>0, <1>h, <3>1, <3>4 DEF PublisherTypes, Handler
    <3> HIDE DEF new
    <3> QED
      BY <1>0, <1>h, <1>p, <1>k, <2>1, <3>1, <3>3, <3>5, HandlerStep
  <2> QED
    BY <2>2, <2>3
<1>4. ASSUME NEW p \in Publishers, Reserve(p) PROVE PubInv'
  <2> DEFINE k == publisher[p].key
  <2>1. k \in Keys /\ publisher[p].pc = "reserve" /\ published' = published
    BY <1>h, <1>4 DEF Reserve
  <2>2. CASE publication[k].status = "none"
    <3> DEFINE stored == [status |-> "validating", render |-> publisher[p].render,
                          mode |-> publisher[p].mode]
               new == [publisher[p] EXCEPT !.pc = "check"]
    <3>1. /\ publication' = [publication EXCEPT ![k] = stored]
          /\ publisher' = [publisher EXCEPT ![p] = new]
      BY <1>0, <1>h, <1>4, <2>2 DEF Reserve, PublisherTypes
    <3>2. stored \in Publication /\ stored.status = "validating"
      BY <1>h DEF Publication, Handler
    <3>3. /\ new \in Handler
          /\ new.row = publisher[p].row /\ new.usable = publisher[p].usable
          /\ new.key = publisher[p].key /\ new.render = publisher[p].render
      BY <1>h DEF Handler
    <3>4. publication' \in [Keys -> Publication]
      BY <1>p, <3>1, <3>2
    <3> HIDE DEF new, stored, k
    <3>5. PublishedRenderWasUsable'
      BY <1>0, <1>p, <2>1, <3>1, <3>2 DEF PublishedRenderWasUsable
    <3>6. PublisherTypes' /\ ReadyWasUsable'
      BY <1>0, <1>h, <1>p, <2>1, <3>1, <3>3, <3>4, HandlerStep
    <3> QED
      BY <1>i, <3>5, <3>6 DEF PubInv
  <2>3. CASE publication[k].status # "none"
    BY <1>0, <1>4, <1>p, <1>k, <2>1, <2>3, AnswerStep DEF Reserve
  <2> QED
    BY <2>2, <2>3
<1>5. ASSUME NEW p \in Publishers, Succeed(p) PROVE PubInv'
  <2> DEFINE k == publisher[p].key
  <2>1. k \in Keys /\ Answer(p)
    BY <1>h, <1>5 DEF Succeed
  <2>2. publisher[p].mode = "dry_run" /\ publisher[p].usable
    BY <1>h, <1>5 DEF Succeed, ChecksPass, ProviderCheck, FinalRenderCheck
  <2>3. /\ publication' = [publication EXCEPT ![k].status = "dry_run_succeeded"]
        /\ published' = [published EXCEPT ![k] = TRUE]
    BY <1>5, <1>h, <2>2 DEF Succeed, Verdict, Handler
  <2>4. publication' \in [Keys -> Publication] /\ published' \in [Keys -> BOOLEAN]
    BY <1>p, <2>1, <2>3 DEF Publication
  <2>5. PublisherTypes' /\ ReadyWasUsable'
    BY <1>0, <2>1, <2>4, AnswerStep
  <2>6. PublishedRenderWasUsable'
    BY <1>0, <1>p, <2>1, <2>3 DEF PublishedRenderWasUsable
  <2> QED
    BY <1>i, <2>5, <2>6 DEF PubInv
<1>6. ASSUME NEW p \in Publishers, Block(p) PROVE PubInv'
  <2> DEFINE k == publisher[p].key
  <2>1. /\ k \in Keys /\ Answer(p) /\ published' = published
        /\ publication' = [publication EXCEPT ![k].status = "blocked"]
    BY <1>h, <1>6 DEF Block
  <2>2. publication' \in [Keys -> Publication]
    BY <1>p, <2>1 DEF Publication
  <2>3. PublisherTypes' /\ ReadyWasUsable'
    BY <1>0, <1>p, <2>1, <2>2, AnswerStep
  <2>4. PublishedRenderWasUsable'
    BY <1>0, <1>p, <2>1 DEF PublishedRenderWasUsable, Publication
  <2> QED
    BY <1>i, <2>3, <2>4 DEF PubInv
<1>7. ASSUME NEW p \in Publishers, PublisherStops(p) PROVE PubInv'
  <2>1. Answer(p) /\ UNCHANGED <<publication, published>>
    BY <1>7 DEF PublisherStops, Answer
  <2> QED
    BY <1>0, <1>p, <1>k, <2>1, AnswerStep
<1> QED
  BY <1>u, <1>1, <1>2, <1>3, <1>4, <1>5, <1>6, <1>7 DEF PubNext, PublisherStep

-----------------------------------------------------------------------------
\* A publication that succeeds is a dry run of a render that was ready, final,
\* of the current tuple and approved when its handler last read the database,
\* although package and render are read in different transactions
\* (publishing_service.py).
THEOREM PublicationsSafe == PubSpec => []PublicationsAreSafe
<1>1. PubInv => PublicationsAreSafe
  BY DEF PubInv, PublicationsAreSafe, LiveIsBlocked, PublisherTypes, Publication
<1> QED
  BY <1>1, PubInitInv, PubNextInv, PTL DEF PubSpec

-----------------------------------------------------------------------------
(* An edit that overlaps the creation of a render.                         *)

EditState ==
    [open : {"no", "locked", "updated"}, approvals : SUBSET Approvals,
     renders : SUBSET Renders, loaded : PackageRow \cup {None}]
CreateState ==
    [open : BOOLEAN, kind : {"review", "final"}, approval : Approvals \cup {None}]

\* The version an open edit will make is within bounds; only a package that exists
\* has a render on the way, or a usable one; and the render that is being made is
\* running or stale.
RaceRows ==
    /\ edit.open # "no" => timeline.version < MaxVersion
    /\ create.open => PackageExists
    /\ \A r \in Renders : render[r].status \in LiveStatus => PackageExists
    /\ worker.at = "rendering" =>
          /\ worker.render \in Renders
          /\ render[worker.render].status \in {"running", "stale"}

RaceInv ==
    /\ TypeOK
    /\ edit \in EditState
    /\ create \in CreateState
    /\ RaceRows
    /\ LiveRendersMatchPackage

\* Nothing overlaps initially.
LEMMA RaceInitInv == RInit => RaceInv
<1> SUFFICES ASSUME RInit PROVE RaceInv
  OBVIOUS
<1>1. TypeOK
  BY InitType DEF RInit
<1>2. edit \in EditState /\ create \in CreateState
  BY DEF RInit, NoEdit, NoCreate, EditState, CreateState
<1>3. RaceRows /\ LiveRendersMatchPackage
  BY DEF RInit, Init, NoRenderRow, RaceRows, LiveRendersMatchPackage, LiveStatus, NoCreate, NoEdit, Idle
<1> QED
  BY <1>1, <1>2, <1>3 DEF RaceInv

\* A transaction that only makes rows stale, fail or otherwise end.
LEMMA RaceEnds ==
    ASSUME RaceInv, TypeOK',
           \A r \in Renders :
               /\ render'[r].bind = render[r].bind
               /\ render'[r].status \in LiveStatus => render[r].status \in LiveStatus,
           package'.bind = package.bind,
           worker'.at = "rendering" =>
               /\ worker'.render \in Renders
               /\ render'[worker'.render].status \in {"running", "stale"},
           edit' \in EditState, create' \in CreateState,
           create'.open => create.open,
           edit'.open # "no" => timeline'.version < MaxVersion
    PROVE  RaceInv'
BY DEF RaceInv, RaceRows, LiveRendersMatchPackage, PackageExists

\* The edit commits: what it saw is stale, what it did not see is of the tuple
\* the package keeps.
LEMMA EditCommitsStep ==
    ASSUME RaceInv, EditCommits
    PROVE  RaceInv'
<1>0. /\ timeline \in TimelineRow /\ package \in PackageRow
      /\ render \in [Renders -> RenderRow] /\ approval \in [Approvals -> ApprovalRow]
      /\ worker \in [at : {"idle", "rendering", "recording_costs"}, render : Renders \cup {None}]
      /\ timeline.version \in 1 .. MaxVersion /\ timeline.version < MaxVersion
  BY DEF RaceInv, RaceRows, EditCommits, TypeOK, TimelineRow
<1>1. timeline' \in TimelineRow
  <2>1. timeline.version + 1 \in 1 .. MaxVersion
    BY <1>0, ProductionConstants
  <2> QED
    BY <1>0, <2>1, DraftType DEF EditCommits, TimelineRow
<1>2. package' \in PackageRow /\ package'.bind = package.bind
  <2>1. edit.loaded # None => edit.loaded \in PackageRow
    BY DEF RaceInv, EditState
  <2>2. /\ Flushed(package.approval, edit.loaded.approval) \in Approvals \cup {None}
        /\ Flushed(package.review, edit.loaded.review) \in Renders \cup {None}
        /\ Flushed(package.final, edit.loaded.final) \in Renders \cup {None}
    BY <1>0 DEF Flushed, PackageRow
  <2>3. CASE edit.loaded = None
    BY <1>0, <2>3 DEF EditCommits
  <2>4. CASE edit.loaded # None
    BY <1>0, <2>2, <2>4 DEF EditCommits, PackageRow
  <2> QED
    BY <2>3, <2>4
<1>3. approval' \in [Approvals -> ApprovalRow]
  BY <1>0, WithdrawType DEF EditCommits
<1>4. /\ render' \in [Renders -> RenderRow]
      /\ \A r \in Renders :
             /\ render'[r].bind = render[r].bind
             /\ render'[r].status \in LiveStatus => render[r].status \in LiveStatus
             /\ render[r].status \in {"running", "stale"} => render'[r].status \in {"running", "stale"}
  <2>1. Stale(render) \in [Renders -> RenderRow]
    BY <1>0, StaleType
  <2>2. \A r \in Renders :
            /\ Stale(render)[r].bind = render[r].bind
            /\ Stale(render)[r].status =
                  IF render[r].status \in LiveStatus THEN "stale" ELSE render[r].status
            /\ Stale(render)[r].status \notin LiveStatus
    BY <1>0, StaleFacts
  <2>3. \A r \in Renders : render'[r] = IF r \in edit.renders THEN Stale(render)[r] ELSE render[r]
    BY DEF EditCommits
  <2>4. render' \in [Renders -> RenderRow]
    BY <1>0, <2>1 DEF EditCommits
  <2> QED
    BY <2>2, <2>3, <2>4 DEF LiveStatus
<1>5. TypeOK'
  BY <1>0, <1>1, <1>2, <1>3, <1>4 DEF EditCommits, TypeOK
<1>6. edit' \in EditState /\ edit'.open = "no" /\ create' = create /\ worker' = worker
  BY DEF EditCommits, NoEdit, EditState
<1> QED
  BY <1>2, <1>4, <1>5, <1>6, RaceEnds DEF RaceInv, RaceRows

\* The render that is created is of the tuple of the package row its transaction
\* has locked.
LEMMA CreateCommitsStep ==
    ASSUME RaceInv, NEW r \in Renders, CreateCommits(r)
    PROVE  RaceInv'
<1>0. /\ package \in PackageRow /\ package.bind \in Bind /\ create \in CreateState
      /\ render \in [Renders -> RenderRow]
      /\ PackageExists
  BY DEF RaceInv, RaceRows, CreateCommits, TypeOK, PackageRow
<1>1. QueuedRow(create.kind, create.approval) \in RenderRow
  BY <1>0, QueuedRowType DEF CreateState
<1>2. package' \in PackageRow /\ package'.bind = package.bind
  <2>1. CASE create.kind = "review"
    BY <1>0, <2>1 DEF CreateCommits, PackageRow
  <2>2. CASE create.kind # "review"
    BY <1>0, <2>2 DEF CreateCommits, PackageRow
  <2> QED
    BY <2>1, <2>2
<1>3. render' = [render EXCEPT ![r] = QueuedRow(create.kind, create.approval)]
  BY DEF CreateCommits
<1>4. TypeOK'
  BY <1>0, <1>1, <1>2, <1>3 DEF RaceInv, TypeOK, CreateCommits
<1>5. render'[r].bind = package.bind /\ render'[r].status = "queued"
  BY <1>0, <1>3 DEF QueuedRow, NoRenderRow
<1>6. LiveRendersMatchPackage'
  BY <1>0, <1>2, <1>3, <1>5 DEF RaceInv, LiveRendersMatchPackage
<1>7. RaceRows'
  BY <1>0, <1>2, <1>3, <1>5 DEF RaceInv, RaceRows, CreateCommits, NoCreate, PackageExists
<1>8. edit' \in EditState /\ create' \in CreateState
  BY DEF RaceInv, CreateCommits, NoCreate, CreateState
<1> QED
  BY <1>4, <1>6, <1>7, <1>8 DEF RaceInv

\* A transaction that waits for both: it leaves no live render, or it makes the
\* first package, or it touches neither renders nor the tuple.
LEMMA ExclusiveStep ==
    ASSUME RaceInv, Exclusive
    PROVE  RaceInv'
<1>0. /\ timeline \in TimelineRow /\ package \in PackageRow /\ package.bind \in Bind
      /\ render \in [Renders -> RenderRow]
      /\ edit.open = "no" /\ edit' = edit /\ create' = create /\ ~ create.open
  BY DEF RaceInv, TypeOK, Exclusive, PackageRow
<1>1. Next
  BY DEF Exclusive, Next, Edit, Review
<1>t. TypeOK'
  BY <1>1, NextType DEF RaceInv
<1>e. edit' \in EditState /\ create' \in CreateState
  BY <1>0 DEF RaceInv
<1>2. ASSUME render' = Stale(render), worker' = worker
      PROVE  RaceInv'
  <2>1. \A r \in Renders :
            /\ render'[r].status =
                  IF render[r].status \in LiveStatus THEN "stale" ELSE render[r].status
            /\ render'[r].status \notin LiveStatus
    BY <1>0, <1>2, StaleFacts
  <2>2. RaceRows'
    BY <1>0, <1>2, <2>1 DEF RaceInv, RaceRows, LiveStatus
  <2> QED
    BY <1>t, <1>e, <2>1, <2>2 DEF RaceInv, LiveRendersMatchPackage
<1>3. ASSUME render' = render, worker' = worker,
             package'.bind = package.bind \/ ~ PackageExists
      PROVE  RaceInv'
  BY <1>0, <1>t, <1>e, <1>3 DEF RaceInv, RaceRows, LiveRendersMatchPackage, PackageExists
<1>4. ASSUME NEW v \in 1 .. MaxVersion, CreateOrRefreshPackage(v) PROVE RaceInv'
  BY <1>2, <1>3, <1>4 DEF CreateOrRefreshPackage, InvalidateTo
<1>5. CASE ReplaceSubtitles \/ ReplaceAudioMix
  BY <1>2, <1>5 DEF ReplaceSubtitles, ReplaceAudioMix, InvalidateTo
<1>6. ASSUME NEW r \in Renders, NEW a \in Approvals, RequestApproval(a, r) PROVE RaceInv'
  BY <1>0, <1>3, <1>6 DEF RequestApproval, PackageRow
<1>7. ASSUME NEW a \in Approvals, NEW d \in Decision, DecideApproval(a, d) PROVE RaceInv'
  BY <1>3, <1>7 DEF DecideApproval
<1> QED
  BY <1>4, <1>5, <1>6, <1>7 DEF Exclusive

\* Steps on one render row revive nothing: the worker completes only a row that is
\* running.
LEMMA RenderRowStep ==
    ASSUME RaceInv, OnRenderRow
    PROVE  RaceInv'
<1>0. /\ render \in [Renders -> RenderRow]
      /\ \A r \in Renders : render[r] \in RenderRow
      /\ worker \in [at : {"idle", "rendering", "recording_costs"}, render : Renders \cup {None}]
      /\ edit' = edit /\ create' = create
  BY DEF RaceInv, TypeOK, OnRenderRow
<1>1. Next
  BY DEF OnRenderRow, Next, Review, Work
<1>t. TypeOK'
  BY <1>1, NextType DEF RaceInv
<1>e. edit' \in EditState /\ create' \in CreateState
  BY <1>0 DEF RaceInv
<1>2. UNCHANGED <<timeline, package>>
  BY DEF OnRenderRow, CancelRender, StartRender, CompleteRender, FailRender, RecordCosts, WorkerCrash
<1>3. ASSUME \A r \in Renders :
                 /\ render'[r].bind = render[r].bind
                 /\ render'[r].status \in LiveStatus => render[r].status \in LiveStatus,
             worker'.at = "rendering" =>
                 /\ worker'.render \in Renders
                 /\ render'[worker'.render].status \in {"running", "stale"}
      PROVE  RaceInv'
  BY <1>0, <1>t, <1>e, <1>2, <1>3, RaceEnds DEF RaceInv, RaceRows
<1>4. ASSUME NEW r \in Renders, CancelRender(r) PROVE RaceInv'
  <2>1. render' = [render EXCEPT ![r] = [render[r] EXCEPT !.cancel = TRUE,
                     !.status = IF render[r].status = "queued" THEN "cancelled" ELSE render[r].status]]
    BY <1>0, <1>4 DEF CancelRender, RenderRow
  <2>2. /\ render'[r].bind = render[r].bind
        /\ render'[r].status = IF render[r].status = "queued" THEN "cancelled" ELSE render[r].status
    BY <1>0, <2>1 DEF RenderRow
  <2> QED
    BY <1>0, <1>3, <1>4, <2>1, <2>2 DEF CancelRender, RaceInv, RaceRows, LiveStatus
<1>5. ASSUME NEW r \in Renders, StartRender(r) PROVE RaceInv'
  <2>1. /\ render[r].status \in {"queued", "running"}
        /\ \A q \in Renders \ {r} : render'[q] = render[q]
        /\ render'[r].bind = render[r].bind
        /\ render'[r].status \in {"cancelled", "running"}
        /\ worker'.at = "rendering" => worker'.render = r /\ render'[r].status = "running"
    <3>1. CASE render[r].cancel
      BY <1>0, <1>5, <3>1 DEF StartRender, RenderRow, Idle
    <3>2. CASE ~ render[r].cancel
      BY <1>0, <1>5, <3>2 DEF StartRender, RenderRow, Idle
    <3> QED
      BY <3>1, <3>2
  <2> QED
    BY <1>3, <2>1 DEF LiveStatus
<1>6. ASSUME NEW r \in Renders, CompleteRender(r) PROVE RaceInv'
  <2>1. render[r].status \in {"running", "stale"}
    BY <1>6 DEF CompleteRender, RaceInv, RaceRows
  <2>2. /\ CompletedRow(render[r]).bind = render[r].bind
        /\ CompletedRow(render[r]).status \in LiveStatus => render[r].status \in LiveStatus
    BY <1>0, <2>1 DEF CompletedRow, RenderRow, LiveStatus
  <2>3. worker'.at = "recording_costs"
    BY <1>0, <1>6 DEF CompleteRender
  <2> QED
    BY <1>0, <1>3, <1>6, <2>2, <2>3 DEF CompleteRender
<1>7. ASSUME NEW r \in Renders, NEW c \in FailureCode, FailRender(r, c) PROVE RaceInv'
  <2>1. /\ FailedRow(render[r], c).bind = render[r].bind
        /\ FailedRow(render[r], c).status \notin LiveStatus
    BY <1>0 DEF FailedRow, RenderRow, LiveStatus
  <2> QED
    BY <1>0, <1>3, <1>7, <2>1 DEF FailRender, Idle
<1>8. CASE RecordCosts \/ WorkerCrash
  BY <1>3, <1>8 DEF RecordCosts, WorkerCrash, Idle
<1> QED
  BY <1>4, <1>5, <1>6, <1>7, <1>8 DEF OnRenderRow

\* Whichever way the two transactions overlap, the invariant is kept.
LEMMA RaceNextInv == RaceInv /\ [RNext]_raceVars => RaceInv'
<1> SUFFICES ASSUME RaceInv, [RNext]_raceVars PROVE RaceInv'
  OBVIOUS
<1>1. ASSUME UNCHANGED vars, edit' \in EditState, create' \in CreateState,
             create'.open => create.open \/ PackageExists,
             edit'.open # "no" => timeline.version < MaxVersion
      PROVE  RaceInv'
  BY <1>1 DEF vars, RaceInv, TypeOK, RaceRows, LiveRendersMatchPackage, PackageExists
<1>2. CASE EditLocksTimeline
  BY <1>1, <1>2 DEF EditLocksTimeline, RaceInv, EditState
<1>3. CASE EditUpdates
  <2>1. package \in PackageRow
    BY DEF RaceInv, TypeOK
  <2>2. edit' \in EditState
    BY <1>3, <2>1 DEF EditUpdates, RaceInv, EditState
  <2> QED
    BY <1>1, <1>3, <2>2 DEF EditUpdates, RaceInv, RaceRows
<1>4. CASE EditAborts
  BY <1>1, <1>4 DEF EditAborts, NoEdit, EditState, RaceInv
<1>5. ASSUME NEW kind \in {"review", "final"}, NEW a \in Approvals \cup {None}, CreateChecks(kind, a)
      PROVE  RaceInv'
  BY <1>1, <1>5 DEF CreateChecks, CreateState, CurrentTimeline, RaceInv, RaceRows
<1>6. CASE CreateAborts
  BY <1>1, <1>6 DEF CreateAborts, NoCreate, CreateState, RaceInv, RaceRows
<1>7. CASE UNCHANGED raceVars
  BY <1>1, <1>7 DEF raceVars, RaceInv, RaceRows
<1> QED
  BY <1>2, <1>3, <1>4, <1>5, <1>6, <1>7, EditCommitsStep, CreateCommitsStep, ExclusiveStep,
     RenderRowStep
  DEF RNext

\* A usable render is always of the tuple its package holds, also when an edit
\* overlaps a request that creates one (timeline_repository.py commit_mutation,
\* production_repository.py create_render): what an edit misses is only the
\* version of the timeline, never the tuple of the package.
THEOREM RacingRendersMatch == RSpec => []LiveRendersMatchPackage
<1>1. RaceInv => LiveRendersMatchPackage
  BY DEF RaceInv
<1> QED
  BY <1>1, RaceInitInv, RaceNextInv, PTL DEF RSpec

-----------------------------------------------------------------------------
(* The worker that renders: the inductive invariant.                       *)

ProcRow ==
    [pc : {"down", "recovering", "waiting", "claimed", "working", "stored", "registered",
           "costing", "settled"},
     job : Renders \cup {None}, file : Contents \cup {None}, found : Seq(Renders)]

WorkerTypes ==
    /\ redis \in [queue : Seq(Renders), processing : Seq(Renders)]
    /\ pushing \in SUBSET Renders
    /\ lost \in SUBSET Renders
    /\ object \in [Renders -> Contents \cup {None}]
    /\ asset \in [Renders -> Contents \cup {None}]
    /\ proc \in ProcRow

\* Where the process is tells which render it holds and what Production sees
\* of it.
ProcHoldsJob ==
    /\ proc.pc \in {"down", "recovering", "waiting"} => proc.job = None /\ worker = Idle
    /\ proc.pc \notin {"down", "recovering", "waiting"} => proc.job \in Renders
    /\ proc.pc \in {"claimed", "settled"} => worker = Idle
    /\ proc.pc \in {"working", "stored", "registered"} =>
          worker = [at |-> "rendering", render |-> proc.job] /\ proc.file \in Contents
    /\ proc.pc = "costing" => worker = [at |-> "recording_costs", render |-> proc.job]

\* What the attempt has stored and registered so far is its own output.
FilesOfAttempt ==
    /\ proc.pc \in {"stored", "registered"} => object[proc.job] = proc.file
    /\ proc.pc = "registered" => asset[proc.job] = proc.file

WInv ==
    /\ IInv
    /\ WorkerTypes
    /\ ProcHoldsJob
    /\ FilesOfAttempt
    /\ NoRenderForgotten
    /\ CompletedOutputIsRegistered

Completed(r) == render[r].status \in {"awaiting_review", "ready"}

-----------------------------------------------------------------------------
(* Every step is one of Production, or none of its variables changes.      *)

\* Each step of the worker, a request or a crash is a step of the tables.
LEMMA WStepIsStep ==
    ASSUME WorkerTypes, ProcHoldsJob, [WNext]_allVars
    PROVE  [Next]_vars
<1>1. CASE Request
  BY <1>1 DEF Request, Next, Review
<1>2. CASE Enqueue
  BY <1>2 DEF Enqueue, EnqueueReview, EnqueueFinal, Next, Review
<1>3. CASE \E r \in Renders : Push(r) \/ PushFails(r)
  BY <1>3 DEF Push, PushFails
<1>4. CASE RecoverRead \/ RecoverExec \/ Claim \/ Skip \/ PutFile \/ RegisterAsset \/ Release
  BY <1>4 DEF RecoverRead, RecoverExec, Claim, Skip, PutFile, RegisterAsset, Release
<1>5. CASE Begin
  <2>1. proc.job \in Renders
    BY <1>5 DEF Begin, ProcHoldsJob
  <2> QED
    BY <1>5, <2>1 DEF Begin, Next, Work
<1>6. CASE RegisterConflict
  <2>1. proc.job \in Renders
    BY <1>6 DEF RegisterConflict, ProcHoldsJob
  <2> QED
    BY <1>6, <2>1 DEF RegisterConflict, Next, Work, FailureCode
<1>7. CASE Complete
  <2>1. proc.job \in Renders
    BY <1>7 DEF Complete, ProcHoldsJob
  <2> QED
    BY <1>7, <2>1 DEF Complete, Next, Work
<1>8. CASE Costs
  BY <1>8 DEF Costs, Next, Work
<1>9. ASSUME NEW c \in FailureCode, Fail(c) PROVE [Next]_vars
  <2>1. proc.job \in Renders
    BY <1>9 DEF Fail, ProcHoldsJob
  <2> QED
    BY <1>9, <2>1 DEF Fail, Next, Work
<1>10. CASE Raise \/ Crash
  <2>1. worker' = Idle /\ UNCHANGED <<timeline, package, approval, render>>
    BY <1>10 DEF Raise, Crash
  <2> QED
    BY <2>1 DEF Next, Work, WorkerCrash, vars
<1>11. CASE UNCHANGED allVars
  BY <1>11 DEF allVars
<1> QED
  BY <1>1, <1>2, <1>3, <1>4, <1>5, <1>6, <1>7, <1>8, <1>9, <1>10, <1>11 DEF WNext, WorkerStep

-----------------------------------------------------------------------------
(* What each step does to the rows the worker waits for.                   *)

\* No request makes a settled row unfinished, or completes one.
LEMMA RequestRows ==
    ASSUME IInv, Request
    PROVE  /\ worker' = worker
           /\ \A r \in Renders :
                 /\ render'[r].status \in {"queued", "running"} => Incomplete(r)
                 /\ render'[r].status \in {"awaiting_review", "ready"} => Completed(r)
<1>w. worker' = worker
  BY DEF Request, Edit, CommitMutation, CreateOrRefreshPackage, ReplaceSubtitles, ReplaceAudioMix,
         CancelRender, RequestApproval, DecideApproval
<1> SUFFICES ASSUME NEW r \in Renders
             PROVE  /\ render'[r].status \in {"queued", "running"} => Incomplete(r)
                    /\ render'[r].status \in {"awaiting_review", "ready"} => Completed(r)
  BY <1>w
<1>0. render \in [Renders -> RenderRow] /\ render[r] \in RenderRow
  BY DEF IInv, TypeOK
<1>s. ASSUME render' = Stale(render)
      PROVE  /\ render'[r].status \in {"queued", "running"} => Incomplete(r)
             /\ render'[r].status \in {"awaiting_review", "ready"} => Completed(r)
  BY <1>0, <1>s, StaleFacts DEF Incomplete, Completed, LiveStatus
<1>u. ASSUME render' = render
      PROVE  /\ render'[r].status \in {"queued", "running"} => Incomplete(r)
             /\ render'[r].status \in {"awaiting_review", "ready"} => Completed(r)
  BY <1>u DEF Incomplete, Completed
<1>1. CASE Edit
  BY <1>1, <1>s, <1>u DEF Edit, CommitMutation, CreateOrRefreshPackage, ReplaceSubtitles,
                          ReplaceAudioMix, InvalidateTo
<1>2. ASSUME NEW q \in Renders, CancelRender(q)
      PROVE  /\ render'[r].status \in {"queued", "running"} => Incomplete(r)
             /\ render'[r].status \in {"awaiting_review", "ready"} => Completed(r)
  <2>1. CASE q = r
    BY <1>0, <1>2, <2>1 DEF CancelRender, Incomplete, Completed, RenderRow
  <2>2. CASE q # r
    BY <1>0, <1>2, <2>2 DEF CancelRender, Incomplete, Completed
  <2> QED
    BY <2>1, <2>2
<1>3. ASSUME NEW a \in Approvals, NEW q \in Renders, RequestApproval(a, q)
      PROVE  render' = render
  BY <1>3 DEF RequestApproval
<1>4. ASSUME NEW a \in Approvals, NEW d \in Decision, DecideApproval(a, d)
      PROVE  render' = render
  BY <1>4 DEF DecideApproval
<1> QED
  BY <1>1, <1>2, <1>3, <1>4, <1>u DEF Request

\* A render request adds one queued row.
LEMMA EnqueueRows ==
    ASSUME IInv, Enqueue
    PROVE  \E q \in Renders :
              /\ pushing' = pushing \cup {q}
              /\ \A r \in Renders : r # q => render'[r] = render[r]
              /\ render'[q].status = "queued"
              /\ UNCHANGED <<worker, redis, proc, object, asset, lost>>
<1>0. render \in [Renders -> RenderRow]
  BY DEF IInv, TypeOK
<1>k. \A kind, a : QueuedRow(kind, a).status = "queued"
  BY DEF QueuedRow, NoRenderRow
<1>1. ASSUME NEW q \in Renders, EnqueueReview(q)
      PROVE  /\ pushing' = pushing \cup {q}
             /\ \A r \in Renders : r # q => render'[r] = render[r]
             /\ render'[q].status = "queued"
             /\ UNCHANGED <<worker, redis, proc, object, asset, lost>>
  BY <1>0, <1>1, <1>k DEF EnqueueReview, CreateReviewRender
<1>2. ASSUME NEW q \in Renders, NEW a \in Approvals, EnqueueFinal(q, a)
      PROVE  /\ pushing' = pushing \cup {q}
             /\ \A r \in Renders : r # q => render'[r] = render[r]
             /\ render'[q].status = "queued"
             /\ UNCHANGED <<worker, redis, proc, object, asset, lost>>
  BY <1>0, <1>2, <1>k DEF EnqueueFinal, CreateFinalRender
<1> QED
  BY <1>1, <1>2 DEF Enqueue

\* A started row is being rendered, or was cancelled.
LEMMA StartRows ==
    ASSUME IInv, NEW q \in Renders, StartRender(q)
    PROVE  /\ \A r \in Renders : r # q => render'[r] = render[r]
           /\ render'[q].status \in {"running", "cancelled"}
           /\ worker' = Idle => ~Incomplete(q)'
           /\ worker' # Idle => worker' = [at |-> "rendering", render |-> q]
<1>0. render \in [Renders -> RenderRow] /\ render[q] \in RenderRow
  BY DEF IInv, TypeOK
<1>1. CASE render[q].cancel
  BY <1>0, <1>1 DEF StartRender, Incomplete, RenderRow
<1>2. CASE ~render[q].cancel
  BY <1>0, <1>2 DEF StartRender, Idle, RenderRow
<1> QED
  BY <1>1, <1>2

\* A failed row is settled and has no output.
LEMMA FailRows ==
    ASSUME IInv, NEW q \in Renders, NEW c, FailRender(q, c)
    PROVE  /\ \A r \in Renders : r # q => render'[r] = render[r]
           /\ ~Incomplete(q)' /\ ~Completed(q)'
           /\ worker' = Idle
<1>0. render \in [Renders -> RenderRow] /\ render[q] \in RenderRow
  BY DEF IInv, TypeOK
<1>1. FailedRow(render[q], c).status \in DeadStatus
  <2>1. CASE render[q].status = "stale"
    BY <2>1 DEF FailedRow, DeadStatus
  <2>2. CASE render[q].status # "stale"
    BY <1>0, <2>2 DEF FailedRow, RenderRow, DeadStatus
  <2> QED
    BY <2>1, <2>2
<1>2. render' = [render EXCEPT ![q] = FailedRow(render[q], c)] /\ worker' = Idle
  BY DEF FailRender
<1> QED
  BY <1>0, <1>1, <1>2 DEF Incomplete, Completed, DeadStatus

\* A row whose rendering ends is settled.
LEMMA CompleteRows ==
    ASSUME IInv, NEW q \in Renders, CompleteRender(q)
    PROVE  /\ \A r \in Renders : r # q => render'[r] = render[r]
           /\ ~Incomplete(q)'
           /\ worker' = [at |-> "recording_costs", render |-> q]
<1>0. render \in [Renders -> RenderRow] /\ render[q] \in RenderRow
  BY DEF IInv, TypeOK
<1>1. /\ render' = [render EXCEPT ![q] = CompletedRow(render[q])]
      /\ worker' = [at |-> "recording_costs", render |-> q]
  BY DEF CompleteRender
<1>2. CompletedRow(render[q]).status \in {"awaiting_review", "ready", "stale", "cancelled"}
  <2>1. CASE render[q].cancel \/ render[q].status = "stale"
    BY <1>0, <2>1 DEF CompletedRow, RenderRow
  <2>2. CASE ~(render[q].cancel \/ render[q].status = "stale")
    BY <1>0, <2>2 DEF CompletedRow, RenderRow
  <2> QED
    BY <2>1, <2>2
<1> QED
  BY <1>0, <1>1, <1>2 DEF Incomplete

-----------------------------------------------------------------------------
(* The invariant holds.                                                    *)

\* Nothing is rendered, stored or on the lists at first.
LEMMA WInitInv == WInit => WInv
<1> SUFFICES ASSUME WInit PROVE WInv
  OBVIOUS
<1>1. IInv
  BY InitInv DEF WInit
<1>2. <<>> \in Seq(Renders)
  BY EmptySeq
<1>3. WorkerTypes
  BY <1>2 DEF WInit, WorkerTypes, ProcRow, EmptyQueue
<1>4. ProcHoldsJob /\ FilesOfAttempt /\ NoRenderForgotten
  BY DEF WInit, Init, ProcHoldsJob, FilesOfAttempt, NoRenderForgotten
<1>5. CompletedOutputIsRegistered
  BY DEF WInit, Init, CompletedOutputIsRegistered, NoRenderRow
<1> QED
  BY <1>1, <1>3, <1>4, <1>5 DEF WInv

\* Steps that leave the rows, the objects and the asset rows as they are keep
\* the outputs as registered.
LEMMA OutputsStay ==
    ASSUME CompletedOutputIsRegistered, UNCHANGED <<object, asset>>,
           \A r \in Renders : Completed(r)' => Completed(r)
    PROVE  CompletedOutputIsRegistered'
BY DEF CompletedOutputIsRegistered, Completed

\* Every step keeps the invariant.
LEMMA WNextInv == WInv /\ [WNext]_allVars => WInv'
<1> SUFFICES ASSUME WInv, [WNext]_allVars PROVE WInv'
  OBVIOUS
<1>0. /\ WorkerTypes /\ ProcHoldsJob /\ FilesOfAttempt /\ NoRenderForgotten
      /\ CompletedOutputIsRegistered /\ IInv
  BY DEF WInv
<1>i. IInv'
  BY <1>0, WStepIsStep, NextInv
<1>t. /\ redis.queue \in Seq(Renders) /\ redis.processing \in Seq(Renders)
      /\ redis = [queue |-> redis.queue, processing |-> redis.processing]
      /\ proc \in ProcRow /\ proc.found \in Seq(Renders)
      /\ None \notin Renders /\ None \notin Contents
  BY <1>0, ProductionConstants, RenderWorkerConstants DEF WorkerTypes, ProcRow
<1>1. CASE Request
  <2>d. UNCHANGED delivery
    BY <1>1 DEF Request
  <2>1. UNCHANGED delivery /\ worker' = worker
    BY <1>0, <1>1, <2>d, RequestRows
  <2>2. \A r \in Renders :
            /\ render'[r].status \in {"queued", "running"} => Incomplete(r)
            /\ render'[r].status \in {"awaiting_review", "ready"} => Completed(r)
    BY <1>0, <1>1, RequestRows
  <2>3. WorkerTypes' /\ ProcHoldsJob' /\ FilesOfAttempt'
    BY <1>0, <2>1 DEF delivery, WorkerTypes, ProcHoldsJob, FilesOfAttempt
  <2>4. NoRenderForgotten'
    BY <1>0, <2>1, <2>2 DEF delivery, NoRenderForgotten, Incomplete
  <2>5. CompletedOutputIsRegistered'
    BY <1>0, <2>1, <2>2, OutputsStay DEF delivery, Completed
  <2> QED
    BY <1>i, <2>3, <2>4, <2>5 DEF WInv
<1>2. CASE Enqueue
  <2>1. PICK q \in Renders :
              /\ pushing' = pushing \cup {q}
              /\ \A r \in Renders : r # q => render'[r] = render[r]
              /\ render'[q].status = "queued"
              /\ UNCHANGED <<worker, redis, proc, object, asset, lost>>
    BY <1>0, <1>2, EnqueueRows
  <2>2. WorkerTypes' /\ ProcHoldsJob' /\ FilesOfAttempt'
    BY <1>0, <2>1 DEF WorkerTypes, ProcHoldsJob, FilesOfAttempt
  <2>3. NoRenderForgotten'
    BY <1>0, <2>1 DEF NoRenderForgotten, Incomplete
  <2>4. CompletedOutputIsRegistered'
    BY <1>0, <2>1, OutputsStay DEF Completed
  <2> QED
    BY <1>i, <2>2, <2>3, <2>4 DEF WInv
<1>s. ASSUME UNCHANGED <<render, object, asset>>, WorkerTypes', ProcHoldsJob', FilesOfAttempt',
             NoRenderForgotten'
      PROVE  WInv'
  BY <1>0, <1>i, <1>s, OutputsStay DEF WInv, Completed
<1>3. ASSUME NEW q \in Renders, Push(q) PROVE WInv'
  <2>1. /\ pushing' = pushing \ {q} /\ UNCHANGED <<vars, proc, object, asset, lost>>
        /\ redis'.queue = Append(redis.queue, q) /\ redis'.processing = redis.processing
        /\ redis' = [queue |-> Append(redis.queue, q), processing |-> redis.processing]
    BY <1>t, <1>3 DEF Push, Pushed
  <2>2. redis'.queue \in Seq(Renders) /\ ToSet(redis'.queue) = ToSet(redis.queue) \cup {q}
    BY <1>t, <2>1, PushIds
  <2>3. WorkerTypes' /\ ProcHoldsJob' /\ FilesOfAttempt'
    BY <1>0, <1>t, <2>1, <2>2 DEF WorkerTypes, ProcHoldsJob, FilesOfAttempt, vars
  <2>4. NoRenderForgotten'
    BY <1>0, <2>1, <2>2 DEF NoRenderForgotten, Incomplete, Queued, vars
  <2> QED
    BY <1>s, <2>1, <2>3, <2>4 DEF vars
<1>4. ASSUME NEW q \in Renders, PushFails(q) PROVE WInv'
  <2>1. WorkerTypes' /\ ProcHoldsJob' /\ FilesOfAttempt'
    BY <1>0, <1>4 DEF PushFails, WorkerTypes, ProcHoldsJob, FilesOfAttempt, vars
  <2>2. NoRenderForgotten'
    BY <1>0, <1>4 DEF PushFails, NoRenderForgotten, Incomplete, vars
  <2> QED
    BY <1>4, <1>s, <2>1, <2>2 DEF PushFails, vars
<1>5. CASE RecoverRead
  <2> DEFINE unfinished == {r \in Renders : Incomplete(r)}
  <2>1. PICK ids \in Recoverable(redis, unfinished) :
            proc' = [proc EXCEPT !.pc = "recovering", !.found = ids]
    BY <1>5 DEF RecoverRead
  <2>2. unfinished \in SUBSET Renders /\ IsFiniteSet(unfinished)
    BY RenderWorkerConstants, FS_Subset
  <2>3. ids \in Seq(Renders) /\ unfinished \subseteq ToSet(ids)
    BY <1>t, <2>2, RecoverableIds
  <2>4. proc.pc = "down" /\ UNCHANGED <<vars, redis, pushing, object, asset, lost>>
    BY <1>5 DEF RecoverRead
  <2>5. /\ proc' \in ProcRow /\ proc'.pc = "recovering" /\ proc'.job = proc.job
        /\ proc'.found = ids
    BY <1>t, <2>1, <2>3 DEF ProcRow
  <2>6. WorkerTypes' /\ ProcHoldsJob' /\ FilesOfAttempt'
    BY <1>0, <2>4, <2>5 DEF WorkerTypes, ProcHoldsJob, FilesOfAttempt, vars
  <2>7. NoRenderForgotten'
    BY <2>3, <2>4, <2>5 DEF NoRenderForgotten, Incomplete, vars
  <2> QED
    BY <1>s, <2>4, <2>6, <2>7 DEF vars
<1>6. CASE RecoverExec
  <2>1. /\ redis' = Requeued(redis, proc.found) /\ lost' = lost \ ToSet(proc.found)
        /\ proc' = [proc EXCEPT !.pc = "waiting", !.found = <<>>]
        /\ proc.pc = "recovering" /\ UNCHANGED <<vars, pushing, object, asset>>
    BY <1>6 DEF RecoverExec
  <2>2. /\ redis' \in [queue : Seq(Renders), processing : Seq(Renders)]
        /\ ToSet(redis'.queue) = ToSet(redis.queue) \cup ToSet(proc.found)
    <3> DEFINE new == Requeued(redis, proc.found)
    <3>1. /\ new.queue \in Seq(Renders) /\ new.processing = <<>>
          /\ ToSet(new.queue) = ToSet(redis.queue) \cup ToSet(proc.found)
      BY <1>t, RequeuedIds
    <3>2. new = [queue |-> new.queue, processing |-> new.processing]
      BY DEF Requeued
    <3> HIDE DEF new
    <3>3. <<>> \in Seq(Renders) /\ redis' = new
      BY <2>1, EmptySeq DEF new
    <3> QED
      BY <3>1, <3>2, <3>3
  <2>3. proc' \in ProcRow /\ proc'.pc = "waiting" /\ proc'.job = proc.job
    BY <1>t, <2>1, EmptySeq DEF ProcRow
  <2>4. WorkerTypes' /\ ProcHoldsJob' /\ FilesOfAttempt'
    BY <1>0, <2>1, <2>2, <2>3 DEF WorkerTypes, ProcHoldsJob, FilesOfAttempt, vars
  <2>5. NoRenderForgotten'
    BY <1>0, <1>t, <2>1, <2>2, <2>3 DEF NoRenderForgotten, ProcHoldsJob, Incomplete, Queued, vars
  <2> QED
    BY <1>s, <2>1, <2>4, <2>5 DEF vars
<1>7. CASE Claim
  <2> DEFINE q == Last(redis.queue)
  <2>1. /\ proc.pc = "waiting" /\ redis.queue # <<>>
        /\ redis' = [queue |-> Front(redis.queue), processing |-> <<q>> \o redis.processing]
        /\ proc' = [proc EXCEPT !.pc = "claimed", !.job = q]
        /\ UNCHANGED <<vars, pushing, object, asset, lost>>
    BY <1>7 DEF Claim, Claimed, NextId
  <2>2. /\ q \in Renders /\ Front(redis.queue) \in Seq(Renders)
        /\ ToSet(redis.queue) = ToSet(Front(redis.queue)) \cup {q}
    BY <1>t, <2>1, ClaimIds
  <2>3. <<q>> \in Seq(Renders)
    BY <2>2
  <2>4. <<q>> \o redis.processing \in Seq(Renders)
    BY <1>t, <2>3, ConcatProperties
  <2>5. /\ proc' \in ProcRow /\ proc'.pc = "claimed" /\ proc'.job = q
        /\ proc'.found = proc.found
    BY <1>t, <2>1, <2>2 DEF ProcRow
  <2> HIDE DEF q
  <2>6. WorkerTypes' /\ ProcHoldsJob' /\ FilesOfAttempt'
    BY <1>0, <2>1, <2>2, <2>4, <2>5 DEF WorkerTypes, ProcHoldsJob, FilesOfAttempt, vars
  <2>7. NoRenderForgotten'
    BY <1>0, <1>t, <2>1, <2>2, <2>5 DEF NoRenderForgotten, ProcHoldsJob, Incomplete, Queued, vars
  <2> QED
    BY <1>s, <2>1, <2>6, <2>7 DEF vars
<1>8. CASE Skip
  <2>1. WorkerTypes' /\ ProcHoldsJob' /\ FilesOfAttempt'
    BY <1>0, <1>8 DEF Skip, WorkerTypes, ProcRow, ProcHoldsJob, FilesOfAttempt, vars
  <2>2. NoRenderForgotten'
    BY <1>0, <1>t, <1>8 DEF Skip, NoRenderForgotten, ProcRow, Incomplete, vars
  <2> QED
    BY <1>8, <1>s, <2>1, <2>2 DEF Skip, vars
<1>9. CASE Begin
  <2>1. proc.pc = "claimed" /\ proc.job \in Renders /\ StartRender(proc.job)
    BY <1>0, <1>9 DEF Begin, ProcHoldsJob
  <2>2. /\ \A r \in Renders : r # proc.job => render'[r] = render[r]
        /\ render'[proc.job].status \in {"running", "cancelled"}
        /\ worker' = Idle => render'[proc.job].status \notin {"queued", "running"}
        /\ worker' # Idle => worker' = [at |-> "rendering", render |-> proc.job]
    <3>1. \A q \in Renders : StartRender(q) =>
              /\ \A r \in Renders : r # q => render'[r] = render[r]
              /\ render'[q].status \in {"running", "cancelled"}
              /\ worker' = Idle => render'[q].status \notin {"queued", "running"}
              /\ worker' # Idle => worker' = [at |-> "rendering", render |-> q]
      BY <1>0, StartRows DEF Incomplete
    <3> QED
      BY <2>1, <3>1 DEF Incomplete
  <2>3. PICK c \in Contents :
            proc' = IF worker' = Idle THEN [proc EXCEPT !.pc = "settled"]
                    ELSE [proc EXCEPT !.pc = "working", !.file = c]
    BY <1>9 DEF Begin
  <2>4. UNCHANGED <<redis, pushing, object, asset, lost>>
    BY <1>9 DEF Begin
  <2>5. WorkerTypes' /\ ProcHoldsJob' /\ FilesOfAttempt'
    BY <1>0, <1>t, <2>1, <2>2, <2>3, <2>4 DEF WorkerTypes, ProcRow, ProcHoldsJob, FilesOfAttempt
  <2>6. NoRenderForgotten'
    BY <1>0, <1>t, <2>1, <2>2, <2>3, <2>4 DEF NoRenderForgotten, ProcRow, Incomplete
  <2>7. CompletedOutputIsRegistered'
    BY <1>0, <2>1, <2>2, <2>4, OutputsStay DEF Completed
  <2> QED
    BY <1>i, <2>5, <2>6, <2>7 DEF WInv
<1>10. CASE PutFile
  <2>1. /\ proc.pc = "working" /\ proc.job \in Renders /\ proc.file \in Contents
        /\ worker = [at |-> "rendering", render |-> proc.job]
    BY <1>0, <1>10 DEF PutFile, ProcHoldsJob
  <2>2. ~Completed(proc.job)
    BY <1>0, <2>1 DEF IInv, WorkerRow, Completed
  <2>3. /\ object' = [object EXCEPT ![proc.job] = proc.file]
        /\ proc' = [proc EXCEPT !.pc = "stored"]
        /\ UNCHANGED <<vars, redis, pushing, asset, lost>>
    BY <1>10 DEF PutFile
  <2>4. WorkerTypes' /\ ProcHoldsJob' /\ FilesOfAttempt'
    BY <1>0, <1>t, <2>1, <2>3 DEF WorkerTypes, ProcRow, ProcHoldsJob, FilesOfAttempt, vars
  <2>5. NoRenderForgotten'
    BY <1>0, <1>t, <2>1, <2>3 DEF NoRenderForgotten, ProcRow, Incomplete, vars
  <2>6. CompletedOutputIsRegistered'
    BY <1>0, <2>2, <2>3 DEF CompletedOutputIsRegistered, Completed, WorkerTypes, vars
  <2> QED
    BY <1>i, <2>4, <2>5, <2>6 DEF WInv
<1>11. CASE RegisterAsset
  <2>1. /\ proc.pc = "stored" /\ proc.job \in Renders /\ proc.file \in Contents
        /\ worker = [at |-> "rendering", render |-> proc.job]
    BY <1>0, <1>11 DEF RegisterAsset, ProcHoldsJob
  <2>2. ~Completed(proc.job)
    BY <1>0, <2>1 DEF IInv, WorkerRow, Completed
  <2>3. /\ asset' = [asset EXCEPT ![proc.job] = proc.file]
        /\ proc' = [proc EXCEPT !.pc = "registered"]
        /\ UNCHANGED <<vars, redis, pushing, object, lost>>
    BY <1>11 DEF RegisterAsset
  <2>4. WorkerTypes' /\ ProcHoldsJob' /\ FilesOfAttempt'
    BY <1>0, <1>t, <2>1, <2>3 DEF WorkerTypes, ProcRow, ProcHoldsJob, FilesOfAttempt, vars
  <2>5. NoRenderForgotten'
    BY <1>0, <1>t, <2>1, <2>3 DEF NoRenderForgotten, ProcRow, Incomplete, vars
  <2>6. CompletedOutputIsRegistered'
    BY <1>0, <2>2, <2>3 DEF CompletedOutputIsRegistered, Completed, WorkerTypes, vars
  <2> QED
    BY <1>i, <2>4, <2>5, <2>6 DEF WInv
<1>f. ASSUME NEW c, FailRender(proc.job, c), proc.job \in Renders,
             proc' = [proc EXCEPT !.pc = "settled"],
             UNCHANGED <<redis, pushing, object, asset, lost>>
      PROVE  WInv'
  <2>1. /\ \A r \in Renders : r # proc.job => render'[r] = render[r]
        /\ render'[proc.job].status \notin {"queued", "running"}
        /\ render'[proc.job].status \notin {"awaiting_review", "ready"}
        /\ worker' = Idle
    <3>1. \A q \in Renders : FailRender(q, c) =>
              /\ \A r \in Renders : r # q => render'[r] = render[r]
              /\ render'[q].status \notin {"queued", "running"}
              /\ render'[q].status \notin {"awaiting_review", "ready"}
              /\ worker' = Idle
      BY <1>0, FailRows DEF Incomplete, Completed
    <3> QED
      BY <1>f, <3>1
  <2>2. WorkerTypes' /\ ProcHoldsJob' /\ FilesOfAttempt'
    BY <1>0, <1>t, <1>f, <2>1 DEF WorkerTypes, ProcRow, ProcHoldsJob, FilesOfAttempt
  <2>3. NoRenderForgotten'
    BY <1>0, <1>t, <1>f, <2>1 DEF NoRenderForgotten, ProcRow, ProcHoldsJob, Incomplete
  <2>4. CompletedOutputIsRegistered'
    BY <1>0, <1>f, <2>1, OutputsStay DEF Completed
  <2> QED
    BY <1>i, <2>2, <2>3, <2>4 DEF WInv
<1>12. CASE RegisterConflict
  BY <1>0, <1>12, <1>f DEF RegisterConflict, ProcHoldsJob
<1>13. ASSUME NEW c \in FailureCode, Fail(c) PROVE WInv'
  BY <1>0, <1>13, <1>f DEF Fail, ProcHoldsJob
<1>14. CASE Complete
  <2>1. /\ proc.pc = "registered" /\ proc.job \in Renders /\ CompleteRender(proc.job)
        /\ proc.file \in Contents
    BY <1>0, <1>14 DEF Complete, ProcHoldsJob
  <2>2. object[proc.job] = asset[proc.job] /\ asset[proc.job] # None
    BY <1>0, <1>t, <2>1 DEF FilesOfAttempt
  <2>3. /\ \A r \in Renders : r # proc.job => render'[r] = render[r]
        /\ worker' = [at |-> "recording_costs", render |-> proc.job]
    <3>1. \A q \in Renders : CompleteRender(q) =>
              /\ \A r \in Renders : r # q => render'[r] = render[r]
              /\ worker' = [at |-> "recording_costs", render |-> q]
      BY <1>0, CompleteRows
    <3> QED
      BY <2>1, <3>1
  <2>4. proc' = [proc EXCEPT !.pc = "costing"] /\ UNCHANGED <<redis, pushing, object, asset, lost>>
    BY <1>14 DEF Complete
  <2>5. WorkerTypes' /\ ProcHoldsJob' /\ FilesOfAttempt'
    BY <1>0, <1>t, <2>1, <2>3, <2>4 DEF WorkerTypes, ProcRow, ProcHoldsJob, FilesOfAttempt
  <2>6. NoRenderForgotten'
    BY <1>0, <1>t, <2>1, <2>3, <2>4 DEF NoRenderForgotten, ProcRow, Incomplete
  <2>7. CompletedOutputIsRegistered'
    BY <1>0, <2>2, <2>3, <2>4 DEF CompletedOutputIsRegistered
  <2> QED
    BY <1>i, <2>5, <2>6, <2>7 DEF WInv
<1>15. CASE Costs
  <2>1. /\ proc.pc = "costing" /\ proc.job \in Renders
        /\ worker = [at |-> "recording_costs", render |-> proc.job]
    BY <1>0, <1>15 DEF Costs, ProcHoldsJob
  <2>2. ~Incomplete(proc.job)
    BY <1>0, <2>1 DEF IInv, WorkerRow, Incomplete
  <2>3. /\ worker' = Idle /\ proc' = [proc EXCEPT !.pc = "settled"]
        /\ UNCHANGED <<render, redis, pushing, object, asset, lost>>
    BY <1>15 DEF Costs, RecordCosts
  <2>4. WorkerTypes' /\ ProcHoldsJob' /\ FilesOfAttempt'
    BY <1>0, <1>t, <2>1, <2>3 DEF WorkerTypes, ProcRow, ProcHoldsJob, FilesOfAttempt
  <2>5. NoRenderForgotten'
    BY <1>0, <1>t, <2>1, <2>2, <2>3 DEF NoRenderForgotten, ProcRow, Incomplete
  <2> QED
    BY <1>s, <2>3, <2>4, <2>5
<1>16. CASE Raise
  <2>1. /\ proc.job \in Renders /\ worker' = Idle /\ proc' = [proc EXCEPT !.pc = "settled"]
        /\ lost' = lost \cup {proc.job}
        /\ UNCHANGED <<render, redis, pushing, object, asset>>
    BY <1>0, <1>16 DEF Raise, ProcHoldsJob
  <2>2. WorkerTypes' /\ ProcHoldsJob' /\ FilesOfAttempt'
    BY <1>0, <1>t, <1>16, <2>1 DEF WorkerTypes, ProcRow, ProcHoldsJob, FilesOfAttempt, Raise
  <2>3. NoRenderForgotten'
    BY <1>0, <1>t, <1>16, <2>1 DEF NoRenderForgotten, ProcRow, Incomplete, Raise
  <2> QED
    BY <1>s, <2>1, <2>2, <2>3
<1>17. CASE Release
  <2>1. /\ proc.pc = "settled" /\ UNCHANGED <<vars, pushing, object, asset, lost>>
        /\ redis' = [queue |-> redis.queue, processing |-> Without(redis.processing, {proc.job})]
        /\ proc' = [proc EXCEPT !.pc = "waiting", !.job = None, !.file = None]
    BY <1>t, <1>17 DEF Release, Released
  <2>2. Without(redis.processing, {proc.job}) \in Seq(Renders)
    BY <1>t, WithoutIds
  <2>3. WorkerTypes' /\ ProcHoldsJob' /\ FilesOfAttempt'
    BY <1>0, <1>t, <2>1, <2>2 DEF WorkerTypes, ProcRow, ProcHoldsJob, FilesOfAttempt, vars
  <2>4. NoRenderForgotten'
    BY <1>0, <1>t, <2>1 DEF NoRenderForgotten, ProcRow, Incomplete, Queued, vars
  <2> QED
    BY <1>s, <2>1, <2>3, <2>4 DEF vars
<1>18. CASE Crash
  <2>1. /\ worker' = Idle /\ UNCHANGED <<render, redis, pushing, object, asset, lost>>
        /\ proc' = [pc |-> "down", job |-> None, file |-> None, found |-> <<>>]
    BY <1>18 DEF Crash
  <2>2. WorkerTypes' /\ ProcHoldsJob' /\ FilesOfAttempt' /\ NoRenderForgotten'
    BY <1>0, <2>1, EmptySeq DEF WorkerTypes, ProcRow, ProcHoldsJob, FilesOfAttempt, NoRenderForgotten
  <2> QED
    BY <1>s, <2>1, <2>2
<1>19. CASE UNCHANGED allVars
  <2>1. WorkerTypes' /\ ProcHoldsJob' /\ FilesOfAttempt' /\ NoRenderForgotten'
    BY <1>0, <1>19 DEF allVars, delivery, vars, WorkerTypes, ProcHoldsJob, FilesOfAttempt,
                       NoRenderForgotten, Incomplete
  <2> QED
    BY <1>19, <1>s, <2>1 DEF allVars, delivery, vars
<1> QED
  BY <1>1, <1>2, <1>3, <1>4, <1>5, <1>6, <1>7, <1>8, <1>9, <1>10, <1>11, <1>12, <1>13, <1>14,
     <1>15, <1>16, <1>17, <1>18, <1>19
  DEF WNext, WorkerStep

\* The invariant holds in every reachable state.
LEMMA WInvariant == WSpec => []WInv
BY WInitInv, WNextInv, PTL DEF WSpec

-----------------------------------------------------------------------------
(* What the invariant gives.                                               *)

\* The delivery of renders (services/worker/npd_worker/main.py), with its
\* crashes and lost pushes, takes only the steps Production allows, so all
\* that is proved of the tables holds while renders are delivered.
THEOREM DeliveryImplementsProduction == WSpec => Spec
<1>1. WInit => Init
  BY DEF WInit
<1>2. WInv /\ [WNext]_allVars => [Next]_vars
  BY WStepIsStep DEF WInv
<1> QED
  BY <1>1, <1>2, WInvariant, PTL DEF WSpec, Spec

\* While the worker is up, each unfinished render is on the queue, about to be
\* put there, in the worker's hands, or one a fault is known to have dropped.
THEOREM RendersRemembered == WSpec => []NoRenderForgotten
<1>1. WInv => NoRenderForgotten
  BY DEF WInv
<1> QED
  BY <1>1, WInvariant, PTL

\* However attempts are cut short and repeated with other output, a completed
\* render's object is the one its asset row describes (_persist_asset).
THEOREM OutputsRegistered == WSpec => []CompletedOutputIsRegistered
<1>1. WInv => CompletedOutputIsRegistered
  BY DEF WInv
<1> QED
  BY <1>1, WInvariant, PTL

\* While renders are delivered, usable ones are of the current tuple.
THEOREM DeliveredRendersCurrent == WSpec => []LiveRendersAreCurrent
BY DeliveryImplementsProduction, LiveRendersCurrent, PTL
=============================================================================
