------------------------------ MODULE EditRace ------------------------------
(***************************************************************************)
(* commit_mutation and create_render at the grain of their row locks.      *)
(*                                                                         *)
(* PostgreSQL runs them at READ COMMITTED (db.py sets no isolation level). *)
(* create_render locks the package row and reads the timeline row without  *)
(* a lock; commit_mutation locks the timeline row and reads the package    *)
(* row without one, needing its lock only when the unit of work is flushed *)
(* at commit.  The render row names the timeline without a foreign key, so *)
(* its insertion does not wait for the timeline row either (the package    *)
(* row has that key: a first package waits for an open edit).              *)
(*                                                                         *)
(* Every other transaction of Production.tla that writes the timeline row  *)
(* or the package row conflicts with an open one on a row lock; where two  *)
(* would wait for each other PostgreSQL aborts one (EditAborts).           *)
(***************************************************************************)
EXTENDS Production

VARIABLES
    edit,           \* commit_mutation: [open, approvals, renders, loaded]
    create          \* create_render: [open, kind, approval]

raceVars == <<vars, edit, create>>

NoEdit == [open |-> "no", approvals |-> {}, renders |-> {}, loaded |-> None]
NoCreate == [open |-> FALSE, kind |-> "review", approval |-> None]

RInit == Init /\ edit = NoEdit /\ create = NoCreate

-----------------------------------------------------------------------------
(* commit_mutation.                                                        *)

\* SELECT ... FROM timelines FOR UPDATE, and the version check.
EditLocksTimeline ==
    /\ edit.open = "no"
    /\ timeline.version < MaxVersion
    /\ edit' = [edit EXCEPT !.open = "locked"]
    /\ UNCHANGED <<vars, create>>

\* The package is read, and the UPDATEs of approvals and renders find the rows
\* that are committed now; what they write is not visible before the commit.
EditUpdates ==
    /\ edit.open = "locked"
    /\ edit' = IF PackageExists
               THEN [open |-> "updated",
                     approvals |-> {a \in Approvals : approval[a].status \in PendingApproval},
                     renders |-> {r \in Renders : render[r].status \in LiveStatus},
                     loaded |-> package]
               ELSE [edit EXCEPT !.open = "updated"]
    /\ UNCHANGED <<vars, create>>

\* The flush writes the package's columns that differ from the row it loaded;
\* it waits while create_render holds that row.
Flushed(column, loaded) == IF loaded = None THEN column ELSE None

EditCommits ==
    /\ edit.open = "updated"
    /\ ~create.open
    /\ timeline' = [Draft(timeline) EXCEPT !.version = timeline.version + 1]
    /\ approval' = Withdraw(approval, edit.approvals)
    /\ render' = [r \in Renders |->
                    IF r \in edit.renders THEN Stale(render)[r] ELSE render[r]]
    /\ package' = IF edit.loaded = None THEN package
                  ELSE [package EXCEPT
                          !.approval = Flushed(@, edit.loaded.approval),
                          !.review = Flushed(@, edit.loaded.review),
                          !.final = Flushed(@, edit.loaded.final)]
    /\ edit' = NoEdit
    /\ UNCHANGED <<worker, create>>

\* A deadlock victim, or a lost connection.
EditAborts ==
    /\ edit.open # "no"
    /\ edit' = NoEdit
    /\ UNCHANGED <<vars, create>>

-----------------------------------------------------------------------------
(* create_render.                                                          *)

\* The package row is locked and everything is checked against committed rows.
CreateChecks(kind, a) ==
    /\ ~create.open
    /\ CurrentTimeline
    /\ kind = "final" => a \in Approvals /\ ApprovalIsCurrent(a)
    /\ kind = "review" => a = None
    /\ create' = [open |-> TRUE, kind |-> kind, approval |-> a]
    /\ UNCHANGED <<vars, edit>>

CreateCommits(r) ==
    /\ create.open
    /\ render[r].status = "none"
    /\ render' = [render EXCEPT ![r] = QueuedRow(create.kind, create.approval)]
    /\ package' = IF create.kind = "review" THEN [package EXCEPT !.review = r]
                  ELSE [package EXCEPT !.final = r]
    /\ create' = NoCreate
    /\ UNCHANGED <<timeline, approval, worker, edit>>

CreateAborts ==
    /\ create.open
    /\ create' = NoCreate
    /\ UNCHANGED <<vars, edit>>

-----------------------------------------------------------------------------
\* Transactions that lock the package row and write the timeline row: they
\* commit only while neither of the two is open.
Exclusive ==
    /\ edit.open = "no" /\ ~create.open
    /\ \/ \E v \in 1 .. MaxVersion : CreateOrRefreshPackage(v)
       \/ ReplaceSubtitles
       \/ ReplaceAudioMix
       \/ \E r \in Renders, a \in Approvals : RequestApproval(a, r)
       \/ \E a \in Approvals, d \in Decision : DecideApproval(a, d)
    /\ UNCHANGED <<edit, create>>

\* Transactions on one render row wait for an edit that has updated it.
OnRenderRow ==
    /\ \/ \E r \in Renders \ edit.renders :
             \/ CancelRender(r)
             \/ StartRender(r)
             \/ CompleteRender(r)
             \/ \E c \in FailureCode : FailRender(r, c)
       \/ RecordCosts
       \/ WorkerCrash
    /\ UNCHANGED <<edit, create>>

RNext ==
    \/ EditLocksTimeline \/ EditUpdates \/ EditCommits \/ EditAborts
    \/ \E kind \in {"review", "final"}, a \in Approvals \cup {None} : CreateChecks(kind, a)
    \/ \E r \in Renders : CreateCommits(r)
    \/ CreateAborts
    \/ Exclusive
    \/ OnRenderRow

RSpec == RInit /\ [][RNext]_raceVars

-----------------------------------------------------------------------------
(* Properties; LiveRendersAreCurrent, which the atomic model satisfies, is *)
(* violated here.                                                          *)

\* A render that commit_mutation did not see is still a render of the tuple
\* the package holds: no usable render belongs to a tuple the package has
\* left, and refreshing the package makes the missed one stale.
LiveRendersMatchPackage ==
    \A r \in Renders :
        render[r].status \in LiveStatus => render[r].bind = package.bind
=============================================================================
