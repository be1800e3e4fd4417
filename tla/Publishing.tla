----------------------------- MODULE Publishing -----------------------------
(***************************************************************************)
(* Publication of a final render (create in publishing_service.py over     *)
(* publishing_repository.py), beside the edits, reviews and renders of     *)
(* Production.tla.  A handler reads the package, reads the render, reserves*)
(* the publication under its Idempotency-Key, checks what it has read and  *)
(* finalises, each in a transaction of its own; an edit may come between   *)
(* any two of them, and the process may die there.                         *)
(*                                                                         *)
(* Rights and platform limits are checks of one asset and one request:     *)
(* they pass or fail.                                                      *)
(***************************************************************************)
EXTENDS Production

CONSTANTS
    Keys,               \* idempotency keys
    Publishers,         \* concurrent handlers
    MaxPublishCalls     \* bound on publish requests

ASSUME PublishingConstants == MaxPublishCalls \in Nat

VARIABLES
    publication,        \* rows by key: [status, render, mode]
    publisher,          \* handlers: [pc, key, render, mode, seen, row, usable]
    published,          \* history: succeeded renders that were usable when read
    publishCalls

pubVars == <<publication, publisher, published, publishCalls>>

Mode == {"dry_run", "live"}
NoPublication == [status |-> "none", render |-> None, mode |-> "dry_run"]
Unseen == [approval |-> None, status |-> "none", bind |-> NoBind, final |-> None, current |-> FALSE]
Absent == [pc |-> "idle", key |-> None, render |-> None, mode |-> "dry_run",
           seen |-> Unseen, row |-> NoRenderRow, usable |-> FALSE]

PubInit ==
    /\ Init
    /\ publication = [k \in Keys |-> NoPublication]
    /\ publisher = [p \in Publishers |-> Absent]
    /\ published = [k \in Keys |-> FALSE]
    /\ publishCalls = 0

Answer(p) == publisher' = [publisher EXCEPT ![p] = Absent]

-----------------------------------------------------------------------------
CallPublish(p, k, r, m) ==
    /\ publisher[p].pc = "idle"
    /\ publishCalls < MaxPublishCalls
    /\ publisher' = [publisher EXCEPT ![p] =
          [Absent EXCEPT !.pc = "package", !.key = k, !.render = r, !.mode = m]]
    /\ publishCalls' = publishCalls + 1
    /\ UNCHANGED <<vars, publication, published>>

\* get_package: its approval, its latest final render, whether it is current.
ReadPackage(p) ==
    /\ publisher[p].pc = "package"
    /\ IF PackageExists
       THEN publisher' = [publisher EXCEPT ![p].pc = "render", ![p].seen =
                  [approval |-> package.approval,
                   status |-> IF package.approval = None THEN "none" ELSE approval[package.approval].status,
                   bind |-> IF package.approval = None THEN NoBind ELSE approval[package.approval].bind,
                   final |-> package.final,
                   current |-> CurrentTimeline]]
       ELSE Answer(p)
    /\ UNCHANGED <<vars, publication, published, publishCalls>>

\* get_render.  A render without output is not found; a package without an
\* approval is refused, before the key is looked up.
HasOutput(row) == row.qc = "passed"

ReadRender(p) ==
    LET row == render[publisher[p].render]
    IN  /\ publisher[p].pc = "render"
        /\ \/ row.status = "none" /\ Answer(p)
           \/ row.status # "none" /\ publisher[p].seen.approval = None /\ Answer(p)
           \/ /\ row.status # "none" /\ publisher[p].seen.approval # None /\ ~HasOutput(row)
              /\ Answer(p)
           \/ /\ publisher[p].seen.approval # None /\ HasOutput(row)
              /\ publisher' = [publisher EXCEPT ![p].pc = "reserve", ![p].row = row,
                    ![p].usable = /\ row.status = "ready"
                                  /\ row.kind = "final"
                                  /\ row.bind = package.bind
                                  /\ CurrentTimeline
                                  /\ approval[row.approval].bind = package.bind]
        /\ UNCHANGED <<vars, publication, published, publishCalls>>

\* reserve: a new row, or the one the key has: another body is a conflict, a
\* blocked one an error, any other is returned as it is.
Reserve(p) ==
    LET k == publisher[p].key
    IN  /\ publisher[p].pc = "reserve"
        /\ IF publication[k].status = "none"
           THEN /\ publication' = [publication EXCEPT ![k] =
                      [status |-> "validating", render |-> publisher[p].render, mode |-> publisher[p].mode]]
                /\ publisher' = [publisher EXCEPT ![p].pc = "check"]
           ELSE /\ Answer(p)
                /\ UNCHANGED publication
        /\ UNCHANGED <<vars, published, publishCalls>>

\* _production_checks, on what was read before the reservation.
\* (Mutants: the render's state is not asked; it need not be the approved one.)
FinalRenderUnasked(seen, r, row) ==
    seen.final = r /\ row.kind = "final"
FinalRenderCheck(seen, r, row) ==
    seen.final = r /\ row.kind = "final" /\ row.status = "ready" /\ row.qc = "passed"

ApprovalCheck(seen, row) ==
    /\ seen.status = "approved"
    /\ row.approval = seen.approval
    /\ row.bind = seen.bind

\* OfficialPublishingProvider is contract-only, whatever its configuration.
\* (Mutant: configuration would do.)
ProviderConfigured(mode) == TRUE
ProviderCheck(mode) == mode = "dry_run"

ChecksPass(p) ==
    /\ publisher[p].seen.current
    /\ ApprovalCheck(publisher[p].seen, publisher[p].row)
    /\ FinalRenderCheck(publisher[p].seen, publisher[p].render, publisher[p].row)
    /\ ProviderCheck(publisher[p].mode)

\* The verdict of the checks, of rights and of platform limits, finalised.
\* (Mutant: a status no reader knows.)
Verdict(mode) == IF mode = "dry_run" THEN "dry_run_succeeded" ELSE "published"

Succeed(p) ==
    LET k == publisher[p].key
    IN  /\ publisher[p].pc = "check"
        /\ ChecksPass(p)
        /\ publication' = [publication EXCEPT ![k].status = Verdict(publisher[p].mode)]
        /\ published' = [published EXCEPT ![k] = publisher[p].usable]
        /\ Answer(p)
        /\ UNCHANGED <<vars, publishCalls>>

\* The checks, the rights or the platform limits fail.
Block(p) ==
    /\ publisher[p].pc = "check"
    /\ publication' = [publication EXCEPT ![publisher[p].key].status = "blocked"]
    /\ Answer(p)
    /\ UNCHANGED <<vars, published, publishCalls>>

\* The API process dies, or a read raises, between two transactions.
PublisherStops(p) ==
    /\ publisher[p].pc # "idle"
    /\ publisher' = [publisher EXCEPT ![p] = Absent]
    /\ UNCHANGED <<vars, publication, published, publishCalls>>

-----------------------------------------------------------------------------
PublisherStep(p) ==
    \/ \E k \in Keys, r \in Renders, m \in Mode : CallPublish(p, k, r, m)
    \/ ReadPackage(p) \/ ReadRender(p) \/ Reserve(p) \/ Succeed(p) \/ Block(p)
    \/ PublisherStops(p)

PubNext ==
    \/ Next /\ UNCHANGED pubVars
    \/ \E p \in Publishers : PublisherStep(p)

PubSpec == PubInit /\ [][PubNext]_<<vars, pubVars>>

-----------------------------------------------------------------------------
(* Properties.                                                             *)

\* The checks compare a package and a render read at two moments, yet when a
\* publication succeeds its render was, at the later one, a ready final render
\* of the package's tuple at the timeline's current version, made for an
\* approval of that tuple.
PublishedRenderWasUsable ==
    \A k \in Keys :
        publication[k].status \in {"dry_run_succeeded", "published"} => published[k]

\* No live publication gets past the checks.
LiveIsBlocked ==
    \A k \in Keys : publication[k].status # "published"

\* A publication succeeds only as a dry run of a render that was usable.
PublicationsAreSafe == PublishedRenderWasUsable /\ LiveIsBlocked
=============================================================================
