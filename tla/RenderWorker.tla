---------------------------- MODULE RenderWorker ----------------------------
(***************************************************************************)
(* How a production render travels: the API stores the row and then pushes *)
(* its id on a Redis list (production_service.py), the single worker pops  *)
(* it into a processing list, runs process(), and takes it off again       *)
(* (services/worker/npd_worker/main.py).  The files of a render go to an   *)
(* object key that depends on the render id only, and an asset row records *)
(* the checksum.  One file and one asset row stand for the five of a       *)
(* render, which _persist_asset treats alike.                              *)
(*                                                                         *)
(* Every step on the tables is an action of Production.tla, so this        *)
(* specification implements that one.                                      *)
(***************************************************************************)
EXTENDS Production, WorkQueue

CONSTANTS
    Contents,       \* what a rendering attempt may produce, as checksums
    MaxCrashes      \* bound on worker crashes, API crashes and raised errors

ASSUME RenderWorkerConstants ==
    /\ None \notin Contents
    /\ IsFiniteSet(Renders)
    /\ MaxCrashes \in Nat

VARIABLES
    redis,          \* [queue, processing], the two lists
    pushing,        \* renders whose request has stored the row, not yet pushed
    proc,           \* the worker process: [pc, job, file, found]
    object,         \* content under each render's object key
    asset,          \* checksum in each render's asset row
    lost,           \* history: rows whose id left Redis before they settled
    crashes         \* failures so far

delivery == <<redis, pushing, proc, object, asset, lost, crashes>>
allVars == <<vars, delivery>>

Incomplete(r) == render[r].status \in {"queued", "running"}

WInit ==
    /\ Init
    /\ redis = EmptyQueue
    /\ pushing = {}
    /\ proc = [pc |-> "down", job |-> None, file |-> None, found |-> <<>>]
    /\ object = [r \in Renders |-> None]
    /\ asset = [r \in Renders |-> None]
    /\ lost = {}
    /\ crashes = 0

-----------------------------------------------------------------------------
(* The API: the row first, then the push.                                  *)

EnqueueReview(r) ==
    /\ CreateReviewRender(r)
    /\ pushing' = pushing \cup {r}
    /\ UNCHANGED <<redis, proc, object, asset, lost, crashes>>

EnqueueFinal(r, a) ==
    /\ CreateFinalRender(r, a)
    /\ pushing' = pushing \cup {r}
    /\ UNCHANGED <<redis, proc, object, asset, lost, crashes>>

Push(r) ==
    /\ r \in pushing
    /\ redis' = Pushed(redis, r)
    /\ pushing' = pushing \ {r}
    /\ UNCHANGED <<vars, proc, object, asset, lost, crashes>>

\* The API process dies, or Redis refuses the push, after the row is stored.
PushFails(r) ==
    /\ r \in pushing
    /\ crashes < MaxCrashes
    /\ pushing' = pushing \ {r}
    /\ lost' = lost \cup {r}
    /\ crashes' = crashes + 1
    /\ UNCHANGED <<vars, redis, proc, object, asset>>

-----------------------------------------------------------------------------
(* The worker process.                                                     *)

\* recover_production_render_jobs: the reads ...
RecoverRead ==
    /\ proc.pc = "down"
    /\ \E ids \in Recoverable(redis, {r \in Renders : Incomplete(r)}) :
          proc' = [proc EXCEPT !.pc = "recovering", !.found = ids]
    /\ UNCHANGED <<vars, redis, pushing, object, asset, lost, crashes>>

\* ... and the MULTI that rebuilds the queue.
RecoverExec ==
    /\ proc.pc = "recovering"
    /\ redis' = Requeued(redis, proc.found)
    /\ lost' = lost \ ToSet(proc.found)
    /\ proc' = [proc EXCEPT !.pc = "waiting", !.found = <<>>]
    /\ UNCHANGED <<vars, pushing, object, asset, crashes>>

\* BRPOPLPUSH takes the id that was pushed last.
Claim ==
    /\ proc.pc = "waiting"
    /\ redis.queue # <<>>
    /\ redis' = Claimed(redis)
    /\ proc' = [proc EXCEPT !.pc = "claimed", !.job = NextId(redis)]
    /\ UNCHANGED <<vars, pushing, object, asset, lost, crashes>>

\* process(): a render that is no longer queued or running is left alone ...
Skip ==
    /\ proc.pc = "claimed"
    /\ ~Incomplete(proc.job)
    /\ proc' = [proc EXCEPT !.pc = "settled"]
    /\ UNCHANGED <<vars, redis, pushing, object, asset, lost, crashes>>

\* ... and any other is started; the attempt's output is some content.
Begin ==
    /\ proc.pc = "claimed"
    /\ StartRender(proc.job)
    /\ \E c \in Contents :
          proc' = IF worker' = Idle THEN [proc EXCEPT !.pc = "settled"]
                  ELSE [proc EXCEPT !.pc = "working", !.file = c]
    /\ UNCHANGED <<redis, pushing, object, asset, lost, crashes>>

\* _persist_asset: put_file overwrites what the key holds ...
PutFile ==
    /\ proc.pc = "working"
    /\ object' = [object EXCEPT ![proc.job] = proc.file]
    /\ proc' = [proc EXCEPT !.pc = "stored"]
    /\ UNCHANGED <<vars, redis, pushing, asset, lost, crashes>>

\* ... before register_asset compares it with the row of an earlier attempt.
RegisterAsset ==
    /\ proc.pc = "stored"
    /\ asset[proc.job] \in {None, proc.file}
    /\ asset' = [asset EXCEPT ![proc.job] = proc.file]
    /\ proc' = [proc EXCEPT !.pc = "registered"]
    /\ UNCHANGED <<vars, redis, pushing, object, lost, crashes>>

\* (Mutants: keep the earlier row; overwrite the status without a look at it.)
AcceptConflict ==
    /\ proc.pc = "stored"
    /\ asset[proc.job] \notin {None, proc.file}
    /\ proc' = [proc EXCEPT !.pc = "registered"]
    /\ UNCHANGED <<vars, redis, pushing, object, asset, lost, crashes>>
FailStaleRow ==
    /\ proc.pc = "stored"
    /\ asset[proc.job] \notin {None, proc.file}
    /\ render' = [render EXCEPT ![proc.job].status = "failed"]
    /\ worker' = Idle
    /\ proc' = [proc EXCEPT !.pc = "settled"]
    /\ UNCHANGED <<timeline, package, approval, redis, pushing, object, asset, lost, crashes>>
RegisterConflict ==
    /\ proc.pc = "stored"
    /\ asset[proc.job] \notin {None, proc.file}
    /\ FailRender(proc.job, "PRODUCTION_RENDER_FAILED")
    /\ proc' = [proc EXCEPT !.pc = "settled"]
    /\ UNCHANGED <<redis, pushing, object, asset, lost, crashes>>

Complete ==
    /\ proc.pc = "registered"
    /\ CompleteRender(proc.job)
    /\ proc' = [proc EXCEPT !.pc = "costing"]
    /\ UNCHANGED <<redis, pushing, object, asset, lost, crashes>>

Costs ==
    /\ proc.pc = "costing"
    /\ RecordCosts
    /\ proc' = [proc EXCEPT !.pc = "settled"]
    /\ UNCHANGED <<redis, pushing, object, asset, lost, crashes>>

\* An exception that process() turns into fail_render.
Fail(code) ==
    /\ proc.pc \in {"working", "stored", "registered", "costing"}
    /\ proc.pc # "working" => code = "PRODUCTION_RENDER_FAILED"
    /\ FailRender(proc.job, code)
    /\ proc' = [proc EXCEPT !.pc = "settled"]
    /\ UNCHANGED <<redis, pushing, object, asset, lost, crashes>>

\* process() itself raises: the database refused start_render or fail_render.
\* The loop logs it and its finally clause still takes the id off the list.
Raise ==
    /\ proc.pc \in {"claimed", "working", "stored", "registered", "costing"}
    /\ crashes < MaxCrashes
    /\ crashes' = crashes + 1
    /\ worker' = Idle
    /\ proc' = [proc EXCEPT !.pc = "settled"]
    /\ lost' = lost \cup {proc.job}
    /\ UNCHANGED <<timeline, package, approval, render, redis, pushing, object, asset>>

\* LREM processing 1 id.
Release ==
    /\ proc.pc = "settled"
    /\ redis' = Released(redis, proc.job)
    /\ proc' = [proc EXCEPT !.pc = "waiting", !.job = None, !.file = None]
    /\ UNCHANGED <<vars, pushing, object, asset, lost, crashes>>

Crash ==
    /\ proc.pc # "down"
    /\ crashes < MaxCrashes
    /\ crashes' = crashes + 1
    /\ worker' = Idle
    /\ proc' = [pc |-> "down", job |-> None, file |-> None, found |-> <<>>]
    /\ UNCHANGED <<timeline, package, approval, render, redis, pushing, object, asset, lost>>

-----------------------------------------------------------------------------
\* The requests that do not touch the queue.
Request ==
    /\ \/ Edit
       \/ \E r \in Renders : CancelRender(r)
       \/ \E r \in Renders, a \in Approvals : RequestApproval(a, r)
       \/ \E a \in Approvals, d \in Decision : DecideApproval(a, d)
    /\ UNCHANGED delivery

Enqueue ==
    \/ \E r \in Renders : EnqueueReview(r)
    \/ \E r \in Renders, a \in Approvals : EnqueueFinal(r, a)

\* The steps the worker takes on its own, without which a render stays put.
WorkerStep ==
    \/ RecoverRead \/ RecoverExec
    \/ Claim \/ Skip \/ Begin
    \/ PutFile \/ RegisterAsset \/ RegisterConflict
    \/ Complete \/ Costs \/ Release

WNext ==
    \/ Request
    \/ Enqueue
    \/ \E r \in Renders : Push(r) \/ PushFails(r)
    \/ WorkerStep
    \/ \E c \in FailureCode : Fail(c)
    \/ Raise
    \/ Crash

\* The API process runs its push; the worker is restarted and keeps polling,
\* and the calls of process() return or time out.
Fairness ==
    /\ WF_allVars(\E r \in Renders : Push(r))
    /\ WF_allVars(WorkerStep)

WSpec == WInit /\ [][WNext]_allVars /\ Fairness

-----------------------------------------------------------------------------
(* Properties.                                                             *)

\* While a worker runs, a render that PostgreSQL calls queued or running is on
\* the queue or about to be put there, in the hands of the worker, or was
\* dropped by a failed push or by an exception out of process() since the
\* last restart.
NoRenderForgotten ==
    proc.pc # "down" =>
        \A r \in Renders : Incomplete(r) =>
            \/ r \in Queued(redis) \cup ToSet(proc.found) \cup pushing \cup lost
            \/ proc.job = r /\ proc.pc # "settled"

\* The output of a completed render is the object that its asset row
\* describes, although a crashed attempt may have left other content there.
CompletedOutputIsRegistered ==
    \A r \in Renders : render[r].status \in {"awaiting_review", "ready"} =>
        asset[r] # None /\ object[r] = asset[r]

\* Every render that is not dropped settles, through crashes and re-runs, and
\* a dropped one does once the worker restarts.
RendersSettle ==
    \A r \in Renders :
        Incomplete(r) /\ (r \notin lost \/ proc.pc = "recovering") ~>
            ~Incomplete(r) \/ r \in lost
=============================================================================
