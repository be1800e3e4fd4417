--------------------------- MODULE ExecutionPlane ---------------------------
(***************************************************************************)
(* One governed provider operation on its host: the role of the ledger's   *)
(* database is opened for a window (runtime_activation_host.py), a root    *)
(* wrapper runs the executor once and closes the role again                *)
(* (provider-execution-wrapper.sh, executor_execution.py), the executor    *)
(* asks a one-shot service for the credential (provider_secret_resolver.py)*)
(* and hands it to the canonical runner (provider_single_dispatch.py),     *)
(* while a timer closes the role when its window is over                   *)
(* (runtime_role_failsafe.py).  Any process may die, a connection may fail *)
(* and an answer be lost.                                                  *)
(*                                                                         *)
(* Wrappers may overlap; the executor's lock lets one of them in.  What is *)
(* compared with pinned hashes and identities is taken to match, or to be  *)
(* refused before anything else is done.                                   *)
(***************************************************************************)
EXTENDS Integers, FiniteSets

CONSTANTS
    Wrappers,       \* runs of the wrapper, all for one operation
    XFrom, XUntil,  \* the window of the activation
    XHorizon,       \* bound on the clock
    XMaxActivations,
    XMaxFaults      \* bound on deaths, refused connections and lost answers

VARIABLES
    xNow,
    xRole,          \* may the runtime role log in
    xMarker,        \* the active marker, with the window's end
    xSocket,        \* the resolver listens
    xActivator,     \* [pc, runs] of the activation command
    xRun,           \* [pc, secret, reads] of each wrapper and its executor
    xLedger,        \* [status, started] of the operation's row
    xSpent,         \* the resolver's spent marker
    xEvidence,      \* [armed, intent, terminal] of the operation's folder
    xReceipt,       \* what each executor's terminal receipt says
    xSent,          \* requests that each executor's adapter sent
    xHandoffs,      \* credentials that each executor was handed
    xRevoked,       \* the host's consent was withdrawn: "no", "early", "late"
    xFaults

xHost == <<xRole, xMarker, xSocket, xRevoked>>
xBooks == <<xLedger, xSpent, xEvidence, xReceipt, xSent, xHandoffs>>
xVars == <<xNow, xHost, xActivator, xRun, xBooks, xFaults>>

\* A count that is claimed is {n}; {} claims nothing.
NoClaim == {}
NoReceipt == [calls |-> NoClaim, reads |-> NoClaim, consumed |-> NoClaim]

XInit ==
    /\ xNow = 0
    /\ xRole = "NOLOGIN" /\ xMarker = FALSE /\ xSocket = FALSE /\ xRevoked = "no"
    /\ xActivator = [pc |-> "idle", runs |-> 0]
    /\ xRun = [w \in Wrappers |-> [pc |-> "idle", secret |-> FALSE, reads |-> {0}]]
    /\ xLedger = [status |-> "none", started |-> FALSE]
    /\ xSpent = FALSE
    /\ xEvidence = [armed |-> FALSE, intent |-> FALSE, terminal |-> "none"]
    /\ xReceipt = [w \in Wrappers |-> NoReceipt]
    /\ xSent = [w \in Wrappers |-> 0]
    /\ xHandoffs = [w \in Wrappers |-> 0]
    /\ xFaults = 0

InWindow == XFrom <= xNow /\ xNow < XUntil
Fault == xFaults < XMaxFaults /\ xFaults' = xFaults + 1

XTick ==
    /\ xNow < XHorizon
    /\ xNow' = xNow + 1
    /\ UNCHANGED <<xHost, xActivator, xRun, xBooks, xFaults>>

-----------------------------------------------------------------------------
(* The role.                                                               *)

\* activate: a closed role without a marker, inside the window.
BeginActivation ==
    /\ xActivator.pc = "idle" /\ xActivator.runs < XMaxActivations
    /\ InWindow /\ xRole = "NOLOGIN" /\ ~xMarker
    /\ xActivator' = [pc |-> "checked", runs |-> xActivator.runs + 1]
    /\ UNCHANGED <<xNow, xHost, xRun, xBooks, xFaults>>

OpenRole ==
    /\ xActivator.pc = "checked"
    /\ xRole' = "LOGIN"
    /\ xActivator' = [xActivator EXCEPT !.pc = "opened"]
    /\ UNCHANGED <<xNow, xMarker, xSocket, xRevoked, xRun, xBooks, xFaults>>

PersistActive ==
    /\ xActivator.pc = "opened"
    /\ xMarker' = TRUE
    /\ xActivator' = [xActivator EXCEPT !.pc = "marked"]
    /\ UNCHANGED <<xNow, xRole, xSocket, xRevoked, xRun, xBooks, xFaults>>

StartSocket ==
    /\ xActivator.pc = "marked"
    /\ xSocket' = TRUE
    /\ xActivator' = [xActivator EXCEPT !.pc = "idle"]
    /\ UNCHANGED <<xNow, xRole, xMarker, xRevoked, xRun, xBooks, xFaults>>

\* The marker or the socket fails: the role is closed again, then the marker
\* removed.
UndoActivation ==
    /\ \/ /\ xActivator.pc \in {"opened", "marked"} /\ Fault
          /\ xRole' = "NOLOGIN"
          /\ xActivator' = [xActivator EXCEPT !.pc = "undoing"]
          /\ UNCHANGED xMarker
       \/ /\ xActivator.pc = "undoing"
          /\ xMarker' = FALSE
          /\ xActivator' = [xActivator EXCEPT !.pc = "idle"]
          /\ UNCHANGED <<xRole, xFaults>>
    /\ UNCHANGED <<xNow, xSocket, xRevoked, xRun, xBooks>>

ActivatorDies ==
    /\ xActivator.pc # "idle" /\ Fault
    /\ xActivator' = [xActivator EXCEPT !.pc = "idle"]
    /\ UNCHANGED <<xNow, xHost, xRun, xBooks>>

\* expire: an open role is kept while its marker is valid.
KeepsRoleOpen == xMarker
KeepsRole == xMarker /\ xNow < XUntil

Failsafe ==
    /\ xRole = "LOGIN" /\ ~KeepsRole
    /\ xRole' = "NOLOGIN"
    /\ UNCHANGED <<xNow, xMarker, xSocket, xRevoked, xActivator, xRun, xBooks, xFaults>>

-----------------------------------------------------------------------------
(* The wrapper and the executor's own checks.                              *)

IsAt(w, pc) == xRun[w].pc = pc
Step(w, pc) == xRun' = [xRun EXCEPT ![w].pc = pc]
Outside == {"idle", "done", "cleanup", "unlinking", "begun"}
Executing(w) == xRun[w].pc \notin Outside
Rest == <<xNow, xHost, xActivator>>

\* The wrapper runs the fail-safe and wants an open role; its exit trap cleans
\* up whatever it finds.
StartWrapper(w) ==
    /\ IsAt(w, "idle")
    /\ xRole' = IF KeepsRole THEN xRole ELSE "NOLOGIN"
    /\ Step(w, IF xRole' = "LOGIN" THEN "begun" ELSE "cleanup")
    /\ UNCHANGED <<xNow, xMarker, xSocket, xRevoked, xActivator, xBooks, xFaults>>

\* The kill switch is disengaged, the qualification revoked or the catalog
\* replaced: what the executor looks at before it starts and, for the last time,
\* just before the call.
Committed == xEvidence.intent \/ \E w \in Wrappers : xRun[w].pc = "ready"
Revoke ==
    /\ xRevoked = "no"
    /\ xRevoked' = IF Committed THEN "late" ELSE "early"
    /\ UNCHANGED <<xNow, xRole, xMarker, xSocket, xActivator, xRun, xBooks, xFaults>>

Qualified == xRevoked = "no"
ActivationBinds == InWindow

Blocked(w) ==
    xReceipt' = [xReceipt EXCEPT ![w] = [calls |-> {0}, reads |-> xRun[w].reads, consumed |-> {0}]]

\* execute, under the lock of the host.
EnterPlane(w) ==
    /\ IsAt(w, "begun")
    /\ Qualified /\ ActivationBinds /\ \A v \in Wrappers : ~Executing(v)
    /\ Step(w, "entered")
    /\ UNCHANGED <<Rest, xBooks, xFaults>>

\* The check-only validation wants the operation's folder and row to be new.
Folder == xEvidence.armed \/ xEvidence.terminal # "none"
FreshOperation == xLedger.status = "none"

CheckOnly(w) ==
    /\ IsAt(w, "entered")
    /\ xNow < XUntil /\ ~Folder /\ FreshOperation
    /\ Step(w, "preflight")
    /\ UNCHANGED <<Rest, xBooks, xFaults>>

\* Any of these checks may refuse.
RefuseExecution(w) ==
    /\ xRun[w].pc \in {"begun", "entered"}
    /\ Step(w, "cleanup") /\ Blocked(w)
    /\ UNCHANGED <<Rest, xLedger, xSpent, xEvidence, xSent, xHandoffs, xFaults>>

-----------------------------------------------------------------------------
(* The end of an executor.                                                 *)

\* Interrupted once the secret was available, the receipt claims nothing.
InterruptedAsBlocked(w) == {0}
Interrupted(w) == IF xRun[w].secret THEN NoClaim ELSE {0}

\* The fallback of run_single_dispatch seals what the intent file allows.
Sealed(terminal) ==
    IF xEvidence.terminal = "none" THEN [xEvidence EXCEPT !.terminal = terminal] ELSE xEvidence
Ambiguous == IF xEvidence.intent THEN "UNKNOWN" ELSE "NOT_SENT"

\* An exception leaves the runner.
Escape(w) ==
    /\ xEvidence' = Sealed(Ambiguous)
    /\ xReceipt' = [xReceipt EXCEPT ![w] = [calls |-> Interrupted(w), reads |-> xRun[w].reads,
                                            consumed |-> Interrupted(w)]]
    /\ Step(w, "cleanup")

\* The runner returns; sealing its evidence may fail.
Return(w, terminal, calls) ==
    /\ xEvidence' \in {Sealed(terminal), xEvidence}
    /\ xReceipt' = [xReceipt EXCEPT ![w] = [calls |-> calls, reads |-> xRun[w].reads,
                                            consumed |-> calls]]
    /\ Step(w, "cleanup")

\* A transaction of the runtime role: refused when the role is closed, it may
\* also fail, committed or not.
Up == xRole = "LOGIN"
Down ==
    \/ ~Up /\ UNCHANGED xFaults
    \/ Fault

\* Something fails before the reservation, or a check there refuses.
FailsEarly(w) ==
    /\ xRun[w].pc \in {"preflight", "bound", "armed", "asked", "resolved"}
    /\ Escape(w)
    /\ UNCHANGED <<Rest, xLedger, xSpent, xSent, xHandoffs, xFaults>>

\* The executor dies, or its wrapper is killed with it: no receipt, and in the
\* second case no clean-up.
ExecutorDies(w) ==
    /\ Executing(w) /\ Fault
    /\ \E pc \in {"cleanup", "done"} : Step(w, pc)
    /\ UNCHANGED <<Rest, xBooks>>

-----------------------------------------------------------------------------
(* The secret.                                                             *)

\* The runner checks the bindings and the window, then the ledger and the role
\* it will use there; only then the evidence is armed.
BindingPreflight(w) ==
    /\ IsAt(w, "preflight") /\ InWindow
    /\ Step(w, "bound")
    /\ UNCHANGED <<Rest, xBooks, xFaults>>

Arm(w) ==
    /\ IsAt(w, "bound") /\ Up /\ FreshOperation /\ ~xEvidence.armed
    /\ xEvidence' = [xEvidence EXCEPT !.armed = TRUE]
    /\ Step(w, "armed")
    /\ UNCHANGED <<Rest, xLedger, xSpent, xReceipt, xSent, xHandoffs, xFaults>>

\* The client has sent its request: until it is answered nobody knows whether
\* the credential was read.
AskResolver(w) ==
    /\ IsAt(w, "armed") /\ xSocket
    /\ xRun' = [xRun EXCEPT ![w].pc = "asked", ![w].reads = NoClaim]
    /\ UNCHANGED <<Rest, xBooks, xFaults>>

\* The service spends the marker, loads the credential and answers; the answer
\* may be lost.
Unspent == ~xSpent

Resolve(w) ==
    /\ IsAt(w, "asked") /\ xRun[w].reads = NoClaim /\ InWindow /\ Unspent /\ xHandoffs[w] = 0
    /\ xSpent' = TRUE
    /\ \/ /\ xHandoffs' = [xHandoffs EXCEPT ![w] = @ + 1]
          /\ xRun' = [xRun EXCEPT ![w].pc = "resolved", ![w].reads = {1}, ![w].secret = TRUE]
          /\ UNCHANGED xFaults
       \/ /\ Fault
          /\ \E n \in {0, 1} : xHandoffs' = [xHandoffs EXCEPT ![w] = @ + n]
          /\ UNCHANGED xRun
    /\ UNCHANGED <<Rest, xLedger, xEvidence, xReceipt, xSent>>

-----------------------------------------------------------------------------
(* The dispatch.                                                           *)

ReserveOperation(w) ==
    /\ IsAt(w, "resolved")
    /\ \/ /\ Up /\ InWindow /\ xLedger.status = "none"
          /\ xLedger' = [xLedger EXCEPT !.status = "reserved"]
          /\ Step(w, "reserved") /\ UNCHANGED xFaults
       \/ /\ Down                     \* its answer is lost, committed or not
          /\ xLedger' \in {xLedger} \cup
                (IF Up /\ xLedger.status = "none" THEN {[xLedger EXCEPT !.status = "reserved"]} ELSE {})
          /\ Step(w, "reconcile")
    /\ UNCHANGED <<Rest, xSpent, xEvidence, xReceipt, xSent, xHandoffs>>

\* One look at the ledger and one release settle a reservation that raised.
Reconcile(w) ==
    /\ IsAt(w, "reconcile")
    /\ \/ /\ Up /\ xLedger.status \in {"none", "reserved"} /\ ~xLedger.started
          /\ xLedger' = IF xLedger.status = "none" THEN xLedger
                        ELSE [xLedger EXCEPT !.status = "released"]
          /\ Return(w, "NOT_SENT", {0}) /\ UNCHANGED xFaults
       \/ Down /\ Return(w, "NOT_SENT", NoClaim) /\ UNCHANGED xLedger
    /\ UNCHANGED <<Rest, xSpent, xSent, xHandoffs>>

\* The last look at the host; then, in the window still, the intent is written,
\* and only then the marker of the ledger, without which nothing is sent.
ActivationStillBinds(w) ==             \* only the activation is looked at again
    /\ IsAt(w, "reserved") /\ ActivationBinds
    /\ Step(w, "ready")
    /\ UNCHANGED <<Rest, xBooks, xFaults>>

FinalPreflight(w) ==
    /\ IsAt(w, "reserved") /\ Qualified /\ ActivationBinds
    /\ Step(w, "ready")
    /\ UNCHANGED <<Rest, xBooks, xFaults>>

WriteIntent(w) ==
    /\ IsAt(w, "ready") /\ InWindow
    /\ xEvidence' = [xEvidence EXCEPT !.intent = TRUE]
    /\ Step(w, "intended")
    /\ UNCHANGED <<Rest, xLedger, xSpent, xReceipt, xSent, xHandoffs, xFaults>>

MarkStartedOrNot(w) ==                \* an exception of the marker is swallowed
    /\ IsAt(w, "intended")
    /\ Step(w, "marked")
    /\ \/ Up /\ xLedger' = [xLedger EXCEPT !.started = TRUE] /\ UNCHANGED xFaults
       \/ Down /\ UNCHANGED xLedger
    /\ UNCHANGED <<Rest, xSpent, xEvidence, xReceipt, xSent, xHandoffs>>

MarkStarted(w) ==
    /\ IsAt(w, "intended")
    /\ \/ Up /\ Step(w, "marked") /\ xLedger' = [xLedger EXCEPT !.started = TRUE] /\ UNCHANGED xFaults
       \/ /\ Down /\ Step(w, "inspect")
          /\ xLedger' \in {xLedger} \cup (IF Up THEN {[xLedger EXCEPT !.started = TRUE]} ELSE {})
    /\ UNCHANGED <<Rest, xSpent, xEvidence, xReceipt, xSent, xHandoffs>>

\* A check or the adapter stops the call before it is sent.
StopCall(w) ==
    /\ xRun[w].pc \in {"reserved", "ready", "marked"}
    /\ Step(w, "inspect")
    /\ UNCHANGED <<Rest, xBooks, xFaults>>

\* The adapter sends; it answers, fails or is cancelled.
SendRequest(w) ==
    /\ IsAt(w, "marked")
    /\ xSent' = [xSent EXCEPT ![w] = @ + 1]
    /\ Step(w, "inspect")
    /\ UNCHANGED <<Rest, xLedger, xSpent, xEvidence, xReceipt, xHandoffs, xFaults>>

\* The ledger's marker, not what the adapter said, decides what was consumed.
Settled == [xLedger EXCEPT !.status = IF xLedger.started THEN "finished" ELSE "released"]

Inspect(w) ==
    /\ IsAt(w, "inspect")
    /\ \/ /\ Up /\ ~xLedger.started
          /\ xLedger' = Settled
          /\ Return(w, "NOT_SENT", {0}) /\ UNCHANGED xFaults
       \/ /\ Up /\ xLedger.started
          /\ xLedger' \in {Settled, xLedger}
          /\ Return(w, "POSSIBLY_SENT", {1}) /\ UNCHANGED xFaults
       \/ /\ Down /\ Escape(w)
          /\ xLedger' \in {xLedger} \cup (IF Up THEN {Settled} ELSE {})
    /\ UNCHANGED <<Rest, xSpent, xSent, xHandoffs>>

-----------------------------------------------------------------------------
(* deactivate: the socket is stopped, the role closed, the marker removed. *)

CleanUp(w) ==
    /\ \/ /\ IsAt(w, "cleanup")
          /\ xSocket' = FALSE /\ xRole' = "NOLOGIN"
          /\ Step(w, "unlinking")
          /\ UNCHANGED <<xMarker, xFaults>>
       \/ /\ IsAt(w, "unlinking")
          /\ xMarker' = FALSE
          /\ Step(w, "done")
          /\ UNCHANGED <<xSocket, xRole, xFaults>>
       \/ /\ IsAt(w, "cleanup") /\ Fault      \* the command fails
          /\ xSocket' \in {xSocket, FALSE} /\ xRole' \in {xRole, "NOLOGIN"}
          /\ Step(w, "done")
          /\ UNCHANGED xMarker
    /\ UNCHANGED <<xNow, xRevoked, xActivator, xBooks>>

XNext ==
    \/ XTick
    \/ BeginActivation \/ OpenRole \/ PersistActive \/ StartSocket \/ UndoActivation
    \/ ActivatorDies \/ Failsafe \/ Revoke
    \/ \E w \in Wrappers :
         \/ StartWrapper(w) \/ EnterPlane(w) \/ CheckOnly(w) \/ RefuseExecution(w)
         \/ FailsEarly(w) \/ ExecutorDies(w) \/ BindingPreflight(w)
         \/ Arm(w) \/ AskResolver(w) \/ Resolve(w)
         \/ ReserveOperation(w) \/ Reconcile(w) \/ FinalPreflight(w) \/ WriteIntent(w) \/ MarkStarted(w)
         \/ StopCall(w) \/ SendRequest(w) \/ Inspect(w) \/ CleanUp(w)

\* The clock goes on, systemd runs the timer, an activation runs to its end.
XHostStep == XTick \/ Failsafe \/ OpenRole \/ PersistActive \/ StartSocket \/ UndoActivation
XFairness == WF_xVars(XHostStep)

XSpec == XInit /\ [][XNext]_xVars

-----------------------------------------------------------------------------
(* Properties.                                                             *)

\* What was counted for the wrappers: nothing in all, or one.
Never(f) == \A w \in Wrappers : f[w] = 0
Once(f) == \E w \in Wrappers : f[w] = 1 /\ \A v \in Wrappers \ {w} : f[v] = 0

\* A receipt that claims no call, no consumption or no credential read, and
\* evidence that says NOT_SENT, are true, whatever failed, died or was closed
\* in between.
ClaimsAreTrue ==
    /\ \A w \in Wrappers :
         /\ xReceipt[w].calls = {0} => xSent[w] = 0
         /\ xReceipt[w].reads = {0} => xHandoffs[w] = 0
         /\ xReceipt[w].reads = {1} => xHandoffs[w] = 1
    /\ xEvidence.terminal = "NOT_SENT" => Never(xSent)

\* However often the operation is activated and run, its credential is handed
\* over once and its request sent once, after the ledger and the evidence say
\* so, by an executor that had the credential.
OneSecretOneRequest ==
    /\ Never(xHandoffs) \/ Once(xHandoffs)
    /\ \/ Never(xSent)
       \/ Once(xSent) /\ Once(xHandoffs) /\ xLedger.started /\ xEvidence.intent
    /\ xLedger.status = "released" => Never(xSent)

\* Consent withdrawn before an executor took its last look keeps the request
\* from being sent.
RevocationHolds == xRevoked = "early" => Never(xSent)

\* Once its window is over the role is closed and stays closed, whatever died
\* between opening it and cleaning up.
RoleCloses == (xNow >= XUntil) ~> [](xRole = "NOLOGIN")
=============================================================================
