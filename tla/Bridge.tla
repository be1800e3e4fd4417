------------------------------- MODULE Bridge -------------------------------
(***************************************************************************)
(* Draft projects requested by the Agent Hub (create_draft_project in      *)
(* bridge_service.py over bridge_repository.py and repositories.py).  A    *)
(* request is named by its Idempotency-Key; several handlers of the API    *)
(* may serve the same key at once, and each of their steps is a            *)
(* transaction of its own.  All requests ask for the same project slug,    *)
(* the case in which they can meet.                                        *)
(***************************************************************************)
EXTENDS Naturals, Sequences, FiniteSets

CONSTANTS
    Handlers,           \* concurrent requests of the API
    BKeys,              \* idempotency keys, positive numbers
    Payloads,           \* request bodies, positive numbers
    BMaxCalls,          \* bound on requests
    BMaxFaults          \* bound on crashes and raised errors

ASSUME BridgeConstants ==
    /\ BKeys \subseteq Nat \ {0} /\ Payloads \subseteq Nat \ {0}
    /\ BMaxCalls \in Nat /\ BMaxFaults \in Nat

VARIABLES
    bRequest,           \* rows by key: [status, print, version]
    bOwner,             \* request that created the project, 0 if none has
    bVersions,          \* the project's versions in order, by owning request
    bEvents,            \* events with their deliveries: [key, version]
    bHandler,           \* handlers: [pc, key, print, version]
    bAnswers,           \* history: [key, shown] of each success
    bHistory            \* history: [calls, faults, failed, overlap]

bVars == <<bRequest, bOwner, bVersions, bEvents, bHandler, bAnswers, bHistory>>
bTables == <<bRequest, bOwner, bVersions, bEvents>>

BIdle == [pc |-> "idle", key |-> 0, print |-> 0, version |-> 0]

BInit ==
    /\ bRequest = [k \in BKeys |-> [status |-> "none", print |-> 0, version |-> 0]]
    /\ bOwner = 0
    /\ bVersions = <<>>
    /\ bEvents = <<>>
    /\ bHandler = [h \in Handlers |-> BIdle]
    /\ bAnswers = {}
    /\ bHistory = [calls |-> 0, faults |-> 0, failed |-> 0, overlap |-> FALSE]

Working(k) == {h \in Handlers : bHandler[h].key = k}

Goto(h, pc) == bHandler' = [bHandler EXCEPT ![h].pc = pc]

-----------------------------------------------------------------------------
\* A signed request arrives.
CallBridge(h, k, p) ==
    /\ bHandler[h].pc = "idle"
    /\ bHistory.calls < BMaxCalls
    /\ bHandler' = [bHandler EXCEPT ![h] = [pc |-> "reserve", key |-> k, print |-> p, version |-> 0]]
    /\ bHistory' = [bHistory EXCEPT !.calls = @ + 1, !.overlap = @ \/ Working(k) # {}]
    /\ UNCHANGED <<bTables, bAnswers>>

\* reserve_request: the unique key makes the row, or the row there is read.
\* Another body is a conflict, a finished request is answered from its row, any
\* other one is executed again.
ReserveRequest(h) ==
    LET k == bHandler[h].key
        row == bRequest[k]
    IN  /\ bHandler[h].pc = "reserve"
        /\ \/ /\ row.status = "none"
              /\ bRequest' = [bRequest EXCEPT ![k] = [@ EXCEPT !.status = "reserved",
                                                              !.print = bHandler[h].print]]
              /\ Goto(h, "project")
              /\ UNCHANGED bAnswers
           \/ /\ row.status # "none" /\ row.print # bHandler[h].print
              /\ bHandler' = [bHandler EXCEPT ![h] = BIdle]
              /\ UNCHANGED <<bRequest, bAnswers>>
           \/ /\ row.status = "succeeded" /\ row.print = bHandler[h].print
              /\ bAnswers' = bAnswers \cup {[key |-> k, shown |-> row.version]}
              /\ bHandler' = [bHandler EXCEPT ![h] = BIdle]
              /\ UNCHANGED bRequest
           \/ /\ row.status \in {"reserved", "failed"} /\ row.print = bHandler[h].print
              /\ Goto(h, "project")
              /\ UNCHANGED <<bRequest, bAnswers>>
    /\ UNCHANGED <<bOwner, bVersions, bEvents, bHistory>>

\* create_project, or ensure_project when the slug is taken: the project must
\* have been made for this request.  (Mutant: any project of the slug will do.)
AnyProject(k) == TRUE
OwnProject(k) == bOwner \in {0, k}

EnsureProject(h) ==
    /\ bHandler[h].pc = "project"
    /\ IF OwnProject(bHandler[h].key)
       THEN bOwner' = (IF bOwner = 0 THEN bHandler[h].key ELSE bOwner) /\ Goto(h, "versions")
       ELSE UNCHANGED bOwner /\ Goto(h, "failing")
    /\ UNCHANGED <<bRequest, bVersions, bEvents, bAnswers, bHistory>>

\* list_versions: the first version made for this request, if there is one.
\* (Mutant: nothing is looked up.)
NoVersionYet(k) == 0
VersionOf(k) ==
    IF \E i \in DOMAIN bVersions : bVersions[i] = k
    THEN CHOOSE i \in DOMAIN bVersions :
            bVersions[i] = k /\ \A j \in 1 .. i - 1 : bVersions[j] # k
    ELSE 0

ListVersions(h) ==
    /\ bHandler[h].pc = "versions"
    /\ bHandler' = [bHandler EXCEPT ![h].version = VersionOf(bHandler[h].key),
                                    ![h].pc = IF VersionOf(bHandler[h].key) = 0 THEN "creating"
                                              ELSE "completing"]
    /\ UNCHANGED <<bTables, bAnswers, bHistory>>

CreateVersion(h) ==
    /\ bHandler[h].pc = "creating"
    /\ bVersions' = Append(bVersions, bHandler[h].key)
    /\ bHandler' = [bHandler EXCEPT ![h].version = Len(bVersions) + 1, ![h].pc = "completing"]
    /\ UNCHANGED <<bRequest, bOwner, bEvents, bAnswers, bHistory>>

\* complete_request: an event and its delivery, unless the row has succeeded.
\* (Mutant: without that look.)
CompletesAgain(k) == FALSE
AlreadyCompleted(k) == bRequest[k].status = "succeeded"

CompleteRequest(h) ==
    LET k == bHandler[h].key
    IN  /\ bHandler[h].pc = "completing"
        /\ IF AlreadyCompleted(k) THEN UNCHANGED <<bRequest, bEvents>>
           ELSE /\ bRequest' = [bRequest EXCEPT ![k].status = "succeeded",
                                                ![k].version = bHandler[h].version]
                /\ bEvents' = Append(bEvents, [key |-> k, version |-> bHandler[h].version])
        /\ Goto(h, "pushing")
        /\ UNCHANGED <<bOwner, bVersions, bAnswers, bHistory>>

\* The push of the delivery, then the answer with the version this handler
\* worked with, which may not be the one the row records.
AnswerRequest(h) ==
    LET k == bHandler[h].key
    IN  /\ bHandler[h].pc = "pushing"
        /\ bAnswers' = bAnswers \cup {[key |-> k, shown |-> bHandler[h].version]}
        /\ bHandler' = [bHandler EXCEPT ![h] = BIdle]
        /\ UNCHANGED <<bTables, bHistory>>

\* The platform, the database or Redis raises ...
BridgeStepRaises(h) ==
    /\ bHandler[h].pc \in {"project", "versions", "creating", "completing", "pushing"}
    /\ bHistory.faults < BMaxFaults
    /\ bHistory' = [bHistory EXCEPT !.faults = @ + 1]
    /\ Goto(h, "failing")
    /\ UNCHANGED <<bTables, bAnswers>>

\* ... and fail_request overwrites whatever the row says.
\* (Mutant: with a status reserve_request does not know.)
Failed(row) == [row EXCEPT !.status = "failed"]

FailRequest(h) ==
    /\ bHandler[h].pc = "failing"
    /\ bRequest' = [bRequest EXCEPT ![bHandler[h].key] = Failed(@)]
    /\ bHandler' = [bHandler EXCEPT ![h] = BIdle]
    /\ bHistory' = [bHistory EXCEPT !.failed = @ + 1]
    /\ UNCHANGED <<bOwner, bVersions, bEvents, bAnswers>>

BridgeCrash ==
    /\ \E h \in Handlers : bHandler[h].pc # "idle"
    /\ bHistory.faults < BMaxFaults
    /\ bHistory' = [bHistory EXCEPT !.faults = @ + 1]
    /\ bHandler' = [h \in Handlers |-> BIdle]
    /\ UNCHANGED <<bTables, bAnswers>>

-----------------------------------------------------------------------------
BridgeStep(h) ==
    \/ ReserveRequest(h) \/ EnsureProject(h) \/ ListVersions(h) \/ CreateVersion(h)
    \/ CompleteRequest(h) \/ AnswerRequest(h) \/ FailRequest(h)

BNext ==
    \/ \E h \in Handlers : \/ \E k \in BKeys, p \in Payloads : CallBridge(h, k, p)
                           \/ BridgeStep(h)
                           \/ BridgeStepRaises(h)
    \/ BridgeCrash

BSpec == BInit /\ [][BNext]_bVars

-----------------------------------------------------------------------------
(* Properties.                                                             *)

\* Rows, events and handlers have their types.
BTypeOK ==
    /\ bRequest \in [BKeys -> [status : {"none", "reserved", "succeeded", "failed"},
                               print : Payloads \cup {0}, version : Nat]]
    /\ bOwner \in BKeys \cup {0}
    /\ bVersions \in Seq(BKeys)
    /\ bEvents \in Seq([key : BKeys, version : Nat])
    /\ bHandler \in [Handlers -> [pc : {"idle", "reserve", "project", "versions", "creating",
                                        "completing", "pushing", "failing"},
                                  key : BKeys \cup {0}, print : Payloads \cup {0}, version : Nat]]

\* Whatever requests meet on a slug, every version of the project, every event
\* and every answer is of the one request that made the project.
OneRequestOwnsTheProject ==
    /\ \A i \in DOMAIN bVersions : bVersions[i] = bOwner
    /\ \A i \in DOMAIN bEvents : bEvents[i].key = bOwner
    /\ \A a \in bAnswers : a.key = bOwner /\ a.shown \in DOMAIN bVersions

\* Requests repeated one after the other, after crashes and errors too, find
\* the draft of the first; a second draft takes two handlers at once.
OneDraftWithoutOverlap == ~bHistory.overlap => Len(bVersions) <= 1

EventsOf(k) == {i \in DOMAIN bEvents : bEvents[i].key = k}

\* A second event of a request takes a failure recorded over a success.
EventsAreReopened == \A k \in BKeys : Cardinality(EventsOf(k)) <= 1 + bHistory.failed
=============================================================================
