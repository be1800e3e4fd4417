---------------------------- MODULE ProviderWire ----------------------------
(***************************************************************************)
(* The in-memory provider controller (provider_safety.py) around the       *)
(* adapters that speak HTTP (openai_transcription_provider.py,             *)
(* openai_vision_provider.py): admission, attempts under a deadline, what  *)
(* the trace says of a request when the deadline cancels it, retries,      *)
(* charges, circuit and budget alerts; and the job adapter of              *)
(* assemblyai_transcription_provider.py, which uploads, creates one job    *)
(* and observes it.                                                        *)
(*                                                                         *)
(* Sections under the controller's lock never wait in it, so each is part  *)
(* of the step around it.  The deadline and the transport's own timeouts   *)
(* may end any wait; the clock counts what the code compares.  A provider  *)
(* reports no more than its estimate.                                      *)
(***************************************************************************)
EXTENDS Integers, FiniteSets

CONSTANTS
    WCalls,         \* execute() calls
    WKind,          \* [WCalls -> {"asr", "vision"}], its adapter
    WKey,           \* the operation key of each call
    WPolicies,      \* policies: [rights, attempts, gate], gate a set of at most one scope
                    \* [from, until, keys]
    WConcurrent,    \* max_concurrent_calls
    WDaily,         \* daily_limit_vnd, in estimates
    WThreshold,     \* failure_threshold of a circuit
    WCooldown,      \* cooldown_seconds
    WDay,           \* ticks of a day
    WHorizon,       \* bound on the clock
    WJobCalls       \* bound on the calls of the job adapter

\* An approved budget's limit and a policy's attempts are at least one.
ASSUME WireConstants ==
    /\ IsFiniteSet(WCalls)
    /\ \A p \in WPolicies : p.attempts \in Nat \ {0}
    /\ WDaily \in Nat \ {0} /\ WDay \in Nat \ {0} /\ WHorizon \in Nat /\ WJobCalls \in Nat

VARIABLES
    wPolicy,
    wNow,
    wCall,          \* [pc, attempt, day, phase, state, left, charged], by call
    wCircuit,       \* [state, failures, openedAt, busy] of the only circuit
    wReserved,      \* reserved and committed amounts, by day
    wCommitted,
    wAttempt,       \* the latest attempt record of any call
    wAlerts,        \* how often each threshold of a day was announced
    wJob            \* [pc, calls, uploads, jobs, id, result]

wVars == <<wPolicy, wNow, wCall, wCircuit, wReserved, wCommitted, wAttempt, wAlerts, wJob>>
wBooks == <<wCircuit, wReserved, wCommitted, wAttempt, wAlerts>>

WDays == 0 .. WHorizon \div WDay
DayOf(t) == t \div WDay
Alerting == {50, 80, 100}

NewTrace == [pc |-> "idle", attempt |-> 0, day |-> 0, phase |-> "service_dispatch",
          state |-> "not_started", left |-> FALSE, charged |-> 0]

\* ProviderExecutionGateScope: a window within one budget day, whose budget
\* covers the two operations it allows.
ValidGate(g) ==
    /\ g.from < g.until /\ DayOf(g.from) = DayOf(g.until)
    /\ Cardinality(g.keys) = 2
    /\ WDaily >= 2

WInit ==
    /\ wPolicy \in WPolicies
    /\ \A g \in wPolicy.gate : ValidGate(g)
    /\ wNow = 0
    /\ wCall = [c \in WCalls |-> NewTrace]
    /\ wCircuit = [state |-> "closed", failures |-> 0, openedAt |-> 0, busy |-> FALSE]
    /\ wReserved = [d \in WDays |-> 0]
    /\ wCommitted = [d \in WDays |-> 0]
    /\ wAttempt = {}
    /\ wAlerts = [d \in WDays |-> [t \in Alerting |-> 0]]
    /\ wJob = [pc |-> "idle", calls |-> 0, uploads |-> 0, jobs |-> 0, id |-> 0,
               result |-> 0]

-----------------------------------------------------------------------------
(* Admission.                                                              *)

Open(c) == wCall[c].pc \in {"attempting", "waiting"}
Begun(c) == wCall[c].pc \notin {"idle", "blocked"}
AttemptsAllowed == wPolicy.attempts

\* What one operation may reserve: an estimate for each attempt, or under a
\* gate exactly one, its per-operation limit.
PerOperation == IF wPolicy.gate = {} THEN AttemptsAllowed ELSE 1

\* _verified_scope_denial: the window and the operations of the gate.
InScope(c) == \A g \in wPolicy.gate : g.from <= wNow /\ wNow < g.until /\ WKey[c] \in g.keys

\* An open circuit lets one probe through after the cool-down.
Cooled == wCircuit.state = "open" /\ wNow >= wCircuit.openedAt + WCooldown
CircuitAdmits ==
    \/ wCircuit.state = "closed"
    \/ Cooled
    \/ wCircuit.state = "half_open" /\ ~wCircuit.busy

WithinBudget ==
    /\ AttemptsAllowed <= PerOperation
    /\ wCommitted[DayOf(wNow)] + wReserved[DayOf(wNow)] + AttemptsAllowed <= WDaily

FreshKey(c) == \A o \in WCalls : WKey[o] = WKey[c] => ~Begun(o)

Admitted(c) ==
    /\ InScope(c)
    /\ wPolicy.rights
    /\ FreshKey(c)
    /\ Cardinality({o \in WCalls : Open(o)}) < WConcurrent
    /\ CircuitAdmits
    /\ WithinBudget

\* preflight of an admitted call, and its first attempt.
Reserve(c) ==
    /\ wCall[c].pc = "idle"
    /\ Admitted(c)
    /\ wReserved' = [wReserved EXCEPT ![DayOf(wNow)] = @ + AttemptsAllowed]
    /\ wCircuit' = IF wCircuit.state = "closed" THEN wCircuit
                   ELSE [wCircuit EXCEPT !.state = "half_open", !.busy = TRUE]
    /\ wCall' = [wCall EXCEPT ![c] = [NewTrace EXCEPT !.pc = "attempting", !.attempt = 1,
                                                   !.day = DayOf(wNow)]]
    /\ UNCHANGED <<wPolicy, wNow, wCommitted, wAttempt, wAlerts, wJob>>

\* A denied call ends; a cooled circuit is half open from then on when only the
\* budget stood in its way.
Deny(c) ==
    /\ wCall[c].pc = "idle"
    /\ ~Admitted(c)
    /\ wCall' = [wCall EXCEPT ![c].pc = "blocked"]
    /\ wCircuit' = IF /\ InScope(c) /\ wPolicy.rights /\ FreshKey(c)
                      /\ Cardinality({o \in WCalls : Open(o)}) < WConcurrent /\ Cooled
                   THEN [wCircuit EXCEPT !.state = "half_open", !.busy = FALSE]
                   ELSE wCircuit
    /\ UNCHANGED <<wPolicy, wNow, wReserved, wCommitted, wAttempt, wAlerts, wJob>>

-----------------------------------------------------------------------------
(* The end of an attempt and of a call.                                    *)

Reached(d, committed) == {t \in Alerting : 100 * committed[d] >= t * WDaily}
NewAlerts(d, committed) == {t \in Reached(d, committed) : wAlerts[d][t] = 0}

BookedDayNow(c) == DayOf(wNow)
BookedDay(c) == wCall[c].day

\* _finish: the reservation is given back, the charges committed on its day.
Finish(c, charged, succeeded) ==
    LET d == BookedDay(c)
        committed == [wCommitted EXCEPT ![d] = @ + charged]
    IN  /\ wReserved' = [wReserved EXCEPT ![d] = IF @ > AttemptsAllowed THEN @ - AttemptsAllowed ELSE 0]
        /\ wCommitted' = committed
        /\ wAlerts' = [wAlerts EXCEPT ![d] = [t \in Alerting |->
                          @[t] + (IF t \in NewAlerts(d, committed) THEN 1 ELSE 0)]]
        /\ wCircuit' =
              IF succeeded
              THEN [state |-> "closed", failures |-> 0, openedAt |-> 0, busy |-> FALSE]
              ELSE LET failures == wCircuit.failures + 1
                       opens == wCircuit.state = "half_open" \/ failures >= WThreshold
                   IN  [wCircuit EXCEPT !.failures = failures, !.busy = FALSE,
                                        !.state = IF opens THEN "open" ELSE @,
                                        !.openedAt = IF opens THEN wNow ELSE @]
        /\ wCall' = [wCall EXCEPT ![c] = [NewTrace EXCEPT !.pc = "done", !.attempt = wCall[c].attempt,
                                                       !.day = d, !.charged = charged]]

\* The record of the attempt that ends: what its evidence says was sent, and
\* whether a request had left.
Attempt(c, retryable, state) ==
    {[call |-> c, attempt |-> wCall[c].attempt, retryable |-> retryable, state |-> state,
      left |-> wCall[c].left]}

\* inTime: the elapsed time and the delay stay within max_elapsed_seconds.
RetryAuthorized(c, inTime) == wCall[c].attempt < AttemptsAllowed /\ inTime

EvidenceRetryable(c, inTime) == RetryAuthorized(c, inTime)

\* A transient failure or timeout: charged, and tried again when it may be.
AttemptRetries(c, state) ==
    \E inTime \in BOOLEAN :
        /\ wAttempt' = Attempt(c, EvidenceRetryable(c, inTime), state)
        /\ IF RetryAuthorized(c, inTime)
           THEN /\ wCall' = [wCall EXCEPT ![c] = [NewTrace EXCEPT !.pc = "waiting", !.day = wCall[c].day,
                                !.attempt = wCall[c].attempt, !.charged = wCall[c].charged + 1]]
                /\ UNCHANGED <<wCircuit, wReserved, wCommitted, wAlerts>>
           ELSE Finish(c, wCall[c].charged + 1, FALSE)

\* Any other exception ends the call.
AttemptFails(c, state) ==
    /\ wAttempt' = Attempt(c, FALSE, state)
    /\ Finish(c, wCall[c].charged + 1, FALSE)

AttemptSucceeds(c, charge) ==
    /\ wAttempt' = Attempt(c, FALSE, wCall[c].state)
    /\ Finish(c, wCall[c].charged + charge, TRUE)

-----------------------------------------------------------------------------
(* One attempt.                                                            *)

In(c, phase) == wCall[c].pc = "attempting" /\ wCall[c].phase = phase
AtHome(c) == In(c, "service_dispatch")

\* trace.mark of the phase that hands the request to the transport says that it
\* may have been sent; the phases before it leave the state alone.
DispatchMarkedLate == "not_started"
DispatchMarked == "possibly_sent"

Prepare(c) ==
    /\ AtHome(c)
    /\ wCall' = [wCall EXCEPT ![c].phase = "http_request_dispatch", ![c].state = DispatchMarked]
    /\ UNCHANGED <<wPolicy, wNow, wBooks, wJob>>

\* A binding, a bound, a credential, a frame or a cost envelope is refused.
RefuseInput(c) ==
    /\ AtHome(c)
    /\ AttemptFails(c, "none")
    /\ UNCHANGED <<wPolicy, wNow, wJob>>

\* The pool or the connection times out: the request was not sent.
NotConnected(c) ==
    /\ In(c, "http_request_dispatch") /\ ~wCall[c].left
    /\ AttemptRetries(c, "not_sent")
    /\ UNCHANGED <<wPolicy, wNow, wJob>>

\* The connection carries bytes of the request.
RequestLeaves(c) ==
    /\ In(c, "http_request_dispatch") /\ ~wCall[c].left
    /\ wCall' = [wCall EXCEPT ![c].left = TRUE]
    /\ UNCHANGED <<wPolicy, wNow, wBooks, wJob>>

\* A write or read timeout, before the headers or after them.
TransportTimeout(c) ==
    /\ wCall[c].pc = "attempting" /\ wCall[c].left
    /\ AttemptRetries(c, wCall[c].state)
    /\ UNCHANGED <<wPolicy, wNow, wJob>>

\* The connection breaks; the vision adapter's evidence leaves out the state.
NetworkError(c) ==
    /\ wCall[c].pc = "attempting"
    /\ wCall[c].phase \in {"http_request_dispatch", "http_response_read"}
    /\ AttemptRetries(c, IF WKind[c] = "asr" THEN wCall[c].state ELSE "none")
    /\ UNCHANGED <<wPolicy, wNow, wJob>>

HeadersArrive(c) ==
    /\ In(c, "http_request_dispatch") /\ wCall[c].left
    /\ wCall' = [wCall EXCEPT ![c].phase = "http_response_read",
                              ![c].state = "response_headers_received"]
    /\ UNCHANGED <<wPolicy, wNow, wBooks, wJob>>

\* What an accepted answer may be charged: the vision adapter's receipt refuses
\* usage that is missing, malformed or over a ceiling, and the ceilings are
\* within the estimate.
Charges(kind, usage) == IF kind = "vision" /\ usage # "within" THEN {} ELSE {0, 1}

\* The body was read: the answer is accepted, refused for its content or its
\* usage, or asks for another attempt.
Answer(c) ==
    /\ In(c, "http_response_read")
    /\ \/ \E usage \in {"missing", "malformed", "over", "within"} :
             \E charge \in Charges(WKind[c], usage) : AttemptSucceeds(c, charge)
       \/ AttemptFails(c, IF WKind[c] = "asr" THEN wCall[c].state ELSE "none")
       \/ AttemptRetries(c, IF WKind[c] = "asr" THEN wCall[c].state ELSE "none")
    /\ UNCHANGED <<wPolicy, wNow, wJob>>

\* wait_for cancels the adapter: the evidence is the trace's.
ControllerDeadline(c) ==
    /\ wCall[c].pc = "attempting"
    /\ AttemptRetries(c, wCall[c].state)
    /\ UNCHANGED <<wPolicy, wNow, wJob>>

\* The next attempt begins its trace anew.
NextAttempt(c) ==
    /\ wCall[c].pc = "waiting"
    /\ wCall' = [wCall EXCEPT ![c].pc = "attempting", ![c].attempt = @ + 1]
    /\ UNCHANGED <<wPolicy, wNow, wBooks, wJob>>

WTick ==
    /\ wNow < WHorizon
    /\ wNow' = wNow + 1
    /\ UNCHANGED <<wPolicy, wCall, wBooks, wJob>>

-----------------------------------------------------------------------------
(* The job adapter: one object, called by the runner.                      *)

JobUntouched == wJob.uploads = 0 /\ wJob.jobs = 0

\* transcribe: refused once anything was dispatched; the callback that marks
\* the dispatch may raise, and then nothing is.
CallJob ==
    /\ wJob.pc = "idle" /\ wJob.calls < WJobCalls
    /\ \/ wJob' = [wJob EXCEPT !.calls = @ + 1]
       \/ JobUntouched /\ wJob' = [wJob EXCEPT !.calls = @ + 1, !.pc = "uploading",
                                               !.uploads = @ + 1]
    /\ UNCHANGED <<wPolicy, wNow, wCall, wBooks>>

\* The upload answers, or its state is uncertain.
UploadEnds ==
    /\ wJob.pc = "uploading"
    /\ \/ wJob' = [wJob EXCEPT !.pc = "creating", !.jobs = @ + 1]
       \/ wJob' = [wJob EXCEPT !.pc = "idle"]
    /\ UNCHANGED <<wPolicy, wNow, wCall, wBooks>>

\* The job's id is acknowledged, or uncertain.
CreationEnds ==
    /\ wJob.pc = "creating"
    /\ \/ wJob' = [wJob EXCEPT !.pc = "observing", !.id = wJob.jobs]
       \/ wJob' = [wJob EXCEPT !.pc = "idle"]
    /\ UNCHANGED <<wPolicy, wNow, wCall, wBooks>>

\* A poll: the job goes on, is complete, or its observation is uncertain; an
\* answer about another job is refused.
OwnId(id) == id = wJob.id

Observe ==
    /\ wJob.pc = "observing"
    /\ \E id \in 1 .. WJobCalls + 1 :
         wJob' = IF OwnId(id) THEN [wJob EXCEPT !.pc = "idle", !.result = id]
                              ELSE [wJob EXCEPT !.pc = "idle"]
    /\ UNCHANGED <<wPolicy, wNow, wCall, wBooks>>

WCallNext ==
    \/ \E c \in WCalls :
         \/ Reserve(c) \/ Deny(c)
         \/ Prepare(c) \/ RefuseInput(c) \/ NotConnected(c) \/ RequestLeaves(c)
         \/ TransportTimeout(c) \/ NetworkError(c) \/ HeadersArrive(c) \/ Answer(c)
         \/ ControllerDeadline(c) \/ NextAttempt(c)
    \/ WTick

WJobNext == CallJob \/ UploadEnds \/ CreationEnds \/ Observe

WNext == WCallNext \/ WJobNext

WSpec == WInit /\ [][WNext]_wVars

-----------------------------------------------------------------------------
(* Properties.                                                             *)

\* Evidence that says a request was not started or not sent is only of an
\* attempt whose request did not leave, whatever cut the attempt short; and
\* headers were only seen of a request that left.
EvidenceOfSendingIsTrue ==
    \A a \in wAttempt :
        /\ a.state \in {"not_started", "not_sent"} => ~a.left
        /\ a.state = "response_headers_received" => a.left

\* An attempt's record says that another attempt follows exactly when one does.
RetriesAreAnnounced ==
    \A a \in wAttempt :
        a.retryable <=> Open(a.call) \/ a.attempt < wCall[a.call].attempt

\* The day's books are the sums of its calls and stay within its limit, a call
\* is charged once an attempt at most, and one key is one call.
OpenOn(d) == {c \in WCalls : Open(c) /\ wCall[c].day = d}
ChargesOn(d) ==
    {u \in WCalls \X (1 .. AttemptsAllowed) :
        /\ Begun(u[1]) /\ ~Open(u[1]) /\ wCall[u[1]].day = d
        /\ u[2] <= wCall[u[1]].charged}

ControllerBooksAddUp ==
    /\ \A d \in WDays :
         /\ wReserved[d] = AttemptsAllowed * Cardinality(OpenOn(d))
         /\ wCommitted[d] = Cardinality(ChargesOn(d))
         /\ wReserved[d] + wCommitted[d] <= WDaily
    /\ \A c \in WCalls : wCall[c].charged \in 0 .. AttemptsAllowed
    /\ \A c, o \in WCalls : c # o /\ WKey[c] = WKey[o] => ~(Begun(c) /\ Begun(o))

\* Each threshold of a day's budget is announced once it is reached, and once.
AlertsAreGivenOnce ==
    \A d \in WDays, t \in Alerting :
        wAlerts[d][t] = IF t \in Reached(d, wCommitted) THEN 1 ELSE 0

\* One adapter object uploads once and creates one job at most, however often
\* it is called, and a result is of the job it created.
OneJobPerAdapter ==
    /\ wJob.uploads <= 1 /\ wJob.jobs <= wJob.uploads
    /\ wJob.result # 0 => wJob.result = wJob.id

\* What the controller and its adapters say of a call is what happened.
CallsAreToldTruly ==
    /\ EvidenceOfSendingIsTrue
    /\ RetriesAreAnnounced
    /\ ControllerBooksAddUp
    /\ AlertsAreGivenOnce
    /\ OneJobPerAdapter
=============================================================================
