------------------------------- MODULE Worker -------------------------------
(***************************************************************************)
(* The one-thread executor that appraisal and reflection share             *)
(* (anansi/appraisal.py, anansi/reflection.py): callers on host threads    *)
(* pass the admission gate, submit, wait with a deadline and cancel; the   *)
(* executor thread pops items, re-checks the deadline and calls the        *)
(* provider, which may answer, fail, deny the configured model or never    *)
(* return.  A request is one call of run_appraisal or run_reflection.      *)
(***************************************************************************)
EXTENDS Naturals, Sequences

CONSTANTS Requests,    \* the calls made over a behaviour
          Appraisals,  \* those made by run_appraisal; the rest by run_reflection
          Overrides,   \* those whose configuration names a model
          NoRequest

ASSUME RequestsAssumption ==
    /\ NoRequest \notin Requests
    /\ Appraisals \subseteq Requests
    /\ Overrides \subseteq Requests

VARIABLES pc,       \* where each caller is
          outcome,  \* what its caller was told
          expired,  \* the monotonic clock has passed its expires_at
          future,   \* the state of its Future
          result,   \* what its Future holds once FINISHED
          calls,    \* provider calls started for it
          gate,     \* the holder of _submission_lock
          active,   \* the request whose future is _active_future
          queue,    \* the executor's work queue, cancelled items included
          item,     \* the item the executor thread runs
          phase,    \* where in that item the executor thread is
          stranded  \* history: items queued by a submit() that then raised

callerVars == <<pc, outcome, gate, active, stranded>>
threadVars == <<item, phase, calls>>
vars == <<pc, outcome, expired, future, result, calls, gate, active, queue, item, phase,
          stranded>>

Outcomes == {"none", "ok", "trust_fallback", "parse_fail", "llm_error",
             "timeout", "worker_busy"}
Results == {"none", "ok", "fallback_ok", "bad_shape", "timeout", "error"}

TypeOK ==
    /\ pc \in [Requests -> {"idle", "gate", "check", "submit", "wait", "cancel", "returned"}]
    /\ outcome \in [Requests -> Outcomes]
    /\ expired \in [Requests -> BOOLEAN]
    /\ future \in [Requests -> {"none", "PENDING", "RUNNING", "CANCELLED", "FINISHED"}]
    /\ result \in [Requests -> Results]
    /\ calls \in [Requests -> 0..2]
    /\ gate \in Requests \cup {NoRequest}
    /\ active \in Requests \cup {NoRequest}
    /\ queue \in Seq(Requests)
    /\ item \in Requests \cup {NoRequest}
    /\ phase \in {"free", "entry", "call", "fallback"}
    /\ stranded \subseteq Requests

Init ==
    /\ pc = [r \in Requests |-> "idle"]
    /\ outcome = [r \in Requests |-> "none"]
    /\ expired = [r \in Requests |-> FALSE]
    /\ future = [r \in Requests |-> "none"]
    /\ result = [r \in Requests |-> "none"]
    /\ calls = [r \in Requests |-> 0]
    /\ gate = NoRequest
    /\ active = NoRequest
    /\ queue = <<>>
    /\ item = NoRequest
    /\ phase = "free"
    /\ stranded = {}

-----------------------------------------------------------------------------
Unfinished(r) == future[r] \in {"PENDING", "RUNNING"}

\* Mutant of Occupied: a finished future is never recognised as done.
OccupiedForever == active # NoRequest

\* The slot is held: _active_future is not None and not _active_future.done().
Occupied == active # NoRequest /\ Unfinished(active)

\* A thread exists once a submit() has returned; a stranded item waits for it.
ThreadStarted == active # NoRequest

\* The caller leaves the function with an outcome.
Return(r, verdict) ==
    /\ pc' = [pc EXCEPT ![r] = "returned"]
    /\ outcome' = [outcome EXCEPT ![r] = verdict]

\* Context, prompt and arguments are built, then expires_at is fixed.
Call(r) ==
    /\ pc[r] = "idle"
    /\ pc' = [pc EXCEPT ![r] = "gate"]
    /\ UNCHANGED <<outcome, expired, future, result, gate, active, queue, threadVars, stranded>>

\* Anything raised before the submission lands in the absolute backstop.
CallRaises(r) ==
    /\ pc[r] = "idle"
    /\ Return(r, "llm_error")
    /\ UNCHANGED <<expired, future, result, gate, active, queue, threadVars, stranded>>

\* Mutant of AcquireGate: no lock around the admission check.
AcquireNoGate(r) ==
    /\ pc[r] = "gate"
    /\ gate' = r
    /\ pc' = [pc EXCEPT ![r] = "check"]
    /\ UNCHANGED <<outcome, expired, future, result, active, queue, threadVars, stranded>>

AcquireGate(r) ==
    /\ pc[r] = "gate"
    /\ gate = NoRequest
    /\ gate' = r
    /\ pc' = [pc EXCEPT ![r] = "check"]
    /\ UNCHANGED <<outcome, expired, future, result, active, queue, threadVars, stranded>>

FindBusy(r) ==
    /\ pc[r] = "check"
    /\ Occupied
    /\ gate' = NoRequest
    /\ Return(r, "worker_busy")
    /\ UNCHANGED <<expired, future, result, active, queue, threadVars, stranded>>

\* Mutant of FindFree: the slot follows the caller's wait, not the future.
FindNobodyWaiting(r) ==
    /\ pc[r] = "check"
    /\ ~(Occupied /\ pc[active] = "wait")
    /\ pc' = [pc EXCEPT ![r] = "submit"]
    /\ UNCHANGED <<outcome, expired, future, result, gate, active, queue, threadVars, stranded>>

FindFree(r) ==
    /\ pc[r] = "check"
    /\ ~Occupied
    /\ pc' = [pc EXCEPT ![r] = "submit"]
    /\ UNCHANGED <<outcome, expired, future, result, gate, active, queue, threadVars, stranded>>

Submit(r) ==
    /\ pc[r] = "submit"
    /\ future' = [future EXCEPT ![r] = "PENDING"]
    /\ queue' = Append(queue, r)
    /\ active' = r
    /\ gate' = NoRequest
    /\ pc' = [pc EXCEPT ![r] = "wait"]
    /\ UNCHANGED <<outcome, expired, result, threadVars, stranded>>

\* submit() raised before it queued anything (executor shut down).
SubmitRaises(r) ==
    /\ pc[r] = "submit"
    /\ gate' = NoRequest
    /\ Return(r, "llm_error")
    /\ UNCHANGED <<expired, future, result, active, queue, threadVars, stranded>>

\* submit() raised after it queued the item: ThreadPoolExecutor enqueues first
\* and starts its thread second, and the thread could not be started.  The item
\* stays behind while _active_future is not updated.
SubmitStrands(r) ==
    /\ pc[r] = "submit"
    /\ ~ThreadStarted
    /\ future' = [future EXCEPT ![r] = "PENDING"]
    /\ queue' = Append(queue, r)
    /\ gate' = NoRequest
    /\ Return(r, "llm_error")
    /\ stranded' = stranded \cup {r}
    /\ UNCHANGED <<expired, result, active, threadVars>>

\* The monotonic clock passes expires_at; of no consequence once the caller has
\* returned and its work has ended.
Expire(r) ==
    /\ pc[r] # "idle" /\ ~expired[r]
    /\ pc[r] # "returned" \/ Unfinished(r)
    /\ expired' = [expired EXCEPT ![r] = TRUE]
    /\ UNCHANGED <<callerVars, future, result, queue, threadVars>>

\* Mutant of WaitTimesOut: only an item still in the queue is given up.
WaitTimesOutPending(r) ==
    /\ pc[r] = "wait"
    /\ future[r] = "PENDING"
    /\ expired[r]
    /\ pc' = [pc EXCEPT ![r] = "cancel"]
    /\ UNCHANGED <<outcome, expired, future, result, gate, active, queue, threadVars, stranded>>

\* The wait began after expires_at was computed, so it cannot end before it.
WaitTimesOut(r) ==
    /\ pc[r] = "wait"
    /\ Unfinished(r)
    /\ expired[r]
    /\ pc' = [pc EXCEPT ![r] = "cancel"]
    /\ UNCHANGED <<outcome, expired, future, result, gate, active, queue, threadVars, stranded>>

\* Mutant of Cancel: a running future is marked cancelled too.
CancelRunning(r) ==
    /\ pc[r] = "cancel"
    /\ future' = IF Unfinished(r) THEN [future EXCEPT ![r] = "CANCELLED"] ELSE future
    /\ Return(r, "timeout")
    /\ UNCHANGED <<expired, result, gate, active, queue, threadVars, stranded>>

\* future.cancel() is effective on a pending future only.
Cancel(r) ==
    /\ pc[r] = "cancel"
    /\ future' = IF future[r] = "PENDING" THEN [future EXCEPT ![r] = "CANCELLED"]
                 ELSE future
    /\ Return(r, "timeout")
    /\ UNCHANGED <<expired, result, gate, active, queue, threadVars, stranded>>

Verdict(r) ==
    CASE result[r] = "ok" -> "ok"
      [] result[r] = "fallback_ok" -> IF r \in Appraisals THEN "trust_fallback" ELSE "ok"
      [] result[r] = "bad_shape" -> "parse_fail"
      [] OTHER -> "llm_error"

Collect(r) ==
    /\ pc[r] = "wait"
    /\ future[r] = "FINISHED"
    /\ IF result[r] = "timeout"
         THEN pc' = [pc EXCEPT ![r] = "cancel"] /\ UNCHANGED outcome
         ELSE Return(r, Verdict(r))
    /\ UNCHANGED <<expired, future, result, gate, active, queue, threadVars, stranded>>

CallerStep(r) ==
    \/ AcquireGate(r) \/ FindBusy(r) \/ FindFree(r)
    \/ Submit(r) \/ SubmitRaises(r) \/ SubmitStrands(r)
    \/ WaitTimesOut(r) \/ Cancel(r) \/ Collect(r)

-----------------------------------------------------------------------------
Pop ==
    /\ phase = "free" /\ ThreadStarted /\ queue # <<>>
    /\ queue' = Tail(queue)
    /\ IF future[Head(queue)] = "PENDING"
         THEN /\ item' = Head(queue)
              /\ phase' = "entry"
              /\ future' = [future EXCEPT ![Head(queue)] = "RUNNING"]
         ELSE UNCHANGED <<item, phase, future>>
    /\ UNCHANGED <<callerVars, expired, result, calls>>

Finish(what) ==
    /\ future' = [future EXCEPT ![item] = "FINISHED"]
    /\ result' = [result EXCEPT ![item] = what]
    /\ item' = NoRequest
    /\ phase' = "free"

\* Mutant of EntryInTime: no deadline check at worker entry.
EntryUnchecked ==
    /\ phase = "entry"
    /\ phase' = "call"
    /\ calls' = [calls EXCEPT ![item] = 1]
    /\ UNCHANGED <<callerVars, expired, future, result, queue, item>>

EntryInTime ==
    /\ phase = "entry"
    /\ ~expired[item]
    /\ phase' = "call"
    /\ calls' = [calls EXCEPT ![item] = 1]
    /\ UNCHANGED <<callerVars, expired, future, result, queue, item>>

EntryTooLate ==
    /\ phase = "entry"
    /\ expired[item]
    /\ Finish("timeout")
    /\ UNCHANGED <<callerVars, expired, calls, queue>>

\* An answer, one of the wrong shape (the host's schema check or the parse), a
\* timeout error of the provider's own, or any other exception.
ProviderAnswers ==
    /\ phase \in {"call", "fallback"}
    /\ \E what \in {"ok", "bad_shape", "timeout", "error"} :
          Finish(IF what = "ok" /\ phase = "fallback" THEN "fallback_ok" ELSE what)
    /\ UNCHANGED <<callerVars, expired, calls, queue>>

\* Mutant of TrustDenied: the fallback is retried as often as it is denied.
TrustDeniedAgain ==
    /\ phase \in {"call", "fallback"}
    /\ item \in Overrides
    /\ phase' = "fallback"
    /\ calls' = [calls EXCEPT ![item] = @ + 1]
    /\ UNCHANGED <<callerVars, expired, future, result, queue, item>>

\* The host refuses the configured model: one more call, with the host's own.
TrustDenied ==
    /\ phase = "call"
    /\ item \in Overrides
    /\ phase' = "fallback"
    /\ calls' = [calls EXCEPT ![item] = 2]
    /\ UNCHANGED <<callerVars, expired, future, result, queue, item>>

ThreadStep == Pop \/ EntryInTime \/ EntryTooLate
ProviderStep == ProviderAnswers \/ TrustDenied

Next ==
    \/ \E r \in Requests : Call(r) \/ CallRaises(r) \/ CallerStep(r) \/ Expire(r)
    \/ ThreadStep
    \/ ProviderStep

Spec == Init /\ [][Next]_vars

\* Callers and the executor thread are runnable host threads and the clock
\* advances; nothing makes the provider return or the host call in.
FairSpec ==
    /\ Spec
    /\ \A r \in Requests : WF_vars(CallerStep(r)) /\ WF_vars(Expire(r))
    /\ WF_vars(ThreadStep)

-----------------------------------------------------------------------------
\* At most one unfinished piece of work holds the worker, and it is the one the
\* gate tracks: whatever a timed-out caller did, a future that is still pending
\* or running is _active_future, or was stranded by a submit() that raised
\* (_submit_if_idle: "track the future, not the caller's wait").
OneReservation == \A r \in Requests : Unfinished(r) => r = active \/ r \in stranded

\* What a caller was told agrees with what happened to its own work, even when
\* the result arrives late: a busy skip reached neither queue nor provider, a
\* success is its own finished answer with the fallback reported as such, and a
\* cancelled item never reached the provider (run_appraisal, run_reflection).
TruthfulOutcome ==
    \A r \in Requests :
        /\ outcome[r] = "worker_busy" => future[r] = "none" /\ calls[r] = 0
        /\ outcome[r] = "ok" =>
              future[r] = "FINISHED" /\ (r \in Appraisals => calls[r] = 1)
        /\ outcome[r] = "trust_fallback" => future[r] = "FINISHED" /\ calls[r] = 2
        /\ outcome[r] = "timeout" => expired[r] \/ result[r] = "timeout"
        /\ future[r] = "CANCELLED" => calls[r] = 0 /\ outcome[r] = "timeout"

\* Work whose caller has already been told it timed out or was refused does not
\* pass the deadline check at worker entry, even when cancel() lost the race
\* with the executor thread (_before_deadline).
NoEntryAfterAnswer ==
    [][\A r \in Requests :
          calls[r] = 0 /\ calls'[r] = 1 => outcome[r] \notin {"timeout", "worker_busy"}]_vars

\* "Don't start expired work on the provider" (_before_deadline), read for every
\* provider call the worker starts, the trust fallback included.
NoExpiredProviderCall ==
    [][\A r \in Requests : calls'[r] > calls[r] => ~expired[r]]_vars

\* The abstract slot's holder is the unfinished active future.
Holder == IF Occupied THEN active ELSE NoRequest

Decision(r) ==
    IF outcome[r] = "worker_busy" THEN "refused"
    ELSE IF r \in stranded \/ (pc[r] = "returned" /\ future[r] = "none") THEN "failed"
    ELSE IF future[r] # "none" THEN "admitted"
    ELSE "none"

Slot == INSTANCE Admission WITH
            holder <- Holder,
            decision <- [r \in Requests |-> Decision(r)]

\* The gate and the executor implement the abstract slot: a request is refused
\* only while another holds it, admitted only when nobody does, and the slot is
\* given back only when the holder's work has ended (_submit_if_idle).
ImplementsAdmission == Slot!AdmissionSpec

\* Every call of run_appraisal or run_reflection returns, whatever the provider
\* does, because no caller waits past its deadline.
EveryCallerAnswered == \A r \in Requests : pc[r] # "idle" ~> pc[r] = "returned"

\* A slot that timed out is not lost: if no provider call lasts forever, the
\* slot is free again and again, without any caller's help.
SlotRecovers == []<>(phase \notin {"call", "fallback"}) => []<>~Occupied
=============================================================================
