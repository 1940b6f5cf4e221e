---------------------------- MODULE WorkerProofs ----------------------------
(***************************************************************************)
(* Worker for every set of requests: types, the single reservation, the    *)
(* deadline check, the refinement of Admission, truthful outcomes, which   *)
(* calls can be late, and that no reservation outlives its work.           *)
(***************************************************************************)
EXTENDS Worker, SequenceTheorems, TLAPS

-----------------------------------------------------------------------------
\* The executor thread holds an item exactly while it is inside one, and that
\* item's future is RUNNING: cancel() cannot touch it and nobody else finishes it.
ItemRunning ==
    /\ phase # "free" => item \in Requests /\ future[item] = "RUNNING"
    /\ phase = "free" => item = NoRequest

\* Whoever is between the admission check and the submission holds the lock.
GateHeld == \A r \in Requests : pc[r] \in {"check", "submit"} => gate = r

\* What FindFree saw is still so when submit() runs: a done future stays done.
SubmitsIntoFreeSlot == \A r \in Requests : pc[r] = "submit" => ~Occupied

\* A caller that was told it timed out, or is about to be, waited past its
\* deadline or holds a finished future; a refused one submitted nothing.
AnsweredIsExpired ==
    \A r \in Requests :
        /\ pc[r] = "cancel" \/ outcome[r] = "timeout" =>
              expired[r] \/ future[r] = "FINISHED"
        /\ pc[r] \in {"idle", "gate", "check", "submit"} \/ outcome[r] = "worker_busy" =>
              future[r] = "none"
        /\ outcome[r] # "none" => pc[r] = "returned"

IInv ==
    /\ TypeOK
    /\ ItemRunning
    /\ GateHeld
    /\ SubmitsIntoFreeSlot
    /\ AnsweredIsExpired
    /\ OneReservation

-----------------------------------------------------------------------------
\* Every step of Worker keeps its variables in their types.
LEMMA TypeStep == TypeOK /\ ItemRunning /\ [Next]_vars => TypeOK'
<1> SUFFICES ASSUME TypeOK, ItemRunning, [Next]_vars PROVE TypeOK'
  OBVIOUS
<1> USE RequestsAssumption DEF TypeOK, ItemRunning, Outcomes, Results
<1>1. ASSUME NEW r \in Requests, Call(r) \/ CallRaises(r) PROVE TypeOK'
  BY <1>1 DEF Call, CallRaises, Return, threadVars
<1>2. ASSUME NEW r \in Requests, AcquireGate(r) \/ FindBusy(r) \/ FindFree(r)
      PROVE TypeOK'
  BY <1>2 DEF AcquireGate, FindBusy, FindFree, Return, threadVars
<1>3. ASSUME NEW r \in Requests, Submit(r) \/ SubmitRaises(r) \/ SubmitStrands(r)
      PROVE TypeOK'
  <2>1. Append(queue, r) \in Seq(Requests)
    OBVIOUS
  <2>2. CASE Submit(r)
    BY <2>1, <2>2 DEF Submit, threadVars
  <2>3. CASE SubmitRaises(r)
    BY <2>3 DEF SubmitRaises, Return, threadVars
  <2>4. CASE SubmitStrands(r)
    BY <2>1, <2>4 DEF SubmitStrands, Return, threadVars
  <2>5. QED
    BY <1>3, <2>2, <2>3, <2>4
<1>4. ASSUME NEW r \in Requests, WaitTimesOut(r) \/ Cancel(r)
      PROVE TypeOK'
  BY <1>4 DEF WaitTimesOut, Cancel, Return, threadVars
<1>5. ASSUME NEW r \in Requests, Collect(r) PROVE TypeOK'
  <2>1. Verdict(r) \in Outcomes
    BY DEF Verdict
  <2>2. QED
    BY <1>5, <2>1 DEF Collect, Return, threadVars
<1>6. ASSUME NEW r \in Requests, Expire(r) PROVE TypeOK'
  BY <1>6 DEF Expire, callerVars, threadVars
<1>7. CASE Pop
  <2>1. Head(queue) \in Requests /\ Tail(queue) \in Seq(Requests)
    BY <1>7, HeadTailProperties DEF Pop
  <2>2. QED
    BY <1>7, <2>1 DEF Pop, callerVars
<1>8. CASE EntryInTime \/ EntryTooLate
  BY <1>8 DEF EntryInTime, EntryTooLate, Finish, callerVars
<1>9. CASE ProviderAnswers
  BY <1>9 DEF ProviderAnswers, Finish, callerVars
<1>10. CASE TrustDenied
  BY <1>10 DEF TrustDenied, callerVars
<1>11. CASE UNCHANGED vars
  BY <1>11 DEF vars
<1>12. QED
  BY <1>1, <1>2, <1>3, <1>4, <1>5, <1>6, <1>7, <1>8, <1>9, <1>10, <1>11
     DEF Next, CallerStep, ThreadStep, ProviderStep

\* The inductive invariant holds initially.
LEMMA IInvInit == Init => IInv
  BY RequestsAssumption
     DEF Init, IInv, TypeOK, Outcomes, Results, ItemRunning, GateHeld, SubmitsIntoFreeSlot,
         AnsweredIsExpired, OneReservation, Unfinished, Occupied

\* A caller outside the lock and the wait: entering the function, acquiring the
\* lock, or the clock passing a deadline.
LEMMA EnterStep ==
    ASSUME IInv, NEW r \in Requests,
           Call(r) \/ CallRaises(r) \/ AcquireGate(r) \/ Expire(r)
    PROVE  ItemRunning' /\ GateHeld' /\ SubmitsIntoFreeSlot' /\ AnsweredIsExpired'
           /\ OneReservation'
<1> USE RequestsAssumption DEF IInv, TypeOK, ItemRunning, GateHeld, SubmitsIntoFreeSlot,
        AnsweredIsExpired, OneReservation, Unfinished, Occupied
<1>1. CASE Call(r)
  BY <1>1 DEF Call, threadVars
<1>2. CASE CallRaises(r)
  BY <1>2 DEF CallRaises, Return, threadVars
<1>3. CASE AcquireGate(r)
  BY <1>3 DEF AcquireGate, threadVars
<1>4. CASE Expire(r)
  BY <1>4 DEF Expire, callerVars, threadVars
<1>5. QED
  BY <1>1, <1>2, <1>3, <1>4

\* A caller inside the lock: the admission check and the submission.
LEMMA AdmitStep ==
    ASSUME IInv, NEW r \in Requests,
           FindBusy(r) \/ FindFree(r) \/ Submit(r) \/ SubmitRaises(r) \/ SubmitStrands(r)
    PROVE  ItemRunning' /\ GateHeld' /\ SubmitsIntoFreeSlot' /\ AnsweredIsExpired'
           /\ OneReservation'
<1> USE RequestsAssumption DEF IInv, TypeOK, ItemRunning, GateHeld, SubmitsIntoFreeSlot,
        AnsweredIsExpired, OneReservation, Unfinished, Occupied
<1>1. CASE FindBusy(r)
  BY <1>1 DEF FindBusy, Return, threadVars
<1>2. CASE FindFree(r)
  BY <1>2 DEF FindFree, threadVars
<1>3. CASE Submit(r)
  BY <1>3 DEF Submit, threadVars
<1>4. CASE SubmitRaises(r)
  BY <1>4 DEF SubmitRaises, Return, threadVars
<1>5. CASE SubmitStrands(r)
  BY <1>5 DEF SubmitStrands, Return, threadVars, ThreadStarted
<1>6. QED
  BY <1>1, <1>2, <1>3, <1>4, <1>5

\* A caller that waits, gives up or reads its result.
LEMMA WaitStep ==
    ASSUME IInv, NEW r \in Requests, WaitTimesOut(r) \/ Cancel(r) \/ Collect(r)
    PROVE  ItemRunning' /\ GateHeld' /\ SubmitsIntoFreeSlot' /\ AnsweredIsExpired'
           /\ OneReservation'
<1> USE RequestsAssumption DEF IInv, TypeOK, ItemRunning, GateHeld, SubmitsIntoFreeSlot,
        AnsweredIsExpired, OneReservation, Unfinished, Occupied
<1>1. CASE WaitTimesOut(r)
  BY <1>1 DEF WaitTimesOut, threadVars
<1>2. CASE Cancel(r)
  BY <1>2 DEF Cancel, Return, threadVars
<1>3. CASE Collect(r)
  <2>1. Verdict(r) \notin {"timeout", "worker_busy"}
    BY DEF Verdict
  <2>2. QED
    BY <1>3, <2>1 DEF Collect, Return, threadVars
<1>4. QED
  BY <1>1, <1>2, <1>3

\* The executor thread and the provider.
LEMMA ThreadStepInv ==
    ASSUME IInv, ThreadStep \/ ProviderStep
    PROVE  ItemRunning' /\ GateHeld' /\ SubmitsIntoFreeSlot' /\ AnsweredIsExpired'
           /\ OneReservation'
<1> USE RequestsAssumption DEF IInv, TypeOK, ItemRunning, GateHeld, SubmitsIntoFreeSlot,
        AnsweredIsExpired, OneReservation, Unfinished, Occupied
<1>1. CASE Pop
  <2>1. Head(queue) \in Requests
    BY <1>1 DEF Pop
  <2>2. QED
    BY <1>1, <2>1 DEF Pop, callerVars
<1>2. CASE EntryInTime
  BY <1>2 DEF EntryInTime, callerVars
<1>3. CASE EntryTooLate
  BY <1>3 DEF EntryTooLate, Finish, callerVars
<1>4. CASE ProviderAnswers
  BY <1>4 DEF ProviderAnswers, Finish, callerVars
<1>5. CASE TrustDenied
  BY <1>5 DEF TrustDenied, callerVars
<1>6. QED
  BY <1>1, <1>2, <1>3, <1>4, <1>5 DEF ThreadStep, ProviderStep

\* Every step preserves the inductive invariant.
LEMMA IInvStep == IInv /\ [Next]_vars => IInv'
<1> SUFFICES ASSUME IInv, [Next]_vars PROVE IInv'
  OBVIOUS
<1>1. TypeOK'
  BY TypeStep DEF IInv
<1>2. CASE UNCHANGED vars
  BY <1>2 DEF vars, IInv, TypeOK, ItemRunning, GateHeld, SubmitsIntoFreeSlot,
              AnsweredIsExpired, OneReservation, Unfinished, Occupied
<1>3. CASE Next
  <2>1. ItemRunning' /\ GateHeld' /\ SubmitsIntoFreeSlot' /\ AnsweredIsExpired'
        /\ OneReservation'
    BY <1>3, EnterStep, AdmitStep, WaitStep, ThreadStepInv DEF Next, CallerStep
  <2>2. QED
    BY <1>1, <2>1 DEF IInv
<1>4. QED
  BY <1>2, <1>3

\* The inductive invariant holds in every reachable state.
THEOREM Inductive == Spec => []IInv
  BY IInvInit, IInvStep, PTL DEF Spec

-----------------------------------------------------------------------------
\* Every variable keeps its type: in particular the worker never makes more than
\* two provider calls for one request (the call and its single trust fallback).
THEOREM TypeCorrect == Spec => []TypeOK
<1>1. IInv => TypeOK
  BY DEF IInv
<1>2. QED
  BY <1>1, Inductive, PTL

\* The shared worker never has two unfinished reservations, for any number of
\* concurrent callers, deadlines and stuck provider calls.
THEOREM SingleReservation == Spec => []OneReservation
<1>1. IInv => OneReservation
  BY DEF IInv
<1>2. QED
  BY <1>1, Inductive, PTL

\* A caller that was told "timeout" or "worker_busy" is never followed by a first
\* provider call on its behalf.
THEOREM NoLateEntry == Spec => NoEntryAfterAnswer
<1>1. IInv /\ [Next]_vars =>
        [\A r \in Requests : calls[r] = 0 /\ calls'[r] = 1
            => outcome[r] \notin {"timeout", "worker_busy"}]_vars
  <2> SUFFICES ASSUME IInv, Next, NEW r \in Requests, calls[r] = 0, calls'[r] = 1
               PROVE  outcome[r] \notin {"timeout", "worker_busy"}
    OBVIOUS
  <2>1. ~(\E q \in Requests : Call(q) \/ CallRaises(q) \/ CallerStep(q) \/ Expire(q))
    BY DEF Call, CallRaises, CallerStep, AcquireGate, FindBusy, FindFree, Submit,
           SubmitRaises, SubmitStrands, WaitTimesOut, Cancel, Collect, Expire, threadVars
  <2>2. EntryInTime
    BY <2>1 DEF Next, ThreadStep, ProviderStep, Pop, EntryTooLate, ProviderAnswers,
                TrustDenied, IInv, TypeOK, ItemRunning
  <2>3. item = r /\ ~expired[r] /\ future[r] = "RUNNING"
    BY <2>2 DEF EntryInTime, IInv, TypeOK, ItemRunning
  <2>4. QED
    BY <2>3 DEF IInv, AnsweredIsExpired
<1>2. QED
  BY <1>1, Inductive, PTL DEF Spec, NoEntryAfterAnswer

-----------------------------------------------------------------------------
\* A stranded item's caller has returned and the gate never tracked it; a caller
\* past its submission has a future of its own.
Submitted ==
    /\ \A r \in stranded :
          pc[r] = "returned" /\ outcome[r] = "llm_error" /\ future[r] # "none" /\ r # active
    /\ \A r \in Requests : pc[r] \in {"wait", "cancel"} => future[r] # "none"

\* Submitted is preserved together with the inductive invariant.
LEMMA SubmittedStep == IInv /\ Submitted /\ [Next]_vars => Submitted'
<1> SUFFICES ASSUME IInv, Submitted, [Next]_vars PROVE Submitted'
  OBVIOUS
<1> USE RequestsAssumption DEF IInv, TypeOK, ItemRunning, AnsweredIsExpired, Submitted
<1>1. ASSUME NEW r \in Requests, Call(r) \/ CallRaises(r) \/ AcquireGate(r) \/ Expire(r)
      PROVE  Submitted'
  BY <1>1 DEF Call, CallRaises, AcquireGate, Expire, Return, threadVars, callerVars
<1>2. ASSUME NEW r \in Requests, FindBusy(r) \/ FindFree(r) \/ SubmitRaises(r)
      PROVE  Submitted'
  BY <1>2 DEF FindBusy, FindFree, SubmitRaises, Return, threadVars
<1>3. ASSUME NEW r \in Requests, Submit(r) PROVE Submitted'
  BY <1>3 DEF Submit, threadVars
<1>4. ASSUME NEW r \in Requests, SubmitStrands(r) PROVE Submitted'
  BY <1>4 DEF SubmitStrands, Return, threadVars, ThreadStarted
<1>5. ASSUME NEW r \in Requests, WaitTimesOut(r) \/ Cancel(r) \/ Collect(r)
      PROVE  Submitted'
  BY <1>5 DEF WaitTimesOut, Cancel, Collect, Return, threadVars
<1>6. CASE ThreadStep \/ ProviderStep
  <2>1. Pop => Head(queue) \in Requests
    BY DEF Pop
  <2>2. QED
    BY <1>6, <2>1 DEF ThreadStep, ProviderStep, Pop, EntryInTime, EntryTooLate,
                      ProviderAnswers, TrustDenied, Finish, callerVars
<1>7. CASE UNCHANGED vars
  BY <1>7 DEF vars
<1>8. QED
  BY <1>1, <1>2, <1>3, <1>4, <1>5, <1>6, <1>7 DEF Next, CallerStep

\* Steps of a caller that does not submit: entering and leaving early decide,
\* everything else is a stutter of the abstract slot.
LEMMA CallerRefines ==
    ASSUME IInv, Submitted, NEW r \in Requests,
           Call(r) \/ CallRaises(r) \/ AcquireGate(r) \/ FindBusy(r) \/ FindFree(r)
             \/ SubmitRaises(r) \/ WaitTimesOut(r) \/ Collect(r) \/ Expire(r)
    PROVE  [Slot!AdmissionNext]_(Slot!admissionVars)
<1> USE RequestsAssumption DEF IInv, TypeOK, AnsweredIsExpired, Submitted, Occupied, Unfinished,
        Holder, Decision, Slot!admissionVars
<1>1. CASE Call(r) \/ AcquireGate(r) \/ FindFree(r) \/ WaitTimesOut(r) \/ Expire(r)
  BY <1>1 DEF Call, AcquireGate, FindFree, WaitTimesOut, Expire, threadVars, callerVars
<1>2. CASE CallRaises(r) \/ SubmitRaises(r)
  <2>1. future[r] = "none" /\ outcome[r] # "worker_busy" /\ r \notin stranded
        /\ pc[r] # "returned"
    BY <1>2 DEF CallRaises, SubmitRaises
  <2>2. /\ pc' = [pc EXCEPT ![r] = "returned"]
        /\ outcome' = [outcome EXCEPT ![r] = "llm_error"]
        /\ UNCHANGED <<future, active, stranded>>
    BY <1>2 DEF CallRaises, SubmitRaises, Return
  <2>3. Holder' = Holder
    BY <2>2
  <2>4. [q \in Requests |-> Decision(q)]'
          = [[q \in Requests |-> Decision(q)] EXCEPT ![r] = "failed"]
    BY <2>1, <2>2
  <2>5. Slot!Fail(r)
    BY <2>1, <2>3, <2>4 DEF Slot!Fail
  <2>6. QED
    BY <2>5 DEF Slot!AdmissionNext
<1>3. CASE FindBusy(r)
  <2>1. Slot!Refuse(r)
    BY <1>3 DEF FindBusy, Return, threadVars, Slot!Refuse
  <2>2. QED
    BY <2>1 DEF Slot!AdmissionNext
<1>4. CASE Collect(r)
  <2>1. Verdict(r) # "worker_busy"
    BY DEF Verdict
  <2>2. QED
    BY <1>4, <2>1 DEF Collect, Return, threadVars
<1>5. QED
  BY <1>1, <1>2, <1>3, <1>4

\* The submission admits or fails; cancelling a pending future releases the slot.
LEMMA SubmitRefines ==
    ASSUME IInv, Submitted, NEW r \in Requests, Submit(r) \/ SubmitStrands(r) \/ Cancel(r)
    PROVE  [Slot!AdmissionNext]_(Slot!admissionVars)
<1> USE RequestsAssumption DEF IInv, TypeOK, AnsweredIsExpired, Submitted, Occupied, Unfinished,
        Holder, Decision, Slot!admissionVars
<1>1. CASE Submit(r)
  <2>1. Slot!Admit(r)
    BY <1>1 DEF Submit, threadVars, SubmitsIntoFreeSlot, Slot!Admit
  <2>2. QED
    BY <2>1 DEF Slot!AdmissionNext
<1>2. CASE SubmitStrands(r)
  <2>1. Slot!Fail(r)
    BY <1>2 DEF SubmitStrands, ThreadStarted, Return, threadVars, Slot!Fail
  <2>2. QED
    BY <2>1 DEF Slot!AdmissionNext
<1>3. CASE Cancel(r)
  <2>1. CASE future[r] = "PENDING"
    <3>1. r = active
      BY <1>3, <2>1 DEF OneReservation, Cancel
    <3>2. Slot!Release
      BY <1>3, <2>1, <3>1 DEF Cancel, Return, threadVars, Slot!Release
    <3>3. QED
      BY <3>2 DEF Slot!AdmissionNext
  <2>2. CASE future[r] # "PENDING"
    BY <1>3, <2>2 DEF Cancel, Return, threadVars
  <2>3. QED
    BY <2>1, <2>2
<1>4. QED
  BY <1>1, <1>2, <1>3

\* The executor thread releases the slot when it finishes the active item.
LEMMA ThreadRefines ==
    ASSUME IInv, Submitted, ThreadStep \/ ProviderStep
    PROVE  [Slot!AdmissionNext]_(Slot!admissionVars)
<1> USE RequestsAssumption DEF IInv, TypeOK, ItemRunning, AnsweredIsExpired, Submitted,
        Occupied, Unfinished, Holder, Decision, Slot!admissionVars
<1>1. CASE Pop
  <2>1. Head(queue) \in Requests
    BY <1>1 DEF Pop
  <2>2. QED
    BY <1>1, <2>1 DEF Pop, callerVars
<1>2. CASE EntryInTime \/ TrustDenied
  BY <1>2 DEF EntryInTime, TrustDenied, callerVars
<1>3. CASE EntryTooLate \/ ProviderAnswers
  <2>1. item \in Requests /\ future[item] = "RUNNING"
        /\ future' = [future EXCEPT ![item] = "FINISHED"]
        /\ UNCHANGED <<pc, outcome, stranded, active>>
    BY <1>3 DEF EntryTooLate, ProviderAnswers, Finish, callerVars
  <2>2. UNCHANGED [r \in Requests |-> Decision(r)]
    BY <2>1
  <2>3. CASE item = active
    <3>1. Slot!Release
      BY <2>1, <2>2, <2>3 DEF Slot!Release
    <3>2. QED
      BY <3>1 DEF Slot!AdmissionNext
  <2>4. CASE item # active
    BY <2>1, <2>2, <2>4
  <2>5. QED
    BY <2>3, <2>4
<1>4. QED
  BY <1>1, <1>2, <1>3 DEF ThreadStep, ProviderStep

\* The gate and the executor implement Admission for every set of requests.
THEOREM Refinement == Spec => ImplementsAdmission
<1>1. Init => Slot!AdmissionInit /\ Submitted
  BY RequestsAssumption DEF Init, Slot!AdmissionInit, Submitted, Holder, Decision, Occupied
<1>2. IInv /\ Submitted /\ [Next]_vars => [Slot!AdmissionNext]_(Slot!admissionVars)
  <2>1. CASE UNCHANGED vars
    BY <2>1 DEF vars, Slot!admissionVars, Holder, Decision, Occupied, Unfinished
  <2>2. QED
    BY <2>1, CallerRefines, SubmitRefines, ThreadRefines DEF Next, CallerStep
<1>3. QED
  BY <1>1, <1>2, SubmittedStep, Inductive, PTL
     DEF Spec, ImplementsAdmission, Slot!AdmissionSpec

-----------------------------------------------------------------------------
\* How many provider calls the work of a request has started, as its future and
\* its result tell it: none before the executor runs it, one for a first answer,
\* two for an answer of the fallback.
CallsMatchResult ==
    \A r \in Requests :
        /\ future[r] \in {"none", "PENDING", "CANCELLED"} => calls[r] = 0
        /\ future[r] # "FINISHED" => result[r] = "none"
        /\ result[r] = "ok" => calls[r] = 1
        /\ result[r] = "fallback_ok" => calls[r] = 2

\* The same for the item the executor thread is inside of.
CallsMatchPhase ==
    /\ phase = "entry" => calls[item] = 0
    /\ phase = "call" => calls[item] = 1
    /\ phase = "fallback" => calls[item] = 2

\* Only a caller that waited past its deadline or read a timeout gives up, and
\* only one that gave up cancels.
GivesUpWithCause ==
    \A r \in Requests :
        /\ pc[r] = "cancel" => expired[r] \/ result[r] = "timeout"
        /\ future[r] = "CANCELLED" => outcome[r] = "timeout"

OutcomeInv == CallsMatchResult /\ CallsMatchPhase /\ GivesUpWithCause /\ TruthfulOutcome

\* What a caller reads from a finished future is the verdict of its own work.
LEMMA VerdictMeans ==
    ASSUME TypeOK, NEW r \in Requests
    PROVE  /\ Verdict(r) \in {"ok", "trust_fallback", "parse_fail", "llm_error"}
           /\ Verdict(r) = "trust_fallback" => result[r] = "fallback_ok"
           /\ Verdict(r) = "ok" =>
                 result[r] = "ok" \/ (result[r] = "fallback_ok" /\ r \notin Appraisals)
  BY DEF Verdict

\* A caller's step starts no provider call and finishes no future.
LEMMA CallerOutcome ==
    ASSUME IInv, OutcomeInv, NEW r \in Requests,
           Call(r) \/ CallRaises(r) \/ CallerStep(r) \/ Expire(r)
    PROVE  OutcomeInv'
<1> USE RequestsAssumption DEF IInv, TypeOK, ItemRunning, AnsweredIsExpired, Unfinished,
        OutcomeInv, CallsMatchResult, CallsMatchPhase, GivesUpWithCause, TruthfulOutcome
<1>1. CASE Call(r) \/ AcquireGate(r) \/ FindFree(r) \/ Expire(r)
  BY <1>1 DEF Call, AcquireGate, FindFree, Expire, threadVars, callerVars
<1>2. CASE CallRaises(r) \/ FindBusy(r) \/ SubmitRaises(r)
  BY <1>2 DEF CallRaises, FindBusy, SubmitRaises, Return, threadVars
<1>3. CASE Submit(r) \/ SubmitStrands(r)
  BY <1>3 DEF Submit, SubmitStrands, Return, threadVars
<1>4. CASE WaitTimesOut(r) \/ Cancel(r)
  BY <1>4 DEF WaitTimesOut, Cancel, Return, threadVars
<1>5. CASE Collect(r)
  <2>1. CASE result[r] = "timeout"
    BY <1>5, <2>1 DEF Collect, threadVars
  <2>2. CASE result[r] # "timeout"
    BY <1>5, <2>2, VerdictMeans DEF Collect, Return, threadVars
  <2>3. QED
    BY <2>1, <2>2
<1>6. QED
  BY <1>1, <1>2, <1>3, <1>4, <1>5 DEF CallerStep

\* A step of the executor thread or the provider changes only the item it runs,
\* whose caller has been told nothing that its late result could contradict.
LEMMA ThreadOutcome ==
    ASSUME IInv, OutcomeInv, ThreadStep \/ ProviderStep
    PROVE  OutcomeInv'
<1> USE RequestsAssumption DEF IInv, TypeOK, ItemRunning, AnsweredIsExpired, Unfinished,
        OutcomeInv, CallsMatchResult, CallsMatchPhase, GivesUpWithCause, TruthfulOutcome
<1>1. CASE Pop
  <2>1. Head(queue) \in Requests
    BY <1>1 DEF Pop
  <2>2. QED
    BY <1>1, <2>1 DEF Pop, callerVars
<1>2. CASE EntryInTime
  BY <1>2 DEF EntryInTime, callerVars
<1>3. CASE EntryTooLate
  BY <1>3 DEF EntryTooLate, Finish, callerVars
<1>4. CASE ProviderAnswers
  BY <1>4 DEF ProviderAnswers, Finish, callerVars
<1>5. CASE TrustDenied
  BY <1>5 DEF TrustDenied, callerVars
<1>6. QED
  BY <1>1, <1>2, <1>3, <1>4, <1>5 DEF ThreadStep, ProviderStep

\* The invariant of the outcomes holds in every reachable state.
LEMMA OutcomeInductive == Spec => []OutcomeInv
<1>1. Init => OutcomeInv
  BY DEF Init, OutcomeInv, CallsMatchResult, CallsMatchPhase, GivesUpWithCause, TruthfulOutcome
<1>2. IInv /\ OutcomeInv /\ [Next]_vars => OutcomeInv'
  <2>1. ASSUME OutcomeInv, UNCHANGED vars PROVE OutcomeInv'
    BY <2>1 DEF vars, OutcomeInv, CallsMatchResult, CallsMatchPhase, GivesUpWithCause,
                TruthfulOutcome
  <2>2. QED
    BY <2>1, CallerOutcome, ThreadOutcome DEF Next
<1>3. QED
  BY <1>1, <1>2, Inductive, PTL DEF Spec

\* Whatever a caller was told agrees with what its own work did, for any number
\* of callers and however late the provider's answer arrives.
THEOREM OutcomesAreTruthful == Spec => []TruthfulOutcome
<1>1. OutcomeInv => TruthfulOutcome
  BY DEF OutcomeInv
<1>2. QED
  BY <1>1, OutcomeInductive, PTL

-----------------------------------------------------------------------------
\* A provider call that starts past the deadline can only be the second one, after
\* a denied override: the check at worker entry stops every other.
OnlyFallbackLate ==
    [][\A r \in Requests :
          calls'[r] > calls[r] /\ expired[r] => calls[r] = 1 /\ r \in Overrides]_vars

\* What "don't start expired work on the provider" (_before_deadline) amounts to:
\* only the trust fallback of a configured model can be started late.
THEOREM LateCallIsFallback == Spec => OnlyFallbackLate
<1>1. IInv /\ OutcomeInv /\ [Next]_vars =>
        [\A r \in Requests :
            calls'[r] > calls[r] /\ expired[r] => calls[r] = 1 /\ r \in Overrides]_vars
  <2> SUFFICES ASSUME IInv, OutcomeInv, Next, NEW r \in Requests,
                      calls'[r] > calls[r], expired[r]
               PROVE  calls[r] = 1 /\ r \in Overrides
    OBVIOUS
  <2>1. calls[r] \in 0..2 /\ calls \in [Requests -> 0..2]
    BY DEF IInv, TypeOK
  <2>2. ~(\E q \in Requests : Call(q) \/ CallRaises(q) \/ CallerStep(q) \/ Expire(q))
    BY <2>1 DEF Call, CallRaises, CallerStep, AcquireGate, FindBusy, FindFree, Submit,
                SubmitRaises, SubmitStrands, WaitTimesOut, Cancel, Collect, Expire, threadVars
  <2>3. ~(Pop \/ EntryTooLate \/ ProviderAnswers)
    BY <2>1 DEF Pop, EntryTooLate, ProviderAnswers
  <2>4. ~EntryInTime
    BY <2>1 DEF EntryInTime
  <2>5. TrustDenied
    BY <2>2, <2>3, <2>4 DEF Next, ThreadStep, ProviderStep
  <2>6. item = r
    BY <2>1, <2>5 DEF TrustDenied
  <2>7. QED
    BY <2>5, <2>6 DEF TrustDenied, OutcomeInv, CallsMatchPhase
<1>2. QED
  BY <1>1, OutcomeInductive, Inductive, PTL DEF Spec, OnlyFallbackLate

-----------------------------------------------------------------------------
\* Queued r: some place of the executor's queue holds it.
Queued(r) == \E k \in 1..Len(queue) : queue[k] = r

\* Unfinished work is where the executor will find it or already has it: a
\* reservation cannot outlive its work by the work getting lost.
NoWorkLost ==
    \A r \in Requests :
        /\ future[r] = "PENDING" => Queued(r)
        /\ future[r] = "RUNNING" => item = r /\ phase # "free"

\* What is queued stays queued when another item is added behind it.
LEMMA QueuedBehind ==
    ASSUME queue \in Seq(Requests), NEW q \in Requests, queue' = Append(queue, q)
    PROVE  (\A r \in Requests : Queued(r) => Queued(r)') /\ Queued(q)'
<1>1. Len(queue') = Len(queue) + 1 /\ Len(queue) \in Nat
      /\ queue'[Len(queue) + 1] = q
      /\ \A k \in 1..Len(queue) : queue'[k] = queue[k]
  BY AppendProperties, LenProperties
<1>2. QED
  BY <1>1 DEF Queued

\* Taking the head leaves everything else queued.
LEMMA QueuedBeforePop ==
    ASSUME queue \in Seq(Requests), queue # <<>>, queue' = Tail(queue)
    PROVE  \A r \in Requests : Queued(r) => Queued(r)' \/ r = Head(queue)
<1>1. Len(queue) \in Nat /\ Len(queue') = Len(queue) - 1 /\ Head(queue) = queue[1]
      /\ \A k \in 1..Len(queue') : queue'[k] = queue[k + 1]
  BY HeadTailProperties, LenProperties
<1>2. SUFFICES ASSUME NEW r \in Requests, NEW k \in 1..Len(queue), queue[k] = r, k # 1
               PROVE  Queued(r)'
  BY <1>1 DEF Queued
<1>3. k - 1 \in 1..Len(queue') /\ queue'[k - 1] = r
  BY <1>1, <1>2
<1>4. QED
  BY <1>3 DEF Queued

\* The slot's holder is never lost work: a future that occupies the worker is in
\* the executor's queue or in its thread's hands (_submit_if_idle relies on it to
\* become done).
THEOREM SlotNeverLeaks == Spec => []NoWorkLost
<1>1. Init => NoWorkLost
  BY DEF Init, NoWorkLost
<1>2. IInv /\ NoWorkLost /\ [Next]_vars => NoWorkLost'
  <2> SUFFICES ASSUME IInv, NoWorkLost, [Next]_vars PROVE NoWorkLost'
    OBVIOUS
  <2> USE RequestsAssumption DEF IInv, TypeOK, ItemRunning, NoWorkLost
  <2>1. ASSUME NEW q \in Requests, Submit(q) \/ SubmitStrands(q) PROVE NoWorkLost'
    <3>1. /\ future' = [future EXCEPT ![q] = "PENDING"]
          /\ queue' = Append(queue, q)
          /\ UNCHANGED <<item, phase>>
      BY <2>1 DEF Submit, SubmitStrands, threadVars
    <3>2. (\A r \in Requests : Queued(r) => Queued(r)') /\ Queued(q)'
      BY <3>1, QueuedBehind
    <3>3. QED
      BY <3>1, <3>2
  <2>2. ASSUME NEW q \in Requests, Cancel(q) PROVE NoWorkLost'
    BY <2>2 DEF Cancel, threadVars, Queued
  <2>3. CASE Pop
    <3>1. queue # <<>> /\ queue' = Tail(queue) /\ phase = "free" /\ Head(queue) \in Requests
      BY <2>3 DEF Pop
    <3>2. \A r \in Requests : Queued(r) => Queued(r)' \/ r = Head(queue)
      BY <3>1, QueuedBeforePop
    <3>3. CASE future[Head(queue)] = "PENDING"
      <4>1. /\ item' = Head(queue) /\ phase' = "entry"
            /\ future' = [future EXCEPT ![Head(queue)] = "RUNNING"]
        BY <2>3, <3>3 DEF Pop
      <4>2. QED
        BY <3>1, <3>2, <4>1
    <3>4. CASE future[Head(queue)] # "PENDING"
      BY <2>3, <3>1, <3>2, <3>4 DEF Pop
    <3>5. QED
      BY <3>3, <3>4
  <2>4. CASE EntryInTime \/ TrustDenied
    BY <2>4 DEF EntryInTime, TrustDenied, callerVars, Queued
  <2>5. CASE EntryTooLate \/ ProviderAnswers
    <3>1. /\ item \in Requests /\ future' = [future EXCEPT ![item] = "FINISHED"]
          /\ UNCHANGED queue
      BY <2>5 DEF EntryTooLate, ProviderAnswers, Finish
    <3>2. QED
      BY <3>1 DEF Queued
  <2>6. CASE UNCHANGED <<future, queue, item, phase>>
    BY <2>6 DEF Queued
  <2>7. QED
    BY <2>1, <2>2, <2>3, <2>4, <2>5, <2>6
       DEF Next, ThreadStep, ProviderStep, CallerStep, Call, CallRaises, AcquireGate, FindBusy,
           FindFree, SubmitRaises, WaitTimesOut, Collect, Expire, threadVars, callerVars, vars
<1>3. QED
  BY <1>1, <1>2, Inductive, PTL DEF Spec
=============================================================================
