----------------------------- MODULE Admission -----------------------------
(***************************************************************************)
(* What the shared worker promises its callers (appraisal and reflection): *)
(* one reservation at a time, decided at once and never queued.  A request *)
(* is admitted only while nobody holds the slot, refused only while        *)
(* somebody does, and keeps the slot until its own work has ended, however *)
(* long its caller waits.  Worker.tla implements this specification.       *)
(***************************************************************************)
EXTENDS Naturals

CONSTANTS Requests,   \* the calls of run_appraisal and run_reflection
          NoRequest   \* nobody holds the slot

ASSUME NoRequestAssumption == NoRequest \notin Requests

VARIABLES holder,     \* the request whose work occupies the worker
          decision    \* what admission answered each request

admissionVars == <<holder, decision>>

AdmissionTypeOK ==
    /\ holder \in Requests \cup {NoRequest}
    /\ decision \in [Requests -> {"none", "admitted", "refused", "failed"}]

AdmissionInit ==
    /\ holder = NoRequest
    /\ decision = [r \in Requests |-> "none"]

Admit(r) ==
    /\ decision[r] = "none"
    /\ holder = NoRequest
    /\ holder' = r
    /\ decision' = [decision EXCEPT ![r] = "admitted"]

Refuse(r) ==
    /\ decision[r] = "none"
    /\ holder # NoRequest
    /\ decision' = [decision EXCEPT ![r] = "refused"]
    /\ UNCHANGED holder

\* The submission itself raised: the caller degrades and reserves nothing.
Fail(r) ==
    /\ decision[r] = "none"
    /\ decision' = [decision EXCEPT ![r] = "failed"]
    /\ UNCHANGED holder

\* The holder's work ended: finished, failed, or cancelled before it started.
Release ==
    /\ holder # NoRequest
    /\ holder' = NoRequest
    /\ UNCHANGED decision

AdmissionNext ==
    \/ \E r \in Requests : Admit(r) \/ Refuse(r) \/ Fail(r)
    \/ Release

AdmissionSpec == AdmissionInit /\ [][AdmissionNext]_admissionVars
=============================================================================
