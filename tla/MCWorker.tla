------------------------------ MODULE MCWorker ------------------------------
(***************************************************************************)
(* Three calls: an appraisal with a configured model, one without, and a   *)
(* reflection with one.                                                    *)
(***************************************************************************)
EXTENDS Worker

CONSTANTS a1, a2, r1

MCRequests == {a1, a2, r1}
MCAppraisals == {a1, a2}
MCOverrides == {a1, r1}
=============================================================================
