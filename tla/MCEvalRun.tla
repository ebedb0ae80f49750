------------------------------ MODULE MCEvalRun -------------------------------
(* Two scenarios: the request of the first may still run in the second.    *)
EXTENDS EvalRun

CONSTANTS submit_leave_request, get_leave_balance

=============================================================================
