----------------------------- MODULE MCAiGateway -----------------------------
(* Model values for the run of AiGateway: one request of each kind and a   *)
(* completion for a background job, over one slot.                         *)
EXTENDS AiGateway

CONSTANTS c1, s1, b1

=============================================================================
