-------------------------- MODULE MCAlertEvaluator --------------------------
(* AlertEvaluator with two alerts and one channel.                         *)
EXTENDS AlertEvaluator

MCChannel == {"slack"}
=============================================================================
