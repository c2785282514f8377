----------------------------- MODULE MCDashboard -----------------------------
(* Dashboard with two sites and a card of each kind. *)
EXTENDS Dashboard

MCIntervals == {0, 2}
=============================================================================
