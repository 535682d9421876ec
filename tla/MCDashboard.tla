------------------------------ MODULE MCDashboard ------------------------------
(* Dashboard for TLC: two jobs, of which one goes on changing.                 *)
EXTENDS Dashboard, TLC

CONSTANTS j1, j2

Limits == j1 :> 2 @@ j2 :> 1
===============================================================================
