---------------------------- MODULE MCDashboard ----------------------------
(* Dashboard for TLC; every constant has its value in the configuration.   *)
EXTENDS Dashboard

=============================================================================
