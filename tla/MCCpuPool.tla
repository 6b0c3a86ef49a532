----------------------------- MODULE MCCpuPool ------------------------------
(* CpuPool for TLC; the configuration names the workers and the bounds. *)
EXTENDS CpuPool

=============================================================================
