----------------------------- MODULE MCHostJobs -----------------------------
(* HostJobs for TLC; the configuration names the VMs, workers and bounds. *)
EXTENDS HostJobs

=============================================================================
