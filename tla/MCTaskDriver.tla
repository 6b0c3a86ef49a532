---------------------------- MODULE MCTaskDriver ----------------------------
(* TaskDriver for TLC; the configurations name the tasks and the bounds. *)
EXTENDS TaskDriver

\* Tasks are never compared with anything but themselves.
Interchangeable == Permutations(Task)

=============================================================================
