----------------------------- MODULE MCChannels -----------------------------
(* Channels for TLC; the configuration names the rows, tasks and payloads. *)
EXTENDS Channels, TLC

\* Tasks are never compared with anything but themselves.
Interchangeable == Permutations(Continuation)

=============================================================================
