--------------------------- MODULE MCChannelOrder ---------------------------
(* ChannelOrder for TLC; two payloads tell any reordering apart. *)
EXTENDS ChannelOrder

Interchangeable == Permutations(Continuation) \cup Permutations(Payload)

=============================================================================
