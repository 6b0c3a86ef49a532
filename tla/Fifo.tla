-------------------------------- MODULE Fifo --------------------------------
(***************************************************************************)
(* What channels promise a Bend program, with no rows, waiters or budgets: *)
(* a payload whose sender was told True is received exactly once, in the   *)
(* order in which payloads were accepted; nothing is accepted once the     *)
(* channel is shut; and a receiver is told that a channel ended only when  *)
(* it is shut and everything accepted has been received.                   *)
(***************************************************************************)
EXTENDS Integers, Sequences

CONSTANTS Handle, Payload

VARIABLES
    known,     \* the handles opened so far
    open,      \* those of them that still accept payloads
    accepted,  \* per handle, the payloads accepted, in order
    received,  \* per handle, the payloads received, in order
    ended      \* the handles that some receiver was told have ended

fifoVars == <<known, open, accepted, received, ended>>

Init ==
    /\ known = {}
    /\ open = {}
    /\ accepted = [h \in Handle |-> <<>>]
    /\ received = [h \in Handle |-> <<>>]
    /\ ended = {}

\* A handle is opened at most once.
Open(h) ==
    /\ h \notin known
    /\ known' = known \cup {h}
    /\ open' = open \cup {h}
    /\ UNCHANGED <<accepted, received, ended>>

\* Accept at most one payload, hand out at most the oldest one not yet received.
Move(h) ==
    /\ h \in known
    /\ \E admitted \in {<<>>} \cup {<<p>> : p \in Payload}, n \in 0..1 :
          /\ admitted # <<>> => h \in open
          /\ accepted' = [accepted EXCEPT ![h] = @ \o admitted]
          /\ Len(received[h]) + n <= Len(accepted'[h])
          /\ received' = [received EXCEPT ![h] = SubSeq(accepted'[h], 1, Len(@) + n)]
    /\ UNCHANGED <<known, open, ended>>

Drained(h) == received[h] = accepted[h]

\* Shut the channel; receivers that wait then are told that it ended.
Shut(h) ==
    /\ h \in open
    /\ open' = open \ {h}
    /\ \/ ended' = ended
       \/ Drained(h) /\ ended' = ended \cup {h}
    /\ UNCHANGED <<known, accepted, received>>

End(h) ==
    /\ h \in known \ open
    /\ Drained(h)
    /\ ended' = ended \cup {h}
    /\ UNCHANGED <<known, open, accepted, received>>

Next == \E h \in Handle : Open(h) \/ Move(h) \/ Shut(h) \/ End(h)

Spec == Init /\ [][Next]_fifoVars

=============================================================================
