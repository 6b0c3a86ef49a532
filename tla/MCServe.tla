------------------------------ MODULE MCServe ------------------------------
(***************************************************************************)
(* Serve and JsonScan for TLC.  The session decodes a line that passes the *)
(* scanner; the scanner keeps no state between two lines and shares none   *)
(* with the threads, so a behaviour is either one of the session, whose    *)
(* lines are already judged, or the scan of one line.                      *)
(***************************************************************************)
EXTENDS Serve

CONSTANTS
    MaxDepth,   \* MAX_JSON_DEPTH
    MaxLength   \* the longest line that is scanned

ASSUME ScanAssumption == MaxDepth \in Nat /\ MaxLength \in Nat

VARIABLES text, quoted, escaped, started, complete, delimiters, verdict

Scan == INSTANCE JsonScan

scan == <<text, quoted, escaped, started, complete, delimiters, verdict>>
Quiet == written = <<>> /\ ~closed /\ ~cancelled /\ ~broken /\ session = "check"
Scanned == Len(text) = MaxLength /\ UNCHANGED <<vars, scan>>

MCInit == Init /\ Scan!Init
MCNext ==
    \/ text = <<>> /\ Next /\ UNCHANGED scan
    \/ Quiet /\ Scan!Next /\ UNCHANGED vars
    \/ Scanned

MCSpec ==
    /\ MCInit
    /\ [][MCNext]_<<vars, scan>>
    /\ WF_vars(Reader) /\ WF_vars(Session)

\* A line passes the scanner exactly if it frames one JSON object that is nested
\* no deeper than MAX_JSON_DEPTH, whatever its strings contain.
ScanRight == Scan!ScanRight

=============================================================================
