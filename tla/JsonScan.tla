------------------------------ MODULE JsonScan ------------------------------
(***************************************************************************)
(* The scanner that every request line passes before it is decoded         *)
(* (check_json_depth in cli/serve/serve_cli.rs): one JSON object, balanced *)
(* and not too deep, with nothing but white space around it.  It reads one *)
(* byte per step; what a byte is matters only up to its class.             *)
(***************************************************************************)
EXTENDS Naturals, Sequences, FiniteSets

CONSTANTS
    MaxDepth,   \* MAX_JSON_DEPTH
    MaxLength   \* the longest line that is checked

Space == " "            \* one of the four JSON white space bytes
Other == "x"            \* any other byte, vertical tab and form feed included
Quote == "q"
Escape == "\\"
Opening == {"{", "["}
Closing == {"}", "]"}
Byte == {Space, Other, Quote, Escape} \cup Opening \cup Closing

VARIABLES
    text,       \* the line so far
    quoted, escaped, started, complete,
    delimiters, \* the open delimiters, innermost last
    verdict     \* "open" while there is no error, else the error

scan == <<text, quoted, escaped, started, complete, delimiters, verdict>>

Init ==
    /\ text = <<>>
    /\ quoted = FALSE
    /\ escaped = FALSE
    /\ started = FALSE
    /\ complete = FALSE
    /\ delimiters = <<>>
    /\ verdict = "open"

Reject(reason) ==
    /\ verdict' = reason
    /\ UNCHANGED <<quoted, escaped, started, complete, delimiters>>

(* After the object only white space may follow.                           *)
Trailing(byte) ==
    /\ complete
    /\ IF byte = Space THEN UNCHANGED <<quoted, escaped, started, complete, delimiters, verdict>>
       ELSE Reject("trailing")

(* Before the object.                                                      *)
Leading(byte) ==
    /\ ~complete
    /\ ~started
    /\ byte # "{"
    /\ IF byte = Space THEN UNCHANGED <<quoted, escaped, started, complete, delimiters, verdict>>
       ELSE Reject("no object")

Scanning(byte) == ~complete /\ (started \/ byte = "{")

InString(byte) ==
    /\ Scanning(byte)
    /\ quoted
    /\ escaped' = (~escaped /\ byte = Escape)
    /\ quoted' = (escaped \/ byte # Quote)
    /\ UNCHANGED <<started, complete, delimiters, verdict>>

Open(byte) ==
    /\ Scanning(byte)
    /\ ~quoted
    /\ byte \in Opening
    /\ started' = TRUE
    /\ delimiters' = Append(delimiters, byte)
    /\ verdict' = IF Len(delimiters) + 1 > MaxDepth THEN "too deep" ELSE "open"
    /\ UNCHANGED <<quoted, escaped, complete>>

Partner(byte) == IF byte = "}" THEN "{" ELSE "["

(* A mutant: any closing delimiter closes the innermost one.               *)
CloseAny(byte) ==
    /\ Scanning(byte)
    /\ ~quoted
    /\ byte \in Closing
    /\ IF delimiters = <<>>
       THEN Reject("mismatched")
       ELSE /\ delimiters' = SubSeq(delimiters, 1, Len(delimiters) - 1)
            /\ complete' = (Len(delimiters) = 1)
            /\ UNCHANGED <<quoted, escaped, started, verdict>>

Close(byte) ==
    /\ Scanning(byte)
    /\ ~quoted
    /\ byte \in Closing
    /\ IF delimiters = <<>> \/ delimiters[Len(delimiters)] # Partner(byte)
       THEN Reject("mismatched")
       ELSE /\ delimiters' = SubSeq(delimiters, 1, Len(delimiters) - 1)
            /\ complete' = (Len(delimiters) = 1)
            /\ UNCHANGED <<quoted, escaped, started, verdict>>

Plain(byte) ==
    /\ Scanning(byte)
    /\ ~quoted
    /\ byte \notin Opening \cup Closing
    /\ quoted' = (byte = Quote)
    /\ UNCHANGED <<escaped, started, complete, delimiters, verdict>>

Read(byte) ==
    /\ Len(text) < MaxLength
    /\ text' = Append(text, byte)
    /\ verdict = "open"
    /\ \/ Trailing(byte) \/ Leading(byte) \/ InString(byte)
       \/ Open(byte) \/ Close(byte) \/ Plain(byte)

(* The bytes behind the one at which the line was rejected are not read.   *)
Skip(byte) ==
    /\ Len(text) < MaxLength
    /\ verdict # "open"
    /\ text' = Append(text, byte)
    /\ UNCHANGED <<quoted, escaped, started, complete, delimiters, verdict>>

Next == \E byte \in Byte : Read(byte) \/ Skip(byte)

Spec == Init /\ [][Next]_scan

(* The line may end at any byte: it passes when its object is complete.    *)
Accepted == verdict = "open" /\ complete

-----------------------------------------------------------------------------
(* What a request line has to be, without a scanner.                       *)

(* The number of escape bytes directly before a position, counted from the *)
(* position p on.                                                          *)
EscapesBefore(i, p) ==
    LET first == CHOOSE k \in p .. i :
                    /\ \A j \in k .. i - 1 : text[j] = Escape
                    /\ k = p \/ text[k - 1] # Escape
    IN  i - first

(* S is the set of the quotes that open and close strings: outside of a    *)
(* string the next quote opens one, inside it the next quote with an even  *)
(* number of escapes before it, counted within the string, closes it.      *)
Before(S, i) == {j \in S : j < i}
Inside(S, i) == Cardinality(Before(S, i)) % 2 = 1
Latest(S, i) == CHOOSE j \in Before(S, i) : \A k \in Before(S, i) : k <= j
StringEnds(S) ==
    \A i \in DOMAIN text :
        i \in S <=> /\ text[i] = Quote
                    /\ Inside(S, i) => EscapesBefore(i, Latest(S, i) + 1) % 2 = 0

(* M pairs every opening delimiter outside of the strings with the closing *)
(* one of its kind, properly nested.                                       *)
Outside(S) == {i \in DOMAIN text : i \notin S /\ ~Inside(S, i)}
Opens(S) == {i \in Outside(S) : text[i] \in Opening}
Closes(S) == {i \in Outside(S) : text[i] \in Closing}
Nested(M, S) ==
    /\ \A i \in Opens(S) : M[i] > i /\ text[i] = Partner(text[M[i]])
    /\ \A i, j \in Opens(S) : i < j => M[j] # M[i] /\ (M[j] < M[i] \/ M[i] < j)
    /\ {M[i] : i \in Opens(S)} = Closes(S)
DepthAt(M, S, i) == Cardinality({j \in Opens(S) : j <= i /\ i <= M[j]})

(* White space, one object from its first to its last byte, white space.   *)
WellFramed ==
    \E S \in SUBSET {i \in DOMAIN text : text[i] = Quote} :
        /\ StringEnds(S)
        /\ \E M \in [Opens(S) -> Closes(S)] :
            /\ Nested(M, S)
            /\ \A i \in Opens(S) : DepthAt(M, S, i) <= MaxDepth
            /\ \E first \in Opens(S) :
                /\ text[first] = "{"
                /\ \A i \in DOMAIN text : i < first \/ i > M[first] => text[i] = Space

(* A line passes the scanner exactly if it frames one JSON object that is  *)
(* nested no deeper than MAX_JSON_DEPTH, whatever its strings contain.     *)
ScanRight == Accepted <=> WellFramed
=============================================================================
