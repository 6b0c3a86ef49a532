------------------------------- MODULE Numbers -------------------------------
(***************************************************************************)
(* Native numbers of the evaluator (runtime/nat.rs, numeric.rs, packed.rs).*)
(*                                                                         *)
(* A natural is lazy data: Zero and Succ, a packed number, or a run of     *)
(* successors in front of a lazy tail.  A word is a constructor over a     *)
(* list of bits, packed in whole or from some bit on.  The machine demands *)
(* `focus'; the frames on its stack are the native operations that wait    *)
(* for it.  Where an operation meets a representation that it does not     *)
(* know it enters the checked body of Base instead, with its arguments     *)
(* untouched.  The bodies of the naturals are modelled too, since they     *)
(* call the native operations again.                                       *)
(***************************************************************************)
EXTENDS NumericText

CONSTANTS
    MaxNat,         \* the largest packed number (2^48 - 1)
    MaxDepth,       \* the deepest array (31)
    Width,          \* bits of a word (32)
    Tasks           \* sets of what is evaluated: an expression, and whether by value

ASSUME NumberAssumption == {MaxNat, MaxDepth, Width} \subseteq Nat \ {0}

VARIABLES
    task,
    focus,          \* the expression in demand
    frames,         \* the operations that wait, innermost last
    seen,           \* successors of the result that were looked at
    ending          \* "open", or how it ended ("none" without a task)

numberVars == <<task, focus, frames, seen, ending>>

Quantity(tag, name, n, kids) == [tag |-> tag, name |-> name, n |-> n, kids |-> kids]
PackedNat(n) == Quantity("PackedNat", "", n, <<>>)
NatPrefix(n, tail) == Quantity("NatPrefix", "", n, <<tail>>)
Con(name, kids) == Quantity("Con", name, 0, kids)
PackedWord(wrapper, bits) == Quantity("PackedWord", wrapper, bits, <<>>)
PackedBits(bits, width) == Quantity("PackedBits", "", bits, <<Quantity("Width", "", width, <<>>)>>)
WidthOf(v) == v.kids[1].n
Char(c) == Quantity("Char", "", c, <<>>)
Operation(op, args) == Quantity("Call", op, 0, args)

(* The checked body of an operation; a computation without an end.         *)
BaseBody(op, args) == Quantity("Body", op, 0, args)
Looping == Quantity("Loop", "", 0, <<>>)
Failure(name) == Quantity("Failure", name, 0, <<>>)
Overflow == Failure("overflow")
Invalid == Failure("invalid")

NatUnary == {"double", "show", "to_u32", "from_u32"}
NatBinary == {"add", "mul", "sub", "cmp"}
NatOps == NatUnary \cup NatBinary \cup {"array"}
WordUnary == {"inc", "shl", "shr"}
WordBinary == {"plus", "minus", "times", "and", "div", "mod"}
Optimized == WordUnary \cup WordBinary

CheckedNat(n) == IF n > MaxNat THEN Overflow ELSE PackedNat(n)

(* nat_prefix: at most two bounded runs; the tail is not demanded.         *)
Prefix(count, tail) ==
    CASE count = 0 -> tail
      [] count > MaxNat -> NatPrefix(MaxNat, NatPrefix(count - MaxNat, tail))
      [] OTHER -> NatPrefix(count, tail)

(* constructor_value: one layer of a packed value.                         *)
View(v) ==
    CASE v.tag = "NatPrefix" -> Con("Succ", <<Prefix(v.n - 1, v.kids[1])>>)
      [] v.tag = "PackedNat" -> IF v.n = 0 THEN Con("Zero", <<>>) ELSE Con("Succ", <<PackedNat(v.n - 1)>>)
      [] v.tag = "PackedWord" -> Con(v.name, <<PackedBits(v.n, Width)>>)
      [] v.tag = "PackedBits" ->
           IF WidthOf(v) = 0 THEN Con("WNil", <<>>)
           ELSE Con("WCon", <<Con(IF v.n % 2 = 1 THEN "True" ELSE "False", <<>>),
                              PackedBits(v.n \div 2, WidthOf(v) - 1)>>)
      [] OTHER -> v

NumberFrame(kind, op, args, got, n, at) ==
    [kind |-> kind, op |-> op, args |-> args, got |-> got, n |-> n, at |-> at]
Natural(op, args) == NumberFrame("Natural", op, args, <<>>, 0, 0)

NumberInit ==
    /\ \E batch \in Tasks : task \in batch
    /\ focus = task.expression
    /\ frames = <<>> /\ seen = 0 /\ ending = "open"

(* What a step leaves: something to demand next, under these frames.       *)
Proceeds(stack, next) == frames' = stack /\ focus' = next /\ UNCHANGED <<task, seen, ending>>
Top == Last(frames)
Below == Front(frames)
Push(frame, next) == Proceeds(Append(Below, frame), next)
Answers(v) == Proceeds(Below, v)

IsValue == focus.tag \in {"PackedNat", "NatPrefix", "Con", "PackedWord", "PackedBits"}

(* apply_nat, apply_numeric: demand the first argument that decides.       *)
Enter ==
    /\ ending = "open" /\ focus.tag = "Call"
    /\ LET op == focus.name
           kind == IF op \in NatOps THEN "Natural" ELSE IF op \in Optimized THEN "Ordinary" ELSE "Unwrap"
       IN  Proceeds(Append(frames, NumberFrame(kind, op, focus.kids, <<>>, 0, 0)), focus.kids[1])

Followed == {"double", "add", "mul", "sub", "cmp", "array"}

(* The checked bodies match their arguments from the left.                 *)
EnterBody ==
    /\ ending = "open" /\ focus.tag = "Body" /\ focus.name \in Followed
    /\ Proceeds(Append(frames, NumberFrame("Body", focus.name, focus.kids, <<>>, 0, 0)), focus.kids[1])

NatZero == Con("Zero", <<>>)
NatSucc(x) == Con("Succ", <<x>>)

(* Base: one equation of a natural operation, once its patterns are known. *)
Equation(op, args, views) ==
    LET p == views[1].kids[1]
        zero == views[1].name = "Zero"
        zero2 == views[2].name = "Zero"
    IN  CASE op = "double" -> IF zero THEN NatZero ELSE NatSucc(NatSucc(Operation("double", <<p>>)))
          [] op = "add" -> IF zero THEN args[2] ELSE NatSucc(Operation("add", <<p, args[2]>>))
          [] op = "mul" -> IF zero THEN NatZero
                           ELSE Operation("add", <<args[2], Operation("mul", <<p, args[2]>>)>>)
          [] op = "sub" -> CASE zero -> NatZero
                             [] zero2 -> NatSucc(p)
                             [] OTHER -> Operation("sub", <<p, views[2].kids[1]>>)
          [] op = "cmp" -> CASE zero -> Con(IF zero2 THEN "EQ" ELSE "LT", <<>>)
                             [] zero2 -> Con("GT", <<>>)
                             [] OTHER -> Operation("cmp", <<p, views[2].kids[1]>>)
          [] op = "array" -> Con(IF zero THEN "ALeaf" ELSE "ANode", <<>>)
StepBody ==
    /\ ending = "open" /\ IsValue /\ frames # <<>> /\ Top.kind = "Body"
    /\ LET views == Append(Top.got, View(focus))
       IN  IF Len(views) < Len(Top.args) /\ Top.op \in {"sub", "cmp"}
           THEN Push([Top EXCEPT !.got = views], Top.args[Len(views) + 1])
           ELSE Answers(Equation(Top.op, Top.args, views))

(* A mistake: the successor that was looked at is lost.                    *)
PrefixArithmeticOne(f, v) ==
    LET twice == f.op = "double"
    IN  IF v.tag = "PackedNat"
        THEN Prefix(IF twice THEN 2 * v.n ELSE v.n, IF twice THEN PackedNat(0) ELSE f.args[2])
        ELSE IF v.tag = "NatPrefix"
        THEN Prefix(v.n + v.n - 1, Operation(f.op, IF twice THEN v.kids ELSE <<v.kids[1], f.args[2]>>))
        ELSE BaseBody(f.op, f.args)

(* prefix_arithmetic: a run of successors comes out of a sum or a double   *)
(* without a look at what follows it.                                      *)
PrefixArithmetic(f, v) ==
    LET twice == f.op = "double"
    IN  IF v.tag = "PackedNat"
        THEN Prefix(IF twice THEN 2 * v.n ELSE v.n, IF twice THEN PackedNat(0) ELSE f.args[2])
        ELSE IF v.tag = "NatPrefix"
        THEN Prefix(IF twice THEN 2 * v.n ELSE v.n,
                    Operation(f.op, IF twice THEN v.kids ELSE <<v.kids[1], f.args[2]>>))
        ELSE BaseBody(f.op, f.args)

(* finish_nat on packed numbers.                                           *)
FinishNat(op, ns) ==
    CASE op = "add" -> CheckedNat(ns[1] + ns[2])
      [] op = "double" -> CheckedNat(2 * ns[1])
      [] op = "mul" -> CheckedNat(ns[1] * ns[2])
      [] op = "sub" -> PackedNat(Max({0, ns[1] - ns[2]}))
      [] op = "cmp" -> Con(CASE ns[1] < ns[2] -> "LT" [] ns[1] = ns[2] -> "EQ" [] OTHER -> "GT", <<>>)
      [] op = "from_u32" -> CheckedNat(ns[1])
      [] op = "to_u32" -> PackedWord("U32", ns[1] % 2^Width)
      [] op = "show" -> Quantity("Con", "text", ns[1], <<>>)

(* One more layer of a natural that is consumed as a whole: its successors *)
(* are counted, never past the largest number.                             *)
Consumes(f, v, count, tail) ==
    IF f.n + count > MaxNat THEN Answers(Overflow) ELSE Push([f EXCEPT !.n = @ + count], tail)

NatNumber(f, v) ==
    CASE v.tag = "PackedNat" /\ f.op # "from_u32" -> v.n + f.n
      [] v.tag = "PackedWord" /\ f.op = "from_u32" /\ v.name = "U32" -> v.n
      [] f.op \in {"show", "to_u32"} /\ v.tag = "Con" /\ v.name = "Zero" -> f.n
      [] OTHER -> -1
NatArgument(f, n) ==
    CASE n > MaxNat -> Answers(Overflow)
      [] f.op = "mul" /\ f.got = <<>> /\ n = 0 -> Answers(PackedNat(0))
      [] Len(f.got) + 1 < Len(f.args) ->
           Push([f EXCEPT !.got = Append(@, n)], f.args[Len(f.got) + 2])
      [] OTHER -> Answers(FinishNat(f.op, Append(f.got, n)))

(* nat_step: a demanded argument of a native operation has a value.        *)
StepNat ==
    /\ ending = "open" /\ IsValue /\ frames # <<>> /\ Top.kind = "Natural" /\ Top.op # "array"
    /\ LET f == Top
           v == focus
           consumed == f.op \in {"show", "to_u32"}
       IN  CASE ~task.strict /\ f.op \in {"add", "double"} -> Answers(PrefixArithmetic(f, v))
             [] NatNumber(f, v) >= 0 -> NatArgument(f, NatNumber(f, v))
             [] consumed /\ v.tag = "NatPrefix" -> Consumes(f, v, v.n, v.kids[1])
             [] consumed /\ v.tag = "Con" /\ v.name = "Succ" -> Consumes(f, v, 1, v.kids[1])
             [] OTHER -> Answers(BaseBody(f.op, f.args))

(* array_depth_step: the whole depth is demanded, up to the deepest class. *)
StepArray ==
    /\ ending = "open" /\ IsValue /\ frames # <<>> /\ Top.kind = "Natural" /\ Top.op = "array"
    /\ LET v == View(focus)
           packed == focus.tag = "PackedNat"
           count == IF packed \/ focus.tag = "NatPrefix" THEN focus.n
                    ELSE IF v.name = "Succ" THEN 1 ELSE 0
           depth == Top.n + count
           ended == packed \/ v.name = "Zero"
           tail == IF focus.tag = "NatPrefix" THEN focus.kids[1] ELSE v.kids[1]
       IN  CASE depth > MaxDepth -> Answers(Failure("depth"))
             [] ended -> Answers(BaseBody("array", Top.args))
             [] OTHER -> Push([Top EXCEPT !.n = depth], tail)
-----------------------------------------------------------------------------
(* PureOptimization::result, at the width of a word.                       *)
Result(op, w) ==
    LET m == 2^Width
    IN  CASE op = "inc" -> (w[1] + 1) % m
          [] op = "plus" -> (w[1] + w[2]) % m
          [] op = "minus" -> (w[1] - w[2]) % m
          [] op = "times" -> (w[1] * w[2]) % m
          [] op = "shl" -> (2 * w[1]) % m
          [] op = "shr" -> w[1] \div 2
          [] op = "and" -> FoldFunctionOnSet(LAMBDA b, x : b + x, 0,
                               [k \in 0..(Width - 1) |->
                                  2^k * ((w[1] \div 2^k) % 2) * ((w[2] \div 2^k) % 2)], 0..(Width - 1))
          [] op = "div" -> IF w[2] = 0 THEN 0 ELSE w[1] \div w[2]
          [] op = "mod" -> IF w[2] = 0 THEN w[1] ELSE w[1] % w[2]

(* Intrinsics act on the bits of their arguments.  The sign operations are *)
(* bitwise; what the float operations compute is the host's business.      *)
IntrinsicResult(op, w) ==
    CASE op = "neg" -> PackedWord("F32", (w[1] + 2^(Width - 1)) % 2^Width)
      [] op = "abs" -> PackedWord("F32", w[1] % 2^(Width - 1))
      [] op = "bits" -> PackedWord("U32", w[1])
      [] OTHER -> Quantity("Con", op, 0, [k \in DOMAIN w |-> PackedWord("F32", w[k])])
NumericResult(op, words) ==
    IF op \in Optimized THEN PackedWord("U32", Result(op, words)) ELSE IntrinsicResult(op, words)

(* An optimized operation wants its words packed; with any other argument  *)
(* its body decides what is demanded.                                      *)
StepOrdinary ==
    /\ ending = "open" /\ IsValue /\ frames # <<>> /\ Top.kind = "Ordinary"
    /\ LET words == Append(Top.got, focus.n)
       IN  CASE focus.tag # "PackedWord" \/ focus.name # "U32" -> Answers(BaseBody(Top.op, Top.args))
             [] Len(words) = Len(Top.args) -> Answers(NumericResult(Top.op, words))
             [] OTHER -> Push([Top EXCEPT !.got = words], Top.args[Len(words) + 1])

(* numeric_word: an argument of an intrinsic is complete.                  *)
CompleteWord(f, word) ==
    LET words == Append(f.got, word)
    IN  IF Len(words) = Len(f.args) THEN Answers(NumericResult(f.op, words))
        ELSE Push([NumberFrame("Unwrap", f.op, f.args, words, 0, 0) EXCEPT !.got = words],
                  f.args[Len(words) + 1])

InputType(op) == IF op = "from_word" THEN "U32" ELSE "F32"
StepUnwrap ==
    /\ ending = "open" /\ IsValue /\ frames # <<>> /\ Top.kind = "Unwrap"
    /\ CASE focus.tag \in {"PackedWord", "Con"} /\ focus.name # InputType(Top.op) -> Answers(Invalid)
         [] focus.tag = "PackedWord" -> CompleteWord(Top, focus.n)
         [] focus.tag = "Con" -> Push([Top EXCEPT !.kind = "Word"], focus.kids[1])
         [] OTHER -> Answers(Invalid)

BitsFit(v, at) == WidthOf(v) = Width - at /\ v.n < 2^WidthOf(v)

(* The bits below `at' are known; the rest may be packed.                  *)
StepWord ==
    /\ ending = "open" /\ IsValue /\ frames # <<>> /\ Top.kind = "Word"
    /\ CASE focus.tag = "PackedBits" ->
              IF ~BitsFit(focus, Top.at) THEN Answers(Invalid)
              ELSE CompleteWord(Top, Top.n + focus.n * 2^Top.at)
         [] focus.tag = "Con" /\ Top.at = Width ->
              IF focus.name = "WNil" THEN CompleteWord(Top, Top.n) ELSE Answers(Invalid)
         [] focus.tag = "Con" /\ focus.name = "WCon" ->
              Push([Top EXCEPT !.kind = "Bit", !.args = Append(@, focus.kids[2])], focus.kids[1])
         [] OTHER -> Answers(Invalid)

(* One bit; the tail of its word waits at the end of the arguments.        *)
StepBit ==
    /\ ending = "open" /\ IsValue /\ frames # <<>> /\ Top.kind = "Bit"
    /\ LET bit == IF focus.name = "True" THEN 2^Top.at ELSE 0
       IN  IF focus.tag = "Con" /\ focus.name \in {"True", "False"}
           THEN Push([Top EXCEPT !.kind = "Word", !.n = @ + bit, !.at = @ + 1, !.args = Front(@)],
                     Last(Top.args))
           ELSE Answers(Invalid)

(* F32.read on a complete text, F32.show on a float.                       *)
Convert ==
    /\ ending = "open" /\ focus.tag \in {"Text", "Float"}
    /\ focus' = IF focus.tag = "Text"
                THEN Quantity("Answer", "Text", Read([k \in DOMAIN focus.kids |-> focus.kids[k].n]), <<>>)
                ELSE Quantity("Answer", "Float", focus.n, <<Show(focus.n)>>)
    /\ ending' = "value"
    /\ UNCHANGED <<task, frames, seen>>

(* The reader of the result looks at it layer by layer.                    *)
Look ==
    /\ ending = "open" /\ IsValue /\ frames = <<>>
    /\ LET v == View(focus)
       IN  IF focus.tag \in {"PackedNat", "NatPrefix", "Con"} /\ v.name = "Succ"
           THEN seen' = seen + 1 /\ focus' = v.kids[1] /\ UNCHANGED ending
           ELSE ending' = "value" /\ UNCHANGED <<seen, focus>>
    /\ UNCHANGED <<task, frames>>

(* Nothing comes of a loop or of a failure, whoever waits for it; a body   *)
(* on words is Base's, and is not followed here.                           *)
Stop ==
    /\ ending = "open"
    /\ \/ focus.tag \in {"Loop", "Failure"}
       \/ focus.tag = "Body" /\ focus.name \notin Followed
    /\ ending' = CASE focus.tag = "Failure" -> focus.name [] focus.tag = "Loop" -> "loop" [] OTHER -> "body"
    /\ UNCHANGED <<task, focus, frames, seen>>

NumberNext ==
    \/ Enter \/ EnterBody \/ StepBody \/ StepNat \/ StepArray
    \/ StepOrdinary \/ StepUnwrap \/ StepWord \/ StepBit \/ Convert \/ Look \/ Stop

NumberSpec == NumberInit /\ [][NumberNext]_numberVars
=============================================================================
