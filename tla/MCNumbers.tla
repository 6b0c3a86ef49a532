----------------------------- MODULE MCNumbers -----------------------------
(* All small naturals and words in every mixture of representations, under *)
(* every operation, against what the bodies of Base say.                   *)
EXTENDS Numbers

Leaves == {PackedNat(n) : n \in 0..MaxNat} \cup {NatZero, Looping}
Layer(xs) == {NatPrefix(n, x) : n \in {1, 2, MaxNat}, x \in xs} \cup {NatSucc(x) : x \in xs}
Naturals == Leaves \cup Layer(Leaves)
Deep == Layer(Layer(Leaves))
NestedCalls ==
    {Operation("double", <<x>>) : x \in Layer({Looping, PackedNat(1), NatZero})}
    \cup {Operation(op, <<x, y>>) : op \in {"add", "mul", "sub"},
            x \in {PackedNat(2), NatSucc(Looping)}, y \in Layer({Looping, NatZero})}

(* Words whose bits are packed from some bit on, or from nowhere.          *)
Bit(b) == Con(IF b = 1 THEN "True" ELSE "False", <<>>)
RECURSIVE Word(_, _, _), WordBits(_)
Word(bits, width, known) ==
    IF known = 0 THEN PackedBits(bits, width)
    ELSE IF width = 0 THEN Con("WNil", <<>>)
    ELSE Con("WCon", <<Bit(bits % 2), Word(bits \div 2, width - 1, known - 1)>>)
Words(wrapper) ==
    {PackedWord(wrapper, b) : b \in 0..(2^Width - 1)}
    \cup {Con(wrapper, <<Word(b, Width, k)>>) : b \in 0..(2^Width - 1), k \in 0..(Width + 1)}
    \cup {Con(wrapper, <<Con("WCon", <<x, y>>)>>) :
            x \in {Looping, Bit(1)}, y \in {Looping, PackedBits(1, Width - 1)}}

Task(strict, e) == [strict |-> strict, expression |-> e]
NatTasks == {
    {Task(FALSE, Operation(op, <<x, y>>)) : op \in NatBinary, x \in Naturals, y \in Naturals},
    {Task(FALSE, Operation(op, <<x>>)) : op \in {"double", "show", "to_u32", "array"},
        x \in Naturals \cup Deep \cup NestedCalls},
    {Task(FALSE, Operation(op, <<x, y>>)) : op \in NatBinary, x \in NestedCalls, y \in Leaves},
    {Task(TRUE, Operation(op, <<PackedNat(x), PackedNat(y)>>)) : op \in NatBinary,
        x \in 0..MaxNat, y \in 0..MaxNat},
    {Task(TRUE, Operation(op, <<PackedNat(x)>>)) : op \in {"double", "show", "to_u32"}, x \in 0..MaxNat},
    {Task(FALSE, Operation("from_u32", <<x>>)) : x \in Words("U32")}}
WordTasks == {
    {Task(FALSE, Operation(op, <<x, y>>)) : op \in WordBinary, x \in Words("U32"),
        y \in {PackedWord("U32", b) : b \in 0..(2^Width - 1)}},
    {Task(FALSE, Operation(op, <<x>>)) : op \in WordUnary, x \in Words("U32")},
    {Task(FALSE, Operation(op, <<x>>)) : op \in {"neg", "abs", "bits"}, x \in Words("F32")},
    {Task(FALSE, Operation("lt", <<x, y>>)) : x \in Words("F32"), y \in Words("F32")}}

(* Texts: hexadecimal ones around every rounding boundary of the format,   *)
(* and short decimal ones.                                                 *)
Strings(alphabet, n) == UNION {[1..k -> alphabet] : k \in 0..n}
Exponents ==
    {<<>>} \cup {<<LetterP>> \o x : x \in {<<>>, <<Minus>>, <<Plus, 0>>, <<3>>, <<1, 2>>, <<9, 9, 9>>,
        <<Minus, 2>>, <<Minus, 6>>, <<Minus, 9>>, <<Minus, 1, 2>>, <<Minus, 9, 9, 9>>}}
Texts ==
    UNION {
        {<<0, LetterX>> \o m \o x : m \in Strings({0, 1, 3, 9, 15, Point}, 3), x \in Exponents},
        {s \o t : s \in {<<>>, <<Minus>>, <<Space, Plus>>}, t \in Strings({0, 7, Point, LetterE, Minus}, 4)},
        {<<Minus, InfWord>>, <<NanWord>>, <<Nul>>, <<1, Nul, LetterX>>, <<0, LetterX, Nul>>}}

TextTasks == {
    {Task(FALSE, Quantity("Text", "", 0, [k \in DOMAIN t |-> Char(t[k])])) : t \in Texts},
    {Task(FALSE, Quantity("Float", "", b, <<>>)) : b \in 0..(Infinity - 1)}}

MCEMin == -2
MCShowFrom == -1
MCTasks == NatTasks \cup WordTasks \cup TextTasks
-----------------------------------------------------------------------------
(* A task has been evaluated: there is one, and it is no longer open.      *)
Settled == ending \notin {"none", "open"}

(* What an expression means: so many successors, and then Zero, a loop, or *)
(* another value that the body of Base answers.                            *)
RECURSIVE Meaning(_)
Means(n, end) == [n |-> n, end |-> end]
MeaningOf(op, m) ==
    LET a == m[1]
        b == m[2]
        less == a.n < b.n
        more == a.n > b.n
        (* the first end that the pairwise descent meets *)
        meet == CASE less -> a.end
                  [] more -> b.end
                  [] OTHER -> IF a.end = "loop" \/ b.end = "loop" THEN "loop" ELSE "zero"
    IN  CASE op = "double" -> Means(2 * a.n, a.end)
          [] op = "add" -> IF a.end = "loop" THEN a ELSE Means(a.n + b.n, b.end)
          [] op = "mul" -> IF a.n = 0 THEN a
                           ELSE IF b.end = "loop" THEN b ELSE Means(a.n * b.n, a.end)
          [] op = "sub" -> IF meet = "loop" THEN Means(0, "loop")
                           ELSE IF more THEN Means(a.n - b.n, a.end) ELSE Means(0, "zero")
          [] op = "cmp" -> Means(0, CASE meet = "loop" -> "loop" [] less -> "LT" [] more -> "GT" [] OTHER -> "EQ")
          [] op = "show" -> IF a.end = "loop" THEN Means(0, "loop") ELSE Means(a.n, "text")
          [] op = "to_u32" -> IF a.end = "loop" THEN Means(0, "loop") ELSE Means(a.n % 2^Width, "word")
          [] op = "array" -> IF a.n > MaxDepth THEN Means(0, "depth")
                             ELSE Means(0, IF a.end = "loop" THEN "loop" ELSE IF a.n = 0 THEN "ALeaf" ELSE "ANode")
Meaning(x) ==
    CASE x.tag = "PackedNat" -> Means(x.n, "zero")
      [] x.tag = "NatPrefix" -> LET t == Meaning(x.kids[1]) IN [t EXCEPT !.n = @ + x.n]
      [] x.tag = "Con" -> IF x.name = "Zero" THEN Means(0, "zero")
                          ELSE LET t == Meaning(x.kids[1]) IN [t EXCEPT !.n = @ + 1]
      [] x.tag = "Call" -> MeaningOf(x.name, [k \in DOMAIN x.kids |-> Meaning(x.kids[k])])
      [] OTHER -> Means(0, "loop")

OnNat == task.expression.tag = "Call" /\ task.expression.name \in NatOps \ {"from_u32"}
Observed ==
    CASE ending = "loop" -> Means(seen, "loop")
      [] ending = "depth" -> Means(0, "depth")
      [] focus.tag = "PackedNat" \/ focus.name = "Zero" -> Means(seen, "zero")
      [] focus.tag = "PackedWord" -> Means(focus.n, "word")
      [] focus.name = "text" -> Means(focus.n, "text")
      [] OTHER -> Means(seen, focus.name)

RECURSIVE Past(_)
Past(x) == Meaning(x).n > MaxNat \/ \E k \in DOMAIN x.kids : Past(x.kids[k])

(* A native operation on naturals answers what the body of Base says, down *)
(* to the successor at which a lazy tail loops, in every representation;   *)
(* it reports an overflow only for a number past the largest one, and      *)
(* Array.new refuses exactly the depths past the deepest class (nat.rs).   *)
NatRight ==
    Settled /\ OnNat =>
        IF ending = "overflow" THEN Past(task.expression)
        ELSE Observed = Meaning(task.expression)

LoopBit == 2

(* The bits of a lazy word, or a loop.                                     *)
WordBits(w) ==
    CASE w.tag = "PackedWord" -> [k \in 1..Width |-> (w.n \div 2^(k - 1)) % 2]
      [] w.tag = "PackedBits" -> [k \in 1..WidthOf(w) |-> (w.n \div 2^(k - 1)) % 2]
      [] w.tag = "Loop" -> <<LoopBit>>
      [] w.name = "WNil" -> <<>>
      [] w.name = "WCon" -> <<IF w.kids[1].name = "True" THEN 1 ELSE IF w.kids[1].tag = "Loop" THEN LoopBit ELSE 0>>
                            \o WordBits(w.kids[2])
      [] OTHER -> WordBits(w.kids[1])
Number(bits) == FoldFunctionOnSet(LAMBDA x, n : x + n, 0, [k \in DOMAIN bits |-> bits[k] * 2^(k - 1)], DOMAIN bits)
Bits(n) == [k \in 1..Width |-> (n \div 2^(k - 1)) % 2]

(* The bodies of Base on lists of bits, least significant bit first.       *)
Adc(a, b, flip, carry) ==
    LET step(s, k) ==
            LET y == IF flip THEN 1 - b[k] ELSE b[k]
                t == a[k] + y + s.carry
            IN  [bits |-> Append(s.bits, t % 2), carry |-> t \div 2]
    IN  FoldLeft(step, [bits |-> <<>>, carry |-> carry], [k \in 1..Width |-> k]).bits
ZeroWord == [k \in 1..Width |-> 0]
Shl(a) == <<0>> \o Front(a)
MulGo(a, b) ==
    FoldLeft(LAMBDA s, k : [b |-> Shl(s.b), acc |-> IF a[k] = 1 THEN Adc(s.acc, s.b, FALSE, 0) ELSE s.acc],
             [b |-> b, acc |-> ZeroWord], [k \in 1..Width |-> k]).acc
DivmodGo(a, b) ==
    LET step(s, j) ==
            LET k == Width + 1 - j
                out == Last(s.r)
                r == <<a[k]>> \o Front(s.r)
                fits == out = 1 \/ Number(r) >= Number(b)
            IN  [q |-> <<IF fits THEN 1 ELSE 0>> \o s.q, r |-> IF fits THEN Adc(r, b, TRUE, 1) ELSE r]
    IN  FoldLeft(step, [q |-> <<>>, r |-> ZeroWord], [k \in 1..Width |-> k])
BaseWord(op, a, b) ==
    CASE op = "inc" -> Adc(a, ZeroWord, FALSE, 1)
      [] op = "plus" -> Adc(a, b, FALSE, 0)
      [] op = "minus" -> Adc(a, b, TRUE, 1)
      [] op = "times" -> MulGo(a, b)
      [] op = "shl" -> Shl(a)
      [] op = "shr" -> Append(Tail(a), 0)
      [] op = "and" -> [k \in 1..Width |-> a[k] * b[k]]
      [] op = "div" -> IF b = ZeroWord THEN ZeroWord ELSE DivmodGo(a, b).q
      [] op = "mod" -> IF b = ZeroWord THEN a ELSE DivmodGo(a, b).r

WordArgs == [k \in DOMAIN task.expression.kids |-> WordBits(task.expression.kids[k])]
Loops == \E k \in DOMAIN WordArgs : LoopBit \in Range(WordArgs[k])
OnWords == task.expression.tag = "Call" /\ task.expression.name \notin NatOps \ {"from_u32"}

(* A word operation computes what the body of Base does bit by bit, an     *)
(* intrinsic sees exactly the bits of its arguments whatever part of them  *)
(* is packed, and no argument of the right type is refused (numeric.rs,    *)
(* packed.rs).                                                             *)
WordRight ==
    Settled /\ OnWords =>
        LET op == task.expression.name
            a == WordArgs[1]
            b == IF Len(WordArgs) = 2 THEN WordArgs[2] ELSE ZeroWord
        IN  CASE ending = "body" -> \E k \in DOMAIN WordArgs : task.expression.kids[k].tag # "PackedWord"
              [] Loops -> ending = "loop"
              [] op \in Optimized -> focus = PackedWord("U32", Number(BaseWord(op, a, b)))
              [] op = "from_u32" -> ending = "value" /\ seen = Number(a)
              [] op = "neg" -> focus.n = Number([a EXCEPT ![Width] = 1 - @])
              [] op = "abs" -> focus.n = Number([a EXCEPT ![Width] = 0])
              [] op = "bits" -> focus = PackedWord("U32", Number(a))
              [] OTHER -> focus.kids = <<PackedWord("F32", Number(a)), PackedWord("F32", Number(b))>>

(* A hexadecimal text by its exact value.                                  *)
HexValue(text) ==
    LET m == SelectSeq(After(text, 2), LAMBDA c : c # Point)
        stops == {k \in DOMAIN m : m[k] = LetterP}
        digits == IF stops = {} THEN m ELSE SubSeq(m, 1, Min(stops) - 1)
        points == {k \in DOMAIN text : text[k] = Point}
        fraction == IF points = {} THEN 0 ELSE Len(digits) + 3 - Min(points)
        number == FoldLeft(LAMBDA n, d : 16 * n + d, 0, digits)
        exponent == IF stops = {} THEN 0 ELSE BinaryExponent(After(m, Min(stops)))
        e == Max({-20, Min({6, exponent - 4 * fraction})})
    IN  Nearest(number * Pow2(Max({0, e})), Pow2(Max({0, -e})))

(* A text that is read is rounded to the nearest float, ties to even, also *)
(* among subnormal numbers and at the edge of overflow, however many       *)
(* digits it has; and what `show' writes reads back as the number it was,  *)
(* with no digit to spare (numeric_text.rs).                               *)
Denotes(t) == NearestDecimal(t.digits, t.exponent - t.point)
TextRight ==
    Settled /\ focus.tag = "Answer" =>
        LET text == [k \in DOMAIN task.expression.kids |-> task.expression.kids[k].n]
            shown == focus.kids[1]
        IN  IF focus.name = "Float"
            THEN /\ Denotes(shown) = focus.n
                 /\ shown.form # "padded" => \A d \in 1..9 : shown.digits # 10 * d
            ELSE focus.n # Unread /\ Len(text) >= 2 /\ SubSeq(text, 1, 2) = <<0, LetterX>>
                 => focus.n = HexValue(text)

(* Naturals, words and texts: whatever the representation, a native        *)
(* operation answers what its definition in Base says.                     *)
NumbersRight == NatRight /\ WordRight /\ TextRight
=============================================================================
