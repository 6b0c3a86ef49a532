---------------------------- MODULE NumericText ----------------------------
(***************************************************************************)
(* Text of floating point numbers (runtime/numeric_text.rs): `read' and    *)
(* `show', for a binary format of any size.  A text is a sequence of       *)
(* characters: 0..15 are the digits, 14 also the `e' of an exponent, and   *)
(* the others have names below.  The functions are pure, so the module has *)
(* no state.  Rounding of decimals is the Rust library's: it is modelled   *)
(* by what it promises, the nearest float.                                 *)
(***************************************************************************)
EXTENDS Integers, Sequences, FiniteSets, SequencesExt, FiniteSetsExt

CONSTANTS
    Precision,      \* significant bits (24)
    EMin, EMax,     \* exponents of normal numbers (-126, 127)
    PrefixBits,     \* bits kept of a hexadecimal significand (32)
    DecimalCap,     \* powers of ten that leave something to round (45)
    ExponentCap,    \* where an exponent saturates (1_000_000_000)
    ShowDigits,     \* digits after the first that are tried (8)
    ShowFrom, ShowTo  \* exponents written without `e': ShowFrom..ShowTo-1 (-6, 21)

ASSUME FormatAssumption ==
    /\ Precision \in 2..24 /\ EMin \in -126..0 /\ EMax \in 0..127
    /\ PrefixBits > Precision /\ {DecimalCap, ExponentCap} \subseteq Nat /\ ShowFrom < ShowTo

Point == 16
Plus == 17
Minus == 18
LetterE == 14
LetterP == 19
LetterX == 20
Nul == 21
Space == 22
InfWord == 23       \* the spellings of infinity
NanWord == 24       \* the spellings of a number that is none

Pow2(n) == 2^n
FractionBits == Precision - 1

(* The bits of a float: an exponent field above the fraction.              *)
Infinity == (EMax - EMin + 2) * Pow2(FractionBits)
SignBit == 2 * Infinity
Field(bits) == bits \div Pow2(FractionBits)

(* The float nearest to n/d, ties to even: how the Rust library rounds.    *)
(* Every float is a whole number of units of 1/2^Scale.                    *)
Scale == FractionBits - EMin
Units(bits) ==
    LET fraction == bits % Pow2(FractionBits)
    IN  IF Field(bits) = 0 THEN fraction
        ELSE (Pow2(FractionBits) + fraction) * Pow2(Field(bits) - 1)
Nearest(n, d) ==
    LET gap(b) == IF Units(b) * d > n * Pow2(Scale) THEN Units(b) * d - n * Pow2(Scale)
                  ELSE n * Pow2(Scale) - Units(b) * d
    IN  CHOOSE b \in 0..Infinity : \A c \in 0..Infinity \ {b} :
            gap(b) < gap(c) \/ (gap(b) = gap(c) /\ b % 2 = 0)
Pow10(n) == IF n > 0 THEN 10^n ELSE 1
(* Powers beyond DecimalCap leave nothing to round: zero or infinity.      *)
NearestDecimal(digits, exponent) ==
    CASE digits = 0 \/ exponent < -DecimalCap -> 0
      [] exponent > DecimalCap -> Infinity
      [] OTHER -> Nearest(digits * Pow10(exponent), Pow10(-exponent))
AtLeast(v, x) == Units(v) * Pow10(-x) >= Pow2(Scale) * Pow10(x)
HalfEven(n, d) ==
    LET f == n \div d
        r == n % d
    IN  IF 2 * r > d \/ (2 * r = d /\ f % 2 = 1) THEN f + 1 ELSE f

Unread == -1
Digit(c) == c \in 0..9
HexDigit(c) == c \in 0..15

(* The longest prefix of digits, and what is left after it.                *)
DigitsOf(text) ==
    LET stops == {k \in DOMAIN text : ~Digit(text[k])}
    IN  SubSeq(text, 1, IF stops = {} THEN Len(text) ELSE Min(stops) - 1)
After(text, n) == SubSeq(text, n + 1, Len(text))

(* decimal: digits around at most one point, then an optional exponent;    *)
(* the library rounds the number they write.                               *)
DecimalParts(text) ==
    LET whole == DigitsOf(text)
        rest == After(text, Len(whole))
        pointed == rest # <<>> /\ Head(rest) = Point
        fraction == IF pointed THEN DigitsOf(Tail(rest)) ELSE <<>>
        tail == IF pointed THEN After(Tail(rest), Len(fraction)) ELSE rest
        signed == IF Len(tail) > 1 /\ tail[2] \in {Plus, Minus} THEN 2 ELSE 1
        exponent == DigitsOf(After(tail, signed))
        number(ds) == FoldLeft(LAMBDA n, d : n * 10 + d, 0, ds)
        power == IF tail = <<>> THEN 0 ELSE IF tail[signed] = Minus THEN -number(exponent) ELSE number(exponent)
    IN  [ok |-> /\ whole \o fraction # <<>>
                /\ \/ tail = <<>>
                   \/ Head(tail) = LetterE /\ exponent # <<>> /\ Len(tail) = signed + Len(exponent),
         digits |-> number(whole \o fraction), exponent |-> power - Len(fraction)]

NoExponent == ExponentCap + 1

(* binary_exponent: digits after an optional sign, saturating.             *)
BinaryExponent(text) ==
    LET negative == text # <<>> /\ Head(text) = Minus
        digits == IF text # <<>> /\ Head(text) \in {Plus, Minus} THEN Tail(text) ELSE text
        value == FoldLeft(LAMBDA n, d : Min({n * 10 + d, ExponentCap}), 0, digits)
    IN  IF digits = <<>> \/ \E k \in DOMAIN digits : ~Digit(digits[k]) THEN NoExponent
        ELSE IF negative THEN -value ELSE value

(* The significand of a hexadecimal text, bit by bit: the first PrefixBits *)
(* bits from its highest one, how many there are, and whether a later one  *)
(* is set.                                                                 *)
Significand(digits) ==
    LET bits == FlattenSeq([k \in DOMAIN digits |->
                    [j \in 1..4 |-> (digits[k] \div Pow2(4 - j)) % 2]])
        take(s, bit) ==
            IF s.count = 0 /\ bit = 0 THEN s
            ELSE IF s.count < PrefixBits
            THEN [s EXCEPT !.count = @ + 1, !.prefix = 2 * @ + bit]
            ELSE [s EXCEPT !.count = @ + 1, !.sticky = @ \/ bit = 1]
    IN  FoldLeft(take, [prefix |-> 0, count |-> 0, sticky |-> FALSE], bits)

(* Round to `kept' bits, to the nearest, ties to even.                     *)
RoundTies(s, kept) ==
    LET discarded == Min({s.count, PrefixBits}) - kept
        integer == s.prefix \div Pow2(discarded)
        guard == (s.prefix \div Pow2(discarded - 1)) % 2
        lower == s.prefix % Pow2(discarded - 1) # 0 \/ s.sticky
    IN  integer + IF guard = 1 /\ (lower \/ integer % 2 = 1) THEN 1 ELSE 0

Rounded(s, kept) == IF s.count <= kept THEN s.prefix * Pow2(kept - s.count) ELSE RoundTies(s, kept)

(* The float of a significand whose highest bit has this weight.           *)
Assemble(s, highest) ==
    LET kept == IF highest >= EMin THEN Precision ELSE highest - EMin + Precision
        rounded == Rounded(s, kept)
        carried == rounded = Pow2(Precision)
        exponent == IF carried THEN highest + 1 ELSE highest
        significand == IF carried THEN rounded \div 2 ELSE rounded
    IN  CASE highest > EMax -> Infinity
          [] highest < EMin - Precision -> 0
          [] highest < EMin -> rounded
          [] exponent > EMax -> Infinity
          [] OTHER -> (exponent - EMin + 1) * Pow2(FractionBits) + (significand % Pow2(FractionBits))

Hexadecimal(text) ==
    LET stops == {k \in DOMAIN text : text[k] = LetterP}
        mantissa == IF stops = {} THEN text ELSE SubSeq(text, 1, Min(stops) - 1)
        points == {k \in DOMAIN mantissa : mantissa[k] = Point}
        digits == SelectSeq(mantissa, LAMBDA c : c # Point)
        fractional == IF points = {} THEN 0 ELSE Len(mantissa) - Min(points)
        exponent == IF stops = {} THEN 0 ELSE BinaryExponent(After(text, Min(stops)))
        s == Significand(digits)
    IN  IF \/ Cardinality(points) > 1 \/ digits = <<>>
           \/ \E k \in DOMAIN digits : ~HexDigit(digits[k])
           \/ exponent = NoExponent THEN Unread
        ELSE IF s.count = 0 THEN 0
        ELSE Assemble(s, exponent - 4 * fractional + s.count - 1)

(* read: the text before the first NUL, white space, a sign, then one of   *)
(* the spellings.  A text that begins with NUL reads as zero.              *)
Read(text) ==
    LET nuls == {k \in DOMAIN text : text[k] = Nul}
        prefix == IF nuls = {} THEN text ELSE SubSeq(text, 1, Min(nuls) - 1)
        solid == {k \in DOMAIN prefix : prefix[k] # Space}
        number == IF solid = {} THEN <<>> ELSE After(prefix, Min(solid) - 1)
        signed == number # <<>> /\ Head(number) \in {Plus, Minus}
        unsigned == IF signed THEN Tail(number) ELSE number
        sign == IF signed /\ Head(number) = Minus THEN SignBit ELSE 0
        hex == Hexadecimal(After(unsigned, 2))
        decimal == DecimalParts(unsigned)
    IN  CASE text = <<>> -> Unread
          [] prefix = <<>> -> 0
          [] unsigned = <<InfWord>> -> sign + Infinity
          [] unsigned = <<NanWord>> -> sign + Infinity + Pow2(FractionBits - 1)
          [] Len(unsigned) >= 2 /\ SubSeq(unsigned, 1, 2) = <<0, LetterX>> ->
               IF hex = Unread THEN Unread ELSE sign + hex
          [] decimal.ok -> sign + NearestDecimal(decimal.digits, decimal.exponent)
          [] OTHER -> Unread
-----------------------------------------------------------------------------
(* show: the fewest significant digits that read back as the same number,  *)
(* laid out with an exponent, with trailing zeros, or with a point.        *)
(* Scientific: the nearest decimal with p + 1 digits, as the library       *)
(* formats it; Fixed: with n digits after the point.                       *)
Scientific(v, p) ==
    LET x == CHOOSE x \in -DecimalCap..DecimalCap : AtLeast(v, x) /\ ~AtLeast(v, x + 1)
        d == HalfEven(Units(v) * Pow10(p - x), Pow2(Scale) * Pow10(x - p))
    IN  IF d = 10^(p + 1) THEN [digits |-> 10^p, exponent |-> x + 1] ELSE [digits |-> d, exponent |-> x]
Fixed(v, n) == HalfEven(Units(v) * Pow10(n), Pow2(Scale))

Text(form, digits, point, exponent) ==
    [form |-> form, digits |-> digits, point |-> point, exponent |-> exponent]
Layout(v, d, precision) ==
    CASE d.exponent \notin ShowFrom..(ShowTo - 1) -> Text("e", d.digits, precision, d.exponent)
      [] d.exponent > precision -> Text("padded", d.digits * 10^(d.exponent - precision), 0, 0)
      [] OTHER -> Text("fixed", Fixed(v, precision - d.exponent), precision - d.exponent, 0)

Same(d, p, v) == NearestDecimal(d.digits, d.exponent - p) = v
Show(v) ==
    LET enough == {p \in 0..ShowDigits : Same(Scientific(v, p), p, v)}
        p == Min(enough)
    IN  IF v = 0 THEN Text("fixed", 0, 0, 0) ELSE Layout(v, Scientific(v, p), p)
=============================================================================
