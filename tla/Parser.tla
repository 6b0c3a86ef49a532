------------------------------- MODULE Parser -------------------------------
(***************************************************************************)
(* The parser of src/syntax/parser.rs: tokens in, declarations of a book   *)
(* out.  A parser state p holds what Parser holds; every operator takes    *)
(* one and gives the one after it, with what was parsed in p.out.  A state *)
(* with an error passes through every operator unchanged, as ? does.       *)
(*                                                                         *)
(* A token is [t, name, val, line, col, glue]: its text (or "name", "nat", *)
(* "word", "float", "text" and "char" with a payload), where it stands and *)
(* whether it follows the token before it with nothing between them.       *)
(* Locations in messages, display numbers and the optional diagnostics are *)
(* left out.                                                               *)
(***************************************************************************)
EXTENDS Syntax

CONSTANTS MaxDepth,       \* 64 nested expressions, bodies and do blocks
          MaxSpine,       \* 256 operations in one expression
          MaxList,        \* 128 binders, arguments, imports; Nat literals
          MaxTermDepth,   \* 256
          MaxInstances,   \* MAX_SPECIALIZATIONS
          MaxActive       \* MAX_SPECIALIZATION_DEPTH

Keywords == {"def", "type", "law", "match", "case", "do", "return", "for", "exs", "where", "is", "import",
             "Type", "Data", "Kind", "Quant"}

NewParser(tokens, namespace, aliases, origin, book, templates, fresh, foreign) ==
    [tokens |-> tokens, at |-> 1, ns |-> namespace, aliases |-> aliases, origin |-> origin,
     scope |-> <<>>, fresh |-> fresh, book |-> book, depth |-> 0, reusable |-> <<>>, markers |-> {},
     templates |-> templates, instance |-> <<>>, args |-> <<>>, compile |-> <<>>, foreign |-> foreign,
     err |-> "", out |-> <<>>]

Failed(p) == p.err # ""
Fail(p, why) == IF Failed(p) THEN p ELSE [p EXCEPT !.err = why]
Return(p, value) == IF Failed(p) THEN p ELSE [p EXCEPT !.out = value]
Tok(p) == p.tokens[p.at]
Is(p, s) == ~Failed(p) /\ Tok(p).t = s
Bump(p) == IF Failed(p) \/ Tok(p).t = "" THEN p ELSE [p EXCEPT !.at = @ + 1]
Alphabetic(token) == token.t = "name" \/ token.t \in Keywords
SameLine(p) == p.at > 1 /\ p.tokens[p.at - 1].line = Tok(p).line
Following(p) == IF p.at < Len(p.tokens) THEN p.tokens[p.at + 1] ELSE [Tok(p) EXCEPT !.t = "", !.glue = FALSE]

(* take: a closing > may have to be split off a >>.                        *)
Sees(p, s) == Is(p, s) \/ (s = ">" /\ Is(p, ">>"))
Took(p, s) ==
    IF Tok(p).t = s THEN Bump(p)
    ELSE LET one == [Tok(p) EXCEPT !.t = ">"]
         IN  [p EXCEPT !.tokens = InsertAt(ReplaceAt(@, p.at, one), p.at + 1, [one EXCEPT !.col = @ + 1, !.glue = TRUE]),
                       !.at = @ + 1]
Skip(p, s) == IF Sees(p, s) THEN Took(p, s) ELSE p
Expect(p, s) == IF Sees(p, s) THEN Took(p, s) ELSE Fail(p, "expected")
Name(p) == IF Is(p, "name") THEN Return(Bump(p), Tok(p).name) ELSE Fail(p, "name")

(* after_prefix: the rest of a ++ is read as + and the token put back.     *)
Unprefixed(p) == IF Tok(p).t = "+" THEN Bump(p) ELSE [p EXCEPT !.tokens[p.at] = [@ EXCEPT !.t = "+", !.col = @ + 1]]
Restored(p, parsed) == IF Failed(parsed) THEN parsed ELSE [parsed EXCEPT !.tokens[p.at] = Tok(p)]
Prefixed(p) == ~Failed(p) /\ Tok(p).t \in {"+", "++"}

(* Scopes.  The variable that Open makes is numbered p.fresh.              *)
Open(p, name) ==
    IF Failed(p) THEN p
    ELSE [p EXCEPT !.fresh = @ + 1, !.scope = IF name = <<"_">> THEN @ ELSE Append(@, [n |-> name, id |-> p.fresh])]
BindVariable(p, name, reusable) ==
    LET opened == Open(p, name)
    IN  IF Failed(p) \/ ~reusable THEN opened
        ELSE [Open(opened, name) EXCEPT !.reusable = Append(@, [id |-> opened.fresh, value |-> Var(name, p.fresh)])]
Leave(p, inner) == [inner EXCEPT !.scope = p.scope]
Declares(d, name) == d.n = name
DeclaresConstructor(d, name) == d.k = "Adt" /\ \E i \in DOMAIN d.cs : d.cs[i].n = name
Known(p, name) ==
    \/ name \in DOMAIN p.templates.declarations
    \/ \E i \in DOMAIN p.book : Declares(p.book[i], name) \/ DeclaresConstructor(p.book[i], name)
Qualify(p, name) == p.ns \o name
Resolve(p, name) ==
    LET q == IF Len(name) > 1 /\ name[1] \in DOMAIN p.aliases
             THEN p.aliases[name[1]] \o Tail(name) ELSE Qualify(p, name)
    IN  IF Known(p, q) THEN q ELSE name
Variable(p, name) ==
    LET at == SelectLastInSeq(p.scope, LAMBDA v : v.n = name)
    IN  IF at = 0 THEN Ref(Resolve(p, name))
        ELSE IF p.scope[at].id \in DOMAIN p.compile THEN p.compile[p.scope[at].id]
        ELSE Var(name, p.scope[at].id)
IsCompileBinding(p, value) == value.own # 0 /\ value.own \in DOMAIN p.compile
IsReusable(p, value) == value.k = "Var" /\ value.v \in p.markers

MarkOf(p) == CASE Is(p, "-") -> "None" [] Is(p, "+") -> "Many" [] OTHER -> "Lone"
Marked(p) == IF MarkOf(p) = "Lone" THEN p ELSE Bump(p)

Operators ==
    ("&" :> <<1, TRUE, <<"Pair">>>>) @@ ("|" :> <<1, TRUE, <<"Or">>>>)
    @@ ("||" :> <<2, FALSE, <<"Bool", "or">>>>) @@ ("&&" :> <<3, FALSE, <<"Bool", "and">>>>)
    @@ ("<=" :> <<4, FALSE, <<"", "is_le">>>>) @@ (">=" :> <<4, FALSE, <<"", "is_ge">>>>) @@ (">" :> <<4, FALSE, <<"", "is_gt">>>>)
    @@ ("<>" :> <<5, TRUE, <<>>>>) @@ ("<&>" :> <<5, TRUE, <<>>>>) @@ ("++" :> <<5, TRUE, <<"String", "append">>>>)
    @@ (".|." :> <<6, FALSE, <<"", "or">>>>) @@ (".^." :> <<7, FALSE, <<"", "xor">>>>) @@ (".&." :> <<8, FALSE, <<"", "and">>>>)
    @@ ("<<" :> <<9, FALSE, <<"", "shln">>>>) @@ (">>" :> <<9, FALSE, <<"", "shrn">>>>)
    @@ ("+" :> <<10, FALSE, <<"", "add">>>>) @@ ("-" :> <<10, FALSE, <<"", "sub">>>>)
    @@ ("*" :> <<11, FALSE, <<"", "mul">>>>) @@ ("/" :> <<11, FALSE, <<"", "div">>>>) @@ ("%" :> <<11, FALSE, <<"", "mod">>>>)
Precedence(op) == Operators[op][1]
\* Mutant: every operator is right associative.
RightLevelTaken(op) == Precedence(op)
RightLevel(op) == IF Operators[op][2] THEN Precedence(op) ELSE Precedence(op) + 1

(* Whether the token continues an expression: the level must allow it, and *)
(* spaces tell closing brackets, signs and rewrites from operators.        *)
Continues(p, min) ==
    /\ Tok(p).t \in DOMAIN Operators
    /\ Precedence(Tok(p).t) >= min
    /\ ~(Tok(p).t \in {">", ">=", ">>"} /\ Tok(p).glue)
    /\ ~(Tok(p).t \in {"+", "-"} /\ Following(p).glue /\ Alphabetic(Following(p)))
    /\ ~(Tok(p).t = "%" /\ Following(p).glue)

DatatypeOf(p, name) == SelectInSeq(p.book, LAMBDA d : d.k = "Adt" /\ d.n = name)
Quantities(d) == SelectInSeq(Append(d.ps, [ty |-> Ref(<<>>)]), LAMBDA b : b.ty # Qnt) - 1

RECURSIVE Expression(_, _), Spine(_, _, _), Atom(_), Arguments(_, _, _), Call(_), CompileArguments(_, _),
          Specialize(_, _, _), Telescope(_, _, _), Body(_, _), Rows(_, _, _, _), TermsBeforeColon(_, _),
          MorePatterns(_, _), Values(_, _, _), Pattern(_, _), Patterns(_, _, _), Arms(_, _, _), TupleRest(_, _),
          DoStatement(_, _, _, _, _), Definition(_, _)
(* Expressions: an atom, then calls, indices, type arguments, lambdas,     *)
(* arrows and operators of at least the level min.                         *)
Expression(p, min) ==
    IF Failed(p) THEN p
    ELSE IF p.depth >= MaxDepth THEN Fail(p, "limit")
    ELSE LET r == Spine(Atom([p EXCEPT !.depth = @ + 1]), min, 1)
         IN  IF Failed(r) THEN r
             ELSE IF ~WithinTermDepth(r.out, MaxTermDepth) THEN Fail(r, "limit")
             ELSE [r EXCEPT !.depth = p.depth]

Arguments(p, close, xs) ==
    IF Failed(p) THEN p
    ELSE IF Sees(p, close) THEN Return(Took(p, close), xs)
    ELSE IF Len(xs) >= MaxList THEN Fail(p, "limit")
    ELSE LET x == Expression(p, 0) IN IF Failed(x) THEN x ELSE Arguments(Skip(x, ","), close, Append(xs, x.out))

Offload(p) ==
    IF ~(Following(p).t = "(" /\ Following(p).glue) \/ p.out.k \notin {"Ref", "GpuRef"} THEN Fail(p, "gpu mark")
    ELSE Return(Bump(p), [p.out EXCEPT !.k = "GpuRef", !.own = 0])

Index(p) ==
    LET array == p.out
        i == Expression(p, 0)
        closed == Expect(i, "]")
        value == Expression(Bump(closed), 2)
        at == <<Ref(<<"U32">>), array, QualifyOperators(i.out, <<"U32">>)>>
    IN  IF Is(closed, "<-") THEN Return(value, Named(<<"Array", "set">>, Append(at, value.out)))
        ELSE Return(closed, Named(<<"Array", "get">>, at))

(* f<A, B> and a < b: what follows the first operand tells.  Quantities    *)
(* that are left out are Lone.                                             *)
Angle(p) ==
    LET first == Expression(Bump(p), 5)
        name == Resolve(first, p.out.n)
        rest == Arguments(Expect(first, ","), ">", <<>>)
        args == IF Sees(first, ">") THEN Return(Took(first, ">"), <<first.out>>)
                ELSE Return(rest, <<first.out>> \o rest.out)
        at == DatatypeOf(args, name)
        lone == IF at # 0 /\ Len(args.out) + Quantities(args.book[at]) = Len(args.book[at].ps)
                THEN [i \in 1 .. Quantities(args.book[at]) |-> Qua("Lone")] ELSE <<>>
    IN  IF Failed(first) THEN first
        ELSE IF Tok(first).t \notin {">", ">>", ","} THEN Return(first, Named(<<"", "is_lt">>, <<p.out, first.out>>))
        ELSE IF p.out.k \notin {"Ref", "GpuRef", "Var"} THEN Fail(first, "type arguments")
        ELSE Return(args, Adt(name, lone \o args.out))

Lambda(p) ==
    LET bound == BindVariable(Bump(p), p.out.n, IsReusable(p, p.out))
        body == Body(bound, Tok(bound).col - 1)
    IN  IF IsCompileBinding(p, p.out) \/ p.out.k \notin {"Ref", "Var"} THEN Fail(p, "lambda binder")
        ELSE Leave(p, Return(body, Lam(p.fresh, body.out)))

Arrow(p) ==
    LET body == Expression(Bump(p), 0)
    IN  Return(Open(body, <<"_">>), All("Lone", body.fresh, p.out, body.out))

Infix(p) ==
    LET op == Tok(p).t
        right == Expression(Bump(p), RightLevel(op))
        both == <<p.out, right.out>>
    IN  Return(right, CASE op = "<&>" -> Plain("Min", <<>>, both)
                        [] op = "<>" -> Ctr(<<"Con">>, both)
                        [] OTHER -> Named(Operators[op][3], both))

Spine(p, min, n) ==
    IF Failed(p) THEN p
    ELSE IF n > MaxSpine THEN Fail(p, "limit")
    ELSE CASE Is(p, "!") -> Spine(Offload(p), min, n + 1)
           [] Is(p, "(") /\ SameLine(p) -> Spine(Call(Bump(p)), min, n + 1)
           [] Is(p, "[") /\ SameLine(p) -> Spine(Index(Bump(p)), min, n + 1)
           [] Is(p, "<") /\ (min <= 4 \/ Tok(p).glue) -> Spine(Angle(p), min, n + 1)
           [] Is(p, "=>") /\ min = 0 -> Spine(Lambda(p), min, n + 1)
           [] Is(p, "->") /\ min = 0 -> Spine(Arrow(p), min, n + 1)
           [] Continues(p, min) -> Spine(Infix(p), min, n + 1)
           [] OTHER -> p

(* Calls.  A call of a template with closed ~ arguments is a call of the   *)
(* instance for them; a lambda given as a ~ argument is applied in place.  *)
CompileArguments(p, xs) ==
    IF ~Is(p, "~") THEN Return(p, xs)
    ELSE IF Len(xs) >= MaxList THEN Fail(p, "limit")
    ELSE LET x == Expression(Bump(p), 0)
         IN  IF Failed(x) THEN x
             ELSE CompileArguments(Skip(x, ","), Append(xs, QualifyOperators(x.out, Resolve(x, <<"Nat">>))))

IsTemplate(p, t) == t.k \in {"Ref", "GpuRef"} /\ t.n \in DOMAIN p.templates.declarations
ApplyOne(p, f, x) ==
    IF f.k = "Lam" /\ IsCompileBinding(p, f) THEN Substitute(f.xs[1], f.binds[1][1], x) ELSE App(f, x)
Call(p) ==
    LET template == IsTemplate(p, p.out)
        compile == IF template THEN CompileArguments(p, <<>>) ELSE Return(p, <<>>)
        runtime == Arguments(compile, ")", <<>>)
        made == IF template THEN Specialize(runtime, p.out.n, compile.out) ELSE Return(runtime, <<>>)
        head == IF made.out = <<>> THEN p.out ELSE [p.out EXCEPT !.n = made.out]
    IN  Return(made, FoldLeft(LAMBDA f, x : ApplyOne(p, f, x), head, compile.out \o runtime.out))

InstanceName(name, i) == Append(name, "~" \o ToString(i))
Specialize(p, name, args) ==
    IF Failed(p) THEN p
    ELSE IF \E i \in DOMAIN args : ~Closed(args[i], <<>>) THEN Return(p, <<>>)
    ELSE LET template == p.templates.declarations[name]
             key == [i \in DOMAIN args |-> TemplateKey(args[i], <<>>)]
             known == SelectInSeq(template.instances, LAMBDA k : k = key)
             instance == InstanceName(name, Len(template.instances))
             made == Definition(
                 [p EXCEPT !.templates.declarations[name].instances = Append(@, key),
                           !.templates.instances = @ + 1, !.templates.active = @ + 1,
                           !.tokens = template.tokens, !.at = template.at, !.ns = template.ns,
                           !.aliases = template.aliases, !.origin = template.origin,
                           !.scope = <<>>, !.depth = 0, !.reusable = <<>>, !.markers = {},
                           !.instance = instance, !.args = args, !.compile = <<>>], template.unsafe)
         IN  IF known # 0 THEN Return(p, InstanceName(name, known - 1))
             ELSE IF p.templates.instances >= MaxInstances \/ p.templates.active >= MaxActive THEN Fail(p, "limit")
             ELSE IF Failed(made) THEN Fail(p, made.err)
             ELSE [p EXCEPT !.book = made.book, !.fresh = made.fresh, !.foreign = made.foreign,
                            !.templates = [made.templates EXCEPT !.active = @ - 1], !.out = instance]

(* A telescope of binders; ~ parameters of an instance take its arguments. *)
Telescope(p, close, bs) ==
    IF Failed(p) THEN p
    ELSE IF Sees(p, close) THEN Return(Took(p, close), bs)
    ELSE IF Len(bs) >= MaxList THEN Fail(p, "limit")
    ELSE LET macro == close = ")" /\ Is(p, "~")
             q == IF macro THEN "None" ELSE MarkOf(p)
             name == Name(IF macro THEN Bump(p) ELSE Marked(p))
             typed == Is(name, ":")
             type == IF typed THEN Expression(Bump(name), 0)
                     ELSE IF q = "Lone" THEN Return(name, Qnt) ELSE Fail(name, "type")
             opened == Open(type, name.out)
             taken == IF macro /\ opened.args # <<>>
                      THEN [opened EXCEPT !.compile = (type.fresh :> [opened.args[1] EXCEPT !.own = type.fresh]) @@ @,
                                          !.args = Tail(@)]
                      ELSE opened
         IN  IF Failed(type) THEN type
             ELSE Telescope(Skip(taken, ","), close,
                            Append(bs, [q |-> IF typed THEN q ELSE "None", n |-> name.out, id |-> type.fresh, ty |-> type.out]))

(* Atoms, each from its first token.                                       *)
Quantified(p) ==
    LET exists == Is(p, "&")
        name == Name(IF exists THEN Bump(p) ELSE Marked(Bump(p)))
        domain == Expression(Expect(name, ":"), 1)
        opened == Open(Expect(domain, "->"), name.out)
        body == Expression(opened, 0)
    IN  IF exists /\ Following(p).t = "word" /\ Following(p).val \in 0 .. 2
        THEN Return(Bump(Bump(p)), Qua(<<"None", "Lone", "Many">>[Following(p).val + 1]))
        ELSE IF Failed(body) THEN body
        ELSE Leave(p, Return(body,
                 IF exists THEN Named(<<"Exists">>, <<domain.out, Lam(domain.fresh, body.out)>>)
                 ELSE All(MarkOf(Bump(p)), domain.fresh, domain.out, body.out)))

Braced(p) ==
    LET left == Expression(Bump(p), 0)
        right == Expression(Bump(left), 0)
        type == Expression(Expect(IF Tok(left).t \in {"==", "!="} THEN right ELSE left, ":"), 0)
        closed == Expect(type, "}")
        equation == Eql(left.out, right.out, type.out)
    IN  IF Following(p).t = "==" THEN Return(Expect(Bump(Bump(p)), "}"), Plain("Rfl", <<>>, <<>>))
        ELSE CASE Is(left, "==") -> Return(closed, equation)
               [] Is(left, "!=") -> Return(Open(closed, <<"_">>), All("Lone", closed.fresh, equation, Ref(<<"Empty">>)))
               [] OTHER -> Return(closed, Ann(left.out, type.out))

TupleRest(p, xs) ==
    LET x == Expression(p, 0)
    IN  IF Failed(x) THEN x
        ELSE IF Is(x, ",") THEN TupleRest(Bump(x), Append(xs, x.out))
        ELSE Return(x, Listed(xs, x.out, <<"Tuple">>))
Parenthesised(p) ==
    LET first == Body(Bump(p), Tok(Bump(p)).col - 1)
        whole == IF Is(first, ",") THEN TupleRest(Bump(first), <<first.out>>) ELSE first
        type == Expression(Bump(whole), 0)
    IN  IF ~Is(whole, ":") THEN Expect(whole, ")")
        ELSE IF Failed(type) THEN type
        ELSE IF TypeHead(type.out) = <<>> THEN Fail(type, "named type")
        ELSE Expect(Return(type, QualifyOperators(whole.out, TypeHead(type.out))), ")")

Arms(p, arms, tail) ==
    LET value == Expression(p, 0)
        arm == Expression(Bump(value), 0)
    IN  CASE Failed(p) -> p
          [] Is(p, "}") -> Return(Bump(p), FoldRight(LAMBDA a, rest : Mat(a.n, a.arm, rest), arms, tail))
          [] Failed(value) -> value
          [] Is(value, ":") /\ value.out.k \notin {"Ref", "Var"} -> Fail(value, "arm")
          [] Is(value, ":") /\ Failed(arm) -> arm
          [] Is(value, ":") -> Arms(Skip(arm, ";"), Append(arms, [n |-> Resolve(value, value.out.n), arm |-> arm.out]), tail)
          [] ~Is(Skip(value, ";"), "}") -> Fail(value, "expected")
          [] OTHER -> Arms(Skip(value, ";"), arms, value.out)

Rewrite(p) ==
    LET first == Expression(Bump(p), 0)
        named == Is(first, "@")
        evidence == IF named THEN Expression(Bump(first), 0) ELSE first
        colon == Expect(evidence, ":")
        x == [colon EXCEPT !.fresh = @ + 1, !.scope = Append(@, [n |-> <<"_">>, id |-> colon.fresh])]
        motive == Expression(Open(x, IF named THEN first.out.n ELSE <<"">>), 0)
        start == Leave(p, Skip(motive, ";"))
        body == Body(start, Tok(start).col - 1)
    IN  IF Failed(colon) THEN colon
        ELSE IF named /\ first.out.k \notin {"Ref", "Var"} THEN Fail(first, "rewrite binder")
        ELSE Return(body, Plain("Rwt", <<>>, <<evidence.out, Lam(colon.fresh, Lam(x.fresh, motive.out)), body.out>>))

PowerOfTwo(n) == \E e \in 0 .. 30 : n = 2 ^ e
Log2(n) == CHOOSE e \in 0 .. 30 : n = 2 ^ e
ArrayOf(p, value) ==
    LET type == Expression(p, 12)
        count == Is(type, "*")
        size == Expression(IF count THEN Bump(type) ELSE Expect(type, "^"), 0)
        closed == Expect(size, "]")
        depth == IF count THEN NatTerm(Log2(NatValue(size.out)), Zero) ELSE size.out
    IN  IF Failed(closed) THEN closed
        ELSE IF (count /\ ~PowerOfTwo(NatValue(size.out))) \/ TypeHead(type.out) = <<>> THEN Fail(closed, "array")
        ELSE Return(closed, Named(<<"Array", "new">>, <<type.out, depth, QualifyOperators(value, TypeHead(type.out))>>))
Bracketed(p) ==
    LET empty == Is(Bump(p), "]")
        first == IF empty THEN Return(Bump(p), <<>>) ELSE Expression(Bump(p), 0)
        others == Arguments(Skip(first, ","), "]", <<>>)
        all == IF empty THEN others.out ELSE <<first.out>> \o others.out
    IN  IF Failed(first) THEN first
        ELSE IF ~empty /\ Is(first, ":") THEN ArrayOf(Bump(first), first.out)
        ELSE Return(others, Listed(all, Ctr(<<"Nil">>, <<>>), <<"Con">>))

(* +T makes the quantities of a datatype Many; before any other name it    *)
(* marks a binder whose variable may be used again.                        *)
QuantifiedAtom(p) ==
    LET value == Expression(p, 12)
        name == TypeHead(value.out)
        at == DatatypeOf(value, name)
        count == Quantities(value.book[at])
        args == IF value.out.k = "Adt" THEN value.out.xs ELSE [i \in 1 .. count |-> Qua("Many")]
    IN  IF Failed(value) THEN value
        ELSE IF name = <<>> THEN Fail(value, "quantified datatype")
        ELSE IF at = 0 /\ value.out.k \in {"Ref", "Var"}
        THEN [value EXCEPT !.fresh = @ + 1, !.markers = @ \cup {value.fresh}, !.out = Var(name, value.fresh)]
        ELSE IF at = 0 \/ count = 0 \/ (value.out.k # "Adt" /\ Len(value.book[at].ps) # count)
        THEN Fail(value, "quantified datatype")
        ELSE Return(value, Adt(name, [i \in DOMAIN args |-> IF i <= count THEN Qua("Many") ELSE args[i]]))

Number(p) ==
    LET rest == Bump(p)
        tail == Restored(rest, Expression(Unprefixed(rest), 0))
    IN  CASE Is(p, "word") -> Return(rest, Ctr(<<"U32">>, <<Plain("Word", <<ToString(Tok(p).val)>>, <<>>)>>))
          [] Is(p, "float") -> Return(rest, Ctr(<<"F32">>, <<Plain("Word", <<ToString(Tok(p).val)>>, <<>>)>>))
          [] Tok(p).val > MaxList -> Fail(rest, "limit")
          [] Tok(rest).glue /\ Prefixed(rest) -> Return(tail, NatTerm(Tok(p).val, tail.out))
          [] OTHER -> Return(rest, NatTerm(Tok(p).val, Zero))
Literal(p) ==
    LET code(c) == Ctr(<<"Chr">>, <<Ctr(<<"U32">>, <<Plain("Word", <<c>>, <<>>)>>)>>)
        codes == [i \in DOMAIN Tok(p).name |-> code(Tok(p).name[i])]
    IN  IF Len(codes) > MaxList THEN Fail(Bump(p), "limit")
        ELSE IF Is(p, "text") THEN Return(Bump(p), Listed(codes, Ctr(<<"SNil">>, <<>>), <<"SCon">>))
        ELSE IF Len(codes) # 1 THEN Fail(Bump(p), "character")
        ELSE Return(Bump(p), codes[1])

NamedAtom(p) ==
    LET name == Name(p)
        fields == Arguments(Bump(name), "}", <<>>)
    IN  IF Is(name, "{") /\ Tok(name).glue THEN Return(fields, Ctr(Resolve(fields, name.out), fields.out))
        ELSE IF Failed(name) THEN name ELSE Return(name, Variable(name, name.out))

DoBlock(p) ==
    LET module == Name(Bump(p))
        types == IF Is(module, "<>") THEN Return(Bump(module), <<>>) ELSE Arguments(Expect(module, "<"), ">", <<>>)
        colon == Expect(types, ":")
        last == Len(types.out)
    IN  IF Failed(colon) THEN colon
        ELSE DoStatement(colon, module.out, SubSeq(types.out, 1, last - 1), SubSeq(types.out, last, last), Tok(colon).col)
DoCall(p, name, types, before, result, after) == Named(Resolve(p, name), types \o before \o result \o after)
(* One statement and the ones below it: a result, a bind, or a let.        *)
DoStatement(p, module, types, result, column) ==
    LET start == [p EXCEPT !.depth = @ + 1]
        returned == Expression(Bump(start), 0)
        value == Expression(start, 0)
        named == value.out.k \in {"Ref", "Var"} /\ Len(value.out.n) = 1
        annotated == named /\ Is(value, ":")
        step == ~annotated /\ (Is(value, ";") \/ (~Is(value, "") /\ Tok(value).col = column))
        type == IF annotated THEN Expression(Bump(value), 1)
                ELSE Return(value, IF step THEN Variable(value, <<"Unit">>) ELSE value.out)
        assignment == annotated /\ Is(type, "=")
        arrow == CASE assignment -> Bump(type) [] annotated -> Expect(type, "<-") [] step -> type [] OTHER -> Bump(type)
        bound == IF step THEN Return(arrow, value.out) ELSE Expression(arrow, 0)
        before == Skip(bound, ";")
        opened == BindVariable(before, IF annotated THEN value.out.n ELSE <<"_">>, annotated /\ IsReusable(value, value.out))
        rest == DoStatement([opened EXCEPT !.reusable = <<>>], module, types, result, column)
        tail == WithReusable(rest.out, opened.reusable)
    IN  CASE Failed(p) -> p
          [] p.depth >= MaxDepth -> Fail(p, "limit")
          [] Is(p, "return") /\ ~Failed(returned) ->
                 [Return(returned, DoCall(returned, Append(module, "pure"), types, <<>>, result, <<returned.out>>)) EXCEPT !.depth = p.depth]
          [] Is(p, "return") -> returned
          [] Failed(value) -> value
          [] ~annotated /\ ~step /\ ~Is(value, "<-") -> [value EXCEPT !.depth = p.depth]
          [] Failed(bound) -> bound
          [] Failed(rest) -> rest
          [] OTHER -> [Leave(p, Return(rest,
                 IF assignment THEN Let(before.fresh, Ann(bound.out, type.out), tail)
                 ELSE DoCall(rest, Append(module, "bind"), types, <<type.out>>, result,
                             <<bound.out, Lam(before.fresh, tail)>>))) EXCEPT !.depth = p.depth]

Constant(p) ==
    CASE Is(p, "Type") -> Typ(Qua("Lone")) [] Is(p, "Data") -> Typ(Qua("Many")) [] OTHER -> Qnt
Kind(p) == LET grade == Expression(Expect(Bump(p), "("), 0) IN Return(Expect(grade, ")"), Typ(grade.out))
Hole(p) == LET name == Name(Bump(p)) IN Return(name, Plain("Hole", name.out, <<>>))
Atom(p) ==
    IF Failed(p) THEN p
    ELSE LET t == Tok(p).t
         IN  CASE t \in {"Type", "Data", "Quant"} -> Return(Bump(p), Constant(p))
               [] t = "Kind" -> Kind(p)
               [] t = "do" -> DoBlock(p)
               [] t \in {"@", "&"} -> Quantified(p)
               [] t = "{" -> Braced(p)
               [] t = "(" -> Parenthesised(p)
               [] t = "\\" -> Arms(Expect(Bump(p), "{"), <<>>, Plain("Efq", <<>>, <<>>))
               [] t = "%" -> Rewrite(p)
               [] t = "?" -> Hole(p)
               [] t = "[" -> Bracketed(p)
               [] t \in {"+", "++"} -> Restored(p, QuantifiedAtom(Unprefixed(p)))
               [] t \in {"nat", "word", "float"} -> Number(p)
               [] t \in {"text", "char"} -> Literal(p)
               [] OTHER -> NamedAtom(p)

(* Patterns are parsed as expressions and then read as patterns.           *)
ConstructorNamed(p, name) ==
    LET at == SelectInSeq(p.book, LAMBDA d : DeclaresConstructor(d, name))
    IN  IF at = 0 THEN <<>> ELSE SelectSeq(p.book[at].cs, LAMBDA c : c.n = name)
Pattern(p, t) ==
    LET constructor == ConstructorNamed(p, t.n)
        fields == Patterns(p, t.xs, <<>>)
    IN  CASE Failed(p) -> p
          [] IsCompileBinding(p, t) -> Fail(p, "pattern")
          [] t.k \in {"Ref", "Var"} ->
                 IF ConstructorNamed(p, Resolve(p, t.n)) # <<>> \/ Len(t.n) > 1 THEN Fail(p, "pattern")
                 ELSE Return(BindVariable(p, t.n, IsReusable(p, t)), Var(t.n, p.fresh))
          [] t.k = "Ctr" /\ constructor # <<>> /\ constructor[1].fields = Len(t.xs) -> Return(fields, Ctr(t.n, fields.out))
          [] OTHER -> Fail(p, "pattern")
Patterns(p, ts, done) ==
    IF Failed(p) \/ ts = <<>> THEN Return(p, done)
    ELSE LET first == Pattern(p, ts[1]) IN IF Failed(first) THEN first ELSE Patterns(first, Tail(ts), Append(done, first.out))

TermsBeforeColon(p, xs) ==
    LET x == Expression(p, 0)
    IN  IF Failed(x) THEN x
        ELSE IF Is(x, ":") THEN Return(Bump(x), Append(xs, x.out))
        ELSE TermsBeforeColon(Skip(x, ","), Append(xs, x.out))

(* Bodies.  The column of a case tells which match it belongs to.          *)
Rows(p, column, scrutinees, rows) ==
    LET terms == TermsBeforeColon(Bump(p), <<>>)
        patterns == Patterns(terms, terms.out, <<>>)
        body == Body(patterns, Tok(p).col)
    IN  IF ~Is(p, "case") \/ Tok(p).col < column THEN Return(p, Match(scrutinees, rows))
        ELSE IF Failed(terms) THEN terms
        ELSE IF Len(terms.out) # Len(scrutinees) THEN Fail(terms, "row")
        ELSE IF Failed(body) THEN body
        ELSE Rows(Leave(terms, body), column, scrutinees, Append(rows, Row(patterns.out, body.out)))
MatchBody(p, column) ==
    LET heads == TermsBeforeColon(Bump(p), <<>>)
    IN  IF Failed(heads) THEN heads
        ELSE IF Tok(heads).col > column THEN Rows(heads, Tok(heads).col, heads.out, <<>>)
        ELSE Return(heads, Match(heads.out, <<>>))

ArrayWrite(t) ==
    t.k = "App" /\ t.xs[1].k = "App" /\ t.xs[1].xs[1].k = "App" /\ t.xs[1].xs[1].xs[1].k = "App"
        /\ LET head == t.xs[1].xs[1].xs[1].xs[1] IN head.k \in {"Ref", "GpuRef"} /\ head.n = <<"Array", "set">>
        /\ t.xs[1].xs[1].xs[2].k = "Var"
MorePatterns(p, xs) ==
    IF ~Failed(p) /\ SameLine(p) /\ (Is(p, "+") \/ Is(p, "name"))
    THEN LET x == Expression(p, 0) IN IF Failed(x) THEN x ELSE MorePatterns(x, Append(xs, x.out))
    ELSE Return(p, xs)
Values(p, n, xs) ==
    IF Failed(p) \/ Len(xs) >= n THEN Return(p, xs)
    ELSE LET x == Expression(p, 0) IN IF Failed(x) THEN x ELSE Values(x, n, Append(xs, x.out))
(* patterns = values, and the body below; values may be known already.     *)
LocalBody(p, column, scope, q, patterns, known) ==
    LET values == Values(p, Len(patterns), known)
        bound == Patterns(Skip(values, ";"), patterns, <<>>)
        body == Body(bound, column)
    IN  IF Failed(body) THEN body
        ELSE [Return(body, Local(q, bound.out, values.out, body.out)) EXCEPT !.scope = scope]
PlainBody(p, column) ==
    LET first == Expression(p, 0)
        all == MorePatterns(first, <<first.out>>)
        more == Is(all, ";") \/ (~Is(all, "") /\ Tok(all).col = Tok(p).col)
    IN  IF Failed(first) \/ Failed(all) THEN all
        ELSE IF Len(all.out) > 1 \/ Is(all, "=") THEN LocalBody(Expect(all, "="), column, p.scope, "Lone", all.out, <<>>)
        ELSE IF ArrayWrite(first.out) /\ more
        THEN LocalBody(all, column, p.scope, "Lone", <<first.out.xs[1].xs[1].xs[2]>>, <<first.out>>)
        ELSE Return(all, first.out)
MarkedBody(p, column) ==
    LET name == Name(Marked(p))
    IN  IF Failed(name) THEN name ELSE LocalBody(Expect(name, "="), column, p.scope, MarkOf(p), <<Ref(name.out)>>, <<>>)
Body(p, column) ==
    LET start == [p EXCEPT !.depth = @ + 1, !.reusable = <<>>]
        r == CASE Is(start, "match") -> MatchBody(start, column)
               [] MarkOf(start) # "Lone" /\ Following(Marked(start)).t = "=" -> MarkedBody(start, column)
               [] OTHER -> PlainBody(start, column)
    IN  IF Failed(p) THEN p
        ELSE IF p.depth >= MaxDepth THEN Fail(p, "limit")
        ELSE IF Failed(r) THEN r
        ELSE [r EXCEPT !.depth = p.depth, !.out = WithReusable(@, p.reusable)]

(* Declarations.                                                           *)
RequireFresh(p, name) ==
    IF ~Failed(p) /\ (name \in DOMAIN p.templates.declarations \/ \E i \in DOMAIN p.book : Declares(p.book[i], name))
    THEN Fail(p, "duplicate") ELSE p
Declare(p, declaration) == IF Failed(p) THEN p ELSE [p EXCEPT !.book = Append(@, declaration)]
Def(name, parameters, type, body, unsafe, foreign) ==
    [k |-> "Def", n |-> name, ps |-> parameters, ty |-> type, body |-> body, unsafe |-> unsafe, foreign |-> foreign]
Finished(p, t) == QualifyOperators(t, Resolve(p, <<"Nat">>))
Arrows(binders, result) == FoldRight(LAMBDA b, t : All(b.q, b.id, b.ty, t), binders, result)

RECURSIVE Constructors(_, _)
Constructors(p, cs) ==
    LET raw == Name(p)
        name == Qualify(raw, raw.out)
        fields == Telescope(Expect(raw, "{"), "}", <<>>)
    IN  IF Failed(p) \/ Tok(p).t \in {"", "type", "law", "def", "@"} THEN Return(p, cs)
        ELSE IF Failed(raw) THEN raw
        ELSE IF ConstructorNamed(p, name) # <<>> \/ \E i \in DOMAIN cs : cs[i].n = name THEN Fail(raw, "duplicate")
        ELSE IF Failed(fields) THEN fields
        ELSE Constructors(Leave(p, fields), Append(cs, [n |-> name, fields |-> Len(fields.out), types |-> fields.out]))
Datatype(p) ==
    LET raw == Name(p)
        name == Qualify(raw, raw.out)
        fresh == RequireFresh(raw, name)
        parameters ==
            CASE Is(fresh, "<-") -> Telescope([fresh EXCEPT !.tokens[fresh.at] = [@ EXCEPT !.t = "-", !.col = @ + 1]], ">", <<>>)
              [] Is(fresh, "<>") -> Return(Bump(fresh), <<>>)
              [] Is(fresh, "<") -> Telescope(Bump(fresh), ">", <<>>)
              [] OTHER -> Return(fresh, <<>>)
        kind == Expression(Expect(parameters, "is"), 0)
        adt == [k |-> "Adt", n |-> name, ps |-> parameters.out, kind |-> kind.out, cs |-> <<>>]
        all == Constructors(Declare(Expect(kind, ":"), adt), <<>>)
    IN  IF Failed(raw) \/ Failed(fresh) THEN fresh
        ELSE IF Failed(all) THEN all
        ELSE [all EXCEPT !.book[Len(kind.book) + 1].cs = all.out]

RECURSIVE Clauses(_, _)
Clauses(p, cs) ==
    LET all == Is(p, "for")
        q == IF all THEN MarkOf(Bump(p)) ELSE "Lone"
        name == Name(IF all THEN Marked(Bump(p)) ELSE Bump(p))
        type == Expression(Expect(name, ":"), 0)
        predicate == Expression(Open(Bump(type), name.out), 0)
        where == Is(type, "where")
        after == IF where THEN Leave(p, predicate) ELSE type
        ty == IF where THEN Named(<<"Exists">>, <<type.out, Lam(type.fresh, predicate.out)>>) ELSE type.out
    IN  IF ~(Is(p, "for") \/ Is(p, "exs")) THEN Return(p, cs)
        ELSE IF Len(cs) >= MaxList THEN Fail(p, "limit")
        ELSE IF Failed(type) THEN type
        ELSE IF Failed(after) THEN after
        ELSE Clauses(Open(after, name.out), Append(cs, [all |-> all, q |-> q, n |-> name.out, id |-> after.fresh, ty |-> ty]))
Law(p) ==
    LET raw == Name(p)
        name == Qualify(raw, raw.out)
        clauses == Clauses(Expect(RequireFresh(raw, name), ":"), <<>>)
        body == Body(clauses, 0)
        exists == SelectInSeq(clauses.out, LAMBDA c : ~c.all)
        parameters == SubSeq(clauses.out, 1, IF exists = 0 THEN Len(clauses.out) ELSE exists - 1)
        type == FoldRight(LAMBDA c, t : IF c.all THEN All(c.q, c.id, c.ty, t) ELSE Named(<<"Exists">>, <<c.ty, Lam(c.id, t)>>),
                          clauses.out, body.out)
    IN  IF Failed(raw) THEN raw
        ELSE IF Failed(body) THEN body
        ELSE Declare(body, Def(name, parameters, Finished(body, type), <<>>, FALSE, FALSE))

RECURSIVE CompletionVariables(_, _)
CompletionVariables(p, vars) ==
    LET name == Name(p)
    IN  IF Sees(p, ")") THEN Return(Bump(p), vars)
        ELSE IF Len(vars) >= MaxList THEN Fail(p, "limit")
        ELSE IF Failed(name) THEN name
        ELSE CompletionVariables(Skip(Open(name, name.out), ","), Append(vars, [n |-> name.out, id |-> name.fresh]))

(* Foreign definitions: the files that implement them, each once.          *)
RECURSIVE ForeignImports(_, _, _)
ForeignImports(p, n, files) ==
    LET file == Bump(p)
    IN  IF ~Is(p, "import") THEN Return(p, files)
        ELSE IF n >= MaxList THEN Fail(p, "limit")
        ELSE IF Tok(file).t # "text" \/ Tok(file).name[2] \notin {"c", "js"} \/ p.origin = "Standalone" THEN Fail(p, "foreign")
        ELSE ForeignImports(Bump(file), n + 1, IF Tok(file).name \in Range(files) THEN files ELSE Append(files, Tok(file).name))
RECURSIVE ForeignParameters(_, _)
ForeignParameters(type, vars) ==
    CASE vars = <<>> -> <<>>
      [] type.k = "Ann" -> ForeignParameters(type.xs[1], vars)
      [] type.k = "All" -> <<[q |-> type.n[1], n |-> vars[1].n, id |-> type.binds[2][1], ty |-> type.xs[1]]>>
                               \o ForeignParameters(type.xs[2], Tail(vars))
      [] OTHER -> <<>>
Retained(p, name, at) ==
    [p EXCEPT !.templates.declarations[name].tokens = Append(SubSeq(p.tokens, at, p.at - 1), [Tok(p) EXCEPT !.t = ""]),
              !.templates.declarations[name].at = 1]
ForeignDefinition(p, name, vars, type, unsafe, template, at) ==
    LET imports == ForeignImports(p, 0, <<>>)
        parameters == ForeignParameters(type, vars)
    IN  IF ~p.foreign.enabled THEN Fail(p, "foreign")
        ELSE IF Failed(imports) THEN imports
        ELSE IF template THEN Retained(imports, name, at)
        ELSE IF Len(parameters) # Len(vars) THEN Fail(imports, "foreign")
        ELSE Declare([imports EXCEPT !.foreign.definitions = (name :> [imports |-> imports.out, arity |-> Len(vars)]) @@ @],
                     Def(name, parameters, Finished(imports, type), <<>>, unsafe, TRUE))

(* A definition: of a new name, of the latest law of that name, or of an   *)
(* instance.  Its own name is known in its body; the instances its body    *)
(* makes come before it.                                                   *)
LastDefinition(p, name) == SelectLastInSeq(p.book, LAMBDA d : d.k = "Def" /\ d.n = name)
Completes(d, qualified) == (d.body = <<>> /\ ~d.foreign) \/ d.n = qualified
Definition(p, unsafe) ==
    LET raw == Name(p)
        resolved == Resolve(raw, raw.out)
        qualified == Qualify(raw, raw.out)
        at == IF p.instance # <<>> THEN 0 ELSE LastDefinition(raw, resolved)
        completes == at # 0 /\ Completes(raw.book[at], qualified)
        name == IF p.instance # <<>> THEN p.instance ELSE IF completes THEN resolved ELSE qualified
        open == Expect(raw, "(")
        template == ~completes /\ p.instance = <<>> /\ Is(open, "~")
        fresh == RequireFresh(open, name)
        registered ==
            IF ~template \/ Failed(fresh) THEN fresh
            ELSE [fresh EXCEPT !.templates.declarations =
                     (name :> [tokens |-> p.tokens, at |-> p.at, ns |-> p.ns, aliases |-> p.aliases, origin |-> p.origin,
                               unsafe |-> unsafe, instances |-> <<>>]) @@ @]
        head == IF completes THEN CompletionVariables(open, <<>>) ELSE Telescope(registered, ")", <<>>)
        result == IF completes THEN head ELSE Expression(Expect(head, "->"), 0)
        type == IF completes THEN raw.book[at].ty ELSE Arrows(head.out, result.out)
        parameters == IF completes THEN raw.book[at].ps ELSE head.out
        colon == Expect(result, ":")
        body == Body(Declare(colon, Def(name, parameters, type, <<>>, unsafe, FALSE)), 0)
        done == [body EXCEPT !.book = RemoveAt(@, Len(colon.book) + 1)]
        value == FoldRight(LAMBDA v, t : Lam(v.id, t), head.out, body.out)
    IN  IF Failed(raw) THEN raw
        ELSE IF completes /\ (raw.book[at].body # <<>> \/ raw.book[at].foreign) THEN Fail(open, "duplicate")
        ELSE IF Failed(colon) THEN colon
        ELSE IF Is(colon, "import") THEN ForeignDefinition(colon, name, head.out, type, unsafe, template, p.at)
        ELSE IF Failed(body) THEN body
        ELSE IF template THEN Retained(done, name, p.at)
        ELSE Declare(done, Def(name, parameters, Finished(done, type), <<Finished(done, value)>>, unsafe, FALSE))

Declaration(p) ==
    LET start == [p EXCEPT !.scope = <<>>, !.compile = <<>>]
    IN  CASE Is(p, "type") -> Datatype(Bump(start))
          [] Is(p, "law") -> Law(Bump(start))
          [] Is(p, "def") -> Definition(Bump(start), FALSE)
          [] Is(p, "@") -> LET word == Name(Bump(start))
                           IN  IF Failed(word) \/ word.out # <<"unsafe">> THEN Fail(word, "expected")
                               ELSE Definition(Expect(word, "def"), TRUE)
          [] OTHER -> Fail(p, "declaration")
=============================================================================
