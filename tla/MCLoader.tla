------------------------------ MODULE MCLoader ------------------------------
(* Small programs, printed into the tokens of their files and read back.   *)
(* A program is a tree [f, s, i, xs]: a form, a name, a number, children.  *)
EXTENDS Loader

(* A claim about what was loaded, by name: Claim below, given apart like   *)
(* Parse.                                                                  *)
CONSTANT Holds(_, _, _, _)
MCParse(p) == LET read == Declaration(p) IN read

E(form, name, i, xs) == [f |-> form, s |-> name, i |-> i, xs |-> xs]
V(name) == E("name", <<name>>, 0, <<>>)
N(i) == E("nat", <<>>, i, <<>>)
Bin(op, x, y) == E("bin", <<op>>, 0, <<x, y>>)
Fn(x, body) == E("lam", <<x>>, 0, <<body>>)
C(name, xs) == E("ctr", <<name>>, 0, xs)
Do(f, xs) == E(f, <<>>, 0, xs)

(***************************************************************************)
(* Printing, with as few parentheses as the levels allow.                  *)
(***************************************************************************)
T(text) == [t |-> text, name |-> <<>>, val |-> 0, glue |-> FALSE, nl |-> 0]
W(name) == [T("name") EXCEPT !.name = name]
G(token) == [token EXCEPT !.glue = TRUE]
OnLine(indent, ts) == ReplaceAt(ts, 1, [ts[1] EXCEPT !.nl = indent])
RECURSIVE Sep(_)
Sep(ts) == IF Len(ts) <= 1 THEN FlattenSeq(ts) ELSE ts[1] \o <<T(",")>> \o Sep(Tail(ts))

RECURSIVE Show(_, _), ShowBody(_, _)
Show(e, level) ==
    LET wrap(own, ts) == IF own < level THEN <<T("(")>> \o ts \o <<T(")")>> ELSE ts
        at(i, l) == Show(e.xs[i], l)
        list(l) == Sep([i \in DOMAIN e.xs |-> at(i, l)])
        op == e.s[1]
    IN  CASE e.f = "name" -> <<W(e.s)>>
          [] e.f = "nat" -> <<[T("nat") EXCEPT !.val = e.i]>>
          [] e.f = "above" -> wrap(0, <<[T("nat") EXCEPT !.val = e.i], G(T("+"))>> \o at(1, 0))
          [] e.f = "bin" /\ op = "<" -> wrap(-1, at(1, 4) \o <<T("<")>> \o at(2, 5))
          [] e.f = "bin" -> wrap(Precedence(op), at(1, IF Operators[op][2] THEN Precedence(op) + 1 ELSE Precedence(op))
                                                 \o <<T(op)>> \o at(2, RightLevel(op)))
          [] e.f = "app" -> at(1, 20) \o <<T("(")>> \o Sep([i \in 1 .. (Len(e.xs) - 1) |-> at(i + 1, 0)]) \o <<T(")")>>
          [] e.f = "make" -> <<W(e.s), T("("), T("~")>> \o list(0) \o <<T(")")>>
          [] e.f = "ctr" -> <<W(e.s), G(T("{"))>> \o list(0) \o <<T("}")>>
          [] e.f = "lam" -> wrap(0, <<W(e.s), T("=>")>> \o at(1, 0))
          [] e.f = "again" -> wrap(0, <<T("+"), G(W(e.s)), T("=>")>> \o at(1, 0))
          [] e.f = "arrow" -> wrap(0, at(1, 1) \o <<T("->")>> \o at(2, 0))
          [] e.f = "all" -> wrap(0, <<T("@"), W(e.s), T(":")>> \o at(1, 1) \o <<T("->")>> \o at(2, 0))
          [] e.f = "exists" -> wrap(0, <<T("&"), W(e.s), T(":")>> \o at(1, 1) \o <<T("->")>> \o at(2, 0))
          [] e.f = "arms" -> <<T("\\"), T("{"), W(e.s), T(":")>> \o at(1, 0) \o <<T(";")>> \o at(2, 0) \o <<T("}")>>
          [] e.f = "rewrite" -> wrap(0, <<T("%")>> \o at(1, 0) \o <<T(":")>> \o at(2, 0) \o <<T(";")>> \o at(3, 0))
          [] e.f = "array" -> <<T("[")>> \o at(1, 0) \o <<T(":"), W(e.s), T("^"), [T("nat") EXCEPT !.val = e.i], T("]")>>
          [] e.f = "typed" -> <<T("(")>> \o at(1, -1) \o <<T(":")>> \o at(2, 0) \o <<T(")")>>
          [] e.f = "tuple" -> <<T("(")>> \o list(0) \o <<T(")")>>
          [] e.f = "list" -> <<T("[")>> \o list(0) \o <<T("]")>>
          [] e.f = "get" -> at(1, 20) \o <<T("[")>> \o at(2, -1) \o <<T("]")>>
          [] e.f = "set" -> wrap(1, at(1, 20) \o <<T("[")>> \o at(2, -1) \o <<T("]"), T("<-")>> \o at(3, 2))
          [] e.f = "adt" -> <<W(e.s), G(T("<"))>> \o list(5) \o <<G(T(">"))>>
          [] e.f = "eq" -> <<T("{")>> \o at(1, -1) \o <<T("==")>> \o at(2, -1) \o <<T(":")>> \o at(3, -1) \o <<T("}")>>
          [] e.f = "do" -> wrap(0, <<T("do"), W(<<"M">>), G(T("<")), W(<<"T">>), G(T(">")), T(":"), W(e.s), T(":")>>
                                   \o at(1, 1) \o <<T("<-")>> \o at(2, 0) \o <<T(";"), T("return")>> \o at(3, 0))
ShowBody(e, indent) ==
    CASE e.f = "match" ->
             OnLine(indent, <<T("match")>> \o Show(e.xs[1], 0) \o <<T(":")>>
                 \o FlattenSeq([r \in 1 .. (Len(e.xs) - 1) |->
                        OnLine(indent + 2, <<T("case")>> \o Show(e.xs[r + 1].xs[1], 0) \o <<T(":")>>)
                            \o ShowBody(e.xs[r + 1].xs[2], indent + 4)]))
      [] e.f = "write" -> OnLine(indent, Show(e.xs[1], -1)) \o ShowBody(e.xs[2], indent)
      [] e.f = "let" -> OnLine(indent, (IF e.i = 1 THEN <<T("+"), G(W(e.s))>> ELSE <<W(e.s)>>) \o <<T("=")>> \o Show(e.xs[1], -1))
                            \o ShowBody(e.xs[2], indent)
      [] OTHER -> OnLine(indent, Show(e, -1))

(* What the lexer makes of characters that touch, and where they stand.    *)
RECURSIVE Munch(_)
Munch(ts) ==
    IF Len(ts) < 2 THEN ts
    ELSE IF ts[1].t = ">" /\ ts[2].t = ">" /\ ts[2].glue THEN <<[ts[1] EXCEPT !.t = ">>"]>> \o Munch(SubSeq(ts, 3, Len(ts)))
    ELSE <<ts[1]>> \o Munch(Tail(ts))
Place(ts) ==
    LET all == Append(Munch(ts), [T("") EXCEPT !.nl = 1])
    IN  [i \in DOMAIN all |->
            [t |-> all[i].t, name |-> all[i].name, val |-> all[i].val, glue |-> all[i].glue,
             line |-> Cardinality({j \in 1 .. i : all[j].nl > 0}),
             col |-> IF all[i].nl > 0 THEN all[i].nl ELSE 100 + i]]

Typed(name) == <<W(<<name>>), T(":"), W(<<"T">>)>>
ShowDeclaration(d) ==
    OnLine(1,
        CASE d.f = "type" -> <<T("type"), W(d.s), T("is"), T("Data"), T(":")>>
                                 \o FlattenSeq([i \in DOMAIN d.xs |-> OnLine(3, <<W(d.xs[i].s), T("{")>>)
                                        \o Sep([k \in 1 .. d.xs[i].i |-> Typed("a")]) \o <<T("}")>>])
          [] d.f = "def" -> <<T("def"), W(d.s), T("(")>> \o Sep([i \in DOMAIN d.ps |-> Typed(d.ps[i])]) \o <<T(")"), T("->"), W(<<"T">>), T(":")>>
                                \o ShowBody(d.xs[1], 3)
          [] d.f = "template" -> <<T("def"), W(d.s), T("("), T("~")>> \o Typed("t") \o <<T(","), W(<<"x">>), T(":"), W(<<"T">>), T(")"), T("->"), W(<<"T">>), T(":")>>
                                \o ShowBody(d.xs[1], 3)
          [] d.f = "foreign" -> <<T("def"), W(d.s), T("(")>> \o Sep([i \in DOMAIN d.ps |-> Typed(d.ps[i])])
                                    \o <<T(")"), T("->"), W(<<"T">>), T(":"), T("import"), [T("text") EXCEPT !.name = <<"file", "c">>]>>
          [] d.f = "law" -> <<T("law"), W(d.s), T(":")>> \o FlattenSeq([i \in DOMAIN d.ps |-> <<T("for")>> \o Typed(d.ps[i])]) \o Show(d.xs[1], 0)
          [] d.f = "proof" -> <<T("def"), W(d.s), T("(")>> \o Sep([i \in DOMAIN d.ps |-> <<W(<<d.ps[i]>>)>>]) \o <<T(")"), T(":")>> \o ShowBody(d.xs[1], 3))
ShowFile(ds) == Place(FlattenSeq([i \in DOMAIN ds |-> ShowDeclaration(ds[i])]))

(***************************************************************************)
(* Meaning.  names gives what a name means where it is not a variable,    *)
(* type the type that names the operators; env the names of the variables. *)
(***************************************************************************)
InstanceOf(names, g, arg) ==
    LET known == SelectInSeq(names.templates[g].instances, LAMBDA k : k = <<TemplateKey(arg, <<>>)>>)
    IN  IF known = 0 THEN <<"no instance">> ELSE InstanceName(g, known - 1)
Resolved(names, s) ==
    LET q == IF Len(s) > 1 /\ s[1] \in DOMAIN names.aliases THEN names.aliases[s[1]] \o Tail(s) ELSE names.ns \o s
    IN  IF q \in names.known THEN q ELSE s

RECURSIVE Meaning(_, _, _, _), MeantPattern(_, _, _)
MeantPattern(e, n, names) ==
    IF e.f = "name" THEN Var(e.s, n + 1)
    ELSE LET before(i) == Len(FlattenSeq([j \in 1 .. (i - 1) |-> PatternIds(MeantPattern(e.xs[j], 0, names))]))
         IN  Ctr(Resolved(names, e.s), [i \in DOMAIN e.xs |-> MeantPattern(e.xs[i], n + before(i), names)])
RECURSIVE PatternNames(_)
PatternNames(e) == IF e.f = "name" THEN <<e.s>> ELSE FlattenSeq([i \in DOMAIN e.xs |-> PatternNames(e.xs[i])])
Meaning(e, env, type, names) ==
    LET n == Len(env)
        m(i) == Meaning(e.xs[i], env, type, names)
        under(i, more) == Meaning(e.xs[i], env \o more, type, names)
        all == [i \in DOMAIN e.xs |-> m(i)]
        var == SelectLastInSeq(env, LAMBDA name : name = e.s)
        op == e.s[1]
        index == Meaning(e.xs[2], env, <<"U32">>, names)
        arg == Meaning(e.xs[1], env, Resolved(names, <<"Nat">>), names)
    IN  CASE e.f = "name" -> IF var # 0 THEN Var(e.s, var) ELSE Ref(Resolved(names, e.s))
          [] e.f = "nat" -> NatTerm(e.i, Zero)
          [] e.f = "above" -> NatTerm(e.i, m(1))
          [] e.f = "bin" -> IF op = "<" THEN Named(Append(type, "is_lt"), all)
                            ELSE IF op = "<>" THEN Ctr(<<"Con">>, all)
                            ELSE LET method == Operators[op][3] IN Named(IF method[1] = "" THEN Append(type, method[2]) ELSE method, all)
          [] e.f = "app" -> Applied(m(1), Tail(all))
          [] e.f = "make" -> Named(IF Closed(arg, <<>>) THEN InstanceOf(names, e.s, arg) ELSE e.s, <<arg>> \o Tail(all))
          [] e.f = "ctr" -> Ctr(Resolved(names, e.s), all)
          [] e.f = "lam" -> Lam(n + 1, under(1, <<e.s>>))
          [] e.f = "again" -> Lam(n + 1, Local("Many", <<Var(e.s, n + 2)>>, <<Var(e.s, n + 1)>>, under(1, <<e.s, e.s>>)))
          [] e.f = "arrow" -> All("Lone", n + 1, m(1), under(2, <<<<>>>>))
          [] e.f = "all" -> All("Lone", n + 1, m(1), under(2, <<e.s>>))
          [] e.f = "exists" -> Named(<<"Exists">>, <<m(1), Lam(n + 1, under(2, <<e.s>>))>>)
          [] e.f = "arms" -> Mat(Resolved(names, e.s), m(1), m(2))
          [] e.f = "rewrite" -> Plain("Rwt", <<>>, <<m(1), Lam(n + 1, Lam(n + 2, under(2, <<<<>>, <<>>>>))), m(3)>>)
          [] e.f = "array" -> LET type1 == Resolved(names, e.s)
                              IN  Named(<<"Array", "new">>, <<Ref(type1), NatTerm(e.i, Zero), Meaning(e.xs[1], env, type1, names)>>)
          [] e.f = "typed" -> Meaning(e.xs[1], env, Resolved(names, e.xs[2].s), names)
          [] e.f = "tuple" -> Ctr(<<"Tuple">>, all)
          [] e.f = "list" -> Listed(all, Ctr(<<"Nil">>, <<>>), <<"Con">>)
          [] e.f = "get" -> Named(<<"Array", "get">>, <<Ref(<<"U32">>), m(1), index>>)
          [] e.f = "set" -> Named(<<"Array", "set">>, <<Ref(<<"U32">>), m(1), index, m(3)>>)
          [] e.f = "adt" -> Adt(Resolved(names, e.s), all)
          [] e.f = "eq" -> Eql(m(1), m(2), m(3))
          [] e.f = "do" -> LET T1 == Ref(Resolved(names, <<"T">>))
                           IN  Named(<<"M", "bind">>, <<m(1), T1, m(2), Lam(n + 1, Named(<<"M", "pure">>, <<T1, under(3, <<e.s>>)>>))>>)
          [] e.f = "match" -> Match(<<m(1)>>, [r \in 1 .. (Len(e.xs) - 1) |->
                 Row(<<MeantPattern(e.xs[r + 1].xs[1], n, names)>>,
                     Meaning(e.xs[r + 1].xs[2], env \o PatternNames(e.xs[r + 1].xs[1]), type, names))])
          [] e.f = "let" -> Local(IF e.i = 1 THEN "Many" ELSE "Lone", <<Var(e.s, n + 1)>>, <<m(1)>>, under(2, <<e.s>>))
          [] e.f = "write" -> Local("Lone", <<Var(e.xs[1].xs[1].s, n + 1)>>, <<m(1)>>, under(2, <<e.xs[1].xs[1].s>>))

(* A template for an argument: the argument in place of t.                 *)
RECURSIVE Replaced(_, _, _)
Replaced(e, name, arg) ==
    LET xs == [i \in DOMAIN e.xs |-> Replaced(e.xs[i], name, arg)]
    IN  IF e.f = "name" /\ e.s = name THEN arg
        ELSE IF e.f = "app" /\ e.xs[1].f = "name" /\ e.xs[1].s = name /\ arg.f = "lam"
        THEN Replaced(arg.xs[1], arg.s, xs[2])
        ELSE [e EXCEPT !.xs = xs]

Key(t) == TemplateKey(t, <<>>)
Params(ps) == [i \in DOMAIN ps |-> <<ps[i]>>]
Telescoped(qs, names, result) ==
    FoldRight(LAMBDA i, t : All(qs[i], i, Ref(Resolved(names, <<"T">>)), t), [i \in DOMAIN qs |-> i], result)
Abstracted(n, body) == FoldRight(Lam, [i \in 1 .. n |-> i], body)
Entry(d) ==
    IF d.k = "Adt" THEN [n |-> d.n, ty |-> <<>>, body |-> [i \in DOMAIN d.cs |-> <<d.cs[i].n, ToString(d.cs[i].fields)>>]]
    ELSE [n |-> d.n, ty |-> <<Key(d.ty)>>, body |-> [i \in DOMAIN d.body |-> Key(d.body[i])]]
Meant(d, ps, type, body, names) ==
    LET of(e) == Meaning(e, Params(ps), Resolved(names, <<"Nat">>), names)
    IN  [n |-> IF d.f = "proof" THEN Resolved(names, d.s) ELSE names.ns \o d.s, body |-> [i \in DOMAIN body |-> Key(Abstracted(Len(ps), of(body[i])))],
         ty |-> <<Key(Telescoped([i \in DOMAIN ps |-> IF ps[i] = "t" THEN "None" ELSE "Lone"], names, of(type)))>>]
MeantDeclaration(d, names) ==
    CASE d.f = "type" -> [n |-> names.ns \o d.s, ty |-> <<>>,
                          body |-> [i \in DOMAIN d.xs |-> <<names.ns \o d.xs[i].s, ToString(d.xs[i].i)>>]]
      [] d.f = "law" -> Meant(d, d.ps, d.xs[1], <<>>, names)
      [] d.f = "proof" -> Meant(d, d.ps, d.xs[2], <<d.xs[1]>>, names)
      [] OTHER -> Meant(d, d.ps, V("T"), d.xs, names)

(***************************************************************************)
(* The programs.                                                           *)
(***************************************************************************)
D(form, name, ps, xs) == [f |-> form, s |-> name, ps |-> ps, xs |-> xs]
Def1(name, body) == D("def", <<name>>, <<"x", "y">>, <<body>>)
BaseProgram == <<D("type", <<"Nat">>, <<>>, <<E("c", <<"Zero">>, 0, <<>>), E("c", <<"Succ">>, 1, <<>>)>>)>>
EffectsProgram == <<D("foreign", <<"IO", "now">>, <<"x">>, <<>>)>>
Disk(links, imports, program, args) ==
    [root |-> <<"main">>, links |-> links, program |-> program, args |-> args, executable |-> FALSE,
     files |-> [file \in DOMAIN program |-> [imports |-> imports[file], tokens |-> ShowFile(program[file])]],
     base |-> ShowFile(BaseProgram), effects |-> ShowFile(EffectsProgram)]
OneFile(ds, args) == Disk(<<"main">> :> "main", "main" :> <<>>, "main" :> ds, args)

Leaves == {V("x"), V("f"), N(2)}
Ops == {"&", "||", "<", "<>", ">=", "-", "+", "*"}
Around(es, es2) ==
    {Bin(op, a, b) : op \in Ops, a \in es, b \in es2}
    \cup {Do(form, <<a, b>>) : form \in {"arrow", "list", "get"}, a \in es, b \in es2}
Wraps(es) ==
    UNION {{E("app", <<>>, 0, <<a, V("y")>>), E("app", <<>>, 0, <<V("f"), a>>), C("C", <<a>>), Fn("x", a), Do("typed", <<a, V("U")>>),
            E("again", <<"z">>, 0, <<a>>), E("all", <<"z">>, 0, <<a, a>>), E("above", <<>>, 1, <<a>>), E("adt", <<"L">>, 0, <<a>>),
            E("exists", <<"z">>, 0, <<a, a>>), E("arms", <<"C">>, 0, <<a, V("x")>>), Do("rewrite", <<a, a, V("x")>>), E("array", <<"U">>, 2, <<a>>),
            Do("set", <<V("x"), a, a>>), Do("eq", <<a, a, V("T")>>), E("do", <<"z">>, 0, <<V("T"), a, a>>)} : a \in es}
Once == Leaves \cup Around(Leaves, Leaves) \cup Wraps(Leaves)
Twice == Around(Once, {V("y")}) \cup Around({V("y")}, Once) \cup Wraps(Once)

Pats == {V("y"), C("B", <<V("a"), V("y")>>), C("A", <<>>)}
Rowed(p, body) == E("row", <<>>, 0, <<p, body>>)
Matched(x, rows) == Do("match", <<V(x)>> \o rows)
LetIn(x, i, v, body) == E("let", <<x>>, i, <<v, body>>)
Simple == {Bin("-", V("a"), V("y")), LetIn("y", 0, V("x"), V("y")), LetIn("y", 1, Bin("<", V("x"), V("y")), C("B", <<V("y"), V("x")>>)),
           Do("write", <<Do("set", <<V("x"), V("y"), N(1)>>), C("B", <<V("x"), V("y")>>)>>)}
Bodies(inner) ==
    {Matched("x", <<Rowed(p, b), Rowed(V("x"), c)>>) : p \in Pats, b \in inner, c \in Simple}
    \cup {LetIn(x, i, Fn("y", V("y")), b) : x \in {"x", "y"}, i \in {0, 1}, b \in inner}
AB == D("type", <<"AB">>, <<>>, <<E("c", <<"A">>, 0, <<>>), E("c", <<"B">>, 2, <<>>)>>)

Args == {N(0), N(1), V("x"), V("f"), Fn("y", C("S", <<V("y")>>)), Fn("z", C("S", <<V("z")>>)), Bin("+", N(1), N(0))}
Make(g, arg) == E("make", <<g>>, 0, <<arg, V("x")>>)
Templates ==
    {V("t"), E("app", <<>>, 0, <<V("t"), V("x")>>), Make("g", V("t")), Make("h", V("t")), Make("g", Bin("*", V("t"), N(1))),
     E("app", <<>>, 0, <<V("f"), V("t"), Fn("x", V("t"))>>)}
Grows == Make("g", E("above", <<>>, 1, <<V("t")>>))
Template(name, body) == D("template", <<name>>, <<"t", "x">>, <<body>>)
Used(b, h, a1, a2) ==
    OneFile(<<Template("h", h), Template("g", b), Def1("m", E("app", <<>>, 0, <<Make("g", a1), Make("g", a2)>>)), Def1("k", Make("h", a2))>>,
            Args \cup {N(i) : i \in 0 .. 4} \cup {Bin("*", a, N(1)) : a \in Args})

(* Three files that may import each other, in two directories.             *)
Library(ds) == <<D("type", <<"T">>, <<>>, <<E("c", <<"A">>, 0, <<>>)>>)>> \o ds
Equation == Do("eq", <<V("x"), V("f"), V("T")>>)
Programs ==
    [main |-> <<Def1("f", E("app", <<>>, 0, <<E("name", <<"P", "f">>, 0, <<>>), V("f"), E("name", <<"Q", "T">>, 0, <<>>)>>)),
                D("def", <<"g">>, <<"x">>, <<E("ctr", <<"P", "A">>, 0, <<V("x")>>)>>)>>,
     a |-> Library(<<Def1("f", E("app", <<>>, 0, <<E("name", <<"Q", "T">>, 0, <<>>), V("T"), N(1)>>)),
                     D("law", <<"l">>, <<"x">>, <<Equation>>), D("proof", <<"l">>, <<"x">>, <<V("x"), Equation>>)>>),
     b |-> Library(<<D("def", <<"h">>, <<"x">>, <<Matched("x", <<Rowed(C("A", <<>>), V("h"))>>)>>)>>)]
Path(s) == CASE s = "main" -> <<"main">> [] s = "a" -> <<"lib", "a">> [] s = "b" -> <<"lib", "b">>
Imp(path, alias) == [path |-> path, alias |-> alias]
BaseLine == Imp(<<"Base">>, "")
Imports(file) ==
    CASE file = "main" -> {<<>>, <<Imp(<<"lib", "a">>, "P")>>, <<Imp(<<"lib", "a">>, "P"), Imp(<<".", "lib", "b">>, "Q")>>,
                           <<BaseLine, Imp(<<"lib", "b">>, "Q"), Imp(<<"lib", "a">>, "P")>>,
                           <<Imp(<<"lib", "b">>, "Q"), Imp(<<"lib", "a">>, "Q")>>, <<Imp(<<"lib", "link">>, "P"), Imp(<<"lib", "b">>, "Q")>>}
      [] file = "a" -> {<<>>, <<BaseLine, Imp(<<"b">>, "Q")>>, <<Imp(<<"..", "lib", "b">>, "Q"), BaseLine>>, <<Imp(<<"..", "main">>, "Q")>>,
                        <<Imp(<<"..", "b">>, "Q")>>, <<Imp(<<"b">>, "?")>>, <<Imp(<<"0x", "b">>, "Q")>>}
      [] file = "b" -> {<<>>, <<Imp(<<"a">>, "P")>>, <<BaseLine>>}
Links == [path \in {Path("main"), Path("a"), Path("b"), <<"lib", "link">>} |->
             CASE path = Path("main") -> "main" [] path = Path("a") -> "a" [] OTHER -> "b"]

MCDisks ==
    {OneFile(<<Def1("m", e)>>, {}) : e \in Once \cup Twice}
    \cup {OneFile(<<AB, Def1("m", e)>>, {}) : e \in Bodies(Simple \cup Bodies(Simple))}
    \cup {Used(b, h, a1, a2) : b \in Templates \ {Make("g", Bin("*", V("t"), N(1)))}, h \in {V("t"), Make("h", V("t")), Make("h", V("x"))}, a1 \in Args, a2 \in Args}
    \cup {Used(Grows, V("t"), N(0), V("x"))}
    \cup {[Disk(Links, [main |-> m, a |-> a, b |-> b], Programs, {}) EXCEPT !.executable = x] :
             m \in Imports("main"), a \in Imports("a"), b \in Imports("b"), x \in BOOLEAN}

(***************************************************************************)
(* What loading a disk must give, and the claims about what it gave.       *)
(***************************************************************************)
Target(d, file, line) ==
    LET at == Normal(Directory(Path(file)) \o line.path) IN IF at \in DOMAIN d.links THEN d.links[at] ELSE "missing"
IsFile(line) == line.alias \notin {"", "?"}
Lines(d, file) == IF file = "missing" THEN {} ELSE Range(d.files[file].imports)
Edges(d, file) == {Target(d, file, line) : line \in {l \in Lines(d, file) : IsFile(l)}}
RECURSIVE Grown(_, _)
Grown(d, fs) == LET more == fs \cup UNION {Edges(d, f) : f \in fs} IN IF more = fs THEN fs ELSE Grown(d, more)
Reached(d) == Grown(d, {"main"})
Cyclic(d) == \E f \in Reached(d) : f \in Grown(d, Edges(d, f))
NamespaceOf(file) == IF file = "main" THEN <<>> ELSE Namespace(Path(file))

(* The files in the order of a depth-first walk, Base where first asked.   *)
Bundle(d) == IF d.executable THEN <<"<Base>", "<Base effects>">> ELSE <<"<Base>">>
RECURSIVE Walk(_, _, _)
Walk(d, file, done) ==
    IF file \in Range(done) THEN done
    ELSE Append(FoldLeft(LAMBDA fs, line : IF line.alias # "" THEN Walk(d, Target(d, file, line), fs)
                                           ELSE IF "<Base>" \in Range(fs) THEN fs ELSE fs \o Bundle(d),
                         done, d.files[file].imports), file)
Contents(d, file) ==
    LET aliases == IF file \in DOMAIN d.files
                   THEN [a \in {l.alias : l \in {k \in Lines(d, file) : IsFile(k)}} |->
                            NamespaceOf(Target(d, file, CHOOSE l \in Lines(d, file) : l.alias = a))] ELSE <<>>
        ds == CASE file = "<Base>" -> BaseProgram [] file = "<Base effects>" -> EffectsProgram [] OTHER -> d.program[file]
        ns == IF file \in DOMAIN d.files THEN NamespaceOf(file) ELSE <<>>
    IN  [i \in DOMAIN ds |-> [d |-> ds[i], ns |-> ns, aliases |-> aliases]]
Items(d) == LET files == Walk(d, "main", <<>>) IN FlattenSeq([i \in DOMAIN files |-> Contents(d, files[i])])
NamesOf(item) ==
    {item.ns \o item.d.s} \cup (IF item.d.f = "type" THEN {item.ns \o item.d.xs[i].s : i \in DOMAIN item.d.xs} ELSE {})
NamesAt(items, i, w) ==
    [ns |-> items[i].ns, aliases |-> items[i].aliases, known |-> UNION {NamesOf(items[j]) : j \in 1 .. i},
     templates |-> w.templates.declarations]
Reference(d, w) ==
    LET items == Items(d)
        ordinary == SelectSeq([i \in DOMAIN items |-> i], LAMBDA i : items[i].d.f # "template")
    IN  [k \in DOMAIN ordinary |-> MeantDeclaration(items[ordinary[k]].d, NamesAt(items, ordinary[k], w))]
Instances(w) ==
    UNION {{InstanceName(g, i - 1) : i \in DOMAIN w.templates.declarations[g].instances} : g \in DOMAIN w.templates.declarations}

WrittenIsRead(d, w) ==
    LET written == SelectSeq(w.book, LAMBDA e : e.n \notin Instances(w))
    IN  [i \in DOMAIN written |-> Entry(written[i])] = Reference(d, w)

RefusedWhy(d, why) ==
    LET lines == UNION {Lines(d, f) : f \in Reached(d)}
        syntax == \E l \in lines : l.alias = "?"
        twice == \E f \in Reached(d) : f # "missing" /\ Cardinality({l.alias : l \in Lines(d, f)}) < Len(d.files[f].imports)
        hub == \E l \in lines : l.path[1] = "0x"
    IN  CASE why = "done" -> ~Cyclic(d) /\ "missing" \notin Reached(d) /\ ~syntax /\ ~hub /\ ~twice
          [] why = "cycle" -> Cyclic(d)
          [] why = "missing" -> "missing" \in Reached(d)
          [] why = "limit" -> \/ d.program.main[2].xs[1] = Grows
                              \/ Cyclic(d) /\ Cardinality(Reached(d)) = MaxFiles
          [] why = "namespace" -> <<"lib", "link">> \in {l.path : l \in Lines(d, "main")}
          [] why = "import syntax" -> syntax
          [] why = "hub package" -> hub
          [] why = "duplicate alias" -> twice
          [] OTHER -> FALSE

RECURSIVE Mentioned(_)
Mentioned(t) == (IF t.k = "Ref" THEN {t.n} ELSE {}) \cup UNION {Mentioned(t.xs[i]) : i \in DOMAIN t.xs}
InstancesMeant(d, w) ==
    /\ \A j \in DOMAIN w.book : w.book[j].k = "Def" /\ w.book[j].body # <<>> =>
           \A n \in Mentioned(w.book[j].body[1]) \cap Instances(w) :
               Cardinality({i \in 1 .. j : w.book[i].n = n}) = 1
    /\ LET items == Items(d)
           names == NamesAt(items, Len(items), w)
       IN  \A i \in DOMAIN items : items[i].d.f = "template" =>
               LET keys == w.templates.declarations[items[i].d.s].instances
               IN  \A k \in DOMAIN keys : \E arg \in d.args :
                       LET instance == [items[i].d EXCEPT !.s = InstanceName(@, k - 1), !.xs = <<Replaced(@[1], <<"t">>, arg)>>]
                       IN  /\ <<Key(Meaning(arg, <<>>, <<"Nat">>, names))>> = keys[k]
                           /\ \E j \in DOMAIN w.book : Entry(w.book[j]) = MeantDeclaration(instance, names)
MCHolds(what, d, w, why) ==
    LET claim == CASE what = "read" -> WrittenIsRead(d, w)
                   [] what = "refused" -> RefusedWhy(d, why)
                   [] what = "instances" -> InstancesMeant(d, w)
    IN  claim
Claimed(what) == Holds(what, disk, world, outcome)

(* Reading gives back what was written: every declaration of every file    *)
(* once, after the declarations of its imports, its operators grouped by   *)
(* their levels and named by the nearest type, its names bound to the      *)
(* innermost variable or the declaration their alias and file allow.       *)
ReadsBack == outcome = "done" => Claimed("read")

(* A program is refused for what is wrong with it and only then: a cycle,  *)
(* a file that is not there, a bad header line, one file under two names,  *)
(* too many files at once, or a template that grows for ever.              *)
RefusesRight == outcome # "loading" => Claimed("refused")

(* A load ends with the program that was written or with the right reason. *)
LoadsRight == ReadsBack /\ RefusesRight

(* Equal closed arguments share one instance and different ones never do;  *)
(* an instance is its template with the argument in place of the parameter,*)
(* and stands in the book before every declaration that calls it.          *)
InstancesRight == outcome = "done" => Claimed("instances")
=============================================================================
