------------------------------- MODULE Syntax -------------------------------
(***************************************************************************)
(* The terms the parser builds (src/syntax/parser.rs), and what it does    *)
(* with whole terms: naming the operators for a type, measuring depth,     *)
(* substituting the argument of a template, and the key under which an     *)
(* instance of a template is shared.                                       *)
(*                                                                         *)
(* Every term is a node: its kind k, its name n (the segments between the  *)
(* dots; a quantity for All, Qua and Let), the variable v it mentions, its *)
(* children xs and for each child the variables binds that it binds.  own  *)
(* tells which template parameter the node stands for: the code compares   *)
(* addresses.  The bodies that surface.rs compiles (module Surface) stay   *)
(* nodes of kind Match, Row and Local here.                                *)
(***************************************************************************)
EXTENDS Integers, Sequences, SequencesExt, FiniteSets, TLC

Node(kind, name, binds, xs) == [k |-> kind, n |-> name, v |-> 0, own |-> 0, binds |-> binds, xs |-> xs]
Plain(kind, name, xs) == Node(kind, name, [i \in DOMAIN xs |-> <<>>], xs)

Var(name, id) == [Plain("Var", name, <<>>) EXCEPT !.v = id]
Ref(name) == Plain("Ref", name, <<>>)
Qua(q) == Plain("Qua", <<q>>, <<>>)
Typ(grade) == Plain("Typ", <<>>, <<grade>>)
Qnt == Plain("Qnt", <<>>, <<>>)
App(f, x) == Plain("App", <<>>, <<f, x>>)
Ann(x, type) == Plain("Ann", <<>>, <<x, type>>)
Eql(x, y, type) == Plain("Eql", <<>>, <<x, y, type>>)
Ctr(name, xs) == Plain("Ctr", name, xs)
Adt(name, xs) == Plain("Adt", name, xs)
Mat(name, arm, fallback) == Plain("Mat", name, <<arm, fallback>>)
Lam(id, body) == Node("Lam", <<>>, <<<<id>>>>, <<body>>)
All(q, id, domain, body) == Node("All", <<q>>, <<<<>>, <<id>>>>, <<domain, body>>)
Let(id, value, body) == Node("Let", <<"Lone">>, <<<<>>, <<id>>>>, <<value, body>>)

Applied(head, args) == FoldLeft(App, head, args)
Named(name, args) == Applied(Ref(name), args)
Listed(xs, nil, con) == FoldRight(LAMBDA x, tail : Ctr(con, <<x, tail>>), xs, nil)

(* Bodies: rows of patterns, and local bindings.                           *)
RECURSIVE PatternIds(_)
PatternIds(p) ==
    IF p.k = "Var" THEN <<p.v>> ELSE FlattenSeq([i \in DOMAIN p.xs |-> PatternIds(p.xs[i])])
AllIds(patterns) == FlattenSeq([i \in DOMAIN patterns |-> PatternIds(patterns[i])])
Row(patterns, body) ==
    LET xs == Append(patterns, body) IN Node("Row", <<>>, [i \in DOMAIN xs |-> AllIds(patterns)], xs)
Match(scrutinees, rows) == Plain("Match", <<ToString(Len(scrutinees))>>, scrutinees \o rows)
Local(q, patterns, values, body) ==
    Node("Local", <<q>>,
         [i \in 1 .. (2 * Len(patterns) + 1) |-> IF i \in (Len(patterns) + 1) .. (2 * Len(patterns)) THEN <<>> ELSE AllIds(patterns)],
         patterns \o values \o <<body>>)

(* Body::with_reusable: the copies of + binders go below the patterns.     *)
RECURSIVE WithReusable(_, _)
WithReusable(body, bindings) ==
    IF bindings = <<>> THEN body
    ELSE IF body.k \in {"Match", "Row"} \/ (body.k = "Local" /\ body.xs[1].k = "Ctr")
    THEN [body EXCEPT !.xs = [i \in DOMAIN @ |->
             IF @[i].k = "Row" \/ (body.k # "Match" /\ i = Len(@)) THEN WithReusable(@[i], bindings) ELSE @[i]]]
    ELSE FoldRight(LAMBDA b, rest : Local("Many", <<Var(b.value.n, b.id)>>, <<b.value>>, rest), bindings, body)

(* An operator is a name that starts with a dot, until a type is known.    *)
Methods == {"add", "sub", "mul", "div", "mod", "is_lt", "is_le", "is_gt", "is_ge", "or", "xor", "and", "shln", "shrn"}
IsOperator(t) == t.k \in {"Ref", "GpuRef"} /\ Len(t.n) = 2 /\ t.n[1] = "" /\ t.n[2] \in Methods
RECURSIVE QualifyOperators(_, _)
QualifyOperators(t, namespace) ==
    IF IsOperator(t) THEN [t EXCEPT !.n = Append(namespace, t.n[2])]
    ELSE LET xs == [i \in DOMAIN t.xs |-> QualifyOperators(t.xs[i], namespace)]
         IN  [t EXCEPT !.xs = xs, !.own = IF xs = <<>> \/ (t.k = "Ctr" /\ xs = t.xs) THEN t.own ELSE 0]

RECURSIVE TermDepth(_)
TermDepth(t) ==
    IF t.xs = <<>> THEN 0
    ELSE 1 + FoldLeft(LAMBDA m, x : IF TermDepth(x) > m THEN TermDepth(x) ELSE m, 0, t.xs)
WithinTermDepth(t, limit) == TermDepth(t) <= limit

RECURSIVE Substitute(_, _, _)
Substitute(t, id, value) ==
    IF t.k = "Var" /\ t.v = id THEN value
    ELSE [t EXCEPT !.xs = [i \in DOMAIN @ |-> Substitute(@[i], id, value)], !.own = 0]

(* The structure of a term: bound variables by position, names by text.    *)
(* A variable of the caller has no position and makes the term open.       *)
\* Mutant: variables of the caller do not make an argument open.
ClosedAlways(t, scope) == TRUE
RECURSIVE Closed(_, _)
Closed(t, scope) ==
    IF t.k = "Var" THEN t.v \in Range(scope)
    ELSE \A i \in DOMAIN t.xs : Closed(t.xs[i], scope \o t.binds[i])
RECURSIVE TemplateKey(_, _)
TemplateKey(t, scope) ==
    IF t.k = "Var"
    THEN [k |-> "Var", xs |-> <<>>,
          n |-> <<ToString(IF t.v \in Range(scope) THEN Len(scope) - SelectLastInSeq(scope, LAMBDA id : id = t.v) ELSE - t.v)>>]
    ELSE [k |-> t.k, n |-> t.n, xs |-> [i \in DOMAIN t.xs |-> TemplateKey(t.xs[i], scope \o t.binds[i])]]

(* The datatype or definition a type starts with; <<>> when it has none.   *)
RECURSIVE TypeHead(_)
TypeHead(t) ==
    CASE t.k \in {"Ref", "GpuRef", "Var", "Adt"} -> t.n
      [] t.k = "App" -> TypeHead(t.xs[1])
      [] OTHER -> <<>>

RECURSIVE NatTerm(_, _)
NatTerm(n, tail) == IF n = 0 THEN tail ELSE Ctr(<<"Succ">>, <<NatTerm(n - 1, tail)>>)
Zero == Ctr(<<"Zero">>, <<>>)
RECURSIVE NatValue(_)
NatValue(t) ==
    CASE t = Zero -> 0
      [] t.k = "Ctr" /\ t.n = <<"Succ">> /\ Len(t.xs) = 1 /\ NatValue(t.xs[1]) >= 0 -> NatValue(t.xs[1]) + 1
      [] OTHER -> -1
=============================================================================
