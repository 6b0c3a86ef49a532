------------------------------- MODULE Kernel -------------------------------
(***************************************************************************)
(* Core terms and their reduction (kernel/term.rs, fresh.rs, reduce.rs).   *)
(*                                                                         *)
(* A term is one kind of record whatever its constructor: its tag, a       *)
(* label, the binders it introduces (ids and quantities), its children,    *)
(* and for a datatype the constructors already excluded.  A binder scopes  *)
(* over the last child.  Printed names are left out.  `!' references       *)
(* reduce like plain ones and are not told apart.                          *)
(*                                                                         *)
(* An engine e holds the declarations, the aliases of the lets being       *)
(* checked, the next identifier that is in use nowhere, and how deep a     *)
(* computation may still nest.  That one depth stands for both of the      *)
(* program's budgets (2,000,000 steps, 128 frames); Err is a computation   *)
(* that ran out of it.                                                     *)
(***************************************************************************)
EXTENDS Integers, Sequences, FiniteSets, SequencesExt, FiniteSetsExt

(* Quantities: erased, affine, reusable.                                   *)
None == 0
Lone == 1
Many == 2
Add(p, q) == IF p = None THEN q ELSE IF q = None THEN p ELSE Many
Demand(q, outer) == IF q = None THEN None ELSE outer
Product(p, q) == CASE p = None -> None [] p = Lone -> q [] p = Many -> Add(q, q)

Node(tag, label, quants, ids, kids, out) ==
    [tag |-> tag, label |-> label, quants |-> quants, ids |-> ids, kids |-> kids, out |-> out]
Plain(tag, kids) == Node(tag, "", <<>>, <<>>, kids, {})
Named(tag, label, kids) == Node(tag, label, <<>>, <<>>, kids, {})
Var(id) == Node("Var", "", <<>>, <<id>>, <<>>, {})
Ref(name) == Named("Ref", name, <<>>)
Typ(q) == Plain("Typ", <<q>>)
Qnt == Plain("Qnt", <<>>)
Qua(q) == Node("Qua", "", <<q>>, <<>>, <<>>, {})
Min2(a, b) == Plain("Min", <<a, b>>)
All(q, id, domain, body) == Node("All", "", <<q>>, <<id>>, <<domain, body>>, {})
Lam(id, body) == Node("Lam", "", <<>>, <<id>>, <<body>>, {})
App(f, x) == Plain("App", <<f, x>>)
Adt(name, args, out) == Node("Adt", name, <<>>, <<>>, args, out)
Ctr(name, args) == Named("Ctr", name, args)
Mat(name, arm, fallback) == Named("Mat", name, <<arm, fallback>>)
Efq == Plain("Efq", <<>>)
Eql(a, b, ty) == Plain("Eql", <<a, b, ty>>)
Rfl == Plain("Rfl", <<>>)
Rwt(evidence, motive, body) == Plain("Rwt", <<evidence, motive, body>>)
Hole == Plain("Hole", <<>>)
Ann(value, ty) == Plain("Ann", <<value, ty>>)
Let(quants, ids, values, body) == Node("Let", "", quants, ids, Append(values, body), {})
Err == Plain("Err", <<>>)

Kind(q) == Typ(Qua(q))
Binder(q, id, ty) == [quant |-> q, id |-> id, ty |-> ty]

(* A declaration without a body is a law.                                  *)
NoBody == Plain("NoBody", <<>>)

Arrows(binders, result) ==
    FoldRight(LAMBDA b, body : All(b.quant, b.id, b.ty, body), binders, result)
Lambdas(binders, result) == FoldRight(LAMBDA b, body : Lam(b.id, body), binders, result)

Binds(t) == t.tag \in {"All", "Lam", "Let"}
Scoped(t, k) == Binds(t) /\ k = Len(t.kids)

RECURSIVE Substitute(_, _, _), Highest(_), HasHole(_)

(* Replace a variable; the children a binder of the same identity scopes   *)
(* over are left alone, and nothing is renamed.                            *)
Substitute(t, id, x) ==
    IF t.tag = "Var" THEN IF t.ids[1] = id THEN x ELSE t
    ELSE [t EXCEPT !.kids =
            [k \in DOMAIN @ |-> IF Scoped(t, k) /\ id \in Range(t.ids) THEN @[k]
                                ELSE Substitute(@[k], id, x)]]
SubstituteAll(t, ids, values) ==
    FoldLeft(LAMBDA body, k : Substitute(body, ids[k], values[k]), t, [k \in DOMAIN ids |-> k])

(* inspect: the highest identity, and whether there is a hole.             *)
Highest(t) == Max({0} \cup Range(t.ids) \cup {Highest(t.kids[k]) : k \in DOMAIN t.kids})
HasHole(t) == t.tag = "Hole" \/ \E k \in DOMAIN t.kids : HasHole(t.kids[k])

(* An identity in use nowhere: neither around nor inside these terms.      *)
NewId(e, terms) == Max({e.next} \cup {1 + Highest(terms[k]) : k \in DOMAIN terms})
Beyond(e, terms) == [e EXCEPT !.next = NewId(e, terms)]
Deeper(e) == [e EXCEPT !.depth = @ - 1]

RECURSIVE Freshen(_, _)

(* Give every binder of t an identity of its own, from n on.               *)
Freshen(n, t) ==
    LET count == IF Binds(t) THEN Len(t.ids) ELSE 0
        fresh == [k \in 1..count |-> n + k - 1]
        opened == [k \in DOMAIN t.kids |->
                     IF Scoped(t, k) THEN SubstituteAll(t.kids[k], t.ids, [j \in DOMAIN fresh |-> Var(fresh[j])])
                     ELSE t.kids[k]]
        visit(done, kid) ==
            LET r == Freshen(done.next, kid)
            IN  [next |-> r.next, kids |-> Append(done.kids, r.term)]
        all == FoldLeft(visit, [next |-> n + count, kids |-> <<>>], opened)
    IN  [next |-> all.next,
         term |-> [t EXCEPT !.kids = all.kids, !.ids = IF Binds(t) THEN fresh ELSE @]]
FreshBody(e, body, around) == Freshen(NewId(e, Append(around, body)), body).term

RECURSIVE Spine(_)

(* A mistake: the arguments are collected from the outside in and stay so. *)
SpineUnreversed(t) ==
    IF t.tag = "App"
    THEN LET s == Spine(t.kids[1]) IN [s EXCEPT !.args = <<t.kids[2]>> \o @]
    ELSE [head |-> t, args |-> <<>>]
Spine(t) ==
    IF t.tag = "App"
    THEN LET s == Spine(t.kids[1]) IN [s EXCEPT !.args = Append(@, t.kids[2])]
    ELSE [head |-> t, args |-> <<>>]
Applied(f, x) == IF f.tag = "Lam" THEN Substitute(f.kids[1], f.ids[1], x) ELSE App(f, x)
Apply(f, args) == FoldLeft(Applied, f, args)
Unlet(t) == SubstituteAll(Last(t.kids), t.ids, Front(t.kids))

(* What a pass over a spine leaves: a result, or a term to go on with.     *)
Break(t) == [done |-> TRUE, term |-> t]
Continue(t) == [done |-> FALSE, term |-> t]
Stuck == Plain("Stuck", <<>>)

RECURSIVE Whnf(_, _), WhnfSpine(_, _), NamedPatterns(_, _, _, _, _), Consume(_, _, _, _)

(* The smaller of two quantities, as far as it is known.                   *)
WhnfMin(e, t) ==
    LET a == Whnf(e, t.kids[1])
        b == Whnf(e, t.kids[2])
    IN  CASE a = Err \/ a = Qua(None) -> a
          [] a = Qua(Many) -> b
          [] b = Err \/ b = Qua(None) \/ (a.tag = "Qua" /\ b = Qua(Lone)) -> b
          [] b = Qua(Many) -> a
          [] OTHER -> Min2(a, b)

Whnf(e, t) ==
    IF e.depth = 0 \/ t = Err THEN Err
    ELSE LET d == Deeper(e)
         IN  CASE t.tag = "Var" ->
                    IF t.ids[1] \in DOMAIN e.alias THEN Whnf(d, e.alias[t.ids[1]]) ELSE t
               [] t.tag = "Ann" -> Whnf(d, t.kids[1])
               [] t.tag = "Let" -> Whnf(d, Unlet(t))
               [] t.tag = "Min" -> WhnfMin(d, t)
               [] t.tag = "Rwt" ->
                    LET evidence == Whnf(d, t.kids[1])
                    IN  CASE evidence = Err -> Err
                          [] evidence = Rfl -> Whnf(d, t.kids[3])
                          [] OTHER -> t
               [] t.tag = "Ref" /\ t.label \in DOMAIN e.adts ->
                    IF e.adts[t.label].parameters = <<>> THEN Adt(t.label, <<>>, {}) ELSE t
               [] t.tag \in {"Ref", "App"} ->
                    LET r == WhnfSpine(d, t) IN IF r.done THEN r.term ELSE Whnf(d, r.term)
               [] OTHER -> t

(* A named call unfolds once it has its declared arguments; any other head *)
(* is computed and then meets its arguments one by one.                    *)
WhnfSpine(e, t) ==
    LET s == Spine(t)
        head == Whnf(e, s.head)
        step(r, x) ==
            LET next == IF r.term = Err THEN Err ELSE Consume(e, r.term, x, FALSE)
            IN  IF next = Stuck THEN [r EXCEPT !.term = App(@, x)]
                ELSE [term |-> next, moved |-> TRUE]
        met == FoldLeft(step, [term |-> head, moved |-> FALSE], s.args)
    IN  CASE s.head.tag = "Ref" /\ s.head.label \in DOMAIN e.defs ->
               LET def == e.defs[s.head.label]
                   n == Len(def.parameters)
               IN  IF def.body = NoBody \/ Len(s.args) < n THEN Break(t)
                   ELSE NamedPatterns(e, t, FreshBody(e, def.body, s.args),
                                      SubSeq(s.args, 1, n), SubSeq(s.args, n + 1, Len(s.args)))
          [] s.head.tag = "Ref" \/ s.args = <<>> -> Break(t)
          [] met.term = Err -> Break(Err)
          [] met.moved \/ Spine(met.term).head.tag = "Ref" -> Continue(met.term)
          [] OTHER -> Break(met.term)

(* The patterns at the front of an unfolded body take the arguments of the *)
(* call; a match that is not decided leaves the whole call as it was.      *)
NamedPatterns(e, original, body, pending, extra) ==
    LET x == Head(pending)
        rest == Tail(pending)
        d == Deeper(e)
        value == Whnf(d, x)
        evidence == Whnf(d, body.kids[1])
    IN  CASE e.depth = 0 -> Break(Err)
          [] pending = <<>> -> Continue(Apply(body, extra))
          [] body.tag = "Lam" -> NamedPatterns(d, original, Applied(body, x), rest, extra)
          [] body.tag = "Mat" ->
               CASE value = Err -> Break(Err)
                 [] value.tag # "Ctr" -> Break(original)
                 [] value.label = body.label ->
                      NamedPatterns(d, original, body.kids[1], value.kids \o rest, extra)
                 [] OTHER -> NamedPatterns(d, original, body.kids[2], <<value>> \o rest, extra)
          [] body.tag = "Efq" -> Break(original)
          [] body.tag = "Ann" -> NamedPatterns(d, original, body.kids[1], pending, extra)
          [] body.tag = "Let" -> NamedPatterns(d, original, Unlet(body), pending, extra)
          [] body.tag = "Rwt" /\ evidence = Err -> Break(Err)
          [] body.tag = "Rwt" /\ evidence = Rfl ->
               NamedPatterns(d, original, body.kids[3], pending, extra)
          [] OTHER -> Continue(Apply(body, pending \o extra))

(* One argument meets a computed head.  `residual': the argument fell      *)
(* through a match, so it is handed on even where nothing is decided.      *)
Consume(e, f, x, residual) ==
    LET d == Deeper(e)
        g == Whnf(d, f)
        value == Whnf(d, x)
    IN  IF e.depth = 0 \/ g = Err THEN Err
        ELSE CASE g.tag = "Lam" -> Applied(g, x)
               [] g.tag = "Mat" ->
                    CASE value = Err -> Err
                      [] value.tag # "Ctr" -> Stuck
                      [] value.label = g.label -> Whnf(d, Apply(g.kids[1], value.kids))
                      [] OTHER -> Consume(d, g.kids[2], value, TRUE)
               [] g.tag = "Efq" -> Stuck
               [] OTHER -> IF residual THEN App(g, x) ELSE Stuck

RECURSIVE Normalize(_, _)

(* Reduce everywhere, under binders too, which get fresh identities.       *)
Normalize(e, t) ==
    LET d == Deeper(e)
        v == Whnf(d, t)
        id == NewId(d, <<v>>)
        open == [k \in DOMAIN v.kids |->
                   IF Scoped(v, k) THEN Substitute(v.kids[k], v.ids[1], Var(id)) ELSE v.kids[k]]
        kids == [k \in DOMAIN v.kids |-> Normalize(d, open[k])]
    IN  IF e.depth = 0 \/ v = Err THEN Err
        ELSE IF \E k \in DOMAIN kids : kids[k] = Err THEN Err
        ELSE [v EXCEPT !.kids = kids, !.ids = IF Binds(v) THEN <<id>> ELSE @]

RECURSIVE Compare(_, _, _, _)

CompareList(e, a, b) ==
    Len(a) = Len(b) /\ \A k \in DOMAIN a : Compare(e, "Equal", a[k], b[k])

(* The kind of a reusable value fits wherever an affine one is asked for.  *)
CompareKinds(e, mode, a, b) ==
    LET g == Whnf(e, a.kids[1])
        h == Whnf(e, b.kids[1])
    IN  CASE mode = "Equal" -> Compare(e, mode, a.kids[1], b.kids[1])
          [] g = Err \/ h = Err -> FALSE
          [] g = Qua(Many) \/ h \in {Qua(None), Qua(Lone)} -> TRUE
          [] g.tag = "Min" -> \A k \in {1, 2} : Compare(e, mode, Typ(g.kids[k]), b)
          [] h.tag = "Min" -> \E k \in {1, 2} : Compare(e, mode, a, Typ(h.kids[k]))
          [] OTHER -> Compare(e, mode, g, h)

CompareFunctions(e, mode, a, b) ==
    LET x == Var(NewId(e, <<a, b>>))
    IN  /\ a.quants = b.quants
        /\ Compare(e, mode, b.kids[1], a.kids[1])
        /\ Compare(e, mode, Substitute(a.kids[2], a.ids[1], x), Substitute(b.kids[2], b.ids[1], x))

CompareData(e, mode, a, b) ==
    /\ a.label = b.label
    /\ mode = "Equal" => Cardinality(a.out) = Cardinality(b.out)
    /\ b.out \subseteq a.out
    /\ CompareList(e, a.kids, b.kids)

(* Are two terms convertible ("Equal"), or does the left one fit where the *)
(* right one is expected ("Fits")?  Running out of budget is not a yes.    *)
Compare(e, mode, left, right) ==
    LET d == Deeper(e)
        a == Whnf(d, left)
        b == Whnf(d, right)
        eta == <<Var(NewId(d, <<a, b>>))>>
    IN  CASE e.depth = 0 -> FALSE
          [] left = right -> TRUE
          [] a = Err \/ b = Err -> FALSE
          [] a = b -> TRUE
          [] "Lam" \in {a.tag, b.tag} -> Compare(d, mode, Apply(a, eta), Apply(b, eta))
          [] a.tag # b.tag -> FALSE
          [] a.tag = "Typ" -> CompareKinds(d, mode, a, b)
          [] a.tag = "All" -> CompareFunctions(d, mode, a, b)
          [] a.tag = "Adt" -> CompareData(d, mode, a, b)
          [] a.tag \in {"Ctr", "Mat", "Min", "App", "Eql", "Rwt"} ->
               a.label = b.label /\ CompareList(d, a.kids, b.kids)
          [] OTHER -> FALSE
=============================================================================
