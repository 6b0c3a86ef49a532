---------------------------- MODULE KernelCheck ----------------------------
(***************************************************************************)
(* The proof checker (kernel/check.rs) as a function from a declaration to *)
(* a verdict: inference and checking rules, resource use, structural       *)
(* descent, and the validation of one declaration.  Diagnostics are left   *)
(* out; a rejection is Fail, whatever its wording.                         *)
(***************************************************************************)
EXTENDS Kernel

(* A declaration.  `names' are the parameter identities of a definition    *)
(* that completes an earlier law.                                          *)
Def(name, parameters, ty, body) ==
    [sort |-> "Def", name |-> name, parameters |-> parameters, completes |-> FALSE,
     names |-> <<>>, ty |-> ty, body |-> body, unsafe |-> FALSE, foreign |-> FALSE]
Constructor(name, fields) == [name |-> name, fields |-> fields]
Data(name, parameters, kind, constructors) ==
    [sort |-> "Adt", name |-> name, parameters |-> parameters, kind |-> kind,
     constructors |-> constructors]

Put(f, key, value) == [k \in DOMAIN f \cup {key} |-> IF k = key THEN value ELSE f[k]]
Drop(f, keys) == [k \in DOMAIN f \ keys |-> f[k]]
Engine(next, depth) ==
    [defs |-> <<>>, adts |-> <<>>, alias |-> <<>>, contracts |-> {}, next |-> next, depth |-> depth]

(* The equation being defined, as far as its patterns are known.           *)
Lhs(name, remaining, quants, unsafe) ==
    [name |-> name, equation |-> Ref(name), remaining |-> remaining, quants |-> quants,
     unsafe |-> unsafe]
NoLhs == Lhs("", 0, <<>>, FALSE)
DomainKind(lhs, q) == Kind(IF lhs.unsafe /\ q = Many THEN Lone ELSE q)

(* How often each variable is used.                                        *)
NoUses == <<>>
UsesOf(uses, id) == IF id \in DOMAIN uses THEN uses[id] ELSE None
AddUses(a, b) == [id \in DOMAIN a \cup DOMAIN b |-> Add(UsesOf(a, id), UsesOf(b, id))]
JoinUses(a, b) == [id \in DOMAIN a \cup DOMAIN b |-> Max({UsesOf(a, id), UsesOf(b, id)})]

Fail == [ok |-> FALSE]
Typed(ty, uses) == [ok |-> TRUE, ty |-> ty, uses |-> uses]
AddTo(r, uses) == IF r.ok THEN [r EXCEPT !.uses = AddUses(uses, @)] ELSE Fail
Require(condition, r) == IF condition THEN r ELSE Fail

(* check_usage closes a binder: it was used no more than it permits.       *)
CheckUsage(r, b) ==
    IF r.ok /\ UsesOf(r.uses, b.id) <= b.quant THEN [r EXCEPT !.uses = Drop(@, {b.id})] ELSE Fail

Remaining(e, t) ==
    SelectSeq(e.adts[t.label].constructors, LAMBDA c : c.name \notin t.out)
KnownData(e, t) ==
    /\ t.tag = "Adt" /\ t.label \in DOMAIN e.adts
    /\ Len(t.kids) = Len(e.adts[t.label].parameters)
    /\ t.out \subseteq {c.name : c \in Range(e.adts[t.label].constructors)}
Constructors(e, t) == Range(Remaining(e, t))
Named1(cs, name) == CHOOSE c \in cs : c.name = name
Fields(e, t, c) ==
    LET ids == [k \in DOMAIN t.kids |-> e.adts[t.label].parameters[k].id]
    IN  [k \in DOMAIN c.fields |-> [c.fields[k] EXCEPT !.ty = SubstituteAll(@, ids, t.kids)]]

RECURSIVE Strip(_, _), Descend(_, _, _, _)

(* Structural descent sees through annotations and lets only.              *)
Strip(e, t) ==
    CASE e.depth = 0 -> Err
      [] t.tag = "Ann" -> Strip(Deeper(e), t.kids[1])
      [] t.tag = "Var" /\ t.ids[1] \in DOMAIN e.alias -> Strip(Deeper(e), e.alias[t.ids[1]])
      [] OTHER -> t

(* Is an argument a part of (-1), the same as (0), or neither (1) the      *)
(* pattern in its column?                                                  *)
Descend(e, q, arg, column) ==
    LET d == Deeper(e)
        a == Strip(e, arg)
        p == Strip(e, column)
        fields == [k \in DOMAIN p.kids |-> Descend(d, Lone, a.kids[k], p.kids[k])]
        componentwise ==
            FoldLeft(LAMBDA order, f : IF order = 1 \/ f = 0 THEN order ELSE f, 0, fields)
    IN  CASE e.depth = 0 -> 1
          [] q = None -> 0
          [] p.tag = "Var" -> IF a = p THEN 0 ELSE 1
          [] p.tag = "Ctr" ->
               IF a.tag = "Ctr" /\ a.label = p.label /\ Len(a.kids) = Len(p.kids) /\ componentwise # 1
               THEN componentwise
               ELSE IF \E k \in DOMAIN p.kids : Descend(d, Lone, a, p.kids[k]) # 1 THEN -1 ELSE 1
          [] OTHER -> 1

(* A mistake: some argument shrinks, whatever the ones before it do.       *)
DecreasesAnywhere(e, lhs, args) ==
    LET columns == Spine(lhs.equation).args
        n == Min({Len(args), Len(columns), Len(lhs.quants)})
    IN  \E k \in 1..n : Descend(e, lhs.quants[k], args[k], columns[k]) = -1

(* A live self-call reads its arguments from left to right: each passed    *)
(* unchanged until one shrinks.                                            *)
Decreases(e, lhs, args) ==
    LET columns == Spine(lhs.equation).args
        n == Min({Len(args), Len(columns), Len(lhs.quants)})
        orders == [k \in 1..n |-> Descend(e, lhs.quants[k], args[k], columns[k])]
    IN  \E k \in 1..n : orders[k] = -1 /\ \A j \in 1..(k - 1) : orders[j] = 0

RECURSIVE Infer(_, _, _, _, _, _), Check(_, _, _, _, _, _)

InferReference(e, lhs, t, demand, args) ==
    LET name == t.label
    IN  IF name \in DOMAIN e.adts
        THEN Require(e.adts[name].parameters = <<>>, Typed(e.adts[name].kind, NoUses))
        ELSE IF name \notin DOMAIN e.defs THEN Fail
        ELSE Require(/\ demand # None /\ name = lhs.name /\ ~lhs.unsafe => Decreases(e, lhs, args)
                     /\ demand # None /\ name # lhs.name =>
                            e.defs[name].body # NoBody \/ name \in e.contracts,
                     Typed(e.defs[name].ty, NoUses))

(* A function type: the domain has the kind its quantity asks for.         *)
InferAll(e, lhs, t, ctx) ==
    LET b == Binder(t.quants[1], t.ids[1], t.kids[1])
    IN  Require(/\ Check(e, lhs, b.ty, None, DomainKind(lhs, b.quant), ctx).ok
                /\ b.id \notin DOMAIN ctx
                /\ Check(Beyond(e, <<t>>), lhs, t.kids[2], None, Kind(Lone), Put(ctx, b.id, b)).ok,
                Typed(Kind(Lone), NoUses))

InferApp(e, lhs, t, demand, ctx, args) ==
    LET f == t.kids[1]
        x == t.kids[2]
        called == Infer(e, lhs, f, demand, ctx, <<x>> \o args)
        ft == Whnf(e, called.ty)
        given == Check(e, lhs, x, Demand(ft.quants[1], demand), ft.kids[1], ctx)
    IN  IF f.tag = "Lam" THEN Infer(e, lhs, Applied(f, x), demand, ctx, args)
        ELSE IF ~called.ok \/ ft.tag # "All" \/ ~given.ok THEN Fail
        ELSE Typed(Substitute(ft.kids[2], ft.ids[1], x), AddUses(called.uses, given.uses))

(* The arguments of a datatype or a constructor against its telescope.     *)
CheckArguments(e, lhs, telescope, args, demand, ctx) ==
    LET step(r, x) ==
            LET t == Whnf(e, r.ty)
                given == Check(e, lhs, x, Demand(t.quants[1], demand), t.kids[1], ctx)
            IN  IF ~r.ok \/ t.tag # "All" \/ ~given.ok THEN Fail
                ELSE Typed(Substitute(t.kids[2], t.ids[1], x), AddUses(r.uses, given.uses))
    IN  FoldLeft(LAMBDA r, x : IF r.ok THEN step(r, x) ELSE Fail, Typed(telescope, NoUses), args)

InferAdt(e, lhs, t, demand, ctx) ==
    LET adt == e.adts[t.label]
    IN  IF KnownData(e, t)
        THEN CheckArguments(e, lhs, Arrows(adt.parameters, adt.kind), t.kids, demand, ctx)
        ELSE Fail

InferEql(e, lhs, t, ctx) ==
    Require(/\ Check(e, lhs, t.kids[3], None, Kind(Lone), ctx).ok
            /\ \A k \in {1, 2} : Check(e, lhs, t.kids[k], None, t.kids[3], ctx).ok,
            Typed(Kind(Many), NoUses))

InferAnn(e, lhs, t, demand, ctx) ==
    LET value == Check(e, lhs, t.kids[1], demand, t.kids[2], ctx)
    IN  Require(Check(e, lhs, t.kids[2], None, Kind(Lone), ctx).ok /\ value.ok,
                Typed(t.kids[2], value.uses))

InferMin(e, lhs, t, demand, ctx) ==
    LET sides == [k \in {1, 2} |-> Check(e, lhs, t.kids[k], demand, Qnt, ctx)]
    IN  Require(sides[1].ok /\ sides[2].ok, Typed(Qnt, AddUses(sides[1].uses, sides[2].uses)))

Infer(e, lhs, t, demand, ctx, args) ==
    LET d == Deeper(e)
    IN  CASE e.depth = 0 -> Fail
          [] t.tag = "Var" ->
               IF t.ids[1] \in DOMAIN ctx
               THEN Typed(ctx[t.ids[1]].ty, [id \in {t.ids[1]} |-> demand]) ELSE Fail
          [] t.tag = "Ref" -> InferReference(d, lhs, t, demand, args)
          [] t.tag = "Typ" ->
               Require(Check(d, lhs, t.kids[1], None, Qnt, ctx).ok, Typed(Kind(Lone), NoUses))
          [] t.tag = "Qnt" -> Typed(Kind(Lone), NoUses)
          [] t.tag = "Qua" -> Typed(Qnt, NoUses)
          [] t.tag = "Min" -> InferMin(d, lhs, t, demand, ctx)
          [] t.tag = "All" -> InferAll(d, lhs, t, ctx)
          [] t.tag = "App" -> InferApp(d, lhs, t, demand, ctx, args)
          [] t.tag = "Adt" -> InferAdt(d, lhs, t, demand, ctx)
          [] t.tag = "Eql" -> InferEql(d, lhs, t, ctx)
          [] t.tag = "Ann" -> InferAnn(d, lhs, t, demand, ctx)
          [] OTHER -> Fail

CheckLam(e, lhs, t, demand, ty, ctx) ==
    LET all == Whnf(e, ty)
        x == NewId(e, <<t, all>>)
        b == Binder(all.quants[1], x, all.kids[1])
        inner == IF lhs.remaining = 0 THEN lhs
                 ELSE [lhs EXCEPT !.equation = Applied(@, Var(x)), !.remaining = @ - 1]
        body == Check([e EXCEPT !.next = x + 1], inner, Substitute(t.kids[1], t.ids[1], Var(x)), demand,
                      Substitute(all.kids[2], all.ids[1], Var(x)), Put(ctx, x, b))
    IN  IF all.tag = "All" THEN CheckUsage(body, b) ELSE Fail

(* Simultaneous bindings: values in the outer scope, the body under all.   *)
CheckLet(e, lhs, t, demand, ty, ctx) ==
    LET count == Len(t.ids)
        values == [k \in 1..count |-> Infer(e, lhs, t.kids[k], Demand(t.quants[k], demand), ctx, <<>>)]
        binders == [k \in 1..count |-> Binder(t.quants[k], t.ids[k], values[k].ty)]
        bound == Range(t.ids)
        at(id) == CHOOSE k \in 1..count : t.ids[k] = id
        inside == [id \in DOMAIN ctx \cup bound |-> IF id \in bound THEN binders[at(id)] ELSE ctx[id]]
        aliased == [Beyond(e, <<t>>) EXCEPT !.alias =
                      [id \in DOMAIN @ \cup bound |-> IF id \in bound THEN t.kids[at(id)] ELSE @[id]]]
        body == Check(aliased, lhs, Last(t.kids), demand, ty, inside)
        closed == FoldLeft(CheckUsage, body, binders)
    IN  IF /\ bound \cap DOMAIN ctx = {} /\ Cardinality(bound) = count
           /\ \A k \in 1..count :
                /\ values[k].ok
                /\ Check(e, lhs, values[k].ty, None, DomainKind(lhs, t.quants[k]), ctx).ok
        THEN FoldLeft(LAMBDA r, v : AddTo(r, v.uses), closed, values)
        ELSE Fail

CheckCtr(e, lhs, t, demand, ty, ctx) ==
    LET data == Whnf(e, ty)
        cs == Constructors(e, data)
        c == Named1(cs, t.label)
    IN  IF /\ KnownData(e, data)
           /\ \E k \in cs : k.name = t.label
           /\ Len(c.fields) = Len(t.kids)
        THEN CheckArguments(e, lhs, Arrows(Fields(e, data, c), data), t.kids, demand, ctx)
        ELSE Fail

CheckRfl(e, ty) ==
    LET t == Whnf(e, ty)
    IN  Require(t.tag = "Eql" /\ Compare(e, "Equal", t.kids[1], t.kids[2]), Typed(ty, NoUses))

(* Transport along an equation, at a motive over its right side.           *)
CheckRwt(e, lhs, t, demand, ty, ctx) ==
    LET evidence == t.kids[1]
        motive == t.kids[2]
        known == Infer(e, lhs, evidence, demand, ctx, <<>>)
        eql == Whnf(e, known.ty)
        x == NewId(e, <<t, eql>>)
        over == Arrows(<<Binder(Lone, x, eql.kids[3]),
                         Binder(Lone, x + 1, Eql(eql.kids[1], Var(x), eql.kids[3]))>>, Kind(Lone))
        premise == Apply(motive, <<eql.kids[1], Rfl>>)
    IN  IF /\ known.ok /\ eql.tag = "Eql"
           /\ Check([e EXCEPT !.next = x + 2], lhs, motive, None, over, ctx).ok
           /\ Compare(e, "Fits", Apply(motive, <<eql.kids[2], evidence>>), ty)
        THEN AddTo(Check(e, lhs, t.kids[3], demand, premise, ctx), known.uses)
        ELSE Fail

(* Some live variable has a type without values: nothing runs here.        *)
ContextDead(e, ctx) ==
    \E id \in DOMAIN ctx :
        LET t == Whnf(e, ctx[id].ty)
        IN  ctx[id].quant # None /\ KnownData(e, t) /\ Remaining(e, t) = <<>>

(* The arm of a matched constructor: fresh fields, the goal at that        *)
(* constructor, and the equation with the pattern in its place.            *)
CheckArm(e, lhs, t, demand, all, data, ctx) ==
    LET c == Named1(Constructors(e, data), t.label)
        fields == Fields(e, data, c)
        first == NewId(e, <<t, all, data>> \o [k \in DOMAIN fields |-> fields[k].ty])
        vars == [k \in DOMAIN fields |-> Var(first + k - 1)]
        olds == [k \in DOMAIN fields |-> fields[k].id]
        fresh == [k \in DOMAIN fields |->
                    Binder(Product(fields[k].quant, all.quants[1]), first + k - 1,
                           SubstituteAll(fields[k].ty, SubSeq(olds, 1, k - 1), SubSeq(vars, 1, k - 1)))]
        value == Ctr(t.label, vars)
        goal == Arrows(fresh, Substitute(all.kids[2], all.ids[1], value))
        inner == IF lhs.remaining = 0 THEN lhs
                 ELSE [lhs EXCEPT !.equation = Lambdas(fresh, Applied(@, value)),
                                  !.remaining = @ - 1 + Len(fields)]
    IN  Check([e EXCEPT !.next = first + Len(fields)], inner, t.kids[1], demand, goal, ctx)

CheckFallback(e, lhs, t, demand, all, data, ctx) ==
    LET residual == [all EXCEPT !.kids[1] = Adt(data.label, data.kids, data.out \cup {t.label})]
    IN  Check(e, lhs, t.kids[2], demand, residual, ctx)

(* An erased scrutinee cannot decide anything that runs.                   *)
LiveScrutinee(demand, all) == demand = None \/ all.quants[1] # None

CheckMatch(e, lhs, t, demand, ty, ctx) ==
    LET all == Whnf(e, ty)
        data == Whnf(e, all.kids[1])
        arm == CheckArm(e, lhs, t, demand, all, data, ctx)
        fallback == CheckFallback(e, lhs, t, demand, all, data, ctx)
    IN  IF all.tag # "All" \/ ~LiveScrutinee(demand, all) \/ ~KnownData(e, data) THEN Fail
        ELSE IF t.tag = "Efq"
        THEN Require(Remaining(e, data) = <<>> \/ ContextDead(e, ctx), Typed(ty, NoUses))
        ELSE IF \A c \in Constructors(e, data) : c.name # t.label THEN Fail
        ELSE IF arm.ok /\ fallback.ok THEN Typed(ty, JoinUses(arm.uses, fallback.uses)) ELSE Fail

(* No other form checks against its type directly: infer, then compare.    *)
CheckInferred(e, lhs, t, demand, ty, ctx) ==
    LET observed == Infer(e, lhs, t, demand, ctx, <<>>)
    IN  IF observed.ok /\ Compare(e, "Fits", observed.ty, ty) THEN observed ELSE Fail

Check(e, lhs, t, demand, ty, ctx) ==
    LET d == Deeper(e)
    IN  CASE e.depth = 0 \/ t.tag = "Hole" -> Fail
          [] t.tag = "Lam" -> CheckLam(d, lhs, t, demand, ty, ctx)
          [] t.tag = "Let" -> CheckLet(d, lhs, t, demand, ty, ctx)
          [] t.tag = "Ctr" -> CheckCtr(d, lhs, t, demand, ty, ctx)
          [] t.tag \in {"Mat", "Efq"} -> CheckMatch(d, lhs, t, demand, ty, ctx)
          [] t.tag = "Rfl" -> CheckRfl(d, ty)
          [] t.tag = "Rwt" -> CheckRwt(d, lhs, t, demand, ty, ctx)
          [] OTHER -> CheckInferred(e, lhs, t, demand, ty, ctx)
-----------------------------------------------------------------------------
Rejected == [ok |-> FALSE]
Accepted(e) == [ok |-> TRUE, engine |-> e]

(* Highest identity of a declaration, and its hole if it has one.          *)
TermsOf(d) ==
    IF d.sort = "Def" THEN <<d.ty, d.body>>
    ELSE <<d.kind>> \o [k \in DOMAIN d.parameters |-> d.parameters[k].ty]
         \o FlattenSeq([c \in DOMAIN d.constructors |->
                [k \in DOMAIN d.constructors[c].fields |-> d.constructors[c].fields[k].ty]])
BindersOf(d) ==
    IF d.sort = "Def" THEN Range(d.names) \cup {p.id : p \in Range(d.parameters)}
    ELSE {p.id : p \in Range(d.parameters)}
         \cup UNION {{f.id : f \in Range(c.fields)} : c \in Range(d.constructors)}
HighestOf(d) ==
    Max({0} \cup BindersOf(d) \cup {Highest(t) : t \in Range(TermsOf(d))})
Holed(d) == \E t \in Range(TermsOf(d)) : HasHole(t)

(* A datatype: every field in a telescope after the parameters, an affine  *)
(* field at the kind of the whole datatype.                                *)
FieldKind(d, c, k) ==
    IF k > Len(d.parameters) /\ (d.parameters \o c.fields)[k].quant = Lone
    THEN d.kind ELSE Kind((d.parameters \o c.fields)[k].quant)
FieldsOk(e, d, c) ==
    LET telescope == d.parameters \o c.fields
        before(k) == SubSeq(telescope, 1, k - 1)
        ctx(k) == [id \in {b.id : b \in Range(before(k))} |->
                     CHOOSE b \in Range(before(k)) : b.id = id]
    IN  \A k \in DOMAIN telescope :
            /\ \A j \in 1..(k - 1) : telescope[j].id # telescope[k].id
            /\ Check(e, NoLhs, telescope[k].ty, None, FieldKind(d, c, k), ctx(k)).ok

ValidateAdt(e, d) ==
    LET known == [e EXCEPT !.adts = Put(@, d.name, d)]
    IN  IF /\ d.name \notin DOMAIN e.adts \cup DOMAIN e.defs
           /\ \A c \in Range(d.constructors) : \A a \in DOMAIN e.adts :
                c.name \notin {k.name : k \in Range(e.adts[a].constructors)}
           /\ Cardinality({c.name : c \in Range(d.constructors)}) = Len(d.constructors)
           /\ Check(known, NoLhs, Arrows(d.parameters, d.kind), None, Kind(Lone), <<>>).ok
           /\ Whnf(known, d.kind).tag = "Typ"
           /\ \A k \in DOMAIN d.constructors : FieldsOk(known, d, d.constructors[k])
        THEN Accepted(known) ELSE Rejected

(* The parameters a definition declares, with the quantities of its type;  *)
(* those of a completed law come from the type alone.                      *)
CompleteParameters(e, d) ==
    LET ids == IF d.completes THEN d.names ELSE [k \in DOMAIN d.parameters |-> d.parameters[k].id]
        step(r, id) ==
            LET t == Whnf(e, r.ty)
            IN  IF ~r.ok \/ t.tag # "All" THEN Fail
                ELSE [ok |-> TRUE, binders |-> Append(r.binders, Binder(t.quants[1], id, t.kids[1])),
                      ty |-> IF d.completes THEN Substitute(t.kids[2], t.ids[1], Var(id)) ELSE t.kids[2]]
    IN  IF Cardinality(Range(ids)) # Len(ids) THEN Fail
        ELSE FoldLeft(LAMBDA r, id : IF r.ok THEN step(r, id) ELSE Fail,
                      [ok |-> TRUE, binders |-> <<>>, ty |-> d.ty], ids)

(* May this declaration stand here: a new name, or the body of an open law *)
(* of the same type?                                                       *)
Admissible(e, d, foreign) ==
    LET again == d.name \in DOMAIN e.defs
    IN  /\ d.name \notin DOMAIN e.adts
        /\ d.completes => again /\ d.body # NoBody /\ ~foreign
        /\ again =>
            /\ e.defs[d.name].body = NoBody /\ d.name \notin e.contracts
            /\ d.body # NoBody \/ foreign
            /\ Compare(e, "Equal", e.defs[d.name].ty, d.ty)

(* While its own body is checked a definition is known by its type alone.  *)
Pending(e, d) == [e EXCEPT !.defs = Put(@, d.name, [d EXCEPT !.body = NoBody])]

ValidateDefinition(e, d, foreign, unsafe) ==
    LET completed == CompleteParameters(Pending(e, d), d)
        checked == [d EXCEPT !.parameters = IF d.completes THEN completed.binders ELSE @,
                             !.completes = FALSE, !.names = <<>>]
        quants == [k \in DOMAIN completed.binders |-> completed.binders[k].quant]
        lhs == Lhs(d.name, Len(checked.parameters), quants, unsafe)
    IN  IF /\ Admissible(e, d, foreign)
           /\ Check(Pending(e, d), Lhs(d.name, 0, <<>>, unsafe), d.ty, None, Kind(Lone), <<>>).ok
           /\ completed.ok
           /\ d.body # NoBody => Check(Pending(e, checked), lhs, d.body, Lone, d.ty, <<>>).ok
        THEN Accepted([e EXCEPT !.defs = Put(@, d.name, checked)]) ELSE Rejected

(* Strict proof checking takes neither unsafe nor foreign definitions.     *)
ValidateDef(e, d) ==
    IF d.unsafe \/ d.foreign THEN Rejected ELSE ValidateDefinition(e, d, FALSE, FALSE)

Validate(e, d) == IF d.sort = "Adt" THEN ValidateAdt(e, d) ELSE ValidateDef(e, d)
OpenLaws(e) == {name \in DOMAIN e.defs : e.defs[name].body = NoBody} \ e.contracts

(* A call from outside: exactly the declared arguments, each of its type.  *)
ArgumentsOk(e, name, args) ==
    LET base == Beyond(e, args)
        step(r, x) ==
            LET t == Whnf(base, r.ty)
            IN  IF ~r.ok \/ t.tag # "All" THEN Fail
                ELSE Require(Check(base, NoLhs, x, Demand(t.quants[1], Lone), t.kids[1], <<>>).ok,
                             [ok |-> TRUE, ty |-> Substitute(t.kids[2], t.ids[1], x)])
    IN  /\ name \in DOMAIN e.defs
        /\ \A k \in DOMAIN args : ~HasHole(args[k])
        /\ Len(args) = Len(e.defs[name].parameters)
        /\ FoldLeft(LAMBDA r, x : IF r.ok THEN step(r, x) ELSE Fail,
                    [ok |-> TRUE, ty |-> e.defs[name].ty], args).ok
Evaluate(e, name, args) == Normalize(Beyond(e, args), Apply(Ref(name), args))
=============================================================================
