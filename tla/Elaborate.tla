----------------------------- MODULE Elaborate -----------------------------
(***************************************************************************)
(* Typed lowering of a checked program (kernel/elaborate.rs).  The types   *)
(* that the checker saw are rebuilt, without counting uses or descent, to  *)
(* tell what runs from what is erased.  Every parameter, argument and      *)
(* field keeps its quantity, so that a target can leave out the erased     *)
(* ones.  Unlowered is an error of the lowering: it would mean that an     *)
(* unchecked program got this far.                                         *)
(***************************************************************************)
EXTENDS KernelCheck

(* Expressions; a binder is kept as its quantity and identity.             *)
Expr(kind, name, quants, ids, kids) ==
    [kind |-> kind, name |-> name, quants |-> quants, ids |-> ids, kids |-> kids, left |-> 0]
Unlowered == Expr("Unlowered", "", <<>>, <<>>, <<>>)
Erased == Expr("Erased", "", <<>>, <<>>, <<>>)
Variable(id) == Expr("Variable", "", <<>>, <<id>>, <<>>)
Definition(name) == Expr("Definition", name, <<>>, <<>>, <<>>)
Lambda(q, id, body) == Expr("Lambda", "", <<q>>, <<id>>, <<body>>)
ApplyTo(q, f, x) == Expr("Apply", "", <<q>>, <<>>, <<f, x>>)
Construct(name, quants, values) == Expr("Constructor", name, quants, <<>>, values)
LetIn(quants, ids, values, body) == Expr("Let", "", quants, ids, Append(values, body))
Absurd(q, id) == Expr("Absurd", "", <<q>>, <<id>>, <<>>)

(* A match: its scrutinee first, then the fields; `left' constructors are  *)
(* not excluded when it is reached.                                        *)
MatchOn(name, quants, ids, arm, fallback, left) ==
    [Expr("Match", name, quants, ids, <<arm, fallback>>) EXCEPT !.left = left]
Whole(x) == IF \E k \in DOMAIN x.kids : x.kids[k] = Unlowered THEN Unlowered ELSE x

RECURSIVE TypeOf(_, _, _)

(* The type of a checked term, by its shape alone.                         *)
TypeOf(e, t, ctx) ==
    LET f == Whnf(e, TypeOf(Deeper(e), t.kids[1], ctx))
    IN  CASE e.depth = 0 -> Err
          [] t.tag = "Var" -> IF t.ids[1] \in DOMAIN ctx THEN ctx[t.ids[1]].ty ELSE Err
          [] t.tag = "Ref" ->
               IF t.label \in DOMAIN e.adts THEN e.adts[t.label].kind
               ELSE IF t.label \in DOMAIN e.defs THEN e.defs[t.label].ty ELSE Err
          [] t.tag \in {"Typ", "Qnt", "All"} -> Kind(Lone)
          [] t.tag \in {"Qua", "Min"} -> Qnt
          [] t.tag = "Adt" ->
               SubstituteAll(e.adts[t.label].kind,
                             [k \in DOMAIN t.kids |-> e.adts[t.label].parameters[k].id], t.kids)
          [] t.tag = "Eql" -> Kind(Many)
          [] t.tag = "Ann" -> t.kids[2]
          [] t.tag = "App" /\ t.kids[1].tag = "Lam" ->
               TypeOf(Deeper(e), Applied(t.kids[1], t.kids[2]), ctx)
          [] t.tag = "App" ->
               IF f.tag = "All" THEN Substitute(f.kids[2], f.ids[1], t.kids[2]) ELSE Err
          [] OTHER -> Err

RECURSIVE Lower(_, _, _, _, _)

LowerLam(e, t, ty, demand, ctx) ==
    LET f == Whnf(e, ty)
        id == t.ids[1]
        b == Binder(f.quants[1], id, f.kids[1])
    IN  IF f.tag # "All" \/ id \in DOMAIN ctx THEN Unlowered
        ELSE Whole(Lambda(b.quant, id,
                Lower(Beyond(e, <<f, t>>), t.kids[1], Substitute(f.kids[2], f.ids[1], Var(id)), demand,
                      Put(ctx, id, b))))

LowerApp(e, t, ty, demand, ctx) ==
    LET fty == TypeOf(e, t.kids[1], ctx)
        f == Whnf(e, fty)
    IN  IF t.kids[1].tag = "Lam" THEN Lower(e, Applied(t.kids[1], t.kids[2]), ty, demand, ctx)
        ELSE IF f.tag # "All" THEN Unlowered
        ELSE Whole(ApplyTo(f.quants[1], Lower(e, t.kids[1], fty, demand, ctx),
                           Lower(e, t.kids[2], f.kids[1], Demand(f.quants[1], demand), ctx)))

HasConstructor(e, data, name) ==
    KnownData(e, data) /\ \E c \in Constructors(e, data) : c.name = name

LowerCtr(e, t, ty, demand, ctx) ==
    LET data == Whnf(e, ty)
        fields == Fields(e, data, Named1(Constructors(e, data), t.label))
        olds == [k \in DOMAIN fields |-> fields[k].id]
        type(k) == SubstituteAll(fields[k].ty, SubSeq(olds, 1, k - 1), SubSeq(t.kids, 1, k - 1))
    IN  IF ~HasConstructor(e, data, t.label) THEN Unlowered
        ELSE IF Len(fields) # Len(t.kids) THEN Unlowered
        ELSE Whole(Construct(t.label, [k \in DOMAIN fields |-> fields[k].quant],
                [k \in DOMAIN fields |->
                    Lower(e, t.kids[k], type(k), Demand(fields[k].quant, demand), ctx)]))

(* A match is a function of its scrutinee, its arm one of the fields.      *)
LowerMatch(e, t, ty, demand, ctx) ==
    LET all == Whnf(e, ty)
        q == all.quants[1]
        data == Whnf(e, all.kids[1])
        fields == Fields(e, data, Named1(Constructors(e, data), t.label))
        first == NewId(e, <<t, all, data>> \o [k \in DOMAIN fields |-> fields[k].ty])
        vars == [k \in DOMAIN fields |-> Var(first + k - 1)]
        olds == [k \in DOMAIN fields |-> fields[k].id]
        fresh == [k \in DOMAIN fields |->
                    Binder(Product(fields[k].quant, q), first + k - 1,
                           SubstituteAll(fields[k].ty, SubSeq(olds, 1, k - 1), SubSeq(vars, 1, k - 1)))]
        goal == Arrows(fresh, Substitute(all.kids[2], all.ids[1], Ctr(t.label, vars)))
        residual == [all EXCEPT !.kids[1] = Adt(data.label, data.kids, data.out \cup {t.label})]
    IN  IF all.tag # "All" \/ ~KnownData(e, data) THEN Unlowered
        ELSE IF t.tag = "Efq" THEN Absurd(q, all.ids[1])
        ELSE IF ~HasConstructor(e, data, t.label) THEN Unlowered
        ELSE Whole(MatchOn(t.label, <<q>> \o [k \in DOMAIN fresh |-> fresh[k].quant],
                           all.ids \o [k \in DOMAIN fresh |-> fresh[k].id],
                           Lower([e EXCEPT !.next = first + Len(fields)], t.kids[1], goal, demand, ctx),
                           Lower(e, t.kids[2], residual, demand, ctx),
                           Len(Remaining(e, data))))

LowerLet(e, t, ty, demand, ctx) ==
    LET count == Len(t.ids)
        types == [k \in 1..count |-> TypeOf(e, t.kids[k], ctx)]
        at(id) == CHOOSE k \in 1..count : t.ids[k] = id
        bound == Range(t.ids)
        inside == [id \in DOMAIN ctx \cup bound |->
                     IF id \in bound THEN Binder(t.quants[at(id)], id, types[at(id)]) ELSE ctx[id]]
        aliased == [Beyond(e, <<t>>) EXCEPT !.alias =
                      [id \in DOMAIN @ \cup bound |-> IF id \in bound THEN t.kids[at(id)] ELSE @[id]]]
    IN  IF bound \cap DOMAIN ctx # {} THEN Unlowered
        ELSE Whole(LetIn(t.quants, t.ids,
                [k \in 1..count |-> Lower(e, t.kids[k], types[k], Demand(t.quants[k], demand), ctx)],
                Lower(aliased, Last(t.kids), ty, demand, inside)))

LowerRwt(e, t, demand, ctx) ==
    LET evidence == Whnf(e, TypeOf(e, t.kids[1], ctx))
    IN  IF evidence.tag # "Eql" THEN Unlowered
        ELSE Lower(e, t.kids[3], Apply(t.kids[2], <<evidence.kids[1], Rfl>>), demand, ctx)

(* Types and proofs lower to nothing.                                      *)
Lower(e, t, ty, demand, ctx) ==
    LET d == Deeper(e)
        goal == Whnf(d, ty)
    IN  CASE e.depth = 0 -> Unlowered
          [] demand = None -> Erased
          [] goal = Err -> Unlowered
          [] goal.tag \in {"Typ", "Qnt", "Eql"} -> Erased
          [] t.tag = "Var" -> IF t.ids[1] \in DOMAIN ctx THEN Variable(t.ids[1]) ELSE Unlowered
          [] t.tag = "Ref" -> IF t.label \in DOMAIN e.defs THEN Definition(t.label) ELSE Unlowered
          [] t.tag = "Lam" -> LowerLam(d, t, ty, demand, ctx)
          [] t.tag = "App" -> LowerApp(d, t, ty, demand, ctx)
          [] t.tag = "Ctr" -> LowerCtr(d, t, ty, demand, ctx)
          [] t.tag \in {"Mat", "Efq"} -> LowerMatch(d, t, ty, demand, ctx)
          [] t.tag = "Let" -> LowerLet(d, t, ty, demand, ctx)
          [] t.tag = "Ann" -> Lower(d, t.kids[1], t.kids[2], demand, ctx)
          [] t.tag = "Rwt" -> LowerRwt(d, t, demand, ctx)
          [] OTHER -> Unlowered

RECURSIVE References(_), Reachable(_, _)

(* Lower `main' and then whatever the lowered definitions mention.         *)
References(x) ==
    IF x.kind = "Definition" THEN {x.name} ELSE UNION {References(x.kids[k]) : k \in DOMAIN x.kids}
LowerDefinition(e, name) ==
    IF e.defs[name].body = NoBody THEN Unlowered
    ELSE Lower(e, e.defs[name].body, e.defs[name].ty, Lone, <<>>)
Reachable(e, program) ==
    LET missing == UNION {References(program[n]) : n \in DOMAIN program} \ DOMAIN program
        name == CHOOSE n \in missing : TRUE
    IN  IF missing = {} THEN program ELSE Reachable(e, Put(program, name, LowerDefinition(e, name)))
LowerProgram(e, entry) == Reachable(e, [n \in {entry} |-> LowerDefinition(e, entry)])
=============================================================================
