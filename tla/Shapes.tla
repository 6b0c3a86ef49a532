------------------------------- MODULE Shapes -------------------------------
(***************************************************************************)
(* When a native operation may stand for a definition (nat.rs, Shape and   *)
(* checked_optimizations): the definition, and all that it reaches, must   *)
(* be Base's up to the identities of binders.  Syntax is compared, nothing *)
(* is reduced; what is not understood is no match.                         *)
(***************************************************************************)
EXTENDS KernelCheck

RECURSIVE ShapeTerm(_, _, _), Mentions(_), Reached(_, _, _)

(* `pairs' relates the identities in scope, innermost last.                *)
ShapeTerm(pairs, actual, expected) ==
    LET same(k) == pairs[k][1] = actual.ids[1]
        found == {k \in DOMAIN pairs : same(k)}
        inner == pairs \o [k \in DOMAIN actual.ids |-> <<actual.ids[k], expected.ids[k]>>]
        under(k) == IF Scoped(actual, k) THEN inner ELSE pairs
    IN  CASE actual.tag # expected.tag \/ actual.tag \in {"Hole", "NoBody"} -> FALSE
          [] actual.tag = "Var" -> found # {} /\ pairs[Max(found)][2] = expected.ids[1]
          [] OTHER ->
               /\ actual.label = expected.label /\ actual.quants = expected.quants
               /\ actual.out = expected.out
               /\ Len(actual.ids) = Len(expected.ids) /\ Len(actual.kids) = Len(expected.kids)
               /\ \A k \in DOMAIN actual.kids : ShapeTerm(under(k), actual.kids[k], expected.kids[k])

PairIds(actual, expected, n) == [k \in 1..n |-> <<actual[k].id, expected[k].id>>]

(* A telescope: each type is compared under the binders before it.         *)
ShapeBinders(pairs, actual, expected) ==
    /\ Len(actual) = Len(expected)
    /\ \A k \in DOMAIN actual :
         /\ actual[k].quant = expected[k].quant
         /\ ShapeTerm(pairs \o PairIds(actual, expected, k - 1), actual[k].ty, expected[k].ty)

ShapeDefinition(actual, expected) ==
    /\ ~actual.foreign /\ ~actual.unsafe
    /\ ShapeBinders(<<>>, actual.parameters, expected.parameters)
    /\ ShapeTerm(<<>>, actual.ty, expected.ty)
    /\ ShapeTerm(<<>>, actual.body, expected.body)

ShapeDatatype(actual, expected) ==
    LET parameters == PairIds(actual.parameters, expected.parameters, Len(actual.parameters))
    IN  /\ Len(actual.constructors) = Len(expected.constructors)
        /\ ShapeBinders(<<>>, actual.parameters, expected.parameters)
        /\ ShapeTerm(parameters, actual.kind, expected.kind)
        /\ \A k \in DOMAIN actual.constructors :
             /\ actual.constructors[k].name = expected.constructors[k].name
             /\ ShapeBinders(parameters, actual.constructors[k].fields, expected.constructors[k].fields)

(* The declarations a term names.                                          *)
Mentions(t) ==
    (IF t.tag \in {"Ref", "Adt"} THEN {t.label} ELSE {})
    \cup UNION {Mentions(t.kids[k]) : k \in DOMAIN t.kids}
BinderMentions(binders) == UNION {Mentions(b.ty) : b \in Range(binders)}
DeclarationMentions(base, name) ==
    IF name \in DOMAIN base.defs
    THEN LET d == base.defs[name] IN BinderMentions(d.parameters) \cup Mentions(d.ty) \cup Mentions(d.body)
    ELSE LET d == base.adts[name]
         IN  BinderMentions(d.parameters) \cup Mentions(d.kind)
             \cup UNION {BinderMentions(c.fields) : c \in Range(d.constructors)}

ShapeMatches(e, base, name) ==
    \/ name \in DOMAIN base.defs /\ name \in DOMAIN e.defs /\ ShapeDefinition(e.defs[name], base.defs[name])
    \/ name \in DOMAIN base.adts /\ name \in DOMAIN e.adts /\ ShapeDatatype(e.adts[name], base.adts[name])

(* All that must match, reached from what is pending.                      *)
Reached(base, pending, checked) ==
    IF pending = {} THEN checked
    ELSE LET known == pending \cap ((DOMAIN base.defs) \cup DOMAIN base.adts)
             next == UNION {DeclarationMentions(base, name) : name \in known}
         IN  Reached(base, next \ (checked \cup pending), checked \cup pending)

(* A mistake: only the operation itself is compared.                       *)
OptimizesRoot(e, base, origins, name) ==
    name \in origins /\ ShapeMatches(e, base, name)

(* checked_optimizations, for one operation.                               *)
Optimizes(e, base, origins, name) ==
    \A n \in Reached(base, {name}, {}) : n \in origins /\ ShapeMatches(e, base, n)
=============================================================================
