------------------------------ MODULE Surface ------------------------------
(***************************************************************************)
(* The match compiler (syntax/surface.rs): bodies with nested patterns,    *)
(* several scrutinees and local bindings become core terms, where a match  *)
(* takes one argument and tests one constructor.                           *)
(*                                                                         *)
(* The driver is a machine with a stack of its own.  `current' is a body   *)
(* or a matrix of patterns to compile, or a finished value on its way back *)
(* to the frames in `saved'.  Source positions and printed names are left  *)
(* out, and with them the parts of Pattern, Body and SurfaceTerm that only *)
(* carry or free them.                                                     *)
(***************************************************************************)
EXTENDS Kernel

CONSTANTS
    Sources,    \* sets of what is compiled: a body and its parameters
    Limit       \* levels of nesting (64)

VARIABLES
    source,
    current,
    saved,      \* frames that wait for a value, innermost last
    fresh,      \* the next identity
    outcome     \* "open", "done" or "error"

bodyVars == <<source, current, saved, fresh, outcome>>

PVar(id) == [name |-> "", id |-> id, fields |-> <<>>]
PCtr(name, fields) == [name |-> name, id |-> 0, fields |-> fields]
IsConstructor(p) == p.name # ""

Reply(value) == [kind |-> "Reply", value |-> value]
Local(patterns, quant, values, body) ==
    [kind |-> "Local", patterns |-> patterns, quant |-> quant, values |-> values, body |-> body]
Row(patterns, body) == [patterns |-> patterns, body |-> body]
Match(scrutinees, rows) == [kind |-> "Match", scrutinees |-> scrutinees, rows |-> rows]

(* A mapped body: every term in it, in the rows and below the locals.      *)
RECURSIVE Replace(_, _, _), WithReusable(_, _)
ReplaceTerms(ts, id, x) == [k \in DOMAIN ts |-> Substitute(ts[k], id, x)]
Replace(body, id, x) ==
    CASE body.kind = "Reply" -> Reply(Substitute(body.value, id, x))
      [] body.kind = "Local" ->
           [body EXCEPT !.values = ReplaceTerms(@, id, x), !.body = Replace(@, id, x)]
      [] body.kind = "Match" ->
           [body EXCEPT !.scrutinees = ReplaceTerms(@, id, x),
                        !.rows = [k \in DOMAIN @ |-> [@[k] EXCEPT !.body = Replace(@, id, x)]]]

(* with_reusable: the copies of `+' binders are bound below the matches,   *)
(* since a match cannot look at a local binding.                           *)
WithReusable(body, bindings) ==
    CASE bindings = <<>> -> body
      [] body.kind = "Local" /\ IsConstructor(Head(body.patterns)) ->
           [body EXCEPT !.body = WithReusable(@, bindings)]
      [] body.kind = "Match" ->
           [body EXCEPT !.rows = [k \in DOMAIN @ |-> [@[k] EXCEPT !.body = WithReusable(@, bindings)]]]
      [] OTHER ->
           FoldRight(LAMBDA b, rest : Local(<<PVar(b[1])>>, Many, <<b[2]>>, rest), bindings, body)

Matrix(scrutinees, rows, binders) == [scrutinees |-> scrutinees, rows |-> rows, vars |-> binders]
MatchCall(matrix, depth) == [matrix |-> matrix, pending |-> <<>>, depth |-> depth]
OnBody(body, binders, depth) == [kind |-> "Body", body |-> body, vars |-> binders, depth |-> depth]
OnMatch(call) == [kind |-> "Match", call |-> call]
OnValue(term, parents) == [kind |-> "Value", term |-> term, parents |-> parents]
Saved(kind, parent) == [kind |-> kind, parent |-> parent]

Abstract(binders, body) == FoldRight(LAMBDA id, t : Lam(id, t), binders, body)

SurfaceInit ==
    /\ \E batch \in Sources : source \in batch
    /\ current = OnBody(source.body, source.vars, 0)
    /\ saved = <<>> /\ fresh = source.fresh /\ outcome = "open"

Goes(next) == current' = next /\ UNCHANGED <<source, fresh, outcome>>
Fails == outcome' = "error" /\ UNCHANGED <<source, current, saved, fresh>>

(* flatten_driver on a body.                                               *)
Body == current.body
AtBody(kind) == outcome = "open" /\ current.kind = "Body" /\ current.depth < Limit /\ Body.kind = kind

FlattenReply ==
    /\ AtBody("Reply")
    /\ Goes(OnValue(Abstract(current.vars, Body.value), <<>>))
    /\ UNCHANGED saved

FlattenMatch ==
    /\ AtBody("Match")
    /\ Goes(OnMatch(MatchCall(Matrix(Body.scrutinees, Body.rows, current.vars), current.depth + 1)))
    /\ UNCHANGED saved

(* A binding with one constructor pattern is a match with one row.         *)
OpensOne == Len(Body.patterns) = 1 /\ IsConstructor(Body.patterns[1])
FlattenOpen ==
    /\ AtBody("Local") /\ OpensOne
    /\ LET rows == <<Row(Body.patterns, Body.body)>>
       IN  Goes(OnMatch(MatchCall(Matrix(Body.values, rows, current.vars), current.depth + 1)))
    /\ UNCHANGED saved

FlattenLocal ==
    /\ AtBody("Local") /\ ~OpensOne
    /\ IF \E k \in DOMAIN Body.patterns : IsConstructor(Body.patterns[k]) THEN Fails
       ELSE LET names == [k \in DOMAIN Body.patterns |-> Body.patterns[k].id]
            IN  /\ saved' = Append(saved, [kind |-> "Local", vars |-> current.vars, names |-> names,
                                           quant |-> Body.quant, values |-> Body.values])
                /\ Goes(OnBody(Body.body, names, current.depth + 1))

TooDeep ==
    /\ outcome = "open"
    /\ CASE current.kind = "Body" -> current.depth >= Limit
         [] current.kind = "Match" -> current.call.depth + Len(current.call.pending) >= Limit
         [] OTHER -> FALSE
    /\ Fails
-----------------------------------------------------------------------------
(* flatten_match_step: the first column of a matrix against the first      *)
(* binder that is left.                                                    *)
MatrixCall == current.call
Scrutinees == MatrixCall.matrix.scrutinees
Clauses == MatrixCall.matrix.rows
Binders == MatrixCall.matrix.vars
AtMatch == outcome = "open" /\ current.kind = "Match" /\ MatrixCall.depth + Len(MatrixCall.pending) < Limit
Column == AtMatch /\ Scrutinees # <<>> /\ Binders # <<>>
First == Head(Binders)
IsBinder == Scrutinees[1].tag = "Var" /\ Scrutinees[1].ids[1] \in Range(Binders)
OnFirst == IsBinder /\ Scrutinees[1].ids[1] = First
Heads == [k \in DOMAIN Clauses |-> Clauses[k].patterns[1]]
Tests == {k \in DOMAIN Clauses : IsConstructor(Heads[k])}
Under(kind, matrix, extra) ==
    /\ saved' = Append(saved, [kind |-> kind, parent |-> MatrixCall, wrap |-> extra])
    /\ Goes(OnMatch(MatchCall(matrix, MatrixCall.depth + 1)))

MatchAnswer ==
    /\ AtMatch /\ Scrutinees = <<>>
    /\ IF Clauses = <<>> THEN Fails
       ELSE /\ saved' = Append(saved, Saved("BodyReturn", MatrixCall))
            /\ Goes(OnBody(Clauses[1].body, Binders, MatrixCall.depth + 1))

(* A scrutinee that is no parameter or field, or comes out of order.       *)
MatchUnbound == AtMatch /\ Scrutinees # <<>> /\ Binders = <<>> /\ Fails

(* A column of variables: they are other names of the binder.              *)
MatchVariables ==
    /\ Column /\ IsBinder /\ Tests = {} /\ Clauses # <<>>
    /\ LET rename(row) == Row(Tail(row.patterns), Replace(row.body, row.patterns[1].id, Scrutinees[1]))
       IN  Under("Continue", Matrix(Tail(Scrutinees), [k \in DOMAIN Clauses |-> rename(Clauses[k])], Binders), <<>>)

MatchAbsurd ==
    /\ Column /\ OnFirst /\ Clauses = <<>>
    /\ Goes(OnValue(Efq, <<MatrixCall>>))
    /\ UNCHANGED saved

MatchSkip ==
    /\ Column /\ ~OnFirst /\ ~(IsBinder /\ Tests = {} /\ Clauses # <<>>)
    /\ Under("Continue", [MatrixCall.matrix EXCEPT !.vars = Tail(@)], <<First>>)

(* The constructor that is tested is the first one in the column.          *)
Tested == Heads[Min(Tests)]
Opened == Tested.fields
FieldIds ==
    LET rank(k) == Cardinality({j \in 1..(k - 1) : IsConstructor(Opened[j])})
    IN  [k \in DOMAIN Opened |-> IF IsConstructor(Opened[k]) THEN fresh + rank(k) ELSE Opened[k].id]
FieldVars == [k \in DOMAIN Opened |-> Var(FieldIds[k])]
Arity == Len(Opened)

(* The rows under the constructor, and the ones that remain without it.  A *)
(* variable goes both ways.  The binder itself becomes the opened value.   *)
Positive ==
    LET value == Ctr(Tested.name, FieldVars)
        open(row) ==
            LET p == row.patterns[1]
            IN  IF IsConstructor(p)
                THEN Row(p.fields \o Tail(row.patterns), Replace(row.body, First, value))
                ELSE Row([k \in 1..Arity |-> PVar(FieldIds[k])] \o Tail(row.patterns),
                         Replace(Replace(row.body, p.id, Var(First)), First, value))
        kept == SelectSeq(Clauses, LAMBDA row : row.patterns[1].name \in {"", Tested.name})
    IN  [k \in DOMAIN kept |-> open(kept[k])]

(* A mistake: a variable is forgotten once a constructor was tested.       *)
NegativeTests == SelectSeq(Clauses, LAMBDA row : row.patterns[1].name \notin {"", Tested.name})

Negative == SelectSeq(Clauses, LAMBDA row : row.patterns[1].name # Tested.name)
Misfits == \E k \in Tests : Heads[k].name = Tested.name /\ Len(Heads[k].fields) # Arity
NextMatrix == Matrix(FieldVars \o Tail(Scrutinees), Positive, FieldIds \o Tail(Binders))
FallbackMatrix == Matrix(Scrutinees, Negative, Binders)
Allocate == fresh' = fresh + Cardinality({k \in DOMAIN Opened : IsConstructor(Opened[k])})

MatchMisfit == Column /\ OnFirst /\ Tests # {} /\ Misfits /\ Fails

(* Without fields the same call goes on, and its fallback is pending.      *)
MatchNullary ==
    /\ Column /\ OnFirst /\ Tests # {} /\ ~Misfits /\ Arity = 0
    /\ current' = OnMatch([MatrixCall EXCEPT !.matrix = NextMatrix,
                                       !.pending = Append(@, [name |-> Tested.name, matrix |-> FallbackMatrix])])
    /\ UNCHANGED <<source, saved, fresh, outcome>>

MatchFields ==
    /\ Column /\ OnFirst /\ Tests # {} /\ ~Misfits /\ Arity > 0
    /\ Allocate
    /\ saved' = Append(saved, [kind |-> "Arm", parent |-> MatrixCall, name |-> Tested.name, fallback |-> FallbackMatrix])
    /\ current' = OnMatch(MatchCall(NextMatrix, MatrixCall.depth + 1))
    /\ UNCHANGED <<source, outcome>>
-----------------------------------------------------------------------------
(* A value returns to the pending tests of its call, then to the frames.   *)
Value == current.term
AtValue == outcome = "open" /\ current.kind = "Value"
Owed == current.parents # <<>> /\ current.parents[1].pending # <<>>
Frame == Last(saved)
AtFrame(kind) == AtValue /\ ~Owed /\ saved # <<>> /\ Frame.kind = kind
FallbackFrame(parent, name, arm) == [kind |-> "Fallback", parent |-> parent, name |-> name, arm |-> arm]

ReturnPending ==
    /\ AtValue /\ Owed
    /\ LET call == current.parents[1]
           test == Last(call.pending)
           parent == [call EXCEPT !.pending = Front(@)]
       IN  /\ saved' = Append(saved, FallbackFrame(parent, test.name, Value))
           /\ Goes(OnMatch(MatchCall(test.matrix, call.depth + 1)))

ReturnContinue ==
    /\ AtFrame("Continue")
    /\ saved' = Front(saved)
    /\ Goes(OnValue(Abstract(Frame.wrap, Value), <<Frame.parent>>))

ReturnArm ==
    /\ AtFrame("Arm")
    /\ saved' = Append(Front(saved), FallbackFrame(Frame.parent, Frame.name, Value))
    /\ Goes(OnMatch(MatchCall(Frame.fallback, Frame.parent.depth + 1)))

ReturnFallback ==
    /\ AtFrame("Fallback")
    /\ saved' = Front(saved)
    /\ Goes(OnValue(Mat(Frame.name, Frame.arm, Value), <<Frame.parent>>))

ReturnBody ==
    /\ AtFrame("BodyReturn")
    /\ saved' = Front(saved)
    /\ Goes(OnValue(Value, <<Frame.parent>>))

(* finish_local: the bound names are the outermost lambdas of the body, or *)
(* the body scrutinizes one of them.                                       *)
RECURSIVE Peel(_, _)
Peel(t, n) == IF n = 0 THEN t ELSE IF t.tag = "Lam" THEN Peel(t.kids[1], n - 1) ELSE Err
ReturnLocal ==
    /\ AtFrame("Local")
    /\ LET inner == Peel(Value, Len(Frame.names))
           quants == [k \in DOMAIN Frame.names |-> Frame.quant]
       IN  IF inner = Err THEN Fails
           ELSE /\ saved' = Front(saved)
                /\ Goes(OnValue(Abstract(Frame.vars, Let(quants, Frame.names, Frame.values, inner)), <<>>))

Compiled ==
    /\ AtValue /\ ~Owed /\ saved = <<>>
    /\ outcome' = "done"
    /\ UNCHANGED <<source, current, saved, fresh>>

SurfaceNext ==
    \/ FlattenReply \/ FlattenMatch \/ FlattenOpen \/ FlattenLocal \/ TooDeep
    \/ MatchAnswer \/ MatchUnbound \/ MatchVariables \/ MatchAbsurd \/ MatchSkip
    \/ MatchMisfit \/ MatchNullary \/ MatchFields
    \/ ReturnPending \/ ReturnContinue \/ ReturnArm \/ ReturnFallback \/ ReturnBody \/ ReturnLocal
    \/ Compiled

SurfaceSpec == SurfaceInit /\ [][SurfaceNext]_bodyVars
=============================================================================
