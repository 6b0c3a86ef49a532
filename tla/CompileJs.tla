----------------------------- MODULE CompileJs -----------------------------
(***************************************************************************)
(* Code generation for JavaScript (compiler/executable_javascript.rs), and *)
(* the core of the runtime that its output calls (executable_core.js).     *)
(* Generated text is a tree here.  Erased parameters, arguments and fields *)
(* are left out; a call in tail position returns a jump, and a constructor *)
(* in tail position an unfinished node, to the nearest `run'.  The native  *)
(* forms of Base's own datatypes and the step budget are left out.         *)
(***************************************************************************)
EXTENDS Elaborate

Code(op, name, ids, kids, tail) ==
    [op |-> op, name |-> name, ids |-> ids, kids |-> kids, tail |-> tail]
Null == Code("null", "", <<>>, <<>>, FALSE)
Throw == Code("throw", "", <<>>, <<>>, FALSE)
CompileError == Code("error", "", <<>>, <<>>, FALSE)
Closure(id, body) == Code("closure", "", <<id>>, <<body>>, FALSE)
Call(f, args, tail) == Code("apply", "", <<>>, <<f>> \o args, tail)

(* The positions of what is not erased.                                    *)
LiveAt(quants) == SelectSeq([k \in DOMAIN quants |-> k], LAMBDA k : quants[k] # None)

RECURSIVE Generate(_, _), CallSpine(_)

(* A spine of applications: its head and the arguments that run.           *)
CallSpine(x) ==
    IF x.kind # "Apply" THEN [head |-> x, args |-> <<>>]
    ELSE LET s == CallSpine(x.kids[1])
         IN  IF x.quants[1] = None THEN s ELSE [s EXCEPT !.args = Append(@, x.kids[2])]

GenerateApply(x, tail) ==
    LET s == CallSpine(x)
    IN  IF s.args = <<>> THEN Generate(s.head, tail)
        ELSE Call(Generate(s.head, FALSE),
                  [k \in DOMAIN s.args |-> Generate(s.args[k], FALSE)], tail)

(* Only the last field of a constructor may be left to the nearest run.    *)
GenerateConstructor(x, tail) ==
    LET live == LiveAt(x.quants)
        values == [k \in DOMAIN live |->
                     Generate(x.kids[live[k]], tail /\ k = Len(live))]
    IN  Code(IF tail /\ live # <<>> THEN "constructTail" ELSE "construct", x.name, <<>>, values, tail)

(* A mistake: no match on at most two constructors is tested.              *)
ConditionTwo(x) == IF x.left <= 2 THEN "true" ELSE "matches"

(* The last constructor that can be left needs no test.                    *)
Condition(x) == IF x.left = 1 THEN "true" ELSE "matches"

(* A function of the scrutinee: the arm applied to the live fields, or the *)
(* fallback to the scrutinee itself.                                       *)
GenerateMatch(x) ==
    LET scrutinee == x.ids[1]
        live == LiveAt(Tail(x.quants))
        field(k) == Code("field", x.name, <<scrutinee, k>>, <<>>, FALSE)
        branch == IF live = <<>> THEN Generate(x.kids[1], TRUE)
                  ELSE Call(Generate(x.kids[1], FALSE), [k \in DOMAIN live |-> field(k)], TRUE)
        other == Call(Generate(x.kids[2], FALSE), <<Code("var", "", <<scrutinee>>, <<>>, FALSE)>>, TRUE)
    IN  IF x.quants[1] = None THEN CompileError
        ELSE Closure(scrutinee, Code(Condition(x), x.name, <<scrutinee>>, <<branch, other>>, TRUE))

GenerateLet(x, tail) ==
    LET live == LiveAt(x.quants)
    IN  Code("let", "", [k \in DOMAIN live |-> x.ids[live[k]]],
             Append([k \in DOMAIN live |-> Generate(x.kids[live[k]], FALSE)],
                    Generate(Last(x.kids), tail)), tail)

Generate(x, tail) ==
    CASE x.kind = "Erased" -> Null
      [] x.kind = "Variable" -> Code("var", "", x.ids, <<>>, FALSE)
      [] x.kind = "Definition" -> Code("definition", x.name, <<>>, <<>>, tail)
      [] x.kind = "Lambda" ->
           IF x.quants[1] = None THEN Generate(x.kids[1], tail)
           ELSE Closure(x.ids[1], Generate(x.kids[1], TRUE))
      [] x.kind = "Apply" -> GenerateApply(x, tail)
      [] x.kind = "Constructor" -> GenerateConstructor(x, tail)
      [] x.kind = "Match" -> GenerateMatch(x)
      [] x.kind = "Absurd" -> IF x.quants[1] = None THEN Throw ELSE Closure(x.ids[1], Throw)
      [] x.kind = "Let" -> GenerateLet(x, tail)
      [] OTHER -> CompileError

CompileExecutable(e, entry) ==
    LET program == LowerProgram(e, entry)
    IN  [n \in DOMAIN program |-> Generate(program[n], TRUE)]
-----------------------------------------------------------------------------
(* JavaScript values.  A failure is an exception or a run without an end.  *)
Js(sort, name, fields, code, env) ==
    [sort |-> sort, name |-> name, fields |-> fields, code |-> code, env |-> env]
JsNull == Js("null", "", <<>>, Null, <<>>)
JsFail == Js("fail", "", <<>>, Null, <<>>)
JsObject(name, fields) == Js("object", name, fields, Null, <<>>)
JsFunction(code, env) == Js("function", "", <<>>, code, env)
JsJump(f, args) == Js("jump", "", <<f>> \o args, Null, <<>>)
JsBuilding(name, fields, code, env) == Js("building", name, fields, code, env)
Failed(values) == \E k \in DOMAIN values : values[k] = JsFail

RECURSIVE Evaluated(_, _, _, _), Run(_, _, _), Invoke(_, _, _, _), ApplyAll(_, _, _, _, _)

(* run: follow jumps and fill unfinished nodes until a value is there.     *)
Run(p, v, fuel) ==
    IF fuel = 0 THEN JsFail
    ELSE CASE v.sort = "jump" /\ Len(v.fields) = 1 ->
                Run(p, Evaluated(p, v.fields[1].code, <<>>, fuel - 1), fuel - 1)
           [] v.sort = "jump" -> Run(p, Invoke(p, v.fields[1], v.fields[2], fuel - 1), fuel - 1)
           [] v.sort = "building" ->
                LET last == Run(p, Evaluated(p, v.code, v.env, fuel - 1), fuel - 1)
                IN  IF last = JsFail THEN JsFail ELSE JsObject(v.name, Append(v.fields, last))
           [] OTHER -> v

(* The body of a closure on its argument, without the run around it.       *)
Invoke(p, f, x, fuel) ==
    IF fuel = 0 \/ f.sort # "function" THEN JsFail
    ELSE Evaluated(p, f.code.kids[1], Put(f.env, f.code.ids[1], x), fuel - 1)

ApplyAll(p, f, args, tail, fuel) ==
    IF args = <<>> THEN f
    ELSE IF f.sort # "function" THEN JsFail
    ELSE IF tail /\ Len(args) = 1 THEN JsJump(f, args)
    ELSE ApplyAll(p, Run(p, Invoke(p, f, Head(args), fuel), fuel), Tail(args), tail, fuel)

EvaluateLet(p, c, env, fuel) ==
    LET bind(scope, k) ==
            IF scope.bad THEN scope
            ELSE LET v == Evaluated(p, c.kids[k], scope.env, fuel - 1)
                 IN  [bad |-> v = JsFail, env |-> Put(scope.env, c.ids[k], v)]
        all == FoldLeft(bind, [bad |-> FALSE, env |-> env], [k \in DOMAIN c.ids |-> k])
    IN  IF all.bad THEN JsFail ELSE Evaluated(p, Last(c.kids), all.env, fuel - 1)

EvaluateMatch(p, c, env, fuel) ==
    LET v == env[c.ids[1]]
    IN  IF c.op = "true" \/ (v.sort = "object" /\ v.name = c.name)
        THEN Evaluated(p, c.kids[1], env, fuel - 1)
        ELSE Evaluated(p, c.kids[2], env, fuel - 1)

Evaluated(p, c, env, fuel) ==
    LET kids == [k \in DOMAIN c.kids |-> Evaluated(p, c.kids[k], env, fuel - 1)]
    IN  IF fuel = 0 THEN JsFail
        ELSE CASE c.op = "null" -> JsNull
               [] c.op \in {"throw", "error"} -> JsFail
               [] c.op = "var" -> IF c.ids[1] \in DOMAIN env THEN env[c.ids[1]] ELSE JsFail
               [] c.op = "definition" ->
                    LET entry == JsJump(JsFunction(p[c.name], <<>>), <<>>)
                    IN  IF c.tail THEN entry ELSE Run(p, entry, fuel - 1)
               [] c.op = "closure" -> JsFunction(c, env)
               [] c.op = "apply" ->
                    IF Failed(kids) THEN JsFail
                    ELSE ApplyAll(p, kids[1], Tail(kids), c.tail, fuel - 1)
               [] c.op = "construct" -> IF Failed(kids) THEN JsFail ELSE JsObject(c.name, kids)
               [] c.op = "constructTail" ->
                    LET before == [k \in 1..(Len(c.kids) - 1) |-> kids[k]]
                    IN  IF Failed(before) THEN JsFail
                        ELSE JsBuilding(c.name, before, Last(c.kids), env)
               [] c.op = "field" ->
                    LET v == env[c.ids[1]]
                    IN  IF v.sort = "object" /\ c.ids[2] \in DOMAIN v.fields
                        THEN v.fields[c.ids[2]] ELSE JsFail
               [] c.op = "let" -> EvaluateLet(p, c, env, fuel)
               [] OTHER -> EvaluateMatch(p, c, env, fuel)

(* What the compiled program prints.                                       *)
RunMain(p, entry, fuel) == Run(p, JsJump(JsFunction(p[entry], <<>>), <<>>), fuel)
=============================================================================
