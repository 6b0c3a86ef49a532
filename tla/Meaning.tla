------------------------------ MODULE Meaning ------------------------------
(***************************************************************************)
(* What a program means: the answer that call by name gives it, and        *)
(* whether call by value gives one.  No thunk, no sharing, no arena; the   *)
(* recursion is cut off after `fuel' nested steps, which stands for a      *)
(* program without an answer.                                              *)
(***************************************************************************)
EXTENDS Naturals, Sequences, SequencesExt

None == [kind |-> "None"]
Fun(id, body, env) == [kind |-> "Fun", id |-> id, body |-> body, env |-> env]
Case(term, env) == [kind |-> "Case", term |-> term, env |-> env]
Data(name, fields) == [kind |-> "Data", name |-> name, fields |-> fields]
Opaque == [kind |-> "Opaque"]

(* A delayed computation is a term with the environment it stands in, or   *)
(* an application of two such.                                             *)
Delay(term, env) == [term |-> term, env |-> env]
Bind(env, id, x) == [i \in DOMAIN env \cup {id} |-> IF i = id THEN x ELSE env[i]]

RECURSIVE Normal(_, _, _, _), Applied(_, _, _, _), Forced(_, _, _)

(* The head normal form of a term.                                         *)
Normal(p, t, env, fuel) ==
    IF fuel = 0 THEN None
    ELSE CASE t.op = "Var" -> Forced(p, env[t.id], fuel - 1)
           [] t.op = "Ref" -> Normal(p, p.definitions[t.name], <<>>, fuel - 1)
           [] t.op = "Lam" -> Fun(t.id, t.body, env)
           [] t.op = "Mat" -> Case(t, env)
           [] t.op = "App" ->
                Applied(p, Normal(p, t.function, env, fuel - 1),
                        Delay(t.argument, env), fuel - 1)
           [] t.op = "Ann" -> Normal(p, t.body, env, fuel - 1)
           [] t.op = "Let" ->
                LET bound == [i \in Range(t.ids) |->
                                Delay(t.values[CHOOSE k \in DOMAIN t.ids : t.ids[k] = i], env)]
                IN  Normal(p, t.body,
                         [i \in DOMAIN env \cup DOMAIN bound |->
                             IF i \in DOMAIN bound THEN bound[i] ELSE env[i]], fuel - 1)
           [] t.op = "Ctr" ->
                LET fields == [k \in DOMAIN t.args |-> Delay(t.args[k], env)]
                IN  IF p.strict /\ \E k \in DOMAIN fields : Forced(p, fields[k], fuel - 1) = None
                    THEN None ELSE Data(t.name, fields)
           [] OTHER -> Opaque

Forced(p, x, fuel) == IF fuel = 0 THEN None ELSE Normal(p, x.term, x.env, fuel - 1)

(* A function applied to a delayed argument.                               *)
Applied(p, f, x, fuel) ==
    IF fuel = 0 \/ f = None \/ (p.strict /\ Forced(p, x, fuel - 1) = None) THEN None
    ELSE IF f.kind = "Fun" THEN Normal(p, f.body, Bind(f.env, f.id, x), fuel - 1)
    ELSE LET data == Forced(p, x, fuel - 1)
             step(g, field) == Applied(p, g, field, fuel - 1)
         IN  IF data = None THEN None
             ELSE IF data.name = f.term.constructor
             THEN FoldLeft(step, Normal(p, f.term.arm, f.env, fuel - 1), data.fields)
             ELSE Applied(p, Normal(p, f.term.fallback, f.env, fuel - 1), x, fuel - 1)

RECURSIVE Whole(_, _, _)

(* The whole answer, a term of constructors.                               *)
Whole(p, v, fuel) ==
    IF v.kind # "Data" \/ fuel = 0 THEN None
    ELSE LET args == [k \in DOMAIN v.fields |->
                        Whole(p, Forced(p, v.fields[k], fuel), fuel - 1)]
         IN  IF \E k \in DOMAIN args : args[k] = None THEN None
             ELSE [op |-> "Ctr", name |-> v.name, args |-> args]

Answer(p, fuel) ==
    LET step(g, argument) == Applied(p, g, Delay(argument, <<>>), fuel)
    IN  Whole(p, FoldLeft(step, Normal(p, p.definitions[p.entry], <<>>, fuel), p.arguments), fuel)
=============================================================================
