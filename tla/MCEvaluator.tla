---------------------------- MODULE MCEvaluator ----------------------------
(* Small checked programs for Evaluator, and what their answers should be. *)
EXTENDS Evaluator
M == INSTANCE Meaning

T == Ctr("T", <<>>)
F == Ctr("F", <<>>)
Z == Ctr("Z", <<>>)
S(n) == Ctr("S", <<n>>)
Nil == Ctr("Nil", <<>>)
List(h, t) == Ctr("Cons", <<h, t>>)
Pair(a, b) == Ctr("Pair", <<a, b>>)
Call2(f, a, b) == App(App(f, a), b)

(* A match with one arm for each of two constructors.                      *)
Cases(c1, arm1, c2, arm2) == Mat(c1, arm1, Mat(c2, arm2, Efq))

(* Recursion through data, accumulators, higher-order and shared           *)
(* arguments, an endless list, and definitions that demand themselves.     *)
Library ==
    [add |-> Cases("S", Lam(1, Lam(2, S(Call2(Ref("add"), Var(1), Var(2))))),
                   "Z", Lam(3, Var(3))),
     not |-> Cases("T", F, "F", T),
     map |-> Lam(1, Cases("Cons", Lam(2, Lam(3, List(App(Var(1), Var(2)),
                                                   Call2(Ref("map"), Var(1), Var(3))))),
                          "Nil", Nil)),
     reverse |-> Cases("Cons", Lam(1, Lam(2, Lam(3, Call2(Ref("reverse"), Var(2),
                                                        List(Var(1), Var(3)))))),
                       "Nil", Lam(4, Var(4))),
     repeat |-> Cases("S", Lam(1, List(T, App(Ref("repeat"), Var(1)))), "Z", Nil),
     rows |-> Cases("S", Lam(1, List(App(Ref("repeat"), Var(1)), App(Ref("rows"), Var(1)))),
                    "Z", Nil),
     head |-> Mat("Cons", Lam(1, Lam(2, Var(1))), Efq),
     first |-> Lam(1, Lam(2, Var(1))),
     identity |-> Lam(1, Ann(Var(1))),
     ones |-> List(T, Ref("ones")),
     loop |-> Ref("loop"),
     knot |-> App(Ref("identity"), Ref("knot")),
     shared |-> Let(<<1, 2>>, <<Call2(Ref("add"), S(Z), S(Z)), App(Ref("not"), T)>>,
                    Pair(Var(1), Pair(Var(2), Var(1)))),
     mapped |-> Call2(Ref("map"), Ref("not"), List(T, List(App(Ref("not"), T), Nil))),
     lazy |-> App(Ref("head"), Ref("ones")),
     ignored |-> Call2(Ref("first"), T, Ref("loop")),
     erased |-> Call2(Ref("first"), Ref("alias"), Typ),
     alias |-> Ref("shared"),
     selfish |-> Pair(T, Ref("knot"))]

(* The arguments of an entry, when it has any.                             *)
Arguments ==
    [add |-> <<S(S(Z)), S(Z)>>, reverse |-> <<List(T, List(F, Nil)), Nil>>,
     rows |-> <<S(S(Z))>>, repeat |-> <<S(S(S(Z)))>>]
Entries == DOMAIN Arguments \cup
    {"shared", "mapped", "lazy", "ignored", "erased", "alias", "loop", "selfish", "ones"}

(* A family of programs that ignore, share, inspect or map over two        *)
(* computations, which may have no answer.                                 *)
Sources == [truth |-> T, negated |-> App(Ref("not"), T), lazy |-> Ref("lazy"),
            loop |-> Ref("loop")]
Body(use, a, b) ==
    CASE use = "ignore" -> Call2(Ref("first"), a, b)
      [] use = "share" -> Let(<<1, 2>>, <<a, b>>, Pair(Var(1), App(Ref("not"), Var(1))))
      [] use = "inspect" -> App(Ref("head"), List(a, List(b, Nil)))
      [] use = "map" -> Call2(Ref("map"), Ref("not"), List(a, List(b, Nil)))
WithMain(body) ==
    [name \in DOMAIN Library \cup {"main"} |-> IF name = "main" THEN body ELSE Library[name]]

Keys ==
    (Entries \X {""} \X {""} \X BOOLEAN \X BOOLEAN)
    \cup ({"ignore", "share", "inspect", "map"} \X (DOMAIN Sources) \X (DOMAIN Sources)
            \X BOOLEAN \X BOOLEAN)

MCPrograms ==
    [key \in Keys |->
        IF key[1] \in Entries
        THEN [definitions |-> Library, entry |-> key[1],
              arguments |-> IF key[1] \in DOMAIN Arguments THEN Arguments[key[1]] ELSE <<>>,
              strict |-> key[4], packed |-> key[5]]
        ELSE [definitions |-> WithMain(Body(key[1], Sources[key[2]], Sources[key[3]])),
              entry |-> "main", arguments |-> <<>>, strict |-> key[4], packed |-> key[5]]]

(* The terms of a program with their parts, which are not nested deeper    *)
(* than ten times.                                                         *)
Inside(t) ==
    CASE t.op \in {"Lam", "Ann"} -> {t.body}
      [] t.op = "App" -> {t.function, t.argument}
      [] t.op = "Ctr" -> Range(t.args)
      [] t.op = "Mat" -> {t.arm, t.fallback}
      [] t.op = "Let" -> Range(t.values) \cup {t.body}
      [] OTHER -> {}
Within(written) ==
    LET parts[n \in 0 .. 10] ==
            IF n = 0 THEN written
            ELSE UNION {seen \cup UNION {Inside(t) : t \in seen} : seen \in {parts[n - 1]}}
    IN  parts[10]
MCTerms ==
    [key \in Keys |->
        Within(Range(MCPrograms[key].definitions) \cup Range(MCPrograms[key].arguments))]

(* Room for every program, with a collection whenever something was        *)
(* allocated; room that has to be reused; and too little of each.          *)
Roomy == [arena |-> 90, frames |-> 30, reserve |-> 90, debt |-> 1,
          depth |-> 9, nodes |-> 12, inspect |-> 9]
MCLimits ==
    {Roomy,
     [Roomy EXCEPT !.arena = 26, !.reserve = 12, !.debt = 4],
     [Roomy EXCEPT !.arena = 14, !.reserve = 5, !.debt = 3, !.inspect = 1],
     [Roomy EXCEPT !.frames = 5],
     [Roomy EXCEPT !.depth = 1],
     [Roomy EXCEPT !.nodes = 2]}

Fuel == 40
Meanings == [key \in Keys |-> M!Answer(MCPrograms[key], Fuel)]

(* The machine computes what the program means although it shares thunks,  *)
(* reuses slots and evaluates by value: the answer is the one of call by   *)
(* name, cyclic evaluation is reported only for a program without an       *)
(* answer, and no reference, frame or match is ever wrong.                 *)
Adequate ==
    /\ pc = "done" => output = Meanings[program]
    /\ error = "cyclic" => Meanings[program] = M!None
    /\ error \in {"none", "budget", "cyclic"}
=============================================================================
