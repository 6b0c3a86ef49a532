------------------------------ MODULE MCKernel ------------------------------
(* Small books for CheckBook, most of them wrong in one way each, and what *)
(* the books that are accepted compute.                                    *)
EXTENDS CheckBook, Shapes
M == INSTANCE Meaning

(* A claim about a checked book, by name: Claim below, given apart like    *)
(* Judge.                                                                  *)
CONSTANT Holds(_, _, _, _)
MCJudge(bk, e, d) == LET r == Judgement(bk, e, d) IN r

Bool == Ref("Bool")
Nat1 == Ref("Nat")
Empty == Ref("Empty")
Bad == Ref("Bad")
T == Ctr("T", <<>>)
F == Ctr("F", <<>>)
Z == Ctr("Z", <<>>)
S(n) == Ctr("S", <<n>>)
Call2(f, a, b) == App(App(f, a), b)
To(q, id, domain, body) == All(q, id, domain, body)

(* A match with one arm for each of two constructors.                      *)
Cases(c1, arm1, c2, arm2) == Mat(c1, arm1, Mat(c2, arm2, Efq))

(* Bad holds a function from itself: only affine use keeps it harmless.    *)
MCPrelude ==
    <<Data("Empty", <<>>, Kind(Many), <<>>),
      Data("Bool", <<>>, Kind(Many), <<Constructor("T", <<>>), Constructor("F", <<>>)>>),
      Data("Nat", <<>>, Kind(Many),
           <<Constructor("Z", <<>>), Constructor("S", <<Binder(Lone, 1, Nat1)>>)>>),
      Data("Bad", <<>>, Kind(Lone), <<Constructor("Mk", <<Binder(Lone, 2, To(Lone, 3, Bad, Empty))>>)>>),
      Data("Pair", <<>>, Kind(Many),
           <<Constructor("P", <<Binder(Lone, 4, Nat1), Binder(Lone, 5, Nat1)>>)>>),
      Data("Tagged", <<>>, Kind(Many),
           <<Constructor("Tag", <<Binder(None, 6, Nat1), Binder(Lone, 7, Nat1)>>)>>),
      Data("Opt", <<Binder(None, 8, Kind(Lone))>>, Kind(Lone),
           <<Constructor("No", <<>>), Constructor("Some", <<Binder(Lone, 9, Var(8))>>)>>),
      Def("not", <<Binder(Lone, 10, Bool)>>, To(Lone, 10, Bool, Bool), Cases("T", F, "F", T)),
      Def("choice", <<Binder(Lone, 11, Bool)>>, To(Lone, 11, Bool, Kind(Lone)),
          Cases("T", Bool, "F", Empty)),
      Data("U32", <<>>, Kind(Many), <<Constructor("W", <<Binder(Many, 12, Bool)>>)>>),
      Def("IO", <<Binder(None, 13, Kind(Lone))>>, To(None, 13, Kind(Lone), Kind(Lone)), Lam(14, Nat1))>>

Main(ty, body) == Def("main", <<>>, ty, body)
Def1(name, q, domain, result, body) ==
    Def(name, <<Binder(q, 30, domain)>>, To(q, 30, domain, result), body)
f == Ref("f")

(* Recursion on one number.                                                *)
v == Var(20)
Descents ==
    {<<Def1("f", q, Nat1, r, Cases("S", Lam(20, x), "Z", y)), Main(r, App(f, S(S(Z))))>> :
        q \in {Lone, Many}, r \in {Empty, Bool, Nat1},
        x \in {App(f, v), App(f, S(v)), App(f, Z), App(f, App(f, v)), S(App(f, v)), v, T,
               App(f, Ann(v, Nat1)), Let(<<Lone>>, <<21>>, <<v>>, App(f, Var(21)))},
        y \in {T, Z, App(f, Z)}}

(* Recursion on two numbers, read from left to right.                      *)
a == Var(20)
b == Var(21)
Sums ==
    {<<Def("f", <<Binder(Lone, 30, Nat1), Binder(Lone, 31, Nat1)>>,
           To(Lone, 30, Nat1, To(Lone, 31, Nat1, Nat1)),
           Cases("S", Lam(20, Cases("S", Lam(21, x), "Z", y)), "Z", z)),
       Main(Nat1, Call2(f, S(S(Z)), S(Z)))>> :
        x \in {Call2(f, a, S(b)), Call2(f, S(a), b), Call2(f, b, a), Call2(f, S(b), a),
               Call2(f, S(a), S(b)), Call2(f, S(S(a)), b), Call2(f, a, Call2(f, S(a), b)), S(S(Call2(f, a, b)))},
        y \in {S(a), Call2(f, a, S(a)), Call2(f, a, S(S(Z)))},
        z \in {Lam(22, Var(22)), Lam(22, Z), Lam(22, Call2(f, Z, Var(22)))}}

(* A paradox unless the function inside Bad is used once.                  *)
Mk(x) == Ctr("Mk", <<x>>)
Paradoxes ==
    {<<Def1("f", q, Bad, Empty, Mat("Mk", Lam(20, x), Efq)), Main(Empty, App(f, Mk(f)))>> :
        q \in {None, Lone, Many},
        x \in {App(v, Mk(v)), App(v, Mk(f)), App(f, Mk(v)), Let(<<Lone>>, <<21>>, <<v>>, App(b, Mk(b))),
               Let(<<Many>>, <<21>>, <<v>>, App(b, Mk(b)))}}

(* Uses of an argument, counted over both arms, lets and fields.           *)
Pair(x, y) == Ctr("P", <<x, y>>)
Uses ==
    {<<Def1("f", q, Nat1, Ref("Pair"), Lam(30, x)), Main(Ref("Pair"), App(f, S(Z)))>> :
        q \in {None, Lone, Many},
        x \in {Pair(Var(30), Var(30)), Pair(Var(30), Z), Pair(Z, Z),
               Let(<<Lone>>, <<21>>, <<Var(30)>>, Pair(b, b)),
               Let(<<Many>>, <<21>>, <<Var(30)>>, Pair(b, b)),
               Let(<<None>>, <<21>>, <<Var(30)>>, Pair(Z, S(Z))),
               Let(<<Lone, Lone>>, <<21, 22>>, <<Var(30), Var(30)>>, Pair(b, Var(22)))}}

(* An erased argument or field must not matter to what runs.               *)
Erasures ==
    {<<Def1("f", q, Ref("Tagged"), Nat1, Mat("Tag", Lam(20, Lam(21, x)), Efq)),
       Main(Nat1, App(f, Ctr("Tag", <<Z, S(Z)>>)))>> : q \in {None, Lone}, x \in {a, b, S(b), Z}}
    \cup {<<Def1("f", q, Bool, Bool, x), Main(Bool, App(f, y))>> :
            q \in {None, Lone}, x \in {Cases("T", F, "F", T), Lam(20, v), Lam(20, T), Efq},
            y \in {T, F}}

(* Nothing follows from a claim that is only erased.                       *)
Claims ==
    {<<Def1("f", q, Empty, Empty, x), Main(Empty, App(f, Ref("main")))>> :
        q \in {None, Lone, Many}, x \in {Efq, Lam(20, Efq), Lam(20, v)}}
    \cup {<<Def("f", <<Binder(q, 30, Empty), Binder(Lone, 31, Nat1)>>,
                To(q, 30, Empty, To(Lone, 31, Nat1, Empty)), Lam(20, Efq)),
            Main(Empty, Call2(f, Ref("main"), Z))>> : q \in {None, Lone}}

(* Equations, transport along them, and a law nobody proves.               *)
Motive == Lam(40, Lam(41, App(Ref("choice"), Var(40))))
False == Eql(T, F, Bool)
Equations ==
    {<<Def("f", <<>>, Eql(x, y, Bool), body), Main(ty, Rwt(f, Motive, z))>> :
        x \in {T, App(Ref("not"), F)}, y \in {T, F, App(Ref("not"), T)}, body \in {Rfl, NoBody, f},
        z \in {T, F}, ty \in {Empty, Bool, App(Ref("choice"), F)}}
    \cup {<<Def1("f", q, False, App(Ref("choice"), F), Lam(20, Rwt(v, Motive, T))),
            Main(Empty, App(f, x))>> : q \in {None, Lone, Many}, x \in {Rfl, Ref("main"), Hole}}

(* Types that compute, parameters that are types, residual matches.        *)
Poly == To(None, 30, Kind(Lone), To(Lone, 31, Var(30), Var(30)))
PolyBinders == <<Binder(None, 30, Kind(Lone)), Binder(Lone, 31, Var(30))>>
Types ==
    {<<Main(App(Ref("choice"), x), y)>> : x \in {T, F, App(Ref("not"), F)}, y \in {T, Z}}
    \cup {<<Def("f", PolyBinders, Poly, Lam(30, Lam(31, x))), Main(Bool, Call2(f, y, z))>> :
            x \in {Var(30), Var(31), T}, y \in {Bool, Nat1, Empty}, z \in {T, Z}}
    \cup {<<Def1("f", Lone, Adt("Opt", <<x>>, {}), y, Cases("Some", Lam(20, v), "No", z)),
            Main(y, App(f, Ctr("Some", <<w>>)))>> :
            x \in {Bool, Nat1, Empty}, y \in {Bool, Nat1}, z \in {F, Z}, w \in {T, S(Z)}}
    \cup {<<Def1("f", Lone, Nat1, Bool, Mat("S", Lam(20, x), y)), Main(Bool, App(f, z))>> :
            x \in {T, v, Lam(21, T)}, z \in {Z, S(Z)},
            y \in {Efq, Mat("S", Lam(22, F), Efq), Mat("Z", F, Efq), Lam(22, F)}}

(* A law that is completed later, by the right type or another one.        *)
Law(ty) == Def("f", <<>>, ty, NoBody)
Completed(ty, ids, body) ==
    [Def("f", <<>>, ty, body) EXCEPT !.completes = TRUE, !.names = ids]
NatToNat(id) == To(Lone, id, Nat1, Nat1)
Laws ==
    {<<Law(NatToNat(30)), Main(Nat1, App(f, S(Z)))>>,
     <<Law(NatToNat(30)), Completed(NatToNat(32), <<33>>, Cases("S", Lam(20, App(f, v)), "Z", Z)),
       Main(Nat1, App(f, S(Z)))>>,
     <<Law(NatToNat(30)), Completed(NatToNat(32), <<>>, Cases("S", Lam(20, App(f, v)), "Z", Z)),
       Main(Nat1, App(f, S(Z)))>>,
     <<Law(NatToNat(30)), Completed(To(Many, 32, Nat1, Nat1), <<33>>, Lam(33, Var(33))),
       Main(Nat1, App(f, Z))>>,
     <<Law(NatToNat(30)), Law(NatToNat(32)), Completed(NatToNat(34), <<>>, Lam(33, Var(33)))>>,
     <<Law(NatToNat(30)), Completed(NatToNat(32), <<33, 34>>, Lam(33, Var(33)))>>,
     <<Completed(NatToNat(32), <<33>>, Lam(33, Var(33))), Main(Nat1, App(f, Z))>>}

(* Datatypes that must not be declared.                                    *)
DataNew(kind, q, ty) == Data("New", <<>>, kind, <<Constructor("N", <<Binder(q, 40, ty)>>)>>)
Datatypes ==
    {<<DataNew(Kind(k), q, ty)>> :
        k \in {Lone, Many}, q \in {None, Lone, Many}, ty \in {Nat1, Bad, Kind(Lone), T}}
    \cup {<<Data("Nat", <<>>, Kind(Many), <<>>)>>, <<Data("not", <<>>, Kind(Many), <<>>)>>,
          <<Data("New", <<>>, Kind(Many), <<Constructor("T", <<>>)>>)>>,
          <<Data("New", <<>>, Nat1, <<>>)>>,
          <<Data("New", <<>>, Kind(Many), <<Constructor("N", <<>>), Constructor("N", <<>>)>>)>>}

(* Executable books: contracts with the host, true and forged ones, and    *)
(* what `unsafe' waives.                                                   *)
Book(mode, ds, foreign, numeric, opaque) ==
    [mode |-> mode, declarations |-> ds, base |-> {"IO", "U32", "inc", "File", "Chan"},
     foreign |-> foreign, numeric |-> numeric, opaque |-> opaque]
Strict(ds) == Book("strict", ds, <<>>, <<>>, <<>>)
Unsafe(d) == [d EXCEPT !.unsafe = TRUE]
Foreign(d) == [d EXCEPT !.foreign = TRUE]
U32 == Ref("U32")
W(x) == Ctr("W", <<x>>)
IO(x) == App(Ref("IO"), x)
IncOf == [inc |-> [arity |-> 1, quant |-> Lone, input |-> "U32", output |-> "U32"]]
Inc(result) == Def1("inc", Lone, U32, result, NoBody)
Loop(ty) == Def("f", <<>>, ty, f)
Executables ==
    {Book("executable", <<d, Main(Bool, T)>>, [put |-> [arity |-> n, builtin |-> x]], <<>>, <<>>) :
        d \in {Foreign(Def1("put", Lone, Nat1, IO(Nat1), NoBody)), Foreign(Def1("put", Lone, Nat1, Empty, NoBody)),
               Foreign(Def("put", <<>>, Empty, NoBody)), Unsafe(Def("put", <<>>, Empty, NoBody))},
        n \in {0, 1}, x \in BOOLEAN}
    \cup {Book("executable", <<Foreign(Def("put", <<>>, IO(ty), NoBody)), Main(x, y)>>,
               [put |-> [arity |-> 0, builtin |-> FALSE]], <<>>, <<>>) :
            ty \in {Empty, Nat1}, x \in {Empty, IO(Nat1), Bool}, y \in {Ref("put"), T}}
    \cup {Book("executable", <<Inc(ty), Main(x, App(Ref("inc"), W(T)))>>, <<>>, IncOf, <<>>) :
            ty \in {U32, Empty, Ann(U32, Kind(Many)), IO(U32)}, x \in {U32, Empty}}
    \cup {Book("executable", <<d, Main(x, y)>>, <<>>, <<>>, o) :
            d \in {Def("File", <<>>, ty, NoBody) : ty \in {Kind(Lone), Kind(Many), Empty}}
                  \cup {Def1("Chan", q, Kind(Lone), ty, NoBody) : q \in {None, Lone}, ty \in {Kind(Many), Empty}},
            o \in {[File |-> "handle"], [Chan |-> "chan"]},
            x \in {Bool, Empty}, y \in {T, Ref("File"), App(Ref("Chan"), Bool)}}
    \cup {Book("executable", <<d>> \o rest, <<>>, <<>>, <<>>) :
            d \in {Loop(Empty), Unsafe(Loop(Empty)), Law(NatToNat(30))},
            rest \in {<<Main(Empty, f)>>, <<Main(Bool, T)>>,
                     <<Unsafe(Completed(NatToNat(32), <<33>>, Lam(33, App(f, Var(33))))), Main(Nat1, Z)>>}}

(* Base's double and its helper, with identities from i on, and programs   *)
(* that bring a definition of their own for one of them.                   *)
NativeG(i, zero) == Def1("g", Lone, Nat1, Nat1, Cases("S", Lam(i, S(S(Var(i)))), "Z", zero))
NativeF(i, q, arm) == Def1("f", q, Nat1, Nat1, Cases("S", Lam(i, arm), "Z", Z))
Shared(i, x) == Let(<<Lone>>, <<i + 1>>, <<Var(i)>>, App(Ref("g"), x))
NativeBase == <<NativeG(50, Z), NativeF(60, Lone, Shared(60, App(f, Var(61))))>>
BaseEngine == FoldLeft(LAMBDA e, d : Validate(e, d).engine, PreludeEngine, NativeBase)
NativeNames == {"f", "g", "Nat"}
Natives ==
    {[Book("executable", <<g, h, Main(Nat1, App(f, S(S(Z))))>>, <<>>, <<>>, <<>>) EXCEPT !.base = names] :
        g \in {NativeG(70, Z), NativeG(70, S(Z)), Unsafe(NativeG(70, Z))},
        h \in {NativeF(80, Lone, Shared(80, App(f, Var(81)))), NativeF(80, Many, Shared(80, App(f, Var(81)))),
               NativeF(80, Many, Shared(80, App(f, Var(80)))), NativeF(80, Lone, App(Ref("g"), App(f, Var(80)))),
               NativeF(80, Lone, Shared(80, Var(81))), NativeF(80, Lone, S(App(f, Var(80))))},
        names \in {NativeNames, {"f", "Nat"}}}

Families ==
    [descents |-> Descents, sums |-> Sums, paradoxes |-> Paradoxes, uses |-> Uses,
     erasures |-> Erasures, claims |-> Claims, equations |-> Equations, types |-> Types,
     laws |-> Laws, datatypes |-> Datatypes]
Rows == UNION {{family} \X Families[family] : family \in DOMAIN Families}
MCBooks ==
    [row \in Rows \cup ({"executables"} \X Executables) \cup ({"natives"} \X Natives) |->
        IF row[1] \in {"executables", "natives"} THEN row[2] ELSE Strict(row[2])]
-----------------------------------------------------------------------------
RECURSIVE Canonical(_, _, _), Runtime(_), AsData(_), AsObject(_)

(* A closed value that its type allows: a constructor of the datatype over *)
(* such values, or a proof of an equation by reflexivity.                  *)
Canonical(e, t, ty) ==
    LET goal == Whnf(e, ty)
        cs == Constructors(e, goal)
        fields == Fields(e, goal, Named1(cs, t.label))
        olds == [k \in DOMAIN fields |-> fields[k].id]
        type(k) == SubstituteAll(fields[k].ty, SubSeq(olds, 1, k - 1), SubSeq(t.kids, 1, k - 1))
    IN  CASE goal = Ref("U32") \/ goal = Adt("U32", <<>>, {}) -> t.tag \in {"Ctr", "App"}
          [] goal.tag = "Adt" ->
               /\ t.tag = "Ctr" /\ \E c \in cs : c.name = t.label
               /\ Len(fields) = Len(t.kids)
               /\ \A k \in DOMAIN fields : Canonical(e, t.kids[k], type(k))
          [] goal.tag = "Eql" -> t = Rfl
          [] OTHER -> t # Err

(* Numbers are the host's, so an operation on them is a value here.        *)
Waived(bk) == \E d \in Range(bk.declarations) : d.sort = "Def" /\ d.unsafe
Answered(bk, e) == EntryKind(bk, e) = "Pure" /\ ~Waived(bk)
Computed(bk, e) == Answered(bk, e) /\ bk.numeric = <<>>
Answer(e) == Evaluate(e, "main", <<>>)
Numeral(n) == CASE n = 0 -> Z [] n = 1 -> S(Z) [] n = 2 -> S(S(Z))

(* The checked term as the native evaluator reads it.                      *)
Runtime(t) ==
    CASE t.tag = "Var" -> [op |-> "Var", id |-> t.ids[1]]
      [] t.tag = "Ref" -> [op |-> "Ref", name |-> t.label]
      [] t.tag = "Lam" -> [op |-> "Lam", id |-> t.ids[1], body |-> Runtime(t.kids[1])]
      [] t.tag = "App" -> [op |-> "App", function |-> Runtime(t.kids[1]), argument |-> Runtime(t.kids[2])]
      [] t.tag = "Ctr" -> [op |-> "Ctr", name |-> t.label, args |-> [k \in DOMAIN t.kids |-> Runtime(t.kids[k])]]
      [] t.tag = "Mat" -> [op |-> "Mat", constructor |-> t.label, arm |-> Runtime(t.kids[1]),
                           fallback |-> Runtime(t.kids[2])]
      [] t.tag = "Let" -> [op |-> "Let", ids |-> t.ids, body |-> Runtime(Last(t.kids)),
                           values |-> [k \in DOMAIN t.ids |-> Runtime(t.kids[k])]]
      [] t.tag = "Ann" -> Runtime(t.kids[1])
      [] t.tag = "Rwt" -> Runtime(t.kids[3])
      [] OTHER -> [op |-> "Typ"]
AsData(t) == [op |-> "Ctr", name |-> t.label, args |-> [k \in DOMAIN t.kids |-> AsData(t.kids[k])]]
Program(e) ==
    [definitions |-> [n \in DOMAIN e.defs |-> Runtime(e.defs[n].body)],
     entry |-> "main", arguments |-> <<>>, strict |-> FALSE]
AsObject(t) == JsObject(t.label, [k \in DOMAIN t.kids |-> AsObject(t.kids[k])])

NativeOf(bk, e) ==
    LET native == Optimizes(e, BaseEngine, bk.base, "f")
        results(g) == [n \in 0..2 |-> Evaluate(g, "f", <<Numeral(n)>>)]
    IN  /\ native => results(e) = results(BaseEngine)
        /\ SubSeq(bk.declarations, 1, 2) = <<NativeG(70, Z), NativeF(80, Lone, Shared(80, App(f, Var(81))))>>
           /\ bk.base = NativeNames => native
Claim(what, family, bk, e) ==
    CASE what = "canonical" -> Answered(bk, e) => Canonical(e, Answer(e), e.defs["main"].ty)
      [] what = "by name" -> Computed(bk, e) => M!Answer(Program(e), Budget) = AsData(Answer(e))
      [] what = "compiled" -> Computed(bk, e) => RunMain(CompileExecutable(e, "main"), "main", Budget) = AsObject(Answer(e))
      [] what = "native" -> family = "natives" => NativeOf(bk, e)
MCHolds(what, family, bk, e) == LET claim == Claim(what, family, bk, e) IN claim
Checked(what) == verdict = "checked" => Holds(what, title[1], book, engine)

(* Whatever a checked book says of its `main' is true: main reduces to a   *)
(* value of its type.  There is none of type Empty, so no book, however it *)
(* recurses, shares, erases or rewrites, proves a contradiction, as long   *)
(* as nothing is declared unsafe (check.rs: usage, descent, erased         *)
(* scrutinees, conversion; executable.rs: contracts).                      *)
Sound == Checked("canonical")

(* evaluate and evaluate_data give the same answer: the normal form the    *)
(* kernel reasons about is what call by name computes.                     *)
EvaluateAgrees == Checked("by name")

(* The lowering accepts every checked program, and the JavaScript that is  *)
(* generated for it, without its types, proofs and erased arguments and in *)
(* call by value, prints the kernel's normal form.                         *)
CompiledAgrees == Checked("compiled")

(* The natural operations are replaced by native ones only if nothing that *)
(* they reach differs from Base: what a program computes does not depend   *)
(* on it.  And identities do not matter: the program that repeats Base     *)
(* gets the native operations (nat.rs, checked_optimizations).             *)
NativeAgrees == Checked("native")
=============================================================================
