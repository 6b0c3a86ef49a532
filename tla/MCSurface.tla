----------------------------- MODULE MCSurface -----------------------------
(* Small matrices of patterns, and bodies nested in each other, against    *)
(* the meaning of a body: the first row that matches answers.              *)
EXTENDS Surface

(* Whether a compiled body keeps to its source: FirstRow below, given      *)
(* apart for TLC's profile of the invariant.                               *)
CONSTANT Keeps(_, _)

PZ == PCtr("Z", <<>>)
PS(p) == PCtr("S", <<p>>)
P(p, q) == PCtr("P", <<p, q>>)
Numbers(i) == {PVar(i), PZ, PS(PVar(i)), PS(PZ)}
Pairs(i) == {PVar(i)} \cup {P(p, q) : p \in {PVar(i), PZ, PS(PZ)}, q \in {PVar(i + 1), PZ, PS(PVar(i + 1))}}

RECURSIVE PatternIds(_)
PatternIds(p) ==
    IF IsConstructor(p) THEN FlattenSeq([k \in DOMAIN p.fields |-> PatternIds(p.fields[k])]) ELSE <<p.id>>

(* A row whose answer tells all that it can see.                           *)
Says(r, ids) == Reply(Ctr(r, [k \in DOMAIN ids |-> Var(ids[k])]))
Tells(r, patterns, params) ==
    Row(patterns, Says(r, FlattenSeq([k \in DOMAIN patterns |-> PatternIds(patterns[k])]) \o params))
Source(params, body) == [vars |-> params, body |-> body, fresh |-> 100, types |-> [k \in DOMAIN params |-> "number"], inOrder |-> TRUE]
Free(s) == [s EXCEPT !.inOrder = FALSE]
OfPairs(s) == [s EXCEPT !.types = [k \in DOMAIN @ |-> "pair"]]

Grids ==
    {Source(<<1, 2>>, Match(<<Var(1), Var(2)>>,
        <<Tells("A", <<a, b>>, <<1, 2>>), Tells("B", <<c, d>>, <<1, 2>>), Tells("C", <<e, f>>, <<1, 2>>)>>)) :
        a \in Numbers(11), b \in Numbers(12), c \in Numbers(21), d \in Numbers(22),
        e \in Numbers(31), f \in {PVar(32), PS(PZ)}}
Columns ==
    {OfPairs(Source(<<1>>, Match(<<Var(1)>>,
        <<Tells("A", <<a>>, <<1>>), Tells("B", <<b>>, <<1>>), Tells("C", <<c>>, <<1>>)>>))) :
        a \in Pairs(11), b \in Pairs(21), c \in {PVar(31), P(PS(PVar(31)), PVar(32))}}

(* Bodies below a pattern that opened field i of parameter 1, of two.      *)
Inner(i) ==
    {Says("A", <<i, 1, 2>>),
     Match(<<Var(i)>>, <<Tells("B", <<PZ>>, <<1, 2>>), Tells("C", <<PVar(40)>>, <<i, 1>>)>>),
     Match(<<Var(i), Var(2)>>, <<Tells("B", <<PS(PVar(40)), PZ>>, <<i, 1, 2>>), Tells("C", <<PVar(41), PS(PVar(42))>>, <<i>>)>>),
     Match(<<Var(2), Var(i)>>, <<Tells("B", <<PS(PVar(40)), PVar(41)>>, <<i, 1, 2>>)>>),
     Match(<<Var(2), Var(i)>>, <<Tells("B", <<PS(PVar(40)), PZ>>, <<i, 1, 2>>)>>),
     Match(<<App(Ref("f"), Var(i))>>, <<Tells("B", <<PVar(40)>>, <<i>>)>>),
     Match(<<>>, <<>>), Match(<<Var(2)>>, <<>>),
     Local(<<PS(PVar(43))>>, Lone, <<Var(2)>>, Says("D", <<43, i, 2>>)),
     Local(<<PVar(43)>>, Lone, <<Var(i)>>, Says("E", <<43, i, 2>>)),
     Local(<<PVar(43), PVar(44)>>, Many, <<Var(2), Ctr("S", <<Var(i)>>)>>, Says("F", <<43, 44, 1>>)),
     Local(<<PVar(43), PZ>>, Many, <<Var(2), Var(i)>>, Says("F", <<43, 1>>)),
     Local(<<PVar(43)>>, Lone, <<Var(i)>>, Match(<<Var(43)>>, <<Tells("G", <<PZ>>, <<2>>)>>)),
     Local(<<PVar(43)>>, Lone, <<Var(i)>>, Match(<<Var(2)>>, <<Tells("G", <<PZ>>, <<2>>)>>))}
Nested ==
    {Free(Source(<<1, 2>>, Match(<<Var(1)>>, <<Row(<<PS(PVar(11))>>, b), Row(<<p>>, c)>>))) :
        b \in Inner(11), p \in {PVar(12), PZ, PS(PS(PVar(12)))}, c \in {Says("H", <<1, 2>>)} \cup Inner(2)}

(* `+' binders: the copy 50 of field 11 is used twice below a match.       *)
Reusable ==
    {Source(<<1, 2>>, Match(<<Var(1)>>, <<Row(<<PS(PVar(11))>>, WithReusable(b, <<<<50, Var(11)>>>>)), Row(<<PZ>>, Says("H", <<2>>))>>)) :
        b \in {Says("A", <<50, 50, 2>>),
               Match(<<Var(2)>>, <<Tells("B", <<PZ>>, <<50, 50>>), Tells("C", <<PS(PVar(40))>>, <<50>>)>>),
               Local(<<PS(PVar(43))>>, Lone, <<Var(2)>>, Says("D", <<50, 43, 50>>)),
               Local(<<PVar(43)>>, Lone, <<Var(2)>>, Says("D", <<50, 43, 50>>))}}
Broken ==
    {Free(Source(<<1, 2>>, Match(<<Var(1)>>, <<Tells("A", <<PCtr("P", <<PVar(11)>>)>>, <<>>), Tells("B", <<P(PZ, PVar(12))>>, <<>>)>>))),
     Free(Source(<<1>>, Match(<<Var(1)>>, <<Tells("A", <<PS(PS(PS(PS(PS(PS(PS(PS(PS(PS(PS(PS(PVar(11)))))))))))))>>, <<1>>)>>)))}
MCSources == {Grids, Columns, Nested, Reusable, Broken}
-----------------------------------------------------------------------------
RECURSIVE Bind(_, _), Denote(_, _)

(* What a pattern binds in a value: a set with one environment, or none.   *)
NoMatch == {}
Merge(f, g) == [x \in DOMAIN f \cup DOMAIN g |-> IF x \in DOMAIN g THEN g[x] ELSE f[x]]
BindAll(ps, vs) ==
    FoldLeft(LAMBDA found, k : {Merge(f, g) : f \in found, g \in Bind(ps[k], vs[k])},
             {<<>>}, [k \in DOMAIN ps |-> k])
Bind(p, v) ==
    IF ~IsConstructor(p) THEN {p.id :> v}
    ELSE IF v.tag = "Ctr" /\ v.label = p.name THEN BindAll(p.fields, v.kids) ELSE NoMatch

(* The meaning of a body under values for its variables.                   *)
Closed(t, env) ==
    LET ids == SetToSeq(DOMAIN env) IN SubstituteAll(t, ids, [k \in DOMAIN ids |-> env[ids[k]]])
Denote(body, env) ==
    LET values(ts) == [k \in DOMAIN ts |-> Closed(ts[k], env)]
    IN  CASE body.kind = "Reply" -> Closed(body.value, env)
          [] body.kind = "Local" ->
               LET found == BindAll(body.patterns, values(body.values))
               IN  IF found = NoMatch THEN Stuck ELSE Denote(body.body, Merge(env, CHOOSE e \in found : TRUE))
          [] body.kind = "Match" ->
               LET vs == values(body.scrutinees)
                   hits == {k \in DOMAIN body.rows : BindAll(body.rows[k].patterns, vs) # NoMatch}
                   row == body.rows[Min(hits)]
               IN  IF hits = {} THEN Stuck
                   ELSE Denote(row.body, Merge(env, CHOOSE e \in BindAll(row.patterns, vs) : TRUE))

Zero == Ctr("Z", <<>>)
Succ(x) == Ctr("S", <<x>>)
Values(type) ==
    IF type = "number" THEN {Zero, Succ(Zero), Succ(Succ(Zero))}
    ELSE {Ctr("P", <<x, y>>) : x \in {Zero, Succ(Zero)}, y \in {Zero, Succ(Succ(Zero))}}
Arguments(names, type) == [DOMAIN names -> Values(type)]
Machine == [defs |-> <<>>, adts |-> <<>>, alias |-> <<>>, next |-> 200, depth |-> 40]
FirstRow(s, compiled) ==
    \A args \in Arguments(s.vars, s.types[1]) :
        LET meaning == Denote(s.body, [id \in Range(s.vars) |->
                            CHOOSE x \in Range(args) : \E k \in DOMAIN args : args[k] = x /\ s.vars[k] = id])
            answer == Normalize(Machine, Apply(compiled, args))
        IN  IF meaning = Stuck THEN Spine(answer).head.tag \in {"Mat", "Efq"} ELSE answer = meaning

MCKeeps(s, compiled) == LET r == FirstRow(s, compiled) IN r

(* A compiled body answers what its first matching row says, with the      *)
(* right value under every name; where no row matches it is absurd, which  *)
(* the checker then has to refute.  A matrix over the parameters in order  *)
(* is always accepted.                                                     *)
FirstMatch ==
    /\ outcome = "error" => ~source.inOrder
    /\ outcome = "done" => Keeps(source, current.term)
=============================================================================
