----------------------------- MODULE Evaluator -----------------------------
(***************************************************************************)
(* The native evaluator of checked programs: Machine::force and its arena  *)
(* in runtime/mod.rs, by-value construction in demand.rs, and the          *)
(* collector of gc.rs.  One invocation (Program::evaluate) applies the     *)
(* entry to its arguments and reads the whole answer out (materialize).    *)
(*                                                                         *)
(* Thunks and environments live in two arenas whose slots are reused after *)
(* a collection, so a reference that the collector misses later names a    *)
(* slot with another content.  The packed representation of naturals and   *)
(* words, numeric intrinsics and foreign requests are left out; `packed'   *)
(* stands here for the sharing it switches on in Machine::expression.      *)
(*                                                                         *)
(* The step budget and cancellation are checked before every step: Abort.  *)
(* A failed invocation discards its machine, so what an error leaves       *)
(* behind in the arenas is not described.                                  *)
(***************************************************************************)
EXTENDS Naturals, FiniteSets, SequencesExt

CONSTANTS
    Programs,   \* names to [definitions, entry, arguments, strict, packed]
    Terms,      \* names to the terms of the program, with all their parts
    Limits      \* records [arena, frames, reserve, debt, depth, nodes, inspect]

(* A program was checked: its terms have their parts, a let as many values *)
(* as binders, and every name that is referenced is defined.               *)
Formed(t, terms, names) ==
    /\ t.op \in {"Var", "Ref", "Lam", "App", "Ctr", "Mat", "Let", "Ann", "Efq", "Typ"}
    /\ t.op = "Ref" => t.name \in names
    /\ t.op \in {"Lam", "Let", "Ann"} => t.body \in terms
    /\ t.op = "App" => t.function \in terms /\ t.argument \in terms
    /\ t.op = "Ctr" => t.args \in Seq(terms)
    /\ t.op = "Mat" => t.arm \in terms /\ t.fallback \in terms
    /\ t.op = "Let" => t.values \in Seq(terms) /\ DOMAIN t.ids = DOMAIN t.values
Checked(p, terms) ==
    /\ \A t \in terms : Formed(t, terms, DOMAIN p.definitions)
    /\ \A name \in DOMAIN p.definitions : p.definitions[name] \in terms
    /\ p.entry \in DOMAIN p.definitions /\ p.arguments \in Seq(terms)
    /\ p.strict \in BOOLEAN /\ p.packed \in BOOLEAN

ASSUME ProgramAssumption ==
    \A name \in DOMAIN Programs : Checked(Programs[name], Terms[name])
ASSUME LimitAssumption ==
    Limits \subseteq [arena : Nat \ {0}, frames : Nat, reserve : Nat, debt : Nat,
                      depth : Nat, nodes : Nat, inspect : Nat]

VARIABLES
    program,    \* the name of the program that is evaluated
    limits,     \* ARENA_LIMIT, FRAME_LIMIT, RESERVE, COLLECTION_DEBT, ...
    heap,       \* both arenas, their free lists and the allocation debt
    globals,    \* the thunk of every name that was referenced
    roots,      \* the caller roots of with_roots
    frames,     \* the continuation frames of the running force
    current,    \* the thunk that is forced or read out
    value,      \* the value that is returned to the frames
    reading,    \* the nested calls of materialize, outermost first
    nodes,      \* output_nodes
    output,     \* the term that was read out last
    pc,         \* where the invocation is
    error       \* why it failed

machine == <<program, limits, heap, globals, roots, frames, current, value,
             reading, nodes, output, pc, error>>

Text == Programs[program]

-----------------------------------------------------------------------------
(* Terms, of which only those that are evaluated in different ways are     *)
(* kept apart: annotations and rewrites are transparent, types and proofs  *)
(* are one erased term.                                                    *)
Var(id) == [op |-> "Var", id |-> id]
Ref(name) == [op |-> "Ref", name |-> name]
Lam(id, body) == [op |-> "Lam", id |-> id, body |-> body]
App(function, argument) == [op |-> "App", function |-> function, argument |-> argument]
Ctr(name, args) == [op |-> "Ctr", name |-> name, args |-> args]
Mat(constructor, arm, fallback) ==
    [op |-> "Mat", constructor |-> constructor, arm |-> arm, fallback |-> fallback]
Let(ids, values, body) == [op |-> "Let", ids |-> ids, values |-> values, body |-> body]
Ann(body) == [op |-> "Ann", body |-> body]
Efq == [op |-> "Efq"]
Typ == [op |-> "Typ"]

(* Values.                                                                 *)
Constructor(name, fields) == [kind |-> "Constructor", name |-> name, fields |-> fields]
Closure(binder, body, environment) ==
    [kind |-> "Closure", binder |-> binder, body |-> body, environment |-> environment]
Matcher(constructor, arm, fallback) ==
    [kind |-> "Match", constructor |-> constructor, arm |-> arm, fallback |-> fallback]
Impossible == [kind |-> "Impossible"]
Erased == [kind |-> "Erased"]

(* Thunks; a vacant slot belongs to the free list.                         *)
Vacant == [kind |-> "Vacant"]
Suspended(term, environment) ==
    [kind |-> "Expression", term |-> term, environment |-> environment]
Application(function, argument) ==
    [kind |-> "Application", function |-> function, argument |-> argument]
Alias(target) == [kind |-> "Alias", target |-> target]
Evaluating == [kind |-> "Evaluating"]
PendingConstructor(name, fields, parent) ==     \* parent 0: none
    [kind |-> "Pending", name |-> name, fields |-> fields, parent |-> parent]
Ready(v) == [kind |-> "Ready", value |-> v]

(* An environment binds some variables and refers to its parent.           *)
NoParent == 0
Scope(parent, ids, thunks) ==
    [kind |-> "Scope", parent |-> parent, ids |-> ids, thunks |-> thunks]

(* Frames.                                                                 *)
UpdateFrame(id) == [kind |-> "Update", id |-> id]
ApplyFrame(id) == [kind |-> "Apply", id |-> id]
CallFrame(id) == [kind |-> "Call", id |-> id]
ResumeFrame(function, argument) ==
    [kind |-> "ResumeCall", function |-> function, argument |-> argument]
ConstructorFrame(name, fields, next) ==
    [kind |-> "Constructor", name |-> name, fields |-> fields, next |-> next]
ChainFrame(id) == [kind |-> "CompleteConstructorChain", id |-> id]
MatchFrame(m, argument) ==
    [kind |-> "Match", constructor |-> m.constructor, arm |-> m.arm,
     fallback |-> m.fallback, argument |-> argument]

-----------------------------------------------------------------------------
(* Allocation.  An allotment is a heap with the identities that were given *)
(* out so far; it is not ok once the arena is exhausted.                   *)
Allotment(h, ids) == [heap |-> h, ids |-> ids, ok |-> TRUE]

Slot(slots, free) == IF free = <<>> THEN Len(slots) + 1 ELSE Last(free)
Stored(slots, id, x) ==
    IF id > Len(slots) THEN Append(slots, x) ELSE [slots EXCEPT ![id] = x]
Popped(free) == IF free = <<>> THEN free ELSE Front(free)

Allocate(a, thunk) ==
    IF ~a.ok \/ (a.heap.freeThunks = <<>> /\ Len(a.heap.thunks) >= limits.arena)
    THEN [a EXCEPT !.ok = FALSE]
    ELSE LET id == Slot(a.heap.thunks, a.heap.freeThunks)
         IN  [a EXCEPT !.heap.thunks = Stored(@, id, thunk),
                       !.heap.freeThunks = Popped(@),
                       !.heap.debt = @ + 1,
                       !.ids = Append(@, id)]

(* The environment that is allocated is the last identity of the result.   *)
AllocateScope(a, scope) ==
    IF ~a.ok \/ (/\ a.heap.freeEnvironments = <<>>
                 /\ Len(a.heap.environments) >= limits.arena)
    THEN [a EXCEPT !.ok = FALSE]
    ELSE LET id == Slot(a.heap.environments, a.heap.freeEnvironments)
         IN  [a EXCEPT !.heap.environments = Stored(@, id, scope),
                       !.heap.freeEnvironments = Popped(@),
                       !.heap.debt = @ + 1,
                       !.ids = Append(@, id)]

(* The first environments from the given one outwards, as many as the      *)
(* bound says, up to the root or to the first vacant slot.                 *)
Outside(h, e) == IF h.environments[e].kind = "Vacant" THEN NoParent ELSE h.environments[e].parent
Further(path, next) == IF next = NoParent THEN path ELSE Append(path, next)
Longer(h, environment, path) ==
    Further(path, IF path = <<>> THEN environment ELSE Outside(h, Last(path)))
Scopes(h, environment, bound) ==
    LET outwards[n \in 0 .. bound] ==
            IF n = 0 THEN <<>> ELSE Longer(h, environment, outwards[n - 1])
    IN  outwards[bound]

BindsIn(h, e, binder) ==
    /\ h.environments[e].kind = "Scope"
    /\ \E k \in DOMAIN h.environments[e].ids : h.environments[e].ids[k] = binder
BoundIn(h, e, binder) ==
    LET scope == h.environments[e]
        first == CHOOSE k \in DOMAIN scope.ids :
                    /\ scope.ids[k] = binder
                    /\ \A j \in 1 .. k - 1 : scope.ids[j] # binder
    IN  scope.thunks[first]

(* The thunk that the first of some scopes gives a binder, or 0, and the    *)
(* one that a variable is bound to within the given number of scopes.      *)
Nearest(h, path, binder) ==
    LET hits == {k \in DOMAIN path : BindsIn(h, path[k], binder)}
    IN  IF hits = {} THEN 0
        ELSE BoundIn(h, path[CHOOSE k \in hits : \A j \in hits : k <= j], binder)
Lookup(h, environment, binder, bound) ==
    Nearest(h, Scopes(h, environment, bound), binder)

RootEnvironment == 1

(* A packed machine shares the thunk that a variable or a global already   *)
(* has instead of suspending another reference to it.                      *)
Expression(a, term, environment) ==
    LET bound == IF Text.packed /\ term.op = "Var"
                 THEN Lookup(a.heap, environment, term.id, limits.inspect) ELSE 0
        global == Text.packed /\ term.op = "Ref"
    IN  IF bound # 0 THEN [a EXCEPT !.ids = Append(@, bound)]
        ELSE IF global /\ term.name \in DOMAIN globals
             THEN [a EXCEPT !.ids = Append(@, globals[term.name])]
        ELSE Allocate(a, Suspended(term, IF global THEN RootEnvironment ELSE environment))

Expressions(a, terms, environment) ==
    LET upTo[k \in 0 .. Len(terms)] ==
            IF k = 0 THEN a ELSE Expression(upTo[k - 1], terms[k], environment)
    IN  upTo[Len(terms)]

(* The thunk that was allocated last, applied to the arguments in turn.    *)
Applications(a, arguments) ==
    LET upTo[k \in 0 .. Len(arguments)] ==
            IF k = 0 THEN a
            ELSE Allocate(upTo[k - 1], Application(Last(upTo[k - 1].ids), arguments[k]))
    IN  upTo[Len(arguments)]

-----------------------------------------------------------------------------
(* What the collector follows: thunks <<"thunk", id>> and environments     *)
(* <<"scope", id>>.                                                        *)
Thunks(ids) == {<<"thunk", id>> : id \in ids}

ValueNodes(v) ==
    CASE v.kind = "Constructor" -> Thunks(Range(v.fields))
      [] v.kind = "Closure" -> {<<"scope", v.environment>>}
      [] v.kind = "Match" -> Thunks({v.arm, v.fallback})
      [] OTHER -> {}

(* A mutant: only the fields that are still to be evaluated are marked.    *)
FrameNodesToCome(f) ==
    CASE f.kind = "ResumeCall" -> ValueNodes(f.function) \cup Thunks({f.argument})
      [] f.kind = "Constructor" -> Thunks({f.fields[k] : k \in f.next .. Len(f.fields)})
      [] f.kind = "Match" -> Thunks({f.arm, f.fallback, f.argument})
      [] OTHER -> Thunks({f.id})
FrameNodes(f) ==
    CASE f.kind = "ResumeCall" -> ValueNodes(f.function) \cup Thunks({f.argument})
      [] f.kind = "Constructor" -> Thunks(Range(f.fields))
      [] f.kind = "Match" -> Thunks({f.arm, f.fallback, f.argument})
      [] OTHER -> Thunks({f.id})

ThunkNodes(t) ==
    CASE t.kind = "Expression" -> {<<"scope", t.environment>>}
      [] t.kind = "Application" -> Thunks({t.function, t.argument})
      [] t.kind = "Alias" -> Thunks({t.target})
      [] t.kind = "Pending" -> Thunks(Range(t.fields) \cup ({t.parent} \ {0}))
      [] t.kind = "Ready" -> ValueNodes(t.value)
      [] OTHER -> {}

ScopeNodes(s) ==
    IF s.kind = "Vacant" THEN {}
    ELSE Thunks(Range(s.thunks)) \cup {<<"scope", p>> : p \in {s.parent} \ {NoParent}}

Children(node) ==
    IF node[1] = "thunk" THEN ThunkNodes(heap.thunks[node[2]])
    ELSE ScopeNodes(heap.environments[node[2]])

(* A mutant: the roots of the callers are not marked.                      *)
RootNodesOfForce ==
    Thunks({current} \cup Range(globals))
    \cup {<<"scope", RootEnvironment>>}
    \cup UNION {FrameNodes(frames[k]) : k \in DOMAIN frames}
RootNodes ==
    Thunks({current} \cup Range(globals) \cup Range(roots))
    \cup {<<"scope", RootEnvironment>>}
    \cup UNION {FrameNodes(frames[k]) : k \in DOMAIN frames}

(* Marking, a round per reference that is followed; no path is longer than *)
(* the arenas.                                                             *)
Around(seen) == seen \cup UNION {Children(x) : x \in seen}
Marked ==
    LET rounds == Len(heap.thunks) + Len(heap.environments)
        reach[n \in 0 .. rounds] == IF n = 0 THEN RootNodes ELSE Around(reach[n - 1])
    IN  reach[rounds]

(* Sweeping, in the order of the slots.                                    *)
Swept(slots, tag, marked) ==
    [id \in DOMAIN slots |-> IF <<tag, id>> \in marked THEN slots[id] ELSE Vacant]
FreeSlots(slots, tag, marked) ==
    LET upTo[id \in 0 .. Len(slots)] ==
            IF id = 0 THEN <<>>
            ELSE IF <<tag, id>> \in marked THEN upTo[id - 1]
            ELSE Append(upTo[id - 1], id)
    IN  upTo[Len(slots)]
At(node) ==
    IF node[1] = "thunk" THEN heap.thunks[node[2]] ELSE heap.environments[node[2]]

-----------------------------------------------------------------------------
(* Steps.                                                                  *)
Init ==
    /\ program \in DOMAIN Programs
    /\ limits \in Limits
    /\ heap = [thunks |-> <<>>, environments |-> <<Scope(NoParent, <<>>, <<>>)>>,
               freeThunks |-> <<>>, freeEnvironments |-> <<>>, debt |-> 0]
    /\ globals = <<>>
    /\ roots = <<>>
    /\ frames = <<>>
    /\ current = 0
    /\ value = Erased
    /\ reading = <<>>
    /\ nodes = 0
    /\ output = Typ
    /\ pc = "start"
    /\ error = "none"

Fail(reason) ==
    /\ pc' = "failed"
    /\ error' = reason
    /\ roots' = <<>>
    /\ UNCHANGED <<program, limits, heap, globals, frames, current, value,
                   reading, nodes, output>>

settled == <<program, limits, roots, reading, nodes, output, error>>

(* force goes on with another thunk, or has a value for its frames; it     *)
(* fails when the arena or the frames are used up.                         *)
Demand(a, fs, id) ==
    IF a.ok /\ Len(fs) <= limits.frames
    THEN /\ heap' = a.heap
         /\ frames' = fs
         /\ current' = id
         /\ pc' = "safe"
         /\ UNCHANGED <<settled, globals, value>>
    ELSE Fail("budget")

Return(a, fs, v) ==
    IF a.ok /\ Len(fs) <= limits.frames
    THEN /\ heap' = a.heap
         /\ frames' = fs
         /\ value' = v
         /\ pc' = "return"
         /\ UNCHANGED <<settled, globals, current>>
    ELSE Fail("budget")

Same == Allotment(heap, <<>>)

(* A name that is referenced first gets a thunk for its body.              *)
Reference(a, name) ==
    IF name \in DOMAIN globals THEN [a EXCEPT !.ids = Append(@, globals[name])]
    ELSE Expression(a, Text.definitions[name], RootEnvironment)
Known(name, id) ==
    [n \in DOMAIN globals \cup {name} |-> IF n = name THEN id ELSE globals[n]]

(* Program::evaluate: the entry applied to its arguments, one after the    *)
(* other.                                                                  *)
Entered ==
    LET upTo[k \in 0 .. Len(Text.arguments)] ==
            IF k = 0 THEN Reference(Same, Text.entry)
            ELSE LET b == Expression(upTo[k - 1], Text.arguments[k], RootEnvironment)
                 IN  Allocate(b, Application(Last(upTo[k - 1].ids), Last(b.ids)))
    IN  upTo[Len(Text.arguments)]
Enter ==
    /\ pc = "start"
    /\ \E a \in {Entered} :
           IF a.ok
           THEN /\ heap' = a.heap
                /\ globals' = Known(Text.entry, Head(a.ids))
                /\ current' = Last(a.ids)
                /\ pc' = "read"
                /\ UNCHANGED <<settled, frames, value>>
           ELSE Fail("budget")

(* collection_safe_point, before every thunk that is inspected.            *)
Room(slots, free) == limits.arena - Len(slots) + Len(free)
CollectNow ==
    /\ heap.debt >= limits.debt
    /\ \/ Room(heap.thunks, heap.freeThunks) <= limits.reserve
       \/ Room(heap.environments, heap.freeEnvironments) <= limits.reserve

Proceed ==
    /\ pc = "safe"
    /\ ~CollectNow
    /\ pc' = "inspect"
    /\ UNCHANGED <<settled, heap, globals, frames, current, value>>

Collect ==
    /\ pc = "safe"
    /\ CollectNow
    /\ \E marked \in {Marked} :
           IF \E node \in marked : At(node) = Vacant
           THEN Fail("vacant root")
           ELSE /\ heap' = [thunks |-> Swept(heap.thunks, "thunk", marked),
                            environments |-> Swept(heap.environments, "scope", marked),
                            freeThunks |-> FreeSlots(heap.thunks, "thunk", marked),
                            freeEnvironments |->
                                FreeSlots(heap.environments, "scope", marked),
                            debt |-> 0]
                /\ pc' = "inspect"
                /\ UNCHANGED <<settled, globals, frames, current, value>>

-----------------------------------------------------------------------------
(* Inspection of the thunk that is forced.                                 *)
Thunk == heap.thunks[current]
Inspects(kind) == pc = "inspect" /\ Thunk.kind = kind

(* Two adjacent updates share one black hole and one result: the second    *)
(* thunk becomes an alias of the first.                                    *)
Shares == frames # <<>> /\ Last(frames).kind = "Update"
(* A mutant: the thunk becomes an alias of itself.                         *)
BlackenedByItself ==
    Allotment([heap EXCEPT !.thunks[current] =
                    IF Shares THEN Alias(current) ELSE Evaluating], <<>>)
Blackened ==
    Allotment([heap EXCEPT !.thunks[current] =
                    IF Shares THEN Alias(Last(frames).id) ELSE Evaluating], <<>>)
Updating == IF Shares THEN frames ELSE Append(frames, UpdateFrame(current))

InspectReady == Inspects("Ready") /\ Return(Same, frames, Thunk.value)

InspectAlias == Inspects("Alias") /\ Demand(Same, frames, Thunk.target)

(* A thunk that is being evaluated is demanded again: the program is       *)
(* cyclic.                                                                 *)
InspectBlackHole ==
    /\ pc = "inspect"
    /\ Thunk.kind \in {"Evaluating", "Pending", "Vacant"}
    /\ Fail(IF Thunk.kind = "Vacant" THEN "invalid thunk" ELSE "cyclic")

InspectApplication ==
    /\ Inspects("Application")
    /\ Demand(Blackened, Append(Updating, ApplyFrame(Thunk.argument)), Thunk.function)

Evaluates(op) == Inspects("Expression") /\ Thunk.term.op = op

EvaluateVar ==
    /\ Evaluates("Var")
    /\ LET bound == Lookup(heap, Thunk.environment, Thunk.term.id, Len(heap.environments))
       IN  IF bound = 0 THEN Fail("unbound") ELSE Demand(Blackened, Updating, bound)

EvaluateRef ==
    /\ Evaluates("Ref")
    /\ LET name == Thunk.term.name
           a == Reference(Blackened, name)
       IN  IF a.ok /\ Len(Updating) <= limits.frames
           THEN /\ heap' = a.heap
                /\ frames' = Updating
                /\ globals' = Known(name, Last(a.ids))
                /\ current' = Last(a.ids)
                /\ pc' = "safe"
                /\ UNCHANGED <<settled, value>>
           ELSE Fail("budget")

EvaluateLam ==
    /\ Evaluates("Lam")
    /\ Return(Blackened, Updating,
              Closure(Thunk.term.id, Thunk.term.body, Thunk.environment))

(* The argument is suspended before the function.                          *)
EvaluateApp ==
    /\ Evaluates("App")
    /\ LET a == Expressions(Blackened, <<Thunk.term.argument, Thunk.term.function>>,
                            Thunk.environment)
       IN  Demand(a, Append(Updating, ApplyFrame(Head(a.ids))), Last(a.ids))

EvaluateMat ==
    /\ Evaluates("Mat")
    /\ LET a == Expressions(Blackened, <<Thunk.term.arm, Thunk.term.fallback>>,
                            Thunk.environment)
       IN  Return(a, Updating,
                  Matcher(Thunk.term.constructor, Head(a.ids), Last(a.ids)))

(* Every value of a let sees the environment around it.                    *)
EvaluateLet ==
    /\ Evaluates("Let")
    /\ LET a == Expressions(Blackened, Thunk.term.values, Thunk.environment)
           b == AllocateScope(a, Scope(Thunk.environment, Thunk.term.ids, a.ids))
           c == Expression(b, Thunk.term.body, Last(b.ids))
       IN  Demand(c, Updating, Last(c.ids))

EvaluateAnn ==
    /\ Evaluates("Ann")
    /\ LET a == Expression(Blackened, Thunk.term.body, Thunk.environment)
       IN  Demand(a, Updating, Last(a.ids))

EvaluateAtom ==
    /\ Evaluates("Efq") \/ Evaluates("Typ")
    /\ Return(Blackened, Updating, IF Thunk.term.op = "Efq" THEN Impossible ELSE Erased)

(* The fields of a lazy constructor stay suspended.                        *)
Fields == Expressions(Blackened, Thunk.term.args, Thunk.environment)
ByValue == Text.strict /\ Thunk.term.args # <<>>

EvaluateCtr ==
    /\ Evaluates("Ctr")
    /\ ~ByValue
    /\ Return(Fields, Updating, Constructor(Thunk.term.name, Fields.ids))

(* compress_constructor_tail: a constructor whose last field is the one    *)
(* now evaluated leaves the frames and waits in its own slot, linked to    *)
(* the one around it.                                                      *)
Compressible(fs) ==
    LET n == Len(fs)
    IN  /\ n >= 3
        /\ fs[n].kind = "Update"
        /\ fs[n - 1].kind = "Constructor"
        /\ fs[n - 1].next = Len(fs[n - 1].fields)
        /\ fs[n - 2].kind = "Update"
HasParent(fs) == Len(fs) >= 4 /\ fs[Len(fs) - 3].kind = "CompleteConstructorChain"
Linked(h, fs) ==
    LET n == Len(fs)
    IN  [h EXCEPT !.thunks[fs[n - 2].id] =
            PendingConstructor(fs[n - 1].name, fs[n - 1].fields,
                               IF HasParent(fs) THEN fs[n - 3].id ELSE 0)]
Shortened(fs) ==
    LET n == Len(fs)
    IN  SubSeq(fs, 1, IF HasParent(fs) THEN n - 4 ELSE n - 3)
            \o <<ChainFrame(fs[n - 2].id), fs[n]>>

EvaluateStrictCtr ==
    /\ Evaluates("Ctr")
    /\ ByValue
    /\ LET frame == ConstructorFrame(Thunk.term.name, Fields.ids, 1)
           fs == Updating
       IN  IF Compressible(fs)
           THEN Demand([Fields EXCEPT !.heap = Linked(@, fs)],
                       Append(Shortened(fs), frame), Head(Fields.ids))
           ELSE Demand(Fields, Append(fs, frame), Head(Fields.ids))

-----------------------------------------------------------------------------
(* The value returns to the innermost frame.                               *)
Top == Last(frames)
Rest == Front(frames)
Returns(kinds) == pc = "return" /\ frames # <<>> /\ Top.kind \in kinds

ReturnAnswer ==
    /\ pc = "return"
    /\ frames = <<>>
    /\ pc' = "answer"
    /\ UNCHANGED <<settled, heap, globals, frames, current, value>>

ReturnUpdate ==
    /\ Returns({"Update"})
    /\ Return(Allotment([heap EXCEPT !.thunks[Top.id] = Ready(value)], <<>>), Rest, value)

(* By value, the argument is evaluated before the call.                    *)
DemandsArgument ==
    Top.kind = "Apply" /\ Text.strict /\ heap.thunks[Top.id].kind # "Ready"

ReturnArgument ==
    /\ Returns({"Apply"})
    /\ DemandsArgument
    /\ Demand(Same, Append(Rest, ResumeFrame(value, Top.id)), Top.id)

ReturnResume ==
    /\ Returns({"ResumeCall"})
    /\ Return(Same, Append(Rest, CallFrame(Top.argument)), Top.function)

ReturnField ==
    /\ Returns({"Constructor"})
    /\ Top.next < Len(Top.fields)
    /\ Demand(Same, Append(Rest, [Top EXCEPT !.next = @ + 1]), Top.fields[Top.next + 1])

ReturnConstructor ==
    /\ Returns({"Constructor"})
    /\ Top.next = Len(Top.fields)
    /\ Return(Same, Rest, Constructor(Top.name, Top.fields))

(* One turn of complete_constructor_chain, which goes on with the parent.  *)
ReturnChain ==
    /\ Returns({"CompleteConstructorChain"})
    /\ LET pending == heap.thunks[Top.id]
       IN  IF pending.kind # "Pending"
           THEN Fail("invalid chain")
           ELSE LET v == Constructor(pending.name, pending.fields)
                IN  Return(Allotment([heap EXCEPT !.thunks[Top.id] = Ready(v)], <<>>),
                           IF pending.parent = 0 THEN Rest
                           ELSE Append(Rest, ChainFrame(pending.parent)),
                           v)

Calls == Returns({"Apply", "Call"}) /\ ~DemandsArgument

CallClosure ==
    /\ Calls
    /\ value.kind = "Closure"
    /\ LET a == AllocateScope(Same, Scope(value.environment, <<value.binder>>, <<Top.id>>))
           b == Expression(a, value.body, Last(a.ids))
       IN  Demand(b, Rest, Last(b.ids))

(* Anything but a closure or a match cannot be called.                     *)
CallMatch ==
    /\ Calls
    /\ value.kind # "Closure"
    /\ IF value.kind = "Match"
       THEN Demand(Same, Append(Rest, MatchFrame(value, Top.id)), Top.id)
       ELSE Fail("non-function")

(* The arm is applied to the fields, the fallback to the whole argument.   *)
ReturnMatch ==
    /\ Returns({"Match"})
    /\ IF value.kind # "Constructor"
       THEN Fail("non-constructor")
       ELSE LET a == IF value.name = Top.constructor
                     THEN Applications(Allotment(heap, <<Top.arm>>), value.fields)
                     ELSE Allocate(Same, Application(Top.fallback, Top.argument))
            IN  Demand(a, Rest, Last(a.ids))

-----------------------------------------------------------------------------
(* materialize: the answer is read out depth first; the fields of every    *)
(* constructor that is read stay rooted meanwhile (with_roots).            *)
readers == <<program, limits, heap, globals, frames>>

Read ==
    /\ pc = "read"
    /\ IF Len(reading) > limits.depth \/ nodes >= limits.nodes
       THEN Fail("budget")
       ELSE /\ nodes' = nodes + 1
            /\ pc' = "safe"
            /\ UNCHANGED <<readers, roots, current, value, reading, output, error>>

ReadFields ==
    /\ pc = "answer"
    /\ IF value.kind # "Constructor" THEN Fail("no data")
       ELSE IF Len(value.fields) > limits.arena - Len(roots) THEN Fail("budget")
       ELSE IF value.fields = <<>>
       THEN /\ output' = Ctr(value.name, <<>>)
            /\ pc' = "built"
            /\ UNCHANGED <<readers, roots, current, value, reading, nodes, error>>
       ELSE /\ roots' = roots \o value.fields
            /\ reading' = Append(reading, [name |-> value.name, fields |-> value.fields,
                                          args |-> <<>>])
            /\ current' = Head(value.fields)
            /\ pc' = "read"
            /\ UNCHANGED <<readers, value, nodes, output, error>>

(* A field was read out: the next one follows, or its constructor is read. *)
Built ==
    /\ pc = "built"
    /\ reading # <<>>
    /\ LET call == Last(reading)
           args == Append(call.args, output)
           more == Len(args) < Len(call.fields)
       IN  IF more
           THEN /\ reading' = Append(Front(reading), [call EXCEPT !.args = args])
                /\ current' = call.fields[Len(args) + 1]
                /\ pc' = "read"
                /\ UNCHANGED <<readers, roots, value, nodes, output, error>>
           ELSE /\ reading' = Front(reading)
                /\ roots' = SubSeq(roots, 1, Len(roots) - Len(call.fields))
                /\ output' = Ctr(call.name, args)
                /\ UNCHANGED <<readers, current, value, nodes, pc, error>>

Finish ==
    /\ pc = "built"
    /\ reading = <<>>
    /\ pc' = "done"
    /\ UNCHANGED <<settled, heap, globals, frames, current, value>>

(* The step budget is exhausted or the evaluation is cancelled.            *)
Ended == pc \in {"done", "failed"}
Abort == ~Ended /\ Fail("budget")

Stopped == Ended /\ UNCHANGED machine

Inspect ==
    \/ InspectReady \/ InspectAlias \/ InspectBlackHole \/ InspectApplication
    \/ EvaluateVar \/ EvaluateRef \/ EvaluateLam \/ EvaluateApp \/ EvaluateMat
    \/ EvaluateLet \/ EvaluateAnn \/ EvaluateAtom \/ EvaluateCtr \/ EvaluateStrictCtr

Resume ==
    \/ ReturnAnswer \/ ReturnUpdate \/ ReturnArgument \/ ReturnResume \/ ReturnField
    \/ ReturnConstructor \/ ReturnChain \/ CallClosure \/ CallMatch \/ ReturnMatch

Step == Enter \/ Proceed \/ Collect \/ Inspect \/ Resume \/ Read \/ ReadFields \/ Built \/ Finish

Next == Step \/ Abort \/ Stopped

Spec == Init /\ [][Next]_machine
(* Weak fairness of Step, which is enabled until the invocation has ended: *)
(* nothing but the end of the process keeps the loop of force from going on.*)
FairSpec == Spec /\ ([]<>Ended \/ []<><<Step>>_machine)

-----------------------------------------------------------------------------
(* Properties.                                                             *)

(* The state has its types and the arenas, the frames and the answer keep  *)
(* their limits.                                                           *)
EvaluatorTypeOK ==
    /\ program \in DOMAIN Programs
    /\ limits \in Limits
    /\ \A id \in DOMAIN heap.thunks : heap.thunks[id].kind \in
            {"Vacant", "Expression", "Application", "Alias", "Evaluating", "Pending", "Ready"}
    /\ \A e \in DOMAIN heap.environments : heap.environments[e].kind \in {"Vacant", "Scope"}
    /\ Len(heap.thunks) <= limits.arena
    /\ Len(heap.environments) <= limits.arena
    /\ Range(globals) \subseteq DOMAIN heap.thunks
    /\ Len(roots) <= limits.arena
    /\ Len(frames) <= limits.frames
    /\ current \in 0 .. Len(heap.thunks)
    /\ nodes <= limits.nodes
    /\ pc \in {"start", "read", "safe", "inspect", "return", "answer", "built", "done", "failed"}

VacantIn(slots) == {id \in DOMAIN slots : slots[id] = Vacant}

(* The free lists name the vacant slots, each once: no slot is handed out  *)
(* twice by Machine::allocate and environment, and none is lost.           *)
FreeListsExact ==
    /\ Range(heap.freeThunks) = VacantIn(heap.thunks)
    /\ Len(heap.freeThunks) = Cardinality(VacantIn(heap.thunks))
    /\ Range(heap.freeEnvironments) = VacantIn(heap.environments)
    /\ Len(heap.freeEnvironments) = Cardinality(VacantIn(heap.environments))

Unread ==
    UNION {{reading[k].fields[j] : j \in Len(reading[k].args) + 1 .. Len(reading[k].fields)}
           : k \in DOMAIN reading}
HeapClosed ==
    pc # "failed" =>
        \A node \in RootNodes \cup Thunks(Unread)
                    \cup (UNION {ThunkNodes(heap.thunks[id]) : id \in DOMAIN heap.thunks})
                    \cup (UNION {ScopeNodes(heap.environments[e]) :
                                     e \in DOMAIN heap.environments}) :
            node = <<"thunk", 0>> \/ At(node) # Vacant

PendingIn(thunks) == {id \in DOMAIN thunks : thunks[id].kind = "Pending"}

(* A chain of pending constructors, from its head outwards: the least set  *)
(* that contains the head and, with a constructor, the one around it.      *)
Linkage(thunks, S) == \A id \in S : thunks[id].parent # 0 => thunks[id].parent \in S
ChainFrom(thunks, head) ==
    {id \in PendingIn(thunks) :
        \A S \in SUBSET PendingIn(thunks) : head \in S /\ Linkage(thunks, S) => id \in S}

(* The thunks that are updated, and the chains, in the order of the frames.*)
FramesOf(fs, kind) == {k \in DOMAIN fs : fs[k].kind = kind}
Updates(fs) == {fs[k].id : k \in FramesOf(fs, "Update")}
Heads(fs) == {fs[k].id : k \in FramesOf(fs, "CompleteConstructorChain")}
EachOnce(fs, kind) == \A j, k \in FramesOf(fs, kind) : fs[j].id = fs[k].id => j = k

(* The black holes are exactly the thunks whose update is on the frames    *)
(* and the constructors pending in a chain: none is left behind when force *)
(* returns, none is finished twice, and no chain runs in a circle.         *)
Holes(thunks, fs) ==
    /\ {id \in DOMAIN thunks : thunks[id].kind = "Evaluating"} = Updates(fs)
    /\ EachOnce(fs, "Update") /\ EachOnce(fs, "CompleteConstructorChain")
    /\ Heads(fs) \subseteq PendingIn(thunks)
    /\ PendingIn(thunks) = UNION {ChainFrom(thunks, head) : head \in Heads(fs)}
    /\ \A i, j \in Heads(fs) : i # j => ChainFrom(thunks, i) \cap ChainFrom(thunks, j) = {}
    /\ \A id \in PendingIn(thunks) :
            thunks[id].parent # 0 =>
                /\ thunks[id].parent \in PendingIn(thunks)
                /\ id \notin ChainFrom(thunks, thunks[id].parent)
BlackHolesExact == pc # "failed" => Holes(heap.thunks, frames)

(* Whatever a slot in use, a frame, a global or an unfinished materialize  *)
(* refers to is in use as well, at every moment and not only at the safe   *)
(* points where the collector looks, and a slot that is not in use is on   *)
(* its free list once: a reference never outlives its slot, and no slot is *)
(* handed out twice.  The black holes among them are exact.                *)
HeapSound == EvaluatorTypeOK /\ FreeListsExact /\ HeapClosed /\ BlackHolesExact

(* Every invocation ends: with an answer, with an error, or because its    *)
(* budget is used up.  A program that demands its own value is noticed.    *)
EvaluationEnds == <>Ended
=============================================================================
