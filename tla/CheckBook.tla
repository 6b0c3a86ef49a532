----------------------------- MODULE CheckBook -----------------------------
(***************************************************************************)
(* Checking a whole book, declaration by declaration: check_book, which    *)
(* makes proofs (kernel/check.rs), and check_executable, which makes       *)
(* programs that may rest on unsafe definitions and on contracts with the  *)
(* host (kernel/executable.rs).                                            *)
(*                                                                         *)
(* A book has a mode, its declarations in source order, the names the      *)
(* loader found in the bundled Base, and its contracts: for each foreign   *)
(* name its arity and whether it is an intrinsic, for each opaque type     *)
(* whether it is a handle or Chan, for each numeric operation its arity,   *)
(* quantity and types (Read, which returns a Maybe, is left out).  The     *)
(* declarations of the Prelude come first in every book.                   *)
(***************************************************************************)
EXTENDS CompileJs

CONSTANTS
    Prelude,    \* the declarations every book starts with
    Books,      \* the books to be checked, by name
    Budget,     \* how deep checking and evaluation may nest
    Judge(_, _, _)  \* Judgement: given apart, for TLC's profile of the actions

VARIABLES
    title,      \* the name of the book
    at,         \* the declaration that is next
    engine,     \* what was checked so far
    verdict     \* "open", "checked" or "rejected"

vars == <<title, at, engine, verdict>>
book == Books[title]

(* The Prelude is checked like any other declaration.                      *)
PreludeEngine ==
    FoldLeft(LAMBDA e, d : Judge([mode |-> "strict"], e, d).engine,
             Engine(1 + Max({HighestOf(d) : d \in Range(Prelude)}), Budget), Prelude)

(* prepare_book finds the identities in use before anything is checked.    *)
Prepared(b) ==
    [PreludeEngine EXCEPT !.next = Max({@} \cup {1 + HighestOf(d) : d \in Range(b.declarations)})]

Init ==
    /\ title \in DOMAIN Books
    /\ at = 1
    /\ engine = Prepared(book)
    /\ verdict = "open"

RECURSIVE StripAnnotations(_), ResultType(_)

StripAnnotations(t) == IF t.tag = "Ann" THEN StripAnnotations(t.kids[1]) ELSE t
ResultType(t) ==
    LET s == StripAnnotations(t) IN IF s.tag = "All" THEN ResultType(s.kids[2]) ELSE s

(* A foreign definition returns the IO of Base, and says so literally.     *)
ForeignContract(b, e, d) ==
    LET s == Spine(ResultType(d.ty))
    IN  /\ d.name \in DOMAIN b.foreign
        /\ d.body = NoBody /\ b.foreign[d.name].arity = Len(d.parameters)
        /\ b.foreign[d.name].builtin => d.name \in b.base /\ ~d.unsafe
        /\ "IO" \in b.base \cap DOMAIN e.defs /\ e.defs["IO"].body # NoBody
        /\ s.head = Ref("IO") /\ Len(s.args) = 1

(* The only opaque types are handles, exactly Type, and Chan, exactly      *)
(* @-A:Type -> Data.                                                       *)
OpaqueContract(b, d) ==
    LET t == StripAnnotations(d.ty)
        p == d.parameters[1]
    IN  /\ d.name \in b.base /\ d.body = NoBody /\ ~d.foreign /\ ~d.unsafe
        /\ IF b.opaque[d.name] = "handle" THEN d.parameters = <<>> /\ t = Kind(Lone)
           ELSE /\ Len(d.parameters) = 1 /\ t.tag = "All"
                /\ t.quants = <<None>> /\ p.quant = None /\ t.ids = <<p.id>>
                /\ \A k \in {t.kids[1], p.ty} : StripAnnotations(k) = Kind(Lone)
                /\ StripAnnotations(t.kids[2]) = Kind(Many)

(* A numeric operation has the telescope its intrinsic asks for, over      *)
(* datatypes that Base really declared.                                    *)
NumericContract(b, e, d) ==
    LET op == b.numeric[d.name]
        peel(t, p) ==
            IF /\ t.tag = "All" /\ t.quants = <<op.quant>> /\ p.quant = op.quant /\ t.ids = <<p.id>>
               /\ \A k \in {t.kids[1], p.ty} : StripAnnotations(k) = Ref(op.input)
            THEN StripAnnotations(t.kids[2]) ELSE Err
    IN  /\ d.name \in b.base /\ Len(d.parameters) = op.arity
        /\ {op.input, op.output} \subseteq b.base \cap DOMAIN e.adts
        /\ FoldLeft(LAMBDA t, p : IF t = Err THEN Err ELSE peel(t, p),
                    StripAnnotations(d.ty), d.parameters) = Ref(op.output)

Sealed(result, name) ==
    IF result.ok THEN Accepted([result.engine EXCEPT !.contracts = @ \cup {name}]) ELSE Rejected

(* The annotation of a later body already governs its law.                 *)
UnsafeName(b, name) == \E d \in Range(b.declarations) : d.sort = "Def" /\ d.name = name /\ d.unsafe

ValidateExecutable(b, e, d) ==
    CASE d.sort = "Adt" -> ValidateAdt(e, d)
      [] d.name \in DOMAIN b.opaque ->
           IF OpaqueContract(b, d)
           THEN Sealed(ValidateDefinition(e, d, FALSE, FALSE), d.name) ELSE Rejected
      [] d.foreign ->
           IF ForeignContract(b, e, d)
           THEN Sealed(ValidateDefinition(e, d, TRUE, d.unsafe), d.name) ELSE Rejected
      [] d.name \in DOMAIN b.numeric ->
           IF NumericContract(b, e, d) /\ ~d.unsafe /\ d.body = NoBody
           THEN Sealed(ValidateDefinition(e, d, FALSE, FALSE), d.name) ELSE Rejected
      [] OTHER -> ValidateDefinition(e, d, FALSE, UnsafeName(b, d.name))

(* What checking one declaration of a book gives.                          *)
Judgement(b, e, d) ==
    LET r == IF b.mode = "strict" THEN Validate(e, d) ELSE ValidateExecutable(b, e, d)
    IN  IF r.ok /\ ~Holed(d) THEN r ELSE Rejected

Verdict == Judge(book, engine, book.declarations[at])
Accept ==
    /\ verdict = "open" /\ at <= Len(book.declarations)
    /\ Verdict.ok
    /\ engine' = Verdict.engine
    /\ at' = at + 1
    /\ UNCHANGED <<title, verdict>>

Reject ==
    /\ verdict = "open" /\ at <= Len(book.declarations)
    /\ ~Verdict.ok
    /\ verdict' = "rejected"
    /\ UNCHANGED <<title, at, engine>>

(* Every law must have a proof, every contract its declaration.            *)
Complete(b, e) ==
    /\ OpenLaws(e) = {}
    /\ (DOMAIN b.foreign) \cup DOMAIN b.numeric \cup DOMAIN b.opaque \subseteq e.contracts
Finish ==
    /\ verdict = "open" /\ at > Len(book.declarations)
    /\ verdict' = IF Complete(book, engine) THEN "checked" ELSE "rejected"
    /\ UNCHANGED <<title, at, engine>>

(* What `main' is, once everything is checked: IO is not unfolded.         *)
EntryKind(b, e) ==
    LET main == e.defs["main"]
        opaque == [e EXCEPT !.defs["IO"].body = NoBody]
        s == Spine(Whnf(opaque, main.ty))
    IN  CASE "main" \notin DOMAIN e.defs -> "Missing"
          [] main.foreign \/ main.body = NoBody -> "Error"
          [] "IO" \notin b.base \cap DOMAIN e.defs -> "Pure"
          [] s.head = Ref("IO") /\ Len(s.args) = 1 -> "Io"
          [] OTHER -> "Pure"

Next == Accept \/ Reject \/ Finish
Spec == Init /\ [][Next]_vars
=============================================================================
