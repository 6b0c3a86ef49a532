------------------------------- MODULE Loader -------------------------------
(***************************************************************************)
(* Loader of src/syntax/parser.rs: a module, the modules it imports and    *)
(* the bundled Base are read depth first into one book.  A step reads one  *)
(* import line or one declaration of the file on top of the stack.         *)
(*                                                                         *)
(* disk is the file system: links gives the file that a path without . and *)
(* .. names, files its header lines and tokens.  A header line is          *)
(* [path, alias]; the path <<"Base">> with the alias "" is import Base and *)
(* an alias "?" stands for any line that is neither.                       *)
(***************************************************************************)
EXTENDS Parser

CONSTANTS MaxFiles,    \* 64 files being read at once
          Disks,       \* the file systems explored
          Parse(_)     \* Parser's Declaration: given apart, for TLC's profile of the actions

VARIABLES disk,      \* the files, with the bundled ones, and the mode
          stack,     \* the files being read, the innermost last
          seen,      \* the namespace of every file read
          base,      \* whether Base has been read
          world,     \* book, templates, fresh, foreign: what every parse shares
          outcome    \* "loading", "done" or the first error
vars == <<disk, stack, seen, base, world, outcome>>

(* normalize_namespace, and lexical_path below the directory of the root.  *)
Normal(path) ==
    FoldLeft(LAMBDA parts, s : CASE s \in {".", ""} -> parts
                                 [] s = ".." /\ parts # <<>> /\ Last(parts) # ".." -> Front(parts)
                                 [] OTHER -> Append(parts, s), <<>>, path)
Directory(path) == SubSeq(path, 1, Len(path) - 1)
RECURSIVE Joined(_)
Joined(parts) == IF Len(parts) = 1 THEN parts[1] ELSE parts[1] \o "/" \o Joined(Tail(parts))
Namespace(path) == IF path = <<>> THEN <<>> ELSE <<Joined(path)>>

Frame(file, path, lexical, tokens, origin) ==
    [file |-> file, path |-> path, ns |-> lexical, line |-> 1, aliases |-> <<>>, tokens |-> tokens, at |-> 1, origin |-> origin]
BaseFrames ==
    LET one(file, tokens) == Frame(file, <<>>, <<>>, tokens, "Bundled")
    IN  IF disk.executable THEN <<one("<Base effects>", disk.effects), one("<Base>", disk.base)>>
        ELSE <<one("<Base>", disk.base)>>
IsBase(frame) == frame.origin = "Bundled"
Active == {stack[i].file : i \in {j \in DOMAIN stack : ~IsBase(stack[j])}}
Top == Last(stack)
Stop(why) == outcome' = why /\ UNCHANGED <<disk, stack, seen, base, world>>

Init ==
    /\ disk \in Disks
    /\ stack = <<>> /\ seen = <<>> /\ base = FALSE
    /\ world = [book |-> <<>>, templates |-> [declarations |-> <<>>, instances |-> 0, active |-> 0], fresh |-> 1,
                foreign |-> [enabled |-> disk.executable, definitions |-> <<>>]]
    /\ outcome = "loading"

(* Loader::file up to the reading of its first line; below is the stack    *)
(* without the new file.                                                   *)
File(path, namespace, below) ==
    IF path \notin DOMAIN disk.links THEN Stop("missing")
    ELSE LET real == disk.links[path]
         IN  CASE Cardinality(Active) >= MaxFiles -> Stop("limit")
               [] real \in Active -> Stop("cycle")
               [] real \in DOMAIN seen /\ seen[real] # namespace -> Stop("namespace")
               [] real \in DOMAIN seen -> stack' = below /\ UNCHANGED <<disk, seen, base, world, outcome>>
               [] OTHER -> /\ stack' = Append(below, Frame(real, path, namespace, disk.files[real].tokens, "Local"))
                           /\ UNCHANGED <<disk, seen, base, world, outcome>>

Root == outcome = "loading" /\ stack = <<>> /\ seen = <<>> /\ File(disk.root, <<>>, <<>>)

(* One header line: import Base, or import path as alias.                  *)
Header(frame) == IF IsBase(frame) THEN <<>> ELSE disk.files[frame.file].imports
ReadsHeader == outcome = "loading" /\ stack # <<>> /\ Top.line <= Len(Header(Top))
Import == Header(Top)[Top.line]
PastLine(aliases) == ReplaceAt(stack, Len(stack), [Top EXCEPT !.line = @ + 1, !.aliases = aliases])

ImportBase ==
    /\ ReadsHeader /\ Import.alias = "" /\ Import.path = <<"Base">>
    /\ base' = TRUE
    /\ stack' = PastLine(Top.aliases) \o (IF base THEN <<>> ELSE BaseFrames)
    /\ UNCHANGED <<disk, seen, world, outcome>>
ImportRefused ==
    /\ ReadsHeader
    /\ \/ Import.alias = "?" /\ Stop("import syntax")
       \/ Import.alias \notin {"", "?"} /\ Import.path[1] = "0x" /\ Stop("hub package")
       \/ Import.alias \in DOMAIN Top.aliases /\ Import.path[1] # "0x" /\ Stop("duplicate alias")
ImportFile ==
    LET at == Normal(Directory(Top.path) \o Import.path)
        sub == Normal(Directory(Top.ns) \o Import.path)
    IN  /\ ReadsHeader /\ Import.alias \notin {"", "?"} \cup DOMAIN Top.aliases /\ Import.path[1] # "0x"
        /\ File(at, sub, PastLine((Import.alias :> Namespace(sub)) @@ Top.aliases))

(* parse_into, one declaration at a time.                                  *)
ParserOf(frame) ==
    [NewParser(frame.tokens, Namespace(frame.ns), frame.aliases, frame.origin, world.book, world.templates, world.fresh,
               [world.foreign EXCEPT !.enabled = @ /\ frame.file # "<Base>"])
     EXCEPT !.at = frame.at]
ReadsBody == outcome = "loading" /\ stack # <<>> /\ Top.line > Len(Header(Top))
ReadDeclaration ==
    LET p == Parse(ParserOf(Top))
    IN  /\ ReadsBody /\ Top.tokens[Top.at].t # ""
        /\ IF Failed(p) THEN Stop(p.err)
           ELSE /\ stack' = ReplaceAt(stack, Len(stack), [Top EXCEPT !.tokens = p.tokens, !.at = p.at])
                /\ world' = [book |-> p.book, templates |-> p.templates, fresh |-> p.fresh,
                             foreign |-> [p.foreign EXCEPT !.enabled = world.foreign.enabled]]
                /\ UNCHANGED <<disk, seen, base, outcome>>

CloseFile ==
    /\ ReadsBody /\ Top.tokens[Top.at].t = ""
    /\ stack' = Front(stack)
    /\ seen' = IF IsBase(Top) THEN seen ELSE (Top.file :> Top.ns) @@ seen
    /\ outcome' = IF Len(stack) = 1 THEN "done" ELSE "loading"
    /\ UNCHANGED <<disk, base, world>>

(* The load has given its book or its error; a load that stops anywhere    *)
(* else is a deadlock.                                                     *)
Ended == outcome # "loading" /\ UNCHANGED vars

Next == Root \/ ImportBase \/ ImportRefused \/ ImportFile \/ ReadDeclaration \/ CloseFile \/ Ended
Spec == Init /\ [][Next]_vars
=============================================================================
