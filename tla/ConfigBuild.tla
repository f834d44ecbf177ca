----------------------------- MODULE ConfigBuild -----------------------------
(***************************************************************************)
(* ConfigBuilder.Build (config/config.go): from the files of a             *)
(* configuration to a Config ready to start, or to nothing.                *)
(*                                                                         *)
(* Functions come first, then constants in the order of their references,  *)
(* then the blocks in the order of theirs.  Block processing goes on after *)
(* a block fails; what was built by then is discarded.  Expressions are    *)
(* left out but for the names they mention.                                *)
(***************************************************************************)
EXTENDS Naturals, Sequences, FiniteSets, SequencesExt

CONSTANTS
  Configs,   \* [vinit, funcs, consts, blocks]
  Plugins    \* functions the program itself contributes

VARIABLES
  cfg,        \* the configuration
  phase,      \* the stage of Build; "built" and "refused" end it
  loaded,     \* vinit blocks carried out, in order
  functions,  \* name -> the stage it came from
  consts,     \* constants evaluated, in order
  left,       \* block -> references not yet sorted before it (inDegree)
  sorted,     \* blocks in the order of SortBlocksByDependencies
  processed,  \* blocks processed so far, and whether each went well
  alive,      \* blocks whose components exist
  errors      \* diags.HasErrors()

vars == <<cfg, phase, loaded, functions, consts, left, sorted, processed, alive, errors>>

----------------------------------------------------------------------------
(* Stages.  Every one of them ends Build on an error.                      *)

FunctionStages == <<"function", "editor", "procedure", "functy">>
After(p) ==
  CASE p = "parse"      -> "function"
    [] p = "function"   -> "editor"
    [] p = "editor"     -> "procedure"
    [] p = "procedure"  -> "functy"
    [] p = "functy"     -> "merge"
    [] p = "merge"      -> "preprocess"
    [] p = "preprocess" -> "consts"
    [] p = "consts"     -> "edges"
    [] p = "edges"      -> "sort"
    [] p = "sort"       -> "process"
    [] p = "process"    -> "finish"
    [] p = "finish"     -> "built"

Init ==
  /\ cfg \in Configs /\ phase = "vinit" /\ loaded = <<>> /\ functions = <<>>
  /\ consts = <<>> /\ left = <<>> /\ sorted = <<>> /\ processed = <<>>
  /\ alive = {} /\ errors = FALSE

\* processVinitBlocks: plugin blocks first, then git blocks, each in file
\* order, until one fails.
VinitOrder ==
  SelectSeq(cfg.vinit, LAMBDA b : b.type = "plugin") \o
  SelectSeq(cfg.vinit, LAMBDA b : b.type = "git")
VinitRepeats(i) ==
  \E j \in 1..(i - 1) : VinitOrder[j].type = VinitOrder[i].type
                     /\ VinitOrder[j].label = VinitOrder[i].label

Vinit ==
  /\ phase = "vinit"
  /\ LET i == Len(loaded) + 1 IN
     \/ /\ i > Len(VinitOrder) /\ phase' = "parse" /\ UNCHANGED loaded
     \/ /\ i <= Len(VinitOrder) /\ ~VinitRepeats(i)
        /\ loaded' = Append(loaded, IF VinitOrder[i].disabled THEN "skipped" ELSE VinitOrder[i].type)
        /\ UNCHANGED phase
     \/ /\ i <= Len(VinitOrder) /\ phase' = "refused"
        /\ VinitRepeats(i) \/ ~VinitOrder[i].disabled
        /\ UNCHANGED loaded
  /\ UNCHANGED <<cfg, functions, consts, left, sorted, processed, alive, errors>>

\* parseFilesWithExt, GetBlocks and the handlers' Preprocess: any of them may
\* refuse.
Check ==
  /\ phase \in {"parse", "preprocess"}
  /\ phase' \in {After(phase), "refused"}
  /\ UNCHANGED <<cfg, loaded, functions, consts, left, sorted, processed, alive, errors>>

\* extractUserFunctions, extractEditorFunctions, extractProcedureFunctions and
\* the functy compiler: a name twice in one stage is refused; a later stage's
\* function replaces an earlier one's.
Repeats(names) == \E i, j \in DOMAIN names : i # j /\ names[i] = names[j]
Over(f, g) == [n \in DOMAIN f \cup DOMAIN g |-> IF n \in DOMAIN g THEN g[n] ELSE f[n]]

Extract ==
  /\ phase \in ToSet(FunctionStages)
  /\ LET names == cfg.funcs[phase] IN
     \/ /\ ~Repeats(names) /\ phase' = After(phase)
        /\ functions' = Over(functions, [n \in ToSet(names) |-> phase])
     \/ /\ Repeats(names) /\ phase' = "refused" /\ UNCHANGED functions
  /\ UNCHANGED <<cfg, loaded, consts, left, sorted, processed, alive, errors>>

\* Broken form: a user's function may take any name.
ClashesNever == FALSE

\* GetFunctions: a user's function never replaces the program's own.
Clashes == DOMAIN functions \cap Plugins # {}

Merge ==
  /\ phase = "merge"
  /\ IF Clashes THEN phase' = "refused" /\ UNCHANGED functions
     ELSE phase' = After(phase)
          /\ functions' = Over([n \in Plugins |-> "plugin"], functions)
  /\ UNCHANGED <<cfg, loaded, consts, left, sorted, processed, alive, errors>>

----------------------------------------------------------------------------
(* const: ConstBlockHandler.FinishPreprocessing.                           *)

Consts == DOMAIN cfg.consts
Known == {"env", "http_status"}  \* ambient roots, config.Constants beforehand

\* Some of the nodes each wait for another of them: there is a circle.
HasCircle(nodes, waits) ==
  \E C \in SUBSET nodes : C # {} /\ \A n \in C : waits[n] \cap C # {}

\* SortAttributesByDependencies refuses a loop and a name nobody knows.
LoopedConsts == HasCircle(Consts, cfg.consts)
UnknownName == \E c \in Consts : ~(cfg.consts[c] \subseteq Consts \cup Known)

\* OrderedWalk and the evaluations: an error is noted and the rest goes on.
SortConsts ==
  /\ phase = "consts" /\ (LoopedConsts \/ UnknownName)
  /\ phase' = "refused"
  /\ UNCHANGED <<cfg, loaded, functions, consts, left, sorted, processed, alive, errors>>

Precedes(c) == cfg.consts[c] \cap Consts \subseteq ToSet(consts)

Const(c) ==
  /\ phase = "consts" /\ ~LoopedConsts /\ ~UnknownName
  /\ c \in Consts \ ToSet(consts) /\ Precedes(c)
  /\ consts' = Append(consts, c)
  /\ errors' \in {errors, TRUE}
  /\ UNCHANGED <<cfg, phase, loaded, functions, left, sorted, processed, alive>>

ConstsEnd ==
  /\ phase = "consts" /\ ToSet(consts) = Consts
  /\ phase' = IF errors THEN "refused" ELSE After(phase)
  /\ UNCHANGED <<cfg, loaded, functions, consts, left, sorted, processed, alive, errors>>

----------------------------------------------------------------------------
(* The blocks.                                                             *)

Blocks == DOMAIN cfg.blocks
Ids == {b \in Blocks : cfg.blocks[b].ordered}   \* GetBlockDependencyId # ""

\* backendBlockIDs: server "metrics" and client "otlp".
Backends == {b \in Blocks : cfg.blocks[b].kind \in {"metrics", "otlp"}}
TracingBackends == {b \in Blocks : cfg.blocks[b].kind = "otlp"}

\* Broken form: backends pick backends as well.
ImplicitForAll(b) == IF cfg.blocks[b].kind = "named" THEN {} ELSE Backends

\* BackendDeps.add: a block that names each backend it could pick gets no
\* implicit edge; a backend never waits for its own kind.
Implicit(b) ==
  CASE cfg.blocks[b].kind = "otlp"    -> {}
    [] cfg.blocks[b].kind = "metrics" -> TracingBackends
    [] cfg.blocks[b].kind = "named"   -> {}
    [] OTHER                          -> Backends

\* GetBlockDependencies, as far as it names blocks there are.  A name stands
\* for the last block declared with it, disabled or not.
Named(n) == {b \in Blocks : cfg.blocks[b].name = n}
Owner(n) == {b \in Named(n) : \A x \in Named(n) : x <= b}
Deps(b) == ((UNION {Owner(n) : n \in cfg.blocks[b].refs}) \cup Implicit(b)) \cap Ids

Edges ==
  /\ phase = "edges" /\ phase' = After(phase)
  /\ left' = [b \in Ids |-> Deps(b)]
  /\ UNCHANGED <<cfg, loaded, functions, consts, sorted, processed, alive, errors>>

\* One turn of the sort: of the blocks with nothing before them, the first in
\* the files.  What is left when none is has a cycle; what needs no order
\* comes last.
Available == {b \in DOMAIN left : left[b] = {}}
First(S) == CHOOSE b \in S : \A x \in S : b <= x
Unordered == (Blocks \ Ids) \ ToSet(sorted)

SortStep ==
  /\ phase = "sort" /\ Available # {}
  /\ LET b == First(Available) IN
     /\ sorted' = Append(sorted, b)
     /\ left' = [x \in DOMAIN left \ {b} |-> left[x] \ {b}]
  /\ UNCHANGED <<cfg, phase, loaded, functions, consts, processed, alive, errors>>

SortRest ==
  /\ phase = "sort" /\ DOMAIN left = {} /\ Unordered # {}
  /\ sorted' = Append(sorted, First(Unordered))
  /\ UNCHANGED <<cfg, phase, loaded, functions, consts, left, processed, alive, errors>>

SortEnds ==
  /\ phase = "sort" /\ Available = {} /\ (DOMAIN left = {} => Unordered = {})
  /\ phase' = After(phase)
  /\ IF DOMAIN left = {} THEN UNCHANGED <<sorted, errors>>
     ELSE sorted' = <<>> /\ errors' = TRUE
  /\ UNCHANGED <<cfg, loaded, functions, consts, left, processed, alive>>

\* Process, block by block; a failure does not end the loop.  A disabled block
\* is passed over, and a reference to a name nothing has bound is an error.
Resolves(b) == \A n \in cfg.blocks[b].refs : Named(n) \cap alive # {}

Process ==
  /\ phase = "process" /\ Len(processed) < Len(sorted)
  /\ LET b == sorted[Len(processed) + 1] IN
     \/ /\ cfg.blocks[b].disabled /\ processed' = Append(processed, TRUE)
        /\ UNCHANGED <<alive, errors>>
     \/ /\ ~cfg.blocks[b].disabled /\ Resolves(b)
        /\ processed' = Append(processed, TRUE) /\ alive' = alive \cup {b}
        /\ UNCHANGED errors
     \/ processed' = Append(processed, FALSE) /\ errors' = TRUE /\ UNCHANGED alive
  /\ UNCHANGED <<cfg, phase, loaded, functions, consts, left, sorted>>

\* Broken form: what was built before the failure stays.
DiscardedIfAny == IF errors THEN alive ELSE {}

\* discardFailed.
Discarded == {}

ProcessEnds ==
  /\ phase = "process" /\ Len(processed) = Len(sorted)
  /\ phase' = IF errors THEN "refused" ELSE After(phase)
  /\ alive' = IF errors THEN Discarded ELSE alive
  /\ UNCHANGED <<cfg, loaded, functions, consts, left, sorted, processed, errors>>

\* FinishProcessing, the health metrics and checkDeferredReferences.
Finish ==
  /\ phase = "finish"
  /\ \/ phase' = After(phase) /\ UNCHANGED alive
     \/ phase' = "refused" /\ alive' = Discarded
  /\ UNCHANGED <<cfg, loaded, functions, consts, left, sorted, processed, errors>>

Next ==
  \/ Vinit \/ Check \/ Extract \/ Merge
  \/ SortConsts \/ (\E c \in Consts : Const(c)) \/ ConstsEnd
  \/ Edges \/ SortStep \/ SortRest \/ SortEnds \/ Process \/ ProcessEnds \/ Finish

Spec == Init /\ [][Next]_vars

FairSpec == Spec /\ WF_vars(Next)

----------------------------------------------------------------------------
(* Properties.                                                             *)

TypeOK ==
  /\ alive \subseteq Blocks /\ Len(processed) <= Len(sorted)
  /\ ToSet(sorted) \subseteq Blocks

\* A block is processed when everything it refers to has been, and after any
\* backend it would pick by default.
ReferencesFirst ==
  \A i \in DOMAIN processed : cfg.blocks[sorted[i]].ordered =>
    \A d \in Deps(sorted[i]) : \E j \in 1..(i - 1) : sorted[j] = d

\* "Declaration order does not matter": a block is processed after the block
\* its reference means, the enabled one of that name.
OrderDoesNotMatter ==
  \A i \in DOMAIN processed : \A n \in cfg.blocks[sorted[i]].refs :
    \A b \in Named(n) : ~cfg.blocks[b].disabled => \E j \in 1..(i - 1) : sorted[j] = b

\* The sort gives up on exactly the configurations that refer in a circle,
\* and otherwise processes every block once.
Circular == HasCircle(Ids, [b \in Ids |-> Deps(b)])

SortComplete ==
  phase \in {"process", "finish", "built"} =>
    IF Circular THEN sorted = <<>>
    ELSE ToSet(sorted) = Blocks /\ \A i, j \in DOMAIN sorted : sorted[i] = sorted[j] => i = j

\* Backends picked by default are never themselves the reason for a circle:
\* if what the blocks name is not circular, and no backend refers to a block
\* that picks one, the configuration can be sorted.
Explicit == [b \in Blocks |-> UNION {Owner(n) : n \in cfg.blocks[b].refs}]
NoSpuriousCircle ==
  /\ phase = "process"
  /\ ~HasCircle(Blocks, Explicit)
  /\ \A b \in Backends : cfg.blocks[b].refs = {}
  => sorted # <<>> \/ Blocks = {}

\* A refused configuration leaves nothing alive, and one that is built has
\* every block of it.
RefusedLeavesNothing ==
  /\ phase = "refused" => alive = {}
  /\ phase = "built" => alive = {b \in Blocks : ~cfg.blocks[b].disabled}

\* The program's own functions are what an expression calls by their names.
PluginsStand == phase = "built" => \A n \in Plugins : functions[n] = "plugin"

\* Build comes to an end.
Underway == phase \notin {"built", "refused"}
BuildEnds == []<>~Underway
=============================================================================
