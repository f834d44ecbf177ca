---------------------------- MODULE DeferredCheck ----------------------------
(***************************************************************************)
(* References in expressions evaluated at event time: the schema document  *)
(* (config/schema.go, namespace.go), the check of every deferred           *)
(* expression against it when a configuration is loaded (exprcheck.go,     *)
(* funcplugins.go), and the event that evaluates the expression later.     *)
(*                                                                         *)
(* An expression is a tree of nodes [kind, name, steps, args]: a reference *)
(* reads `steps` below the root `name` ("[]" is an index), a call has its  *)
(* arguments, a "for" binds `name` in args[2] while it runs over args[1].  *)
(* One typed block with one kind of sub-block stands for all.  A meta is   *)
(* what is curated on an attribute: the context its expression sees, "" if *)
(* it is not deferred, and the fields its site adds.  A member of a        *)
(* namespace has the names below it, {} where it is not an object.         *)
(* Conditional expressions are left out: the check judges both branches,   *)
(* an event only the one it takes.                                         *)
(***************************************************************************)
EXTENDS Naturals, Sequences, FiniteSets, SequencesExt, TLC

CONSTANTS
  Registries, \* [curated, sample, also, own, nested, nestedOwn, shared, envelope,
              \*  readiness, shapes, providers, functions, gated]
  Programs,   \* [disabled, attrs, nestedDisabled, nested, vars]
  Features    \* sets of features a process is given

VARIABLES registry, program, features,
          phase,   \* "registered", "described", "refused", "serving"
          doc,     \* the SchemaDocument
          reports, \* what the check complains of
          failed   \* nodes that failed at the last event, each with its meta

vars == <<registry, program, features, phase, doc, reports, failed>>

Universal == {"trace_id"}
NoMeta == [ctx |-> "", site |-> << >>]
NoDoc == [undocumented |-> TRUE, attrs |-> << >>, nested |-> << >>, contexts |-> << >>,
          namespaces |-> << >>, problems |-> {}]
-----------------------------------------------------------------------------
(* The document.                                                           *)

\* mergeBody: what the decoder reads, with what is curated on it.
MergeBody(names, metas) == [a \in names |-> IF a \in DOMAIN metas THEN metas[a] ELSE NoMeta]
Unread(names, metas) == DOMAIN metas \ names

\* A sub-block's own curation comes before that of its shared type.
WithDefaultsFrom(own, base) == own @@ base

\* Attributes every block of the type has, unless the type declares them.
AppendCommonAttrs(attrs, common) == attrs @@ common
EnvelopeAttrsFor(r) == MergeBody(r.envelope \ (IF r.readiness THEN {} ELSE {"readiness"}), << >>)

\* A shape's own fields, then those that every context has.
ContextShape(s) == [fields |-> s.fields \cup Universal, optional |-> s.optional, open |-> s.open]

\* A site's fields are kept where the shape is open and does not have them.
CheckContextFields(meta, shapes) ==
  IF meta.ctx \notin DOMAIN shapes \/ meta.site = << >> THEN meta
  ELSE IF ~shapes[meta.ctx].open THEN [meta EXCEPT !.site = << >>]
  ELSE [meta EXCEPT !.site = SelectSeq(@, LAMBDA f : f \notin shapes[meta.ctx].fields)]

Named(attrs) == {attrs[a].ctx : a \in DOMAIN attrs} \ {""}

\* The members of a provider: those its value has, or, where the names are not
\* the language's to choose, those that are documented.
Members(p) == [n \in (IF p.free THEN p.curated ELSE DOMAIN p.value) |->
                [free |-> n \in p.freeBelow, names |-> IF n \in p.freeBelow THEN {} ELSE p.value[n]]]
ProviderNamespace(p) == [undocumented |-> ~p.documented, free |-> p.free,
                         members |-> IF p.documented THEN Members(p) ELSE << >>]

GenerateSchema(r) ==
  LET sample == r.sample \cup r.also
      raw == AppendCommonAttrs(IF r.curated THEN MergeBody(sample, r.own) ELSE << >>, EnvelopeAttrsFor(r))
      metas == WithDefaultsFrom(r.nestedOwn, r.shared)
      rawNested == IF r.curated THEN MergeBody(r.nested, metas) ELSE << >>
      named == Named(raw) \cup Named(rawNested)
      shapes == [c \in named \cap DOMAIN r.shapes |-> ContextShape(r.shapes[c])]
      Kept(attrs) == [a \in DOMAIN attrs |-> CheckContextFields(attrs[a], shapes)]
  IN  [undocumented |-> ~r.curated, attrs |-> Kept(raw), nested |-> Kept(rawNested),
       contexts |-> shapes,
       namespaces |-> [n \in DOMAIN r.providers |-> ProviderNamespace(r.providers[n])],
       problems |-> (IF r.curated THEN Unread(sample, r.own) \cup Unread(r.nested, metas) ELSE {})
                      \cup (named \ DOMAIN r.shapes) \cup (DOMAIN r.shapes \ named)
                      \cup {a \in DOMAIN raw : Kept(raw)[a] # raw[a]}
                      \cup {a \in DOMAIN rawNested : Kept(rawNested)[a] # rawNested[a]}]
-----------------------------------------------------------------------------
(* The walk over one expression: hclsyntax.Walk calls Enter and Exit.      *)

Opaque == {"try", "can"}
RECURSIVE Walk(_)
Walk(n) ==
  CASE n.kind = "ref" -> <<[ev |-> "enter", node |-> n]>>
    [] n.kind = "call" -> <<[ev |-> "enter", node |-> n]>>
                            \o FlattenSeq([i \in DOMAIN n.args |-> Walk(n.args[i])])
                            \o <<[ev |-> "exit", node |-> n]>>
    [] n.kind = "for" -> Walk(n.args[1]) \o <<[ev |-> "enter", node |-> n]>>
                           \o Walk(n.args[2]) \o <<[ev |-> "exit", node |-> n]>>

Shadowed(w, n) == \E i \in DOMAIN w.locals : w.locals[i] = n.name
Enter(w, n) ==
  CASE n.kind = "ref" -> IF w.opaque > 0 \/ Shadowed(w, n) THEN w
                         ELSE [w EXCEPT !.traversals = @ \cup {n}]
    [] n.kind = "for" -> [w EXCEPT !.locals = Append(@, n.name)]
    [] n.kind = "call" -> [w EXCEPT !.calls = IF w.opaque = 0 THEN @ \cup {n} ELSE @,
                                    !.opaque = IF n.name \in Opaque THEN @ + 1 ELSE @]

\* Broken form: the names an iterator bound stay bound.
ExitKeepsLocals(w, n) == IF n.name \in Opaque THEN [w EXCEPT !.opaque = @ - 1] ELSE w

Exit(w, n) ==
  CASE n.kind = "for" -> [w EXCEPT !.locals = Front(@)]
    [] OTHER -> IF n.name \in Opaque THEN [w EXCEPT !.opaque = @ - 1] ELSE w

CheckableRefs(e) ==
  FoldLeft(LAMBDA w, x : IF x.ev = "enter" THEN Enter(w, x.node) ELSE Exit(w, x.node),
           [traversals |-> {}, calls |-> {}, locals |-> << >>, opaque |-> 0], Walk(e))
-----------------------------------------------------------------------------
(* The check.                                                              *)

HasAttrStep(n) == n.steps # << >> /\ n.steps[1] # "[]"

\* Every function some feature would provide may be called.
PossibleFunctionNames == registry.functions \cup DOMAIN registry.gated

CtxField(meta, n) ==
  /\ HasAttrStep(n) /\ meta.ctx \in DOMAIN doc.contexts
  /\ n.steps[1] \notin doc.contexts[meta.ctx].fields \cup ToSet(meta.site)

\* Broken form: names that are free are judged too.
ProviderMemberStrict(ns, steps) ==
  /\ ~ns.undocumented /\ steps # << >> /\ steps[1] # "[]" /\ steps[1] \notin DOMAIN ns.members

\* It follows the names as far as they are described.
ProviderMember(ns, steps) ==
  /\ ~ns.undocumented /\ steps # << >> /\ steps[1] # "[]"
  /\ IF steps[1] \notin DOMAIN ns.members THEN ~ns.free
     ELSE LET m == ns.members[steps[1]]
          IN  ~m.free /\ m.names # {} /\ Len(steps) > 1 /\ steps[2] # "[]" /\ steps[2] \notin m.names

Member(n) ==
  IF n.name \in DOMAIN doc.namespaces THEN ProviderMember(doc.namespaces[n.name], n.steps)
  ELSE HasAttrStep(n) /\ program.vars[n.name].object /\ n.steps[1] \notin program.vars[n.name].names

Roots == DOMAIN program.vars \cup DOMAIN registry.providers
UnknownRoot(n) == n.name # "ctx" /\ n.name \notin Roots

Expression(meta, e) ==
  LET refs == CheckableRefs(e)
  IN  {n \in refs.calls : n.name \notin PossibleFunctionNames}
      \cup {n \in refs.traversals : UnknownRoot(n) \/ (IF n.name = "ctx" THEN CtxField(meta, n) ELSE Member(n))}

\* A body's deferred expressions.
Body(attrs, written) ==
  UNION {Expression(attrs[a], written[a]) :
           a \in {x \in DOMAIN attrs \cap DOMAIN written : attrs[x].ctx # ""}}

\* Nothing is created from a disabled body, nor from what stands in it.
Block == IF doc.undocumented \/ program.disabled THEN {}
         ELSE Body(doc.attrs, program.attrs)
              \cup (IF program.nestedDisabled THEN {} ELSE Body(doc.nested, program.nested))
-----------------------------------------------------------------------------
(* The event.                                                              *)

\* Names a process really has: those of the features it was given only.
Callable == registry.functions \cup {f \in DOMAIN registry.gated : registry.gated[f] \in features}

Resolves(meta, n, absent) ==
  IF n.name = "ctx"
  THEN HasAttrStep(n) => n.steps[1] \in (registry.shapes[meta.ctx].fields \cup Universal
                                           \cup ToSet(meta.site)) \ absent
  ELSE IF n.name \in DOMAIN program.vars
  THEN HasAttrStep(n) /\ program.vars[n.name].object => n.steps[1] \in program.vars[n.name].names
  ELSE /\ n.name \in DOMAIN registry.providers
       /\ HasAttrStep(n) =>
            /\ n.steps[1] \in DOMAIN registry.providers[n.name].value
            /\ LET below == registry.providers[n.name].value[n.steps[1]]
               IN  Len(n.steps) > 1 /\ n.steps[2] # "[]" /\ below # {} => n.steps[2] \in below

\* The nodes that fail when the expression is evaluated; try and can catch.
RECURSIVE Fails(_, _, _, _)
Fails(meta, n, bound, absent) ==
  CASE n.kind = "ref" -> IF n.name \in bound \/ Resolves(meta, n, absent) THEN {} ELSE {n}
    [] n.kind = "for" -> Fails(meta, n.args[1], bound, absent)
                           \cup Fails(meta, n.args[2], bound \cup {n.name}, absent)
    [] n.kind = "call" -> (IF n.name \in Callable THEN {} ELSE {n})
                            \cup (IF n.name \in Opaque THEN {}
                                  ELSE UNION {Fails(meta, n.args[i], bound, absent) : i \in DOMAIN n.args})

\* What the sites of the code evaluate: the curated contexts, wherever they are.
Sites ==
  LET own == IF program.disabled THEN {} ELSE
        {<<registry.own[a], program.attrs[a]>> :
           a \in {x \in DOMAIN registry.own \cap DOMAIN program.attrs : registry.own[x].ctx # ""}}
      metas == WithDefaultsFrom(registry.nestedOwn, registry.shared)
      sub == IF program.disabled \/ program.nestedDisabled THEN {} ELSE
        {<<metas[a], program.nested[a]>> :
           a \in {x \in DOMAIN metas \cap DOMAIN program.nested : metas[x].ctx # ""}}
  IN  own \cup sub

-----------------------------------------------------------------------------
Init ==
  /\ registry \in Registries /\ program \in Programs /\ features \in Features
  /\ phase = "registered" /\ doc = NoDoc /\ reports = {} /\ failed = {}

Describe ==
  /\ phase = "registered"
  /\ phase' = "described" /\ doc' = GenerateSchema(registry)
  /\ UNCHANGED <<registry, program, features, reports, failed>>

CheckDeferredReferences ==
  /\ phase = "described"
  /\ reports' = Block
  /\ phase' = IF reports' = {} THEN "serving" ELSE "refused"
  /\ UNCHANGED <<registry, program, features, doc, failed>>

\* An event of a shape may leave out its optional fields.
Event(site, some) ==
  /\ phase = "serving"
  /\ LET shapes == registry.shapes
         absent == IF some \/ site[1].ctx \notin DOMAIN shapes THEN {} ELSE shapes[site[1].ctx].optional
     IN  failed' = IF site[1].ctx \in DOMAIN shapes
                   THEN {[node |-> n, meta |-> site[1]] : n \in Fails(site[1], site[2], {}, absent)}
                   ELSE {}
  /\ UNCHANGED <<registry, program, features, phase, doc, reports>>

Next ==
  \/ Describe \/ CheckDeferredReferences
  \/ \E s \in Sites, some \in BOOLEAN : Event(s, some)
  \/ phase = "refused" /\ UNCHANGED vars
  \/ phase = "serving" /\ Sites = {} /\ UNCHANGED vars

Spec == Init /\ [][Next]_vars
-----------------------------------------------------------------------------
TypeOK == /\ phase \in {"registered", "described", "refused", "serving"}
          /\ phase = "serving" => reports = {}

\* A configuration that would work is never refused: where the schema has no
\* problems, whatever is reported fails whenever the expression it stands in is
\* evaluated with all its context's fields (exprcheck.go:189-208, 533-582).
NoFalseAlarm ==
  doc.problems = {} =>
    \A n \in reports : \E s \in Sites :
      \/ n \in Fails(s[1], s[2], {}, {})
      \/ n.kind = "call" /\ n.name \notin PossibleFunctionNames

\* What fails at an event after all, the check could not have known: an optional
\* field left out, a feature not given, a name that is the host's, a body that
\* nobody described.
NothingMissed ==
  \A f \in failed :
    \/ doc.problems # {} \/ doc.undocumented
    \/ f.node.kind = "call" /\ f.node.name \in DOMAIN registry.gated
    \/ f.node.name = "ctx" /\ f.node.steps[1] \in registry.shapes[f.meta.ctx].optional
    \/ /\ f.node.name \in DOMAIN registry.providers
       /\ LET p == registry.providers[f.node.name]
          IN  ~p.documented \/ p.free \/ f.node.steps[1] \in p.freeBelow
=============================================================================
