------------------------------- MODULE Sm6Recipe -------------------------------
(***************************************************************************)
(* A recipe applied to an SM6 shader (dxp/sm6/Recipe.cpp with the step     *)
(* loop of dxp/RecipeEngine.hpp): rules rewrite the entry function,        *)
(* add_resource declares resources and makes handles for them,             *)
(* declare_function injects functions, and a changed program is pruned,    *)
(* verified and written.  One step of the model is one step of the recipe. *)
(***************************************************************************)
EXTENDS Sm6Rule, CBufferLayout

CONSTANTS
  Shaders,   \* [prog, resources, types, signature, sm66, version, prerelease]
  Recipes,   \* recipes as parsed: sequences of steps, valid or not
  Variables, \* the environment of the recipes, name -> number
  Matcher(_, _, _, _, _) \* the matches of patterns in a function of a program with
                         \* resources, given the capture store (Sm6Match)

(* A step: kind, name, required, when (the steps whose state must be true),  *)
(* least (<<step, field, n>>: a count that a check step must have found),    *)
(* and for                                                                   *)
(*   "rule"      rule                                                        *)
(*   "resource"  decls, the declarations of every class                      *)
(*   "function"  params (<<name, type>>), result, emits, return (none or an  *)
(*               operand)                                                    *)
(*   "version"   version                                                     *)
(*   "count"     nothing: counts resources and opcodes                       *)
(* A declaration is [handle, lower, space], with size, type and data for a   *)
(* cbuffer.                                                                  *)
(* Struct types are named; `types' are those in the thread's LLVMContext:    *)
(* the shader's, and what shaders before it left there.                      *)

Classes == <<"SRV", "UAV", "CBV", "SAM">>
Signatures == <<"INPUT", "OUTPUT">>
Entry == "main"

\* No two resources of a class begin at one place.
Apart(resources) ==
  \A j, k \in DOMAIN resources :
    resources[j].lower = resources[k].lower /\ resources[j].space = resources[k].space => j = k

\* A shader the game creates is valid: its resources do not overlap.  `type' is the
\* name of an added cbuffer's type, `types' holds the elements of every struct type.
ASSUME ShadersAssumption ==
  \A s \in Shaders :
    /\ \A n \in DOMAIN s.types : s.types[n] \in Seq(Range(s.types[n]))
    /\ DOMAIN s.resources = Range(Classes)
    /\ \A c \in Range(Classes) :
         /\ s.resources[c] \in Seq(Range(s.resources[c]))
         /\ Apart(s.resources[c])
         /\ \A r \in Range(s.resources[c]) : r.type = None

\* What parsing leaves of a recipe: steps with the parts of their kind, and numbers
\* where a number is expected.
IsRuleStep(s) ==
  /\ "rule" \in DOMAIN s /\ "emits" \in DOMAIN s.rule
  /\ s.rule.emits \in Seq(Range(s.rule.emits))
  /\ \A e \in Range(s.rule.emits) : e.field # <<>> => e.field[3] \in Nat

IsResourceStep(s) ==
  /\ "decls" \in DOMAIN s /\ DOMAIN s.decls = Range(Classes) \cup Range(Signatures)
  /\ \A c \in DOMAIN s.decls : s.decls[c] \in Seq(Range(s.decls[c]))
  /\ \A d \in Range(s.decls.CBV) :
       /\ d.size \in Nat /\ d.data \in Seq(Range(d.data))
       /\ \A f \in Range(d.data) : f.width \in Nat /\ f.offset \in Int

ASSUME RecipesAssumption ==
  \A r \in Recipes :
    /\ r \in Seq(Range(r))
    /\ \A s \in Range(r) : /\ "kind" \in DOMAIN s
                           /\ s.kind = "rule" => IsRuleStep(s)
                           /\ s.kind = "resource" => IsResourceStep(s)

VARIABLES
  input,    \* the shader
  recipe,   \* the compiled steps
  step,     \* index of the step
  phase,    \* "load", "run", "finish", and how it ended
  program,  \* ctx.program: [prog, resources, types, signature, injected]
  context,  \* the rest of the execution context
  mutated,  \* any_rule_mutated
  output    \* the program written

vars == <<input, recipe, step, phase, program, context, mutated, output>>

--------------------------------------------------------------------------------
(* Parsing: cbuffers get their layout, cbuffer_field emits become loads.     *)

\* ResolveCBufferReferences of a rule: what an emit becomes, nothing if refused.
ResolveField(layouts, e) ==
  LET handle == e.field[1]
      found == {f \in (IF handle \in DOMAIN layouts THEN Range(layouts[handle]) ELSE {}) :
                  f.name = e.field[2] /\ e.field[3] < f.width}
      row == e.name \o "__cbuffer_row"
  IN IF e.field = <<>> THEN <<e>>
     ELSE IF found = {} THEN <<>>
     ELSE LET f == CHOOSE g \in found : TRUE
          IN <<[NoEmit EXCEPT
                  !.op = "cbufferLoadLegacy", !.name = row,
                  !.type = IF f.type = "F32" THEN "f32" ELSE "i32",
                  !.operands = <<[index |-> 1, kind |-> "resource", cap |-> None, consts |-> <<>>,
                                  type |-> None, handle |-> handle],
                                 [index |-> 2, kind |-> "constant", cap |-> None,
                                  consts |-> <<<<"lit", FieldRow(f)>>>>, type |-> None,
                                  handle |-> None]>>],
               [NoEmit EXCEPT
                  !.name = e.name, !.repl = e.repl,
                  !.extract = <<row, <<"lit", FieldComponent(f, e.field[3])>>>>]>>

ResolveCBufferReferences(layouts, emits) ==
  LET upto[n \in 0..Len(emits)] ==
        IF n = 0 THEN <<>>
        ELSE LET before == upto[n - 1] IN before \o ResolveField(layouts, emits[n])
  IN upto[Len(emits)]

CompileRule(acc, s) ==
  [acc EXCEPT
     !.ok = @ /\ \A e \in Range(s.rule.emits) : ResolveField(acc.layouts, e) # <<>>,
     !.steps = Append(@, [s EXCEPT !.rule.emits = ResolveCBufferReferences(acc.layouts, @)])]

\* AddResourceData::Compile, and the layouts later rules see.  Only a cbuffer with
\* fields names its type: as it says, or after its handle.
CompileCBuffer(d) ==
  IF d.data = <<>> THEN [ok |-> TRUE, type |-> None, fields |-> <<>>, size |-> d.size]
  ELSE LET layout == BuildCBufferLayout(d.size, d.data)
       IN [ok |-> layout.ok, type |-> IF d.type = None THEN d.handle ELSE d.type,
           fields |-> layout.fields, size |-> layout.size]

\* The last declaration of a handle is the one that counts.
LayoutsBehind(before, cbuffers, compiled) ==
  LET declared == {d.handle : d \in Range(cbuffers)}
      last(h) == Max({k \in DOMAIN cbuffers : cbuffers[k].handle = h})
      with == {h \in declared : cbuffers[last(h)].data # <<>>}
  IN [h \in (DOMAIN before \ declared) \cup with |->
        IF h \in with THEN compiled[last(h)].fields ELSE before[h]]

CompileResources(acc, s) ==
  LET cbuffers == s.decls.CBV
      compiled == [k \in DOMAIN cbuffers |-> CompileCBuffer(cbuffers[k])]
  IN [ok |-> acc.ok /\ \A k \in DOMAIN compiled : compiled[k].ok,
      layouts |-> LayoutsBehind(acc.layouts, cbuffers, compiled),
      steps |-> Append(acc.steps,
                  [s EXCEPT !.decls.CBV =
                     [k \in DOMAIN cbuffers |-> [handle |-> cbuffers[k].handle,
                                                 lower |-> cbuffers[k].lower,
                                                 space |-> cbuffers[k].space,
                                                 type |-> compiled[k].type,
                                                 size |-> compiled[k].size,
                                                 fields |-> compiled[k].fields]]])]

CompileStep(acc, s) ==
  CASE s.kind = "rule" -> CompileRule(acc, s)
    [] s.kind = "resource" -> CompileResources(acc, s)
    [] OTHER -> [acc EXCEPT !.steps = Append(@, s)]

ConvertRecipeData(data) ==
  LET compiled[n \in 0..Len(data)] ==
        IF n = 0 THEN [ok |-> TRUE, steps |-> <<>>, layouts |-> <<>>]
        ELSE LET before == compiled[n - 1] IN CompileStep(before, data[n])
  IN compiled[Len(data)]

--------------------------------------------------------------------------------
(* Validation, step after step.  acc: [ok, names, handles, functions,        *)
(* writers].                                                                 *)

WritesOutput(e, writers) == IF e.fn # None THEN e.fn \in writers ELSE e.op = "storeOutput"

ValidateEmitPattern(e, functions) ==
  /\ e.fn # None =>
       /\ e.fn \in DOMAIN functions
       /\ Len(e.operands) = Len(functions[e.fn].params)
       /\ functions[e.fn].result = "void" => e.name = None /\ e.repl = None
  /\ e.op # None => Ops[e.op].kind # "end"

ExportNames(rule) ==
  {o.export : o \in UNION {Range(pat.operands) : pat \in Range(rule.patterns)}} \ {None}

ValidateRule(acc, s) ==
  [acc EXCEPT
     !.names = @ \cup ExportNames(s.rule),
     !.ok = /\ @
            /\ ExportNames(s.rule) \cap acc.names = {}
            /\ Erasing(s.rule.mode) =>
                 \E e \in Range(s.rule.emits) : e.repl # None \/ WritesOutput(e, acc.writers)
            /\ \A e \in Range(s.rule.emits) : ValidateEmitPattern(e, acc.functions)]

\* The names a function's body may use: its parameters and earlier results.
LocalsBefore(s, k) ==
  {p[1] : p \in Range(s.params)} \cup {s.emits[j].name : j \in 1..(k - 1)}

ValidOperands(operands, locals, handles) ==
  \A o \in operands : /\ o.cap \in locals \cup {None}
                      /\ o.kind = "resource" => o.handle \in handles

ValidateFunction(acc, s) ==
  [acc EXCEPT
     !.functions = (s.name :> [params |-> [k \in DOMAIN s.params |-> s.params[k][2]],
                               result |-> s.result]) @@ @,
     !.writers = @ \cup {s.name : e \in {d \in Range(s.emits) : WritesOutput(d, @)}},
     !.ok = /\ @
            /\ (s.result = "void") = (s.return = {})
            /\ \A k \in DOMAIN s.emits :
                 /\ s.emits[k].repl = None
                 /\ ValidateEmitPattern(s.emits[k], acc.functions)
                 /\ ValidOperands(Range(s.emits[k].operands), LocalsBefore(s, k), acc.handles)
                 /\ s.emits[k].name = None \/ s.emits[k].name \notin LocalsBefore(s, k)
            /\ ValidOperands(s.return, LocalsBefore(s, Len(s.emits) + 1), acc.handles)]

ValidateResources(acc, s) ==
  [acc EXCEPT !.handles = @ \cup UNION {{d.handle : d \in Range(s.decls[c])} : c \in Range(Classes)}]

ValidateStep(acc, s) ==
  LET named == [acc EXCEPT !.ok = @ /\ s.name \notin acc.names, !.names = @ \cup {s.name}]
  IN CASE s.kind = "rule" -> ValidateRule(named, s)
       [] s.kind = "function" -> ValidateFunction(named, s)
       [] s.kind = "resource" -> ValidateResources(named, s)
       [] OTHER -> named

ValidateStepList(steps) ==
  FoldLeft(ValidateStep, [ok |-> TRUE, names |-> {}, handles |-> {}, functions |-> <<>>,
                          writers |-> {}], steps).ok

--------------------------------------------------------------------------------
(* The engine.                                                               *)

NoContext == [store |-> <<>>, handles |-> <<>>, declared |-> <<>>, bindings |-> <<>>,
              functions |-> <<>>, exports |-> <<>>, state |-> <<>>, counts |-> <<>>]

Init ==
  /\ input \in Shaders
  /\ recipe \in {ConvertRecipeData(d).steps : d \in {e \in Recipes : ConvertRecipeData(e).ok}}
  /\ step = 1
  /\ phase = "load"
  /\ program = [prog |-> input.prog, resources |-> input.resources, types |-> input.types,
                signature |-> input.signature, injected |-> {}]
  /\ context = NoContext
  /\ mutated = FALSE
  /\ output = input.prog

\* Recipe::Execute up to the loop.
Load ==
  /\ phase = "load"
  /\ phase' = CASE ~ValidateStepList(recipe) -> "refused"
                [] ValidateStepList(recipe) /\ recipe = <<>> -> "finish"
                [] OTHER -> "run"
  /\ UNCHANGED <<input, recipe, step, program, context, mutated, output>>

Step == recipe[step]

ShouldExecute ==
  /\ \A n \in Step.when : n \in DOMAIN context.state /\ context.state[n]
  /\ \A c \in Step.least : c[1] \in DOMAIN context.counts /\ context.counts[c[1]][c[2]] >= c[3]

Running(kind) == phase = "run" /\ step <= Len(recipe) /\ Step.kind = kind /\ ShouldExecute

\* The end of a turn: a required step without success stops the recipe.
Turn(succeeded) ==
  /\ step' = step + 1
  /\ phase' = IF step = Len(recipe) \/ (Step.required /\ ~succeeded) THEN "finish" ELSE "run"
  /\ UNCHANGED <<input, recipe, output>>

Stop(how) ==
  /\ phase' = how
  /\ UNCHANGED <<input, recipe, step, program, context, mutated, output>>

SkipStep ==
  /\ phase = "run" /\ ~ShouldExecute
  /\ step' = step + 1
  /\ phase' = IF step = Len(recipe) THEN "finish" ELSE "run"
  /\ UNCHANGED <<input, recipe, program, context, mutated, output>>

EnvOf(f) == [handles |-> context.handles, functions |-> context.functions,
             variables |-> Variables, function |-> f]

\* What a rewriting step of the recipe comes to.
Rewriting ==
  LET rule == Step.rule
      matches == Matcher(program.prog, program.resources, Entry, rule.patterns, context.store)
  IN [matches |-> matches,
      exports |-> Exports(rule, matches, context.exports),
      w |-> ApplyDxilRewriteRules(program.prog, context.store, EnvOf(Entry), rule, matches)]

\* A pattern that names a terminator is refused unless it only anchors.
RefusesTerminators(rule) ==
  /\ rule.mode \in {"replace", "replace_range", "after"}
  /\ \E pat \in Range(rule.patterns) : Ops[pat.op].kind \in {"end"}

Rewritten(r) ==
  LET matched == r.matches # <<>>
  IN IF r.w.phase # "running" THEN Stop(r.w.phase)
     ELSE /\ program' = [program EXCEPT !.prog = r.w.prog]
          /\ context' = [context EXCEPT !.store = r.w.store, !.exports = r.exports,
                                        !.state = (Step.name :> matched) @@ @]
          /\ mutated' = (mutated \/ (matched /\ Step.rule.mode # "none"))
          /\ Turn(matched)

ApplyRule ==
  /\ Running("rule")
  /\ IF RefusesTerminators(Step.rule) THEN Stop("error")
     ELSE \E r \in {Rewriting} : Rewritten(r)

--------------------------------------------------------------------------------
(* add_resource.                                                             *)

Bound(resources, space) == {r.lower : r \in {q \in Range(resources) : q.space = space}}

FindNextAvailable(resources, space) ==
  Min((0..Len(resources)) \ Bound(resources, space))

(* Mutant: only resources of the first space conflict.                       *)
Mut_HasRegisterIndexConflict(resources, space, lower) ==
  space = 0 /\ lower \in Bound(resources, space)

HasRegisterIndexConflict(resources, space, lower) == lower \in Bound(resources, space)

\* The space of a class in a step: the first a declaration states, for all of them.
SpaceOf(resources, decls) ==
  LET explicit == SelectSeq(decls, LAMBDA d : d.space # Unset)
  IN IF explicit # <<>> THEN Head(explicit).space ELSE FindNextAvailable(resources, 0)

Refuses(resources, class, space, lower, d) ==
  \/ d.handle = ""
  \/ class = "CBV" /\ (d.size = 0 \/ (d.fields # <<>> /\ ~ValidateCBufferSchema(d.fields, d.size)))
  \/ HasRegisterIndexConflict(resources, space, lower)

\* The names of the module's functions and global variables.
GlobalNames(p) ==
  DOMAIN p.prog.order \cup UNION {{r.name : r \in Range(p.resources[c])} : c \in Range(Classes)}

MakeUniqueGlobalName(names, base) ==
  IF base \notin names THEN base
  ELSE base \o ToString(Min({n \in 1..(Cardinality(names) + 1) : base \o ToString(n) \notin names}))

\* What AddTextureSRV, AddTextureUAV, AddCBuffer and AddSampler append.
NewResource(names, class, space, lower, d) ==
  LET name == MakeUniqueGlobalName(names, d.handle)
  IN [lower |-> lower, space |-> space, count |-> 1, owner |-> d.handle, name |-> name,
      fields |-> IF class = "CBV" THEN d.fields ELSE <<>>,
      size |-> IF class = "CBV" THEN d.size ELSE 0,
      type |-> IF class # "CBV" THEN None ELSE IF d.fields = <<>> THEN name \o "_t" ELSE d.type]

\* GetOrCreateResolvedCBufferType and the annotation: a type of that name is used as it
\* is, whoever made it.  The types of textures and samplers, whose names have forms of
\* their own, are left out.
TypesWith(types, r) ==
  [n \in DOMAIN types \cup {r.type} |->
     IF n # r.type THEN types[n]
     ELSE IF n \in DOMAIN types THEN Annotate(types[n], r.fields, r.size)
     ELSE CBufferType(r.fields, r.size)]

\* FindResourceByRegisterIndex: the first of the class at the place.
FindResourceByRegisterIndex(resources, space, lower) ==
  Min({k \in DOMAIN resources : resources[k].lower = lower /\ resources[k].space = space})

(* Mutant: the handle is made before the new resource has its number.        *)
Mut_HandleInstructions(class, k, r, first) ==
  IF input.sm66
    THEN <<[op |-> "createHandleFromBinding", type |-> "handle", args |-> <<>>,
            data |-> [class |-> class, id |-> k - 1, index |-> r.lower, space |-> r.space]],
           [op |-> "annotateHandle", type |-> "handle", args |-> <<Inst(first)>>, data |-> <<>>]>>
    ELSE <<[op |-> "createHandle", type |-> "handle", args |-> <<>>,
            data |-> [class |-> class, id |-> 0, index |-> r.lower, space |-> r.space]]>>

\* CreateResourceHandle: a binding and its annotation since SM6.6, before that the
\* number of the resource in its class.
HandleInstructions(class, k, r, first) ==
  IF input.sm66
    THEN <<[op |-> "createHandleFromBinding", type |-> "handle", args |-> <<>>,
            data |-> [class |-> class, id |-> k - 1, index |-> r.lower, space |-> r.space]],
           [op |-> "annotateHandle", type |-> "handle", args |-> <<Inst(first)>>, data |-> <<>>]>>
    ELSE <<[op |-> "createHandle", type |-> "handle", args |-> <<>>,
            data |-> [class |-> class, id |-> k - 1, index |-> r.lower, space |-> r.space]]>>

\* At position `at' of block b.
CreateResourceHandle(p, class, k, r, b, at) ==
  LET new == HandleInstructions(class, k, r, NewInst(p))
  IN FoldLeft(LAMBDA q, j : Place(q, b, at + j - 1, new[j]), p, [j \in DOMAIN new |-> j])

\* Behind the phis of the entry block.
FirstInsertionPt(p) ==
  LET block == p.blocks[Head(p.order[Entry])]
  IN Min({k \in DOMAIN block : ~IsPhi(p, block[k])})

\* One declaration.  acc: [program, context, ok (nothing stopped the step), undefined
\* (it left the bounds of an annotation)].
AddResource(acc, class, space, d) ==
  LET resources == acc.program.resources[class]
      lower == IF d.lower # Unset THEN d.lower ELSE FindNextAvailable(resources, space)
      r == NewResource(GlobalNames(acc.program), class, space, lower, d)
      types == acc.program.types
      added == Append(resources, r)
      k == FindResourceByRegisterIndex(added, space, lower)
      p == CreateResourceHandle(acc.program.prog, class, k, added[k],
                                Head(acc.program.prog.order[Entry]),
                                FirstInsertionPt(acc.program.prog))
  IN IF Refuses(resources, class, space, lower, d) THEN [acc EXCEPT !.ok = @ /\ ~Step.required]
     ELSE IF class = "CBV" /\ r.type \in DOMAIN types
               /\ AnnotatesBeyond(types[r.type], r.fields, r.size)
       THEN [acc EXCEPT !.ok = FALSE, !.undefined = TRUE]
     ELSE [acc EXCEPT
             !.program.resources[class] = added,
             !.program.types = IF class = "CBV" THEN TypesWith(@, r) ELSE @,
             !.program.prog = p,
             !.context.handles = (d.handle :> Inst(Len(p.code))) @@ @,
             !.context.declared = (d.handle :> <<class, k>>) @@ @,
             !.context.bindings =
               (d.handle :> [class |-> class, lower |-> lower, space |-> space]) @@ @]

AddResources(acc, class) ==
  LET decls == Step.decls[class]
      space == SpaceOf(acc.program.resources[class], decls)
      added[n \in 0..Len(decls)] ==
        IF n = 0 THEN acc
        ELSE LET before == added[n - 1]
             IN IF before.ok THEN AddResource(before, class, space, decls[n]) ELSE before
  IN added[Len(decls)]

\* An element of a signature is TRUE when it is allocated; its number is its place.
FindNextAvailableElement(signature) ==
  Min((0..Len(signature)) \ {k - 1 : k \in {j \in DOMAIN signature : signature[j]}})

AddElement(acc, class, d) ==
  LET lower == IF d.lower # Unset THEN d.lower
               ELSE FindNextAvailableElement(acc.program.signature[class])
  IN [acc EXCEPT
        !.program.signature[class] = Append(@, FALSE),
        !.context.bindings = (d.handle :> [class |-> class, lower |-> lower, space |-> 0]) @@ @]

AddElements(acc, class) ==
  LET decls == Step.decls[class]
      added[n \in 0..Len(decls)] ==
        IF n = 0 THEN acc
        ELSE LET before == added[n - 1]
             IN IF before.ok THEN AddElement(before, class, decls[n]) ELSE before
  IN added[Len(decls)]

ApplyResources ==
  /\ Running("resource")
  /\ LET start == [program |-> program, context |-> context, ok |-> TRUE, undefined |-> FALSE]
         textures == AddResources(AddResources(start, "SRV"), "UAV")
         resources == AddResources(AddResources(textures, "CBV"), "SAM")
         added == AddElements(AddElements(resources, "INPUT"), "OUTPUT")
     IN IF ~added.ok THEN Stop(IF added.undefined THEN "undefined" ELSE "error")
        ELSE /\ program' = added.program
             /\ context' = [added.context EXCEPT !.state = (Step.name :> TRUE) @@ @]
             /\ mutated' = mutated
             /\ Turn(TRUE)

--------------------------------------------------------------------------------
(* declare_function.                                                         *)

EmptyFunction(p, f) ==
  [p EXCEPT !.blocks = (f :> <<>>) @@ @, !.order = (f :> <<f>>) @@ @, !.preds = (f :> {}) @@ @]

\* resolve_resource: a handle of the function's own for every resource it uses.
LocalHandles(w, f, operands) ==
  LET missing(u, o) == o.kind = "resource" /\ o.handle \notin DOMAIN u.handles
      make(u, o) ==
        LET d == context.declared[o.handle]
            p == CreateResourceHandle(u.prog, d[1], d[2], program.resources[d[1]][d[2]], f,
                                      Len(u.prog.blocks[f]) + 1)
        IN IF ~missing(u, o) THEN u
           ELSE IF o.handle \notin DOMAIN context.declared THEN Fail(u)
           ELSE [u EXCEPT !.prog = p, !.handles = (o.handle :> Inst(Len(p.code))) @@ @]
  IN FoldLeft(make, w, operands)

\* One emit at the end of the body.  w.captures are the locals.
AppendEmit(w, f, e, made) ==
  IF ~made.ok THEN Fail(w)
  ELSE [w EXCEPT !.prog = IF made.new = <<>> THEN @
                          ELSE Place(@, f, Len(@.blocks[f]) + 1, Head(made.new)),
                 !.captures = Captured(@, e.name, made.value)]

EmitReady(w, f, e) ==
  IF w.phase # "running" THEN w
  ELSE AppendEmit(w, f, e, EmitInstruction(w, [handles |-> w.handles, functions |-> context.functions,
                                            variables |-> Variables, function |-> f], e))

EmitInto(w, f, e) ==
  IF w.phase # "running" THEN w ELSE EmitReady(LocalHandles(w, f, e.operands), f, e)

\* The return, and its operand.
EmitReturn(w, f, s) ==
  LET values == IF s.return = {} THEN {}
                ELSE OperandValues(w, [handles |-> w.handles, functions |-> <<>>,
                                       variables |-> Variables, function |-> f],
                                   CHOOSE o \in s.return : TRUE, s.result)
      ret == [op |-> "ret", type |-> "void", args |-> SetToSeq(values), data |-> <<>>]
  IN IF w.phase # "running" \/ (s.return # {} /\ values = {}) THEN Fail(w)
     ELSE [w EXCEPT !.prog = Place(@, f, Len(@.blocks[f]) + 1, ret)]

DeclareFunction ==
  /\ Running("function")
  /\ LET f == Step.name
         params == Step.params
         locals == [n \in {params[k][1] : k \in DOMAIN params} |->
                      LET k == CHOOSE j \in DOMAIN params : params[j][1] = n
                      IN <<"arg", f, k, params[k][2]>>]
         start == [prog |-> EmptyFunction(program.prog, f), store |-> <<>>, captures |-> locals,
                   handles |-> <<>>, phase |-> "running"]
         w == EmitReturn(FoldLeft(LAMBDA u, e : EmitInto(u, f, e), start, Step.emits), f, Step)
     IN IF f \in DOMAIN program.prog.order \/ w.phase # "running" THEN Stop("error")
        ELSE /\ program' = [program EXCEPT !.prog = w.prog, !.injected = @ \cup {f}]
             /\ context' = [context EXCEPT
                              !.functions = (f :> [params |-> [k \in DOMAIN params |-> params[k][2]],
                                                   result |-> Step.result]) @@ @,
                              !.state = (f :> TRUE) @@ @]
             /\ mutated' = mutated
             /\ Turn(TRUE)

--------------------------------------------------------------------------------
(* The steps that only look, and the end.                                    *)

CheckShaderVersion ==
  /\ Running("version")
  /\ LET matched == input.version = Step.version
     IN /\ context' = [context EXCEPT !.state = (Step.name :> matched) @@ @]
        /\ Turn(matched)
  /\ UNCHANGED <<program, mutated>>

\* check_resource_count and check_opcode_count.
Counts ==
  [n \in Range(Classes) |-> Len(program.resources[n])]
  @@ [op \in DOMAIN Ops |-> Cardinality({i \in Live(program.prog) : program.prog.code[i].op = op})]

Check ==
  /\ Running("count")
  /\ context' = [context EXCEPT !.state = (Step.name :> TRUE) @@ @,
                                !.counts = (Step.name :> Counts) @@ @]
  /\ Turn(TRUE)
  /\ UNCHANGED <<program, mutated>>

IsCall(p, i) == Ops[p.code[i].op].kind = "call"
Calls(p, f) == {p.code[i].data[1] : i \in {j \in Body(p, f) : IsCall(p, j)}}

\* The functions that calls lead to from f: those in every set that has f and, with a
\* function, all it calls.
Callees(p, f) ==
  LET fs == {f} \cup DOMAIN p.order
  IN {g \in fs : \A S \in SUBSET fs :
        f \in S /\ (\A h \in S : Calls(p, h) \subseteq S) => g \in S}

(* Mutant: functions go only when nothing is left that calls them.           *)
Mut_PruneDeadCode(p, injected) ==
  LET called == {p.code[i].data[1] : i \in {j \in Live(p) : IsCall(p, j)}}
      dead == injected \ called
  IN DeadCodeElimination(
       [p EXCEPT !.order = [f \in DOMAIN @ \ dead |-> @[f]],
                 !.blocks = [b \in DOMAIN @ \ dead |-> @[b]],
                 !.preds = [b \in DOMAIN @ \ dead |-> @[b]]])

\* The injected functions that the entry does not reach go, then all that is dead.
PruneDeadCode(p, injected) ==
  LET dead == injected \ Callees(p, Entry)
  IN DeadCodeElimination(
       [p EXCEPT !.order = [f \in DOMAIN @ \ dead |-> @[f]],
                 !.blocks = [b \in DOMAIN @ \ dead |-> @[b]],
                 !.preds = [b \in DOMAIN @ \ dead |-> @[b]]])

\* DXIL validation: no two ranges of a class overlap in a space.
Overlap(r, q) == r.space = q.space /\ r.lower < q.lower + q.count /\ q.lower < r.lower + r.count

ValidateDxilContainer ==
  \A c \in Range(Classes) : \A j, k \in DOMAIN program.resources[c] :
    j # k => ~Overlap(program.resources[c][j], program.resources[c][k])

\* Serialize, unless no rule changed anything: then the input is returned.  The
\* hash of a pre-release shader model is a constant that the self-check refuses.
Finish ==
  /\ phase = "finish"
  /\ LET pruned == PruneDeadCode(program.prog, program.injected)
     IN IF ~mutated THEN phase' = "passed" /\ output' = input.prog
        ELSE IF WellFormed(pruned) /\ ValidateDxilContainer /\ ~input.prerelease
          THEN phase' = "done" /\ output' = pruned
        ELSE phase' = "error" /\ output' = output
  /\ UNCHANGED <<input, recipe, step, program, context, mutated>>

Next == \/ Load \/ SkipStep \/ ApplyRule \/ ApplyResources \/ DeclareFunction
        \/ CheckShaderVersion \/ Check \/ Finish

Spec == Init /\ [][Next]_vars

--------------------------------------------------------------------------------
(* Properties.                                                               *)

\* Rules that replace the value of their own anchor.
AnchorOnly(rule) ==
  LET anchor == ResolveAnchor(rule.patterns, rule)
  IN /\ Ops[anchor.op].kind # "phi"
     /\ Erasing(rule.mode) =>
          \A e \in Range(rule.emits) : e.repl \in {None, anchor.cap}

\* Between the steps the program is in SSA form: what an instruction uses exists and
\* dominates it, as long as replacing rules replace their anchor's own value; the
\* checks on captures and on rewired uses are what keeps it so.
SsaKept ==
  phase \in {"run", "finish"}
    /\ (\A k \in 1..(step - 1) : recipe[k].kind = "rule" => AnchorOnly(recipe[k].rule))
  => WellFormed(program.prog)

\* A handle a recipe names is a handle for the resource declared under that name, and
\* the reported binding is where that resource is.
HandlesBind ==
  \A n \in DOMAIN context.handles :
    LET v == context.handles[n]
        class == HandleClass(program.prog, v)
    IN \E k \in ResourceOf(program.prog, program.resources, v) :
         LET r == program.resources[class][k]
         IN /\ r.owner = n
            /\ context.bindings[n] = [class |-> class, lower |-> r.lower, space |-> r.space]

\* No two resources of a class begin at one register of one space.  Inside an array of
\* the game an added resource may lie; what that does is up to the validation of DXIL.
BindingsApart == \A c \in Range(Classes) : Apart(program.resources[c])

\* A struct type covers a cbuffer without gap or overlap, and has its fields where the
\* recipe's layout has them.  An array of DWORDs may end behind it.
Tiles(r, type) ==
  LET ends == [j \in DOMAIN type |-> type[j].offset + type[j].bytes]
  IN /\ \A j \in DOMAIN type : type[j].offset = IF j = 1 THEN 0 ELSE ends[j - 1]
     /\ Last(ends) = IF r.fields = <<>> THEN AlignUp(r.size, ComponentBytes) ELSE r.size
     /\ \A f \in DOMAIN r.fields : \E j \in DOMAIN type :
          type[j] = [offset |-> r.fields[f].offset, bytes |-> FieldSize(r.fields[f]), field |-> f]

\* A cbuffer shares its type with none that has another layout: no other one of the
\* shader, and no type that was there before the recipe.
OwnType(before, cbuffers, r) ==
  /\ \A q \in Range(cbuffers) : q.type = r.type => q.fields = r.fields /\ q.size = r.size
  /\ r.type \in DOMAIN before =>
       BodyOf(before[r.type]) = BodyOf(CBufferType(r.fields, r.size))

\* The type of an added cbuffer tiles it, unless another layout has the type's name:
\* then the body is the first layout's and the annotation the last one's.
FieldsTile ==
  \A r \in Range(program.resources.CBV) :
    r.type # None /\ OwnType(input.types, program.resources.CBV, r) =>
      Tiles(r, program.types[r.type])

\* The load and the extract that a cbuffer_field emit becomes read, in one row, four
\* bytes of a field of that cbuffer.
DeclaredFields(steps, handle) ==
  UNION {UNION {Range(d.fields) : d \in {c \in Range(s.decls.CBV) : c.handle = handle}} :
           s \in {t \in Range(steps) : t.kind = "resource"}}

ReadsField(steps, load, extract) ==
  LET component == extract.extract[2][2]
      address == Head(load.operands[2].consts)[2] * RowBytes + component * ComponentBytes
  IN component < 4 /\ \E f \in DeclaredFields(steps, load.operands[1].handle) :
                        address \in f.offset..(f.offset + FieldSize(f) - 1)

FieldsReadable ==
  \A s \in {t \in Range(recipe) : t.kind = "rule"} : \A k \in DOMAIN s.rule.emits :
    s.rule.emits[k].op = "cbufferLoadLegacy" /\ k < Len(s.rule.emits)
      /\ s.rule.emits[k + 1].extract # <<>> =>
      ReadsField(recipe, s.rule.emits[k], s.rule.emits[k + 1])

\* What an added cbuffer declares and what a rule reads of it are one layout, offsets
\* given or not (BuildCBufferSchemaLayout of CBufferLayout.cpp).
CBufferSound == FieldsTile /\ FieldsReadable

\* What is written has no function the entry does not reach and nothing dead, and
\* still does all that the patched program does.
PrunedOutput ==
  phase = "done" =>
    /\ DOMAIN output.order \subseteq Callees(output, Entry) \cup DOMAIN input.prog.order
    /\ Dead(output) = {}
    /\ \A f \in Callees(program.prog, Entry) : \A i \in Body(program.prog, f) :
         HasEffect(program.prog, i) => i \in Body(output, f)
    /\ \A i \in Live(output) : output.code[i] = program.prog.code[i]
================================================================================
