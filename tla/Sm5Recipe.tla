------------------------------ MODULE Sm5Recipe ------------------------------
(***************************************************************************)
(* A recipe applied to an SM5 shader: the step loop of the engine          *)
(* (dxp/RecipeEngine.hpp) over apply_rule steps (dxp/sm5/step/             *)
(* ApplyRuleStep.cpp), which rewrite the program, capture a window of it   *)
(* as a blob, or rewrite a stored blob.                                    *)
(*                                                                         *)
(* One step of the model is one function or one turn of a loop.  A name in *)
(* the recipe is the number of the step that has it.  add_resource stands  *)
(* for a declaration in front of the program (its registers are left out), *)
(* check_shader_version for the other steps.                               *)
(***************************************************************************)
EXTENDS Sm5Rule, FiniteSets, FiniteSetsExt

CONSTANTS
  Programs,  \* programs of shaders
  Recipes,   \* recipes, valid or not
  Opcodes,   \* opcodes of programs and patterns
  Returns,   \* ret and retc
  Decl       \* opcode of a declaration

(* A step: kind; required; when, the earlier step whose state it has as    *)
(* its condition, or 0; rule; and for                                      *)
(*   "rule"   a rule that rewrites the shader                              *)
(*   "blob"   match_blob with start, end and emit_blob's mode emit_blob;   *)
(*            its rule, unless without match, rewrites the blob            *)
(*   "scope"  a rule that rewrites the blob of the earlier step scope      *)
(*   "check"  check_shader_version, with ok, whether the versions agree    *)
(*   "add"    add_resource                                                 *)
Kinds == {"rule", "blob", "scope", "check", "add"}

Rules == [match : Seq(Opcodes), match_mode : MatchModes, rewrite_mode : RewriteModes,
          insert_index : Int, start_offset : Int, end_offset : Int,
          emit : [before : Seq(Opcodes), blob : Nat, after : Seq(Opcodes)],
          export : BOOLEAN]

Steps == [kind : Kinds, required : BOOLEAN, when : Nat, rule : Rules, start : Opcodes,
          end : Opcodes, emit_blob : {"none", "replace", "before", "after"},
          scope : Nat, ok : BOOLEAN]

ASSUME RecipeConstants ==
  /\ Programs \subseteq Seq(Opcodes)
  /\ Recipes \subseteq Seq(Steps)
  /\ Returns \subseteq Opcodes
  /\ Decl \in Opcodes

VARIABLES
  recipe, input,     \* what is executed, on which program
  code,              \* ctx.program.instructions
  step,              \* index of the step
  pc,                \* where in the step
  state,             \* ctx.state, where a step set it
  blobs,             \* ctx.captures.blobs
  exports,           \* ctx.immediate_exports: "none", "value" or "moved"
  published,         \* result.immediate_values, likewise
  matched, applied,  \* match_count and applied_count of the step
  reports,           \* result.steps: [step, success]
  modified,          \* ctx.program_modified
  mutated,           \* any_rule_mutated
  windows, window,   \* selected windows still to do, and the current one
  actions,           \* the actions of the blob step
  target, level,     \* the instructions a rule rewrites and whose they are
  waiting,           \* sorted_actions from a_idx on
  idx,               \* instr_idx
  output             \* instructions, with the index of a kept one, else 0

stepVars == <<recipe, input, step, reports, mutated, published>>
resultVars == <<state, exports, matched, applied>>
windowVars == <<windows, window, actions>>
mergeVars == <<target, level, waiting, idx, output>>
vars == <<stepVars, pc, code, blobs, modified, resultVars, windowVars, mergeVars>>

Actions == [type : {"replace", "insert"}, first : Nat \ {0}, last : Nat \ {0}, of : Windows,
            emit : Seq(Opcodes)]

Step == recipe[step]

(* The steps of a recipe can refer to one another.                         *)
Names == 1 .. Len(recipe)

TypeOK ==
  /\ recipe \in Recipes /\ input \in Programs
  /\ code \in Seq(Opcodes)
  /\ step \in Nat \ {0}
  /\ pc \in {"step", "rule", "window", "merge", "report", "done", "error", "threw"}
  /\ pc \in {"rule", "window", "merge", "report"} => step \in Names
  /\ state \in [Names -> {"unset", "true", "false"}]
  /\ DOMAIN blobs \subseteq Names /\ blobs \in [DOMAIN blobs -> Seq(Opcodes)]
  /\ exports \in [Names -> {"none", "value", "moved"}]
  /\ published \in [Names -> {"none", "value", "moved"}]
  /\ matched \in Nat /\ applied \in Nat
  /\ reports \in Seq([step : Nat, success : BOOLEAN])
  /\ modified \in BOOLEAN /\ mutated \in BOOLEAN
  /\ windows \subseteq Windows /\ window \in Windows
  /\ actions \subseteq Actions
  /\ target \in Seq(Opcodes)
  /\ level \in {"program", "interior", "scope"}
  /\ waiting \subseteq Actions
  /\ idx \in Nat
  /\ output \in Seq([op : Opcodes, at : Nat])

-----------------------------------------------------------------------------
(* Validate                                                                *)

(* One step, with the blobs of the steps before it and its own.            *)
ValidStep(r, n) ==
  LET s == r[n]
      BlobUpTo(k) == r[k].kind = "blob"
      plain == s.kind = "rule"
  IN
  /\ s.when \in 0 .. n - 1
  /\ s.kind \in {"rule", "blob", "scope"} =>
       /\ s.rule.emit.blob # 0 => s.rule.emit.blob \in 1 .. n /\ BlobUpTo(s.rule.emit.blob)
       /\ plain => \/ s.rule.match # <<>>
                   \/ s.rule.rewrite_mode = "before_last_return"
       /\ plain /\ s.rule.rewrite_mode \in {"before", "after"} => s.rule.insert_index >= 0
       /\ plain /\ s.rule.rewrite_mode # "none" =>
            s.rule.emit # [before |-> <<>>, blob |-> 0, after |-> <<>>]
  /\ s.kind = "scope" =>
       s.rule.match # <<>> /\ s.scope \in 1 .. n - 1 /\ BlobUpTo(s.scope)

Valid(r) == \A n \in DOMAIN r : ValidStep(r, n)

Init ==
  /\ recipe \in {r \in Recipes : Valid(r)}
  /\ input \in Programs
  /\ code = input
  /\ step = 1
  /\ pc = "step"
  /\ state = [n \in Names |-> "unset"]
  /\ blobs = [n \in {} |-> <<>>]
  /\ exports = [n \in Names |-> "none"]
  /\ published = [n \in Names |-> "none"]
  /\ matched = 0 /\ applied = 0
  /\ reports = <<>>
  /\ modified = FALSE /\ mutated = FALSE
  /\ windows = {} /\ window = [first |-> 1, last |-> 1] /\ actions = {}
  /\ target = <<>> /\ level = "program" /\ waiting = {} /\ idx = 1 /\ output = <<>>

-----------------------------------------------------------------------------
(* ExecuteSteps: one turn of its loop                                      *)

ShouldExecute == Step.when # 0 => state[Step.when] = "true"

(* The condition does not hold.                                            *)
SkipStep ==
  /\ pc = "step" /\ step \in Names
  /\ ~ ShouldExecute
  /\ step' = step + 1
  /\ UNCHANGED <<recipe, input, reports, mutated, published, pc, code, blobs, modified,
                 resultVars, windowVars, mergeVars>>

Starts(kind) == pc = "step" /\ step \in Names /\ ShouldExecute /\ Step.kind = kind

SetState(value) == state' = [state EXCEPT ![step] = IF value THEN "true" ELSE "false"]

CheckStep ==
  /\ Starts("check")
  /\ SetState(Step.ok)
  /\ pc' = "report"
  /\ UNCHANGED <<stepVars, code, blobs, modified, exports, matched, applied, windowVars,
                 mergeVars>>

AddResource ==
  /\ Starts("add")
  /\ SetState(TRUE)
  /\ code' = <<Decl>> \o code
  /\ modified' = TRUE
  /\ pc' = "report"
  /\ UNCHANGED <<stepVars, blobs, exports, matched, applied, windowVars, mergeVars>>

RuleStep ==
  /\ Starts("rule")
  /\ target' = code /\ level' = "program"
  /\ pc' = "rule"
  /\ UNCHANGED <<stepVars, code, blobs, modified, resultVars, windowVars, waiting, idx, output>>

(* ExecuteScopeStep: the blob was never captured, or its rule runs.        *)
ScopeStep ==
  /\ Starts("scope")
  /\ IF Step.scope \in DOMAIN blobs
       THEN target' = blobs[Step.scope] /\ level' = "scope" /\ pc' = "rule"
       ELSE pc' = "error" /\ UNCHANGED <<target, level>>
  /\ UNCHANGED <<stepVars, code, blobs, modified, resultVars, windowVars, waiting, idx, output>>

(* ExecuteBlobStep: the windows.                                           *)
BlobStep ==
  LET matches == WindowMatches(code, Step.start, Step.end)
  IN
  /\ Starts("blob")
  /\ SetState(matches # {})
  /\ matched' = Cardinality(matches)
  /\ windows' = Selected(matches, Step.rule.match_mode)
  /\ actions' = {}
  /\ pc' = "window"
  /\ UNCHANGED <<stepVars, code, blobs, modified, exports, applied, window, mergeVars>>

(* The rest of the turn: StepSucceeded, the exports, which are moved out   *)
(* of the context after every step, the report, and stop-fast.             *)
ReportStep ==
  LET success == CASE Step.kind = "check" -> Step.ok
                   [] Step.kind = "add" -> TRUE
                   [] OTHER -> matched > 0
  IN
  /\ pc = "report"
  /\ reports' = Append(reports, [step |-> step, success |-> success])
  /\ mutated' = (mutated \/ applied > 0)
  /\ published' = [n \in Names |-> IF exports[n] = "none" THEN published[n] ELSE exports[n]]
  /\ exports' = [n \in Names |-> IF exports[n] = "none" THEN "none" ELSE "moved"]
  /\ matched' = 0 /\ applied' = 0
  /\ step' = IF Step.required /\ ~ success THEN Len(recipe) + 1 ELSE step + 1
  /\ pc' = "step"
  /\ UNCHANGED <<recipe, input, code, blobs, modified, state, windowVars, mergeVars>>

(* After the loop.  The program is serialized if it counts as modified,    *)
(* else the input is passed through.                                       *)
Finish ==
  /\ pc = "step" /\ step \notin Names
  /\ modified' = (modified /\ mutated)
  /\ pc' = "done"
  /\ UNCHANGED <<stepVars, code, blobs, resultVars, windowVars, mergeVars>>

-----------------------------------------------------------------------------
(* ExecuteBlobStep and what a rule returns to                              *)

(* Mutant: the disposition is not looked at.                              *)
Mut_EndWindow(w, blob) ==
  /\ blobs' = [n \in DOMAIN blobs \cup {step} |-> IF n = step THEN blob ELSE blobs[n]]
  /\ actions' = actions \cup {BlobAction(Step.emit_blob, w, blob)}
  /\ applied' = applied + 1
  /\ windows' = windows \ {w}
  /\ pc' = "window"

(* The window w is done: its blob is stored and its disposition noted.     *)
EndWindow(w, blob) ==
  /\ blobs' = [n \in DOMAIN blobs \cup {step} |-> IF n = step THEN blob ELSE blobs[n]]
  /\ actions' = IF Step.emit_blob = "none" THEN actions
                ELSE actions \cup {BlobAction(Step.emit_blob, w, blob)}
  /\ applied' = applied + 1
  /\ windows' = windows \ {w}
  /\ pc' = "window"

(* A rule leaves instructions behind.                                      *)
Return(instructions) ==
  \/ /\ level = "program"
     /\ code' = instructions
     /\ pc' = "report"
     /\ UNCHANGED <<blobs, actions, applied, windows>>
  \/ /\ level = "scope"
     /\ blobs' = [blobs EXCEPT ![Step.scope] = instructions]
     /\ pc' = "report"
     /\ UNCHANGED <<code, actions, applied, windows>>
  \/ /\ level = "interior"
     /\ EndWindow(window, instructions)
     /\ UNCHANGED code

(* sorted_actions with out_size, which wraps around when it would be       *)
(* negative: reserve throws.                                               *)
OutSize(instructions, acts) ==
  Len(instructions) + MapThenSumSet(LAMBDA act : Len(act.emit), acts)
    - MapThenSumSet(LAMBDA act : IF act.type = "replace" THEN Length(act) ELSE 0, acts)

StartMerge(instructions, acts) ==
  /\ waiting' = acts
  /\ idx' = 1
  /\ output' = <<>>
  /\ pc' = IF OutSize(instructions, acts) < 0 THEN "threw" ELSE "merge"

(* The next window, in the order of their starts: a copy for the interior  *)
(* rule.                                                                   *)
StartWindow ==
  \E w \in windows :
    LET blob == SubSeq(code, w.first, w.last)
    IN
    /\ pc = "window"
    /\ \A v \in windows : w.first <= v.first
    /\ window' = w
    /\ IF Step.rule.match # <<>>
         THEN /\ target' = blob /\ level' = "interior"
              /\ pc' = "rule"
              /\ UNCHANGED <<blobs, actions, applied, windows>>
         ELSE /\ EndWindow(w, blob)
              /\ UNCHANGED <<target, level>>
    /\ UNCHANGED <<stepVars, code, modified, state, exports, matched, waiting, idx, output>>

(* All windows are done.                                                   *)
LandBlobs ==
  /\ pc = "window" /\ windows = {}
  /\ IF actions = {}
       THEN pc' = "report" /\ UNCHANGED mergeVars
       ELSE /\ target' = code /\ level' = "program"
            /\ StartMerge(code, actions)
  /\ UNCHANGED <<stepVars, code, blobs, modified, resultVars, windowVars>>

-----------------------------------------------------------------------------
(* ExecuteSingleRuleImpl on target                                         *)

Rule == Step.rule
Matches == SequenceMatches(target, Rule.match)

(* ResolveEmitEntry: a blob must have been stored and not be empty.        *)
Emits == Rule.emit.blob # 0 => Rule.emit.blob \in DOMAIN blobs /\ blobs[Rule.emit.blob] # <<>>
Emitted ==
  Rule.emit.before \o (IF Rule.emit.blob = 0 THEN <<>> ELSE blobs[Rule.emit.blob])
    \o Rule.emit.after

(* What it does once it has the matches.                                   *)
Match ==
  /\ pc = "rule" /\ Rule.rewrite_mode # "before_last_return"
  /\ SetState(Matches # {})
  /\ matched' = matched + Cardinality(Matches)
  /\ exports' = IF Rule.export /\ Matches # {} THEN [exports EXCEPT ![step] = "value"]
                ELSE exports

(* No match, or a rule that only probes.                                   *)
Probe ==
  /\ Match
  /\ Matches = {} \/ Rule.rewrite_mode = "none"
  /\ Return(target)
  /\ UNCHANGED <<stepVars, modified, window, mergeVars>>

(* EvaluateRuleRewriteCallback for each selected match.                    *)
Rewrite ==
  LET selected == Selected(Matches, Rule.match_mode)
  IN
  /\ Match
  /\ Matches # {} /\ Rule.rewrite_mode # "none"
  /\ IF Emits /\ \A w \in selected : Resolves(Rule, w)
       THEN /\ StartMerge(target, {RuleAction(Rule, w, Emitted) : w \in selected})
            /\ applied' = applied + Cardinality(selected)
       ELSE /\ pc' = "error"
            /\ UNCHANGED <<applied, waiting, idx, output>>
  /\ UNCHANGED <<stepVars, code, blobs, modified, windowVars, target, level>>

(* The last return, if there is one and the guard matches.                 *)
Anchors ==
  {i \in DOMAIN target : /\ target[i] \in Returns
                         /\ \A k \in i + 1 .. Len(target) : target[k] \notin Returns
                         /\ Rule.match # <<>> => Matches # {}}

NoLastReturn ==
  /\ pc = "rule" /\ Rule.rewrite_mode = "before_last_return"
  /\ Anchors = {}
  /\ SetState(FALSE)
  /\ Return(target)
  /\ UNCHANGED <<stepVars, modified, exports, matched, window, mergeVars>>

(* Mutant: the insertion is not counted as applied.                        *)
Mut_BeforeLastReturn ==
  /\ pc = "rule" /\ Rule.rewrite_mode = "before_last_return"
  /\ \E i \in Anchors :
       IF Emits
         THEN StartMerge(target, {InsertBefore(i, [first |-> i, last |-> i], Emitted)})
         ELSE pc' = "error" /\ UNCHANGED <<waiting, idx, output>>
  /\ SetState(TRUE)
  /\ matched' = matched + 1
  /\ UNCHANGED <<stepVars, code, blobs, modified, exports, applied, windowVars, target, level>>

BeforeLastReturn ==
  /\ pc = "rule" /\ Rule.rewrite_mode = "before_last_return"
  /\ \E i \in Anchors :
       IF Emits
         THEN StartMerge(target, {InsertBefore(i, [first |-> i, last |-> i], Emitted)})
         ELSE pc' = "error" /\ UNCHANGED <<waiting, idx, output>>
  /\ SetState(TRUE)
  /\ matched' = matched + 1
  /\ applied' = applied + 1
  /\ UNCHANGED <<stepVars, code, blobs, modified, exports, windowVars, target, level>>

-----------------------------------------------------------------------------
(* ApplyRewriteActions on target.  The sort is not stable: any of the      *)
(* waiting actions with the lowest position may be the next.               *)

Foremost == {x \in waiting : \A y \in waiting : x.first <= y.first}

Kept(i) == <<[op |-> target[i], at |-> i]>>
New(emit) == [k \in DOMAIN emit |-> [op |-> emit[k], at |-> 0]]

(* Mutant: range_end itself is kept.                                       *)
Mut_MergeAction ==
  /\ pc = "merge" /\ idx <= Len(target)
  /\ \E act \in Foremost :
       /\ act.first = idx
       /\ output' = output \o New(act.emit)
       /\ idx' = IF act.type = "replace" THEN act.last ELSE idx
       /\ waiting' = waiting \ {act}
  /\ UNCHANGED <<stepVars, pc, code, blobs, modified, resultVars, windowVars, target, level>>

(* Mutant: an insertion keeps its instruction without passing it.          *)
Mut_MergeInsert ==
  /\ pc = "merge" /\ idx <= Len(target)
  /\ \E act \in Foremost :
       /\ act.first = idx
       /\ output' = output \o New(act.emit) \o (IF act.type = "insert" THEN Kept(idx) ELSE <<>>)
       /\ idx' = IF act.type = "replace" THEN act.last + 1 ELSE idx
       /\ waiting' = waiting \ {act}
  /\ UNCHANGED <<stepVars, pc, code, blobs, modified, resultVars, windowVars, target, level>>

(* The action's position is reached.                                       *)
MergeAction ==
  /\ pc = "merge" /\ idx <= Len(target)
  /\ \E act \in Foremost :
       /\ act.first = idx
       /\ output' = output \o New(act.emit)
       /\ idx' = IF act.type = "replace" THEN act.last + 1 ELSE idx
       /\ waiting' = waiting \ {act}
  /\ UNCHANGED <<stepVars, pc, code, blobs, modified, resultVars, windowVars, target, level>>

(* Mutant: an action whose position was replaced is waited for.            *)
Mut_MergeKeep ==
  /\ pc = "merge" /\ idx <= Len(target)
  /\ \A act \in Foremost : act.first > idx
  /\ output' = output \o Kept(idx)
  /\ idx' = idx + 1
  /\ UNCHANGED <<stepVars, pc, code, blobs, modified, resultVars, windowVars, target, level,
                 waiting>>

(* No action is at this position: either it is still to come, or its       *)
(* position was replaced by another one.                                   *)
MergeKeep ==
  /\ pc = "merge" /\ idx <= Len(target)
  /\ \A act \in Foremost : act.first # idx
  /\ output' = output \o Kept(idx)
  /\ idx' = idx + 1
  /\ UNCHANGED <<stepVars, pc, code, blobs, modified, resultVars, windowVars, target, level,
                 waiting>>

(* What was not reached goes to the end.                                   *)
MergeLeftover ==
  /\ pc = "merge" /\ idx > Len(target)
  /\ \E act \in Foremost :
       /\ output' = output \o New(act.emit)
       /\ waiting' = waiting \ {act}
  /\ UNCHANGED <<stepVars, pc, code, blobs, modified, resultVars, windowVars, target, level, idx>>

Merged == pc = "merge" /\ idx > Len(target) /\ waiting = {}

MergeDone ==
  /\ Merged
  /\ Return([k \in DOMAIN output |-> output[k].op])
  /\ modified' = TRUE
  /\ UNCHANGED <<stepVars, state, exports, matched, window, mergeVars>>

-----------------------------------------------------------------------------
Next ==
  \/ SkipStep \/ CheckStep \/ AddResource \/ RuleStep \/ ScopeStep \/ BlobStep
  \/ ReportStep \/ Finish
  \/ StartWindow \/ LandBlobs
  \/ Probe \/ Rewrite \/ NoLastReturn \/ BeforeLastReturn
  \/ MergeAction \/ MergeKeep \/ MergeLeftover \/ MergeDone

Spec == Init /\ [][Next]_vars

(* Execute runs until it returns or throws.                                *)
FairSpec == Spec /\ WF_vars(Next)

-----------------------------------------------------------------------------
(* Properties                                                              *)

(* The actions of one call do not touch the same instructions.             *)
Disjoint(acts) ==
  \A x, y \in acts :
    x # y /\ x.type = "replace" /\ y.type = "replace"
      => x.last < y.first \/ y.last < x.first

(* What the merge loop should make of disjoint actions: in front of each   *)
(* instruction the block of an action there, and the instruction unless an *)
(* action replaces it.                                                     *)
At(acts, i) == {act \in acts : act.first = i}
Block(acts, i) ==
  IF At(acts, i) = {} THEN <<>> ELSE New((CHOOSE act \in At(acts, i) : TRUE).emit)
Replaced(acts, i) == \E act \in acts : act.type = "replace" /\ i \in act.first .. act.last
Place(instructions, acts, i) ==
  Block(acts, i) \o (IF i > Len(instructions) \/ Replaced(acts, i) THEN <<>>
                     ELSE <<[op |-> instructions[i], at |-> i]>>)

Reference(instructions, acts) ==
  LET upto[i \in 0 .. Len(instructions) + 1] ==
        IF i = 0 THEN <<>> ELSE upto[i - 1] \o Place(instructions, acts, i)
  IN upto[Len(instructions) + 1]

(* The actions that the merge under way started from, when only one can be *)
(* at a position.                                                          *)
LandsBlobs == Step.kind = "blob" /\ level = "program"

Started ==
  IF LandsBlobs THEN actions
  ELSE {RuleAction(Rule, w, Emitted) : w \in Selected(Matches, Rule.match_mode)}

(* ApplyRewriteActions: rewriting at disjoint places removes exactly the   *)
(* ranges and puts each block where its range was.                         *)
RewriteIsReference ==
  (/\ Merged
   /\ LandsBlobs \/ Rule.rewrite_mode # "before_last_return"
   /\ Disjoint(Started)
   /\ \A x, y \in Started : x # y => x.first # y.first)
    => output = Reference(target, Started)

(* Whatever the actions, also overlapping ones: what is kept of a program  *)
(* stays in its order and no instruction is kept twice.                    *)
KeptInOrder ==
  \A j, k \in DOMAIN output :
    j < k /\ output[j].at # 0 /\ output[k].at # 0 => output[j].at < output[k].at

(* RecipeReport.hpp:22, RecipeEngine.hpp:367-370: a recipe that reports    *)
(* its input unchanged has not rewritten it, so passing the input through  *)
(* loses no rewrite; only declarations in front of it may be dropped.      *)
Declares(program, original) ==
  \E n \in 0 .. Len(program) : program = [i \in 1 .. n |-> Decl] \o original
NoRewriteLost ==
  pc = "done" /\ ~ modified => Declares(code, input)

(* docs/sm5_recipe_schema.md:145,179,187: a scope step, a rule inside a    *)
(* blob and a window with emit_blob none leave the shader alone.           *)
ShaderUntouched ==
  [][(/\ step \in Names
      /\ Step.kind = "scope" \/ (Step.kind = "blob" /\ Step.emit_blob = "none"))
     => UNCHANGED code]_vars

(* A recipe's execution ends.                                              *)
Terminates == <>(pc \in {"done", "error", "threw"})
=============================================================================
