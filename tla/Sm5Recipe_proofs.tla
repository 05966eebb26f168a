--------------------------- MODULE Sm5Recipe_proofs ---------------------------
(***************************************************************************)
(* For all programs and recipes, whatever the rules, windows and blobs,    *)
(* overlapping ones included: the merge keeps what it keeps of a program   *)
(* in its order and no instruction twice, a step that may not change the   *)
(* shader does not, what is reported unchanged lost no rewrite, a rewrite  *)
(* at places that do not overlap makes its reference, and everything keeps *)
(* its type.                                                               *)
(***************************************************************************)
EXTENDS Sm5Recipe, SequenceTheorems, FiniteSetTheorems, WellFoundedInduction, TLAPS

Cells == [op : Opcodes, at : Nat]

(* An output of which the next instruction to keep is i.                   *)
OrderedBelow(out, i) ==
  /\ \A k \in DOMAIN out : out[k].at < i
  /\ \A j, k \in DOMAIN out :
       j < k /\ out[j].at # 0 /\ out[k].at # 0 => out[j].at < out[k].at

(* Ranges are not empty: the merge goes forward.                           *)
Forward(acts) ==
  /\ acts \subseteq Actions
  /\ \A x \in acts : x.type = "replace" => x.first <= x.last

ForwardWindows == {w \in Windows : w.first <= w.last}

RecipeOK ==
  /\ recipe \in Seq(Steps) /\ Valid(recipe)
  /\ step \in Nat
  /\ pc \in {"rule", "window", "merge", "report"} => step \in Names

(* A rule that selects matches has a pattern, so that no match is empty.   *)
RuleOK == pc = "rule" => Rule.match # <<>> \/ Rule.rewrite_mode = "before_last_return"

ProgramOK ==
  /\ code \in Seq(Opcodes) /\ target \in Seq(Opcodes)
  /\ \A n \in DOMAIN blobs : blobs[n] \in Seq(Opcodes)

WindowsOK ==
  /\ windows \subseteq ForwardWindows /\ window \in ForwardWindows
  /\ Forward(actions)

(* Windows that are still to do are ranges of the program, which does not  *)
(* change before they are done.                                            *)
WithinOK ==
  /\ \A w \in windows : w.last <= Len(code)
  /\ \/ windows = {}
     \/ pc \in {"window", "error", "threw"}
     \/ pc \in {"rule", "merge"} /\ level = "interior"

MergeOK ==
  /\ Forward(waiting)
  /\ idx \in Nat \ {0}
  /\ output \in Seq(Cells)
  /\ OrderedBelow(output, idx)

KInv == RecipeOK /\ RuleOK /\ ProgramOK /\ WindowsOK /\ WithinOK /\ MergeOK

-----------------------------------------------------------------------------
(* Outputs                                                                 *)

(* What an action emits is new.                                            *)
LEMMA NewCells ==
  ASSUME NEW emit \in Seq(Opcodes)
  PROVE  /\ New(emit) \in Seq(Cells)
         /\ \A k \in DOMAIN New(emit) : New(emit)[k].at = 0
<1>1. DOMAIN emit = 1 .. Len(emit) /\ Len(emit) \in Nat
  BY LenProperties
<1>2. \A k \in 1 .. Len(emit) : emit[k] \in Opcodes
  BY ElementOfSeq
<1>3. \A k \in 1 .. Len(emit) : [op |-> emit[k], at |-> 0] \in Cells
  BY <1>2 DEF Cells
<1>4. New(emit) = [k \in 1 .. Len(emit) |-> [op |-> emit[k], at |-> 0]]
  BY <1>1 DEF New
<1>5. New(emit) \in Seq(Cells)
  BY <1>1, <1>3, <1>4
<1> QED BY <1>4, <1>5

(* New instructions behind an output keep its order.                       *)
LEMMA AppendNew ==
  ASSUME NEW out \in Seq(Cells), NEW new \in Seq(Cells),
         NEW i \in Nat \ {0}, NEW j \in Nat, i <= j,
         OrderedBelow(out, i),
         \A k \in DOMAIN new : new[k].at = 0
  PROVE  out \o new \in Seq(Cells) /\ OrderedBelow(out \o new, j)
<1> DEFINE all == out \o new
<1>1. /\ all \in Seq(Cells)
      /\ Len(all) = Len(out) + Len(new)
      /\ \A k \in 1 .. Len(out) + Len(new) :
           all[k] = IF k <= Len(out) THEN out[k] ELSE new[k - Len(out)]
  BY ConcatProperties
<1>2. DOMAIN out = 1 .. Len(out) /\ DOMAIN new = 1 .. Len(new)
      /\ DOMAIN all = 1 .. Len(out) + Len(new) /\ Len(out) \in Nat /\ Len(new) \in Nat
  BY <1>1, LenProperties
<1>3. \A k \in DOMAIN all : (k \in DOMAIN out /\ all[k] = out[k]) \/ all[k].at = 0
  BY <1>1, <1>2
<1>4. \A k \in DOMAIN out : out[k].at \in Nat
  <2>1. \A k \in 1 .. Len(out) : out[k] \in Cells
    BY ElementOfSeq
  <2> QED BY <1>2, <2>1 DEF Cells
<1> HIDE DEF all
<1>5. OrderedBelow(all, j)
  BY <1>3, <1>4, <1>2 DEF OrderedBelow
<1> QED BY <1>1, <1>5 DEF all

(* So does the next instruction that is kept.                              *)
LEMMA AppendKept ==
  ASSUME NEW out \in Seq(Cells), NEW i \in Nat \ {0}, NEW op \in Opcodes,
         OrderedBelow(out, i)
  PROVE  LET all == out \o <<[op |-> op, at |-> i]>>
         IN all \in Seq(Cells) /\ OrderedBelow(all, i + 1)
<1> DEFINE cell == [op |-> op, at |-> i]
           all == out \o <<cell>>
<1>0. cell \in Cells /\ cell.at = i
  BY DEF Cells
<1> HIDE DEF cell
<1>1. /\ all \in Seq(Cells)
      /\ Len(all) = Len(out) + 1
      /\ \A k \in 1 .. Len(out) + 1 : all[k] = IF k <= Len(out) THEN out[k] ELSE cell
  BY <1>0, ConcatProperties
<1>2. DOMAIN out = 1 .. Len(out) /\ DOMAIN all = 1 .. Len(out) + 1 /\ Len(out) \in Nat
  BY <1>1, LenProperties
<1>3. \A k \in DOMAIN out : out[k].at \in Nat
  <2>1. \A k \in 1 .. Len(out) : out[k] \in Cells
    BY ElementOfSeq
  <2> QED BY <1>2, <2>1 DEF Cells
<1> HIDE DEF all
<1>4. \A k \in DOMAIN all : all[k].at < i + 1
  BY <1>0, <1>1, <1>2, <1>3 DEF OrderedBelow
<1>5. ASSUME NEW j \in DOMAIN all, NEW k \in DOMAIN all, j < k, all[j].at # 0, all[k].at # 0
      PROVE  all[j].at < all[k].at
  <2>1. CASE k <= Len(out)
    BY <1>1, <1>2, <1>5, <2>1 DEF OrderedBelow
  <2>2. CASE k = Len(out) + 1
    BY <1>0, <1>1, <1>2, <1>5, <2>2 DEF OrderedBelow
  <2> QED BY <1>2, <2>1, <2>2
<1>6. OrderedBelow(all, i + 1)
  BY <1>4, <1>5 DEF OrderedBelow
<1> QED BY <1>1, <1>6 DEF all, cell

-----------------------------------------------------------------------------
(* Matches and actions                                                     *)

(* A match of a pattern is a range.                                        *)
LEMMA MatchesForward ==
  ASSUME NEW prog \in Seq(Opcodes), NEW match \in Seq(Opcodes), match # <<>>
  PROVE  SequenceMatches(prog, match) \subseteq ForwardWindows
<1>1. Len(prog) \in Nat /\ Len(match) \in Nat \ {0}
  BY LenProperties, EmptySeq
<1> QED BY <1>1 DEF SequenceMatches, ForwardWindows, Windows

(* A window is a range of the program.                                     *)
LEMMA WindowsForward ==
  ASSUME NEW prog \in Seq(Opcodes), NEW start, NEW end
  PROVE  \A w \in WindowMatches(prog, start, end) :
           w \in ForwardWindows /\ w.last <= Len(prog)
<1>1. DOMAIN prog = 1 .. Len(prog) /\ Len(prog) \in Nat
  BY LenProperties
<1>2. \A i \in DOMAIN prog : i \in Nat \ {0} /\ i <= Len(prog)
  BY <1>1
<1> QED BY <1>2 DEF WindowMatches, ForwardWindows, Windows

(* The action of a rule that resolves covers a range or is a place.        *)
LEMMA RuleActionForward ==
  ASSUME NEW rule \in Rules, NEW w \in ForwardWindows, NEW emit \in Seq(Opcodes),
         rule.rewrite_mode \notin {"none", "before_last_return"},
         Resolves(rule, w)
  PROVE  Forward({RuleAction(rule, w, emit)})
<1> DEFINE x == RuleAction(rule, w, emit)
<1>1. /\ rule.rewrite_mode \in {"replace", "replace_range", "before", "after"}
      /\ rule.insert_index \in Int /\ rule.start_offset \in Int /\ rule.end_offset \in Int
  BY DEF Rules, RewriteModes
<1>2. w \in Windows /\ w.first \in Nat \ {0} /\ w.last \in Nat \ {0} /\ w.first <= w.last
  BY DEF ForwardWindows, Windows
<1>3. CASE rule.rewrite_mode = "replace"
  BY <1>2, <1>3 DEF RuleAction, Replace, Forward, Actions
<1>4. CASE rule.rewrite_mode = "replace_range"
  <2> DEFINE range == [first |-> w.first + rule.start_offset,
                       last |-> IF rule.end_offset < 0 THEN w.last
                                ELSE w.first + rule.end_offset]
  <2>1. /\ rule.start_offset >= 0 /\ rule.end_offset >= -1
        /\ rule.start_offset < w.last - w.first + 1
        /\ rule.end_offset >= 0 => rule.start_offset <= rule.end_offset
    BY <1>4 DEF Resolves, RangeOK, Length
  <2>2. range.first \in Nat \ {0} /\ range.last \in Nat \ {0} /\ range.first <= range.last
    BY <1>1, <1>2, <2>1
  <2>3. x = [type |-> "replace", first |-> range.first, last |-> range.last, of |-> w,
             emit |-> emit]
    BY <1>4 DEF RuleAction, Replace
  <2> HIDE DEF range, x
  <2>4. x \in Actions /\ x.first <= x.last
    BY <1>2, <2>2, <2>3 DEF Actions
  <2> QED BY <2>4 DEF Forward, x
<1>5. CASE rule.rewrite_mode \in {"before", "after"}
  <2>1. InsertIndex(rule, w) \in Nat
    BY <1>1, <1>2, <1>5 DEF Resolves, InsertIndex
  <2> DEFINE i == InsertIndex(rule, w) + (IF rule.rewrite_mode = "before" THEN 1 ELSE 2)
  <2>2. i \in Nat \ {0}
    BY <2>1
  <2>3. x = [type |-> "insert", first |-> i, last |-> i, of |-> w, emit |-> emit]
    BY <1>5 DEF RuleAction, InsertBefore
  <2> HIDE DEF x, i
  <2>4. x \in Actions /\ x.type # "replace"
    BY <1>2, <2>2, <2>3 DEF Actions
  <2> QED BY <2>4 DEF Forward, x
<1> QED BY <1>1, <1>3, <1>4, <1>5

(* So does the action of a window's blob.                                  *)
LEMMA BlobActionForward ==
  ASSUME NEW mode, NEW w \in ForwardWindows, NEW blob \in Seq(Opcodes)
  PROVE  Forward({BlobAction(mode, w, blob)})
<1>1. w \in Windows /\ w.first \in Nat \ {0} /\ w.last \in Nat \ {0} /\ w.first <= w.last
  BY DEF ForwardWindows, Windows
<1>2. CASE mode = "replace"
  BY <1>1, <1>2 DEF BlobAction, Replace, Forward, Actions
<1>3. CASE mode = "before"
  BY <1>1, <1>3 DEF BlobAction, InsertBefore, Forward, Actions
<1>4. CASE mode \notin {"replace", "before"}
  BY <1>1, <1>4 DEF BlobAction, InsertBefore, Forward, Actions
<1> QED BY <1>2, <1>3, <1>4

(* What is selected was matched.                                           *)
LEMMA SelectedMatches ==
  ASSUME NEW matches, NEW mode
  PROVE  Selected(matches, mode) \subseteq matches
BY DEF Selected

-----------------------------------------------------------------------------
(* What a step knows of its place                                          *)

(* Validate has seen to the step under way.                                *)
LEMMA StepValid ==
  ASSUME RecipeOK, step \in Names
  PROVE  /\ Step \in Steps /\ ValidStep(recipe, step)
         /\ Rule \in Rules /\ Rule.match \in Seq(Opcodes)
<1>1. step \in 1 .. Len(recipe) /\ DOMAIN recipe = 1 .. Len(recipe)
  BY LenProperties DEF RecipeOK, Names
<1>2. recipe[step] \in Steps
  BY <1>1, ElementOfSeq DEF RecipeOK
<1> QED BY <1>1, <1>2 DEF RecipeOK, Valid, Step, Rule, Steps, Rules

(* What a rule emits is a sequence of instructions.                        *)
LEMMA EmittedType ==
  ASSUME ProgramOK, Rule \in Rules, Emits
  PROVE  Emitted \in Seq(Opcodes)
<1> DEFINE emit == Rule.emit
           blob == IF emit.blob = 0 THEN <<>> ELSE blobs[emit.blob]
<1>1. emit.before \in Seq(Opcodes) /\ emit.after \in Seq(Opcodes)
  BY DEF Rules
<1>2. blob \in Seq(Opcodes)
  BY EmptySeq DEF ProgramOK, Emits
<1> HIDE DEF blob
<1>3. (emit.before \o blob) \o emit.after \in Seq(Opcodes)
  BY <1>1, <1>2, ConcatProperties
<1> QED BY <1>3 DEF Emitted, blob

(* The window's end leaves well-formed blobs and actions.                  *)
LEMMA EndWindowInv ==
  ASSUME KInv, step \in Names, NEW w \in ForwardWindows, NEW blob \in Seq(Opcodes),
         EndWindow(w, blob)
  PROVE  /\ \A n \in DOMAIN blobs' : blobs'[n] \in Seq(Opcodes)
         /\ Forward(actions') /\ windows' \subseteq ForwardWindows
<1>1. \A n \in DOMAIN blobs' : blobs'[n] \in Seq(Opcodes)
  BY DEF EndWindow, KInv, ProgramOK
<1>2. Forward(actions')
  <2>1. Forward({BlobAction(Step.emit_blob, w, blob)})
    BY BlobActionForward
  <2>2. \/ actions' = actions
        \/ actions' = actions \cup {BlobAction(Step.emit_blob, w, blob)}
    BY DEF EndWindow
  <2> QED BY <2>1, <2>2 DEF KInv, WindowsOK, Forward
<1>3. windows' \subseteq ForwardWindows
  BY DEF EndWindow, KInv, WindowsOK
<1> QED BY <1>1, <1>2, <1>3

(* A rule's return leaves everything well-formed.                          *)
LEMMA ReturnInv ==
  ASSUME KInv, pc \in {"rule", "merge"}, NEW instructions \in Seq(Opcodes),
         Return(instructions), UNCHANGED <<stepVars, window, mergeVars>>
  PROVE  KInv'
<1> USE DEF stepVars, mergeVars
<1>1. step \in Names
  BY DEF KInv, RecipeOK
<1>2. pc' \in {"report", "window"}
  BY DEF Return, EndWindow
<1>3. RecipeOK'
  BY <1>1, <1>2 DEF KInv, RecipeOK, Names
<1>4. RuleOK'
  BY <1>2 DEF RuleOK
<1>5. MergeOK'
  BY DEF KInv, MergeOK
<1>6. ProgramOK' /\ WindowsOK' /\ WithinOK'
  <2>1. CASE level = "program"
    BY <2>1 DEF Return, KInv, ProgramOK, WindowsOK, WithinOK
  <2>2. CASE level = "scope"
    BY <2>2 DEF Return, KInv, ProgramOK, WindowsOK, WithinOK
  <2>3. CASE level = "interior"
    <3>1. EndWindow(window, instructions) /\ UNCHANGED code
      BY <2>3 DEF Return
    <3>2. window \in ForwardWindows
      BY DEF KInv, WindowsOK
    <3>3. /\ \A n \in DOMAIN blobs' : blobs'[n] \in Seq(Opcodes)
          /\ Forward(actions') /\ windows' \subseteq ForwardWindows
      BY <1>1, <3>1, <3>2, EndWindowInv
    <3>4. windows' \subseteq windows /\ pc' = "window"
      BY <3>1 DEF EndWindow
    <3> QED BY <3>1, <3>2, <3>3, <3>4 DEF KInv, ProgramOK, WindowsOK, WithinOK
  <2> QED BY <2>1, <2>2, <2>3 DEF Return
<1> QED BY <1>3, <1>4, <1>5, <1>6 DEF KInv

(* The merge begins with an empty output.                                  *)
LEMMA StartMergeInv ==
  ASSUME NEW instructions, NEW acts, Forward(acts), StartMerge(instructions, acts)
  PROVE  MergeOK' /\ pc' \in {"threw", "merge"}
<1>1. output' = <<>> /\ idx' = 1 /\ waiting' = acts
  BY DEF StartMerge
<1>2. output' \in Seq(Cells) /\ DOMAIN output' = {}
  BY <1>1, EmptySeq
<1>3. OrderedBelow(output', idx')
  BY <1>2 DEF OrderedBelow
<1> QED BY <1>1, <1>2, <1>3 DEF MergeOK, StartMerge

-----------------------------------------------------------------------------
(* The steps                                                               *)

(* The invariant holds at the start.                                       *)
LEMMA KInit == Init => KInv
<1> SUFFICES ASSUME Init PROVE KInv
  OBVIOUS
<1>1. RecipeOK /\ RuleOK
  BY RecipeConstants DEF Init, RecipeOK, RuleOK
<1>2. ProgramOK
  BY RecipeConstants, EmptySeq DEF Init, ProgramOK
<1>3. WindowsOK /\ WithinOK
  BY DEF Init, WindowsOK, WithinOK, ForwardWindows, Windows, Forward
<1>4. output = <<>> /\ idx = 1 /\ waiting = {}
  BY DEF Init
<1>5. output \in Seq(Cells) /\ DOMAIN output = {}
  BY <1>4, EmptySeq
<1>6. MergeOK
  BY <1>4, <1>5 DEF MergeOK, Forward, OrderedBelow
<1> QED BY <1>1, <1>2, <1>3, <1>6 DEF KInv

(* The engine's steps: only the program and the place change.              *)
LEMMA EngineInv ==
  ASSUME KInv, SkipStep \/ CheckStep \/ AddResource \/ ReportStep \/ Finish
  PROVE  KInv'
<1> USE DEF stepVars, resultVars, windowVars, mergeVars
<1>1. /\ UNCHANGED <<recipe, blobs, target, windows, window, actions, waiting, idx, output>>
      /\ pc' \in {"step", "report", "done"}
  BY DEF SkipStep, CheckStep, AddResource, ReportStep, Finish, Starts
<1>2. step' \in Nat /\ (pc' = "report" => step' \in Names')
  <2>1. step \in Nat /\ Len(recipe) \in Nat
    BY LenProperties DEF KInv, RecipeOK
  <2>2. CASE SkipStep
    <3>1. step' = step + 1 /\ pc' = "step"
      BY <2>2 DEF SkipStep
    <3> QED BY <2>1, <3>1
  <2>4. CASE CheckStep \/ AddResource \/ Finish
    <3>1. step' = step /\ (pc' = "report" => step \in Names)
      BY <2>4 DEF CheckStep, AddResource, Finish, Starts
    <3> QED BY <1>1, <2>1, <3>1 DEF Names
  <2>3. CASE ReportStep
    <3>1. step' \in {Len(recipe) + 1, step + 1} /\ pc' = "step"
      BY <2>3 DEF ReportStep
    <3> QED BY <2>1, <3>1
  <2> QED BY <2>2, <2>3, <2>4
<1>3. code' \in Seq(Opcodes)
  <2>1. CASE AddResource
    <3>1. <<Decl>> \in Seq(Opcodes)
      BY RecipeConstants
    <3> QED BY <2>1, <3>1, ConcatProperties DEF AddResource, KInv, ProgramOK
  <2>2. CASE ~ AddResource
    BY <2>2 DEF SkipStep, CheckStep, ReportStep, Finish, KInv, ProgramOK
  <2> QED BY <2>1, <2>2
<1>4. windows = {}
  BY DEF SkipStep, CheckStep, AddResource, ReportStep, Finish, Starts, KInv, WithinOK
<1> QED BY <1>1, <1>2, <1>3, <1>4
        DEF KInv, RecipeOK, RuleOK, ProgramOK, WindowsOK, WithinOK, MergeOK, Forward,
            OrderedBelow

(* A rule begins: Validate has seen to its pattern.                        *)
LEMMA RuleBeginInv ==
  ASSUME KInv, RuleStep \/ ScopeStep
  PROVE  KInv'
<1> USE DEF stepVars, resultVars, windowVars, mergeVars
<1>1. /\ UNCHANGED <<recipe, step, code, blobs, windows, window, actions, waiting, idx, output>>
      /\ step \in Names /\ pc' \in {"rule", "error"}
  BY DEF RuleStep, ScopeStep, Starts
<1>2. ValidStep(recipe, step)
  BY <1>1, StepValid DEF KInv
<1>3. RuleOK'
  <2>1. CASE RuleStep
    BY <1>1, <1>2, <2>1 DEF RuleStep, Starts, ValidStep, RuleOK, Rule, Step
  <2>2. CASE ScopeStep
    BY <1>1, <1>2, <2>2 DEF ScopeStep, Starts, ValidStep, RuleOK, Rule, Step
  <2> QED BY <2>1, <2>2
<1>4. target' \in Seq(Opcodes)
  BY DEF RuleStep, ScopeStep, KInv, ProgramOK
<1>5. windows = {}
  BY DEF RuleStep, ScopeStep, Starts, KInv, WithinOK
<1> QED BY <1>1, <1>3, <1>4, <1>5
        DEF KInv, RecipeOK, ProgramOK, WindowsOK, WithinOK, MergeOK, Names, Forward,
            OrderedBelow

(* A blob step collects windows of the program.                            *)
LEMMA BlobStepInv ==
  ASSUME KInv, BlobStep
  PROVE  KInv'
<1> USE DEF stepVars, resultVars, windowVars, mergeVars
<1>1. /\ UNCHANGED <<recipe, step, code, blobs, target, window, waiting, idx, output>>
      /\ step \in Names /\ pc' = "window" /\ actions' = {}
  BY DEF BlobStep, Starts
<1>2. \A w \in windows' : w \in ForwardWindows /\ w.last <= Len(code)
  BY WindowsForward, SelectedMatches DEF BlobStep, KInv, ProgramOK
<1> QED BY <1>1, <1>2
        DEF KInv, RecipeOK, RuleOK, ProgramOK, WindowsOK, WithinOK, MergeOK, Names, Forward,
            OrderedBelow

(* The next window is copied, or done at once.                             *)
LEMMA StartWindowInv ==
  ASSUME KInv, StartWindow
  PROVE  KInv'
<1> USE DEF stepVars, resultVars, windowVars, mergeVars
<1>1. PICK w \in windows :
        LET blob == SubSeq(code, w.first, w.last)
        IN /\ window' = w
           /\ IF Step.rule.match # <<>>
                THEN /\ target' = blob /\ pc' = "rule" /\ level' = "interior"
                     /\ UNCHANGED <<blobs, actions, windows>>
                ELSE EndWindow(w, blob) /\ UNCHANGED target
           /\ UNCHANGED <<recipe, step, code, waiting, idx, output>>
  BY DEF StartWindow
<1> DEFINE blob == SubSeq(code, w.first, w.last)
<1>2. w \in ForwardWindows /\ w.last <= Len(code) /\ step \in Names
  BY DEF KInv, WindowsOK, WithinOK, RecipeOK, StartWindow
<1>3. blob \in Seq(Opcodes)
  <2>1. code \in Seq(Opcodes) /\ Len(code) \in Nat
    BY LenProperties DEF KInv, ProgramOK
  <2>2. w.first \in 1 .. Len(code) + 1 /\ w.last \in w.first - 1 .. Len(code)
    BY <1>2, <2>1 DEF ForwardWindows, Windows
  <2> QED BY <2>1, <2>2, SubSeqProperties
<1> HIDE DEF blob
<1>4. RecipeOK' /\ MergeOK'
  BY <1>1, <1>2 DEF KInv, RecipeOK, MergeOK, Names, Forward, OrderedBelow
<1>5. CASE Step.rule.match # <<>>
  BY <1>1, <1>2, <1>3, <1>4, <1>5
     DEF KInv, RuleOK, ProgramOK, WindowsOK, WithinOK, Forward, Rule, Step, blob
<1>6. CASE Step.rule.match = <<>>
  <2>1. EndWindow(w, blob) /\ pc' = "window"
    BY <1>1, <1>6 DEF blob, EndWindow
  <2>2. /\ \A n \in DOMAIN blobs' : blobs'[n] \in Seq(Opcodes)
        /\ Forward(actions') /\ windows' \subseteq ForwardWindows
    BY <1>2, <1>3, <2>1, EndWindowInv
  <2>3. windows' \subseteq windows
    BY <2>1 DEF EndWindow
  <2> QED BY <1>1, <1>2, <1>4, <1>6, <2>1, <2>2, <2>3
          DEF KInv, RuleOK, ProgramOK, WindowsOK, WithinOK
<1> QED BY <1>5, <1>6

(* The blobs land as the actions of their windows say.                     *)
LEMMA LandBlobsInv ==
  ASSUME KInv, LandBlobs
  PROVE  KInv'
<1> USE DEF stepVars, resultVars, windowVars, mergeVars
<1>1. UNCHANGED <<recipe, step, code, blobs, windows, window, actions>> /\ step \in Names
  BY DEF LandBlobs, KInv, RecipeOK
<1>2. target' \in Seq(Opcodes)
  BY DEF LandBlobs, KInv, ProgramOK
<1>3. MergeOK' /\ pc' \in {"report", "threw", "merge"}
  <2>1. CASE actions = {}
    BY <2>1 DEF LandBlobs, KInv, MergeOK, Forward, OrderedBelow
  <2>2. CASE actions # {}
    <3>1. StartMerge(code, actions) /\ Forward(actions)
      BY <2>2 DEF LandBlobs, KInv, WindowsOK
    <3> QED BY <3>1, StartMergeInv
  <2> QED BY <2>1, <2>2
<1>4. windows = {}
  BY DEF LandBlobs
<1> QED BY <1>1, <1>2, <1>3, <1>4
        DEF KInv, RecipeOK, RuleOK, ProgramOK, WindowsOK, WithinOK, Names, Forward

(* A rule that rewrites nothing returns what it was given.                 *)
LEMMA ProbeInv ==
  ASSUME KInv, Probe \/ NoLastReturn
  PROVE  KInv'
<1>1. /\ pc = "rule" /\ Return(target)
      /\ UNCHANGED <<stepVars, window, mergeVars>>
  BY DEF Probe, Match, NoLastReturn
<1>2. target \in Seq(Opcodes)
  BY DEF KInv, ProgramOK
<1> QED BY <1>1, <1>2, ReturnInv

(* A rule's actions come from matches that are not empty.                  *)
LEMMA RewriteInv ==
  ASSUME KInv, Rewrite
  PROVE  KInv'
<1> USE DEF stepVars, windowVars
<1> DEFINE selected == Selected(Matches, Rule.match_mode)
           acts == {RuleAction(Rule, w, Emitted) : w \in selected}
<1>1. /\ UNCHANGED <<recipe, step, code, blobs, windows, window, actions, target, level>>
      /\ pc = "rule" /\ Rule.rewrite_mode \notin {"none", "before_last_return"}
  BY DEF Rewrite, Match
<1>2. step \in Names /\ Rule \in Rules /\ Rule.match \in Seq(Opcodes)
  BY <1>1, StepValid DEF KInv, RecipeOK
<1>3. MergeOK' /\ pc' \in {"threw", "merge", "error"}
  <2>1. CASE Emits /\ \A w \in selected : Resolves(Rule, w)
    <3>1. selected \subseteq ForwardWindows
      <4>1. Rule.match # <<>> /\ target \in Seq(Opcodes)
        BY <1>1 DEF KInv, RuleOK, ProgramOK
      <4> QED BY <1>2, <4>1, MatchesForward, SelectedMatches DEF Matches
    <3>2. Emitted \in Seq(Opcodes)
      BY <1>2, <2>1, EmittedType DEF KInv
    <3>3. \A w \in selected : Forward({RuleAction(Rule, w, Emitted)})
      BY <1>1, <1>2, <2>1, <3>1, <3>2, RuleActionForward
    <3>4. Forward(acts)
      BY <3>3 DEF Forward
    <3>5. StartMerge(target, acts)
      BY <2>1 DEF Rewrite
    <3> QED BY <3>4, <3>5, StartMergeInv
  <2>2. CASE ~ (Emits /\ \A w \in selected : Resolves(Rule, w))
    BY <2>2 DEF Rewrite, KInv, MergeOK, Forward, OrderedBelow
  <2> QED BY <2>1, <2>2
<1> QED BY <1>1, <1>2, <1>3
        DEF KInv, RecipeOK, RuleOK, ProgramOK, WindowsOK, WithinOK, Names, Forward

(* The anchor of a last return is a place.                                 *)
LEMMA BeforeLastReturnInv ==
  ASSUME KInv, BeforeLastReturn
  PROVE  KInv'
<1> USE DEF stepVars, windowVars
<1>1. /\ UNCHANGED <<recipe, step, code, blobs, windows, window, actions, target, level>>
      /\ pc = "rule"
  BY DEF BeforeLastReturn
<1>2. step \in Names /\ Rule \in Rules
  BY <1>1, StepValid DEF KInv, RecipeOK
<1>3. MergeOK' /\ pc' \in {"threw", "merge", "error"}
  <2>1. CASE Emits
    <3>1. PICK i \in Anchors :
            StartMerge(target, {InsertBefore(i, [first |-> i, last |-> i], Emitted)})
      BY <2>1 DEF BeforeLastReturn
    <3> DEFINE x == InsertBefore(i, [first |-> i, last |-> i], Emitted)
    <3>2. i \in Nat \ {0}
      <4>1. DOMAIN target = 1 .. Len(target) /\ Len(target) \in Nat
        BY LenProperties DEF KInv, ProgramOK
      <4> QED BY <4>1 DEF Anchors
    <3>3. Emitted \in Seq(Opcodes)
      BY <1>2, <2>1, EmittedType DEF KInv
    <3>4. Forward({x})
      BY <3>2, <3>3 DEF InsertBefore, Forward, Actions, Windows
    <3> QED BY <3>1, <3>4, StartMergeInv
  <2>2. CASE ~ Emits
    BY <2>2 DEF BeforeLastReturn, KInv, MergeOK, Forward, OrderedBelow
  <2> QED BY <2>1, <2>2
<1> QED BY <1>1, <1>2, <1>3
        DEF KInv, RecipeOK, RuleOK, ProgramOK, WindowsOK, WithinOK, Names, Forward

(* The merge loop never goes back.                                         *)
LEMMA MergeInv ==
  ASSUME KInv, MergeAction \/ MergeKeep \/ MergeLeftover
  PROVE  KInv'
<1> USE DEF stepVars, resultVars, windowVars
<1>1. /\ UNCHANGED <<recipe, step, pc, code, blobs, windows, window, actions, target, level>>
      /\ pc = "merge"
  BY DEF MergeAction, MergeKeep, MergeLeftover
<1>2. /\ idx \in Nat \ {0} /\ output \in Seq(Cells) /\ OrderedBelow(output, idx)
      /\ Forward(waiting) /\ target \in Seq(Opcodes)
  BY DEF KInv, MergeOK, ProgramOK
<1>3. MergeOK'
  <2>1. CASE MergeAction \/ MergeLeftover
    <3>1. PICK act \in Foremost :
            /\ output' = output \o New(act.emit) /\ waiting' = waiting \ {act}
            /\ \/ act.first = idx /\ idx' = IF act.type = "replace" THEN act.last + 1 ELSE idx
               \/ idx' = idx
      BY <2>1 DEF MergeAction, MergeLeftover
    <3>2. act \in Actions /\ (act.type = "replace" => act.first <= act.last)
      BY <1>2 DEF Foremost, Forward
    <3>3. act.emit \in Seq(Opcodes) /\ act.first \in Nat /\ act.last \in Nat
      BY <3>2 DEF Actions
    <3>4. idx' \in Nat \ {0} /\ idx <= idx'
      BY <1>2, <3>1, <3>2, <3>3
    <3>5. output' \in Seq(Cells) /\ OrderedBelow(output', idx')
      <4>1. /\ New(act.emit) \in Seq(Cells)
            /\ \A k \in DOMAIN New(act.emit) : New(act.emit)[k].at = 0
        BY <3>3, NewCells
      <4> QED BY <1>2, <3>1, <3>4, <4>1, AppendNew
    <3> QED BY <1>2, <3>1, <3>4, <3>5 DEF MergeOK, Forward
  <2>2. CASE MergeKeep
    <3>1. target[idx] \in Opcodes
      <4>1. idx \in 1 .. Len(target)
        BY <1>2, <2>2, LenProperties DEF MergeKeep
      <4> QED BY <1>2, <4>1, ElementOfSeq
    <3>2. /\ output' = output \o <<[op |-> target[idx], at |-> idx]>>
          /\ idx' = idx + 1 /\ waiting' = waiting
      BY <2>2 DEF MergeKeep, Kept
    <3>3. output' \in Seq(Cells) /\ OrderedBelow(output', idx')
      BY <1>2, <3>1, <3>2, AppendKept
    <3> QED BY <1>2, <3>2, <3>3 DEF MergeOK
  <2> QED BY <2>1, <2>2
<1> QED BY <1>1, <1>3 DEF KInv, RecipeOK, RuleOK, ProgramOK, WindowsOK, WithinOK, Names, Forward

(* What the merge leaves behind are instructions.                          *)
LEMMA MergeDoneInv ==
  ASSUME KInv, MergeDone
  PROVE  KInv'
<1> DEFINE kept == [k \in DOMAIN output |-> output[k].op]
<1>1. pc = "merge" /\ Return(kept) /\ UNCHANGED <<stepVars, window, mergeVars>>
  BY DEF MergeDone, Merged
<1>2. output \in Seq(Cells)
  BY DEF KInv, MergeOK
<1>3. DOMAIN output = 1 .. Len(output) /\ Len(output) \in Nat
  BY <1>2, LenProperties
<1>4. \A k \in 1 .. Len(output) : output[k].op \in Opcodes
  <2>1. \A k \in 1 .. Len(output) : output[k] \in Cells
    BY <1>2, ElementOfSeq
  <2> QED BY <2>1 DEF Cells
<1>5. kept \in Seq(Opcodes)
  BY <1>3, <1>4
<1> QED BY <1>1, <1>5, ReturnInv

(* Every step keeps the invariant.                                         *)
LEMMA KStep == KInv /\ [Next]_vars => KInv'
<1> SUFFICES ASSUME KInv, [Next]_vars PROVE KInv'
  OBVIOUS
<1>1. CASE SkipStep \/ CheckStep \/ AddResource \/ ReportStep \/ Finish
  BY <1>1, EngineInv
<1>2. CASE RuleStep \/ ScopeStep
  BY <1>2, RuleBeginInv
<1>3. CASE BlobStep
  BY <1>3, BlobStepInv
<1>4. CASE StartWindow
  BY <1>4, StartWindowInv
<1>5. CASE LandBlobs
  BY <1>5, LandBlobsInv
<1>6. CASE Probe \/ NoLastReturn
  BY <1>6, ProbeInv
<1>7. CASE Rewrite
  BY <1>7, RewriteInv
<1>8. CASE BeforeLastReturn
  BY <1>8, BeforeLastReturnInv
<1>9. CASE MergeAction \/ MergeKeep \/ MergeLeftover
  BY <1>9, MergeInv
<1>10. CASE MergeDone
  BY <1>10, MergeDoneInv
<1>11. CASE UNCHANGED vars
  BY <1>11 DEF vars, stepVars, resultVars, windowVars, mergeVars, KInv, RecipeOK, RuleOK,
     ProgramOK, WindowsOK, WithinOK, MergeOK, Names, Forward, OrderedBelow, Rule, Step
<1> QED BY <1>1, <1>2, <1>3, <1>4, <1>5, <1>6, <1>7, <1>8, <1>9, <1>10, <1>11 DEF Next

(* ApplyRewriteActions: whatever actions a rule or a blob step collects,   *)
(* also overlapping ones, what is kept of the instructions stays in their  *)
(* order and none is kept twice.                                           *)
THEOREM KeptInOrderHolds == Spec => []KeptInOrder
<1>1. Init => KInv
  BY KInit
<1>2. KInv /\ [Next]_vars => KInv'
  BY KStep
<1>3. KInv => KeptInOrder
  BY DEF KInv, MergeOK, OrderedBelow, KeptInOrder
<1> QED BY <1>1, <1>2, <1>3, PTL DEF Spec

-----------------------------------------------------------------------------
(* What may change the shader                                              *)

(* Whose instructions are rewritten follows from the step: the shader's    *)
(* only in a rule of its own or when windows land.                         *)
Inside == pc = "window" \/ (pc \in {"rule", "merge"} /\ level = "interior")

LevelOK ==
  /\ Inside => Step.kind = "blob" /\ (actions # {} => Step.emit_blob # "none")
  /\ pc \in {"rule", "merge"} =>
       \/ level = "program" /\ Step.kind = "rule"
       \/ level = "program" /\ Step.kind = "blob" /\ Step.emit_blob # "none"
       \/ level = "interior"
       \/ level = "scope" /\ Step.kind = "scope"

(* A rule returns to where it was called from.                             *)
LEMMA ReturnLevel ==
  ASSUME LevelOK, pc \in {"rule", "merge"}, NEW instructions, Return(instructions),
         UNCHANGED <<recipe, step, level>>
  PROVE  /\ LevelOK'
         /\ Step.kind = "scope" \/ (Step.kind = "blob" /\ Step.emit_blob = "none")
              => UNCHANGED code
<1>1. CASE level \in {"program", "scope"}
  BY <1>1 DEF Return, LevelOK, Inside
<1>2. CASE level = "interior"
  <2>1. EndWindow(window, instructions) /\ UNCHANGED code
    BY <1>2 DEF Return
  <2> QED BY <1>2, <2>1 DEF EndWindow, LevelOK, Inside, Step
<1> QED BY <1>1, <1>2 DEF Return

(* Every step keeps the levels, and a step that may not change the shader  *)
(* does not.                                                               *)
LEMMA LevelStep ==
  ASSUME LevelOK, [Next]_vars
  PROVE  /\ LevelOK'
         /\ step \in Names
              /\ (Step.kind = "scope" \/ (Step.kind = "blob" /\ Step.emit_blob = "none"))
              => UNCHANGED code
<1> USE DEF stepVars, resultVars, windowVars, mergeVars
<1>1. CASE SkipStep \/ CheckStep \/ ReportStep \/ Finish
  BY <1>1 DEF SkipStep, CheckStep, ReportStep, Finish, Starts, LevelOK, Inside
<1>2. CASE AddResource
  BY <1>2 DEF AddResource, Starts, LevelOK, Inside
<1>3. CASE RuleStep \/ ScopeStep
  BY <1>3 DEF RuleStep, ScopeStep, Starts, LevelOK, Inside, Step
<1>4. CASE BlobStep
  BY <1>4 DEF BlobStep, Starts, LevelOK, Inside, Step
<1>5. CASE StartWindow
  <2>1. PICK w \in windows :
          \/ UNCHANGED actions /\ pc' = "rule" /\ level' = "interior"
          \/ EndWindow(w, SubSeq(code, w.first, w.last))
    BY <1>5 DEF StartWindow
  <2>2. pc = "window" /\ UNCHANGED <<recipe, step, code>>
    BY <1>5 DEF StartWindow
  <2> QED BY <2>1, <2>2 DEF EndWindow, LevelOK, Inside, Step
<1>6. CASE LandBlobs
  BY <1>6 DEF LandBlobs, StartMerge, LevelOK, Inside, Step
<1>7. CASE Probe \/ NoLastReturn
  BY <1>7, ReturnLevel DEF Probe, Match, NoLastReturn
<1>8. CASE Rewrite \/ BeforeLastReturn
  <2>1. /\ pc = "rule" /\ pc' \in {"merge", "threw", "error"}
        /\ UNCHANGED <<recipe, step, code, level, actions>>
    BY <1>8 DEF Rewrite, Match, BeforeLastReturn, StartMerge
  <2> QED BY <2>1 DEF LevelOK, Inside, Step
<1>9. CASE MergeAction \/ MergeKeep \/ MergeLeftover
  BY <1>9 DEF MergeAction, MergeKeep, MergeLeftover, LevelOK, Inside, Step
<1>10. CASE MergeDone
  BY <1>10, ReturnLevel DEF MergeDone, Merged
<1>11. CASE UNCHANGED vars
  BY <1>11 DEF vars, LevelOK, Inside, Step
<1> QED BY <1>1, <1>2, <1>3, <1>4, <1>5, <1>6, <1>7, <1>8, <1>9, <1>10, <1>11 DEF Next

(* ExecuteScopeStep, ExecuteBlobStep: a scope step, a rule inside a blob   *)
(* and windows that are only captured never change the shader.             *)
THEOREM ShaderUntouchedHolds == Spec => ShaderUntouched
<1>1. Init => LevelOK
  BY DEF Init, LevelOK, Inside
<1>2. LevelOK /\ [Next]_vars => LevelOK'
  BY LevelStep
<1>3. LevelOK /\ [Next]_vars =>
        [(/\ step \in Names
          /\ Step.kind = "scope" \/ (Step.kind = "blob" /\ Step.emit_blob = "none"))
         => UNCHANGED code]_vars
  BY LevelStep
<1> QED BY <1>1, <1>2, <1>3, PTL DEF Spec, ShaderUntouched

-----------------------------------------------------------------------------
(* Types                                                                   *)

(* A program has finitely many matches.                                    *)
LEMMA FiniteSequenceMatches ==
  ASSUME NEW prog \in Seq(Opcodes), NEW match \in Seq(Opcodes)
  PROVE  IsFiniteSet(SequenceMatches(prog, match))
<1> DEFINE starts == 1 .. Len(prog) - Len(match) + 1
           start == [w \in SequenceMatches(prog, match) |-> w.first]
<1>1. Len(prog) \in Nat /\ Len(match) \in Nat
  BY LenProperties
<1>2. IsFiniteSet(starts)
  BY <1>1, FS_Interval
<1>3. \A w \in SequenceMatches(prog, match) :
        \E i \in starts : w = [first |-> i, last |-> i + Len(match) - 1]
  BY DEF SequenceMatches
<1>4. start \in Injection(SequenceMatches(prog, match), starts)
  <2> HIDE DEF starts
  <2>1. \A w \in SequenceMatches(prog, match) :
          w.first \in starts /\ w = [first |-> w.first, last |-> w.first + Len(match) - 1]
    BY <1>3
  <2>2. start \in [SequenceMatches(prog, match) -> starts]
    BY <2>1
  <2>3. \A v, w \in SequenceMatches(prog, match) : v.first = w.first => v = w
    BY <2>1
  <2> QED BY <2>2, <2>3 DEF Injection, IsInjective
<1> QED BY <1>2, <1>4, FS_Injection

(* The nearest end makes a window's start its name.                        *)
LEMMA FiniteWindowMatches ==
  ASSUME NEW prog \in Seq(Opcodes), NEW start, NEW end
  PROVE  IsFiniteSet(WindowMatches(prog, start, end))
<1> DEFINE matches == WindowMatches(prog, start, end)
           first == [w \in matches |-> w.first]
<1>1. DOMAIN prog = 1 .. Len(prog) /\ Len(prog) \in Nat
  BY LenProperties
<1>2. IsFiniteSet(DOMAIN prog)
  BY <1>1, FS_Interval
<1>3. \A w \in matches : /\ w \in [first : 1 .. Len(prog), last : 1 .. Len(prog)]
                         /\ w.first <= w.last /\ prog[w.last] = end
                         /\ \A k \in w.first .. w.last - 1 : prog[k] # end
  BY <1>1 DEF WindowMatches
<1>4. ASSUME NEW v \in matches, NEW w \in matches, v.first = w.first
      PROVE  v = w
  <2>1. ~ v.last < w.last /\ ~ w.last < v.last
    <3>1. \A a, b \in matches : a.first = b.first => ~ a.last < b.last
      BY <1>1, <1>3
    <3> QED BY <1>4, <3>1
  <2>2. v.last \in Int /\ w.last \in Int
    BY <1>1, <1>3
  <2> QED BY <1>3, <1>4, <2>1, <2>2
<1>5. first \in Injection(matches, DOMAIN prog)
  <2>1. first \in [matches -> DOMAIN prog]
    BY <1>1, <1>3
  <2> QED BY <1>4, <2>1 DEF Injection, IsInjective
<1> QED BY <1>2, <1>5, FS_Injection

CountsOK == matched \in Nat /\ applied \in Nat

FlagsOK ==
  /\ modified \in BOOLEAN /\ mutated \in BOOLEAN
  /\ pc \in {"step", "rule", "window", "merge", "report", "done", "error", "threw"}
  /\ level \in {"program", "interior", "scope"}

ResultsOK ==
  /\ state \in [Names -> {"unset", "true", "false"}]
  /\ exports \in [Names -> {"none", "value", "moved"}]
  /\ published \in [Names -> {"none", "value", "moved"}]

ReportsOK == reports \in Seq([step : Nat, success : BOOLEAN])

PlaceOK == recipe \in Recipes /\ input \in Programs /\ step # 0

BlobNamesOK ==
  DOMAIN blobs \subseteq Names /\ blobs = [n \in DOMAIN blobs |-> blobs[n]]

(* The counters stay natural numbers.                                      *)
LEMMA CountsStep ==
  ASSUME KInv, CountsOK, [Next]_vars
  PROVE  CountsOK'
<1> USE DEF stepVars, resultVars, windowVars, mergeVars, CountsOK
<1>1. CASE SkipStep \/ CheckStep \/ AddResource \/ RuleStep \/ ScopeStep \/ LandBlobs
  BY <1>1 DEF SkipStep, CheckStep, AddResource, RuleStep, ScopeStep, LandBlobs
<1>2. CASE Finish \/ MergeAction \/ MergeKeep \/ MergeLeftover \/ UNCHANGED vars
  BY <1>2 DEF Finish, MergeAction, MergeKeep, MergeLeftover, vars
<1>3. CASE BlobStep
  <2>1. IsFiniteSet(WindowMatches(code, Step.start, Step.end))
    BY FiniteWindowMatches DEF KInv, ProgramOK
  <2> QED BY <1>3, <2>1, FS_CardinalityType DEF BlobStep
<1>4. CASE ReportStep \/ StartWindow \/ BeforeLastReturn
  <2>1. CASE ReportStep
    BY <2>1 DEF ReportStep
  <2>2. CASE StartWindow
    BY <2>2 DEF StartWindow, EndWindow
  <2>3. CASE BeforeLastReturn
    BY <2>3 DEF BeforeLastReturn
  <2> QED BY <1>4, <2>1, <2>2, <2>3
<1>5. CASE NoLastReturn \/ MergeDone
  <2>1. UNCHANGED matched
    BY <1>5 DEF NoLastReturn, MergeDone
  <2>2. PICK instructions : Return(instructions)
    BY <1>5 DEF NoLastReturn, MergeDone
  <2>3. applied' \in {applied, applied + 1}
    BY <2>2 DEF Return, EndWindow
  <2> QED BY <2>1, <2>3
<1>6. CASE Probe \/ Rewrite
  <2>1. pc = "rule"
    BY <1>6 DEF Probe, Rewrite, Match
  <2>2. step \in Names /\ Rule.match \in Seq(Opcodes)
    BY <2>1, StepValid DEF KInv, RecipeOK
  <2>3. IsFiniteSet(Matches)
    BY <2>2, FiniteSequenceMatches DEF Matches, KInv, ProgramOK
  <2>4. Cardinality(Matches) \in Nat
    BY <2>3, FS_CardinalityType
  <2>5. Cardinality(Selected(Matches, Rule.match_mode)) \in Nat
    BY <2>3, SelectedMatches, FS_Subset, FS_CardinalityType
  <2> QED BY <1>6, <2>4, <2>5 DEF Probe, Rewrite, Match, Return, EndWindow
<1> QED BY <1>1, <1>2, <1>3, <1>4, <1>5, <1>6 DEF Next

(* The flags and places keep their types.                                  *)
LEMMA FlagsStep ==
  ASSUME FlagsOK, [Next]_vars
  PROVE  FlagsOK'
<1> USE DEF stepVars, resultVars, windowVars, mergeVars, FlagsOK
<1>1. modified' \in BOOLEAN /\ mutated' \in BOOLEAN
  <2>1. UNCHANGED mutated \/ mutated' = (mutated \/ applied > 0)
    BY DEF Next, vars, SkipStep, CheckStep, AddResource, RuleStep, ScopeStep, BlobStep,
           ReportStep, Finish, StartWindow, LandBlobs, Probe, Rewrite, NoLastReturn,
           BeforeLastReturn, MergeAction, MergeKeep, MergeLeftover, MergeDone
  <2>2. UNCHANGED modified \/ modified' = TRUE \/ modified' = (modified /\ mutated)
    BY DEF Next, vars, SkipStep, CheckStep, AddResource, RuleStep, ScopeStep, BlobStep,
           ReportStep, Finish, StartWindow, LandBlobs, Probe, Rewrite, NoLastReturn,
           BeforeLastReturn, MergeAction, MergeKeep, MergeLeftover, MergeDone
  <2> QED BY <2>1, <2>2, Zenon
<1>2. UNCHANGED pc \/ pc' \in {"step", "rule", "window", "merge", "report", "done", "error", "threw"}
  BY DEF Next, vars, SkipStep, CheckStep, AddResource, RuleStep, ScopeStep, BlobStep,
         ReportStep, Finish, StartWindow, LandBlobs, Probe, Rewrite, NoLastReturn,
         BeforeLastReturn, MergeAction, MergeKeep, MergeLeftover, MergeDone, Return,
         EndWindow, StartMerge
<1>3. UNCHANGED level \/ level' \in {"program", "interior", "scope"}
  BY DEF Next, vars, SkipStep, CheckStep, AddResource, RuleStep, ScopeStep, BlobStep,
         ReportStep, Finish, StartWindow, LandBlobs, Probe, Rewrite, NoLastReturn,
         BeforeLastReturn, MergeAction, MergeKeep, MergeLeftover, MergeDone
<1> QED BY <1>1, <1>2, <1>3

(* So do the states and the exports.                                       *)
LEMMA ResultsStep ==
  ASSUME ResultsOK, [Next]_vars
  PROVE  ResultsOK'
<1> USE DEF stepVars, resultVars, windowVars, mergeVars
<1>1. UNCHANGED recipe /\ Names' = Names
  BY DEF Next, vars, SkipStep, CheckStep, AddResource, RuleStep, ScopeStep, BlobStep,
         ReportStep, Finish, StartWindow, LandBlobs, Probe, Rewrite, NoLastReturn,
         BeforeLastReturn, MergeAction, MergeKeep, MergeLeftover, MergeDone, Match, Names
<1>2. UNCHANGED state \/ \E value \in BOOLEAN : SetState(value)
  BY DEF Next, vars, SkipStep, CheckStep, AddResource, RuleStep, ScopeStep, BlobStep,
         ReportStep, Finish, StartWindow, LandBlobs, Probe, Rewrite, NoLastReturn,
         BeforeLastReturn, MergeAction, MergeKeep, MergeLeftover, MergeDone, Match,
         SetState
<1>3. state' \in [Names' -> {"unset", "true", "false"}]
  BY <1>1, <1>2 DEF ResultsOK, SetState
<1>4. CASE ReportStep
  BY <1>1, <1>3, <1>4 DEF ReportStep, ResultsOK
<1>5. CASE ~ ReportStep
  <2>1. UNCHANGED published
    BY <1>5 DEF Next, vars, SkipStep, CheckStep, AddResource, RuleStep, ScopeStep,
         BlobStep, Finish, StartWindow, LandBlobs, Probe, Rewrite, NoLastReturn,
         BeforeLastReturn, MergeAction, MergeKeep, MergeLeftover, MergeDone
  <2>2. UNCHANGED exports \/ exports' = [exports EXCEPT ![step] = "value"]
    BY <1>5 DEF Next, vars, SkipStep, CheckStep, AddResource, RuleStep, ScopeStep,
         BlobStep, Finish, StartWindow, LandBlobs, Probe, Rewrite, NoLastReturn,
         BeforeLastReturn, MergeAction, MergeKeep, MergeLeftover, MergeDone, Match
  <2> QED BY <1>1, <1>3, <2>1, <2>2 DEF ResultsOK
<1> QED BY <1>4, <1>5

(* So do the reports.                                                      *)
LEMMA ReportsStep ==
  ASSUME KInv, CountsOK, ReportsOK, [Next]_vars
  PROVE  ReportsOK'
<1> USE DEF stepVars, resultVars, windowVars, mergeVars
<1>1. CASE ReportStep
  <2> DEFINE success == CASE Step.kind = "check" -> Step.ok
                          [] Step.kind = "add" -> TRUE
                          [] OTHER -> matched > 0
  <2>1. reports' = Append(reports, [step |-> step, success |-> success])
    BY <1>1 DEF ReportStep
  <2>2. step \in Nat /\ Step.ok \in BOOLEAN
    BY <1>1, StepValid DEF ReportStep, KInv, RecipeOK, Steps
  <2>3. success \in BOOLEAN
    <3>1. CASE Step.kind = "check"
      BY <2>2, <3>1
    <3>2. CASE Step.kind = "add"
      BY <3>2
    <3>3. CASE Step.kind \notin {"check", "add"}
      <4>1. matched \in Nat
        BY DEF CountsOK
      <4>2. CASE matched > 0
        BY <3>3, <4>1, <4>2
      <4>3. CASE ~ (matched > 0)
        <5>1. success = (matched > 0)
          BY <3>3
        <5>2. (matched > 0) = FALSE
          BY <4>3, SMT
        <5> HIDE DEF success
        <5> QED BY <5>1, <5>2
      <4> QED BY <4>2, <4>3
    <3> QED BY <3>1, <3>2, <3>3
  <2> HIDE DEF success
  <2>4. [step |-> step, success |-> success] \in [step : Nat, success : BOOLEAN]
    BY <2>2, <2>3
  <2> QED BY <2>1, <2>4, AppendProperties DEF ReportsOK
<1>2. CASE ~ ReportStep
  BY <1>2 DEF Next, vars, SkipStep, CheckStep, AddResource, RuleStep, ScopeStep, BlobStep,
     Finish, StartWindow, LandBlobs, Probe, Rewrite, NoLastReturn, BeforeLastReturn,
     MergeAction, MergeKeep, MergeLeftover, MergeDone, ReportsOK
<1> QED BY <1>1, <1>2

(* The recipe and the input stay, and the step is never 0.                 *)
LEMMA PlaceStep ==
  ASSUME KInv, PlaceOK, [Next]_vars
  PROVE  PlaceOK'
<1> USE DEF stepVars, resultVars, windowVars, mergeVars
<1>1. UNCHANGED <<recipe, input>>
  BY DEF Next, vars, SkipStep, CheckStep, AddResource, RuleStep, ScopeStep, BlobStep,
         ReportStep, Finish, StartWindow, LandBlobs, Probe, Rewrite, NoLastReturn,
         BeforeLastReturn, MergeAction, MergeKeep, MergeLeftover, MergeDone
<1>2. step' \in {step, step + 1, Len(recipe) + 1}
  BY DEF Next, vars, SkipStep, CheckStep, AddResource, RuleStep, ScopeStep, BlobStep,
         ReportStep, Finish, StartWindow, LandBlobs, Probe, Rewrite, NoLastReturn,
         BeforeLastReturn, MergeAction, MergeKeep, MergeLeftover, MergeDone
<1>3. step \in Nat /\ Len(recipe) \in Nat
  BY LenProperties DEF KInv, RecipeOK
<1> QED BY <1>1, <1>2, <1>3 DEF PlaceOK

(* Only steps of the recipe have blobs.                                    *)
LEMMA BlobNamesStep ==
  ASSUME KInv, BlobNamesOK, [Next]_vars
  PROVE  BlobNamesOK'
<1> USE DEF stepVars, resultVars, windowVars, mergeVars
<1>1. UNCHANGED recipe /\ Names' = Names
  BY DEF Next, vars, SkipStep, CheckStep, AddResource, RuleStep, ScopeStep, BlobStep,
         ReportStep, Finish, StartWindow, LandBlobs, Probe, Rewrite, NoLastReturn,
         BeforeLastReturn, MergeAction, MergeKeep, MergeLeftover, MergeDone, Match, Names
<1>2. CASE StartWindow
  <2>1. step \in Names
    BY <1>2 DEF StartWindow, KInv, RecipeOK
  <2> QED BY <1>1, <1>2, <2>1 DEF StartWindow, EndWindow, BlobNamesOK
<1>3. CASE Probe \/ NoLastReturn \/ MergeDone
  <2>1. step \in Names
    BY <1>3 DEF Probe, Match, NoLastReturn, MergeDone, Merged, KInv, RecipeOK
  <2>2. PICK instructions : Return(instructions)
    BY <1>3 DEF Probe, NoLastReturn, MergeDone
  <2> QED BY <1>1, <2>1, <2>2 DEF Return, EndWindow, BlobNamesOK
<1>4. CASE ~ (StartWindow \/ Probe \/ NoLastReturn \/ MergeDone)
  <2>1. UNCHANGED blobs
    BY <1>4 DEF Next, vars, SkipStep, CheckStep, AddResource, RuleStep, ScopeStep, BlobStep,
       ReportStep, Finish, LandBlobs, Rewrite, BeforeLastReturn, MergeAction, MergeKeep,
       MergeLeftover
  <2> QED BY <1>1, <2>1 DEF BlobNamesOK
<1> QED BY <1>2, <1>3, <1>4

TInv == CountsOK /\ FlagsOK /\ ResultsOK /\ ReportsOK /\ PlaceOK /\ BlobNamesOK

(* ExecuteSteps, ExecuteBlobStep, ApplyRewriteActions: their locals and    *)
(* the context stay well-formed, in particular every window, action and    *)
(* blob is a range and a program again.                                    *)
THEOREM RecipeTypeCorrect == Spec => []TypeOK
<1>1. Init => KInv /\ TInv
  <2> SUFFICES ASSUME Init PROVE TInv
    BY KInit
  <2>1. CountsOK /\ PlaceOK
    BY DEF Init, CountsOK, PlaceOK
  <2>5. FlagsOK
    <3>1. modified = FALSE /\ mutated = FALSE /\ pc = "step" /\ level = "program"
      BY DEF Init
    <3> QED BY <3>1 DEF FlagsOK
  <2>3. ResultsOK
    BY DEF Init, ResultsOK
  <2>4. BlobNamesOK
    <3>1. blobs = [n \in {} |-> <<>>]
      BY DEF Init
    <3> QED BY <3>1 DEF BlobNamesOK
  <2>2. ReportsOK
    BY EmptySeq DEF Init, ReportsOK
  <2> QED BY <2>1, <2>2, <2>3, <2>4, <2>5 DEF TInv
<1>2. KInv /\ TInv /\ [Next]_vars => (KInv /\ TInv)'
  BY KStep, CountsStep, FlagsStep, ResultsStep, ReportsStep, PlaceStep, BlobNamesStep
     DEF TInv
<1>3. KInv /\ TInv => TypeOK
  <2> SUFFICES ASSUME KInv, TInv PROVE TypeOK
    OBVIOUS
  <2>1. blobs \in [DOMAIN blobs -> Seq(Opcodes)]
    BY DEF KInv, ProgramOK, TInv, BlobNamesOK
  <2>2. windows \subseteq Windows /\ window \in Windows
    BY DEF KInv, WindowsOK, ForwardWindows
  <2>3. output \in Seq([op : Opcodes, at : Nat])
    BY DEF KInv, MergeOK, Cells
  <2> QED BY <2>1, <2>2, <2>3
          DEF TypeOK, KInv, TInv, RecipeOK, ProgramOK, WindowsOK, MergeOK, Forward,
              CountsOK, FlagsOK, ResultsOK, ReportsOK, PlaceOK, BlobNamesOK
<1> QED BY <1>1, <1>2, <1>3, PTL DEF Spec

-----------------------------------------------------------------------------
(* What counts as modified                                                 *)

(* A set of naturals that is not empty has a least one.                    *)
LEMMA LeastOf ==
  ASSUME NEW S \in SUBSET Nat, S # {}
  PROVE  \E x \in S : \A y \in S : x <= y
<1> DEFINE R == {ss \in Nat \X Nat : ss[1] < ss[2]}
<1>1. IsWellFoundedOn(R, Nat)
  BY NatLessThanWellFounded DEF OpToRel
<1> HIDE DEF R
<1>2. PICK x \in S : \A y \in S : <<y, x>> \notin R
  BY <1>1, WFMin
<1>3. \A y \in S : ~ y < x
  BY <1>2 DEF R
<1> QED BY <1>3

(* Of matches there are, one is selected.                                  *)
LEMMA SomeSelected ==
  ASSUME NEW bound \in Nat, NEW matches, NEW mode, matches # {},
         \A w \in matches : w.first \in 1 .. bound
  PROVE  Selected(matches, mode) # {}
<1>1. CASE mode = "first"
  <2> DEFINE S == {w.first : w \in matches}
  <2>1. PICK x \in S : \A y \in S : x <= y
    <3>1. S \in SUBSET Nat /\ S # {}
      OBVIOUS
    <3> HIDE DEF S
    <3> QED BY <3>1, LeastOf
  <2>2. PICK w \in matches : x = w.first
    BY <2>1
  <2>3. \A v \in matches : w.first <= v.first
    BY <2>1, <2>2
  <2>4. w \in Selected(matches, mode)
    BY <1>1, <2>3 DEF Selected
  <2> QED BY <2>4
<1>2. CASE mode = "last"
  <2> DEFINE S == {bound - w.first : w \in matches}
  <2>1. PICK x \in S : \A y \in S : x <= y
    <3>1. S \in SUBSET Nat /\ S # {}
      OBVIOUS
    <3> HIDE DEF S
    <3> QED BY <3>1, LeastOf
  <2>2. PICK w \in matches : x = bound - w.first
    BY <2>1
  <2>3. \A v \in matches : bound - w.first <= bound - v.first
    BY <2>1, <2>2
  <2>4. \A v \in matches : v.first <= w.first
    BY <2>3
  <2>5. w \in Selected(matches, mode)
    BY <1>2, <2>4 DEF Selected
  <2> QED BY <2>5
<1>3. CASE mode \notin {"first", "last"}
  BY <1>3 DEF Selected
<1> QED BY <1>1, <1>2, <1>3

(* A rule that matched has something to apply.                             *)
LEMMA SomeApplied ==
  ASSUME target \in Seq(Opcodes), Rule.match \in Seq(Opcodes), Matches # {}, NEW mode
  PROVE  Cardinality(Selected(Matches, mode)) \in Nat \ {0}
<1>1. IsFiniteSet(Matches)
  BY FiniteSequenceMatches DEF Matches
<1>2. IsFiniteSet(Selected(Matches, mode))
  BY <1>1, SelectedMatches, FS_Subset
<1>3. Selected(Matches, mode) # {}
  <2>1. Len(target) \in Nat /\ Len(Rule.match) \in Nat
    BY LenProperties
  <2>2. \A w \in Matches : w.first \in 1 .. Len(target) + 1
    BY <2>1 DEF Matches, SequenceMatches
  <2>3. Len(target) + 1 \in Nat
    BY <2>1
  <2> QED BY <2>2, <2>3, SomeSelected
<1> QED BY <1>2, <1>3, FS_CardinalityType, FS_EmptySet

-----------------------------------------------------------------------------
(* What may change the shader counts as applied                            *)

(* One more declaration in front.                                          *)
LEMMA DeclaresMore ==
  ASSUME NEW program \in Seq(Opcodes), NEW original \in Seq(Opcodes), Declares(program, original)
  PROVE  Declares(<<Decl>> \o program, original)
<1>1. PICK n \in 0 .. Len(program) : program = [i \in 1 .. n |-> Decl] \o original
  BY DEF Declares
<1> DEFINE front == [i \in 1 .. n |-> Decl]
           more == [i \in 1 .. n + 1 |-> Decl]
<1>2. n \in Nat /\ Decl \in Opcodes
  BY <1>1, RecipeConstants, LenProperties
<1>3. front \in Seq(Opcodes) /\ more \in Seq(Opcodes) /\ Len(front) = n /\ Len(more) = n + 1
  BY <1>2
<1>4. /\ <<Decl>> \o program \in Seq(Opcodes)
      /\ Len(<<Decl>> \o program) = 1 + Len(program)
      /\ \A i \in 1 .. 1 + Len(program) :
           (<<Decl>> \o program)[i] = IF i <= 1 THEN Decl ELSE program[i - 1]
  <2>1. <<Decl>> \in Seq(Opcodes) /\ Len(<<Decl>>) = 1 /\ <<Decl>>[1] = Decl
    BY <1>2
  <2>2. \A i : i \in 1 .. 1 /\ i <= 1 => <<Decl>>[i] = Decl
    BY <2>1
  <2> QED BY <2>1, ConcatProperties
<1>5. /\ Len(program) = n + Len(original)
      /\ \A i \in 1 .. n + Len(original) :
           program[i] = IF i <= n THEN front[i] ELSE original[i - n]
  BY <1>1, <1>3, ConcatProperties
<1>6. /\ more \o original \in Seq(Opcodes)
      /\ Len(more \o original) = n + 1 + Len(original)
      /\ \A i \in 1 .. n + 1 + Len(original) :
           (more \o original)[i] = IF i <= n + 1 THEN more[i] ELSE original[i - (n + 1)]
  BY <1>3, ConcatProperties
<1>7. Len(original) \in Nat /\ Len(program) \in Nat
  BY LenProperties
<1>8. <<Decl>> \o program = more \o original
  <2> DEFINE x == <<Decl>> \o program
             y == more \o original
  <2>1. Len(x) = n + 1 + Len(original) /\ Len(y) = n + 1 + Len(original)
    BY <1>2, <1>4, <1>5, <1>6, <1>7
  <2>2. \A i \in 1 .. n : front[i] = Decl
    OBVIOUS
  <2>3. \A i \in 1 .. n + 1 : more[i] = Decl
    OBVIOUS
  <2> HIDE DEF front, more
  <2>4. \A i \in 1 .. n + 1 + Len(original) : x[i] = y[i]
    <3>1. SUFFICES ASSUME NEW i \in 1 .. n + 1 + Len(original) PROVE x[i] = y[i]
      OBVIOUS
    <3>0. i \in Nat /\ n + 1 \in Nat
      BY <1>2, <1>7
    <3>2. CASE i = 1
      BY <1>2, <1>4, <1>5, <1>6, <1>7, <2>3, <3>2
    <3>3. CASE i > 1
      <4>1. i - 1 \in 1 .. n + Len(original) /\ i - (n + 1) = (i - 1) - n
        BY <1>2, <1>7, <3>3
      <4>2. x[i] = program[i - 1]
        BY <1>4, <1>5, <1>7, <4>1, <3>3
      <4>3. CASE i <= n + 1
        BY <1>2, <1>5, <1>6, <2>2, <2>3, <3>3, <4>1, <4>2, <4>3
      <4>4. CASE i > n + 1
        BY <1>2, <1>5, <1>6, <3>3, <4>1, <4>2, <4>4
      <4> HIDE DEF x, y
      <4> QED BY <3>0, <4>3, <4>4
    <3> HIDE DEF x, y
    <3> QED BY <3>0, <3>2, <3>3
  <2> QED BY <1>4, <1>6, <2>1, <2>4, SeqEqual
<1>9. n + 1 \in 0 .. Len(<<Decl>> \o program)
  BY <1>1, <1>2, <1>4, <1>7
<1> QED BY <1>8, <1>9 DEF Declares

(* The shader is the input behind declarations unless it counts as         *)
(* modified by what was applied.                                           *)
LostInv ==
  /\ pc \in {"step", "done"} => applied = 0
  /\ Inside /\ actions # {} => applied # 0
  /\ pc = "merge" /\ level = "program" => applied # 0
  /\ pc = "rule" /\ level = "program" => target = code
  /\ Declares(code, input) \/ (modified /\ (mutated \/ applied # 0))

LInv == KInv /\ CountsOK /\ input \in Programs

(* Nothing is in front of the input at the start.                          *)
LEMMA LostInit == Init => LostInv
<1> SUFFICES ASSUME Init PROVE LostInv
  OBVIOUS
<1>1. input \in Seq(Opcodes) /\ code = input
  BY RecipeConstants DEF Init
<1>2. [i \in 1 .. 0 |-> Decl] \o input = input
  <2>1. [i \in 1 .. 0 |-> Decl] = <<>>
    OBVIOUS
  <2> QED BY <1>1, <2>1, ConcatEmptySeq
<1>3. Declares(code, input)
  <2>1. 0 \in 0 .. Len(code)
    BY <1>1, LenProperties
  <2> QED BY <1>1, <1>2, <2>1 DEF Declares
<1> QED BY <1>3 DEF Init, LostInv, Inside

(* What a rule returns to the shader is the shader, or counts as modified. *)
LEMMA ReturnLost ==
  ASSUME LInv, LostInv, NEW instructions, Return(instructions), pc \in {"rule", "merge"},
         UNCHANGED <<input, level, mutated>>, modified => modified',
         level = "program" => instructions = code \/ (modified' /\ applied # 0)
  PROVE  LostInv'
<1>1. CASE level = "program"
  BY <1>1 DEF Return, LostInv, Inside
<1>2. CASE level = "scope"
  BY <1>2 DEF Return, LostInv, Inside
<1>3. CASE level = "interior"
  <2>1. pc' = "window" /\ UNCHANGED code /\ applied' = applied + 1
    BY <1>3 DEF Return, EndWindow
  <2>2. applied' # 0
    BY <2>1 DEF LInv, CountsOK
  <2> QED BY <2>1, <2>2 DEF LostInv, Inside
<1> QED BY <1>1, <1>2, <1>3 DEF Return

(* Every step keeps the shader the input behind declarations, or counts.   *)
LEMMA LostStep ==
  ASSUME LInv, LostInv, [Next]_vars
  PROVE  LostInv'
<1> USE DEF stepVars, resultVars, windowVars, mergeVars
<1>1. CASE SkipStep \/ CheckStep
  BY <1>1 DEF SkipStep, CheckStep, Starts, LostInv, Inside
<1>2. CASE AddResource
  <2>1. Declares(code, input) => Declares(code', input)
    BY <1>2, DeclaresMore, RecipeConstants DEF AddResource, LInv, KInv, ProgramOK
  <2> QED BY <1>2, <2>1 DEF AddResource, Starts, LostInv, Inside
<1>3. CASE RuleStep \/ ScopeStep \/ BlobStep
  BY <1>3 DEF RuleStep, ScopeStep, BlobStep, Starts, LostInv, Inside
<1>4. CASE ReportStep
  <2>1. mutated' = (mutated \/ applied # 0)
    BY <1>4 DEF ReportStep, LInv, CountsOK
  <2> QED BY <1>4, <2>1 DEF ReportStep, LostInv, Inside
<1>5. CASE Finish
  BY <1>5 DEF Finish, LostInv, Inside
<1>6. CASE StartWindow
  <2>1. PICK w \in windows :
          \/ UNCHANGED <<actions, applied>> /\ pc' = "rule" /\ level' = "interior"
          \/ EndWindow(w, SubSeq(code, w.first, w.last))
    BY <1>6 DEF StartWindow
  <2>2. pc = "window" /\ UNCHANGED <<code, input, modified, mutated>>
    BY <1>6 DEF StartWindow
  <2>3. CASE EndWindow(w, SubSeq(code, w.first, w.last))
    <3>1. pc' = "window" /\ applied' = applied + 1
      BY <2>3 DEF EndWindow
    <3>2. applied' # 0
      BY <3>1 DEF LInv, CountsOK
    <3> QED BY <2>2, <3>1, <3>2 DEF LostInv, Inside
  <2> QED BY <2>1, <2>2, <2>3 DEF LostInv, Inside
<1>7. CASE LandBlobs
  <2>1. /\ pc = "window" /\ UNCHANGED <<code, input, modified, mutated, applied, actions>>
        /\ \/ pc' = "report" /\ actions = {}
           \/ pc' \in {"threw", "merge"} /\ actions # {}
    BY <1>7 DEF LandBlobs, StartMerge
  <2> QED BY <2>1 DEF LostInv, Inside
<1>8. CASE Probe \/ NoLastReturn
  <2>1. /\ pc = "rule" /\ Return(target) /\ UNCHANGED <<input, level, mutated, modified>>
    BY <1>8 DEF Probe, Match, NoLastReturn
  <2>2. level = "program" => target = code
    BY <2>1 DEF LostInv
  <2> QED BY <2>1, <2>2, ReturnLost
<1>9. CASE Rewrite \/ BeforeLastReturn
  <2>1. /\ pc = "rule" /\ UNCHANGED <<code, input, level, mutated, modified, actions>>
        /\ \/ pc' = "error" /\ UNCHANGED applied
           \/ pc' \in {"merge", "threw", "error"} /\ applied' # 0
    <3>1. CASE Rewrite
      <4>1. pc = "rule" /\ Matches # {}
        BY <3>1 DEF Rewrite, Match
      <4>2. step \in Names /\ Rule.match \in Seq(Opcodes) /\ target \in Seq(Opcodes)
        BY <4>1, StepValid DEF LInv, KInv, RecipeOK, ProgramOK
      <4>3. Cardinality(Selected(Matches, Rule.match_mode)) \in Nat \ {0}
        BY <4>1, <4>2, SomeApplied
      <4>4. \/ pc' = "error" /\ UNCHANGED applied
            \/ /\ pc' \in {"merge", "threw"}
               /\ applied' = applied + Cardinality(Selected(Matches, Rule.match_mode))
        BY <3>1 DEF Rewrite, StartMerge
      <4>5. applied \in Nat
        BY DEF LInv, CountsOK
      <4>6. UNCHANGED <<code, input, level, mutated, modified, actions>>
        BY <3>1 DEF Rewrite, Match
      <4> QED BY <4>1, <4>3, <4>4, <4>5, <4>6
    <3>2. CASE BeforeLastReturn
      <4>1. pc = "rule" /\ UNCHANGED <<code, input, level, mutated, modified, actions>>
        BY <3>2 DEF BeforeLastReturn
      <4>2. pc' \in {"merge", "threw", "error"} /\ applied' = applied + 1
        BY <3>2 DEF BeforeLastReturn, StartMerge
      <4>3. applied' # 0
        BY <4>2 DEF LInv, CountsOK
      <4> QED BY <4>1, <4>2, <4>3
    <3> QED BY <1>9, <3>1, <3>2
  <2> QED BY <2>1 DEF LostInv, Inside
<1>10. CASE MergeAction \/ MergeKeep \/ MergeLeftover
  BY <1>10 DEF MergeAction, MergeKeep, MergeLeftover, LostInv, Inside
<1>11. CASE MergeDone
  <2>1. /\ pc = "merge" /\ modified' = TRUE /\ UNCHANGED <<input, level, mutated>>
        /\ Return([k \in DOMAIN output |-> output[k].op])
    BY <1>11 DEF MergeDone, Merged
  <2>2. level = "program" => applied # 0
    BY <2>1 DEF LostInv
  <2> QED BY <2>1, <2>2, ReturnLost
<1>12. CASE UNCHANGED vars
  BY <1>12 DEF vars, LostInv, Inside
<1> QED BY <1>1, <1>2, <1>3, <1>4, <1>5, <1>6, <1>7, <1>8, <1>9, <1>10, <1>11, <1>12 DEF Next

(* RecipeReport.hpp:22, RecipeEngine.hpp:367-370: a recipe that reports    *)
(* its input unchanged has put at most declarations in front of it.        *)
THEOREM NoRewriteLostHolds == Spec => []NoRewriteLost
<1>1. LostInv => NoRewriteLost
  BY DEF LostInv, NoRewriteLost
<1>2. Init => LInv /\ LostInv
  BY KInit, LostInit DEF LInv, Init, CountsOK
<1>3. LInv /\ LostInv /\ [Next]_vars => LInv' /\ LostInv'
  <2>1. SUFFICES ASSUME LInv, LostInv, [Next]_vars PROVE LInv' /\ LostInv'
    OBVIOUS
  <2>2. UNCHANGED input
    BY <2>1 DEF Next, vars, stepVars, SkipStep, CheckStep, AddResource, RuleStep, ScopeStep,
       BlobStep, ReportStep, Finish, StartWindow, LandBlobs, Probe, Rewrite, NoLastReturn,
       BeforeLastReturn, MergeAction, MergeKeep, MergeLeftover, MergeDone
  <2> QED BY <2>1, <2>2, KStep, CountsStep, LostStep DEF LInv
<1> QED BY <1>1, <1>2, <1>3, PTL DEF Spec

-----------------------------------------------------------------------------
(* The reference, instruction by instruction                               *)

(* Actions of one call: ranges of the instructions, or places in and right *)
(* behind them, and all of one type.                                       *)
Placed(instructions, acts) ==
  /\ Forward(acts)
  /\ \A x \in acts : /\ x.first <= Len(instructions) + 1
                     /\ x.type = "replace" => x.last <= Len(instructions)
  /\ \A x, y \in acts : x.type = y.type

Apart(acts) == Disjoint(acts) /\ \A x, y \in acts : x # y => x.first # y.first

IsUpto(instructions, acts, n, f) ==
  f = [i \in 0 .. n |-> IF i = 0 THEN <<>> ELSE f[i - 1] \o Place(instructions, acts, i)]

Upto(instructions, acts) ==
  CHOOSE f : IsUpto(instructions, acts, Len(instructions) + 1, f)

(* Induction over a set of naturals.                                       *)
LEMMA SetInduction ==
  ASSUME NEW T \in SUBSET Nat, 0 \in T, \A n \in Nat : n \in T => n + 1 \in T
  PROVE  T = Nat
<1> DEFINE S == Nat \ T
<1>1. SUFFICES ASSUME S # {} PROVE FALSE
  OBVIOUS
<1>2. PICK x \in S : \A y \in S : x <= y
  <2>1. S \in SUBSET Nat
    OBVIOUS
  <2> HIDE DEF S
  <2> QED BY <1>1, <2>1, LeastOf
<1>3. x \in Nat /\ x # 0 /\ x \notin T /\ x - 1 \in Nat
  BY <1>2
<1>4. x - 1 \in T
  BY <1>2, <1>3
<1> QED BY <1>3, <1>4

(* The function that the reference is defined by exists.                   *)
LEMMA UptoExists ==
  ASSUME NEW instructions, NEW acts, NEW n \in Nat
  PROVE  \E f : IsUpto(instructions, acts, n, f)
<1> DEFINE T == {m \in Nat : \E f : IsUpto(instructions, acts, m, f)}
<1>1. 0 \in T
  <2>1. PICK f : f = [i \in 0 .. 0 |-> <<>>]
    OBVIOUS
  <2>2. f = [i \in 0 .. 0 |-> IF i = 0 THEN <<>> ELSE f[i - 1] \o Place(instructions, acts, i)]
    BY <2>1
  <2> QED BY <2>2 DEF IsUpto
<1>2. ASSUME NEW m \in Nat, m \in T PROVE m + 1 \in T
  <2>1. PICK f : IsUpto(instructions, acts, m, f)
    BY <1>2
  <2>2. PICK g : g = [i \in 0 .. (m + 1) |->
                        IF i <= m THEN f[i] ELSE f[m] \o Place(instructions, acts, m + 1)]
    OBVIOUS
  <2>3. ASSUME NEW i \in 0 .. (m + 1)
        PROVE  g[i] = IF i = 0 THEN <<>> ELSE g[i - 1] \o Place(instructions, acts, i)
    <3>1. CASE i = 0
      BY <2>1, <2>2, <3>1 DEF IsUpto
    <3>2. CASE i \in 1 .. m
      <4>1. i \in 0 .. m /\ i - 1 \in 0 .. m /\ i # 0
        BY <3>2
      <4>2. f[i] = f[i - 1] \o Place(instructions, acts, i)
        BY <2>1, <4>1 DEF IsUpto
      <4>3. g[i] = f[i] /\ g[i - 1] = f[i - 1]
        BY <2>2, <4>1
      <4> QED BY <4>1, <4>2, <4>3
    <3>3. CASE i = m + 1
      <4>1. g[i] = f[m] \o Place(instructions, acts, m + 1) /\ g[m] = f[m] /\ i - 1 = m /\ i # 0
        BY <2>2, <3>3
      <4> QED BY <3>3, <4>1
    <3> QED BY <3>1, <3>2, <3>3
  <2>4. g = [i \in 0 .. (m + 1) |->
               IF i = 0 THEN <<>> ELSE g[i - 1] \o Place(instructions, acts, i)]
    BY <2>2, <2>3
  <2>5. IsUpto(instructions, acts, m + 1, g)
    BY <2>4, Zenon DEF IsUpto
  <2> QED BY <2>5
<1>3. T = Nat
  BY <1>1, <1>2, SetInduction
<1> QED BY <1>3

(* The block at a place is new instructions.                               *)
LEMMA BlockType ==
  ASSUME NEW acts, acts \subseteq Actions, NEW i
  PROVE  Block(acts, i) \in Seq(Cells)
<1>1. CASE At(acts, i) = {}
  BY <1>1, EmptySeq DEF Block
<1>2. CASE At(acts, i) # {}
  <2>1. PICK act : act = CHOOSE x \in At(acts, i) : TRUE
    OBVIOUS
  <2>2. act \in At(acts, i)
    BY <1>2, <2>1
  <2>3. act.emit \in Seq(Opcodes)
    BY <2>2 DEF At, Actions
  <2>4. Block(acts, i) = New(act.emit)
    BY <1>2, <2>1 DEF Block
  <2> QED BY <2>3, <2>4, NewCells
<1> QED BY <1>1, <1>2

(* What the reference has after i places.                                  *)
LEMMA UptoIs ==
  ASSUME NEW instructions \in Seq(Opcodes), NEW acts, acts \subseteq Actions,
         NEW f, f = Upto(instructions, acts)
  PROVE  /\ f[0] = <<>>
         /\ \A i \in 1 .. Len(instructions) + 1 :
              f[i] = f[i - 1] \o Place(instructions, acts, i)
         /\ \A i \in 0 .. Len(instructions) + 1 : f[i] \in Seq(Cells)
         /\ Reference(instructions, acts) = f[Len(instructions) + 1]
<1>1. PICK n \in Nat : n = Len(instructions) + 1
  BY LenProperties
<1>2. IsUpto(instructions, acts, n, f)
  BY <1>1, UptoExists DEF Upto
<1>3. f[0] = <<>> /\ \A i \in 1 .. n : f[i] = f[i - 1] \o Place(instructions, acts, i)
  <2>1. \A i \in 0 .. n :
          f[i] = IF i = 0 THEN <<>> ELSE f[i - 1] \o Place(instructions, acts, i)
    BY <1>2, Zenon DEF IsUpto
  <2>2. 0 \in 0 .. n /\ \A i \in 1 .. n : i \in 0 .. n /\ i # 0
    BY <1>1
  <2> QED BY <2>1, <2>2
<1>4. ASSUME NEW i \in 1 .. n PROVE Place(instructions, acts, i) \in Seq(Cells)
  <2>1. PICK tail : tail = IF i > Len(instructions) \/ Replaced(acts, i) THEN <<>>
                           ELSE <<[op |-> instructions[i], at |-> i]>>
    OBVIOUS
  <2>2. tail \in Seq(Cells)
    <3>1. CASE tail = <<>>
      BY <3>1, EmptySeq
    <3>2. CASE tail # <<>>
      <4>1. i \in 1 .. Len(instructions) /\ i \in Nat
        BY <1>1, <2>1, <3>2
      <4>2. [op |-> instructions[i], at |-> i] \in Cells
        BY <4>1, ElementOfSeq DEF Cells
      <4> QED BY <2>1, <3>2, <4>2
    <3> QED BY <3>1, <3>2
  <2>3. Place(instructions, acts, i) = Block(acts, i) \o tail
    BY <2>1 DEF Place
  <2> QED BY <2>2, <2>3, BlockType, ConcatProperties
<1> DEFINE T == {m \in Nat : m <= n => f[m] \in Seq(Cells)}
<1>5. 0 \in T
  BY <1>3, EmptySeq
<1>6. ASSUME NEW m \in Nat, m \in T PROVE m + 1 \in T
  <2>1. SUFFICES ASSUME m + 1 <= n PROVE f[m + 1] \in Seq(Cells)
    OBVIOUS
  <2>2. PICK k \in 1 .. n : k = m + 1 /\ k - 1 = m
    BY <2>1
  <2>3. m <= n
    BY <2>1
  <2>4. f[m] \in Seq(Cells)
    BY <1>6, <2>3
  <2>5. f[k] = f[m] \o Place(instructions, acts, k)
    BY <1>3, <2>2
  <2>6. f[k] \in Seq(Cells)
    BY <1>4, <2>4, <2>5, ConcatProperties
  <2> QED BY <2>2, <2>6
<1>7. T = Nat
  BY <1>5, <1>6, SetInduction
<1>8. \A i \in 0 .. n : f[i] \in Seq(Cells)
  BY <1>7
<1>9. Reference(instructions, acts) = f[n]
  BY <1>1 DEF Upto, IsUpto, Reference
<1> QED BY <1>1, <1>3, <1>8, <1>9

(* An instruction that no action is at or replaces stays, one that is      *)
(* replaced goes.                                                          *)
LEMMA UptoKept ==
  ASSUME NEW instructions \in Seq(Opcodes), NEW acts, acts \subseteq Actions,
         NEW i \in 1 .. Len(instructions), ~ Replaced(acts, i)
  PROVE  Upto(instructions, acts)[i] = Upto(instructions, acts)[i - 1]
           \o (Block(acts, i) \o <<[op |-> instructions[i], at |-> i]>>)
<1> DEFINE f == Upto(instructions, acts)
<1> HIDE DEF f
<1>0. f = Upto(instructions, acts)
  BY DEF f
<1>1. i \in 1 .. Len(instructions) + 1 /\ ~ i > Len(instructions)
  BY LenProperties
<1>2. f[i] = f[i - 1] \o Place(instructions, acts, i)
  BY <1>0, <1>1, UptoIs
<1>3. Place(instructions, acts, i) = Block(acts, i) \o <<[op |-> instructions[i], at |-> i]>>
  BY <1>1 DEF Place
<1> QED BY <1>2, <1>3 DEF f

(* Where an instruction is replaced the reference has the block alone.     *)
LEMMA UptoReplaced ==
  ASSUME NEW instructions \in Seq(Opcodes), NEW acts, acts \subseteq Actions,
         NEW i \in 1 .. Len(instructions) + 1, i > Len(instructions) \/ Replaced(acts, i)
  PROVE  Upto(instructions, acts)[i] = Upto(instructions, acts)[i - 1] \o Block(acts, i)
<1> DEFINE f == Upto(instructions, acts)
<1> HIDE DEF f
<1>0. f = Upto(instructions, acts)
  BY DEF f
<1>1. f[i] = f[i - 1] \o Place(instructions, acts, i)
  BY <1>0, UptoIs
<1>2. Place(instructions, acts, i) = Block(acts, i) \o <<>>
  BY DEF Place
<1>3. Block(acts, i) \o <<>> = Block(acts, i)
  BY BlockType, ConcatEmptySeq
<1> QED BY <1>1, <1>2, <1>3 DEF f

(* The block at an action's place is what it emits.                        *)
LEMMA BlockOf ==
  ASSUME NEW acts, Apart(acts), NEW act \in acts
  PROVE  Block(acts, act.first) = New(act.emit)
<1>1. At(acts, act.first) = {act}
  BY DEF At, Apart
<1> QED BY <1>1 DEF Block

(* A range that an action replaces makes nothing but its block.            *)
LEMMA UptoRange ==
  ASSUME NEW instructions \in Seq(Opcodes), NEW acts, Placed(instructions, acts), Apart(acts),
         NEW act \in acts, act.type = "replace"
  PROVE  Upto(instructions, acts)[act.last]
           = Upto(instructions, acts)[act.first - 1] \o New(act.emit)
<1> DEFINE f == Upto(instructions, acts)
<1> HIDE DEF f
<1>0. f = Upto(instructions, acts)
  BY DEF f
<1>1. /\ acts \subseteq Actions /\ act.first \in Nat \ {0} /\ act.last \in Nat
      /\ act.first <= act.last /\ act.last <= Len(instructions) /\ Len(instructions) \in Nat
  BY LenProperties DEF Placed, Forward, Actions
<1>2. PICK n \in Nat : n = act.last - act.first
  BY <1>1
<1>3. PICK first \in Nat \ {0} : first = act.first
  BY <1>1
<1> DEFINE Made(m) == f[first + m] = f[first - 1] \o New(act.emit)
           T == {m \in Nat : m <= n => Made(m)}
<1>4. \A m \in 0 .. n : /\ first + m \in 1 .. Len(instructions) + 1
                        /\ Replaced(acts, first + m)
  BY <1>1, <1>2, <1>3 DEF Replaced
<1>5. 0 \in T
  <2>1. first \in 1 .. Len(instructions) + 1 /\ Replaced(acts, first) /\ first + 0 = first
    BY <1>1, <1>3 DEF Replaced
  <2>2. f[first] = f[first - 1] \o Block(acts, first)
    BY <1>1, <2>1, UptoReplaced DEF f
  <2>3. Block(acts, first) = New(act.emit)
    BY <1>3, BlockOf
  <2> QED BY <2>1, <2>2, <2>3
<1>6. ASSUME NEW m \in Nat, m \in T PROVE m + 1 \in T
  <2>1. SUFFICES ASSUME m + 1 <= n PROVE Made(m + 1)
    <3> HIDE DEF Made
    <3> QED OBVIOUS
  <2>2. PICK k \in 1 .. Len(instructions) + 1 :
          /\ k = first + (m + 1) /\ Replaced(acts, k) /\ k - 1 = first + m
          /\ first < k /\ k <= act.last
    <3>1. m + 1 \in 0 .. n
      BY <1>2, <2>1
    <3>2. PICK k : k = first + (m + 1)
      OBVIOUS
    <3>3. k \in 1 .. Len(instructions) + 1 /\ Replaced(acts, k)
      BY <1>4, <3>1, <3>2
    <3>4. k - 1 = first + m /\ first < k /\ k <= act.last
      <4>1. PICK last \in Nat : last = act.last
        BY <1>1
      <4>2. n = last - first /\ k = first + (m + 1) /\ m + 1 <= n
        BY <1>2, <1>3, <2>1, <3>2, <4>1
      <4> QED BY <4>1, <4>2
    <3> QED BY <3>2, <3>3, <3>4
  <2>3. At(acts, k) = {}
    <3>1. SUFFICES ASSUME NEW x \in acts, x.first = k PROVE FALSE
      BY DEF At
    <3>2. x # act /\ x.type = "replace" /\ x \in Actions
      BY <1>1, <1>3, <2>2, <3>1 DEF Placed
    <3>3. x.first <= x.last /\ x.first \in Nat /\ x.last \in Nat
      BY <3>2 DEF Placed, Forward, Actions
    <3>4. x.last < act.first \/ act.last < x.first
      BY <3>2 DEF Apart, Disjoint
    <3> QED BY <1>1, <1>3, <2>2, <3>1, <3>3, <3>4
  <2>4. f[k] = f[k - 1] \o <<>>
    <3>1. Block(acts, k) = <<>>
      BY <2>3 DEF Block
    <3>2. f[k] = f[k - 1] \o Block(acts, k)
      BY <1>1, <2>2, UptoReplaced DEF f
    <3> QED BY <3>1, <3>2
  <2>5. f[k - 1] \in Seq(Cells)
    <3>1. k - 1 \in 0 .. Len(instructions) + 1
      BY <2>2
    <3> QED BY <1>0, <1>1, <3>1, UptoIs
  <2>6. f[k] = f[k - 1]
    BY <2>4, <2>5, ConcatEmptySeq
  <2>7. m <= n
    BY <1>2, <2>1
  <2>8. f[k - 1] = f[first - 1] \o New(act.emit)
    BY <1>6, <2>2, <2>7
  <2> QED BY <2>2, <2>6, <2>8
<1>7. T = Nat
  BY <1>5, <1>6, SetInduction
<1>8. Made(n)
  <2> HIDE DEF Made
  <2> QED BY <1>7
<1>9. first + n = act.last
  BY <1>1, <1>2, <1>3
<1> QED BY <1>3, <1>8, <1>9 DEF f

-----------------------------------------------------------------------------
(* The merge, instruction by instruction                                   *)

(* Between two instructions: those before idx are as the reference has     *)
(* them and the actions from idx on are still waiting.                     *)
Before(acts, f) ==
  /\ waiting = {x \in acts : x.first >= idx}
  /\ output = f[idx - 1]
  /\ \A x \in acts : x.type = "replace" /\ x.first < idx => x.last < idx

(* The insertion in front of the instruction idx is done.                  *)
Inserted(acts, f) ==
  /\ waiting = {x \in acts : x.first > idx}
  /\ output = f[idx - 1] \o Block(acts, idx)
  /\ \A x \in acts : x.type # "replace"

Follows(acts) ==
  /\ idx \in 1 .. Len(target) + 1
  /\ \/ Before(acts, Upto(target, acts))
     \/ Inserted(acts, Upto(target, acts))

(* The merge starts as the reference does.                                 *)
LEMMA FollowsStarts ==
  ASSUME NEW acts, Placed(target', acts), target' \in Seq(Opcodes),
         waiting' = acts, idx' = 1, output' = <<>>
  PROVE  Follows(acts)'
<1>1. PICK f : f = Upto(target', acts)
  OBVIOUS
<1>2. acts \subseteq Actions
  BY DEF Placed, Forward
<1>3. \A x \in acts : x.first >= 1
  BY <1>2 DEF Actions
<1>4. f[0] = <<>>
  BY <1>1, <1>2, UptoIs
<1>5. output' = f[idx' - 1]
  BY <1>4
<1>6. idx' \in 1 .. Len(target') + 1
  BY LenProperties
<1>7. waiting' = {x \in acts : x.first >= idx'}
  BY <1>3
<1>8. \A x \in acts : ~ x.first < idx'
  BY <1>2 DEF Actions
<1> QED BY <1>1, <1>5, <1>6, <1>7, <1>8 DEF Follows, Before

(* The action at idx, or a leftover one at the end.                        *)
LEMMA FollowsAction ==
  ASSUME NEW acts, Placed(target, acts), Apart(acts), target \in Seq(Opcodes),
         Follows(acts), MergeAction \/ MergeLeftover
  PROVE  Follows(acts)'
<1>1. PICK f : f = Upto(target, acts)
  OBVIOUS
<1>2. /\ acts \subseteq Actions /\ Len(target) \in Nat /\ idx \in Nat \ {0}
      /\ idx \in 1 .. Len(target) + 1
  BY LenProperties DEF Placed, Forward, Follows
<1>3. PICK act \in Foremost :
        /\ output' = output \o New(act.emit) /\ waiting' = waiting \ {act}
        /\ \/ act.first = idx /\ idx' = IF act.type = "replace" THEN act.last + 1 ELSE idx
           \/ idx' = idx /\ idx > Len(target)
  BY DEF MergeAction, MergeLeftover
<1>4. act \in waiting /\ act \in acts
  BY <1>1, <1>3 DEF Foremost, Follows, Before, Inserted
<1>5. /\ act.first \in Nat \ {0} /\ act.last \in Nat /\ act.first <= Len(target) + 1
      /\ act.type \in {"replace", "insert"}
      /\ act.type = "replace" => act.first <= act.last /\ act.last <= Len(target)
  BY <1>2, <1>4 DEF Placed, Forward, Actions
<1>6. act.first >= idx
  BY <1>1, <1>2, <1>4, <1>5 DEF Follows, Before, Inserted
<1>7. act.first = idx /\ idx' = IF act.type = "replace" THEN act.last + 1 ELSE idx
  BY <1>2, <1>3, <1>5, <1>6
<1>8. Before(acts, f)
  <2>1. ~ act.first > idx
    BY <1>2, <1>7
  <2> QED BY <1>1, <1>4, <2>1 DEF Follows, Inserted
<1>9. New(act.emit) = Block(acts, idx)
  BY <1>4, <1>7, BlockOf
<1>10. UNCHANGED target
  BY DEF MergeAction, MergeLeftover, mergeVars
<1>11. \A x \in acts : x.first \in Nat /\ x.last \in Nat
  BY <1>2 DEF Actions
<1>12. \A x \in acts : x # act => x.first # idx
  BY <1>4, <1>7 DEF Apart
<1>13. CASE act.type = "insert"
  <2>1. idx' = idx
    BY <1>7, <1>13
  <2>2. waiting' = {x \in acts : x.first > idx}
    BY <1>2, <1>3, <1>8, <1>11, <1>12, <1>7 DEF Before
  <2>3. \A x \in acts : x.type # "replace"
    BY <1>4, <1>13 DEF Placed
  <2>4. output' = f[idx - 1] \o Block(acts, idx)
    BY <1>3, <1>8, <1>9 DEF Before
  <2> QED BY <1>1, <1>2, <1>10, <2>1, <2>2, <2>3, <2>4 DEF Follows, Inserted
<1>14. CASE act.type = "replace"
  <2>1. idx' = act.last + 1 /\ idx' - 1 = act.last /\ idx < idx' /\ idx' \in 1 .. Len(target) + 1
    BY <1>2, <1>5, <1>7, <1>14
  <2>2. output' = f[idx' - 1]
    <3>1. f[act.last] = f[act.first - 1] \o New(act.emit)
      BY <1>1, <1>4, <1>14, UptoRange
    <3> QED BY <1>3, <1>7, <1>8, <2>1, <3>1 DEF Before
  <2>3. \A x \in acts : /\ x.type = "replace" /\ x.first <= x.last
                        /\ x # act => x.last < act.first \/ act.last < x.first
    <3>1. \A x \in acts : x.type = "replace"
      BY <1>4, <1>14 DEF Placed
    <3> QED BY <1>4, <3>1 DEF Placed, Forward, Apart, Disjoint
  <2>4. waiting' = {x \in acts : x.first >= idx'}
    <3>1. waiting' = {x \in acts : x.first >= idx /\ x # act}
      BY <1>3, <1>8 DEF Before
    <3>2. \A x \in acts : (x.first >= idx /\ x # act) <=> x.first >= idx'
      BY <1>2, <1>4, <1>5, <1>7, <1>11, <2>1, <2>3
    <3> QED BY <3>1, <3>2
  <2>5. \A x \in acts : x.first < idx' => x.last < idx'
    BY <1>2, <1>4, <1>5, <1>7, <1>11, <2>1, <2>3
  <2> QED BY <1>1, <1>10, <2>1, <2>2, <2>4, <2>5 DEF Follows, Before
<1> QED BY <1>5, <1>13, <1>14

(* No action is at idx: the instruction is kept.                           *)
LEMMA FollowsKeep ==
  ASSUME NEW acts, Placed(target, acts), Apart(acts), target \in Seq(Opcodes),
         Follows(acts), MergeKeep
  PROVE  Follows(acts)'
<1>1. PICK f : f = Upto(target, acts)
  OBVIOUS
<1>2. /\ acts \subseteq Actions /\ Len(target) \in Nat /\ idx \in Nat \ {0}
      /\ idx \in 1 .. Len(target)
  BY LenProperties DEF Placed, Forward, Follows, MergeKeep
<1>3. /\ output' = output \o <<[op |-> target[idx], at |-> idx]>>
      /\ idx' = idx + 1 /\ waiting' = waiting /\ target' = target
  BY DEF MergeKeep, Kept
<1>4. \A x \in acts : x.first \in Nat /\ x.last \in Nat
  BY <1>2 DEF Actions
<1>5. PICK block : block = Block(acts, idx)
  OBVIOUS
<1>6. PICK cell : cell = [op |-> target[idx], at |-> idx] /\ <<cell>> \in Seq(Cells)
  <2>1. [op |-> target[idx], at |-> idx] \in Cells
    BY <1>2, ElementOfSeq DEF Cells
  <2> QED BY <2>1
<1>7. f[idx - 1] \in Seq(Cells)
  <2>1. idx - 1 \in 0 .. Len(target) + 1
    BY <1>2
  <2> QED BY <1>1, <1>2, <2>1, UptoIs
<1>8. block \in Seq(Cells)
  BY <1>2, <1>5, BlockType
<1>9. /\ ~ Replaced(acts, idx) /\ output = f[idx - 1] \o block
      /\ waiting = {x \in acts : x.first > idx}
      /\ \A x \in acts : x.type = "replace" /\ x.first <= idx => x.last < idx
  <2>1. CASE Before(acts, f)
    <3>1. \A x \in acts : x.first # idx
      <4>1. SUFFICES ASSUME NEW x \in acts, x.first = idx PROVE FALSE
        OBVIOUS
      <4>2. x \in Foremost
        BY <1>2, <2>1, <4>1 DEF Before, Foremost
      <4> QED BY <4>1, <4>2 DEF MergeKeep
    <3>2. block = <<>>
      BY <1>5, <3>1 DEF Block, At
    <3>3. output = f[idx - 1] \o block
      BY <1>7, <2>1, <3>2, ConcatEmptySeq DEF Before
    <3>4. \A x \in acts : x.type = "replace" /\ x.first <= idx => x.last < idx
      BY <1>2, <1>4, <2>1, <3>1 DEF Before
    <3>5. waiting = {x \in acts : x.first > idx}
      BY <1>2, <1>4, <2>1, <3>1 DEF Before
    <3> QED BY <1>2, <1>4, <3>3, <3>4, <3>5 DEF Replaced
  <2>2. CASE Inserted(acts, f)
    BY <1>5, <2>2 DEF Inserted, Replaced
  <2> QED BY <1>1, <2>1, <2>2 DEF Follows
<1>10. f[idx] = f[idx - 1] \o (block \o <<cell>>)
  <2>1. f[idx] = f[idx - 1] \o (Block(acts, idx) \o <<[op |-> target[idx], at |-> idx]>>)
    BY <1>1, <1>2, <1>9, UptoKept
  <2> QED BY <1>5, <1>6, <2>1
<1>11. output' = f[idx]
  <2>1. PICK before, kept : before = f[idx - 1] /\ kept = <<cell>>
    OBVIOUS
  <2>2. before \in Seq(Cells) /\ block \in Seq(Cells) /\ kept \in Seq(Cells)
    BY <1>6, <1>7, <1>8, <2>1
  <2>3. (before \o block) \o kept = before \o (block \o kept)
    BY <2>2, ConcatAssociative
  <2> QED BY <1>3, <1>6, <1>9, <1>10, <2>1, <2>3
<1>12. idx' - 1 = idx /\ idx' \in 1 .. Len(target) + 1
  BY <1>2, <1>3
<1>13. waiting' = {x \in acts : x.first >= idx'}
  BY <1>2, <1>3, <1>4, <1>9
<1>14. \A x \in acts : x.type = "replace" /\ x.first < idx' => x.last < idx'
  BY <1>2, <1>3, <1>4, <1>9
<1> QED BY <1>1, <1>3, <1>11, <1>12, <1>13, <1>14 DEF Follows, Before

(* When the merge is done, its output is the reference.                    *)
LEMMA FollowsEnds ==
  ASSUME NEW acts, Placed(target, acts), target \in Seq(Opcodes), Follows(acts), Merged
  PROVE  output = Reference(target, acts)
<1>1. PICK f : f = Upto(target, acts)
  OBVIOUS
<1>2. acts \subseteq Actions /\ Len(target) \in Nat /\ idx = Len(target) + 1
  BY LenProperties DEF Placed, Forward, Follows, Merged
<1>3. Reference(target, acts) = f[idx]
  BY <1>1, <1>2, UptoIs
<1>4. f[idx] = f[idx - 1] \o Block(acts, idx)
  <2>1. idx \in 1 .. Len(target) + 1 /\ idx > Len(target)
    BY <1>2
  <2> QED BY <1>1, <1>2, <2>1, UptoReplaced
<1>5. output = f[idx - 1] \o Block(acts, idx)
  <2>1. CASE Before(acts, f)
    <3>1. At(acts, idx) = {}
      BY <1>2, <2>1 DEF Before, Merged, At
    <3>2. Block(acts, idx) = <<>>
      BY <3>1 DEF Block
    <3>3. f[idx - 1] \in Seq(Cells)
      <4>1. idx - 1 \in 0 .. Len(target) + 1
        BY <1>2
      <4> QED BY <1>1, <1>2, <4>1, UptoIs
    <3> QED BY <2>1, <3>2, <3>3, ConcatEmptySeq DEF Before
  <2>2. CASE Inserted(acts, f)
    BY <2>2 DEF Inserted
  <2> QED BY <1>1, <2>1, <2>2 DEF Follows
<1> QED BY <1>3, <1>4, <1>5

-----------------------------------------------------------------------------
(* What a call's actions are                                               *)

BlobType == IF Step.emit_blob = "replace" THEN "replace" ELSE "insert"

Landing ==
  \A x \in actions : /\ x.first <= Len(code) + 1
                     /\ x.type = "replace" => x.last <= Len(code)
                     /\ x.type = BlobType

(* The actions of a merge are those of its call, whose places are in what  *)
(* it rewrites; the merge makes their reference if they do not overlap.    *)
MergeRef ==
  pc = "merge" /\ (LandsBlobs \/ Rule.rewrite_mode # "before_last_return") =>
    Placed(target, Started) /\ (Apart(Started) => Follows(Started))

RefInv ==
  /\ pc = "rule" /\ level = "program" => Step.kind = "rule"
  /\ pc \in {"rule", "merge"} /\ level = "interior" => window.last <= Len(code)
  /\ Inside => Landing
  /\ MergeRef

(* The actions of a call stay what they are while it merges.               *)
LEMMA StartedSame ==
  ASSUME UNCHANGED <<recipe, step, level, actions, target, blobs>>
  PROVE  /\ Started' = Started /\ LandsBlobs' = LandsBlobs
         /\ Rule' = Rule
<1>1. Step' = Step
  BY DEF Step
<1>2. Rule' = Rule
  BY <1>1 DEF Rule
<1>3. Emitted' = Emitted
  BY <1>2 DEF Emitted
<1>4. Matches' = Matches
  BY <1>2 DEF Matches
<1>5. LandsBlobs' = LandsBlobs
  BY <1>1 DEF LandsBlobs
<1> QED BY <1>2, <1>3, <1>4, <1>5 DEF Started

(* The actions of a rule are of one type and within what it rewrites.      *)
LEMMA RuleActionPlaced ==
  ASSUME NEW rule \in Rules, NEW w \in ForwardWindows, NEW emit, NEW n \in Nat, w.last <= n,
         rule.rewrite_mode \notin {"none", "before_last_return"}, Resolves(rule, w),
         NEW x, x = RuleAction(rule, w, emit)
  PROVE  /\ x.first <= n + 1
         /\ x.type = "replace" => x.last <= n
         /\ x.type = IF rule.rewrite_mode \in {"replace", "replace_range"} THEN "replace"
                     ELSE "insert"
<1>1. /\ rule.rewrite_mode \in {"replace", "replace_range", "before", "after"}
      /\ rule.insert_index \in Int /\ rule.start_offset \in Int /\ rule.end_offset \in Int
  BY DEF Rules, RewriteModes
<1>2. w.first \in Nat \ {0} /\ w.last \in Nat \ {0} /\ w.first <= w.last
  BY DEF ForwardWindows, Windows
<1>3. CASE rule.rewrite_mode = "replace"
  BY <1>2, <1>3 DEF RuleAction, Replace
<1>4. CASE rule.rewrite_mode = "replace_range"
  <2>1. /\ rule.start_offset >= 0 /\ rule.end_offset >= -1
        /\ rule.start_offset < w.last - w.first + 1 /\ rule.end_offset < w.last - w.first + 1
    BY <1>4 DEF Resolves, RangeOK, Length
  <2>2. /\ x.type = "replace" /\ x.first = w.first + rule.start_offset
        /\ x.last = IF rule.end_offset < 0 THEN w.last ELSE w.first + rule.end_offset
    BY <1>4 DEF RuleAction, Replace
  <2> QED BY <1>1, <1>2, <1>4, <2>1, <2>2
<1>5. CASE rule.rewrite_mode \in {"before", "after"}
  <2>1. PICK i \in Int : i = InsertIndex(rule, w) /\ i >= 0 /\ i < w.last - w.first + 1
    BY <1>1, <1>2, <1>5 DEF Resolves, InsertIndex, Length
  <2>2. x.type = "insert" /\ x.first = i + (IF rule.rewrite_mode = "before" THEN 1 ELSE 2)
    BY <1>5, <2>1 DEF RuleAction, InsertBefore
  <2>3. i + 2 <= n + 1
    BY <1>2, <2>1
  <2> QED BY <1>5, <2>1, <2>2, <2>3
<1> QED BY <1>1, <1>3, <1>4, <1>5

(* A window's end leaves an action within the shader.                      *)
LEMMA LandingEnds ==
  ASSUME ProgramOK, Landing, NEW w \in ForwardWindows, w.last <= Len(code), NEW blob,
         EndWindow(w, blob), UNCHANGED <<recipe, step, code>>
  PROVE  Landing'
<1>1. Step' = Step /\ BlobType' = BlobType
  BY DEF Step, BlobType
<1>2. /\ w.first \in Nat \ {0} /\ w.last \in Nat \ {0} /\ w.first <= w.last
      /\ Len(code) \in Nat
  BY LenProperties DEF ForwardWindows, Windows, ProgramOK
<1>3. PICK act : act = BlobAction(Step.emit_blob, w, blob)
  OBVIOUS
<1>4. actions' = actions \/ actions' = actions \cup {act}
  BY <1>3 DEF EndWindow
<1>5. act.first <= Len(code) + 1 /\ (act.type = "replace" => act.last <= Len(code))
  BY <1>2, <1>3 DEF BlobAction, Replace, InsertBefore
<1>6. act.type = BlobType
  BY <1>3 DEF BlobAction, Replace, InsertBefore, BlobType
<1> QED BY <1>1, <1>4, <1>5, <1>6 DEF Landing

(* A rule's return leaves the actions of windows within the shader.        *)
LEMMA ReturnRef ==
  ASSUME KInv, RefInv, NEW instructions, Return(instructions), pc \in {"rule", "merge"},
         UNCHANGED <<recipe, step, level>>
  PROVE  RefInv'
<1>1. CASE level \in {"program", "scope"}
  BY <1>1 DEF Return, RefInv, Inside, MergeRef
<1>2. CASE level = "interior"
  <2>1. EndWindow(window, instructions) /\ UNCHANGED code /\ pc' = "window"
    BY <1>2 DEF Return, EndWindow
  <2>2. Landing /\ window.last <= Len(code)
    BY <1>2 DEF RefInv, Inside
  <2>3. Landing'
    BY <2>1, <2>2, LandingEnds DEF KInv, WindowsOK
  <2> QED BY <2>1, <2>3 DEF RefInv, MergeRef
<1> QED BY <1>1, <1>2 DEF Return

(* So does the next window.                                                *)
LEMMA StartWindowRef ==
  ASSUME KInv, RefInv, StartWindow
  PROVE  RefInv'
<1>1. /\ pc = "window" /\ Landing /\ UNCHANGED <<recipe, step, code>>
  BY DEF StartWindow, stepVars, RefInv, Inside
<1>2. PICK w \in windows :
        \/ /\ pc' = "rule" /\ level' = "interior" /\ window' = w /\ UNCHANGED actions
        \/ EndWindow(w, SubSeq(code, w.first, w.last))
  BY DEF StartWindow
<1>3. w \in ForwardWindows /\ w.last <= Len(code)
  BY DEF KInv, WindowsOK, WithinOK
<1>4. CASE pc' = "rule" /\ level' = "interior" /\ window' = w /\ UNCHANGED actions
  <2>1. Landing'
    BY <1>1, <1>4 DEF Landing, BlobType, Step
  <2> QED BY <1>1, <1>3, <1>4, <2>1 DEF RefInv, MergeRef
<1>5. CASE EndWindow(w, SubSeq(code, w.first, w.last))
  <2>1. pc' = "window"
    BY <1>5 DEF EndWindow
  <2>2. Landing'
    BY <1>1, <1>3, <1>5, LandingEnds DEF KInv
  <2> QED BY <2>1, <2>2 DEF RefInv, MergeRef
<1> QED BY <1>2, <1>4, <1>5

(* The merge of blobs has the actions of the windows.                      *)
LEMMA LandBlobsRef ==
  ASSUME KInv, LevelOK, RefInv, LandBlobs
  PROVE  RefInv'
<1>1. /\ pc = "window" /\ Landing /\ Step.kind = "blob"
      /\ UNCHANGED <<recipe, step, code, actions, blobs>>
  BY DEF LandBlobs, stepVars, windowVars, RefInv, Inside, LevelOK
<1>2. CASE actions = {}
  <2>1. pc' = "report"
    BY <1>2 DEF LandBlobs
  <2> QED BY <2>1 DEF RefInv, Inside, MergeRef
<1>3. CASE actions # {}
  <2>1. /\ target' = code /\ level' = "program" /\ StartMerge(code, actions)
    BY <1>3 DEF LandBlobs
  <2>2. Started' = actions
    BY <1>1, <2>1 DEF Started, LandsBlobs, Step
  <2>3. pc' \in {"merge", "threw"} /\ waiting' = actions /\ idx' = 1 /\ output' = <<>>
    BY <2>1 DEF StartMerge
  <2>4. Placed(code, actions)
    BY <1>1 DEF Placed, Landing, KInv, WindowsOK
  <2>5. code \in Seq(Opcodes)
    BY DEF KInv, ProgramOK
  <2>6. Follows(actions)'
    BY <1>1, <2>1, <2>3, <2>4, <2>5, FollowsStarts DEF Follows
  <2>7. MergeRef'
    <3>1. Placed(target', Started') /\ Follows(Started)'
      BY <1>1, <2>1, <2>2, <2>4, <2>6 DEF Follows, Before, Inserted
    <3> QED BY <3>1 DEF MergeRef
  <2> QED BY <2>1, <2>3, <2>7 DEF RefInv, Inside
<1> QED BY <1>2, <1>3

(* The merge of a rule has the actions of its matches.                     *)
LEMMA RewriteRef ==
  ASSUME KInv, RefInv, Rewrite
  PROVE  RefInv'
<1> DEFINE selected == Selected(Matches, Rule.match_mode)
           acts == {RuleAction(Rule, w, Emitted) : w \in selected}
<1>1. /\ pc = "rule" /\ Rule.rewrite_mode \notin {"none", "before_last_return"}
      /\ UNCHANGED <<recipe, step, code, blobs, window, actions, target, level>>
  BY DEF Rewrite, Match, stepVars, windowVars
<1>2. /\ step \in Names /\ Rule \in Rules /\ Rule.match \in Seq(Opcodes) /\ Rule.match # <<>>
      /\ target \in Seq(Opcodes) /\ Len(target) \in Nat
  BY <1>1, StepValid, LenProperties DEF KInv, RecipeOK, RuleOK, ProgramOK
<1>3. Landing' = Landing
  BY <1>1 DEF Landing, BlobType, Step
<1>4. MergeRef'
  <2>1. SUFFICES ASSUME pc' = "merge" PROVE MergeRef'
    BY DEF MergeRef
  <2>2. /\ Emits /\ \A w \in selected : Resolves(Rule, w)
        /\ StartMerge(target, acts)
    BY <2>1 DEF Rewrite
  <2>3. Started' = acts /\ Started = acts
    <3>1. ~ LandsBlobs
      BY <1>1 DEF RefInv, LandsBlobs
    <3> QED BY <1>1, <3>1, StartedSame DEF Started
  <2>4. \A w \in selected : w \in ForwardWindows /\ w.last <= Len(target)
    <3>1. Len(Rule.match) \in Nat
      BY <1>2, LenProperties
    <3>2. \A w \in Matches : w.last <= Len(target)
      BY <1>2, <3>1 DEF Matches, SequenceMatches
    <3> QED BY <1>2, <3>2, MatchesForward, SelectedMatches DEF Matches
  <2>5. Emitted \in Seq(Opcodes)
    BY <1>2, <2>2, EmittedType DEF KInv
  <2>6. Forward(acts)
    <3>1. \A w \in selected : Forward({RuleAction(Rule, w, Emitted)})
      BY <1>1, <1>2, <2>2, <2>4, <2>5, RuleActionForward
    <3> QED BY <3>1 DEF Forward
  <2>7. Placed(target, acts)
    <3>1. \A x \in acts :
            /\ x.first <= Len(target) + 1
            /\ x.type = "replace" => x.last <= Len(target)
            /\ x.type = IF Rule.rewrite_mode \in {"replace", "replace_range"} THEN "replace"
                        ELSE "insert"
      BY <1>1, <1>2, <2>2, <2>4, RuleActionPlaced
    <3> QED BY <2>6, <3>1 DEF Placed
  <2> HIDE DEF acts
  <2>8. waiting' = acts /\ idx' = 1 /\ output' = <<>>
    BY <2>2 DEF StartMerge
  <2>9. Placed(target', acts) /\ target' \in Seq(Opcodes)
    BY <1>1, <1>2, <2>7
  <2>10. Follows(Started)'
    BY <2>3, <2>8, <2>9, FollowsStarts DEF Follows, Before, Inserted
  <2> QED BY <2>3, <2>9, <2>10 DEF MergeRef
<1>5. pc' \in {"merge", "threw", "error"}
  BY DEF Rewrite, StartMerge
<1> QED BY <1>1, <1>3, <1>4, <1>5 DEF RefInv, Inside

(* Every turn of the merge follows the reference.                          *)
LEMMA MergeStepRef ==
  ASSUME KInv, RefInv, MergeAction \/ MergeKeep \/ MergeLeftover
  PROVE  RefInv'
<1>1. /\ pc = "merge" /\ target \in Seq(Opcodes)
      /\ UNCHANGED <<recipe, step, pc, code, blobs, window, actions, target, level>>
  BY DEF MergeAction, MergeKeep, MergeLeftover, stepVars, windowVars, KInv, ProgramOK
<1>2. PICK acts : acts = Started
  OBVIOUS
<1>3. Started' = acts /\ LandsBlobs' = LandsBlobs /\ Rule' = Rule
  BY <1>1, <1>2, StartedSame
<1>4. MergeRef'
  <2>1. SUFFICES ASSUME LandsBlobs \/ Rule.rewrite_mode # "before_last_return"
                 PROVE  MergeRef'
    BY <1>3 DEF MergeRef
  <2>2. Placed(target, acts) /\ (Apart(acts) => Follows(acts))
    BY <1>1, <1>2, <2>1 DEF RefInv, MergeRef
  <2>3. Apart(acts) => Follows(acts)'
    BY <1>1, <2>2, FollowsAction, FollowsKeep
  <2>4. Placed(target', Started') /\ (Apart(Started') => Follows(Started)')
    BY <1>1, <1>3, <2>2, <2>3 DEF Follows, Before, Inserted
  <2> QED BY <2>4 DEF MergeRef, Apart, Disjoint
<1>5. Landing' = Landing
  BY <1>1 DEF Landing, BlobType, Step
<1> QED BY <1>1, <1>4, <1>5 DEF RefInv, Inside

(* Every step keeps what is known of actions and merges.                   *)
LEMMA RefStep ==
  ASSUME KInv, LevelOK, RefInv, [Next]_vars
  PROVE  RefInv'
<1>1. CASE SkipStep \/ CheckStep \/ AddResource \/ ReportStep \/ Finish
  <2>1. pc' \in {"step", "report", "done"}
    BY <1>1 DEF SkipStep, CheckStep, AddResource, ReportStep, Finish
  <2> QED BY <2>1 DEF RefInv, Inside, MergeRef
<1>2. CASE RuleStep \/ ScopeStep
  <2>1. /\ pc' \in {"rule", "error"} /\ UNCHANGED <<recipe, step>>
        /\ pc' = "rule" => \/ level' = "program" /\ Step.kind = "rule"
                           \/ level' = "scope"
    BY <1>2 DEF RuleStep, ScopeStep, Starts, stepVars
  <2> QED BY <2>1 DEF RefInv, Inside, MergeRef, Step
<1>3. CASE BlobStep
  <2>1. pc' = "window" /\ actions' = {}
    BY <1>3 DEF BlobStep
  <2> QED BY <2>1 DEF RefInv, MergeRef, Landing
<1>4. CASE StartWindow
  BY <1>4, StartWindowRef
<1>5. CASE LandBlobs
  BY <1>5, LandBlobsRef
<1>6. CASE Probe \/ NoLastReturn
  <2>1. pc = "rule" /\ Return(target) /\ UNCHANGED <<recipe, step, level>>
    BY <1>6 DEF Probe, Match, NoLastReturn, stepVars, mergeVars
  <2> QED BY <2>1, ReturnRef
<1>7. CASE Rewrite
  BY <1>7, RewriteRef
<1>8. CASE BeforeLastReturn
  <2>1. /\ pc = "rule" /\ pc' \in {"merge", "threw", "error"}
        /\ Rule.rewrite_mode = "before_last_return"
        /\ UNCHANGED <<recipe, step, code, blobs, window, actions, target, level>>
    BY <1>8 DEF BeforeLastReturn, StartMerge, stepVars, windowVars
  <2>2. ~ LandsBlobs
    BY <2>1 DEF RefInv, LandsBlobs
  <2>3. MergeRef'
    BY <2>1, <2>2, StartedSame DEF MergeRef
  <2>4. Landing' = Landing
    BY <2>1 DEF Landing, BlobType, Step
  <2> QED BY <2>1, <2>3, <2>4 DEF RefInv, Inside
<1>9. CASE MergeAction \/ MergeKeep \/ MergeLeftover
  BY <1>9, MergeStepRef
<1>10. CASE MergeDone
  <2>1. pc = "merge" /\ UNCHANGED <<recipe, step, level>>
        /\ Return([k \in DOMAIN output |-> output[k].op])
    BY <1>10 DEF MergeDone, Merged, stepVars, mergeVars
  <2> QED BY <2>1, ReturnRef
<1>11. CASE UNCHANGED vars
  <2>1. /\ UNCHANGED <<recipe, step, pc, code, blobs, window, actions, target, level,
                       waiting, idx, output>>
    BY <1>11 DEF vars, stepVars, windowVars, mergeVars
  <2>2. Started' = Started /\ LandsBlobs' = LandsBlobs /\ Rule' = Rule
    BY <2>1, StartedSame
  <2>3. MergeRef'
    BY <2>1, <2>2 DEF RefInv, MergeRef, Placed, Forward, Apart, Disjoint, Follows, Before,
       Inserted
  <2>4. Landing' = Landing
    BY <2>1 DEF Landing, BlobType, Step
  <2> QED BY <2>1, <2>3, <2>4 DEF RefInv, Inside, Step
<1> QED BY <1>1, <1>2, <1>3, <1>4, <1>5, <1>6, <1>7, <1>8, <1>9, <1>10, <1>11 DEF Next

(* ApplyRewriteActions: rewriting at disjoint places removes exactly the   *)
(* ranges and puts each block where its range was, whatever the program,   *)
(* the rule and the windows.                                               *)
THEOREM RewriteIsReferenceHolds == Spec => []RewriteIsReference
<1>1. KInv /\ RefInv => RewriteIsReference
  <2>1. SUFFICES ASSUME KInv, RefInv, Merged,
                        LandsBlobs \/ Rule.rewrite_mode # "before_last_return",
                        Apart(Started)
                 PROVE  output = Reference(target, Started)
    BY DEF RewriteIsReference, Apart
  <2>2. Placed(target, Started) /\ Follows(Started) /\ target \in Seq(Opcodes)
    BY <2>1 DEF RefInv, MergeRef, Merged, KInv, ProgramOK
  <2> QED BY <2>1, <2>2, FollowsEnds
<1>2. Init => KInv /\ LevelOK /\ RefInv
  BY KInit DEF Init, LevelOK, Inside, RefInv, MergeRef
<1>3. KInv /\ LevelOK /\ RefInv /\ [Next]_vars => KInv' /\ LevelOK' /\ RefInv'
  BY KStep, LevelStep, RefStep
<1> QED BY <1>1, <1>2, <1>3, PTL DEF Spec
=============================================================================
