------------------------------ MODULE DrawState ------------------------------
(***************************************************************************)
(* Binding and drawing on one D3D11 context (tools/reshade_addon:          *)
(* runtime.cpp, "Bind / draw", and draw_state.hpp).                        *)
(*                                                                         *)
(* When the game binds a shader that has a replacement, the replacement is *)
(* kept as pending.  The next draw for which its resources resolve binds   *)
(* it and pushes the resources into the slots its recipes chose, saving    *)
(* the game's bindings; they are put back at the first draw that does not  *)
(* use the slot, at FinishCommandList or at present.                       *)
(*                                                                         *)
(* The context's own state (bound, context) is external; an action stands  *)
(* for a call of the game together with the handlers ReShade runs for it.  *)
(* The command list's private data is created when first needed: without   *)
(* it every handler does what it does with empty data.  Publish is one     *)
(* step here; PatchRuntime has its steps.                                  *)
(***************************************************************************)
EXTENDS Integers, FiniteSets

CONSTANTS
  Graphics, Compute,  \* stages a draw and a dispatch use
  Slots,              \* binding slots [stage, cls, slot]
  Pipelines, StageOf, \* the game's shaders and their stage
  Replacements,       \* replacements the workers build
  Original,           \* replacement.original
  Binds,              \* slots of replacement.bindings
  Objects,            \* the game's views and samplers
  Counts,             \* lengths of the slot ranges one call binds
  Allowed,            \* what the game does besides binding its own objects
  Null                \* null pointer, nothing bound

Stages == Graphics \cup Compute

(*   rebind_stale  binds a shader it read back (XXGetShader) that is no    *)
(*                 longer published, or while the add-on is off            *)
(*   rebind_slot   binds a view it read back (XXGetShaderResources)        *)
(*   release       releases a shader it bound and has not replaced         *)
Habits == {"rebind_stale", "rebind_slot", "release"}

ASSUME DrawConstants ==
  /\ Graphics \cap Compute = {}
  /\ Slots \subseteq [stage : Stages, cls : {"srv", "uav", "sampler"}, slot : Nat]
  /\ StageOf \in [Pipelines -> Stages]
  /\ Original \in [Replacements -> Pipelines]
  /\ Binds \in [Replacements -> SUBSET Slots]
  /\ \A r \in Replacements : \A k \in Binds[r] : k.stage = StageOf[Original[r]]
  /\ Counts \subseteq Nat
  /\ Allowed \subseteq Habits
  /\ Pipelines \cap Replacements = {}
  /\ Objects \cap Replacements = {}
  /\ Null \notin Pipelines \cup Replacements \cup Objects

VARIABLES
  deferred,   \* the context records command lists (else it presents)
  enabled,    \* g_enabled
  pipelines,  \* the game's shaders that exist (keys of state.pipelines)
  published,  \* record.replacement of each
  pending,    \* cmd_state.pending: the replacement and whether it is bound
  saved,      \* cmd_state.saved: the entries, as a function on their slots
  bound,      \* shader the context has at each stage
  context,    \* what it has in each slot; a replacement stands for its object
  seen,       \* replacement the game read back last
  call        \* the game's last call

vars == <<deferred, enabled, pipelines, published, pending, saved, bound,
          context, seen, call>>

NoPending == [repl |-> Null, swapped |-> FALSE]
NoneSaved == [k \in {} |-> Null]

TypeOK ==
  /\ deferred \in BOOLEAN
  /\ enabled \in BOOLEAN
  /\ pipelines \subseteq Pipelines
  /\ published \in [Pipelines -> Replacements \cup {Null}]
  /\ pending \in [Stages -> [repl : Replacements \cup {Null}, swapped : BOOLEAN]]
  /\ DOMAIN saved \subseteq Slots
  /\ saved \in [DOMAIN saved -> Objects \cup {Null}]
  /\ bound \in [Stages -> Pipelines \cup Replacements \cup {Null}]
  /\ context \in [Slots -> Objects \cup Replacements \cup {Null}]
  /\ seen \in Replacements \cup {Null}

Init ==
  /\ deferred \in BOOLEAN
  /\ enabled \in BOOLEAN
  /\ pipelines = Pipelines
  /\ published = [p \in Pipelines |-> Null]
  /\ pending = [s \in Stages |-> NoPending]
  /\ saved = NoneSaved
  /\ bound = [s \in Stages |-> Null]
  /\ context = [k \in Slots |-> Null]
  /\ seen = Null
  /\ call = [op |-> "none"]

(* What the game has bound, with the saved bindings put back.              *)
GameSlots == [k \in Slots |-> IF k \in DOMAIN saved THEN saved[k] ELSE context[k]]
GameShaders ==
  [s \in Stages |-> IF pending[s].swapped THEN Original[pending[s].repl] ELSE bound[s]]

-----------------------------------------------------------------------------
(* OnBindPipeline                                                          *)

(* What bind_pipeline records for a shader of the game or a replacement it *)
(* read back, which replacement_owners leads to its record.                *)
PendingFor(x) ==
  LET found == IF x \in Replacements /\ published[Original[x]] = x THEN x
               ELSE IF x \in pipelines THEN published[x] ELSE Null
  IN IF enabled /\ found # Null THEN [repl |-> found, swapped |-> found = x]
     ELSE NoPending

BindPipeline(s, p) ==
  /\ p \in pipelines => StageOf[p] = s
  /\ bound' = [bound EXCEPT ![s] = p]
  /\ pending' = [pending EXCEPT ![s] = PendingFor(p)]
  /\ call' = [op |-> "bind", stage |-> s, shader |-> p]
  /\ UNCHANGED <<deferred, enabled, pipelines, published, saved, context, seen>>

(* The game saves its state, with a replacement bound, and restores it.    *)
ReadShader(s) ==
  /\ bound[s] \in Replacements
  /\ seen' = bound[s]
  /\ UNCHANGED <<deferred, enabled, pipelines, published, pending, saved, bound,
                 context, call>>

RebindReplacement(s) ==
  /\ seen \in Replacements
  /\ s = StageOf[Original[seen]]
  /\ (enabled /\ published[Original[seen]] = seen) \/ "rebind_stale" \in Allowed
  /\ bound' = [bound EXCEPT ![s] = seen]
  /\ pending' = [pending EXCEPT ![s] = PendingFor(seen)]
  /\ call' = [op |-> "bind", stage |-> s, shader |-> Original[seen]]
  /\ UNCHANGED <<deferred, enabled, pipelines, published, saved, context, seen>>

(* ClearState and ExecuteCommandList(FALSE): ReShade reports all stages    *)
(* unbound and every slot written.                                         *)
ClearState ==
  /\ bound' = [s \in Stages |-> Null]
  /\ pending' = [s \in Stages |-> NoPending]
  /\ context' = [k \in Slots |-> Null]
  /\ saved' = NoneSaved
  /\ call' = [op |-> "clear"]
  /\ UNCHANGED <<deferred, enabled, pipelines, published, seen>>

-----------------------------------------------------------------------------
(* OnPushDescriptors                                                       *)

(* Mutant: the last slot of the range is left out.                         *)
Mut_Written(stage, cls, first, count) ==
  {k \in Slots : k.stage = stage /\ k.cls = cls /\ k.slot >= first /\ k.slot < first + count - 1}

(* Keys [stage, cls, slot] of a range: the test of SavedSlots::DropWritten *)
Written(stage, cls, first, count) ==
  {k \in Slots : k.stage = stage /\ k.cls = cls /\ k.slot >= first /\ k.slot < first + count}

(* XXSetShaderResources and the like; the handler runs afterwards and      *)
(* drops the saved bindings of the slots.                                  *)
WriteSlots(stage, cls, first, count, o) ==
  /\ context' = [k \in Slots |-> IF k.stage = stage /\ k.cls = cls /\
                                    k.slot \in first..(first + count - 1)
                                 THEN o ELSE context[k]]
  /\ saved' = [k \in DOMAIN saved \ Written(stage, cls, first, count) |-> saved[k]]
  /\ call' = [op |-> "write", stage |-> stage, cls |-> cls, first |-> first,
              count |-> count, object |-> o]
  /\ UNCHANGED <<deferred, enabled, pipelines, published, pending, bound, seen>>

(* The game saves the view in a slot and binds it again.                   *)
RebindSlot(k) ==
  /\ "rebind_slot" \in Allowed
  /\ context[k] \in Replacements
  /\ WriteSlots(k.stage, k.cls, k.slot, 1, context[k])

-----------------------------------------------------------------------------
(* Draws and dispatches: HandleDraw                                        *)

(* Mutant: the swap is not undone when the replacement cannot be used.     *)
Mut_NextSwapAction(ready, swapped) ==
  IF ready /\ ~ swapped THEN "bind_replacement" ELSE "none"

NextSwapAction(ready, swapped) ==
  IF ready = swapped THEN "none"
  ELSE IF ready THEN "bind_replacement" ELSE "bind_original"

(* Mutant: readiness does not depend on the overlay's switch.              *)
Mut_Ready(s, unresolved) == pending[s].repl # Null /\ s \notin unresolved

(* Stages whose pending replacement can be used: the add-on is enabled and *)
(* every binding resolves.                                                 *)
Ready(s, unresolved) == enabled /\ pending[s].repl # Null /\ s \notin unresolved

(* ApplySwap                                                               *)
ApplySwap(s, ready) ==
  LET action == NextSwapAction(ready, pending[s].swapped)
  IN IF action = "bind_replacement" THEN pending[s].repl
     ELSE IF action = "bind_original" THEN Original[pending[s].repl]
     ELSE bound[s]

(* Mutant: a slot that is saved already is not pushed again.               *)
Mut_PushOnce(used) ==
  /\ saved' = [k \in used |-> GameSlots[k]]
  /\ context' = [k \in Slots |-> IF k \in used \cap DOMAIN saved THEN context[k]
                                 ELSE IF k \in used THEN pending[k.stage].repl ELSE GameSlots[k]]

(* Mutant: slots that are no longer used are not restored.                 *)
Mut_RestoreUnused(used) ==
  /\ saved' = [k \in used \cup DOMAIN saved |-> GameSlots[k]]
  /\ context' = [k \in Slots |-> IF k \in used THEN pending[k.stage].repl ELSE context[k]]

(* Mutant: what is in the slot is saved at every push.                     *)
Mut_PushBindings(used) ==
  /\ saved' = [k \in used |-> context[k]]
  /\ context' = [k \in Slots |-> IF k \in used THEN pending[k.stage].repl ELSE GameSlots[k]]

(* SaveOnce and push for the slots in use, RestoreUnused for the others.   *)
PushBindings(used) ==
  /\ saved' = [k \in used |-> GameSlots[k]]
  /\ context' = [k \in Slots |-> IF k \in used THEN pending[k.stage].repl ELSE GameSlots[k]]

(* A provider has no descriptor for this draw at the stages "unresolved".  *)
Draw(group, unresolved) ==
  LET held  == {s \in group : pending[s].repl # Null}
      ready == {s \in held : Ready(s, unresolved)}
  IN /\ \A s \in unresolved : pending[s].repl # Null /\ Binds[pending[s].repl] # {}
     /\ bound' = [s \in Stages |-> IF s \in held THEN ApplySwap(s, s \in ready) ELSE bound[s]]
     /\ pending' = [s \in Stages |-> IF s \in held THEN [pending[s] EXCEPT !.swapped = s \in ready]
                                     ELSE pending[s]]
     /\ PushBindings(UNION {Binds[pending[s].repl] : s \in ready})
     /\ call' = [op |-> "draw", group |-> group]
     /\ UNCHANGED <<deferred, enabled, pipelines, published, seen>>

-----------------------------------------------------------------------------
(* Present, FinishCommandList                                              *)

(* Mutant: the bindings are forgotten, not restored.                       *)
Mut_RestoreAllSlots == saved' = NoneSaved /\ UNCHANGED context

RestoreAllSlots ==
  /\ context' = GameSlots
  /\ saved' = NoneSaved

Present ==
  /\ ~ deferred
  /\ RestoreAllSlots
  /\ call' = [op |-> "present"]
  /\ UNCHANGED <<deferred, enabled, pipelines, published, pending, bound, seen>>

(* FinishCommandList(TRUE): close_command_list; the context keeps its      *)
(* state and is not reset.                                                 *)
FinishKeep ==
  /\ deferred
  /\ RestoreAllSlots
  /\ call' = [op |-> "finish_keep"]
  /\ UNCHANGED <<deferred, enabled, pipelines, published, pending, bound, seen>>

(* FinishCommandList(FALSE): close_command_list, the state is cleared, and *)
(* reset_command_list.                                                     *)
FinishClear ==
  /\ deferred
  /\ bound' = [s \in Stages |-> Null]
  /\ context' = [k \in Slots |-> Null]
  /\ pending' = [s \in Stages |-> NoPending]
  /\ saved' = NoneSaved
  /\ call' = [op |-> "finish"]
  /\ UNCHANGED <<deferred, enabled, pipelines, published, seen>>

-----------------------------------------------------------------------------
(* Other threads                                                           *)

(* A worker publishes a replacement, or drops the one there is.            *)
Publish(p, r) ==
  /\ p \in pipelines
  /\ published[p] # r
  /\ published' = [published EXCEPT ![p] = r]
  /\ UNCHANGED <<deferred, enabled, pipelines, pending, saved, bound, context, seen, call>>

(* A shader is destroyed with its last reference: the context holds one to *)
(* what is bound, but none to what a draw swapped out.                     *)
DestroyPipeline(p) ==
  /\ p \in pipelines
  /\ \A s \in Stages : bound[s] # p
  /\ \/ "release" \in Allowed
     \/ \A s \in Stages : pending[s].repl # Null => Original[pending[s].repl] # p
  /\ pipelines' = pipelines \ {p}
  /\ published' = [published EXCEPT ![p] = Null]
  /\ UNCHANGED <<deferred, enabled, pending, saved, bound, context, seen, call>>

(* The overlay's Enabled box.                                              *)
SetEnabled ==
  /\ enabled' = ~ enabled
  /\ UNCHANGED <<deferred, pipelines, published, pending, saved, bound, context, seen, call>>

-----------------------------------------------------------------------------
GameStep ==
  \/ \E s \in Stages, p \in pipelines \cup {Null} : BindPipeline(s, p)
  \/ \E s \in Stages : ReadShader(s) \/ RebindReplacement(s)
  \/ ClearState
  \/ \E k \in Slots, n \in Counts, o \in Objects \cup {Null} :
       WriteSlots(k.stage, k.cls, k.slot, n, o)
  \/ \E k \in Slots : RebindSlot(k)
  \/ \E group \in {Graphics, Compute} :
       \E unresolved \in SUBSET group : Draw(group, unresolved)
  \/ Present \/ FinishKeep \/ FinishClear

OtherStep ==
  \/ \E r \in Replacements : Publish(Original[r], r)
  \/ \E p \in Pipelines : Publish(p, Null) \/ DestroyPipeline(p)
  \/ SetEnabled

Next == GameStep \/ OtherStep

Spec == Init /\ [][Next]_vars

-----------------------------------------------------------------------------
(* Properties                                                              *)

(* With its saved bindings put back, the context is the one the game would *)
(* have without the add-on, after every call it makes: no game binding is  *)
(* lost, restored over a newer one, or restored from an older save.        *)
Game == INSTANCE GameBindings WITH shader <- GameShaders, slots <- GameSlots
GameUnaffected == Game!Spec

(* README.md:174-177 of the add-on: the replacement is bound when all its  *)
(* resources resolve; "if one doesn't, it puts the game's pipeline back    *)
(* for that draw".  A patched shader never draws without its objects.      *)
DrawnWithResources ==
  call.op = "draw" =>
    \A s \in call.group : bound[s] \in Replacements =>
      \A k \in Binds[bound[s]] : context[k] = bound[s]

(* A draw sees the game's bindings, but for the slots of the replacements  *)
(* that are drawn: no object stays behind after a rebind, a reload, a      *)
(* draw that could not use the replacement or a switch to a dispatch.      *)
NoStrayObject ==
  call.op = "draw" =>
    \A k \in Slots : context[k] \in Replacements =>
      k.stage \in call.group /\ bound[k.stage] = context[k]

(* README.md:56 of the add-on: "Turning it off applies at the next draw",  *)
(* whatever was swapped in before.                                         *)
OffAtNextDraw ==
  [][call'.op = "draw" /\ ~ enabled /\ UNCHANGED <<enabled, pipelines, published, seen>> =>
       \A s \in call'.group : bound'[s] \notin Replacements]_vars

(* runtime.cpp:1228: "the frame ends with the game's bindings on the       *)
(* immediate context", and so does a command list (runtime.cpp:1084).      *)
FrameEndsWithGameBindings ==
  call.op \in {"present", "finish_keep", "finish"} =>
    \A k \in Slots : context[k] \notin Replacements
=============================================================================
