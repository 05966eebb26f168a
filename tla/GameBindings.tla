---------------------------- MODULE GameBindings ----------------------------
(***************************************************************************)
(* What a D3D11 context promises a game that runs without the add-on: it   *)
(* holds the shader and the views and samplers the game bound last.  No    *)
(* draw, present or FinishCommandList(TRUE) changes a binding.             *)
(*                                                                         *)
(* The state is the game's own calls and what they leave bound.  DrawState *)
(* implements this module: under the add-on every call of the game has the *)
(* same effect once the saved bindings are put back.                       *)
(***************************************************************************)
EXTENDS Integers

CONSTANTS
  Stages,      \* shader stages
  Slots,       \* binding slots [stage, cls, slot]
  Pipelines,   \* the game's shaders
  Objects,     \* the game's views and samplers
  Counts,      \* lengths of the slot ranges one call binds
  Null         \* nothing bound

VARIABLES
  shader,      \* the game's shader at each stage
  slots,       \* the game's binding in each slot
  call         \* the game's last call

vars == <<shader, slots, call>>

(* The slots a call binds: count slots of a class from first on.           *)
Written(stage, cls, first, count) ==
  {k \in Slots : k.stage = stage /\ k.cls = cls /\ k.slot \in first..(first + count - 1)}

Init ==
  /\ shader = [s \in Stages |-> Null]
  /\ slots = [k \in Slots |-> Null]
  /\ call = [op |-> "none"]

BindShader(s, p) ==
  /\ shader' = [shader EXCEPT ![s] = p]
  /\ call' = [op |-> "bind", stage |-> s, shader |-> p]
  /\ UNCHANGED slots

WriteSlots(stage, cls, first, count, o) ==
  /\ slots' = [k \in Slots |-> IF k \in Written(stage, cls, first, count) THEN o ELSE slots[k]]
  /\ call' = [op |-> "write", stage |-> stage, cls |-> cls, first |-> first,
              count |-> count, object |-> o]
  /\ UNCHANGED shader

(* ClearState, ExecuteCommandList(FALSE), FinishCommandList(FALSE).        *)
Clear(op) ==
  /\ shader' = [s \in Stages |-> Null]
  /\ slots' = [k \in Slots |-> Null]
  /\ call' = [op |-> op]

(* Draw, Dispatch, Present, FinishCommandList(TRUE).                       *)
Use(c) == call' = c /\ UNCHANGED <<shader, slots>>

Next ==
  \/ \E s \in Stages, p \in Pipelines \cup {Null} : BindShader(s, p)
  \/ \E k \in Slots, n \in Counts, o \in Objects \cup {Null} :
       WriteSlots(k.stage, k.cls, k.slot, n, o)
  \/ \E op \in {"clear", "finish"} : Clear(op)
  \/ \E g \in SUBSET Stages : Use([op |-> "draw", group |-> g])
  \/ \E op \in {"present", "finish_keep"} : Use([op |-> op])

Spec == Init /\ [][Next]_vars
=============================================================================
