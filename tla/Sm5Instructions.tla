---------------------------- MODULE Sm5Instructions ----------------------------
(***************************************************************************)
(* The instructions of a shader program as the patcher keeps them          *)
(* (sm5/Model.hpp): an opcode, the fields kept of the opcode token as a    *)
(* set of <<field, value>>, the chain of extended tokens, the operands,    *)
(* and the tokens of a custom-data block.  A number inside an instruction, *)
(* a register, a literal or a return type, is the token it was read from.  *)
(***************************************************************************)
EXTENDS Integers, Sequences, SequencesExt

Value(v) == [type |-> "temp", comps |-> 0, mode |-> v, reps |-> <<>>, ext |-> FALSE]

--------------------------------------------------------------------------------
(* Opcodes.                                                                *)

DclResources == {"dcl_resource", "dcl_resource_raw", "dcl_resource_structured"}
DclUavs == {"dcl_uav_typed", "dcl_uav_raw", "dcl_uav_structured"}
DclInputsPs == {"dcl_input_ps", "dcl_input_ps_siv", "dcl_input_ps_sgv"}
DclInputs == DclInputsPs \cup {"dcl_input", "dcl_input_sgv", "dcl_input_siv"}
DclOutputs == {"dcl_output", "dcl_output_sgv", "dcl_output_siv"}
Declarations == DclResources \cup DclUavs \cup DclInputs \cup DclOutputs
                \cup {"dcl_temps", "dcl_sampler", "dcl_cb", "dcl_global_flags"}

\* The value of a field, or `default'.
Field(ctl, f, default) ==
  IF \E c \in ctl : c[1] = f THEN (CHOOSE c \in ctl : c[1] = f)[2] ELSE default

--------------------------------------------------------------------------------
(* Operands and instructions.                                              *)

\* An index entry: a number, a second one for 64 bits, and a relative operand.
Entry(rep, lo, hi, rel) == [rep |-> rep, lo |-> lo, hi |-> hi, rel |-> rel]

Instruction(op, ctl, chain, operands, custom) ==
  [op |-> op, ctl |-> ctl, chain |-> chain, operands |-> operands, custom |-> custom]

NumberOperand(type, comps, ns) ==
  [type |-> type, comps |-> comps, mode |-> 0, mod |-> "none",
   entries |-> [k \in DOMAIN ns |-> Entry("imm32", <<Value(ns[k])>>, <<>>, <<>>)]]

FloatReturn == Value(5)

================================================================================
