------------------------------- MODULE Sm5Tokens -------------------------------
(***************************************************************************)
(* A shader program as a sequence of 32-bit tokens, the instructions the   *)
(* patcher reads from it, and the tokens it writes back for them           *)
(* (sm5/ShaderProgram.cpp, sm5/Model.cpp).                                 *)
(*                                                                         *)
(* A token is a record that holds what the two readers of tokens, the      *)
(* opcode decoder and the operand decoder, take from it:                   *)
(*   Value(v)  a plain number: a register, a literal, a return type, a     *)
(*             stride, a semantic name.  Read as an operand it is a        *)
(*             register operand without indices whose component bits are   *)
(*             the number, which is how the parser keeps the numbers it    *)
(*             does not know about;                                        *)
(*   OpToken   opcode, length, extended bit and the opcode's own bits, as  *)
(*             a set of <<field, value>>;                                  *)
(*   ExtToken  an extended-opcode or extended-operand token; `more' says   *)
(*             that another one follows.                                   *)
(***************************************************************************)
EXTENDS Sm5Instructions

OperandToken(type, comps, mode, reps, ext) ==
  [type |-> type, comps |-> comps, mode |-> mode, reps |-> reps, ext |-> ext]

OpToken(op, len, ext, ctl) == [op |-> op, len |-> len, ext |-> ext, ctl |-> ctl]

ExtToken(value, more) == [value |-> value, more |-> more]

--------------------------------------------------------------------------------
(* The opcodes, and the fields of the opcode token that are read for them. *)

SemanticName == {"dcl_input_ps_siv", "dcl_input_ps_sgv", "dcl_input_sgv",
                 "dcl_input_siv", "dcl_output_sgv", "dcl_output_siv"}

TestBoolean == {"if", "breakc", "discard"}

ExpectedOperands(op) == IF op \in SemanticName THEN 2 ELSE 1

\* ParseOpcodeControls: the fields kept of the opcode token.
(* Mutant: the interpolation mode of a system-generated value is not read. *)
Mut_ParsedFields(op) ==
  {"saturate", "precise"}
  \cup (IF op \in TestBoolean THEN {"test_boolean"} ELSE {})
  \cup (CASE op = "resinfo" -> {"resinfo"}
          [] op = "sync" -> {"sync"}
          [] op = "dcl_global_flags" -> {"flags"}
          [] op = "dcl_resource" -> {"dimension"}
          [] op = "dcl_sampler" -> {"mode"}
          [] op = "dcl_cb" -> {"access"}
          [] op \in DclInputsPs \ {"dcl_input_ps_sgv"} -> {"interpolation"}
          [] OTHER -> {})

ParsedFields(op) ==
  {"saturate", "precise"}
  \cup (IF op \in TestBoolean THEN {"test_boolean"} ELSE {})
  \cup (CASE op = "resinfo" -> {"resinfo"}
          [] op = "sync" -> {"sync"}
          [] op = "dcl_global_flags" -> {"flags"}
          [] op = "dcl_resource" -> {"dimension"}
          [] op = "dcl_sampler" -> {"mode"}
          [] op = "dcl_cb" -> {"access"}
          [] op \in DclInputsPs -> {"interpolation"}
          [] OTHER -> {})

\* EncodeInstructionToken0: the fields written into the opcode token.  The
\* flags of `sync' are kept with the instruction and never written; those of a
\* UAV are written and never read.
EncodedFields(op) ==
  {"saturate", "precise", "test_boolean", "resinfo"}
  \cup (CASE op = "dcl_global_flags" -> {"flags"}
          [] op = "dcl_sampler" -> {"mode"}
          [] op \in DclInputsPs -> {"interpolation"}
          [] op \in DclUavs -> {"uav_flags"}
          [] OTHER -> {})

Keep(ctl, fields) == {c \in ctl : c[1] \in fields}

--------------------------------------------------------------------------------
(* Reading.  Positions are those of the program; `end' is the first one    *)
(* past the instruction, and a read at or past it does not happen.         *)

\* The number of extended tokens at i: they run on while the last one says so.
ChainLength(ws, i, end) ==
  IF i >= end THEN 0
  ELSE 1 + (CHOOSE k \in 0..(end - 1 - i) :
              /\ \A j \in 0..(k - 1) : ws[i + j].more
              /\ ws[i + k].more => i + k = end - 1)

\* An operand has at most three indices.
Dimensions(reps) == SubSeq(reps, 1, Min({3, Len(reps)}))

DefaultOperand == [type |-> "temp", comps |-> 0, mode |-> 0, mod |-> "none", entries |-> <<>>]

\* ParseOperand: [operand, next].  An index takes its numbers, then for the
\* relative forms an operand; an index that has no room becomes an empty entry.
RECURSIVE ParseOperand(_, _, _)
ParseOperand(ws, i, end) ==
  LET RECURSIVE Indices(_, _)
      Indices(reps, at) ==
        IF reps = <<>> \/ at >= end THEN [entries |-> <<>>, next |-> at]
        ELSE LET rep == Head(reps)
                 wide == at + 1 < end
                 lo == \/ rep \in {"imm32", "imm32rel"}
                       \/ rep \in {"imm64", "imm64rel"} /\ wide
                 hi == rep \in {"imm64", "imm64rel"} /\ wide
                 after == at + (IF hi THEN 2 ELSE IF lo THEN 1 ELSE 0)
                 relative == rep \in {"rel", "imm32rel", "imm64rel"}
                 rel == ParseOperand(ws, after, end)
                 rest == Indices(Tail(reps), IF relative THEN rel.next ELSE after)
             IN [entries |->
                   <<Entry(IF lo \/ relative THEN rep ELSE "imm32",
                           IF lo THEN <<ws[at]>> ELSE <<>>,
                           IF hi THEN <<ws[at + 1]>> ELSE <<>>,
                           IF relative THEN <<rel.operand>> ELSE <<>>)>> \o rest.entries,
                 next |-> rest.next]
  IN IF i >= end THEN [operand |-> DefaultOperand, next |-> i]
     ELSE LET w == ws[i]
              ext == IF w.ext THEN ChainLength(ws, i + 1, end) ELSE 0
              indices == Indices(Dimensions(w.reps), i + 1 + ext)
              literals == IF w.type # "imm32" THEN 0 ELSE IF w.comps = 1 THEN 1 ELSE 4
              last == IF indices.next + literals <= end
                        THEN indices.next + literals
                        ELSE end
              imms == SubSeq(ws, indices.next, last - 1)
          IN [operand |->
                [type |-> w.type, comps |-> w.comps, mode |-> w.mode,
                 mod |-> IF ext > 0 THEN ws[i + 1].value ELSE "none",
                 entries |-> indices.entries
                             \o [k \in DOMAIN imms |-> Entry("imm32", <<imms[k]>>, <<>>, <<>>)]],
              next |-> IF w.type = "imm32" THEN last ELSE indices.next]

RECURSIVE ParseOperands(_, _, _)
ParseOperands(ws, i, end) ==
  IF i >= end THEN <<>>
  ELSE LET p == ParseOperand(ws, i, end) IN <<p.operand>> \o ParseOperands(ws, p.next, end)

\* One instruction whose tokens are ws[i] up to, and without, ws[end].
ParseInstruction(ws, i, end) ==
  LET t == ws[i]
      chain == IF t.ext THEN ChainLength(ws, i + 1, end) ELSE 0
      trailing == CASE t.op = "dcl_resource" /\ end - i >= 4 -> {<<"return", ws[end - 1]>>}
                    [] t.op \in SemanticName /\ end - i >= 2 -> {<<"semantic", ws[end - 1]>>}
                    [] OTHER -> {}
  IN IF t.op = "dcl_temps"
       THEN Instruction(t.op, {}, <<>>, <<NumberOperand("temp", 0, <<ws[i + 1].mode>>)>>, <<>>)
       ELSE Instruction(t.op, Keep(t.ctl, ParsedFields(t.op)) \cup trailing,
                        SubSeq(ws, i + 1, i + chain),
                        ParseOperands(ws, i + 1 + chain, end), <<>>)

\* ParseProgramImpl: the instructions read from position i on, up to the
\* program's end or to the first one that does not fit.  A custom-data block has
\* its length in its second token.
RECURSIVE ParseFrom(_, _, _)
ParseFrom(ws, i, total) ==
  IF i > total THEN <<>>
  ELSE LET t == ws[i]
           len == IF t.len = 0 THEN 1 ELSE t.len
           custom == t.op = "customdata"
           count == IF custom THEN ws[i + 1].mode ELSE len
       IN IF \/ i + len - 1 > total
             \/ custom /\ (count < 2 \/ i + count - 1 > total)
             \/ t.op = "dcl_temps" /\ len < 2
            THEN <<>>
            ELSE <<IF custom
                     THEN Instruction(t.op, {}, <<>>, <<>>, SubSeq(ws, i, i + count - 1))
                     ELSE ParseInstruction(ws, i, i + len)>>
                 \o ParseFrom(ws, i + count, total)

ParseProgram(ws) == ParseFrom(ws, 3, Min({ws[2].mode, Len(ws)}))

--------------------------------------------------------------------------------
(* Writing.                                                                *)

\* EncodeOperandToken0, Index::Encode and Operand::Encode: at most three
\* indices go into the operand token; literals are not indices.
RECURSIVE EncodeOperand(_)
EncodeOperand(o) ==
  LET literal == o.type \in {"imm32", "imm64"}
      reps == IF literal THEN <<>> ELSE [k \in DOMAIN o.entries |-> o.entries[k].rep]
      modified == o.mod # "none"
      EncodeEntry(e) ==
        e.lo \o e.hi \o (IF literal \/ e.rel = <<>> THEN <<>> ELSE EncodeOperand(e.rel[1]))
  IN <<OperandToken(o.type, o.comps, o.mode, Dimensions(reps), modified)>>
     \o (IF modified THEN <<ExtToken(o.mod, FALSE)>> ELSE <<>>)
     \o FlattenSeq([k \in DOMAIN o.entries |-> EncodeEntry(o.entries[k])])

EncodeOperands(os) == FlattenSeq([k \in DOMAIN os |-> EncodeOperand(os[k])])

\* EncodeResourceDeclaration: rebuilt from the register, the dimension and the
\* return type; whatever else the operand held is dropped.
(* Mutant: every resource returns floats.                                  *)
Mut_EncodeResourceDeclaration(ins) ==
  IF ins.operands = <<>> \/ ins.operands[1].entries = <<>> THEN <<>>
  ELSE LET operand == EncodeOperand(NumberOperand("resource", 0,
                                                  <<ins.operands[1].entries[1].lo[1].mode>>))
       IN <<OpToken("dcl_resource", 2 + Len(operand), FALSE,
                    {<<"dimension", Field(ins.ctl, "dimension", "texture2d")>>})>>
          \o operand \o <<FloatReturn>>

EncodeResourceDeclaration(ins) ==
  IF ins.operands = <<>> \/ ins.operands[1].entries = <<>> THEN <<>>
  ELSE LET operand == EncodeOperand(NumberOperand("resource", 0,
                                                  <<ins.operands[1].entries[1].lo[1].mode>>))
       IN <<OpToken("dcl_resource", 2 + Len(operand), FALSE,
                    {<<"dimension", Field(ins.ctl, "dimension", "texture2d")>>})>>
          \o operand \o <<Field(ins.ctl, "return", FloatReturn)>>

EncodeConstantBufferDeclaration(ins) ==
  IF ins.operands = <<>> \/ Len(ins.operands[1].entries) < 2 THEN <<>>
  ELSE LET operand == EncodeOperand(ins.operands[1])
       IN <<OpToken("dcl_cb", 1 + Len(operand), FALSE,
                    {<<"access", Field(ins.ctl, "access", "immediate")>>})>> \o operand

EncodeTempDeclaration(ins) ==
  <<OpToken("dcl_temps", 2, FALSE, {}), ins.operands[1].entries[1].lo[1]>>

EncodeStructuredDeclaration(ins) ==
  LET tail == EncodeOperands(ins.operands)
              \o (IF \E c \in ins.ctl : c[1] = "stride" THEN <<Field(ins.ctl, "stride", 0)>>
                                                        ELSE <<>>)
  IN <<OpToken(ins.op, 1 + Len(tail), ins.chain # <<>>, Keep(ins.ctl, EncodedFields(ins.op)))>>
     \o tail

\* RequiredExtendedChainForOpcode: the accesses that need the resource pair.
NeedsResourcePair == {"ld", "sample", "ld_raw", "ld_structured"}
FixedMetadata == {"ld_raw", "ld_structured"}

ResourcePair(ins) ==
  LET dimension == IF ins.op \in FixedMetadata THEN ins.op
                                               ELSE Field(ins.ctl, "dimension", "none")
  IN <<ExtToken(dimension, TRUE), ExtToken("return_type", FALSE)>>

\* Instruction::Encode for every other opcode.
EncodeOther(ins) ==
  LET pair == /\ ins.chain = <<>> /\ ins.op \in NeedsResourcePair
              /\ ins.op \in FixedMetadata \/ \E c \in ins.ctl : c[1] = "dimension"
      name == /\ ins.op \in SemanticName /\ \E c \in ins.ctl : c[1] = "semantic"
              /\ Len(ins.operands) < ExpectedOperands(ins.op)
      chain == IF pair THEN ResourcePair(ins) ELSE ins.chain
      tail == chain \o EncodeOperands(ins.operands)
              \o (IF name THEN <<Field(ins.ctl, "semantic", 0)>> ELSE <<>>)
  IN <<OpToken(ins.op, 1 + Len(tail), chain # <<>>, Keep(ins.ctl, EncodedFields(ins.op)))>>
     \o tail

Encode(ins) ==
  CASE ins.op = "customdata" -> ins.custom
    [] ins.op = "dcl_resource" -> EncodeResourceDeclaration(ins)
    [] ins.op = "dcl_cb" -> EncodeConstantBufferDeclaration(ins)
    [] ins.op = "dcl_temps" -> EncodeTempDeclaration(ins)
    [] ins.op \in {"dcl_resource_structured", "dcl_uav_structured"} ->
         EncodeStructuredDeclaration(ins)
    [] OTHER -> EncodeOther(ins)

\* SerializeBitcode: version, length, instructions.
SerializeBitcode(version, instructions) ==
  LET body == FlattenSeq([k \in DOMAIN instructions |-> Encode(instructions[k])])
  IN <<version, Value(2 + Len(body))>> \o body

================================================================================
