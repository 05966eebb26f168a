-------------------------------- MODULE Sm6Ssa ---------------------------------
(***************************************************************************)
(* The part of a DXIL module the SM6 backend works on: functions of basic  *)
(* blocks of instructions in SSA form.  What LLVM promises (dominance, the *)
(* verifier, dead code elimination, constant folding) is modelled as       *)
(* src/src/dxp/sm6 relies on it.                                           *)
(*                                                                         *)
(* A value is <<"inst", i>> (an instruction), <<"const", type, what>>,     *)
(* <<"undef", type>> or <<"arg", function, k, type>>.  An instruction is   *)
(* [op, type, args, data]: `data' is the path of an extractvalue, the      *)
(* blocks of a phi, the binding of a handle, the callee of a call.  The    *)
(* opcode constant of a DXIL call is not counted among `args'.             *)
(***************************************************************************)
EXTENDS Integers, Sequences, FiniteSets, SequencesExt, FiniteSetsExt, TLC

\* Opcodes: kind ("dxil", "binop", "cast", "select", "phi", "extract", "call",
\* "end"), operand types and result ("T" is the overload), overloads, and whether
\* the instruction has an effect.
CONSTANT Ops

\* A cbuffer row has a type of its own for every overload.
Overload(type, t) == CASE type = "T" -> t
                       [] type = "cbuf" -> IF t = "f32" THEN "cbuf.f32" ELSE "cbuf.i32"
                       [] OTHER -> type

Inst(i) == <<"inst", i>>
IsInst(v) == v[1] = "inst"
IsConst(v) == v[1] \in {"const", "undef", "fold"}

TypeOf(p, v) ==
  CASE v[1] = "inst" -> p.code[v[2]].type
    [] v[1] = "arg" -> v[4]
    [] OTHER -> v[2]

\* The functions: `blocks' holds the instructions of every block, `order' the
\* blocks of every function, `preds' the edges.
BlocksOf(p, f) == Range(p.order[f])
Live(p) == UNION {Range(p.blocks[b]) : b \in DOMAIN p.blocks}
BlockOf(p, i) == CHOOSE b \in DOMAIN p.blocks : i \in Range(p.blocks[b])
Position(p, i) == CHOOSE k \in DOMAIN p.blocks[BlockOf(p, i)] : p.blocks[BlockOf(p, i)][k] = i
FunctionOf(p, b) == CHOOSE f \in DOMAIN p.order : b \in BlocksOf(p, f)
IsEnd(p, i) == Ops[p.code[i].op].kind = "end"
IsPhi(p, i) == Ops[p.code[i].op].kind = "phi"
HasEffect(p, i) == Ops[p.code[i].op].effect

\* The instructions of f.
Body(p, f) == UNION {Range(p.blocks[b]) : b \in BlocksOf(p, f)}

\* The blocks from which a path that avoids `not' leads to one of `seen': a path
\* without cycle has fewer edges than there are blocks.
WithPreds(p, seen, not) ==
  LET longest == Cardinality(DOMAIN p.blocks)
      reached[n \in 0..longest] ==
        IF n = 0 THEN seen
        ELSE LET nearer == reached[n - 1]
             IN nearer \cup ((UNION {p.preds[b] : b \in nearer}) \ {not})
  IN reached[longest]

\* Every path from the function's entry to u passes d.
BlockDominates(p, d, u) ==
  \/ d = u
  \/ Head(p.order[FunctionOf(p, u)]) \notin WithPreds(p, {u}, d)

\* DominatorTree::dominates: of two instructions, and at the end of a block.
Dominates(p, d, u) ==
  LET db == BlockOf(p, d)
      ub == BlockOf(p, u)
  IN IF IsPhi(p, u) \/ db # ub THEN db # ub /\ BlockDominates(p, db, ub)
     ELSE Position(p, d) < Position(p, u)

Reaches(p, d, b) == BlockDominates(p, BlockOf(p, d), b)

--------------------------------------------------------------------------------
(* Changes.                                                                *)

Uses(p, v) == {i \in Live(p) : v \in Range(p.code[i].args)}
Used(p, i) == Uses(p, Inst(i)) # {}

NewInst(p) == Len(p.code) + 1

\* A new instruction at position k of block b.
Place(p, b, k, instruction) ==
  [p EXCEPT !.code = Append(@, instruction),
            !.blocks[b] = InsertAt(@, k, NewInst(p))]

InsertBefore(p, i, instruction) == Place(p, BlockOf(p, i), Position(p, i), instruction)
InsertBehind(p, i, instruction) == Place(p, BlockOf(p, i), Position(p, i) + 1, instruction)

Erase(p, is) ==
  [p EXCEPT !.blocks = [b \in DOMAIN @ |-> SelectSeq(@[b], LAMBDA i : i \notin is)]]

\* An instruction takes `new' where it had `old', and so do all the users.
Redirected(instruction, old, new) ==
  [instruction EXCEPT !.args = [k \in DOMAIN @ |-> IF @[k] = old THEN new ELSE @[k]]]

Rewire(p, users, old, new) ==
  [p EXCEPT !.code = [i \in DOMAIN @ |-> IF i \in users THEN Redirected(@[i], old, new) ELSE @[i]]]

\* eraseFromParent on each, in order, that has no uses left by then.
EraseUnused(p, is) ==
  FoldLeft(LAMBDA q, i : IF i \in Live(q) /\ ~Used(q, i) THEN Erase(q, {i}) ELSE q, p, is)

Dead(p) == {i \in Live(p) : ~HasEffect(p, i) /\ ~Used(p, i)}

\* Until nothing is dead; every round but the last erases something.
DeadCodeElimination(p) ==
  LET most == Cardinality(Live(p))
      rounds[n \in 0..most] ==
        IF n = 0 THEN p ELSE LET before == rounds[n - 1] IN Erase(before, Dead(before))
  IN rounds[most]

--------------------------------------------------------------------------------
(* What the verifier accepts.                                              *)

ArgReaches(p, i, k) ==
  LET v == p.code[i].args[k]
  IN IsInst(v) =>
       /\ v[2] \in Live(p)
       /\ FunctionOf(p, BlockOf(p, v[2])) = FunctionOf(p, BlockOf(p, i))
       /\ IF IsPhi(p, i) THEN Reaches(p, v[2], p.code[i].data[k]) ELSE Dominates(p, v[2], i)

PhisLead(p, b) ==
  \A k \in DOMAIN p.blocks[b] : IsPhi(p, p.blocks[b][k]) => \A j \in 1..k : IsPhi(p, p.blocks[b][j])

OneEnd(p, b) ==
  \A k \in DOMAIN p.blocks[b] : IsEnd(p, p.blocks[b][k]) <=> k = Len(p.blocks[b])

WellFormed(p) ==
  /\ \A i \in Live(p) : \A k \in DOMAIN p.code[i].args : ArgReaches(p, i, k)
  /\ \A b \in DOMAIN p.blocks : PhisLead(p, b) /\ OneEnd(p, b)
================================================================================
