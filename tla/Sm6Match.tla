-------------------------------- MODULE Sm6Match -------------------------------
(***************************************************************************)
(* What a rule of the SM6 backend matches, and what it captures            *)
(* (Match.cpp).  Patterns nest, and the recursion follows them.            *)
(***************************************************************************)
EXTENDS Sm6Rule

(* Matching.  An instruction pattern is [op, path, cap, mcap, operands], an  *)
(* operand pattern [index, kind, cap, mcap, consts, type, pattern, res,      *)
(* export]; `pattern' is empty or holds the nested pattern.  Both match to a *)
(* set: empty, or the captures with what the pattern added.  `store' is the  *)
(* global capture store.                                                     *)

\* A DXIL argument is numbered behind the opcode constant, an LLVM operand from 0.
OperandAt(instruction, index) ==
  IF Ops[instruction.op].kind = "dxil" THEN index ELSE index + 1

MatchesCapturedValue(name, v, caps, store) ==
  \/ name = None
  \/ IF name \in DOMAIN store THEN store[name] = v ELSE name \in DOMAIN caps /\ caps[name] = v

\* A constant of the operand's type; one literal stands for every component.
MatchesConstant(p, v, o) ==
  /\ IsConst(v)
  /\ o.type \in {None, TypeOf(p, v)}
  /\ o.consts # <<>> => v = <<"const", TypeOf(p, v), Head(o.consts)[2]>>

MatchesResource(p, resources, v, o) ==
  /\ IsHandle(p, v)
  /\ \E k \in ResourceOf(p, resources, v) :
       LET r == resources[HandleClass(p, v)][k]
       IN /\ o.res.class \in {None, HandleClass(p, v)}
          /\ o.res.lower \in {-1, r.lower}
          /\ o.res.space \in {-1, r.space}

RECURSIVE MatchOperands(_, _, _, _, _, _)

\* CheckMatchInstructionPattern: an instruction nested in an operand, which is
\* captured after its operands.
CheckMatchInstructionPattern(p, resources, v, pat, caps, store) ==
  IF IsInst(v) /\ p.code[v[2]].op = pat.op /\ (pat.path # <<>> => p.code[v[2]].data = pat.path)
    THEN {c \in {Captured(d, pat.cap, v) :
                   d \in MatchOperands(p, resources, v[2], pat.operands, {caps}, store)} :
            MatchesCapturedValue(pat.mcap, v, c, store)}
    ELSE {}

MatchOperandPattern(p, resources, v, o, caps, store) ==
  LET captured == Captured(caps, o.cap, v)
      kindly == CASE o.kind = "constant" -> IF MatchesConstant(p, v, o) THEN {captured} ELSE {}
                  [] o.kind = "call" /\ o.pattern # {} ->
                       CheckMatchInstructionPattern(p, resources, v, CHOOSE i \in o.pattern : TRUE,
                                                    captured, store)
                  [] o.kind = "resource" ->
                       IF MatchesResource(p, resources, v, o) THEN {captured} ELSE {}
                  [] OTHER -> {captured}
  IN IF ~MatchesCapturedValue(o.mcap, v, captured, store) THEN {}
     ELSE {c \in {Captured(k, o.cap, v) : k \in kindly} : MatchesCapturedValue(o.mcap, v, c, store)}

MatchOperands(p, resources, i, operands, start, store) ==
  LET one(found, o) ==
        LET k == OperandAt(p.code[i], o.index)
        IN UNION {IF k \in DOMAIN p.code[i].args
                    THEN MatchOperandPattern(p, resources, p.code[i].args[k], o, c, store)
                    ELSE {} : c \in found}
  IN FoldLeft(one, start, operands)

\* MatchInstructionPattern: an instruction of the program, captured before its operands.
MatchInstructionPattern(p, resources, i, pat, caps, store) ==
  LET c == Captured(caps, pat.cap, Inst(i))
  IN IF /\ p.code[i].op = pat.op
        /\ pat.path # <<>> => p.code[i].data = pat.path
        /\ MatchesCapturedValue(pat.mcap, Inst(i), c, store)
       THEN MatchOperands(p, resources, i, pat.operands, {c}, store) ELSE {}

\* CollectSequenceMatches, and CollectAllMatches as the sequence of one: windows of
\* one block, overlapping ones included, in program order.
MatchAt(p, resources, window, patterns, store) ==
  FoldLeft(LAMBDA found, k : UNION {MatchInstructionPattern(p, resources, window[k], patterns[k], c,
                                                            store) : c \in found},
           {<<>>}, [k \in DOMAIN patterns |-> k])

CollectMatches(p, resources, f, patterns, store) ==
  LET windows(b) == [s \in 1..Max({0, Len(p.blocks[b]) - Len(patterns) + 1}) |->
                       SubSeq(p.blocks[b], s, s + Len(patterns) - 1)]
      all == FoldLeft(LAMBDA s, b : s \o windows(b), <<>>, p.order[f])
      matching == SelectSeq(all, LAMBDA u : MatchAt(p, resources, u, patterns, store) # {})
  IN [k \in DOMAIN matching |->
        [instructions |-> matching[k],
         captures |-> CHOOSE c \in MatchAt(p, resources, matching[k], patterns, store) : TRUE]]
================================================================================
