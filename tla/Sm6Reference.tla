------------------------------ MODULE Sm6Reference -----------------------------
(***************************************************************************)
(* What a rule of an SM6 recipe should do to the values a shader writes,   *)
(* by substitution in terms, and that the rewriting of the graph does it.  *)
(***************************************************************************)
EXTENDS Sm6Recipe

\* A term is a value with everything it is computed from, cut off at a depth.
TermDepth == 7
Cut == <<"...">>

RECURSIVE Term(_, _, _)
Term(p, v, depth) ==
  IF ~IsInst(v) THEN v
  ELSE IF depth = 0 THEN Cut
  ELSE LET i == p.code[v[2]]
       IN <<i.op, i.data, [k \in DOMAIN i.args |-> Term(p, i.args[k], depth - 1)]>>

Stores(p) == {i \in Live(p) : p.code[i].op = "storeOutput"}
Written(p, stores) == [i \in stores |-> Term(p, p.code[i].args[2], TermDepth)]

\* What a rule should do, by substitution: where the program used a value that an
\* emit replaces, it uses the term of the emit; the emit is over the values as they
\* were matched.  `replaced' maps a value to <<match, emit>>.
Replaced(matches, emits) ==
  LET pairs == {<<m, k>> \in (DOMAIN matches) \X (DOMAIN emits) :
                  emits[k].repl \in DOMAIN matches[m].captures}
      value(c) == matches[c[1]].captures[emits[c[2]].repl]
      first(v) == CHOOSE c \in pairs : value(c) = v /\ \A d \in pairs : value(d) = v =>
                    c[1] < d[1] \/ (c[1] = d[1] /\ c[2] <= d[2])
  IN [v \in {value(c) : c \in pairs} |-> first(v)]

RECURSIVE RefTerm(_, _, _, _), RefEmit(_, _, _, _)
\* r: [prog, store, matches, emits, replaced].  `head' is whether v itself is replaced.
RefTerm(r, v, head, depth) ==
  IF ~IsInst(v) THEN v
  ELSE IF depth = 0 THEN Cut
  ELSE IF head /\ v \in DOMAIN r.replaced
    THEN RefEmit(r, r.replaced[v][1], r.replaced[v][2], depth)
  ELSE LET i == r.prog.code[v[2]]
       IN <<i.op, i.data, [k \in DOMAIN i.args |-> RefTerm(r, i.args[k], TRUE, depth - 1)]>>

RefEmit(r, m, k, depth) ==
  LET e == r.emits[k]
      earlier(name) == {j \in 1..(k - 1) : r.emits[j].name = name}
      operand(o) ==
        CASE o.kind = "constant" -> <<"const", o.type, Head(o.consts)[2]>>
          [] o.kind # "constant" /\ earlier(o.cap) # {} ->
               RefEmit(r, m, Max(earlier(o.cap)), depth - 1)
          [] OTHER -> RefTerm(r, (r.matches[m].captures @@ r.store)[o.cap], FALSE, depth - 1)
  IN IF depth = 0 THEN Cut
     ELSE <<e.op, <<>>, [j \in DOMAIN e.operands |-> operand(e.operands[j])]>>

\* Rules whose emits are operations over captures and typed literals.
Plain(rule) ==
  \A e \in Range(rule.emits) :
    /\ e.op # None /\ Ops[e.op].kind \in {"dxil", "binop"} /\ e.extract = <<>>
    /\ \A o \in Range(e.operands) :
         \/ o.kind = "call" /\ o.cap # None
         \/ o.kind = "constant" /\ o.type # None /\ Head(o.consts)[1] = "lit"

ReferenceTerms(matches) ==
  LET r == [prog |-> program.prog, store |-> context.store, matches |-> matches,
            emits |-> Step.rule.emits, replaced |-> Replaced(matches, Step.rule.emits)]
  IN [i \in Stores(program.prog) |->
        RefTerm(r, program.prog.code[i].args[2], TRUE, TermDepth)]

Reference == ReferenceTerms(MatchesToApply(Step.rule, Rewriting.matches))

\* A rule that finishes has substituted its emits for what they replace, everywhere
\* but in its own emits, whatever the other matches of the rule have rewired before;
\* the values the shader writes are the reference's (ApplyRuleStep.cpp:431-470).
RewriteIsReference ==
  [][phase = "run" /\ Running("rule") /\ step' # step /\ Step.rule.mode # "none"
       /\ Plain(Step.rule) /\ Stores(program.prog) \subseteq Stores(program'.prog)
     => Written(program'.prog, Stores(program.prog)) = Reference]_vars
================================================================================
