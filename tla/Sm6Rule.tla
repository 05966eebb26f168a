-------------------------------- MODULE Sm6Rule --------------------------------
(***************************************************************************)
(* The rules of the SM6 backend: what an emit puts into the program        *)
(* (Emit.cpp), and where a rewrite puts it and what it erases              *)
(* (ApplyRuleStep.cpp).  What a rule matches is in Sm6Match.               *)
(*                                                                         *)
(* A rewrite threads one record, `w' below, through its emits.  Touching   *)
(* an instruction that has been erased is undefined in C++: w.undefined.   *)
(***************************************************************************)
EXTENDS Sm6Ssa

None == "none"  \* no name, no opcode, no handle

Touch(p, v) == IsInst(v) => v[2] \in Live(p)

--------------------------------------------------------------------------------
(* Captures are a function from names to values.  A handle is made for a     *)
(* resource of its class.                                                    *)

Captured(caps, name, v) == IF name = None THEN caps ELSE (name :> v) @@ caps

\* The resource a handle was made for: by its number before SM6.6, else by the
\* binding's index and space, and when nothing begins there, by the index as a number.
ResourceOf(p, resources, v) ==
  LET made == IF p.code[v[2]].op = "annotateHandle" THEN p.code[v[2]].args[1][2] ELSE v[2]
      b == p.code[made].data
      all == resources[b.class]
      at == {k \in DOMAIN all : all[k].lower = b.index /\ all[k].space = b.space}
  IN IF p.code[made].op = "createHandle" THEN {b.id + 1} \cap DOMAIN all
     ELSE IF at # {} THEN {Min(at)} ELSE {b.index + 1} \cap DOMAIN all

IsHandle(p, v) ==
  /\ IsInst(v)
  /\ \/ p.code[v[2]].op \in {"createHandle", "createHandleFromBinding"}
     \/ /\ p.code[v[2]].op = "annotateHandle"
        /\ IsInst(p.code[v[2]].args[1])
        /\ p.code[p.code[v[2]].args[1][2]].op = "createHandleFromBinding"

HandleClass(p, v) ==
  IF p.code[v[2]].op = "annotateHandle" THEN p.code[p.code[v[2]].args[1][2]].data.class
  ELSE p.code[v[2]].data.class

--------------------------------------------------------------------------------
(* Emitting.  An emit is [name, op, fn, alias, extract, field, type,         *)
(* operands, repl], an operand of one [index, kind, cap, consts, type,       *)
(* handle].  A constant is <<"lit", n>> or <<"var", name>>, an extract       *)
(* <<aggregate, <<"lit", n>> or <<"var", capture>>>>.  `env' is what the     *)
(* emits see of the context: [handles, functions, variables, function].      *)

\* ResolveEmitCapture: the match first, then the store.
CapturedValues(w, name) ==
  IF name \in DOMAIN w.captures THEN {w.captures[name]}
  ELSE IF name \in DOMAIN w.store THEN {w.store[name]} ELSE {}

\* resolve_resource: the handle of an add_resource step, or a capture of this match.
HandleValues(w, env, name) ==
  IF name \in DOMAIN env.handles THEN {env.handles[name]}
  ELSE IF name \in DOMAIN w.captures THEN {w.captures[name]} ELSE {}

\* ResolveConstantArray: a literal, or a variable of the environment that fits the type.
Representable(type, n) == IF type = "i1" THEN n \in -1..1 ELSE TRUE

ConstantValues(env, type, consts) ==
  {<<"const", type, c[2]>> : c \in {d \in Range(consts) : d[1] = "lit"}}
  \cup {<<"const", type, env.variables[c[2]]>> :
          c \in {d \in Range(consts) : /\ d[1] = "var"
                                      /\ d[2] \in DOMAIN env.variables
                                      /\ Representable(type, env.variables[d[2]])}}

\* ResolveEmitOperand: the value of an operand, none when it is refused.  `wanted'
\* is the type of the argument, None when any will do.
OperandValues(w, env, o, wanted) ==
  LET fits(v) == wanted \in {None, TypeOf(w.prog, v)}
      mine(v) == /\ IsInst(v) => FunctionOf(w.prog, BlockOf(w.prog, v[2])) = env.function
                 /\ v[1] = "arg" => v[2] = env.function
  IN CASE o.kind = "call" /\ o.cap # None -> {v \in CapturedValues(w, o.cap) : fits(v) /\ mine(v)}
       [] o.kind = "resource" -> {v \in HandleValues(w, env, o.handle) : fits(v)}
       [] o.kind = "constant" ->
            IF wanted \in {None, "handle"} \/ o.type \notin {None, wanted} THEN {}
            ELSE ConstantValues(env, wanted, o.consts)
       [] OTHER -> IF wanted \in {None, "void"} THEN {} ELSE {<<"undef", wanted>>}

\* The captures and handles an emit consumes, which must dominate it.
Consumed(w, env, e) ==
  CapturedValues(w, e.alias)
  \cup (IF e.extract = <<>> THEN {} ELSE CapturedValues(w, e.extract[1]))
  \cup UNION {CASE o.kind = "call" -> CapturedValues(w, o.cap)
                [] o.kind = "resource" -> HandleValues(w, env, o.handle)
                [] OTHER -> {} : o \in Range(e.operands)}

\* The element types of an aggregate.
Elements(type) == CASE type = "res.f32" -> <<"f32", "f32", "f32", "f32", "i32">>
                    [] type = "cbuf.f32" -> <<"f32", "f32", "f32", "f32">>
                    [] type = "cbuf.i32" -> <<"i32", "i32", "i32", "i32">>
                    [] OTHER -> <<>>

NoEmit == [name |-> None, op |-> None, fn |-> None, alias |-> None, extract |-> <<>>,
           field |-> <<>>, type |-> "void", operands |-> <<>>, repl |-> None]

\* What an emit makes: at most one new instruction, and a value.
Refused == [ok |-> FALSE]
Value(v) == [ok |-> TRUE, new |-> <<>>, value |-> v]
Making(w, op, type, args, data) ==
  [ok |-> TRUE, new |-> <<[op |-> op, type |-> type, args |-> args, data |-> data]>>,
   value |-> Inst(NewInst(w.prog))]

\* The operands for arguments of the types `want', numbered from `base'.
Resolve(w, env, e, want, base) ==
  [k \in DOMAIN want |->
     UNION {OperandValues(w, env, o, want[k]) : o \in {d \in Range(e.operands) : d.index = k - 1 + base}}]

All(sets) == \A k \in DOMAIN sets : sets[k] # {}
The(sets) == [k \in DOMAIN sets |-> CHOOSE v \in sets[k] : TRUE]

EmitCall(w, env, e) ==
  LET f == env.functions[e.fn]
      args == Resolve(w, env, e, f.params, 0)
  IN IF e.fn \in DOMAIN env.functions /\ Len(e.operands) = Len(f.params) /\ All(args)
       THEN Making(w, "call", f.result, The(args), <<e.fn>>) ELSE Refused

EmitExtract(w, e) ==
  LET aggregates == CapturedValues(w, e.extract[1])
      aggregate == CHOOSE v \in aggregates : TRUE
      elements == Elements(TypeOf(w.prog, aggregate))
      indices == IF e.extract[2][1] = "lit" THEN {e.extract[2][2]}
                 ELSE {v[3] : v \in {u \in CapturedValues(w, e.extract[2][2]) :
                                       u[1] = "const" /\ u[2] # "f32"}}
      index == CHOOSE n \in indices : TRUE
  IN IF aggregates # {} /\ indices # {} /\ index \in 0..(Len(elements) - 1)
       THEN Making(w, "extractvalue", elements[index + 1], <<aggregate>>, <<index>>) ELSE Refused

EmitDxil(w, env, e) ==
  LET want == [k \in DOMAIN Ops[e.op].args |-> Overload(Ops[e.op].args[k], e.type)]
      args == Resolve(w, env, e, want, 1)
  IN IF e.type \in Ops[e.op].overloads /\ All(args)
       THEN Making(w, e.op, Overload(Ops[e.op].result, e.type), The(args), <<>>) ELSE Refused

\* Binary operations, selects and casts, which IRBuilder folds over constants.  The
\* source of a cast has its own type when it is a constant or undefined.
EmitLlvm(w, env, e) ==
  LET cast == Ops[e.op].kind = "cast"
      own(o) == IF o.kind = "constant" \/ (o.kind = "call" /\ o.cap = None) THEN o.type ELSE None
      want == [k \in DOMAIN Ops[e.op].args |->
                 IF cast THEN own(Head(e.operands)) ELSE Overload(Ops[e.op].args[k], e.type)]
      args == Resolve(w, env, e, want, 0)
      given == The(args)
  IN IF \/ e.type = "void" \/ Len(e.operands) # Len(Ops[e.op].args) \/ ~All(args)
        \/ cast /\ (e.type # Ops[e.op].result \/ TypeOf(w.prog, given[1]) # Ops[e.op].args[1])
       THEN Refused
     ELSE IF \A k \in DOMAIN given : IsConst(given[k])
       THEN Value(<<"fold", e.type, e.op, given>>)
     ELSE Making(w, e.op, e.type, given, <<>>)

ValueOf(vs) == IF vs = {} THEN Refused ELSE Value(CHOOSE v \in vs : TRUE)

ResolveEmitPatternValue(w, env, e) ==
  CASE e.fn # None -> EmitCall(w, env, e)
    [] e.fn = None /\ e.alias # None -> ValueOf(CapturedValues(w, e.alias))
    [] e.fn = None /\ e.alias = None /\ e.extract # <<>> -> EmitExtract(w, e)
    [] e.op # None /\ Ops[e.op].kind = "dxil" -> EmitDxil(w, env, e)
    [] e.op # None /\ Ops[e.op].kind # "dxil" -> EmitLlvm(w, env, e)
    [] OTHER -> ValueOf(OperandValues(w, env, Head(e.operands), None))

\* EmitInstruction: a void result can be neither named nor a replacement.
WithType(w, e, made) ==
  LET type == IF made.new = <<>> THEN TypeOf(w.prog, made.value) ELSE Head(made.new).type
  IN IF ~made.ok \/ (type = "void" /\ (e.name # None \/ e.repl # None)) THEN Refused
     ELSE made @@ [type |-> type]

EmitInstruction(w, env, e) == WithType(w, e, ResolveEmitPatternValue(w, env, e))

--------------------------------------------------------------------------------
(* Rewriting.  A rule is [name, patterns, emits, match, mode, index, from,   *)
(* to].  w is the state of a rewrite: [prog, store, captures (of the match,  *)
(* and the named emits), anchor, emitted (by this rule), phase].             *)

Fail(w) == [w EXCEPT !.phase = "error"]
Undefined(w) == [w EXCEPT !.phase = "undefined"]

Erasing(mode) == mode \in {"replace", "replace_range"}

\* ResolveAnchor.
ResolveAnchor(instructions, rule) ==
  LET n == Len(instructions)
      index == IF rule.index < 0 /\ rule.mode = "after" THEN n - 1 ELSE rule.index
  IN CASE index \in 0..(n - 1) -> instructions[index + 1]
       [] index \notin 0..(n - 1) /\ rule.mode = "before" -> instructions[1]
       [] OTHER -> instructions[n]

\* ResolveReplacementRange: the block's instructions from one offset to the other,
\* counted from the first matched one; none when an offset is refused.
ReplacementRange(p, instructions, rule) ==
  LET block == p.blocks[BlockOf(p, instructions[1])]
      first == Position(p, instructions[1]) + rule.from
      last == IF rule.to < 0 THEN first ELSE Position(p, instructions[1]) + rule.to
  IN IF rule.from < 0 \/ rule.to < -1 \/ first > last \/ last > Len(block)
       THEN <<>> ELSE <<block[first], block[last]>>

\* What a new instruction must be dominated by: the anchor, or what follows it.
InsertionPoint(w, mode) ==
  LET block == w.prog.blocks[BlockOf(w.prog, w.anchor)]
      k == Position(w.prog, w.anchor)
  IN IF mode = "after" /\ k < Len(block) THEN block[k + 1] ELSE w.anchor

Emitted(w, mode, made) ==
  CASE made.new = <<>> -> w.prog
    [] made.new # <<>> /\ mode = "after" -> InsertBehind(w.prog, w.anchor, Head(made.new))
    [] OTHER -> InsertBefore(w.prog, w.anchor, Head(made.new))

DominatedBy(p, values, i) ==
  \A v \in values : IsInst(v) => Dominates(p, v[2], i)

(* Mutant: the rule's own emits are rewired too.                           *)
Mut_UsesToRewire(p, old, emitted) == Uses(p, old)

UsesToRewire(p, old, emitted) == Uses(p, old) \ emitted

(* Mutant: the uses need not lie behind the emit.                          *)
Mut_ReplaceCaptured(w, mode, old, made) ==
  IF TypeOf(w.prog, old) # made.type THEN Fail(w)
  ELSE [w EXCEPT !.prog = Rewire(@, UsesToRewire(@, old, w.emitted), old, made.value)]

\* replace_captured: every use but the rule's own; before and after the match, the
\* emitted value has to dominate them.
ReplaceCaptured(w, mode, old, made) ==
  LET users == UsesToRewire(w.prog, old, w.emitted)
  IN IF \/ TypeOf(w.prog, old) # made.type
        \/ ~Erasing(mode) /\ \E u \in users : ~DominatedBy(w.prog, {made.value}, u)
       THEN Fail(w)
     ELSE [w EXCEPT !.prog = Rewire(@, users, old, made.value)]

Stale(w, values) == \E v \in values : ~Touch(w.prog, v)

\* What an emit made is put in place, and the uses of what it replaces are rewired.
PlaceEmit(w, mode, e, made) ==
  LET new == {NewInst(w.prog) : n \in DOMAIN made.new}
      placed == [w EXCEPT !.prog = Emitted(w, mode, made),
                          !.emitted = @ \cup new,
                          !.anchor = IF mode = "after" /\ new # {} THEN NewInst(w.prog) ELSE @,
                          !.captures = Captured(@, e.name, made.value)]
      old == CapturedValues(placed, e.repl)
  IN IF Stale(w, CapturedValues(w, e.repl)) THEN Undefined(w)
     ELSE IF old = {} THEN placed
     ELSE ReplaceCaptured(placed, mode, CHOOSE v \in old : TRUE, made)

\* One emit of a rule: make it, check its operands, put it in place.
ApplyMade(w, env, mode, e, made) ==
  IF ~made.ok \/ ~DominatedBy(w.prog, Consumed(w, env, e), InsertionPoint(w, mode))
    THEN Fail(w) ELSE PlaceEmit(w, mode, e, made)

ApplyEmit(w, env, mode, e) ==
  CASE w.phase # "running" -> w
    [] w.phase = "running" /\ Stale(w, Consumed(w, env, e)) -> Undefined(w)
    [] OTHER -> ApplyMade(w, env, mode, e, EmitInstruction(w, env, e))

\* EraseInstructionRange: all of it, its emits included, or nothing.
EraseInstructionRange(w, ends) ==
  LET block == w.prog.blocks[BlockOf(w.prog, ends[1])]
      range == {block[k] : k \in Position(w.prog, ends[1])..Position(w.prog, ends[2])}
  IN IF \E i \in range : Used(w.prog, i) THEN Fail(w) ELSE [w EXCEPT !.prog = Erase(@, range)]

\* The end of a replacement: erase what was matched.
EraseMatch(w, rule, instructions, ends) ==
  LET wired == \E e \in Range(rule.emits) : e.repl # None
  IN CASE w.phase # "running" \/ ~Erasing(rule.mode) -> w
       [] OTHER -> IF ~wired /\ Used(w.prog, instructions[1]) THEN Fail(w)
                   ELSE IF rule.mode = "replace"
                     THEN [w EXCEPT !.prog = EraseUnused(@, instructions)]
                   ELSE EraseInstructionRange(w, ends)

\* ApplyMatchRewrite.
ApplyMatchRewrite(w, env, rule, instructions) ==
  LET looked == IF rule.mode = "before" THEN {instructions[1], ResolveAnchor(instructions, rule)}
                ELSE Range(instructions)
      ends == ReplacementRange(w.prog, instructions, rule)
      anchored == [w EXCEPT !.anchor = ResolveAnchor(instructions, rule)]
  IN IF looked \ Live(w.prog) # {} THEN Undefined(w)
     ELSE IF \/ rule.mode # "before" /\ \E i \in looked : IsEnd(w.prog, i)
             \/ rule.mode = "replace_range" /\ ends = <<>>
       THEN Fail(w)
     ELSE EraseMatch(FoldLeft(LAMBDA u, e : ApplyEmit(u, env, rule.mode, e), anchored, rule.emits),
                     rule, instructions, ends)

\* apply_single_match: the match's captures go into the store, then it is rewritten.
ApplySingleMatch(w, env, rule, match) ==
  LET stored == [w EXCEPT !.store = match.captures @@ @, !.captures = match.captures]
  IN CASE w.phase # "running" -> w
       [] w.phase = "running" /\ rule.mode = "none" -> stored
       [] OTHER -> ApplyMatchRewrite(stored, env, rule, match.instructions)

MatchesToApply(rule, matches) ==
  CASE matches = <<>> -> <<>>
    [] matches # <<>> /\ rule.match = "match_all" -> matches
    [] matches # <<>> /\ rule.match = "last" -> <<Last(matches)>>
    [] OTHER -> <<Head(matches)>>

\* ApplyDxilRewriteRules: all matches are collected before the first is rewritten.
ApplyDxilRewriteRules(p, store, env, rule, matches) ==
  FoldLeft(LAMBDA w, m : ApplySingleMatch(w, env, rule, m),
           [prog |-> p, store |-> store, captures |-> <<>>, anchor |-> 0, emitted |-> {},
            phase |-> "running"],
           MatchesToApply(rule, matches))

\* export_as: the last constant captured by a match of the first pattern.
Exports(rule, matches, exports) ==
  LET named == SelectSeq(Head(rule.patterns).operands, LAMBDA o : o.export # None)
      value(m, o) == IF o.cap \in DOMAIN m.captures THEN m.captures[o.cap] ELSE <<"none">>
      one(e, m) == FoldLeft(LAMBDA f, o : IF value(m, o)[1] = "const" THEN (o.export :> value(m, o)) @@ f
                                          ELSE f, e, named)
  IN FoldLeft(one, exports, matches)
================================================================================
