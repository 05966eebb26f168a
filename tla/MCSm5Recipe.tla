---------------------------- MODULE MCSm5Recipe ----------------------------
(* Instances of Sm5Recipe for TLC: all programs up to MaxLength over two   *)
(* opcodes and a return, and families of recipes.                          *)
EXTENDS Sm5Recipe

CONSTANTS a, b, ret, dcl, MaxLength

SeqsUpTo(n) == UNION {[1 .. k -> {a, b, ret}] : k \in 1 .. n}

EmitOps(ops) == [before |-> ops, blob |-> 0, after |-> <<>>]
EmitBlob(n) == [before |-> <<>>, blob |-> n, after |-> <<b>>]

ARule(match, mode, rewrite, at, from, to, emit) ==
  [match |-> match, match_mode |-> mode, rewrite_mode |-> rewrite, insert_index |-> at,
   start_offset |-> from, end_offset |-> to, emit |-> emit, export |-> TRUE]

NoRule == ARule(<<>>, "first", "replace", -1, 0, -1, EmitOps(<<>>))

AStep(kind, rule) ==
  [kind |-> kind, required |-> FALSE, when |-> 0, rule |-> rule, start |-> a, end |-> b,
   emit_blob |-> "none", scope |-> 0, ok |-> FALSE]

(* Rules for a pattern: every rewrite mode with every outcome of the       *)
(* checks of its offsets.                                                  *)
RulesFor(match, mode, emit) ==
  {ARule(match, mode, rewrite, -1, 0, -1, emit) :
     rewrite \in {"none", "replace", "before_last_return"}}
  \cup {ARule(match, mode, rewrite, at, 0, -1, emit) :
          rewrite \in {"before", "after"}, at \in {-1, 0, 1}}
  \cup {ARule(match, mode, "replace_range", -1, range[1], range[2], emit) :
          range \in {<<1, -1>>, <<0, 0>>, <<1, 0>>}}

SingleRules ==
  UNION {RulesFor(match, mode, EmitOps(emit)) :
           match \in {<<a>>, <<a, a>>, <<a, b>>},
           mode \in {"first", "last", "match_all"}, emit \in {<<b>>, <<b, a>>}}

(* One rule on the shader.                                                 *)
SingleSteps == {<<AStep("rule", r)>> : r \in SingleRules}

InteriorRules ==
  {NoRule} \cup UNION {RulesFor(match, "match_all", EmitOps(emit)) :
                         match \in {<<a>>, <<a, a>>}, emit \in {<<>>, <<b>>}}

(* A window with an interior rule, landed in every way, and a stored blob  *)
(* that is edited and inserted before the last return.                     *)
BlobSteps(rules) ==
  {[AStep("blob", [r EXCEPT !.match_mode = mode]) EXCEPT !.emit_blob = emit, !.end = end] :
     r \in rules, mode \in {"first", "match_all"}, emit \in {"none", "replace", "before", "after"},
     end \in {a, b}}

Scoped == {[AStep("scope", r) EXCEPT !.scope = 1] : r \in InteriorRules \ {NoRule}}
Landing(n) == [AStep("rule", ARule(<<>>, "first", "before_last_return", -1, 0, -1, EmitBlob(n)))
                 EXCEPT !.when = 1]

BlobRecipes ==
  {<<s>> : s \in BlobSteps(InteriorRules)}
  \cup {<<[AStep("blob", NoRule) EXCEPT !.end = end], s, Landing(1)>> :
          end \in {a, b}, s \in Scoped}

(* What the engine does with required steps, conditions and declarations.  *)
EngineSteps ==
  {[AStep("check", NoRule) EXCEPT !.ok = ok] : ok \in BOOLEAN}
  \cup {AStep("add", NoRule), AStep("blob", NoRule)}
  \cup {AStep("rule", ARule(<<b>>, "first", rewrite, -1, 0, -1, EmitOps(<<a>>))) :
          rewrite \in {"none", "replace"}}

EngineRecipes ==
  {<<[s EXCEPT !.required = required], [t EXCEPT !.when = when], AStep("rule", ARule(<<a>>, "first", "replace", -1, 0, -1, EmitOps(<<b>>)))>> :
     s \in EngineSteps, t \in EngineSteps, required \in BOOLEAN, when \in {0, 1}}

MCPrograms == SeqsUpTo(MaxLength)
MCRecipes == SingleSteps \cup BlobRecipes \cup EngineRecipes
=============================================================================
