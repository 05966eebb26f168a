------------------------------ MODULE MCSm6Recipe ------------------------------
(* Instances of Sm6Recipe for TLC: three shaders, and families of recipes.   *)
EXTENDS Sm6Reference, Sm6Match

Dxil(args, result, overloads, effect) ==
  [kind |-> "dxil", args |-> args, result |-> result, overloads |-> overloads, effect |-> effect]
Llvm(kind, args, result, effect) ==
  [kind |-> kind, args |-> args, result |-> result, overloads |-> {}, effect |-> effect]

MCOps ==
  [fmax |-> Dxil(<<"T", "T">>, "T", {"f32"}, FALSE),
   frc |-> Dxil(<<"T">>, "T", {"f32"}, FALSE),
   loadInput |-> Dxil(<<"i32">>, "T", {"f32", "i32"}, FALSE),
   storeOutput |-> Dxil(<<"i32", "T">>, "void", {"f32", "i32"}, TRUE),
   cbufferLoadLegacy |-> Dxil(<<"handle", "i32">>, "cbuf", {"f32", "i32"}, FALSE),
   textureLoad |-> Dxil(<<"handle", "i32">>, "res.f32", {"f32"}, FALSE),
   createHandle |-> Dxil(<<>>, "handle", {"void"}, FALSE),
   createHandleFromBinding |-> Dxil(<<>>, "handle", {"void"}, FALSE),
   annotateHandle |-> Dxil(<<"handle">>, "handle", {"void"}, FALSE),
   fadd |-> Llvm("binop", <<"T", "T">>, "T", FALSE),
   fptoui |-> Llvm("cast", <<"f32">>, "i32", FALSE),
   select |-> Llvm("select", <<"i1", "T", "T">>, "T", FALSE),
   extractvalue |-> Llvm("extract", <<>>, "T", FALSE),
   call |-> Llvm("call", <<>>, "T", TRUE),
   phi |-> Llvm("phi", <<>>, "T", FALSE),
   br |-> Llvm("end", <<>>, "void", TRUE),
   ret |-> Llvm("end", <<>>, "void", TRUE)]

--------------------------------------------------------------------------------
(* Shaders.                                                                  *)

Lit(n) == <<"const", "i32", n>>
I(op, type, args) == [op |-> op, type |-> type, args |-> args, data |-> <<>>]
F(op, args) == I(op, "f32", args)
Store(n, v) == I("storeOutput", "void", <<Lit(n), v>>)
V(i) == Inst(i)

NoResources == [SRV |-> <<>>, UAV |-> <<>>, CBV |-> <<>>, SAM |-> <<>>]
Game(name, lower, count, space) ==
  [lower |-> lower, space |-> space, count |-> count, owner |-> "game", name |-> name,
   fields |-> <<>>, size |-> 0, type |-> None]

\* A type that a shader before this one left: not annotated.
LeftType(sizes) == [k \in DOMAIN sizes |-> [offset |-> Unset, bytes |-> sizes[k], field |-> 0]]

\* A diamond: values of the entry used on both sides and behind the join.
Diamond ==
  [prog |->
     [code |-> <<F("loadInput", <<Lit(0)>>), F("loadInput", <<Lit(1)>>),
                 F("fmax", <<V(1), V(2)>>), F("frc", <<V(3)>>), I("br", "void", <<>>),
                 F("fmax", <<V(4), V(3)>>), I("br", "void", <<>>),
                 F("frc", <<V(3)>>), I("br", "void", <<>>),
                 [op |-> "phi", type |-> "f32", args |-> <<V(6), V(8)>>, data |-> <<"l", "r">>],
                 F("fmax", <<V(10), V(3)>>), F("frc", <<V(11)>>), Store(0, V(12)), Store(1, V(4)),
                 I("ret", "void", <<>>)>>,
      blocks |-> [e |-> <<1, 2, 3, 4, 5>>, l |-> <<6, 7>>, r |-> <<8, 9>>,
                  j |-> <<10, 11, 12, 13, 14, 15>>],
      order |-> [main |-> <<"e", "l", "r", "j">>],
      preds |-> [e |-> {}, l |-> {"e"}, r |-> {"e"}, j |-> {"l", "r"}]],
   resources |-> [NoResources EXCEPT !.CBV = <<Game("c", 0, 1, 0)>>],
   types |-> [left |-> LeftType(<<4, 4, 4, 4, 16>>)],
   signature |-> [INPUT |-> <<TRUE, TRUE>>, OUTPUT |-> <<TRUE, TRUE>>],
   sm66 |-> FALSE, version |-> 60, prerelease |-> FALSE]

\* A chain of like instructions, loads from an array of textures, and a dead value.
Chain ==
  [prog |->
     [code |-> <<[op |-> "createHandleFromBinding", type |-> "handle", args |-> <<>>,
                  data |-> [class |-> "SRV", id |-> 0, index |-> 1, space |-> 0]],
                 I("annotateHandle", "handle", <<V(1)>>),
                 I("textureLoad", "res.f32", <<V(2), Lit(0)>>),
                 [op |-> "extractvalue", type |-> "f32", args |-> <<V(3)>>, data |-> <<0>>],
                 F("fmax", <<V(4), V(4)>>), F("fmax", <<V(5), V(4)>>), F("fmax", <<V(6), V(5)>>),
                 F("frc", <<V(4)>>), Store(0, V(7)), I("ret", "void", <<>>)>>,
      blocks |-> [e |-> <<1, 2, 3, 4, 5, 6, 7, 8, 9, 10>>],
      order |-> [main |-> <<"e">>],
      preds |-> [e |-> {}]],
   resources |-> [NoResources EXCEPT !.SRV = <<Game("t0", 1, 2, 0), Game("t1", 0, 1, 1)>>],
   types |-> [left |-> LeftType(<<16>>)],
   signature |-> [INPUT |-> <<TRUE>>, OUTPUT |-> <<TRUE>>],
   sm66 |-> TRUE, version |-> 66, prerelease |-> FALSE]

MCShaders == {Diamond, Chain, [Chain EXCEPT !.prerelease = TRUE, !.version = 69]}
MCVariables == [two |-> 2]

--------------------------------------------------------------------------------
(* Rules.                                                                    *)

Operand(index, kind, cap) ==
  [index |-> index, kind |-> kind, cap |-> cap, mcap |-> None, consts |-> <<>>, type |-> None,
   pattern |-> {}, res |-> [class |-> None, lower |-> -1, space |-> -1], export |-> None,
   handle |-> None]
Cap(index, cap) == Operand(index, "call", cap)
Const(index, type, c) == [Operand(index, "constant", None) EXCEPT !.type = type, !.consts = <<c>>]
Handle(index, handle) == [Operand(index, "resource", None) EXCEPT !.handle = handle]

Pattern(op, cap, operands) ==
  [op |-> op, path |-> <<>>, cap |-> cap, mcap |-> None, operands |-> operands]

Emit(name, op, operands, repl) ==
  [NoEmit EXCEPT !.name = name, !.op = op, !.type = "f32", !.operands = operands, !.repl = repl]

Rule(patterns, match, mode, emits) ==
  [name |-> None, patterns |-> patterns, emits |-> emits, match |-> match, mode |-> mode,
   index |-> -1, from |-> 0, to |-> -1]

Default == [required |-> FALSE, when |-> {}, least |-> {}]
RuleStep(name, rule) == [kind |-> "rule", name |-> name, rule |-> rule] @@ Default
NoDecls == [SRV |-> <<>>, UAV |-> <<>>, CBV |-> <<>>, SAM |-> <<>>, INPUT |-> <<>>, OUTPUT |-> <<>>]
AddStep(name, decls) == [kind |-> "resource", name |-> name, decls |-> decls] @@ Default
FunctionStep(name, params, result, emits, return) ==
  [kind |-> "function", name |-> name, params |-> params, result |-> result, emits |-> emits,
   return |-> return] @@ Default

FMax == Pattern("fmax", "x", <<Cap(1, "a"), Cap(2, "b")>>)
Frc == Pattern("frc", "x", <<Cap(1, "a")>>)

Modes == {"none", "before", "after", "replace", "replace_range"}
Matching == {"first", "last", "match_all"}

One == Const(2, "f32", <<"lit", 1>>)

\* Emits over the value x that was matched and its operand a.
Emits ==
  {<<Emit("n", "frc", <<Cap(1, "x")>>, "x")>>,
   <<Emit("n", "fmax", <<Cap(1, "a"), One>>, "x")>>,
   <<Emit("n", "fadd", <<Cap(0, "a"), Const(1, "f32", <<"var", "two">>)>>, "x")>>,
   <<Emit("n", "frc", <<Cap(1, "a")>>, None), Emit("m", "fadd", <<Cap(0, "n"), Cap(1, "x")>>, "x")>>,
   <<Emit("n", "frc", <<Cap(1, "a")>>, "a")>>,
   <<Emit(None, "storeOutput", <<Const(1, "i32", <<"lit", 1>>), Cap(2, "x")>>, None)>>}

SingleRules ==
  {Rule(pats, match, mode, emits) :
     pats \in {<<FMax>>, <<Frc>>}, match \in Matching, mode \in Modes, emits \in Emits}

\* Windows of several instructions, offsets and anchors.
Windows ==
  {[Rule(pats, match, mode, emits) EXCEPT !.index = index, !.from = 0, !.to = to] :
     pats \in {<<Pattern("fmax", "p", <<Cap(1, "a")>>), Pattern("fmax", "x", <<Cap(1, "c")>>)>>,
               <<Pattern("fmax", "x", <<Cap(1, "a")>>), [Pattern("frc", "q", <<>>)
                   EXCEPT !.operands = <<[Cap(1, "z") EXCEPT !.mcap = "x"]>>]>>},
     match \in Matching, mode \in {"before", "after", "replace", "replace_range"},
     index \in {-1, 0}, to \in {-1, 1},
     emits \in {<<Emit("n", "frc", <<Cap(1, "a")>>, "x")>>}}

\* Phis, terminators, an operand that is missing, and one of another type.
Anchors ==
  {Rule(<<pat>>, "first", mode, emits) :
     pat \in {Pattern("phi", "x", <<Cap(0, "a")>>), Pattern("ret", "x", <<>>)},
     mode \in {"before", "after", "replace"},
     emits \in {<<Emit("n", "frc", <<Cap(1, "x")>>, "x")>>,
                <<Emit("n", "frc", <<Const(1, "f32", <<"lit", 1>>)>>, None)>>,
                <<Emit("n", "fmax", <<One>>, None)>>,
                <<Emit("n", "frc", <<Cap(1, "nowhere")>>, None)>>}}

\* Two steps: the second uses what the first captured, and may look for it.
Capturing ==
  {<<RuleStep("s", Rule(<<pat>>, match, mode, emits)),
     [RuleStep("t", Rule(<<[Pattern("frc", "y", <<Operand(1, "call", "d")>>) EXCEPT
                              !.operands = <<[Cap(1, "d") EXCEPT !.mcap = mcap]>>]>>,
                         "match_all", second, <<Emit("k", "fadd", <<Cap(0, "y"), Cap(1, cap)>>, "y")>>))
      EXCEPT !.when = {"s"}, !.required = TRUE]>> :
     pat \in {FMax}, match \in Matching, mode \in {"none", "before", "replace"},
     emits \in {<<Emit("n", "fmax", <<Cap(1, "a"), One>>, "x")>>},
     mcap \in {None, "x"}, second \in {"after", "replace"}, cap \in {"x", "a", "d"}}

--------------------------------------------------------------------------------
(* Resources and functions.                                                  *)

D(handle, lower, space) == [handle |-> handle, lower |-> lower, space |-> space]
CB(handle, lower, space, size, data) ==
  D(handle, lower, space) @@ [size |-> size, type |-> None, data |-> data]
Field(name, width, offset) ==
  [name |-> name, type |-> "F32", width |-> width, offset |-> offset, default |-> Unset]

\* Up to two declarations of textures, in spaces, and with a taken register.
Textures == {<<D("t", lower, space)>> : lower \in {-1, 0, 1, 2}, space \in {-1, 0, 1}}
            \cup {<<D("t", -1, -1), D("u", lower, space)>> : lower \in {-1, 0}, space \in {-1, 1}}

LoadTexture(handle) ==
  RuleStep("r", Rule(<<Frc>>, "first", "after",
    <<[Emit("l", "textureLoad", <<Handle(1, handle), Const(2, "i32", <<"lit", 0>>)>>, None)
        EXCEPT !.type = "f32"],
      [NoEmit EXCEPT !.name = "v", !.extract = <<"l", <<"lit", 0>>>>, !.repl = "x"]>>))

Texturing ==
  {<<[AddStep("s", [NoDecls EXCEPT !.SRV = ts, !.INPUT = <<D("i", -1, 0), D("o", -1, 0)>>])
      EXCEPT !.required = required], LoadTexture(Last(ts).handle)>> :
     ts \in Textures, required \in BOOLEAN}

\* A rule on the loads of one resource: in the middle of an array its index is
\* taken for a number.
OnResource ==
  {<<AddStep("s", [NoDecls EXCEPT !.SAM = <<D("sam", -1, 0)>>, !.UAV = <<D("", 0, 0), D("w", 3, -1)>>]),
     RuleStep("r", Rule(<<[Pattern("textureLoad", "x", <<>>) EXCEPT !.operands =
         <<[Operand(1, "resource", "h") EXCEPT !.res = [class |-> "SRV", lower |-> lower, space |-> -1]],
           [Operand(2, "constant", "n") EXCEPT !.export = "index"]>>]>>,
        "first", "after", <<[NoEmit EXCEPT !.name = "v", !.extract = <<"x", <<"var", "n">>>>]>>))>> :
     lower \in {-1, 0, 1}}

Layouts == {<<Field("f", w1, -1), Field("g", w2, o)>> : w1 \in 1..3, w2 \in 1..4, o \in {-1, 4, 12, 16, 20}}
           \cup {<<>>}

Buffers ==
  {<<AddStep("s", [NoDecls EXCEPT !.CBV = <<CB("c", -1, 0, size, data)>>]),
     RuleStep("r", Rule(<<Frc>>, "last", "after",
       <<[NoEmit EXCEPT !.name = "v", !.field = <<"c", "g", component>>, !.repl = "x"]>>))>> :
     data \in Layouts, size \in {0, 48}, component \in {0, 3}}

\* Cbuffers that share a type: by its name, by the name of the handle, or with a shader
\* that was patched before.
Shared == {<<Field("f", 1, -1), Field("g", 4, -1)>>, <<Field("h", 4, -1), Field("g", 1, -1)>>,
           <<Field("f", 4, -1)>>, <<>>}

SizeOf(data) == IF data = <<>> THEN 20 ELSE 0

Sharing ==
  {<<AddStep("s", [NoDecls EXCEPT !.CBV =
       <<[CB("c", -1, 0, SizeOf(one), one) EXCEPT !.type = types[1]]>>]),
     AddStep("t", [NoDecls EXCEPT !.CBV =
       <<[CB(handle, -1, 0, SizeOf(other), other) EXCEPT !.type = types[2]]>>]),
     RuleStep("r", Rule(<<Frc>>, "last", "after",
       <<[NoEmit EXCEPT !.name = "v", !.field = <<handle, "g", 0>>, !.repl = "x"]>>))>> :
     one \in Shared, other \in Shared, handle \in {"c", "d"},
     types \in {<<None, None>>, <<"left", "left">>, <<"left", None>>, <<None, "c_t">>}}

\* A function that calls another, used or not, with a resource of its own.
Body1 == <<Emit("h", "frc", <<Cap(1, "p")>>, None),
           Emit("k", "fadd", <<Cap(0, "h"), Cap(1, "p")>>, None)>>
Loading == <<[Emit("l", "cbufferLoadLegacy", <<Handle(1, "c"), Const(2, "i32", <<"lit", 0>>)>>, None)
               EXCEPT !.type = "f32"],
             [NoEmit EXCEPT !.name = "k", !.extract = <<"l", <<"lit", 1>>>>]>>
CallEmit(name, fn, operands, repl) ==
  [NoEmit EXCEPT !.name = name, !.fn = fn, !.operands = operands, !.repl = repl]

Functions ==
  {<<AddStep("s", [NoDecls EXCEPT !.CBV = <<CB("c", -1, 0, 16, <<>>)>>]),
     FunctionStep("f", <<<<"p", "f32">>>>, "f32", body, {Cap(0, "k")}),
     FunctionStep("g", <<<<"q", "f32">>>>, "f32", <<CallEmit("z", "f", <<Cap(0, "q")>>, None)>>,
                  {Cap(0, "z")}),
     RuleStep("r", Rule(<<Frc>>, match, mode, <<emit>>))>> :
     body \in {Body1, Loading}, match \in Matching, mode \in {"after", "replace"},
     emit \in {CallEmit("v", "f", <<Cap(0, "a")>>, "x"), CallEmit("v", "g", <<Cap(0, "a")>>, "x"),
               Emit("v", "fmax", <<Cap(1, "a"), One>>, "x"), CallEmit("v", "g", <<>>, "x")}}

\* Conditions on counts and versions, aliases, casts and selects.
Checks ==
  {<<[kind |-> "version", name |-> "v", version |-> 60] @@ [Default EXCEPT !.required = required],
     [kind |-> "count", name |-> "n"] @@ Default,
     [RuleStep("r", Rule(<<FMax>>, "last", "after",
        <<[Emit("i", "fptoui", <<Cap(0, "x")>>, None) EXCEPT !.type = "i32"],
          [NoEmit EXCEPT !.name = "y", !.alias = "a"],
          Emit("z", "select", <<Const(0, "i1", <<"lit", 1>>), Cap(1, "y"), Cap(2, "x")>>, "x")>>))
      EXCEPT !.least = {<<"n", count, 1>>}]>> :
     required \in BOOLEAN, count \in {"fmax", "CBV", "UAV"}}

MCRecipes ==
  {<<RuleStep("s", r)>> : r \in SingleRules \cup Windows \cup Anchors}
  \cup Capturing \cup Texturing \cup OnResource \cup Buffers \cup Sharing \cup Functions
  \cup Checks
================================================================================
