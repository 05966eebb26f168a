----------------------------- MODULE MCSm5Program ------------------------------
(* Instances of Sm5Program: what a compiler emits for a small pixel shader, in *)
(* containers with and without chunks the patcher cannot read, and recipes of  *)
(* a template and an add_resource step.                                        *)
EXTENDS Sm5Program, Sm5Tokens

Reg(type, comps, mode, n) == <<OperandToken(type, comps, mode, <<"imm32">>, FALSE), Value(n)>>
Negated(type, mode, n) ==
  <<OperandToken(type, 4, mode, <<"imm32">>, TRUE), ExtToken("neg", FALSE), Value(n)>>
Literal4 == <<OperandToken("imm32", 4, 0, <<>>, FALSE), Value(1), Value(0), Value(0), Value(7)>>
\* cb0[r0.x + 1]
Relative ==
  <<OperandToken("cbuffer", 4, 228, <<"imm32", "imm32rel">>, FALSE), Value(0), Value(1)>>
  \o Reg("temp", 4, 10, 0)
Op(op, ctl, body) == <<OpToken(op, 1 + Len(body), FALSE, ctl)>> \o body
Ld(body) ==
  <<OpToken("ld", 3 + Len(body), TRUE, {}), ExtToken("texture2d", TRUE), ExtToken("uint", FALSE)>>
  \o body
CustomData ==
  <<OpToken("customdata", 0, FALSE, {<<"class", "icb">>}), Value(4), Value(9), Value(9)>>

Head1 ==
  Op("dcl_global_flags", {<<"flags", "refactoring">>}, <<>>)
  \o CustomData
  \o Op("dcl_cb", {<<"access", "dynamic">>},
        <<OperandToken("cbuffer", 4, 228, <<"imm32", "imm32">>, FALSE), Value(0), Value(2)>>)
  \o Op("dcl_sampler", {<<"mode", "comparison">>}, Reg("sampler", 0, 0, 0))
  \o Op("dcl_resource", {<<"dimension", "texture3d">>}, Reg("resource", 0, 0, 0) \o <<Value(4)>>)
  \o Op("dcl_resource_structured", {}, Reg("resource", 0, 0, 2) \o <<Value(16)>>)
  \o Op("dcl_input_ps", {<<"interpolation", "noperspective">>}, Reg("input", 4, 48, 0))
  \o Op("dcl_input_ps_sgv", {<<"interpolation", "constant">>},
        Reg("input", 4, 16, 1) \o <<Value(9)>>)
  \o Op("dcl_output", {}, Reg("output", 4, 48, 0))
  \o Op("dcl_output", {}, Reg("output", 4, 192, 0))

Code ==
  Ld(Reg("temp", 4, MaskAll, 0) \o Negated("temp", 228, 1) \o Reg("resource", 4, 228, 0))
  \o Op("mad", {<<"saturate", 1>>}, Reg("output", 4, MaskAll, 0) \o Relative \o Literal4
                                    \o Negated("temp", 228, 0))
  \o Op("if", {<<"test_boolean", "nz">>}, Reg("temp", 1, 0, 1))
  \o Op("endif", {}, <<>>)
  \o Op("ret", {}, <<>>)

WithLength(body) == <<Value(50), Value(2 + Len(body))>> \o body

Full == WithLength(Head1 \o Op("dcl_temps", {}, <<Value(2)>>) \o Code)
NoTemps == WithLength(Op("dcl_output", {}, Reg("output", 4, MaskAll, 0))
                      \o Op("mov", {}, Reg("output", 4, MaskAll, 0) \o Literal4)
                      \o Op("ret", {}, <<>>))
Chunk(kind, size, data) == [kind |-> kind, size |-> size, data |-> data]
Shader(ws) == Chunk("shader", 4 * Len(ws), ws)

Plain(cs) == Layout(cs)
Other(n) == Chunk("stat", n, n)

\* A table in another order than the chunks, with an entry that points past the end.
Shuffled(cs) ==
  LET c == Layout(cs)
      beyond == c.size - 4
  IN [c EXCEPT !.offsets = <<beyond>> \o Tail(@) \o <<Head(@)>>,
               !.at = [o \in DOMAIN @ \cup {beyond} |->
                         IF o = beyond THEN Other(64) ELSE @[o]]]

MCInputs ==
  {Plain(<<Chunk("rdef", 5, "names"), Shader(Full), Other(7)>>),
   Plain(<<Shader(NoTemps), Other(4)>>),
   Shuffled(<<Shader(Full), Other(10)>>),
   [Plain(<<Shader(NoTemps)>>) EXCEPT !.total = @ + 1],
   Plain(<<Other(8)>>)}

ClassOrder == <<"texture", "raw_resource", "structured_resource", "cbuffer", "sampler",
                "uav", "input", "output">>
MCMaxBindPoint == [c \in Range(ClassOrder) |-> 2]

Decl(class, handle, register, reverse) ==
  [class |-> class, handle |-> handle, register |-> register, reverse |-> reverse,
   elements |-> 3, kind |-> IF handle = "h1" THEN "dcl_uav_structured" ELSE "dcl_uav_raw"]

Placements == {<<NoRegister, FALSE>>, <<NoRegister, TRUE>>, <<1, FALSE>>, <<3, FALSE>>}

\* Two declarations, in the order of the step's lists.
Pairs ==
  {<<Decl(ClassOrder[c], "h1", p[1], p[2]), Decl(ClassOrder[d], "h2", q[1], q[2])>> :
     c \in 1..8, d \in 1..8, p \in Placements, q \in Placements}
InOrder(pair) ==
  \E c, d \in 1..8 : c <= d /\ pair[1].class = ClassOrder[c] /\ pair[2].class = ClassOrder[d]

Add(decls, handles, required) ==
  [type |-> "add_resource", decls |-> decls, temps |-> handles, required |-> required]
Template(n) == [type |-> "declare_template", temps |-> n]
Temp(h, n) == [handle |-> h, count |-> n]

TempRecipes ==
  {<<Template(m), Template(n), Add(<<>>, <<Temp("a", 2), Temp("b", 1)>>, r),
     Add(<<>>, <<Temp("c", k)>>, r)>> :
     m \in 0..2, n \in 0..3, k \in 1..2, r \in BOOLEAN}

MCRecipes ==
  {<<Add(pair, <<>>, r)>> : pair \in {p \in Pairs : InOrder(p)}, r \in BOOLEAN} \cup TempRecipes

TextureRecipes == {<<Add(<<Decl("texture", "h1", NoRegister, FALSE),
                           Decl("texture", "h2", NoRegister, FALSE)>>, <<>>, TRUE)>>}

================================================================================
