------------------------------ MODULE Sm5Program -------------------------------
(***************************************************************************)
(* One run of the SM5 engine over a shader container, as far as containers *)
(* and declarations go: the container is opened and its shader parsed      *)
(* (ShaderProgram::FromBytes), declare_template and add_resource steps     *)
(* reserve temporaries and declare resources (AddResourceStep.cpp,         *)
(* DeclareTemplateStep.cpp), and the result is serialized and reported     *)
(* (Recipe.cpp, ShaderProgram::Serialize).                                 *)
(*                                                                         *)
(* A container is [signature, size, total, offsets, at]: `size' bytes, of  *)
(* which the header claims `total', a table of chunk offsets, and at each  *)
(* offset a chunk [kind, size, data]; the data of a shader chunk are its   *)
(* tokens.  How tokens are read and written is not part of this module:    *)
(* Parser and Serializer are given by Sm5Tokens.                           *)
(***************************************************************************)
EXTENDS Sm5Instructions, FiniteSets

CONSTANTS
  Parser(_),        \* the instructions of a shader's tokens
  Serializer(_, _), \* the tokens of a version and instructions
  Inputs,       \* the containers that may be opened
  Recipes,      \* the recipes: sequences of steps
  MaxBindPoint, \* resource class -> its largest register (127, 14, 15, 63, 31, 7)
  MaxTemps      \* kMaxTempRegisters, 256

NoRegister == -1  \* a declaration without register_index; an allocation that failed

VARIABLES
  phase,     \* "closed", "steps", "adding", "done" or "failed"
  input,     \* the container
  chunks,    \* the chunks of the program, in offset order
  prog,      \* instructions, temp_count and the overlays the parser filled
  steps,     \* the steps of the recipe still to run
  todo,      \* the declarations the current add_resource step has left
  temps,     \* the temporaries it has left
  offset,    \* the registers it has given to temporaries
  bindings,  \* class -> handle -> register
  widths,    \* handle of a temporary -> its registers; only TempsApart reads it
  pool,      \* [base, size] of the registers templates use
  reserved,  \* reserved_temp_base: the temporaries of the original program
  changed,   \* the current step has added something
  modified,  \* ctx.program_modified
  output     \* the container the run returns

vars == <<phase, input, chunks, prog, steps, todo, temps, offset, bindings, widths, pool,
          reserved, changed, modified, output>>

--------------------------------------------------------------------------------
(* The container.                                                          *)

HeaderSize == 32
ChunkHeader == 8

(* Mutant: sizes are rounded down.                                         *)
Mut_AlignToDword(n) == (n \div 4) * 4

AlignToDword(n) == ((n + 3) \div 4) * 4

\* Why FromBytes refuses a container.
Rejected(c) ==
  \/ c.size < HeaderSize
  \/ ~c.signature
  \/ c.total # c.size
  \/ HeaderSize + 4 * Len(c.offsets) > c.size

\* The values of s in ascending order: the place of s[k] is the number of those
\* that come before it.
Ascending(s) ==
  LET before(k) == {j \in DOMAIN s : s[j] < s[k] \/ (s[j] = s[k] /\ j < k)}
  IN [n \in DOMAIN s |-> s[CHOOSE k \in DOMAIN s : Cardinality(before(k)) = n - 1]]

\* The chunk at o lies in the file.
Fits(c, o) ==
  /\ o + ChunkHeader <= c.size
  /\ o + ChunkHeader + c.at[o].size <= c.size

\* Chunks are read in the order of their offsets; one that does not fit is left out.
ReadChunks(c) ==
  LET sorted == Ascending(c.offsets)
      read[n \in 0..Len(sorted)] ==
        IF n = 0 THEN <<>>
        ELSE IF Fits(c, sorted[n]) THEN Append(read[n - 1], c.at[sorted[n]])
        ELSE read[n - 1]
  IN read[Len(sorted)]

\* GetShaderChunk: the first one, or 0.
ShaderChunk(cs) ==
  LET shaders == {k \in DOMAIN cs : cs[k].kind = "shader"}
  IN IF shaders = {} THEN 0 ELSE Min(shaders)

Register(ins) == ins.operands[1].entries[1].lo[1].mode

\* The places at which one of the opcodes ops declares a register.
Declares(ins, ops) ==
  ins.op \in ops /\ ins.operands # <<>> /\ ins.operands[1].entries # <<>>

Declaring(instructions, ops) == {k \in DOMAIN instructions : Declares(instructions[k], ops)}

Registers(instructions, ops) ==
  {Register(instructions[k]) : k \in Declaring(instructions, ops)}

\* ParseProgramImpl and UpdateDeclarationOverlay.  The overlays are what the
\* parser saw: the Add functions below do not extend them.
Parsed(cs) ==
  LET s == ShaderChunk(cs)
      instructions == IF s = 0 \/ cs[s].data = <<>> THEN <<>> ELSE Parser(cs[s].data)
      counts == Declaring(instructions, {"dcl_temps"})
  IN [instructions |-> instructions,
      temp_count |-> IF counts = {} THEN 0 ELSE Register(instructions[Max(counts)]),
      resources |-> Registers(instructions, DclResources),
      samplers |-> Registers(instructions, {"dcl_sampler"}),
      cbuffers |-> Registers(instructions, {"dcl_cb"})]

Offsets(cs, header) ==
  LET offset_of[k \in DOMAIN cs] ==
        IF k = 1 THEN header
        ELSE offset_of[k - 1] + AlignToDword(ChunkHeader + cs[k - 1].size)
  IN offset_of

\* Serialize: the shader chunk gets the program's tokens; the other chunks are
\* written as they were read.  `None' stands for a serialization that failed.
None == [size |-> 0]

SerializedChunks(cs, version, instructions) ==
  LET s == ShaderChunk(cs)
      tokens == Serializer(version, instructions)
  IN IF s = 0 THEN cs
     ELSE [cs EXCEPT ![s] = [@ EXCEPT !.data = tokens, !.size = 4 * Len(tokens)]]

Layout(cs) ==
  LET header == HeaderSize + 4 * Len(cs)
      offsets == Offsets(cs, header)
      end == IF cs = <<>> THEN header
             ELSE offsets[Len(cs)] + AlignToDword(ChunkHeader + cs[Len(cs)].size)
  IN [signature |-> TRUE, size |-> AlignToDword(end), total |-> AlignToDword(end),
      offsets |-> offsets,
      at |-> [o \in {offsets[k] : k \in DOMAIN cs} |->
                cs[CHOOSE k \in DOMAIN cs : offsets[k] = o]]]

Serialize(cs, version, instructions) ==
  IF cs = <<>> THEN None ELSE Layout(SerializedChunks(cs, version, instructions))

\* The checksum runs over the container without its first 20 bytes.  It is MD5
\* without MD5's padding: HashInput(n) is what is fed for n bytes, as a sequence
\* of <<what, bytes>>, where "a" and "b" are the two length words.
HashBlock == 64

(* Mutant: a remainder that leaves no room for the marker byte.            *)
Mut_HashInput(n) ==
  LET remainder == n % HashBlock
      padding == HashBlock - remainder
      rest == IF remainder = 0 THEN <<>> ELSE <<<<"data", remainder>>>>
      whole == IF n = remainder THEN <<>> ELSE <<<<"data", n - remainder>>>>
  IN whole \o (IF remainder > 56
                 THEN rest \o <<<<"pad", padding>>, <<"a", 4>>, <<"zero", HashBlock - 8>>,
                                <<"b", 4>>>>
                 ELSE <<<<"a", 4>>>> \o rest \o <<<<"pad", padding - 8>>, <<"b", 4>>>>)

HashInput(n) ==
  LET remainder == n % HashBlock
      padding == HashBlock - remainder
      rest == IF remainder = 0 THEN <<>> ELSE <<<<"data", remainder>>>>
      whole == IF n = remainder THEN <<>> ELSE <<<<"data", n - remainder>>>>
  IN whole \o (IF remainder >= 56
                 THEN rest \o <<<<"pad", padding>>, <<"a", 4>>, <<"zero", HashBlock - 8>>,
                                <<"b", 4>>>>
                 ELSE <<<<"a", 4>>>> \o rest \o <<<<"pad", padding - 8>>, <<"b", 4>>>>)

--------------------------------------------------------------------------------
(* Declarations.                                                           *)

Textures == {"texture", "raw_resource", "structured_resource"}
Classes == Textures \cup {"cbuffer", "sampler", "uav", "input", "output"}

\* The opcodes of a class, and the one a declaration of the class is made with.
DeclaredBy(class) ==
  CASE class \in Textures -> DclResources
    [] class = "cbuffer" -> {"dcl_cb"}
    [] class = "sampler" -> {"dcl_sampler"}
    [] class = "uav" -> DclUavs
    [] class = "input" -> DclInputs
    [] class = "output" -> DclOutputs

DeclareOp(decl) ==
  CASE decl.class = "texture" -> "dcl_resource"
    [] decl.class = "raw_resource" -> "dcl_resource_raw"
    [] decl.class = "structured_resource" -> "dcl_resource_structured"
    [] decl.class = "uav" -> decl.kind
    [] decl.class = "input" -> "dcl_input_ps"
    [] decl.class = "output" -> "dcl_output"
    [] OTHER -> CHOOSE op \in DeclaredBy(decl.class) : TRUE

\* The opcodes a new declaration goes behind.
InsertBehind(decl) ==
  CASE decl.class = "uav" -> {"dcl_uav_typed"}
    [] decl.class = "input" -> DclInputsPs \cup {"dcl_input"}
    [] decl.class = "output" -> DclOutputs
    [] OTHER -> {DeclareOp(decl)}

\* FindNextAvailable*: looks at the overlays, for a UAV at that of the textures.
\* Inputs and outputs are looked up in the instructions.
SeenByFind(class) ==
  CASE class \in Textures \cup {"uav"} -> prog.resources
    [] class = "cbuffer" -> prog.cbuffers
    [] class = "sampler" -> prog.samplers
    [] OTHER -> Registers(prog.instructions, DeclaredBy(class))

\* Add*Declaration: what the declaration must not collide with.
(* Mutant: the overlays, which do not know what the recipe has added.      *)
Mut_SeenByAdd(decl) == SeenByFind(decl.class)

SeenByAdd(decl) ==
  CASE decl.class = "cbuffer" -> prog.cbuffers
    [] decl.class = "input" -> Registers(prog.instructions, InsertBehind(decl))
    [] OTHER -> Registers(prog.instructions, DeclaredBy(decl.class))

\* The first register that is not taken, from 0 up or from max down.
Free(taken, max, reverse) ==
  LET below == 0..max \ taken
  IN IF ~reverse THEN Min(0..Cardinality(taken) \ taken)
     ELSE IF below = {} THEN NoRegister ELSE Max(below)

AllocateBindPoint(decl, taken, max) ==
  IF decl.register # NoRegister
    THEN IF decl.register \in taken THEN NoRegister ELSE decl.register
    ELSE Free(taken, max, decl.reverse)

\* Build*Declaration.
MaskAll == 240
DeclarationOperand(decl, r) ==
  CASE decl.class \in Textures -> NumberOperand("resource", 0, <<r>>)
    [] decl.class = "uav" -> NumberOperand("uav", 0, <<r>>)
    [] decl.class = "sampler" -> NumberOperand("sampler", 0, <<r>>)
    [] decl.class = "cbuffer" -> NumberOperand("cbuffer", 4, <<r, decl.elements>>)
    [] OTHER -> [NumberOperand(decl.class, 4, <<r>>) EXCEPT !.mode = MaskAll]

DeclarationControls(decl) ==
  CASE decl.class = "texture" ->
         {<<"dimension", "texture2d">>, <<"return", FloatReturn>>}
    [] decl.class = "structured_resource" -> {<<"stride", Value(16)>>}
    [] decl.class = "uav" -> {<<"uav_flags", "coherent">>}
                             \cup (IF decl.kind = "dcl_uav_structured"
                                     THEN {<<"stride", Value(16)>>} ELSE {})
    [] decl.class = "cbuffer" -> {<<"access", "immediate">>}
    [] decl.class = "sampler" -> {<<"mode", "default">>}
    [] decl.class = "input" -> {<<"interpolation", "linear">>}
    [] OTHER -> {}

BuildDeclaration(decl, r) ==
  Instruction(DeclareOp(decl), DeclarationControls(decl), <<>>,
              <<DeclarationOperand(decl, r)>>, <<>>)

\* FindInsertAfterLastDeclaration: 0 when there is none.
(* Mutant: the end of the program when there is none.                      *)
Mut_LastOf(instructions, ops) ==
  LET at == {k \in DOMAIN instructions : instructions[k].op \in ops}
  IN IF at = {} THEN Len(instructions) ELSE Max(at)

LastOf(instructions, ops) ==
  LET at == {k \in DOMAIN instructions : instructions[k].op \in ops}
  IN IF at = {} THEN 0 ELSE Max(at)

InsertAfter(instructions, ops, new) ==
  LET k == LastOf(instructions, ops)
  IN SubSeq(instructions, 1, k) \o <<new>> \o SubSeq(instructions, k + 1, Len(instructions))

TempDeclaration(count) ==
  Instruction("dcl_temps", {}, <<>>, <<NumberOperand("temp", 0, <<count>>)>>, <<>>)

\* EnsureTempDeclaration: the first dcl_temps is replaced, or one is added
\* behind the last declaration.
EnsureTempDeclaration(instructions, count) ==
  LET declared == {k \in DOMAIN instructions : instructions[k].op = "dcl_temps"}
      new == TempDeclaration(count)
  IN IF count = 0 THEN instructions
     ELSE IF declared = {} THEN InsertAfter(instructions, Declarations, new)
     ELSE [instructions EXCEPT ![Min(declared)] = new]

\* BuildDeclarationIndex: what the rules learn about each register; of two
\* declarations of a register the last one counts.
IndexedAs(ins) ==
  CASE ins.op = "dcl_resource" ->
         <<Field(ins.ctl, "dimension", "unknown"), Field(ins.ctl, "return", FloatReturn)>>
    [] ins.op \in DclResources \cup DclUavs -> <<ins.op>>
    [] ins.op = "dcl_sampler" -> <<Field(ins.ctl, "mode", "default")>>
    [] ins.op = "dcl_cb" -> <<Field(ins.ctl, "access", "immediate"),
                              ins.operands[1].entries[2].lo[1]>>
    [] OTHER -> <<ins.operands[1].mode, Field(ins.ctl, "semantic", 0),
                  Field(ins.ctl, "interpolation", "none")>>

DeclarationIndex(instructions, class) ==
  LET ops == DeclaredBy(class)
      declaring(r) == {k \in DOMAIN instructions : r \in Registers(<<instructions[k]>>, ops)}
  IN [r \in Registers(instructions, ops) |-> IndexedAs(instructions[Max(declaring(r))])]

--------------------------------------------------------------------------------
(* What is known of the constants.                                         *)

\* The maxima of Recipe.cpp and AddResourceStep.cpp.
ASSUME BindPointsAssumption == MaxBindPoint \in [Classes -> Nat]

\* A container is a file: its table holds numbers, and so does the header of what
\* begins inside it.
ASSUME InputsAssumption ==
  \A c \in Inputs :
    /\ c.size \in Nat /\ c.offsets \in Seq(Nat)
    /\ \A o \in Range(c.offsets) : o + ChunkHeader <= c.size =>
         DOMAIN c.at[o] = {"kind", "size", "data"} /\ c.at[o].size \in Nat

\* A parser makes sequences of instructions, and what it reads as the operand of
\* a dcl_temps is a number.
ASSUME ParserAssumption ==
  \A c \in Inputs : ~Rejected(c) =>
    LET instructions == Parsed(ReadChunks(c)).instructions
    IN /\ instructions \in Seq(Range(instructions))
       /\ \A k \in Declaring(instructions, {"dcl_temps"}) : Register(instructions[k]) \in Nat

\* What a recipe may hold: no temporary is empty (Validate, AddResourceStep.cpp).
IsDeclaration(decl) ==
  /\ decl.class \in Classes
  /\ decl.class = "uav" => decl.kind \in DclUavs
  /\ decl.reverse \in BOOLEAN

IsStep(step) ==
  \/ step.type = "declare_template" /\ step.temps \in Nat
  \/ /\ step.type = "add_resource"
     /\ step.decls \in Seq(Range(step.decls))
     /\ \A decl \in Range(step.decls) : IsDeclaration(decl)
     /\ step.temps \in Seq(Range(step.temps))
     /\ \A temp \in Range(step.temps) : temp.count \in Nat \ {0}

ASSUME RecipesAssumption ==
  \A recipe \in Recipes :
    recipe \in Seq(Range(recipe)) /\ \A step \in Range(recipe) : IsStep(step)

--------------------------------------------------------------------------------
(* The run.                                                                *)

NoBindings == [c \in Classes \cup {"temp"} |-> <<>>]

Init ==
  /\ phase = "closed"
  /\ input \in Inputs
  /\ steps \in Recipes
  /\ chunks = <<>> /\ todo = <<>> /\ temps = <<>> /\ offset = 0
  /\ prog = Parsed(<<>>)
  /\ bindings = NoBindings /\ widths = <<>>
  /\ pool = [base |-> 0, size |-> 0]
  /\ reserved = 0
  /\ changed = FALSE /\ modified = FALSE
  /\ output = None

\* FromBytes, and the context the engine starts from.
Open ==
  /\ phase = "closed"
  /\ IF Rejected(input)
       THEN phase' = "failed" /\ UNCHANGED <<chunks, prog, reserved>>
       ELSE LET cs == ReadChunks(input)
                p == Parsed(cs)
            IN IF p.instructions = <<>> /\ p.temp_count = 0
                 THEN phase' = "failed" /\ UNCHANGED <<chunks, prog, reserved>>
                 ELSE /\ phase' = "steps"
                      /\ chunks' = cs
                      /\ prog' = p
                      /\ reserved' = p.temp_count
  /\ UNCHANGED <<input, steps, todo, temps, offset, bindings, widths, pool, changed, modified,
                 output>>

\* DeclareTemplateStep: the pool is as wide as the widest template.
DeclareTemplate ==
  /\ phase = "steps" /\ steps # <<>> /\ Head(steps).type = "declare_template"
  /\ pool' = [base |-> IF pool.base = 0 /\ pool.size = 0 THEN reserved ELSE pool.base,
              size |-> IF Head(steps).temps > pool.size THEN Head(steps).temps ELSE pool.size]
  /\ steps' = Tail(steps)
  /\ UNCHANGED <<phase, input, chunks, prog, todo, temps, offset, bindings, widths, reserved,
                 changed, modified, output>>

BeginAddResource ==
  /\ phase = "steps" /\ steps # <<>> /\ Head(steps).type = "add_resource"
  /\ phase' = "adding"
  /\ todo' = Head(steps).decls
  /\ temps' = Head(steps).temps
  /\ offset' = 0
  /\ changed' = FALSE
  /\ UNCHANGED <<input, chunks, prog, steps, bindings, widths, pool, reserved, modified, output>>

\* A declaration that cannot be made ends the run, unless the step is optional.
Refuse ==
  /\ phase' = IF Head(steps).required THEN "failed" ELSE "adding"
  /\ UNCHANGED <<prog, bindings, changed>>

(* Mutant: an explicit register is taken as it is.                         *)
Mut_InRange(register, class) == register # NoRegister

InRange(register, class) == register \in 0..MaxBindPoint[class]

\* resolve_and_add, one declaration: a register is looked for, the declaration
\* is added by a function that allocates again, and the handle is bound to the
\* register found first.  For an input or an output the second allocation is
\* the one that counts, and it does not mark the program as changed.
AddDeclaration ==
  /\ phase = "adding" /\ todo # <<>>
  /\ LET decl == Head(todo)
         max == MaxBindPoint[decl.class]
         found == IF decl.register # NoRegister THEN decl.register
                  ELSE Free(SeenByFind(decl.class), max, decl.reverse)
         r == AllocateBindPoint(decl, SeenByAdd(decl), max)
         signature == decl.class \in {"input", "output"}
         bound == IF signature THEN r ELSE found
     IN IF ~InRange(found, decl.class) \/ r = NoRegister
          THEN Refuse
          ELSE /\ prog' = [prog EXCEPT !.instructions =
                             InsertAfter(@, InsertBehind(decl), BuildDeclaration(decl, r))]
               /\ bindings' = [bindings EXCEPT ![decl.class] =
                                 [h \in DOMAIN @ \cup {decl.handle} |->
                                    IF h = decl.handle THEN bound ELSE @[h]]]
               /\ changed' = (changed \/ ~signature)
               /\ phase' = "adding"
  /\ todo' = Tail(todo)
  /\ UNCHANGED <<input, chunks, steps, temps, offset, widths, pool, reserved, modified, output>>

(* Mutant: the template pool is forgotten.                                 *)
Mut_TempBase == prog.temp_count

\* The added temporaries start behind the pool.
TempBase == prog.temp_count + pool.size

\* One of the step's temporaries: of two with the same handle the last counts.
AddTemporary ==
  /\ phase = "adding" /\ todo = <<>> /\ temps # <<>>
  /\ bindings' = [bindings EXCEPT !["temp"] =
                     [h \in DOMAIN @ \cup {Head(temps).handle} |->
                        IF h = Head(temps).handle THEN TempBase + offset ELSE @[h]]]
  /\ widths' = [h \in DOMAIN widths \cup {Head(temps).handle} |->
                  IF h = Head(temps).handle THEN Head(temps).count ELSE widths[h]]
  /\ offset' = offset + Head(temps).count
  /\ temps' = Tail(temps)
  /\ UNCHANGED <<phase, input, chunks, prog, steps, todo, pool, reserved, changed, modified,
                 output>>

\* The temporaries are counted and the dcl_temps made to cover them.
FinishAddResource ==
  /\ phase = "adding" /\ todo = <<>> /\ temps = <<>>
  /\ LET count == prog.temp_count + offset
         added == Head(steps).temps # <<>>
     IN IF added /\ count + pool.size > MaxTemps /\ Head(steps).required
          THEN /\ phase' = "failed"
               /\ prog' = [prog EXCEPT !.temp_count = count]
               /\ UNCHANGED <<steps, modified>>
          ELSE /\ phase' = "steps"
               /\ prog' = [prog EXCEPT !.temp_count = count,
                                       !.instructions =
                                          EnsureTempDeclaration(@, count + pool.size)]
               /\ modified' = (modified \/ changed \/ added)
               /\ steps' = Tail(steps)
  /\ offset' = 0
  /\ changed' = FALSE
  /\ UNCHANGED <<input, chunks, todo, temps, bindings, widths, pool, reserved, output>>

Version == IF ShaderChunk(chunks) = 0 THEN Value(0) ELSE chunks[ShaderChunk(chunks)].data[1]

\* The output is the input, unless a rule has rewritten the program: what was only
\* declared is dropped (ExecuteSteps clears program_modified).  What the rules do is
\* in Sm5Recipe; here one of them has rewritten something or none has.  The report
\* serializes the program once more either way, which leaves its tokens in the
\* shader chunk.
Finish ==
  /\ phase = "steps" /\ steps = <<>>
  /\ \E any_rule_mutated \in BOOLEAN :
       LET instructions == IF any_rule_mutated
                             THEN EnsureTempDeclaration(prog.instructions,
                                                        prog.temp_count + pool.size)
                             ELSE prog.instructions
           written == Serialize(chunks, Version, instructions)
       IN /\ modified' = any_rule_mutated
          /\ prog' = [prog EXCEPT !.instructions = instructions]
          /\ output' = IF any_rule_mutated THEN written ELSE input
          /\ chunks' = SerializedChunks(chunks, Version, instructions)
  /\ phase' = "done"
  /\ UNCHANGED <<input, steps, todo, temps, offset, bindings, widths, pool, reserved, changed>>

Next ==
  \/ Open \/ DeclareTemplate \/ BeginAddResource \/ AddDeclaration
  \/ AddTemporary \/ FinishAddResource \/ Finish

Spec == Init /\ [][Next]_vars

--------------------------------------------------------------------------------
(* Properties.                                                             *)

\* A program that no step has touched is written as the tokens it was read from:
\* instructions the patcher does not understand reach the game unchanged.
RoundTrip ==
  (phase = "steps" /\ prog = Parsed(chunks) /\ ShaderChunk(chunks) # 0) =>
    Serializer(Version, prog.instructions) = chunks[ShaderChunk(chunks)].data

Original == Parsed(ReadChunks(input)).instructions

\* Whatever the order of explicit, ascending and descending declarations, and
\* whichever of the texture classes they belong to, no register is declared
\* twice that was not in the original program (fxc does so for two outputs that
\* share a register), and no handle is bound to a register its class does not
\* have.  Constant buffers and inputs are left out of the first.  The allocation of
\* a cbuffer looks at the parser's overlay, which has none of those the recipe added
\* (ShaderProgram.cpp:1357), so that two of them get one register; that of an input
\* does not see dcl_input_siv and dcl_input_sgv (:1238).
OncePerClass(instructions, original) ==
  \A class \in Classes \ {"cbuffer", "input"} :
    \A j, k \in Declaring(instructions, DeclaredBy(class)) :
      Register(instructions[j]) = Register(instructions[k]) /\ j # k
        => {instructions[j], instructions[k]} \subseteq Range(original)

DeclaredOnce ==
  /\ OncePerClass(prog.instructions, Original)
  /\ \A class \in Classes : \A h \in DOMAIN bindings[class] :
       bindings[class][h] \in 0..MaxBindPoint[class]

\* The declarations stand in front of the code.
InFront(instructions) ==
  \A j, k \in DOMAIN instructions :
    instructions[k].op \in Declarations /\ j < k
      => instructions[j].op \in Declarations \cup {"customdata"}

\* The instructions of s, without its dcl_temps, are found in their order in t:
\* place[i] is where the first i of them end, one past t if they are not there.
NextPlace(s, t, i, at) ==
  IF s[i].op = "dcl_temps" THEN at
  ELSE Min({j \in (at + 1)..Len(t) : t[j] = s[i]} \cup {Len(t) + 1})

IsKept(s, t) ==
  LET place[i \in 0..Len(s)] == IF i = 0 THEN 0 ELSE NextPlace(s, t, i, place[i - 1])
  IN place[Len(s)] <= Len(t)

\* The declarations stay in front of the code, and the instructions of the
\* original program stay in their order, however many declarations went in.
CodeKept ==
  phase \notin {"closed", "failed"} =>
    /\ IsKept(Original, prog.instructions)
    /\ InFront(Original) => InFront(prog.instructions)

\* The temporaries a recipe adds, arrays of them included, are no other recipe
\* temporary's, none of the original program's, none of the template pool's, and
\* the dcl_temps of a patched program covers them all.
Block(base, size) == base..(base + size - 1)
BlockOf(h) == Block(bindings["temp"][h], widths[h])

TempsApart ==
  /\ \A g, h \in DOMAIN bindings["temp"] : g # h => BlockOf(g) \cap BlockOf(h) = {}
  /\ \A h \in DOMAIN bindings["temp"] : \A r \in BlockOf(h) :
       r >= reserved /\ r \notin Block(pool.base, pool.size)
  /\ phase = "done" /\ modified =>
       \A r \in Block(0, reserved) \cup (UNION {BlockOf(h) : h \in DOMAIN bindings["temp"]}) :
         \E k \in Declaring(prog.instructions, {"dcl_temps"}) :
           r < Register(prog.instructions[k])

\* A patched program read back from the written container declares what the
\* program in memory declares: same registers, same types and modes.
ReadBack ==
  (phase = "done" /\ modified) =>
    /\ ~Rejected(output)
    /\ LET again == Parsed(ReadChunks(output))
       IN /\ again.temp_count = prog.temp_count + pool.size
          /\ \A class \in Classes :
               DeclarationIndex(again.instructions, class)
                 = DeclarationIndex(prog.instructions, class)

\* The checksum of n bytes takes every byte once and in order, fills whole blocks
\* and pads with at least the one marker byte.
Bytes(segments, kinds) ==
  LET size(k) == IF segments[k][1] \in kinds THEN segments[k][2] ELSE 0
      fed[k \in 0..Len(segments)] == IF k = 0 THEN 0 ELSE fed[k - 1] + size(k)
  IN fed[Len(segments)]

HashTakesAll(n) ==
  LET fed == HashInput(n)
  IN /\ Bytes(fed, {"data"}) = n
     /\ Bytes(fed, {"data", "a", "b", "pad", "zero"}) % HashBlock = 0
     /\ Bytes(fed, {"pad"}) >= 1
     /\ \A k \in DOMAIN fed : fed[k][2] > 0

\* A written container is well formed: its chunks lie one behind the other on
\* four-byte boundaries, inside the size its header gives, every chunk that
\* could be read from the input is in it, with the same data if it is no shader,
\* and its checksum takes all of it (Serialize, ComputeDXBCHash).
ContainerWellFormed ==
  (phase = "done" /\ modified) =>
    LET o == output.offsets
        end(k) == o[k] + ChunkHeader + chunks[k].size
    IN /\ \A k \in DOMAIN o :
            /\ o[k] % 4 = 0
            /\ o[k] >= HeaderSize + 4 * Len(o)
            /\ IF k = Len(o) THEN end(k) <= output.total ELSE end(k) <= o[k + 1]
       /\ LET old == ReadChunks(input)
              new == ReadChunks(output)
          IN /\ Len(old) = Len(new)
             /\ \A k \in DOMAIN old :
                  old[k].kind = new[k].kind /\ (old[k].kind # "shader" => old[k] = new[k])
       /\ HashTakesAll(output.size - 20)

\* Every register a patched shader has a new texture at is bound to one handle of
\* the recipe: the runtime binds the resource of the handle there.
NewBindingsAreAdded ==
  (phase = "done" /\ modified) =>
    UNION {{bindings[c][h] : h \in DOMAIN bindings[c]} : c \in Textures \cap Classes}
      = Registers(prog.instructions, DclResources) \ Registers(Original, DclResources)

================================================================================
