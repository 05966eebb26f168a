# DirectXShaderPatcher: TLA+ verification project

DirectXShaderPatcher (DXP) applies *recipes* to compiled Direct3D shaders. A recipe is a list of steps: check a property of the shader, add a resource, match a sequence of instructions and rewrite it. The library (`src/src/dxp`) decodes a shader, runs the steps over it and encodes the result; the ReShade add-on (`src/tools/reshade_addon`) does this to the shaders of a running game, on background threads, and binds at draw time what the patched shaders need.

This directory holds TLA+ models of both, the configurations TLC checks them with, and theorems TLAPS proves about them. `PROJECT.json` maps every definition to the lines it models.

## 1. The system

### The add-on (`src/tools/reshade_addon`)

| Component | State | Operations | Interacts with |
|---|---|---|---|
| Asynchronous patching (`runtime.cpp`) | `g_queue`, `g_next_generation`, `g_recipes`; per device `pipelines`, `replacement_owners`, `in_flight`, status counters; per record `status`, `requested_generation`, `replacement` | `OnInitPipeline`, `OnDestroyPipeline`, `Enqueue`, `WorkerMain`, `ProcessJob`, `Publish`, `ReloadAll`, `ApplyEnvOverrides`, `LoadResources` | recipes, resource sets, retire queue, draw time |
| D3D11 draw time (`runtime.cpp`, `draw_state.hpp`) | per context: the pending replacement of each stage, the saved bindings | `OnBindPipeline`, `OnPushDescriptors`, `HandleDraw`, `ApplySwap`, `RestoreAllSlots`, `OnPresent`, `OnCloseCommandList`, `OnResetCommandList` | published replacements, `g_enabled`, the D3D11 context |
| D3D12 layout injection | the indices of the add-on's parameters in each root signature | `OnCreatePipelineLayout`, `OnInitPipelineLayout`, `OnDestroyPipelineLayout` | recipes, `BuildBindings` |
| D3D12 draw time | per list: the pending replacement, the layout and last table of each bind point, `heaps_dirty` | `OnBindPipeline`, `OnBindDescriptorTables`, `HandleDraw`, `PushD3D12`, `RestoreHeaps`, `OnResetCommandList` | layouts, published replacements, the command list |
| Retire queue and device lifetime | `g_retired`, `g_frame`, `g_devices`, `state.alive`, `state.in_flight` | `Retire`, `ReleaseRetired`, `OnPresent`, `OnInitDevice`, `OnDestroyDevice`, `ShutdownRuntime` | workers, `ReloadAll`, command lists, the GPU |
| Recipe sets and patch cache (`recipes.cpp`) | immutable: parsed recipes, overrides, generation; a cache from shader to result | `Load`, `WithOverrides`, `Finalize`, `Patch` | files, workers, overlay |
| Values of the user (`overlay.cpp`, `config.cpp`) | `g_pending`, `g_dirty`, `g_synced_from`; `[DXP.Env]` in ReShade.ini | the editors, Apply, Reset, Re-patch, Reload, Save; `LoadEnvOverride`, `SaveEnvOverride` | recipe sets |
| Resource sets (`resources.cpp`) | textures, buffers and samplers on the device | load, resolve | jobs, draws |
| DDS reader, settings, requirements | none | pure functions | resource sets |

Calls arrive on the game's threads (ReShade events, several at once), on the overlay's (the present thread) and on the workers'. They share the maps under `std::shared_mutex`es, the records through atomics and the objects through `shared_ptr`s. Hard: the order of atomic accesses that belong together, destroy against publish, reload against everything, references that the GPU does not hold, teardown with jobs in flight, and the state of a context or list that game and add-on both write.

### The library (`src/src/dxp`)

| Component | State | Operations |
|---|---|---|
| Recipe engine (`RecipeEngine.hpp`) | the execution context (program, state, captures, exports, variables, results), the report | compile, validate, `ExecuteSteps`: condition, step, exports, report, stop-fast; `build_report` |
| Conditions (`Condition*.hpp`) | none | evaluation of a condition over state, variables and results |
| SM5 rule (`ApplyRuleStep.cpp`, `Match.cpp`, `Emit.cpp`) | the instruction vectors (program, blob) | match, select, resolve a range, emit, merge; capture, edit and land a blob |
| SM5 resources and templates | the declarations of the program, the registers of handles, the template pool | `AddResourceStep`, `DeclareTemplateStep` |
| SM5 container and instructions | chunks and tokens | `FromBytes`, `ParseProgramImpl`, `Encode`, `Serialize`, the hash |
| SM6 rule | an LLVM module in SSA form, the capture store | match, emit, rewire, erase |
| SM6 resources and functions | the module's resource tables and signatures, handles by name, injected functions | `AddResourceStep`, `DeclareFunctionStep`, `Serialize` |
| Constant buffer layout | none | packing, validation, annotation |

The library is sequential: one execution works on its own context, and only a recipe's `validated_` flag is shared. Hard: merging several rewrites into one vector or value graph, sequences of steps that hand blobs, state, captures and exports to one another, allocation of registers next to those of the game, and arithmetic at the borders of rows, chunks and blocks.

### What makes each part correct

- **Patching.** A replacement has one owner that retires it, none is lost; the status counters add up; a pipeline ends with what the last recipes make of it.
- **Draw time.** A patched shader is only drawn with its resources in place; the game sees its own bindings everywhere else; off means off at the next draw.
- **Layouts.** An extended root signature is valid, keeps the game's indices, and is known by its indices as long as it lives.
- **Lifetime.** The GPU uses no destroyed object; what survives a device is known; teardown ends.
- **Recipe sets.** A patch is that of its own set's recipes and values; what the overlay shows is what runs; what was saved comes back.
- **Rules.** A rewrite removes what it says and puts its block there, nothing is lost, doubled or reordered; on SM6 every use of a replaced value gets the new one and the program stays in SSA form.
- **Programs.** What the patcher does not change it writes as it read it; no register is declared twice; the file is well formed.
- **Engine.** Required steps stop the run, optional ones do not; every execution ends.

## 2. The modules

| Module | Models | Composition |
|---|---|---|
| `PatchRuntime` | the patching pipeline of one device, one shared access per step | |
| `PatchRuntime_proofs` | type correctness; one owner, exact counters, no replacement lost, the owner map | extends `PatchRuntime` |
| `GameBindings` | a D3D11 context as the game knows it, without the add-on (abstract specification) | |
| `DrawState` | the handlers of a D3D11 context | implements `GameBindings` |
| `DrawState_proofs` | six theorems, one the refinement | extends `DrawState` |
| `DeviceLifetime` | references, retire queue and teardown on D3D12 | the workers and reloads of `PatchRuntime`, reduced to their references |
| `DeviceLifetime_proofs` | three theorems: living objects, teardown, `in_flight` | extends `DeviceLifetime` |
| `CommandList` | a D3D12 list as the game records it, without the add-on (abstract specification) | |
| `LayoutInjection` | what `OnCreatePipelineLayout` makes of a root signature (pure operators) | |
| `D3D12Draw` | layouts, pipelines and a list with the handlers of the add-on | extends `LayoutInjection`, implements `CommandList` |
| `D3D12Draw_proofs` | five theorems, one the refinement | extends `D3D12Draw` |
| `RecipeStore` | files, saved values, recipe sets with their caches, workers in `Patch`, the overlay | |
| `RecipeStore_proofs` | five theorems | extends `RecipeStore` |
| `Sm5Rule` | where a rule matches and what its action is (pure operators) | |
| `Sm5Recipe` | the step loop and `apply_rule` with blobs and scopes, down to the turns of the merge loop | extends `Sm5Rule` |
| `Sm5Recipe_proofs` | five theorems: the merge against its definition, order of what is kept, no rewrite lost, who may change the shader, types | extends `Sm5Recipe` |
| `Sm5Instructions` | the instructions of a program: opcodes, operands, index entries | |
| `Sm5Tokens` | reading and writing of tokens (pure operators) | extends `Sm5Instructions` |
| `Sm5Program` | containers, declarations, temporaries: a run of the SM5 engine, in which a rule is no more than that it rewrote something | extends `Sm5Instructions`; its constants `Parser` and `Serializer` are given by `Sm5Tokens` |
| `Sm5Program_proofs` | four theorems: registers, code, temporaries and the written container | extends `Sm5Program` |
| `CBufferLayout` | where fields of a constant buffer lie (pure operators) | |
| `Sm6Ssa` | a program of basic blocks in SSA form, as LLVM keeps it (external) | |
| `Sm6Rule` | emitting and rewriting of SM6 | extends `Sm6Ssa` |
| `Sm6Match` | what a rule matches and captures (nested patterns, RECURSIVE) | extends `Sm6Rule` |
| `Sm6Recipe` | a recipe applied to an SM6 shader, one step of the recipe per action | extends `Sm6Rule`, `CBufferLayout`; its constant `Matcher` is given by `Sm6Match` |
| `Sm6Reference` | what a rule should do to the values a shader writes, by substitution in terms | extends `Sm6Recipe` |
| `Sm6Recipe_proofs` | two theorems: registers, and cbuffers with the loads from them | extends `Sm6Recipe` |
| `MC*` | the instances for TLC | |

### PatchRuntime

A step of a thread is one atomic access or one critical section, in the order of the code; `pc` and `loc` hold a thread's place and locals. Two groups are merged. `SetStatus` counts as one step: its compare-exchange decides, and the two counter updates behind it commute with those of others (a reader of the counters can see one in between; the overlay is the only one). `Retire` is merged with the step next to it because nothing in this module reads the queue.

The pipelines' recipes are a constant `Effect[p][g]`: what generation `g` does to pipeline `p`, in seven outcomes that `ProcessJob` tells apart. A replacement carries the record, the generation, the version of the resource set and a number. A handle can be reused by a later record (`Handle`). `throws` is the exception that `WorkerMain` catches.

### DrawState and GameBindings

`bound` and `context` are the real D3D11 context and external; the rest is the add-on's. An action is a call of the game with all handlers ReShade runs for it. `GameBindings` is the same context without an add-on, with the same calls. The refinement mapping puts the saved bindings back (`GameSlots`) and maps a replacement to its original (`GameShaders`); `GameUnaffected` is `Game!Spec`.

What the game does besides binding its own objects is a constant `Allowed`, so that every run says which of it it excludes. Binding a view it read back (`rebind_slot`) or a shader it read back that is no longer published (`rebind_stale`) is how a game can defeat the add-on; the refinement does not hold there, and the proofs assume neither.

### DeviceLifetime

An object is alive while somebody holds it: a record, `state.resources`, a replacement (its set), a list's pending entry, a thread's local or the retire queue (`Direct`, `Referenced`). The GPU holds nothing, so that a draw's objects must be kept by the queue for the frames the GPU may still need. `Window` is the number of presents from a bind to the end of the GPU's work with it, `RetireFrames` is `kRetireFrames`, and `Window < RetireFrames` is the assumption under which eight presents are enough. A record is shared like an object: the device's map, a queued job, the job a worker runs, a call of the game and the copy `RepatchDevice` makes all refer to it (`LiveRecords`), and while one does its replacement lives. `DestroyPipeline` and `TakeReplacement` are `OnDestroyPipeline`, whose steps fall between `CheckCurrent` and `Exchange` of a `Publish`; `JobDone` counts the job down and `FreeJob` is the end of the loop's body, where the local `job` goes. A job may be superseded or not (generations are `PatchRuntime`'s), and any queued job may be next. Two habits of a game are in `Allowed`: a list that is executed later than `Window` presents after its recording (`slow`), and a device destroyed while `ReloadAll`, which copied `g_devices`, loads resources for it (`reload`). `lifetime` excludes both, and so do the theorems that depend on them.

`NothingOutlivesDevice` has an exception, `Orphans`, because the code leaves one. A pipeline destroyed between `Publish`'s test (`runtime.cpp:353`) and its exchange (`:359`) is out of the map with a new replacement, and only the job refers to it. The worker lowers `in_flight` first (`:570`) and drops the job at the end of the loop's body (`:571`). `OnDestroyDevice` may see 0 in between, return and let the device go; `~Replacement` then calls `destroy_pipeline` on it (`:78`). The property says that this is all: everything else is destroyed when `OnDestroyDevice` is over.

### Sm5Rule and Sm5Recipe

A pattern is an opcode: what the operands of a pattern say decides only whether an instruction matches, and the properties are about which instructions stay, go or move. The emit list is reduced to instructions around at most one blob. The two loops that carry the hazards are kept step by step: the windows of `ExecuteBlobStep` (with its interior rule running in between) and the merge of `ApplyRewriteActions`, whose sort is unstable, so that any of the actions at the lowest position may be next. A kept instruction carries its old index, so that `KeptInOrder` can tell equal opcodes apart. `pc = "threw"` is the exception of `reserve` when the computed size wraps.

`Valid` is what `Validate` refuses among these recipes; `Recipes` may hold any.

### LayoutInjection, D3D12Draw and CommandList

A root signature is a sequence of parameters with their ranges; `CreatePipelineLayout` is the handler with all its reasons to leave one alone, and `FindInjection` what `OnInitPipelineLayout` finds in the result. `layouts` keeps both, the game's and the real one, so that properties can compare them. A handle (`Layouts`) can be destroyed and made again as another signature. A list has root arguments, heaps and a pipeline for two bind points; arguments of the add-on are sequences of resources, those of the game are tables. Each call of the game is an action with the handlers ReShade runs for it; `g_enabled`, the providers and whether a recipe of the moment adds a resource are parameters of the actions, because they may be anything at any call. `CommandList` is the same list with the same calls and no add-on; the mapping hides the add-on's tables and swaps, and `ListUnaffected` is `Game!Spec`. `Allowed` is here too: `late_tracking` (tables the game bound before the first replacement with resources) and `redundant_signature` (a root signature that is set again and keeps its tables).

### RecipeStore

A value is its variant and its decimal text, a file is its defaults, whether it loads, what it does to each shader and which handles it adds. Recipe sets stay as they are once made, but for their cache, so `sets` is a function of the generation and `current` is `g_recipes`; a worker holds the generation it was queued with. A cache entry is the set of the results it has, empty or one. `Chain` is the loop of `Patch` over the recipes in name order, `IsReference` says of a result what it must be without a loop: the code is changed by exactly the recipes that apply and change it, and each handle is bound by the last of them that adds it. Only the thread that draws the overlay stores `g_recipes`, so a frame is one action, and starts with the sync (`Synced`). A result carries its `maker`, to tell two objects with the same content apart. `Restart` is the end and the start of the game: the files and `[DXP.Env]` are what is left.

### Sm5Instructions, Sm5Tokens and Sm5Program

A token is a record of what the opcode decoder and the operand decoder take from it, not a bit pattern: the model has the fields of the D3D11 token format and which of them each side reads and writes. `ParseFrom` is the parser's loop with its fallbacks for opcodes it does not know (numbers kept as operands), `Encode` the writer. A container is offsets and chunks with sizes in bytes; `ReadChunks` and `Layout` read and write it, `HashInput` is the sequence of pieces the hash is fed, with their lengths. `AddDeclaration` adds one declaration of the step: the search, the range test, the insertion behind the last declaration of its kind, the binding. `AddTemporary` binds one temporary or array of them, `FinishAddResource` counts them and makes the `dcl_temps`. `Finish` writes only what a rule has rewritten: `ExecuteSteps` clears `program_modified` otherwise (`RecipeEngine.hpp:367-373`), and the input is passed through. Since the rules are in `Sm5Recipe`, whether one of them rewrote something is a choice here, and `modified` says at the end that it did (a *patched* program). `widths` is a history of the sizes of the arrays; no action reads it. The register a search finds (`SeenByFind`, in the overlays of the parser) and the one that is declared (`SeenByAdd`, in the instructions) are kept apart, as in the code. `Sm5Program` knows of the reader of tokens only what `ParserAssumption` says, that it yields a sequence of instructions and the operand of a `dcl_temps` is a number, and of a container only what `InputsAssumption` says, that its table and the chunk headers inside it hold numbers; the runs take `ParseProgram` and `SerializeBitcode` for reader and writer, and TLC evaluates the assumptions on every container of the instance.

### Sm6Ssa, Sm6Rule, Sm6Match, Sm6Recipe and Sm6Reference

`Sm6Ssa` is what the backend relies on LLVM for: dominance, uses, insertion, erasure, dead code, the verifier. `Sm6Match` has the matcher with nested operands, captures, constants and resources, `Sm6Rule` the emitters and `ApplyMatchRewrite` with its anchors, its dominance checks and the order in which it inserts, rewires and erases. Touching an erased instruction, undefined in C++, is a state of its own (`undefined`). `Sm6Recipe` compiles and validates the steps and runs them; `add_resource` chooses registers in a space, makes handles for both kinds of shader model, and writes the struct type of a cbuffer; `declare_function` builds functions; the end prunes, verifies and writes, or passes the input through. `Sm6Recipe` knows of the matcher nothing (`Matcher`), and of recipes and shaders what parsing and a valid shader leave (`RecipesAssumption`, `ShadersAssumption`, which TLC evaluates on those of the instance).

The struct type of a cbuffer is looked up by its name (`sm6/ShaderProgram.cpp:405-434`), so `program.types` maps names to types, and `NewResource` makes the body of a type only if the name is new, but annotates it each time (`Annotate`, `:525-582`). `types` of a shader are those the thread's `LLVMContext` already has (`:624`): of the shader itself, of one patched before, or of an older version of the recipe before a reload. Two layouts under one name give a type with the body of the first and the annotation of the second, for the handle declared again with other fields (the name defaults to the handle, `CBufferLayout.cpp:60`) as for two cbuffers with one `type`; more fields than the type has elements are annotated behind its end, which is undefined (`AnnotatesBeyond`). `CBufferSound` excepts these cbuffers (`OwnType`). The types of textures and samplers have names of their own form and are left out.

## 3. The runs

| Run | Question | Instance |
|---|---|---|
| `patch_race` | Do counters, owners and objects stay right when everything interleaves? | two records of one handle, two workers, a creator, an overlay and a loader, 2 generations |
| `patch_converge` | Does every pipeline end up with its last recipes, whatever happened, and the owner map with what is published? | two pipelines, 3 generations, a job that throws, one worker, one thread that calls |
| `draw_reload` | Refinement and the draw-time properties under reloads, the Enabled box, destroyed shaders | a pixel and a compute stage, three replacements, three slots |
| `draw_rebind` | Does a patched shader draw with its objects even if the game rebinds the add-on's views and releases shaders? | two graphics stages |
| `d3d12_draw` | Refinement, layouts and draws on D3D12 | a graphics and a compute pipeline, two root signatures each, two tables |
| `d3d12_stages` | *violation*: a later shader's register for a shared handle is dropped | the same, two shaders with one handle at two registers |
| `lifetime` | Does the GPU use only living objects, and does teardown end? | one device, worker and list; a pipeline that is created and destroyed again and again, its replacement, two sets, two queued jobs |
| `store` | Patches, values and their persistence | three recipes, one variable, one shader, two workers, 3 sets per launch |
| `sm5_recipe` | Merge against its definition, blobs, engine, termination | all programs up to 3 instructions over two opcodes and a return, about 1200 recipes |
| `sm5_program` | Tokens, declarations, containers | five containers, all pairs of declarations of the eight classes, temporaries |
| `sm5_bindings` | *violation*: two added textures are bound at one register | two textures without a register |
| `sm6_recipe` | SSA form, handles, registers, cbuffers, pruning and the rewrite against its definition | three shaders, eight families of recipes of up to four steps |

### The properties

- `TypeOK` of `PatchRuntime`. `DrawState`, `Sm5Recipe` and `RecipeStore` have theirs too, proved for every instance instead of checked on one; it says more than types where a bad value is a bug, as an override of a variable no recipe declares or an action at a position the program does not have.
- `CountsExact`: `counts[s]` is the number of records with status `s`, through every move of five code paths.
- `OneOwner`, `NoneLost`: a replacement is published, in one thread's hands or retired: never two of them, always one.
- `OwnersArePublished`: when all is quiet the D3D11 owner map has the published replacements and no other.
- `Converges` (liveness): from some point on each live pipeline is what its last generation makes of it, with the status that says so.
- `GameUnaffected` (refinement), `DrawnWithResources` (in `draw_rebind`, where the game does most), `NoStrayObject`, `OffAtNextDraw`, `FrameEndsWithGameBindings`.
- `ExtensionSound`: an extended root signature declares no register twice and keeps to 64 DWORDs. `IndicesKept`: the game's parameters keep their indices, and the indices the add-on remembers are of its own tables in the layout that has the handle now.
- `DescriptorsReachShader`: a draw with a replacement reads every added resource at the register its shader has for it, and a pushed table holds descriptors of its class, gaps too. `GameHeapsAtDraw`: any other draw of a bind point with game tables has the game's heaps. `ListUnaffected` (refinement): but for its own tables the add-on changes no argument, and binds again only what was bound.
- `GpuObjectsAlive`; `NothingOutlivesDevice` (save the orphan of section 2, which TLC finds in 17 steps if it is not excepted); `TeardownEnds` (liveness).
- `PatchIsReference`: what `Patch` returns for a generation is the chain of the recipes of that generation with its values, and each handle bound where the last recipe put it, stated without the loop. `OneResult`: one object per shader and generation. `ShownIsApplied`: without a waiting edit the overlay shows what runs. `SavedIsRestored` (action property): a restart applies what was shown when Save was pressed, for the files that are the same.
- `RewriteIsReference` (SM5): for disjoint actions the loop yields `Reference`, a definition by position that knows nothing of the loop. `KeptInOrder`: for any actions, overlapping ones too, what stays keeps its order and is not doubled. `NoRewriteLost`: a shader the report calls unchanged, or that is passed through, is the input with at most declarations in front. `ShaderUntouched`, `Terminates` (liveness).
- `RoundTrip`: a program no step touched is written as the tokens it was read from. `DeclaredOnce`: no register is declared twice that was not in the original program (the instance has two outputs packed into one register, which fxc writes), and every handle is bound inside its class, whatever the order of explicit, ascending and descending declarations. (Constant buffers and inputs are not in it: see the disagreements below.) `TempsApart`: the blocks of temporaries a recipe adds lie apart from each other, from the original ones and from the template pool, and the `dcl_temps` of a patched program covers them. `CodeKept`: the instructions of the original program, but its `dcl_temps`, are a subsequence of the result, and declarations stay in front of the code if they were. `ReadBack`: the written file, read again, declares what the program in memory declares. `ContainerWellFormed`: chunks are aligned, inside the file and complete; the hash is fed every byte once, in whole blocks.
- `RewriteIsReference` (SM6, action property): the values a shader writes after a rule are those one gets by substituting, in the term of each value, the term of the emit for what it replaces; the reference knows nothing of insertion points, uses or the order of matches. `SsaKept`, `HandlesBind`, `PrunedOutput`. `BindingsApart` says that no two resources of a class begin at one register of one space; an added one may lie on the middle of an array. `CBufferSound`: the type of an added cbuffer tiles it with each field at its offset, if no other layout has the type's name, and a rule reads the fields where they are, whatever the names.

### Findings

Each violation run quotes a sentence of the repository that the code does not keep; `PROJECT.json` has the lines.

1. `DescriptorsReachShader` (`d3d12_stages`): `ProcessJob` merges the bindings of a pipeline's shaders by handle. Each shader's run chooses its registers by itself, and the later shader's register for a shared handle is dropped.
2. `NewBindingsAreAdded` (`sm5_bindings`): the register a texture is declared at does not leave the lambda that declares it; the handle is bound where the parser's overlay had a free register, which is the same for the next texture.

More disagreements came up while modelling and are recorded with the hazards, each with the case in which TLC refutes the property named there: an older generation published over a newer one by a second worker (`runtime.cpp:359`), a pipeline created during a reload (`:854`), a job that waits for a set that has just come (`:622`), exports emptied by later steps (`RecipeEngine.hpp:336`), overlapping matches (`sm5 ApplyRuleStep.cpp:242`), a template behind a resource (`sm5 AddResourceStep.cpp:219`), two layouts under one type name (`sm6/ShaderProgram.cpp:420`), two added constant buffers at one register, where two without a `register_index` or with the same one end up (`sm5/ShaderProgram.cpp:1357`, with the hazard at `sm5 AddResourceStep.cpp:139`), the replacement a job still holds after it left `in_flight` (`runtime.cpp:570`, with the hazard at `:353`), erased values in the capture store (`sm6 ApplyRuleStep.cpp:493`).

One is in the model as the code has it and no property is about it: without a `space` an SM6 declaration of textures, UAVs, cbuffers or samplers goes to the space whose number is the first register of that class free in space 0 (`sm6/step/AddResourceStep.cpp:121`), while `docs/sm6_recipe_schema.md:212` says "register space (default 0)".

### Bounds, and why they are enough

- **PatchRuntime.** All races are between two accesses of one record, so one or two records with two generations have them; three generations let a rejected one follow a good one in `patch_converge`. `built` and `loads` are bounded by what `MaxGen` lets be queued. Two records of one handle are what reuse needs. `patch_converge` leaves out what the code does not promise against: a second worker, a creator beside the reload, a resource that arrives late.
- **DrawState.** A slot's behaviour depends on the replacement pending at its stage and on the saved entry; two replacements of one shader with different slots, one of them shared, have every change between them, and one compute stage has the switch to a dispatch. The theorems have no bounds.
- **D3D12Draw.** One pipeline per bind point and one list: bind points meet in the heaps and in `RestoreHeaps`, which looks at both. The root signatures have each reason to leave one alone (the space taken without bound, 63 of 64 DWORDs) and each kind of parameter in front of the insertion. Tables of one and two parameters, a gap in a table, a register in the wrong space, one register twice and two shaders with a shared handle are among `Wants`.
- **DeviceLifetime.** `RetireFrames = 2` with `Window = 1` has the inequality of 8 and the frames in flight; `MaxFrame = 2` lets an object be retired and expire. Two sets let a reload replace one. One record can be in the map, in both queued jobs and in the worker's at once, and be destroyed under all of them; when nobody refers to it it stands for the next pipeline. One replacement shows who drops it last.
- **RecipeStore.** A cache entry is written by at most two workers that miss at once. Two recipes that add one handle chain; a third applies to no shader of the instance. The first one's file has two defaults and a broken form, so that reloads change, drop and bring back a variable; 2.5 against defaults 1 and 0 tells all values apart. Three sets per launch, any number of launches.
- **Sm5Recipe.** Three instructions with a pattern of two have overlapping, adjacent and disjoint matches, at both borders. Rules: every rewrite mode, three selections, an emit block shorter than, as long as and longer than the match, offsets in and out of range. Recipes have up to three steps, since a step hands its blob, state or export to at most one other.
- **Sm5Program.** The full program has every declaration the parser treats in its own way, extended opcodes and operands, a relative index, literals and custom data; containers have sizes that leave 1 to 3 bytes of padding, a shuffled table and an entry beyond the end. `MaxBindPoint` 2 lets two declarations fill a class with what is there; two suffice, since an allocation sees the sum of those before.
- **Sm6Recipe.** The diamond has uses before, beside and behind a join and a phi; the chain has overlapping windows, a handle into the second place of an array and a dead value. `TermDepth` 7 is above the height of every term of these shaders with the emits of two steps.

### Fairness

`WF_vars(Next)` in `Sm5Recipe`: one thread that runs. In `PatchRuntime` each worker has weak fairness, and so has a call under way: they wait only for locks that are held for a critical section, and a worker's wait ends when there is a job. `LoadBegin` is fair because every present calls it. The game's other calls are not: it may stop creating, destroying and reloading. In `DeviceLifetime` the workers and a teardown that has begun are fair for the same reason; presents, draws and reloads are not. The other modules state no liveness and have no fairness. `CHECK_DEADLOCK FALSE` stands where the system may stop: bounds are reached, a recipe has ended, a device is gone.

## 4. What is proved

Every theorem is for any values of the constants that satisfy the ASSUMEs of the module; the last column has what else it assumes.

| Theorem | Module | For any | Besides |
|---|---|---|---|
| `TypeCorrect`: `Spec => []TypeOK` | `PatchRuntime_proofs` | threads, records, handles, generations | |
| `OneOwnerHolds`: `Spec => []OneOwner` | `PatchRuntime_proofs` | the same | |
| `CountsExactHolds`: `Spec => []CountsExact` | `PatchRuntime_proofs` | the same | |
| `NoneLostHolds`: `Spec => []NoneLost` | `PatchRuntime_proofs` | the same | |
| `OwnersArePublishedHolds`: `Spec => []OwnersArePublished` | `PatchRuntime_proofs` | the same | `OneWorker`, `OwnHandles`, `AllApplicable` |
| `OwnersPublishedUnlessOvertaken`: `Spec /\ []Alone /\ []NoLateReuse => []OwnersArePublished` | `PatchRuntime_proofs` | the same | |
| `DrawTypeCorrect` | `DrawState_proofs` | stages, slots, shaders, replacements, objects | `Restrained` |
| `DrawnWithResourcesHolds`, `NoStrayObjectHolds`, `FrameEndsHolds`, `OffAtNextDrawHolds` | `DrawState_proofs` | the same | `Restrained` |
| `Refinement`: `Spec => GameUnaffected` | `DrawState_proofs` | the same | `Restrained` |
| `ListUnaffectedHolds`: `Spec => ListUnaffected` | `D3D12Draw_proofs` | pipelines, root signatures, tables, injected ranges | `HandlesAreAtoms` |
| `IndicesKeptHolds`, `ExtensionSoundHolds` | `D3D12Draw_proofs` | the same | `HandlesAreAtoms` |
| `GameHeapsAtDrawHolds` | `D3D12Draw_proofs` | the same | `HandlesAreAtoms`, `Careful` |
| `DescriptorsReachShaderHolds`: `Spec => []DescriptorsReachShader` | `D3D12Draw_proofs` | the same | `HandlesAreAtoms`, `ParamsSuffice`, `StagesAgree` |
| `GpuObjectsAliveHolds`: `Spec => []GpuObjectsAlive` | `DeviceLifetime_proofs` | devices, workers, lists, objects, `Window < RetireFrames` | no `slow` game |
| `NothingOutlivesDeviceHolds`: `Spec => []NothingOutlivesDevice` | `DeviceLifetime_proofs` | the same | no `reload` |
| `InFlightExact`: `Spec => []Counted` | `DeviceLifetime_proofs` | the same | |
| `KeptInOrderHolds`: `Spec => []KeptInOrder` | `Sm5Recipe_proofs` | opcodes, programs and recipes | |
| `RewriteIsReferenceHolds`: `Spec => []RewriteIsReference` | `Sm5Recipe_proofs` | the same | |
| `NoRewriteLostHolds`: `Spec => []NoRewriteLost` | `Sm5Recipe_proofs` | the same | |
| `ShaderUntouchedHolds`: `Spec => ShaderUntouched` | `Sm5Recipe_proofs` | the same | |
| `RecipeTypeCorrect`: `Spec => []TypeOK` | `Sm5Recipe_proofs` | the same | |
| `DeclaredOnceHolds`: `Spec => []DeclaredOnce` | `Sm5Program_proofs` | containers, readers and writers of tokens, recipes, maxima | |
| `CodeKeptHolds`: `Spec => []CodeKept` | `Sm5Program_proofs` | the same | |
| `TempsApartHolds`: `Spec => []TempsApart` | `Sm5Program_proofs` | the same | `TemplatesFirst` |
| `ContainerWellFormedHolds`: `Spec => []ContainerWellFormed` | `Sm5Program_proofs` | the same | `WritesTokens` |
| `TypeCorrect`: `Spec => []TypeOK` | `RecipeStore_proofs` | recipes, files, variables, values, shaders, workers, sets | |
| `OnePatchPerShader`: `Spec => []OneResult` | `RecipeStore_proofs` | the same | |
| `OverlayIsTrue`: `Spec => []ShownIsApplied` | `RecipeStore_proofs` | the same | |
| `PatchesAreTheirs`: `Spec => []PatchIsReference` | `RecipeStore_proofs` | the same | |
| `SavedIsRestoredHolds`: `Spec => SavedIsRestored` | `RecipeStore_proofs` | the same | `TypesKept` |
| `BindingsApartHolds`: `Spec => []BindingsApart` | `Sm6Recipe_proofs` | opcodes, shaders, recipes, variables, matchers | |
| `CBufferSoundHolds`: `Spec => []CBufferSound` | `Sm6Recipe_proofs` | the same | `LoadsFromFields` |

The hypotheses of the last column:

- `Restrained`, `Careful`, and `slow` and `reload` not in `Allowed` exclude habits of a game under which the property is false of the code; the runs check the properties without the same habits.
- `OneWorker`, `OwnHandles` and `AllApplicable` (the instance of `patch_converge`: one worker, a handle per pipeline, recipes for every shader) let only that worker publish. They stand for what the second theorem says of behaviours: no exchange of a record's replacement falls between the exchange and the owner entry of another Publish for it (`Alone`), and no handle is given to a new pipeline in between (`NoLateReuse`). The code guarantees neither. Without them a second worker, the `Enqueue` of a record that no recipe applies to any more, which publishes by itself, or a reused handle leaves an entry for a replacement that is retired; TLC finds each. The entry stays until the driver gives its address to another pipeline.
- `HandlesAreAtoms` says that handles of pipelines and tables and the null handle are no functions. It has no meaning for the code: an argument of a list is a table or a sequence of resources, and without it a table could be such a sequence.
- `StagesAgree` says that two shaders of a pipeline which have one handle have it at one register. Each shader's run chooses its registers by itself, and `d3d12_stages` shows that the property is false of the code without it. It also says that shaders are a sequence and registers numbers. `ParamsSuffice` says that `Params`, the set of indices the model keeps arguments for, has every parameter of every root signature.
- `LoadsFromFields` says that no rule has a load from a constant buffer of its author's own: `FieldsReadable` knows the load that a `cbuffer_field` emit becomes by its opcode, and the address of a load written by hand is its author's.
- `TemplatesFirst` says of each recipe that its `declare_template` steps precede its `add_resource` steps. `docs/sm5_recipe_schema.md:504-505` asks for it; `ValidateRecipe` (`sm5/Recipe.cpp:33-54`) means to check it but compares the compiled steps with the types of the parsed data, so that the check never fires. A later template widens the pool over temporaries already added, and the theorem is not true without the hypothesis.
- `WritesTokens` says that the constant `Serializer` makes a number of tokens of any sequence of instructions. `SerializeBitcode` (`ShaderProgram.cpp:591-604`) returns a vector for any; the hypothesis is there because a constant operator could be anything.
- `TypesKept` says that a variable has one type in every file. A reload that changes the type of a variable keeps its override (`Finalize`, `recipes.cpp:172-181`, compares names only), while the next start reads the saved text in the new type (`config.cpp:114-133`), so that the values differ: the theorem is not true without it.

**PatchRuntime.** Types alone are inductive with what each control point knows of its locals (`TInv`). `OneOwner` is not: a new replacement must differ from all others. `OInv == TInv /\ Numbered /\ OneOwner` adds `Numbered`: every replacement anywhere has a number not above `built` of its record, so that `CreateReplacement`, which takes the next number, makes a fresh one. Most steps leave `replacement`, `retired` and the hands alone (`QuietStep`); the proof then treats the five that do not. `CountsExact` needs that no one moves a record that was not created (`Made`: jobs, queue and calls name created records, the others are pending). `Tallied` then says that each counter is the size of the set of created records with that status, less, for pending ones, the creators that have yet to add theirs (`Uncounted`, between the map and the counter in `OnInitPipeline`); a status that changes moves one record between two sets (`Recount`). `NoneLost` is inductive on `OInv` as `AllHome`: each replacement that was built has a home, and the home it has before a step, or another, it has behind it. `OwnersArePublished` speaks of quiet states only; `Mapped` says what the map is on the way: an entry is of what its record publishes, or a Publish is about to erase it (`Entered`), what a live record publishes has an entry or a Publish that will make it (`Listed`), and what that Publish will enter is still what the record publishes (`Current`). `OneOwner` is used once more: the replacement a Publish erases is published nowhere.

**DrawState.** `DInv` is the conjunction of `TypeOK` and three properties with three strengthenings: `PublishedOwn` (a published replacement is of its record's shader), `SwappedTruthful` (what is bound at a stage is what its pending entry says) and `SavedCovers` (an object of the add-on is in a slot only if the slot's game binding is saved). The last two are why a restore never loses or invents a binding. Refinement is step simulation: each call maps to the call of the same name in `GameBindings`, the add-on's own steps (publish, Enabled, destroy) to stutters. `OffAtNextDraw` is a fact about one step from the same invariant: only `SwappedTruthful` tells which shader is the game's.

**D3D12Draw.** `LInv` has two parts. `DeviceOK` is about handles: a layout that exists is what `OnCreatePipelineLayout` makes of its signature and its injection what `OnInitPipelineLayout` finds in it (`LayoutsBuilt`, `InjectionsFound`), and what is published for a pipeline was built for the layout its handle has (`PublishedInstalled`). `ListOK` is about the list: the tables it remembers are those bound at their places (`LastInPlace`, `LastTableBound`) and a pending replacement fits the layout in force. Both are needed for the refinement, because a push writes only at indices of the add-on's own parameters, and a restore puts back only what the game bound. That the inserted parameters keep the order and the indices of the others is a lemma about `CreatePipelineLayout` alone; the 64 DWORDs are additivity of `Cost` (`ExtensionSound`). `GameHeapsAtDraw` is inductive with `HeapsTracked`: heaps that are not the game's are noted as dirty, and every bind point with game tables is one that `RestoreHeaps` will see. `DescriptorsReachShader` spans three moments: a job places every binding in a table (`Placed`: `BuildBindings` finds a parameter for all of them or the replacement is dropped), a bind carries it to the list, and a draw pushes the tables (`Pushed`). A slot of a table holds the last binding written to it; that this is the shader's own follows because within a parameter a slot determines the register, and `StagesAgree` makes the register determine the binding.

**DeviceLifetime.** `RefInv` knows the types, what each control point of a worker, of the overlay and of a call of the game holds (`WorkerControl`: a worker at `free` has a record and no device), that what a record, list or thread refers to was built for its device (`Belongs`) and that lists, the GPU and the game's calls are on devices that are up (`OnLiveDevices`). `Counted`: `in_flight` is the number of queued jobs and of workers that have one, two sets. With it `Torn` says for each phase of `OnDestroyDevice` what is over: with `in_flight` at 0 no worker has a job of the device, and then the queue and the resources go. `Mapped` and `Cleared` are about records: whoever still refers to a record of a device that is gone, it was in the map when that was cleared, and lost its replacement, or was destroyed before. A destroyed one may have got a replacement after, but then by a worker that was in flight, and the only place left to hold it is `free`: that is the orphan, and `GoneRecord` shows that there is no other. `UsesKept` carries `GpuObjectsAlive`: what the GPU uses is in a record of the map, in one whose `OnDestroyPipeline` has yet to take it, in the hands of a thread that will retire it, or in the retire queue with a frame not before the use's bind, and `Window < RetireFrames` lets it stay there until the use is over. A destroyed record is no such place - the orphan is never bound.

**Sm5Recipe.** `KInv` adds to `KeptInOrder` that every kept index in the output is below `idx`, and that `idx` never goes back. The second needs that no range of an action is empty, and this is where the checks of the code come in: `Validate` refuses a rule without patterns that would select matches (`RuleOK`), `ResolveReplacementRange` refuses a range that ends before it starts (`RangeOK`), and a window is a range of a program that stays as it is until all windows are done (`WithinOK`). Disjointness is not needed. `RefInv` is the merge against its definition: the output at any turn of the loop is the reference up to `idx` (`Upto`), before or behind the block that belongs there (`Follows`), whichever of the actions at one place the sort puts first. The reference is a recursive function over positions; what it is at each place is proved from the definition of its value at the place before. `Placed` (a range lies in the program) comes from the matches and windows, and `Landing` ties the actions of a blob step to its windows. `LostInv` follows the counter of applied rewrites and `ctx.program_modified`: they can be both clear only while the code is the input behind declarations. `LevelOK` relates `level`, whose instructions a rule rewrites, to the kind of the step; with it only a rule step or a blob step with a disposition can store into the program. `RecipeTypeCorrect` takes the sequences from `KInv` and the finiteness of the sets of matches from an injection of each match to its start.

**Sm5Program.** `DInv` carries `DeclaredOnce` and `CodeKept`. That no register is declared twice is nearly inductive as it stands: what an `add` function looks at (`SeenByAdd`) is all that is declared in its class, and a register it returns is not among it. For the ascending search this is a pigeonhole argument (`Free`: the registers from 0 to the number of taken ones cannot all be taken), for an explicit one the refusal. `CodeKept` is stated by a greedy search (`IsKept`), which no step preserves in an obvious way; the invariant says instead that there is an increasing embedding of the original instructions into the program. An insertion shifts it, the replacement of a `dcl_temps` leaves it, and a lemma shows that the greedy search is never ahead of an embedding. Declarations stay in front because every insertion is behind a declaration or at the very front. `TInv` places the temporaries: the pool starts at the temporaries of the original program, every added block is behind the pool and below the count, and the next block starts at the count; and the last `dcl_temps` covers the count whenever there is something to cover and a rule rewrote the program. It is here that a later template would break the invariant. `CInv` says of a run that its chunks are those `ReadChunks` finds in the input until `Finish` replaces the shader's tokens, and that an input without a shader chunk is refused; the rest of `ContainerWellFormed` is about operators. `Layout` puts each chunk at a multiple of four behind the end of the one before (`OffsetsAre`), so that its table is in order and every chunk fits, and reading it gives back what was laid out (`LayoutIs`): sorting is the identity on a table in order, and for any table it is a pigeonhole argument that the n-th value exists (`AscendingIn`). That the checksum takes each byte once is shown for every size, by the six ways its last blocks can end (`HashTakes`): with or without whole blocks before, and with a remainder of 0, up to 55, or from 56 to 63.

**RecipeStore.** `OneResult` is not inductive: nothing in it ties a result to the cache. `CacheInv` does: every result that was returned is in the cache of its set, and an entry holds at most one, for good, since `try_emplace` only adds to an empty one (`StoreKeeps`) and no step touches the cache of an older set (`Advanced`). `PatchInv` adds that what is in a cache, or in the hands of a worker between the lookup and the store, is the reference of its set; that the loop yields the reference is a lemma over the prefixes of the order of names (`PrefixesBy`, `IsReferenceUpTo`). `ShownIsApplied` needs `SyncInv`: an overlay that has read the set in force and has no edit waiting has exactly its overrides; a new set makes the premise false by its generation, an edit by `g_dirty`. `ValuesInv` follows a value from the editor through the set and the ini to the next start: overrides and saved texts have the type of the default, and a text reads back as it was written (the assumption `ValuesReadBack` about the formats, which TLC evaluates). `DeclaredInv` comes from `Finalize` alone (`DeclaredOnly`), through which every set goes. The steps of the overlay are proved by two lemmas, one for frames that change the overlay alone (`Framed`) and one for those that end in `ApplyEnvOverrides` (`Applied`).

**Sm6Recipe.** `RInv` says of the compiled recipe what parsing made of it (`RecipeOK`) and of the program that its resources are apart and its cbuffers tiled (`ProgramOK`). The first is where the arithmetic is. `PlaceFields` leaves fields that do not overlap, are aligned and stay in their row (`LaidOut`), so that row and component of a `cbuffer_field` address four bytes of the field (`ComponentAddress`), and the layouts a rule sees are those declared before it, also when a handle is declared again (`LayoutsDeclared`): reads do not depend on the type. The struct type is a run of elements without gap from 0 to the size (`Runs`: a field behind its padding extends a run to where it ends), and the annotations repeat that run (`AnnotatedTiles`). What a type becomes by a later declaration of its name is not known to tile anything; a cbuffer with a name of its own has the type it was made or one with the same body, which an annotation of the same layout turns into it (`TypesOK`, `NewTypeKeeps`). That an added resource is apart is the refusal on a register that is taken, read in the same list it is appended to.

Recursive definitions the theorems reach are recursive functions over positions (`Cost`, `Chain`, `Reference`, `IsKept`, `ReadChunks`, `Offsets`); what they compute is proved by taking the least position at which the claim fails.

Model-checked only:

- Liveness (`Converges`, `TeardownEnds`, `Terminates`), which is out of the prover's reach under fairness.
- `RoundTrip` and `ReadBack` of `Sm5Program`. They are about what `Sm5Tokens` reads and writes: trees of operands, read and written by RECURSIVE operators, and a claim about every tree is an induction over data.
- `SsaKept`, `HandlesBind`, `PrunedOutput` and `RewriteIsReference` of `Sm6Recipe`. The reference works on terms, which are RECURSIVE operators. The others follow a rule through its emits: what they need of LLVM (dominance through an insertion, the fixed point of dead code elimination) is an induction over paths and graphs for each of the moves of a rewrite.

## 5. What is not modelled

- **I/O and pure formats.** Creating objects on the device, parsing of YAML, settings and DDS, the drawing of the overlay, the log, statistics, shader dumps, the requirements of recipes, the MD5 rounds of the hash, the command-line tools. They keep no state that other parts depend on, or none that the properties tell apart.
- **Runtime.** The error list and blob interning; the interleaving inside `SetStatus`; the resource set inside `RecipeStore`; the D3D12 side of `DrawState` and the references of `DeviceLifetime` in `D3D12Draw`.
- **SM5.** Operands, captures and templates of rules (a pattern is an opcode). In tokens: the flags of `sync` and of UAV declarations, the sample count of `dcl_resource`, 64-bit literals and operands with two extension tokens, which the code itself does not write as it read them; overlays of thread groups and global flags. The instance keeps templates in front of resources.
- **SM6.** Patterns on the name of a callee, variables in patterns, LLVM operations other than binary ones, casts, select and extractvalue, the removal of unused declarations of DXIL operations, the verification of a single injected function. The container and bitcode are the DirectX compiler's.
- **Conditions.** Boolean operators and comparisons other than the state of a step and a lower bound of a count.

## 6. Plan

1. Proofs: `HandlesBind` and `PrunedOutput` of `Sm6Recipe`, whose handles and effects only appends, rewirings and erasures touch.
2. Composition of `PatchRuntime` with `DeviceLifetime` through the retire queue: the lifetime module's job as an abstraction of `ProcessJob`, as a refinement.
3. **Condition**: the whole language as functions against a reference.
4. Operands and captures of SM5 rules, with the template pool in emits.

Runs stay few: a new module gets one run that passes, and pure algorithms share one.
