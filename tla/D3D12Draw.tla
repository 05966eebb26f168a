------------------------------- MODULE D3D12Draw -------------------------------
(***************************************************************************)
(* Binding and drawing on a D3D12 command list (tools/reshade_addon:       *)
(* runtime.cpp).  A replacement gets its resources through the tables that *)
(* LayoutInjection appended to the root signature: BuildBindings chooses   *)
(* the places, every draw pushes the descriptors.  A push switches the     *)
(* list to ReShade's descriptor heaps; the next draw without one has the   *)
(* last table of the game bound again, which switches back.                *)
(*                                                                         *)
(* An action is a call of the game with the handlers ReShade runs for it,  *)
(* or a step of another thread.  The list itself, and what pushing and     *)
(* binding a table do to it, are external.                                 *)
(***************************************************************************)
EXTENDS LayoutInjection

CONSTANTS
  Pipelines, Compute,  \* the game's pipelines, and those of dispatches
  Layouts, LayoutOf,   \* its root signatures, and the one of each pipeline
  BindsAt,             \* the bind points the game sets each of them at
  Signatures,          \* the parameters each of them may have
  Wants,               \* per pipeline, the bindings recipes may add to each of its shaders
  Tables,              \* the game's descriptor tables
  Params,              \* positions of root parameters
  Allowed,             \* what the game does besides
  Null

BindPoints == {"graphics", "compute"}

(*   late_tracking        has tables bound when the first replacement that *)
(*                        has bindings is published                        *)
(*   redundant_signature  sets the root signature again that is set, with  *)
(*                        tables bound                                     *)
Habits == {"late_tracking", "redundant_signature"}

ASSUME D3D12Assumption ==
  /\ Compute \subseteq Pipelines
  /\ LayoutOf \in [Pipelines -> Layouts]
  /\ BindsAt \in [Layouts -> SUBSET BindPoints]
  /\ Null \notin Pipelines \cup Layouts \cup Tables \cup {"game", "reshade"}
  /\ Params \subseteq Nat \ {0}
  /\ Allowed \subseteq Habits

\* push_descriptors is one range, and has no words.
ASSUME ParamsWellFormed ==
  \A l \in Layouts : \A s \in Signatures[l] :
    /\ s \in Seq(Parameters)
    /\ \A i \in DOMAIN s : s[i].kind = "push" => s[i] = InjectedParam(Head(s[i].ranges))

\* ReShade has static samplers behind the root parameters, in the game's own order.
ASSUME StaticsLast ==
  \A l \in Layouts : \A s \in Signatures[l] : \A i, j \in DOMAIN s : StaticOnly(s[i]) /\ i < j => StaticOnly(s[j])

Other(t) == IF t = "graphics" THEN "compute" ELSE "graphics"

VARIABLES
  layouts,       \* of each root signature, the parameters of the game and the real ones
  injections,    \* state.layouts
  pipelines,     \* the pipelines that exist
  published,     \* record.replacement of each
  any_bindings,  \* g_any_bindings
  list,          \* the command list and the add-on's data of it
  call           \* the draw of the game's last call, if it was one

device == <<layouts, injections, pipelines, published, any_bindings>>
vars == <<device, list, call>>

\* pipe, root, args and heaps are the list's; the others are CommandListState's.
NoTable == [layout |-> Null, param |-> 0, table |-> Null]
NoPending == [repl |-> Null, swapped |-> FALSE]
NoDraw == [op |-> "none"]
EmptyList ==
  [pipe |-> Null, root |-> [t \in BindPoints |-> Null],
   args |-> [t \in BindPoints |-> [i \in Params |-> Null]], heaps |-> Null,
   pending |-> NoPending, heaps_dirty |-> FALSE,
   last_table |-> [t \in BindPoints |-> NoTable], current_layout |-> [t \in BindPoints |-> Null]]

Init ==
  /\ layouts = [l \in Layouts |-> Null]
  /\ injections = <<>>
  /\ pipelines = {}
  /\ published = [p \in Pipelines |-> Null]
  /\ any_bindings = FALSE
  /\ list = EmptyList
  /\ call = NoDraw

-----------------------------------------------------------------------------
(* The device, and other threads.                                          *)

\* OnCreatePipelineLayout and OnInitPipelineLayout, one behind the other; `any_add' is
\* AnyAddResource of the recipe set of the moment, which a reload changes at any time.
CreateLayout(l, params, any_add) ==
  LET real == CreatePipelineLayout(params, any_add)
      found == FindInjection(real)
  IN /\ layouts[l] = Null
     /\ layouts' = [layouts EXCEPT ![l] = [game |-> params, real |-> real]]
     /\ injections' = IF \A class \in Range(Classes) : found[class] = 0 THEN injections
                      ELSE [k \in DOMAIN injections \cup {l} |->
                              IF k = l THEN found ELSE injections[k]]
     /\ UNCHANGED <<pipelines, published, any_bindings, list, call>>

(* Mutant: the tables of a destroyed layout stay known.                    *)
Mut_ForgetLayout(l) == injections

ForgetLayout(l) == [k \in DOMAIN injections \ {l} |-> injections[k]]

\* A root signature may go when no pipeline and no list uses it.
DestroyLayout(l) ==
  /\ layouts[l] # Null
  /\ \A p \in pipelines : LayoutOf[p] # l
  /\ \A t \in BindPoints : list.root[t] # l
  /\ layouts' = [layouts EXCEPT ![l] = Null]
  /\ injections' = ForgetLayout(l)
  /\ UNCHANGED <<pipelines, published, any_bindings, list, call>>

CreatePipeline(p) ==
  /\ p \notin pipelines /\ layouts[LayoutOf[p]] # Null
  /\ pipelines' = pipelines \cup {p}
  /\ UNCHANGED <<layouts, injections, published, any_bindings, list, call>>

IsReplacement(x) == x \notin Pipelines \cup {Null}
GamePipe(x) == IF IsReplacement(x) THEN x.pipeline ELSE x

DestroyPipeline(p) ==
  /\ p \in pipelines /\ GamePipe(list.pipe) # p
  /\ pipelines' = pipelines \ {p}
  /\ published' = [published EXCEPT ![p] = Null]
  /\ UNCHANGED <<layouts, injections, any_bindings, list, call>>

\* The table of a binding's class, and whether the binding lies in its range.
ParamOf(l, b) == IF b.type \in Range(Classes) THEN injections[l][b.type] ELSE 0

(* Mutant: the register's space is not looked at.                          *)
Mut_InInjectedRange(b) ==
  b.reg >= Injected[b.type].base /\ b.reg < Injected[b.type].base + Injected[b.type].count

InInjectedRange(b) ==
  /\ b.space = Injected.space
  /\ b.reg >= Injected[b.type].base /\ b.reg < Injected[b.type].base + Injected[b.type].count

DrawBinding(l, b) ==
  [param |-> ParamOf(l, b), slot |-> b.reg - Injected[b.type].base, handle |-> b.handle]

\* BuildBindings: whether the bindings a pipeline's recipes added can be bound.
Bindable(l, wants) ==
  /\ l \in DOMAIN injections
  /\ \A b \in wants : ParamOf(l, b) # 0 /\ InInjectedRange(b)
  /\ \A a, b \in wants :
       DrawBinding(l, a).param = DrawBinding(l, b).param
         /\ DrawBinding(l, a).slot = DrawBinding(l, b).slot => a.handle = b.handle

\* ProcessJob's bindings of a pipeline: a handle that an earlier shader has is left out.
Merged(shaders) ==
  UNION {{b \in shaders[k] : \A j \in 1..(k - 1) : \A m \in shaders[j] :
                               m.handle # b.handle \/ m.type # b.type} : k \in DOMAIN shaders}

Replacement(p, shaders) ==
  [pipeline |-> p, wants |-> UNION Range(shaders),
   bindings |-> {DrawBinding(LayoutOf[p], b) : b \in Merged(shaders)}]

\* The end of a job: BuildBindings and Publish.  Bindings that cannot be bound are a
\* failure and the game's pipeline stays.
Patch(p, shaders) ==
  /\ p \in pipelines
  /\ Merged(shaders) # {} /\ ~any_bindings =>
       \/ "late_tracking" \in Allowed
       \/ \A t \in BindPoints : \A i \in Params : list.args[t][i] = Null
  /\ LET wants == Merged(shaders)
         built == wants = {} \/ Bindable(LayoutOf[p], wants)
     IN /\ published' = [published EXCEPT ![p] = IF built THEN Replacement(p, shaders) ELSE Null]
        /\ any_bindings' = (any_bindings \/ (built /\ wants # {}))
  /\ UNCHANGED <<layouts, injections, pipelines, list, call>>

\* A job whose recipes leave the shader alone.
Unpatch(p) ==
  /\ p \in pipelines /\ published[p] # Null
  /\ published' = [published EXCEPT ![p] = Null]
  /\ UNCHANGED <<layouts, injections, pipelines, any_bindings, list, call>>

-----------------------------------------------------------------------------
(* The list.  A handler takes the list and returns it.                     *)

\* OnBindPipeline; the overlay sets g_enabled at any time.
BindPipeline(p, enabled) ==
  LET found == IF enabled THEN published[p] ELSE Null
  IN /\ p \in pipelines
     /\ list' = [list EXCEPT !.pipe = p, !.pending = [repl |-> found, swapped |-> FALSE]]
     /\ call' = NoDraw
     /\ UNCHANGED device

\* RestoreHeaps: bind_descriptor_tables with the table bound last, of the preferred bind
\* point if it has one, and the heaps of the table with it.
RestoreHeaps(l, preferred) ==
  LET usable == {t \in BindPoints : /\ l.last_table[t].table # Null
                                    /\ l.last_table[t].layout = l.current_layout[t]}
      t == IF preferred \in usable THEN preferred ELSE Other(preferred)
  IN IF usable = {} THEN l
     ELSE [l EXCEPT !.args[t][l.last_table[t].param] = l.last_table[t].table,
                    !.heaps = "game", !.heaps_dirty = FALSE]

(* Mutant: the first parameter of the call is taken for the last.          *)
Mut_TableBind(layout, first, tables) ==
  [layout |-> layout, param |-> first, table |-> Last(tables)]

TableBind(layout, first, tables) ==
  [layout |-> layout, param |-> first + Len(tables) - 1, table |-> Last(tables)]

\* OnBindDescriptorTables; without tables, a root signature was set.
OnBindDescriptorTables(l, t, layout, first, tables) ==
  LET now == IF tables = <<>> THEN NoTable ELSE TableBind(layout, first, tables)
      tracked == [l EXCEPT !.current_layout[t] = layout, !.last_table[t] = now]
  IN IF ~any_bindings THEN l
     ELSE IF tables # <<>> /\ l.heaps_dirty THEN RestoreHeaps(tracked, t) ELSE tracked

SetRootSignature(t, layout) ==
  LET same == list.root[t] = layout
      set == [list EXCEPT !.root[t] = layout,
                          !.args[t] = IF same THEN @ ELSE [i \in Params |-> Null]]
  IN /\ layouts[layout] # Null
     /\ same => \/ "redundant_signature" \in Allowed
                \/ \A i \in Params : list.args[t][i] \notin Tables
     /\ list' = OnBindDescriptorTables(set, t, layout, 0, <<>>)
     /\ call' = NoDraw
     /\ UNCHANGED device

\* The root parameters of a layout: those in front of the static samplers.
Roots(params) ==
  [i \in {i \in DOMAIN params : \A j \in 1..i : ~StaticOnly(params[j])} |-> params[i]]

\* The game sets its tables when its heaps are set.
SetTables(t, first, tables) ==
  LET ps == first..(first + Len(tables) - 1)
      set == [list EXCEPT !.args[t] = [i \in Params |-> IF i \in ps THEN tables[i - first + 1] ELSE @[i]]]
  IN /\ list.root[t] # Null /\ list.heaps # Null
     /\ \A i \in ps : /\ i \in DOMAIN Roots(layouts[list.root[t]].game)
                      /\ Roots(layouts[list.root[t]].game)[i].kind = "table"
     /\ list' = OnBindDescriptorTables(set, t, list.root[t], first, tables)
     /\ call' = NoDraw
     /\ UNCHANGED device

\* SetDescriptorHeaps: no handler of the add-on.
SetHeaps ==
  /\ list.heaps # "game"
  /\ list' = [list EXCEPT !.heaps = "game"]
  /\ call' = NoDraw
  /\ UNCHANGED device

(* Mutant: registers that the shader does not use keep what was there.     *)
Mut_TableOf(r, param) ==
  LET mine == {b \in r.bindings : b.param = param}
  IN [k \in 1..(Max({b.slot : b \in mine}) + 1) |->
        IF \E b \in mine : b.slot = k - 1 THEN (CHOOSE b \in mine : b.slot = k - 1).handle ELSE Null]

\* The descriptors for a table, gaps filled with the first of them.
TableOf(r, param) ==
  LET mine == {b \in r.bindings : b.param = param}
      first == CHOOSE b \in mine : \A c \in mine : b.slot <= c.slot
      at(k) == {b \in mine : b.slot = k - 1}
  IN [k \in 1..(Max({b.slot : b \in mine}) + 1) |->
        IF at(k) = {} THEN first.handle ELSE (CHOOSE b \in at(k) : TRUE).handle]

\* PushD3D12: one push_descriptors for every table.
PushD3D12(l, t, r) ==
  LET used == {b.param : b \in r.bindings}
  IN [l EXCEPT !.args[t] = [i \in Params |-> IF i \in used THEN TableOf(r, i) ELSE @[i]],
               !.heaps = "reshade", !.heaps_dirty = TRUE]

\* ApplySwap.
ApplySwap(l, ready) ==
  [l EXCEPT !.pipe = IF ready = l.pending.swapped THEN @
                     ELSE IF ready THEN l.pending.repl ELSE l.pending.repl.pipeline,
            !.pending.swapped = ready]

BindPointOf(p) == IF p \in Compute THEN "compute" ELSE "graphics"

(* Mutant: a replacement that was bound by the last draw has its tables.   *)
Mut_Pushes(l, ready) == ready /\ ~l.pending.swapped /\ l.pending.repl.bindings # {}

Pushes(l, ready) == ready /\ l.pending.repl.bindings # {}

(* Mutant: only the draw's own bind point is looked at.                    *)
Mut_Restore(l, t) == IF l.last_table[t].table = Null THEN l ELSE RestoreHeaps(l, t)

Restore(l, t) == IF l.heaps_dirty THEN RestoreHeaps(l, t) ELSE l

\* HandleDraw: a draw or dispatch, or an indirect call that tells not which (unknown);
\* `usable' is g_enabled, and every provider has something to bind.
Draw(unknown, usable) ==
  LET t == BindPointOf(GamePipe(list.pipe))
      preferred == IF unknown THEN "graphics" ELSE t
      held == list.pending.repl # Null
      ready == held /\ usable
      swapped == IF held THEN ApplySwap(list, ready) ELSE list
  IN /\ list.pipe # Null
     /\ list.root[t] = LayoutOf[GamePipe(list.pipe)]
     /\ usable => held
     /\ list' = IF held /\ Pushes(list, ready) THEN PushD3D12(swapped, t, list.pending.repl)
                ELSE Restore(swapped, preferred)
     /\ call' = [op |-> "draw", at |-> t]
     /\ UNCHANGED device

\* OnResetCommandList.
ResetList ==
  /\ list' = EmptyList
  /\ call' = NoDraw
  /\ UNCHANGED device

-----------------------------------------------------------------------------
DeviceStep ==
  \/ \E l \in Layouts, any_add \in BOOLEAN : \E s \in Signatures[l] : CreateLayout(l, s, any_add)
  \/ \E l \in Layouts : DestroyLayout(l)
  \/ \E p \in Pipelines : CreatePipeline(p) \/ DestroyPipeline(p) \/ Unpatch(p)
  \/ \E p \in Pipelines : \E shaders \in Wants[p] : Patch(p, shaders)

ListStep ==
  \/ \E p \in Pipelines, enabled \in BOOLEAN : BindPipeline(p, enabled)
  \/ \E l \in Layouts : \E t \in BindsAt[l] : SetRootSignature(t, l)
  \/ \E t \in BindPoints, i \in Params, tables \in UNION {[1..n -> Tables] : n \in 1..2} :
       SetTables(t, i, tables)
  \/ SetHeaps
  \/ \E unknown, usable \in BOOLEAN : Draw(unknown, usable)
  \/ ResetList

Next == DeviceStep \/ ListStep

Spec == Init /\ [][Next]_vars

-----------------------------------------------------------------------------
\* The registers a root signature declares, those of parameter i.
MaxRegister == Max({r.reg + (IF r.count = Unbounded THEN 0 ELSE r.count) :
                      r \in UNION {Range(p.ranges) : p \in UNION {Range(s) : s \in UNION {Signatures[l] : l \in Layouts}}}
                              \cup Range(InjectedRanges)})
RegistersOf(param) ==
  UNION {{<<ClassOf(r.type), r.space, n>> :
            n \in r.reg..(IF r.count = Unbounded THEN MaxRegister ELSE r.reg + r.count - 1)} :
          r \in Range(param.ranges)}
Disjoint(params) ==
  \A i, j \in DOMAIN params : i # j => RegistersOf(params[i]) \cap RegistersOf(params[j]) = {}

\* A root signature the add-on extended is still one that D3D12 accepts: no register is
\* declared twice, and it keeps to 64 DWORDs (OnCreatePipelineLayout, runtime.cpp:668-744).
ExtensionSound ==
  \A l \in Layouts : layouts[l] # Null /\ layouts[l].real # layouts[l].game =>
     /\ Disjoint(layouts[l].game) => Disjoint(layouts[l].real)
     /\ Cost(layouts[l].real) <= MaxDwords

\* The game's root parameters keep their index, and the indices that the add-on
\* remembers of a layout are those of its own tables in it (runtime.cpp:713-714 "so
\* injected params go in front of them to keep root parameter indices stable").
IndicesKept ==
  \A l \in Layouts :
     /\ layouts[l] # Null =>
          LET roots == Roots(layouts[l].real)
              game == Roots(layouts[l].game)
          IN \A i \in DOMAIN game : i \in DOMAIN roots /\ roots[i] = game[i]
     /\ l \in DOMAIN injections =>
          /\ layouts[l] # Null
          /\ \A class \in Range(Classes) : injections[l][class] # 0 =>
               /\ injections[l][class] \in DOMAIN Roots(layouts[l].real)
               /\ Roots(layouts[l].real)[injections[l][class]] = InjectedParam(InjectedRange(class))

\* The list is drawing with a replacement that has bindings.
Drawing == call.op = "draw" /\ IsReplacement(list.pipe) /\ list.pipe.bindings # {}

\* What a shader that is bound reads at a register: the descriptor of the table at the
\* root parameter that declares the register.
Reads(t, b, handle) ==
  LET roots == Roots(layouts[list.root[t]].real)
  IN \E i \in DOMAIN roots : \E r \in Range(roots[i].ranges) :
       /\ r.type = b.type /\ r.space = b.space
       /\ b.reg \in r.reg..(r.reg + r.count - 1)
       /\ i \in Params /\ list.args[t][i] \notin Tables \cup {Null}
       /\ b.reg - r.reg + 1 \in DOMAIN list.args[t][i]
       /\ list.args[t][i][b.reg - r.reg + 1] = handle

\* Whatever the game, a reload or the Enabled box did before: a draw with a replacement
\* reads every resource its recipes added at the register they gave it (BuildBindings,
\* OnInitPipelineLayout, PushD3D12, HandleDraw), and a table the add-on pushed holds only
\* descriptors of its class in the registers the shader does not use (runtime.cpp:1115-1116
\* "so the copied table never contains garbage").
DescriptorsReachShader ==
  Drawing =>
    /\ list.heaps = "reshade"
    /\ \A b \in list.pipe.wants : Reads(call.at, b, b.handle)
    /\ \A class \in Range(Classes) :
         LET i == injections[list.root[call.at]][class]
             mine == {b.handle : b \in {w \in list.pipe.wants : w.type = class}}
         IN i # 0 /\ mine # {} => Range(list.args[call.at][i]) \subseteq mine

\* A draw that pushes nothing and whose bind point has a table of the game has the game's
\* descriptor heaps (runtime.cpp:262-263 "The game's heaps are restored by re-binding the
\* last game descriptor table", README.md:188-189).  It takes a game without the Habits.
GameHeapsAtDraw ==
  call.op = "draw" /\ ~Drawing /\ (\E i \in Params : list.args[call.at][i] \in Tables)
    => list.heaps = "game"

Game == INSTANCE CommandList WITH
  pipe <- GamePipe(list.pipe), root <- list.root, call <- call,
  args <- [t \in BindPoints |-> [i \in Params |->
             IF list.args[t][i] \in Tables THEN list.args[t][i] ELSE Null]]

\* But for the tables and heaps of its own and the pipeline a draw swaps, the list is the
\* one the game recorded: what the add-on binds again is what was bound (RestoreHeaps,
\* PushD3D12, ApplySwap).
ListUnaffected == Game!Spec
================================================================================
