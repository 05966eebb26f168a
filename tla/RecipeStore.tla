------------------------------ MODULE RecipeStore ------------------------------
(***************************************************************************)
(* The add-on's recipes (tools/reshade_addon: recipes.cpp, overlay.cpp,    *)
(* config.cpp and the public calls of runtime.cpp): the files on disk, the *)
(* values saved in ReShade.ini, the immutable recipe sets that every       *)
(* reload and every change of a value makes anew, the patch cache of each  *)
(* set with the workers that fill it, and the overlay's copy of the values.*)
(*                                                                         *)
(* Only the thread that draws the overlay stores g_recipes, so a frame is  *)
(* one action; the workers hold the set they were queued with.             *)
(***************************************************************************)
EXTENDS Integers, Sequences, FiniteSets, SequencesExt

CONSTANTS
  Order,       \* the names of the recipes, sorted
  ModelOf,     \* of a name, the shader model of its directory,
  StageOf,     \* and the stage, or "all"
  Vars,        \* names of variables
  Contents,    \* of a name, what its file may hold
  Typed,       \* values a user may type
  Shaders,     \* [model, stage, id]
  Workers,
  MaxGen,      \* recipe sets made before the process starts again
  Null

Names == Range(Order)
Settable == Names \X Vars

(* A file is [loads, env, does, adds]: whether it is there and valid, the  *)
(* defaults of its variables (Null where it has none), what it does to a   *)
(* shader ("changes", "keeps", "fails") and the handles it adds.           *)
ASSUME StoreAssumption ==
  /\ Order \in Seq(Names)
  /\ \A n \in Names : \A f \in Contents[n] :
       /\ f.loads \in BOOLEAN /\ DOMAIN f.env = Vars
       /\ f.does \in [Shaders -> {"changes", "keeps", "fails"}]
  /\ MaxGen \in Nat \ {0}

VARIABLES
  files,     \* recipes/
  ini,       \* [DXP.Env]; "" is what an absent key reads as
  sets,      \* the recipe sets by generation
  current,   \* the generation of g_recipes
  overlay,   \* g_pending, g_dirty, g_synced_from, the box and the field being typed in
  workers,   \* calls of RecipeSet::Patch
  returned,  \* what they returned
  saved      \* of each variable, the file and the value last saved

vars == <<files, ini, sets, current, overlay, workers, returned, saved>>

Loads(set, n) == set.entries[n].loads
Default(set, n, v) == IF Loads(set, n) THEN set.entries[n].env[v] ELSE Null

\* The value a recipe runs with: the recipe's own, or the override merged over it.
Effective(set, n, v) == IF set.overrides[n, v] # Null THEN set.overrides[n, v] ELSE Default(set, n, v)

-----------------------------------------------------------------------------
(* Recipe sets.                                                            *)

\* A cache has no result or one for a shader.
NoResults == [s \in Shaders |-> {}]
NoOverrides == [k \in Settable |-> Null]

\* Finalize drops the overrides of variables the recipes no longer declare.
Declared(entries, overrides) ==
  [k \in Settable |-> IF entries[k[1]].loads /\ entries[k[1]].env[k[2]] # Null THEN overrides[k] ELSE Null]

\* RecipeSet::Load of the files.
Load(overrides) ==
  [entries |-> files, overrides |-> Declared(files, overrides), cache |-> NoResults]

(* Mutant: the results are shared along with the parsed recipes.           *)
Mut_WithOverrides(set, overrides) ==
  [set EXCEPT !.overrides = Declared(set.entries, overrides)]

WithOverrides(set, overrides) ==
  [entries |-> set.entries, overrides |-> Declared(set.entries, overrides), cache |-> NoResults]

AppliesTo(set, n, s) ==
  Loads(set, n) /\ ModelOf[n] = s.model /\ StageOf[n] \in {"all", s.stage}

Execution(set, n) == [name |-> n, env |-> [v \in Vars |-> Effective(set, n, v)]]

(* Mutant: the chain starts from the shader again at every recipe.         *)
Mut_RunRecipe(set, s, patched, n) ==
  IF ~AppliesTo(set, n, s) \/ set.entries[n].does[s] # "changes" THEN patched
  ELSE [code |-> <<Execution(set, n)>>,
        bindings |-> {b \in patched.bindings : b.handle \notin set.entries[n].adds}
                       \cup {[handle |-> h, by |-> n] : h \in set.entries[n].adds}]

\* One recipe of RecipeSet::Patch.  One that fails or changes nothing leaves the shader.
RunRecipe(set, s, patched, n) ==
  IF ~AppliesTo(set, n, s) \/ set.entries[n].does[s] # "changes" THEN patched
  ELSE [code |-> Append(patched.code, Execution(set, n)),
        bindings |-> {b \in patched.bindings : b.handle \notin set.entries[n].adds}
                       \cup {[handle |-> h, by |-> n] : h \in set.entries[n].adds}]

Chain(set, s) ==
  LET run[i \in 0..Len(Order)] ==
        IF i = 0 THEN [code |-> <<>>, bindings |-> {}] ELSE RunRecipe(set, s, run[i - 1], Order[i])
  IN run[Len(Order)]

-----------------------------------------------------------------------------
(* Workers in RecipeSet::Patch.                                            *)

\* Look in the cache, under its lock; a job whose set applies to no shader is not queued.
Lookup(w, s) ==
  LET hit == sets[current].cache[s]
  IN /\ workers[w] = Null
     /\ \E n \in Names : AppliesTo(sets[current], n, s)
     /\ IF hit # {}
          THEN /\ returned' = returned \cup {<<current, s, result>> : result \in hit}
               /\ UNCHANGED workers
          ELSE /\ workers' = [workers EXCEPT ![w] = [gen |-> current, shader |-> s]]
               /\ UNCHANGED returned
     /\ UNCHANGED <<files, ini, sets, current, overlay, saved>>

(* Mutant: the later result replaces the one that is stored.               *)
Mut_Stored(old, new) == {new}

\* try_emplace keeps the entry that is there.
Stored(old, new) == IF old = {} THEN {new} ELSE old

\* Run the recipes, without the lock, and store the result, under it.  A null result is
\* the same whoever stores it.
Store(w) ==
  LET g == workers[w].gen
      s == workers[w].shader
      chain == Chain(sets[g], s)
      stored == Stored(sets[g].cache[s],
                       [patch |-> chain, maker |-> IF chain.code = <<>> THEN Null ELSE w])
  IN /\ workers[w] # Null
     /\ sets' = [sets EXCEPT ![g].cache[s] = stored]
     /\ returned' = returned \cup {<<g, s, result>> : result \in stored}
     /\ workers' = [workers EXCEPT ![w] = Null]
     /\ UNCHANGED <<files, ini, current, overlay, saved>>

-----------------------------------------------------------------------------
(* The overlay.  Every frame starts with the sync.                         *)

(* Mutant: the values of the first set are kept.                           *)
Mut_Pending(o) == IF o.synced = 0 THEN sets[current].overrides ELSE o.pending

Pending(o) == IF ~o.dirty /\ o.synced # current THEN sets[current].overrides ELSE o.pending

Synced(o) == [o EXCEPT !.pending = Pending(o), !.synced = IF o.dirty THEN @ ELSE current]

\* The value that the editor of a variable shows.
Shown(n, v) ==
  IF Pending(overlay)[n, v] # Null THEN Pending(overlay)[n, v] ELSE Default(sets[current], n, v)

\* ApplyEnvOverrides of g_pending, and the frame's end.
Apply(o) ==
  /\ current < MaxGen
  /\ sets' = [sets EXCEPT ![current + 1] = WithOverrides(sets[current], o.pending)]
  /\ current' = current + 1
  /\ overlay' = [o EXCEPT !.dirty = FALSE, !.typing = Null]
  /\ UNCHANGED <<files, ini, workers, returned, saved>>

Frame(o) ==
  /\ overlay' = o
  /\ UNCHANGED <<files, ini, sets, current, workers, returned, saved>>

Edited(o, k, value) == [o EXCEPT !.pending[k] = value, !.dirty = TRUE]

Editable(k, value) ==
  /\ Default(sets[current], k[1], k[2]) # Null
  /\ value.type = Shown(k[1], k[2]).type

\* A box or a +/- button: changed and committed in one frame.
Set(k, value) ==
  LET o == Edited(Synced(overlay), k, value)
  IN /\ overlay.typing = Null /\ Editable(k, value)
     /\ IF overlay.auto THEN Apply(o) ELSE Frame(o)

\* Text is stored as it is typed, and committed when the field loses the focus.
Type(k, value) ==
  /\ overlay.typing \in {Null, k} /\ Editable(k, value)
  /\ Frame([Edited(Synced(overlay), k, value) EXCEPT !.typing = k])

Commit ==
  /\ overlay.typing # Null
  /\ IF overlay.auto THEN Apply(Synced(overlay))
     ELSE Frame([Synced(overlay) EXCEPT !.typing = Null])

\* The overlay is closed while a field has the focus.
Close == overlay.typing # Null /\ Frame([overlay EXCEPT !.typing = Null])

Reset(k) ==
  LET o == Edited(Synced(overlay), k, Null)
  IN /\ overlay.typing = Null
     /\ Default(sets[current], k[1], k[2]) # Null /\ Pending(overlay)[k] # Null
     /\ IF overlay.auto THEN Apply(o) ELSE Frame(o)

ApplyButton == overlay.typing = Null /\ overlay.dirty /\ ~overlay.auto /\ Apply(Synced(overlay))

Repatch == overlay.typing = Null /\ Apply(Synced(overlay))

AutoBox == overlay.typing = Null /\ Frame([Synced(overlay) EXCEPT !.auto = ~@])

\* ReloadAll: the files again, with the overrides of the set; edits not applied are dropped.
Reload ==
  /\ overlay.typing = Null /\ current < MaxGen
  /\ sets' = [sets EXCEPT ![current + 1] = Load(sets[current].overrides)]
  /\ current' = current + 1
  /\ overlay' = [Synced(overlay) EXCEPT !.dirty = FALSE]
  /\ UNCHANGED <<files, ini, workers, returned, saved>>

-----------------------------------------------------------------------------
(* ReShade.ini.  A value is [type, text]: its variant and its decimal form.*)

FormatValue(value) == value.text

\* from_chars of an integer takes the digits in front of anything else.
Whole(text) ==
  CASE text = "2.5" -> "2" [] text \in {"true", "false"} -> Null [] OTHER -> text

ReadText(text, type) ==
  CASE type = "bool" -> IF text \in {"true", "1"} THEN "true" ELSE "false"
    [] type = "float" -> IF text \in {"true", "false"} THEN Null ELSE text
    [] OTHER -> Whole(text)

\* A value of any variable.  Its text reads back, in its own type, as what was written.
Defaults(k) == {f.env[k[2]] : f \in Contents[k[1]]} \ {Null}
Values == Typed \cup UNION {Defaults(k) : k \in Settable}

ASSUME ValuesReadBack ==
  \A value \in Values :
    /\ value = [type |-> value.type, text |-> value.text]
    /\ value # Null /\ value.text \notin {"", Null}
    /\ ReadText(value.text, value.type) = value.text

\* LoadEnvOverride: the text as a value of the default's type.
LoadEnvOverride(k, default) ==
  IF ini[k] = "" \/ ReadText(ini[k], default.type) = Null THEN Null
  ELSE [type |-> default.type, text |-> ReadText(ini[k], default.type)]

(* Mutant: a variable without a value of its own keeps what was saved.     *)
Mut_SaveEnvOverride(old, value) == IF value = Null THEN old ELSE FormatValue(value)

SaveEnvOverride(old, value) == IF value = Null THEN "" ELSE FormatValue(value)

\* The Save button: every variable of the recipes that are loaded.
Save ==
  LET shown == {k \in Settable : Default(sets[current], k[1], k[2]) # Null}
  IN /\ overlay.typing = Null
     /\ ini' = [k \in Settable |-> IF k \in shown THEN SaveEnvOverride(ini[k], Pending(overlay)[k]) ELSE ini[k]]
     /\ saved' = [k \in Settable |-> IF k \in shown
                    THEN [file |-> sets[current].entries[k[1]], value |-> Shown(k[1], k[2])]
                    ELSE saved[k]]
     /\ overlay' = Synced(overlay)
     /\ UNCHANGED <<files, sets, current, workers, returned>>

\* InitializeRuntime.
Startup ==
  LET defaults == Load(NoOverrides)
      stored == [k \in Settable |->
                   IF Default(defaults, k[1], k[2]) = Null THEN Null
                   ELSE LoadEnvOverride(k, Default(defaults, k[1], k[2]))]
  IN IF stored = NoOverrides THEN defaults ELSE WithOverrides(defaults, stored)

FirstSet == [g \in 1..MaxGen |-> IF g = 1 THEN Startup ELSE Null]

ClosedOverlay(auto) ==
  [pending |-> NoOverrides, dirty |-> FALSE, synced |-> 0, auto |-> auto, typing |-> Null]

\* The game ends and starts again.
Restart ==
  /\ sets' = FirstSet
  /\ current' = 1
  /\ overlay' = ClosedOverlay(overlay.auto)
  /\ workers' = [w \in Workers |-> Null]
  /\ returned' = {}
  /\ UNCHANGED <<files, ini, saved>>

\* Someone edits, breaks, removes or adds a recipe.
EditFile(n, content) ==
  /\ content # files[n]
  /\ files' = [files EXCEPT ![n] = content]
  /\ UNCHANGED <<ini, sets, current, overlay, workers, returned, saved>>

-----------------------------------------------------------------------------
Init ==
  /\ files \in {f \in [Names -> UNION {Contents[n] : n \in Names}] : \A n \in Names : f[n] \in Contents[n]}
  /\ ini = [k \in Settable |-> ""]
  /\ sets = FirstSet
  /\ current = 1
  /\ overlay = ClosedOverlay(TRUE)
  /\ workers = [w \in Workers |-> Null]
  /\ returned = {}
  /\ saved = [k \in Settable |-> Null]

Next ==
  \/ \E w \in Workers : Store(w) \/ \E s \in Shaders : Lookup(w, s)
  \/ \E k \in Settable : Reset(k) \/ \E value \in Typed : Set(k, value) \/ Type(k, value)
  \/ Commit \/ Close \/ ApplyButton \/ Repatch \/ AutoBox \/ Reload \/ Save \/ Restart
  \/ \E n \in Names : \E content \in Contents[n] : EditFile(n, content)

Spec == Init /\ [][Next]_vars

-----------------------------------------------------------------------------
\* Type invariant of the sets and of the overlay: overrides only of variables that a
\* loaded recipe declares, an edit under way only when it is on record.
TypeOK ==
  /\ current \in 1..MaxGen
  /\ \A g \in 1..current : \A k \in Settable :
       sets[g].overrides[k] # Null => Default(sets[g], k[1], k[2]) # Null
  /\ overlay.synced \in 0..current
  /\ overlay.typing # Null => overlay.dirty
  /\ \A w \in Workers : workers[w] # Null => workers[w].gen \in 1..current
  /\ \A r \in returned : r[1] \in 1..current /\ r[2] \in Shaders

\* The recipes that change a shader, by their place in the order.
Changing(set, s) ==
  {i \in DOMAIN Order : AppliesTo(set, Order[i], s) /\ set.entries[Order[i]].does[s] = "changes"}

Increasing(at) == \A i, j \in DOMAIN at : i < j => at[i] < at[j]

\* The patch that the recipes of a set make of a shader: each of those that change it runs
\* once, in name order, with its values, and a handle is bound where the last one put it.
IsReference(set, s, patch) ==
  LET changing == Changing(set, s)
      adds(i) == set.entries[Order[i]].adds
      last(i) == {h \in adds(i) : \A j \in changing : j > i => h \notin adds(j)}
  IN /\ \E at \in [DOMAIN patch.code -> changing] :
          /\ Increasing(at) /\ Range(at) = changing
          /\ patch.code = [i \in DOMAIN at |-> Execution(set, Order[at[i]])]
     /\ patch.bindings = UNION {{[handle |-> h, by |-> Order[i]] : h \in last(i)} : i \in changing}

\* Whichever worker asks, and whatever was cached before a reload or a change of a value:
\* a patch is that of the recipes and values of its own set, the outputs chained in name
\* order, a handle bound where the last recipe put it (recipes.hpp:82 "Runs all recipes
\* for (model, stage) in name order, chaining outputs").
PatchIsReference == \A r \in returned : IsReference(sets[r[1]], r[2], r[3].patch)

\* Two workers that miss the cache for one shader at once end with one object: the patch
\* of a generation is one and the same for every pipeline with the shader
\* (recipes.cpp:190-257, README.md:166-168 of the add-on: "so a
\* shader shared by thousands of PSOs is patched once").
OneResult == \A r, q \in returned : r[1] = q[1] /\ r[2] = q[2] => r[3] = q[3]

\* When no edit is waiting, the overlay shows the values the recipes run with, after any
\* sequence of edits, resets, reloads of changed or broken files and restarts
\* (overlay.cpp:194-243, 282-299, RecipeSet::Finalize).
ShownIsApplied ==
  ~overlay.dirty =>
    \A n \in Names : \A v \in Vars :
      Default(sets[current], n, v) # Null => Shown(n, v) = Effective(sets[current], n, v)

\* The next launch applies what the overlay showed when the values were saved, for every
\* recipe whose file is the one they were saved for (overlay.cpp:238 "so they are applied
\* on the next launch").
SavedIsRestored ==
  [][Restart => \A k \in Settable :
       saved[k] # Null /\ saved[k].file = files[k[1]] =>
         Effective(sets'[1], k[1], k[2]) = saved[k].value]_vars
================================================================================
