---------------------------- MODULE PatchRuntime ----------------------------
(***************************************************************************)
(* The asynchronous patching pipeline of the ReShade add-on, for one       *)
(* device (tools/reshade_addon/runtime.cpp).                               *)
(*                                                                         *)
(* Every pipeline the game creates gets a PipelineRecord.  A record is     *)
(* enqueued for a recipe generation; worker threads run the recipes, build *)
(* a replacement pipeline and publish it in the record.  Creator threads   *)
(* (init_pipeline, destroy_pipeline), the overlay (ReloadAll,              *)
(* ApplyEnvOverrides) and the thread that reports the first graphics queue *)
(* (LoadResources) call Enqueue concurrently with the workers.             *)
(*                                                                         *)
(* One step of a thread is one access to shared memory: an atomic load,    *)
(* store or exchange, or one critical section.  Two groups are merged:     *)
(* SetStatus (its compare-exchange and the two counter updates, which      *)
(* commute) and a Retire with the step next to it (nothing here reads the  *)
(* retire queue; DeviceLifetime.tla does).                                 *)
(***************************************************************************)
EXTENDS Integers, Sequences, FiniteSets

CONSTANTS
  Pipelines,   \* the records the game's pipelines get, one per creation
  Handles,     \* api::pipeline handles
  Handle,      \* handle of each record's pipeline: a destroyed one is reused
  Workers,     \* g_workers
  Creators,    \* game threads that create and destroy pipelines
  Overlays,    \* threads that draw the overlay (reload, env overrides)
  Loaders,     \* threads that report a graphics queue or present
  MaxGen,      \* bound on recipe generations
  D3D11,       \* whether the device is D3D11 (else D3D12)
  Effect,      \* what the recipes of a generation do to a pipeline
  NoPipeline   \* stands for a null record pointer

(* What running the recipes of generation g on pipeline p comes to:        *)
(*   inapplicable  no recipe for the model and stage of its shaders        *)
(*   unmodified    recipes ran and modified nothing                        *)
(*   throws        the job throws (memory exhausted, say)                  *)
(*   plain         modified, without added resources                       *)
(*   bound         modified, with resources that must resolve              *)
(*   unresolved    modified, but a resource does not resolve               *)
(*   rejected      modified, but the driver refuses the new pipeline       *)
Effects == {"inapplicable", "unmodified", "throws", "plain", "bound",
            "unresolved", "rejected"}

ASSUME ConstantsAssumption ==
  /\ MaxGen \in Nat \ {0}
  /\ D3D11 \in BOOLEAN
  /\ Handle \in [Pipelines -> Handles]
  /\ Effect \in [Pipelines -> [1..MaxGen -> Effects]]
  /\ NoPipeline \notin Pipelines

Callers == Creators \cup Overlays \cup Loaders
Threads == Workers \cup Callers

RecordStatus == {"pending", "unmodified", "patched", "failed", "waiting", "destroyed"}

(* A replacement object: the record it was built for, the generation, the  *)
(* resource set (0: it needs none) and its number among those built for    *)
(* the record (two jobs of one generation build two objects).              *)
Replacements == [rec : Pipelines, gen : 1..MaxGen, res : Nat, n : Nat \ {0}]
NoReplacement == [rec |-> NoPipeline, gen |-> 0, res |-> 0, n |-> 0]
OptionalReplacement == Replacements \cup {NoReplacement}

Jobs == [rec : Pipelines, gen : 1..MaxGen]

VARIABLES
  generations,   \* last generation handed out (g_next_generation - 1)
  recipes,       \* Generation() of g_recipes
  resources,     \* version of state.resources, 0 before the first load
  loads,         \* resource sets loaded so far
  pipelines,     \* records in state.pipelines
  created,       \* records ever made (a record outlives its map entry)
  requested,     \* record.requested_generation
  status,        \* record.status
  replacement,   \* record.replacement
  owners,        \* state.replacement_owners (D3D11): <<replacement, record>>
  counts,        \* state.status_counts
  queue,         \* g_queue: jobs [rec, gen]
  retired,       \* every replacement handed to Retire
  built,         \* number of replacements built for each record
  pc,            \* control state of each thread
  loc,           \* locals of the call a thread is in
  todo           \* records a RepatchDevice loop has still to enqueue

recipeVars == <<generations, recipes>>
resourceVars == <<resources, loads>>
recordVars == <<requested, status, replacement>>
mapVars == <<pipelines, created>>
replacementVars == <<retired, built>>
globals == <<recipeVars, resourceVars, mapVars, recordVars, owners, counts,
             queue, replacementVars>>
vars == <<globals, pc, loc, todo>>

(* call: the entry point the thread is in; first: LoadResources' first_load *)
(* and old, to, repl: Publish's locals.                                     *)
Calls == {"none", "job", "init", "destroy", "repatch_all", "load"}
Locals == [call : Calls, rec : Pipelines \cup {NoPipeline}, gen : 0..MaxGen,
           repl : OptionalReplacement, old : OptionalReplacement,
           to : RecordStatus, res : Nat, first : BOOLEAN]
LocalsOf(call, gen) ==
  [call |-> call, rec |-> NoPipeline, gen |-> gen, repl |-> NoReplacement,
   old |-> NoReplacement, to |-> "pending", res |-> 0, first |-> FALSE]
NoLocals == LocalsOf("none", 0)

WorkerPCs == {"check", "patch", "build", "create"}
EnqueuePCs == {"request", "mark", "push"}
PublishPCs == {"pub_check", "pub_swap", "pub_owners", "pub_status"}
CallPCs == {"init_count", "init_recipes", "destroy_mark", "destroy_swap",
            "store_recipes", "reload_resources", "snapshot", "repatch",
            "load_first", "load_swap", "load_recipes", "load_snapshot"}
PCs == {"idle"} \cup WorkerPCs \cup EnqueuePCs \cup PublishPCs \cup CallPCs

GlobalsOK ==
  /\ generations \in 1..MaxGen
  /\ recipes \in 1..MaxGen
  /\ resources \in Nat
  /\ loads \in Nat
  /\ pipelines \subseteq created
  /\ created \subseteq Pipelines
  /\ requested \in [Pipelines -> 0..MaxGen]
  /\ status \in [Pipelines -> RecordStatus]
  /\ replacement \in [Pipelines -> OptionalReplacement]
  /\ owners \subseteq (Replacements \X Pipelines)
  /\ counts \in [RecordStatus -> Int]
  /\ queue \in Seq(Jobs)
  /\ retired \subseteq Replacements
  /\ built \in [Pipelines -> Nat]

ThreadsOK ==
  /\ pc \in [Threads -> PCs]
  /\ loc \in [Threads -> Locals]
  /\ todo \in [Threads -> SUBSET Pipelines]

TypeOK == GlobalsOK /\ ThreadsOK

Init ==
  /\ generations = 1
  /\ recipes = 1
  /\ resources = 0
  /\ loads = 0
  /\ pipelines = {}
  /\ created = {}
  /\ requested = [p \in Pipelines |-> 0]
  /\ status = [p \in Pipelines |-> "pending"]
  /\ replacement = [p \in Pipelines |-> NoReplacement]
  /\ owners = {}
  /\ counts = [s \in RecordStatus |-> 0]
  /\ queue = <<>>
  /\ retired = {}
  /\ built = [p \in Pipelines |-> 0]
  /\ pc = [t \in Threads |-> "idle"]
  /\ loc = [t \in Threads |-> NoLocals]
  /\ todo = [t \in Threads |-> {}]

Goto(t, label) == pc' = [pc EXCEPT ![t] = label]
Rec(t) == loc[t].rec
Gen(t) == loc[t].gen

(* Mutant: the null check is missing.                                      *)
Mut_Retire(r) == retired' = retired \cup {r}

(* Retire(device, object): a null object is not queued.                    *)
Retire(r) == retired' = retired \cup ({r} \ {NoReplacement})

(* Mutant: a destroyed record gets the status of a late Publish.           *)
Mut_SetStatus(p, s) ==
  /\ status' = [status EXCEPT ![p] = s]
  /\ counts' = [counts EXCEPT ![status[p]] = @ - 1, ![s] = @ + 1]

(* SetStatus: a destroyed record keeps its status and is not counted.      *)
SetStatus(p, s) ==
  IF status[p] = "destroyed"
  THEN UNCHANGED <<status, counts>>
  ELSE /\ status' = [status EXCEPT ![p] = s]
       /\ counts' = [c \in RecordStatus |->
                       counts[c] + (IF c = s THEN 1 ELSE 0)
                                 - (IF c = status[p] THEN 1 ELSE 0)]

(* Calls Publish for the record and generation the thread works on.        *)
StartPublish(t, r, s) ==
  /\ loc' = [loc EXCEPT ![t] = [@ EXCEPT !.repl = r, !.to = s]]
  /\ Goto(t, "pub_check")

(* End of a job, of an Enqueue or of OnDestroyPipeline: a thread in the    *)
(* loop of RepatchDevice goes on with it.                                  *)
Return(t) ==
  IF todo[t] # {}
  THEN /\ Goto(t, "repatch")
       /\ loc' = [loc EXCEPT ![t] = LocalsOf(loc[t].call, Gen(t))]
  ELSE /\ Goto(t, "idle")
       /\ loc' = [loc EXCEPT ![t] = NoLocals]

-----------------------------------------------------------------------------
(* Publish                                                                 *)

(* Mutant: a superseded replacement is dropped, not retired.               *)
Mut_PublishCheck(t) ==
  /\ pc[t] = "pub_check"
  /\ IF requested[Rec(t)] # Gen(t) \/ status[Rec(t)] = "destroyed"
     THEN Return(t)
     ELSE Goto(t, "pub_swap") /\ UNCHANGED loc
  /\ UNCHANGED <<globals, todo>>

(* The generation and the status are read here, the record is written by   *)
(* later steps: nothing makes the two atomic.                              *)
PublishCheck(t) ==
  /\ pc[t] = "pub_check"
  /\ IF requested[Rec(t)] # Gen(t) \/ status[Rec(t)] = "destroyed"
     THEN Retire(loc[t].repl) /\ Return(t)
     ELSE Goto(t, "pub_swap") /\ UNCHANGED <<retired, loc>>
  /\ UNCHANGED <<recipeVars, resourceVars, mapVars, recordVars, owners, counts,
                 queue, built, todo>>

PublishSwap(t) ==
  /\ pc[t] = "pub_swap"
  /\ replacement' = [replacement EXCEPT ![Rec(t)] = loc[t].repl]
  /\ loc' = [loc EXCEPT ![t].old = replacement[Rec(t)]]
  /\ Goto(t, IF D3D11 THEN "pub_owners" ELSE "pub_status")
  /\ UNCHANGED <<recipeVars, resourceVars, mapVars, requested, status, owners,
                 counts, queue, replacementVars, todo>>

(* Mutant: the entry is made without looking the pipeline up.              *)
Mut_PublishOwners(t) ==
  /\ pc[t] = "pub_owners"
  /\ owners' = {o \in owners : o[1] # loc[t].old}
               \cup (({loc[t].repl} \ {NoReplacement}) \X {Rec(t)})
  /\ Goto(t, "pub_status")
  /\ UNCHANGED <<recipeVars, resourceVars, mapVars, recordVars, counts, queue,
                 replacementVars, loc, todo>>

(* The entry is made for whatever record the map holds under the handle.   *)
PublishOwners(t) ==
  /\ pc[t] = "pub_owners"
  /\ LET kept   == {o \in owners : o[1] # loc[t].old}
         record == {p \in pipelines : Handle[p] = Handle[Rec(t)]}
     IN IF loc[t].repl = NoReplacement \/ record = {}
        THEN owners' = kept
        ELSE owners' = {o \in kept : o[1] # loc[t].repl} \cup ({loc[t].repl} \X record)
  /\ Goto(t, "pub_status")
  /\ UNCHANGED <<recipeVars, resourceVars, mapVars, recordVars, counts, queue,
                 replacementVars, loc, todo>>

PublishStatus(t) ==
  /\ pc[t] = "pub_status"
  /\ Retire(loc[t].old)
  /\ SetStatus(Rec(t), loc[t].to)
  /\ Return(t)
  /\ UNCHANGED <<recipeVars, resourceVars, mapVars, requested, replacement,
                 owners, queue, built, todo>>

-----------------------------------------------------------------------------
(* Worker threads: WorkerMain and ProcessJob                               *)

TakeJob(w) ==
  /\ pc[w] = "idle"
  /\ queue # <<>>
  /\ loc' = [loc EXCEPT ![w] = [@ EXCEPT !.call = "job", !.rec = Head(queue).rec,
                                         !.gen = Head(queue).gen]]
  /\ queue' = Tail(queue)
  /\ Goto(w, "check")
  /\ UNCHANGED <<recipeVars, resourceVars, mapVars, recordVars, owners, counts,
                 replacementVars, todo>>

CheckJob(w) ==
  /\ pc[w] = "check"
  /\ IF requested[Rec(w)] # Gen(w) THEN Return(w) ELSE Goto(w, "patch") /\ UNCHANGED loc
  /\ UNCHANGED <<globals, todo>>

(* RecipeSet::Patch on every shader of the pipeline.                       *)
PatchJob(w) ==
  /\ pc[w] = "patch"
  /\ LET effect == Effect[Rec(w)][Gen(w)]
     IN \/ effect = "throws" /\ Return(w)
        \/ effect \in {"inapplicable", "unmodified"} /\ StartPublish(w, NoReplacement, "unmodified")
        \/ effect \in {"bound", "unresolved"} /\ Goto(w, "build") /\ UNCHANGED loc
        \/ effect \in {"plain", "rejected"} /\ Goto(w, "create") /\ UNCHANGED loc
  /\ UNCHANGED <<globals, todo>>

(* BuildBindings with bindings to resolve: it loads state.resources once.  *)
BuildBindings(w) ==
  /\ pc[w] = "build"
  /\ IF resources = 0
     THEN StartPublish(w, NoReplacement, "waiting")
     ELSE IF Effect[Rec(w)][Gen(w)] = "unresolved"
     THEN StartPublish(w, NoReplacement, "failed")
     ELSE Goto(w, "create") /\ loc' = [loc EXCEPT ![w].res = resources]
  /\ UNCHANGED <<globals, todo>>

CreateReplacement(w) ==
  /\ pc[w] = "create"
  /\ IF Effect[Rec(w)][Gen(w)] = "rejected"
     THEN StartPublish(w, NoReplacement, "failed") /\ UNCHANGED built
     ELSE /\ built' = [built EXCEPT ![Rec(w)] = @ + 1]
          /\ StartPublish(w, [rec |-> Rec(w), gen |-> Gen(w), res |-> loc[w].res,
                              n |-> built[Rec(w)] + 1], "patched")
  /\ UNCHANGED <<recipeVars, resourceVars, mapVars, recordVars, owners, counts,
                 queue, retired, todo>>

-----------------------------------------------------------------------------
(* Enqueue, called by every caller thread                                  *)

EnqueueRequest(t) ==
  /\ pc[t] = "request"
  /\ requested' = [requested EXCEPT ![Rec(t)] = Gen(t)]
  /\ IF Effect[Rec(t)][Gen(t)] = "inapplicable"
     THEN StartPublish(t, NoReplacement, "unmodified")
     ELSE Goto(t, "mark") /\ UNCHANGED loc
  /\ UNCHANGED <<recipeVars, resourceVars, mapVars, status, replacement, owners,
                 counts, queue, replacementVars, todo>>

EnqueueMark(t) ==
  /\ pc[t] = "mark"
  /\ SetStatus(Rec(t), "pending")
  /\ Goto(t, "push")
  /\ UNCHANGED <<recipeVars, resourceVars, mapVars, requested, replacement,
                 owners, queue, replacementVars, loc, todo>>

EnqueuePush(t) ==
  /\ pc[t] = "push"
  /\ queue' = Append(queue, [rec |-> Rec(t), gen |-> Gen(t)])
  /\ Return(t)
  /\ UNCHANGED <<recipeVars, resourceVars, mapVars, recordVars, owners, counts,
                 replacementVars, todo>>

(* RepatchDevice: one iteration of its loop over the snapshot, in the      *)
(* order of an unordered_map.                                              *)
RepatchNext(t) ==
  /\ pc[t] = "repatch"
  /\ \E p \in todo[t] :
       /\ todo' = [todo EXCEPT ![t] = @ \ {p}]
       /\ loc' = [loc EXCEPT ![t].rec = p]
  /\ Goto(t, "request")
  /\ UNCHANGED globals

(* RepatchDevice copies the matching records under the shared lock.        *)
TakeSnapshot(t, records) ==
  /\ todo' = [todo EXCEPT ![t] = records]
  /\ IF records = {}
     THEN Goto(t, "idle") /\ loc' = [loc EXCEPT ![t] = NoLocals]
     ELSE Goto(t, "repatch") /\ UNCHANGED loc

-----------------------------------------------------------------------------
(* Creator threads: OnInitPipeline and OnDestroyPipeline                   *)

InCall(p, call) == \E t \in Creators : loc[t].call = call /\ Rec(t) = p

(* The driver hands out a handle again once its destruction is over.       *)
InitPipeline(t, p) ==
  /\ pc[t] = "idle"
  /\ p \notin created
  /\ \A q \in created : Handle[q] = Handle[p] => q \notin pipelines /\ ~ InCall(q, "destroy")
  /\ created' = created \cup {p}
  /\ pipelines' = pipelines \cup {p}
  /\ loc' = [loc EXCEPT ![t] = [@ EXCEPT !.call = "init", !.rec = p]]
  /\ Goto(t, "init_count")
  /\ UNCHANGED <<recipeVars, resourceVars, recordVars, owners, counts, queue,
                 replacementVars, todo>>

InitCount(t) ==
  /\ pc[t] = "init_count"
  /\ counts' = [counts EXCEPT !["pending"] = @ + 1]
  /\ Goto(t, "init_recipes")
  /\ UNCHANGED <<recipeVars, resourceVars, mapVars, recordVars, owners, queue,
                 replacementVars, loc, todo>>

InitRecipes(t) ==
  /\ pc[t] = "init_recipes"
  /\ loc' = [loc EXCEPT ![t].gen = recipes]
  /\ Goto(t, "request")
  /\ UNCHANGED <<globals, todo>>

(* The game destroys a pipeline only after its creation returned.          *)
DestroyPipeline(t, p) ==
  /\ pc[t] = "idle"
  /\ p \in pipelines
  /\ ~ InCall(p, "init")
  /\ pipelines' = pipelines \ {p}
  /\ loc' = [loc EXCEPT ![t] = [@ EXCEPT !.call = "destroy", !.rec = p]]
  /\ Goto(t, "destroy_mark")
  /\ UNCHANGED <<recipeVars, resourceVars, created, recordVars, owners, counts,
                 queue, replacementVars, todo>>

DestroyMark(t) ==
  /\ pc[t] = "destroy_mark"
  /\ status' = [status EXCEPT ![Rec(t)] = "destroyed"]
  /\ counts' = IF status[Rec(t)] = "destroyed" THEN counts
               ELSE [counts EXCEPT ![status[Rec(t)]] = @ - 1]
  /\ Goto(t, "destroy_swap")
  /\ UNCHANGED <<recipeVars, resourceVars, mapVars, requested, replacement,
                 owners, queue, replacementVars, loc, todo>>

(* Mutant: the replacement is loaded, not exchanged.                       *)
Mut_DestroySwap(t) ==
  /\ pc[t] = "destroy_swap"
  /\ owners' = {o \in owners : o[1] # replacement[Rec(t)]}
  /\ Retire(replacement[Rec(t)])
  /\ Return(t)
  /\ UNCHANGED <<recipeVars, resourceVars, mapVars, recordVars, counts, queue,
                 built, todo>>

(* The exchange, the erase of the D3D11 owner and the Retire.              *)
DestroySwap(t) ==
  /\ pc[t] = "destroy_swap"
  /\ replacement' = [replacement EXCEPT ![Rec(t)] = NoReplacement]
  /\ owners' = {o \in owners : o[1] # replacement[Rec(t)]}
  /\ Retire(replacement[Rec(t)])
  /\ Return(t)
  /\ UNCHANGED <<recipeVars, resourceVars, mapVars, requested, status, counts,
                 queue, built, todo>>

-----------------------------------------------------------------------------
(* Overlay threads: ApplyEnvOverrides and ReloadAll                        *)

(* A new RecipeSet takes the next generation when it is built and is       *)
(* stored in g_recipes afterwards.                                         *)
NewRecipes(t, reload) ==
  /\ pc[t] = "idle"
  /\ generations < MaxGen
  /\ generations' = generations + 1
  /\ loc' = [loc EXCEPT ![t] = [@ EXCEPT !.call = "repatch_all", !.gen = generations + 1,
                                         !.first = reload]]
  /\ Goto(t, "store_recipes")
  /\ UNCHANGED <<recipes, resourceVars, mapVars, recordVars, owners, counts,
                 queue, replacementVars, todo>>

ReloadAll(t) == NewRecipes(t, TRUE)
ApplyEnvOverrides(t) == NewRecipes(t, FALSE)

StoreRecipes(t) ==
  /\ pc[t] = "store_recipes"
  /\ recipes' = Gen(t)
  /\ Goto(t, IF loc[t].first THEN "reload_resources" ELSE "snapshot")
  /\ UNCHANGED <<generations, resourceVars, mapVars, recordVars, owners, counts,
                 queue, replacementVars, loc, todo>>

(* g_devices_mutex, which RepatchAll holds until its loop is over.         *)
DevicesLocked ==
  \E o \in Overlays : /\ loc[o].call = "repatch_all"
                      /\ pc[o] \in {"repatch"} \cup EnqueuePCs \cup PublishPCs

ReloadResources(t) ==
  /\ pc[t] = "reload_resources"
  /\ ~ DevicesLocked
  /\ IF resources = 0
     THEN UNCHANGED resourceVars
     ELSE loads' = loads + 1 /\ resources' = loads + 1
  /\ Goto(t, "snapshot")
  /\ UNCHANGED <<recipeVars, mapVars, recordVars, owners, counts, queue,
                 replacementVars, loc, todo>>

(* Mutant: records that are already queued are not queued again.           *)
Mut_RepatchSnapshot(t) ==
  /\ pc[t] = "snapshot"
  /\ ~ DevicesLocked
  /\ TakeSnapshot(t, {p \in pipelines : status[p] # "pending"})
  /\ UNCHANGED globals

RepatchSnapshot(t) ==
  /\ pc[t] = "snapshot"
  /\ ~ DevicesLocked
  /\ TakeSnapshot(t, pipelines)
  /\ UNCHANGED globals

-----------------------------------------------------------------------------
(* Loader threads: OnInitCommandQueue and OnPresent call LoadResources     *)

LoadBegin(t) ==
  /\ pc[t] = "idle"
  /\ resources = 0
  /\ loads' = loads + 1
  /\ loc' = [loc EXCEPT ![t] = [@ EXCEPT !.call = "load", !.res = loads + 1]]
  /\ Goto(t, "load_first")
  /\ UNCHANGED <<recipeVars, resources, mapVars, recordVars, owners, counts,
                 queue, replacementVars, todo>>

LoadFirst(t) ==
  /\ pc[t] = "load_first"
  /\ loc' = [loc EXCEPT ![t].first = (resources = 0)]
  /\ Goto(t, "load_swap")
  /\ UNCHANGED <<globals, todo>>

LoadSwap(t) ==
  /\ pc[t] = "load_swap"
  /\ resources' = loc[t].res
  /\ IF loc[t].first
     THEN Goto(t, "load_recipes") /\ UNCHANGED loc
     ELSE Goto(t, "idle") /\ loc' = [loc EXCEPT ![t] = NoLocals]
  /\ UNCHANGED <<recipeVars, loads, mapVars, recordVars, owners, counts, queue,
                 replacementVars, todo>>

LoadRecipes(t) ==
  /\ pc[t] = "load_recipes"
  /\ loc' = [loc EXCEPT ![t].gen = recipes]
  /\ Goto(t, "load_snapshot")
  /\ UNCHANGED <<globals, todo>>

LoadSnapshot(t) ==
  /\ pc[t] = "load_snapshot"
  /\ TakeSnapshot(t, {p \in pipelines : status[p] = "waiting"})
  /\ UNCHANGED globals

-----------------------------------------------------------------------------
PublishStep(t) == PublishCheck(t) \/ PublishSwap(t) \/ PublishOwners(t) \/ PublishStatus(t)

WorkerStep(w) == \/ TakeJob(w) \/ CheckJob(w) \/ PatchJob(w) \/ BuildBindings(w)
                 \/ CreateReplacement(w) \/ PublishStep(w)

(* What a caller does once its call has begun.                             *)
CallStep(t) ==
  \/ EnqueueRequest(t) \/ EnqueueMark(t) \/ EnqueuePush(t) \/ RepatchNext(t) \/ PublishStep(t)
  \/ InitCount(t) \/ InitRecipes(t) \/ DestroyMark(t) \/ DestroySwap(t)
  \/ StoreRecipes(t) \/ ReloadResources(t) \/ RepatchSnapshot(t)
  \/ LoadFirst(t) \/ LoadSwap(t) \/ LoadRecipes(t) \/ LoadSnapshot(t)

Next ==
  \/ \E w \in Workers : WorkerStep(w)
  \/ \E t \in Callers : CallStep(t)
  \/ \E t \in Creators, p \in Pipelines : InitPipeline(t, p) \/ DestroyPipeline(t, p)
  \/ \E t \in Overlays : ApplyEnvOverrides(t) \/ ReloadAll(t)
  \/ \E t \in Loaders : LoadBegin(t)

Spec == Init /\ [][Next]_vars

(* Threads keep running: a worker takes jobs and a call that began         *)
(* returns.  Nothing obliges the game or the user to start a call, except  *)
(* that a graphics queue is created or a frame presented at some point.    *)
Fairness ==
  /\ \A w \in Workers : WF_vars(WorkerStep(w))
  /\ \A t \in Callers : WF_vars(CallStep(t))
  /\ \A t \in Loaders : WF_vars(LoadBegin(t))

FairSpec == Spec /\ Fairness

-----------------------------------------------------------------------------
(* Properties                                                              *)

(* The status counters the overlay shows (GetDeviceInfo) add up: counts[s] *)
(* is the number of records with status s, however the creation, the       *)
(* Enqueues, the Publishes and the destruction of a record interleave.     *)
(* A record being created is not counted yet; a destroyed one no more.     *)
CountsExact ==
  \A s \in RecordStatus :
    LET uncounted == {t \in Creators : s = "pending" /\ pc[t] = "init_count"}
    IN counts[s] = IF s = "destroyed" THEN 0
                   ELSE Cardinality({p \in created : status[p] = s}) - Cardinality(uncounted)

(* The replacement a Publish holds outside the record: the new one before  *)
(* the exchange, the old one after it.                                     *)
InHand(t) ==
  IF pc[t] \in {"pub_check", "pub_swap"} THEN loc[t].repl
  ELSE IF pc[t] \in {"pub_owners", "pub_status"} THEN loc[t].old
  ELSE NoReplacement

(* A replacement has one owner that will retire it: what a bind can pick   *)
(* up (record.replacement) is never in the retire queue, whose objects are *)
(* destroyed, and no replacement is handed to Retire by two threads.       *)
OneOwner ==
  /\ \A p \in Pipelines : replacement[p] \notin retired
  /\ \A t \in Threads : InHand(t) \in Replacements =>
       /\ InHand(t) \notin retired
       /\ \A p \in Pipelines : replacement[p] # InHand(t)
       /\ \A u \in Threads \ {t} : InHand(u) # InHand(t)

(* No replacement is dropped without going through the retire queue, which *)
(* would destroy a pipeline the GPU may be using: each one ever built is   *)
(* published in its record, in the hands of a Publish, or retired.         *)
NoneLost ==
  \A p \in Pipelines : \A n \in 1..built[p] :
    LET homes == {replacement[p]} \cup retired \cup {InHand(t) : t \in Threads}
    IN \E r \in homes : r.rec = p /\ r.n = n

(* No call is under way and the workers have nothing to do.                *)
Idle == queue = <<>> /\ \A t \in Threads : pc[t] = "idle"

(* D3D11: a replacement bound back by the game is looked up in             *)
(* replacement_owners.  Once everything is quiet the map has exactly the   *)
(* published replacements of live pipelines, each with its own record.     *)
OwnersArePublished ==
  Idle /\ D3D11 =>
    owners = {<<replacement[p], p>> : p \in {q \in pipelines : replacement[q] # NoReplacement}}

(* What the recipes in force make of a pipeline once its patching is over. *)
UpToDate(p) ==
  LET effect == Effect[p][recipes]
      r == replacement[p]
  IN /\ effect = "plain" => r.gen = recipes /\ r.res = 0
     /\ effect = "bound" => r.gen = recipes /\ r.res = resources
     /\ effect \notin {"plain", "bound", "throws"} => r = NoReplacement
     /\ status[p] = CASE effect \in {"plain", "bound"} -> "patched"
                       [] effect \in {"inapplicable", "unmodified"} -> "unmodified"
                       [] effect \in {"unresolved", "rejected"} -> "failed"
                       [] OTHER -> "pending"

(* README.md of the add-on: every captured pipeline is patched again       *)
(* against each new generation.  However reloads and the destruction and   *)
(* creation of pipelines interleave with the worker, every pipeline ends   *)
(* up with what the last recipes make of it and its status says so.        *)
Converges == \A p \in Pipelines : <>[](p \in pipelines => UpToDate(p))
=============================================================================
