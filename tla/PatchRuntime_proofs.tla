------------------------- MODULE PatchRuntime_proofs -------------------------
(* Type correctness, owners and books of PatchRuntime for every number of  *)
(* pipelines, threads and generations.  OneOwner: no interleaving of       *)
(* workers, callers and destructions retires a replacement that a bind can *)
(* still pick up, or retires one twice.  CountsExact and NoneLost: the     *)
(* overlay's status counters are exact, and no replacement that was built  *)
(* is lost.  OwnersArePublished: the D3D11 owner map is what is published, *)
(* unless a Publish is overtaken.                                          *)
EXTENDS PatchRuntime, FiniteSetTheorems, TLAPS

(* What the control state says of a thread's locals: the handlers that     *)
(* work on a record have one, and those that enqueue have a generation.    *)
ControlAt(label, l, records) ==
  /\ label \in WorkerPCs \cup EnqueuePCs \cup PublishPCs
               \cup {"init_count", "init_recipes", "destroy_mark", "destroy_swap"}
       => l.rec \in Pipelines
  /\ label \in WorkerPCs \cup EnqueuePCs \cup PublishPCs
               \cup {"store_recipes", "reload_resources", "snapshot", "load_snapshot"}
       => l.gen \in 1..MaxGen
  /\ records # {} => l.gen \in 1..MaxGen
  /\ label \in {"idle", "load_first", "load_swap"} => records = {}

Control == \A t \in Threads : ControlAt(pc[t], loc[t], todo[t])

TInv == TypeOK /\ Control

-----------------------------------------------------------------------------
(* The helpers                                                             *)

(* A step that moves one thread to well typed locals that agree with its   *)
(* new control state keeps the threads well typed.                         *)
LEMMA ThreadStep ==
  ASSUME ThreadsOK, Control, NEW t \in Threads,
         NEW label \in PCs, NEW l \in Locals, NEW records \in SUBSET Pipelines,
         pc' = [pc EXCEPT ![t] = label],
         loc' = [loc EXCEPT ![t] = l],
         todo' = [todo EXCEPT ![t] = records],
         ControlAt(label, l, records)
  PROVE  ThreadsOK' /\ Control'
BY DEF ThreadsOK, Control

LEMMA LocalsOfType ==
  ASSUME NEW call \in Calls, NEW gen \in 0..MaxGen
  PROVE  LocalsOf(call, gen) \in Locals
BY DEF LocalsOf, Locals, OptionalReplacement, RecordStatus

(* Return leaves a thread idle or in its RepatchDevice loop.               *)
LEMMA ReturnType ==
  ASSUME ThreadsOK, Control, NEW t \in Threads, Return(t), UNCHANGED todo
  PROVE  ThreadsOK' /\ Control'
<1>1. /\ todo' = [todo EXCEPT ![t] = todo[t]]
      /\ todo[t] \in SUBSET Pipelines
      /\ ControlAt(pc[t], loc[t], todo[t])
      /\ loc[t] \in Locals
  BY DEF ThreadsOK, Control
<1>2. CASE todo[t] # {}
  <2> DEFINE l == LocalsOf(loc[t].call, Gen(t))
  <2>1. l \in Locals
    BY <1>1, LocalsOfType DEF Locals, Gen
  <2>2. "repatch" \in PCs /\ ControlAt("repatch", l, todo[t])
    BY <1>1 DEF ControlAt, LocalsOf, Gen, PCs, CallPCs, WorkerPCs, EnqueuePCs, PublishPCs
  <2>3. pc' = [pc EXCEPT ![t] = "repatch"] /\ loc' = [loc EXCEPT ![t] = l]
    BY <1>2 DEF Return, Goto
  <2> HIDE DEF l
  <2> QED
    BY <1>1, <2>1, <2>2, <2>3, ThreadStep
<1>3. CASE todo[t] = {}
  <2>1. NoLocals \in Locals
    BY ConstantsAssumption, LocalsOfType DEF NoLocals, Calls
  <2>2. "idle" \in PCs /\ ControlAt("idle", NoLocals, todo[t])
    BY <1>3 DEF ControlAt, PCs, WorkerPCs, EnqueuePCs, PublishPCs
  <2>3. pc' = [pc EXCEPT ![t] = "idle"] /\ loc' = [loc EXCEPT ![t] = NoLocals]
    BY <1>3 DEF Return, Goto
  <2> QED
    BY <1>1, <2>1, <2>2, <2>3, ThreadStep
<1> QED
  BY <1>2, <1>3

(* Publish begins with a record and a generation.                          *)
LEMMA StartPublishType ==
  ASSUME ThreadsOK, Control, NEW t \in Threads, UNCHANGED todo,
         Rec(t) \in Pipelines, Gen(t) \in 1..MaxGen,
         NEW r \in OptionalReplacement, NEW s \in RecordStatus, StartPublish(t, r, s)
  PROVE  ThreadsOK' /\ Control'
<1> DEFINE l == [loc[t] EXCEPT !.repl = r, !.to = s]
<1>1. todo' = [todo EXCEPT ![t] = todo[t]] /\ todo[t] \in SUBSET Pipelines
  BY DEF ThreadsOK
<1>2. l \in Locals
  BY DEF ThreadsOK, Locals
<1>3. "pub_check" \in PCs /\ ControlAt("pub_check", l, todo[t])
  BY DEF ThreadsOK, Locals, ControlAt, Rec, Gen, PCs, PublishPCs
<1>4. pc' = [pc EXCEPT ![t] = "pub_check"] /\ loc' = [loc EXCEPT ![t] = l]
  BY DEF StartPublish, Goto
<1> HIDE DEF l
<1> QED
  BY <1>1, <1>2, <1>3, <1>4, ThreadStep

(* A RepatchDevice that begins has a generation to enqueue for.            *)
LEMMA TakeSnapshotType ==
  ASSUME ThreadsOK, Control, NEW t \in Threads, Gen(t) \in 1..MaxGen,
         NEW records \in SUBSET Pipelines, TakeSnapshot(t, records)
  PROVE  ThreadsOK' /\ Control'
<1> DEFINE label == IF records = {} THEN "idle" ELSE "repatch"
           l == IF records = {} THEN NoLocals ELSE loc[t]
<1>1. l \in Locals
  BY ConstantsAssumption, LocalsOfType DEF ThreadsOK, NoLocals, Calls
<1>2. label \in PCs /\ ControlAt(label, l, records)
  BY DEF ControlAt, Gen, PCs, CallPCs, WorkerPCs, EnqueuePCs, PublishPCs
<1>3. /\ pc' = [pc EXCEPT ![t] = label]
      /\ loc' = [loc EXCEPT ![t] = l]
      /\ todo' = [todo EXCEPT ![t] = records]
  BY DEF TakeSnapshot, Goto, ThreadsOK
<1> HIDE DEF l, label
<1> QED
  BY <1>1, <1>2, <1>3, ThreadStep

(* SetStatus keeps the statuses and the counters well typed.               *)
LEMMA SetStatusType ==
  ASSUME TypeOK, NEW p \in Pipelines, NEW s \in RecordStatus, SetStatus(p, s)
  PROVE  /\ status' \in [Pipelines -> RecordStatus]
         /\ counts' \in [RecordStatus -> Int]
<1>1. status \in [Pipelines -> RecordStatus] /\ counts \in [RecordStatus -> Int]
  BY DEF TypeOK, GlobalsOK, ThreadsOK
<1>2. CASE status[p] = "destroyed"
  BY <1>1, <1>2 DEF SetStatus
<1>3. CASE status[p] # "destroyed"
  <2>1. ASSUME NEW c \in RecordStatus
        PROVE  counts[c] + (IF c = s THEN 1 ELSE 0) - (IF c = status[p] THEN 1 ELSE 0) \in Int
    BY <1>1
  <2> QED
    BY <1>1, <1>3, <2>1 DEF SetStatus
<1> QED
  BY <1>2, <1>3

LEMMA RetireType ==
  ASSUME TypeOK, NEW r \in OptionalReplacement, Retire(r)
  PROVE  retired' \subseteq Replacements
BY DEF TypeOK, GlobalsOK, ThreadsOK, Retire, OptionalReplacement

-----------------------------------------------------------------------------
(* The actions                                                             *)

LEMMA PublishCheckType ==
  ASSUME TInv, NEW t \in Threads, PublishCheck(t)
  PROVE  TInv'
<1>1. GlobalsOK /\ ThreadsOK /\ Control /\ ControlAt(pc[t], loc[t], todo[t])
  BY DEF TInv, TypeOK, Control
<1>2. GlobalsOK'
  <2>1. retired' \subseteq Replacements
    BY <1>1, RetireType DEF TInv, PublishCheck, ThreadsOK, Locals, GlobalsOK
  <2> QED
    BY <1>1, <2>1 DEF PublishCheck, GlobalsOK, recipeVars, resourceVars, recordVars, mapVars
<1>3. ThreadsOK' /\ Control'
  <2>1. CASE Return(t)
    BY <1>1, <2>1, ReturnType DEF PublishCheck
  <2>2. CASE ~ Return(t)
    <3>1. "pub_swap" \in PCs /\ ControlAt("pub_swap", loc[t], todo[t])
      BY <1>1 DEF PublishCheck, ControlAt, PCs, PublishPCs
    <3>2. /\ pc' = [pc EXCEPT ![t] = "pub_swap"]
          /\ loc' = [loc EXCEPT ![t] = loc[t]]
          /\ todo' = [todo EXCEPT ![t] = todo[t]]
          /\ loc[t] \in Locals /\ todo[t] \in SUBSET Pipelines
      BY <1>1, <2>2 DEF PublishCheck, Goto, ThreadsOK
    <3> QED
      BY <1>1, <3>1, <3>2, ThreadStep
  <2> QED
    BY <2>1, <2>2
<1> QED
  BY <1>2, <1>3 DEF TInv, TypeOK

LEMMA PublishSwapType ==
  ASSUME TInv, NEW t \in Threads, PublishSwap(t)
  PROVE  TInv'
<1>1. GlobalsOK /\ ThreadsOK /\ Control /\ ControlAt(pc[t], loc[t], todo[t])
  BY DEF TInv, TypeOK, Control
<1>2. GlobalsOK'
  BY <1>1 DEF PublishSwap, GlobalsOK, ThreadsOK, Locals, recipeVars, resourceVars, mapVars,
     replacementVars
<1>3. ThreadsOK' /\ Control'
  <2> DEFINE l == [loc[t] EXCEPT !.old = replacement[Rec(t)]]
             label == IF D3D11 THEN "pub_owners" ELSE "pub_status"
  <2>1. Rec(t) \in Pipelines
    BY <1>1 DEF PublishSwap, ControlAt, PublishPCs, Rec
  <2>2. l \in Locals
    BY <1>1, <2>1 DEF GlobalsOK, ThreadsOK, Locals
  <2>3. label \in PCs /\ ControlAt(label, l, todo[t])
    BY <1>1 DEF PublishSwap, ControlAt, PCs, PublishPCs
  <2>4. /\ pc' = [pc EXCEPT ![t] = label]
        /\ loc' = [loc EXCEPT ![t] = l]
        /\ todo' = [todo EXCEPT ![t] = todo[t]] /\ todo[t] \in SUBSET Pipelines
    BY <1>1 DEF PublishSwap, Goto, ThreadsOK
  <2> HIDE DEF l, label
  <2> QED
    BY <1>1, <2>2, <2>3, <2>4, ThreadStep
<1> QED
  BY <1>2, <1>3 DEF TInv, TypeOK

LEMMA PublishOwnersType ==
  ASSUME TInv, NEW t \in Threads, PublishOwners(t)
  PROVE  TInv'
<1>1. GlobalsOK /\ ThreadsOK /\ Control /\ ControlAt(pc[t], loc[t], todo[t])
  BY DEF TInv, TypeOK, Control
<1>2. GlobalsOK'
  <2>1. loc[t].repl # NoReplacement => loc[t].repl \in Replacements
    BY <1>1 DEF ThreadsOK, Locals, OptionalReplacement
  <2>2. owners' \subseteq Replacements \X Pipelines
    <3> DEFINE kept == {o \in owners : o[1] # loc[t].old}
               record == {p \in pipelines : Handle[p] = Handle[Rec(t)]}
    <3>1. kept \subseteq Replacements \X Pipelines /\ record \subseteq Pipelines
      BY <1>1 DEF GlobalsOK
    <3>2. \/ owners' = kept
          \/ /\ loc[t].repl # NoReplacement
             /\ owners' = {o \in kept : o[1] # loc[t].repl} \cup ({loc[t].repl} \X record)
      BY DEF PublishOwners
    <3> HIDE DEF kept, record
    <3> QED
      BY <2>1, <3>1, <3>2
  <2> QED
    BY <1>1, <2>2 DEF PublishOwners, GlobalsOK, recipeVars, resourceVars, recordVars,
       mapVars, replacementVars
<1>3. "pub_status" \in PCs /\ ControlAt("pub_status", loc[t], todo[t])
  BY <1>1 DEF PublishOwners, ControlAt, PCs, PublishPCs
<1>4. /\ pc' = [pc EXCEPT ![t] = "pub_status"]
      /\ loc' = [loc EXCEPT ![t] = loc[t]]
      /\ todo' = [todo EXCEPT ![t] = todo[t]]
      /\ loc[t] \in Locals /\ todo[t] \in SUBSET Pipelines
  BY <1>1 DEF PublishOwners, Goto, ThreadsOK
<1> QED
  BY <1>1, <1>2, <1>3, <1>4, ThreadStep DEF TInv, TypeOK

LEMMA PublishStatusType ==
  ASSUME TInv, NEW t \in Threads, PublishStatus(t)
  PROVE  TInv'
<1>1. GlobalsOK /\ ThreadsOK /\ Control /\ ControlAt(pc[t], loc[t], todo[t])
  BY DEF TInv, TypeOK, Control
<1>2. GlobalsOK'
  <2>1. Rec(t) \in Pipelines /\ loc[t].to \in RecordStatus /\ loc[t].old \in OptionalReplacement
    BY <1>1 DEF PublishStatus, ControlAt, PublishPCs, Rec, ThreadsOK, Locals
  <2>2. retired' \subseteq Replacements
    BY <2>1, RetireType DEF TInv, PublishStatus
  <2>3. status' \in [Pipelines -> RecordStatus] /\ counts' \in [RecordStatus -> Int]
    BY <2>1, SetStatusType DEF TInv, PublishStatus
  <2> QED
    BY <1>1, <2>2, <2>3 DEF PublishStatus, GlobalsOK, recipeVars, resourceVars, mapVars
<1>3. ThreadsOK' /\ Control'
  BY <1>1, ReturnType DEF PublishStatus
<1> QED
  BY <1>2, <1>3 DEF TInv, TypeOK

LEMMA TakeJobType ==
  ASSUME TInv, NEW t \in Threads, TakeJob(t)
  PROVE  TInv'
<1> DEFINE job == Head(queue)
<1> DEFINE l == [loc[t] EXCEPT !.call = "job", !.rec = job.rec, !.gen = job.gen]
<1>1. GlobalsOK /\ ThreadsOK /\ Control /\ ControlAt(pc[t], loc[t], todo[t])
  BY DEF TInv, TypeOK, Control
<1>2. job \in Jobs /\ Tail(queue) \in Seq(Jobs)
  BY <1>1 DEF TakeJob, GlobalsOK
<1>3. GlobalsOK'
  BY <1>1 DEF TakeJob, GlobalsOK, recipeVars, resourceVars, recordVars, mapVars,
     replacementVars
<1>4. /\ pc' = [pc EXCEPT ![t] = "check"]
      /\ loc' = [loc EXCEPT ![t] = l]
      /\ todo' = [todo EXCEPT ![t] = todo[t]] /\ todo[t] \in SUBSET Pipelines
  BY <1>1 DEF TakeJob, Goto, ThreadsOK
<1> HIDE DEF job
<1>5. job.rec \in Pipelines /\ job.gen \in 1..MaxGen /\ job.gen \in 0..MaxGen
  BY <1>2, ConstantsAssumption DEF Jobs
<1>6. l \in Locals
  BY <1>1, <1>5 DEF ThreadsOK, Locals, Calls
<1>7. "check" \in PCs /\ ControlAt("check", l, todo[t])
  BY <1>5 DEF ControlAt, PCs, WorkerPCs
<1> HIDE DEF l
<1> QED
  BY <1>1, <1>3, <1>4, <1>6, <1>7, ThreadStep DEF TInv, TypeOK

LEMMA CheckJobType ==
  ASSUME TInv, NEW t \in Threads, CheckJob(t)
  PROVE  TInv'
<1>1. GlobalsOK /\ ThreadsOK /\ Control /\ ControlAt(pc[t], loc[t], todo[t])
  BY DEF TInv, TypeOK, Control
<1>2. GlobalsOK'
  BY <1>1 DEF CheckJob, GlobalsOK, globals, recipeVars, resourceVars, recordVars, mapVars,
     replacementVars
<1>3. ThreadsOK' /\ Control'
  <2>1. CASE Return(t)
    BY <1>1, <2>1, ReturnType DEF CheckJob
  <2>2. CASE ~ Return(t)
    <3>1. "patch" \in PCs /\ ControlAt("patch", loc[t], todo[t])
      BY <1>1 DEF CheckJob, ControlAt, PCs, WorkerPCs
    <3>2. /\ pc' = [pc EXCEPT ![t] = "patch"]
          /\ loc' = [loc EXCEPT ![t] = loc[t]]
          /\ todo' = [todo EXCEPT ![t] = todo[t]]
          /\ loc[t] \in Locals /\ todo[t] \in SUBSET Pipelines
      BY <1>1, <2>2 DEF CheckJob, Goto, ThreadsOK
    <3> QED
      BY <1>1, <3>1, <3>2, ThreadStep
  <2> QED
    BY <2>1, <2>2
<1> QED
  BY <1>2, <1>3 DEF TInv, TypeOK

LEMMA PatchJobType ==
  ASSUME TInv, NEW t \in Threads, PatchJob(t)
  PROVE  TInv'
<1>1. GlobalsOK /\ ThreadsOK /\ Control /\ ControlAt(pc[t], loc[t], todo[t])
  BY DEF TInv, TypeOK, Control
<1>2. GlobalsOK'
  BY <1>1 DEF PatchJob, GlobalsOK, globals, recipeVars, resourceVars, recordVars, mapVars,
     replacementVars
<1>3. ThreadsOK' /\ Control'
  <2>1. Rec(t) \in Pipelines /\ Gen(t) \in 1..MaxGen
    BY <1>1 DEF PatchJob, ControlAt, WorkerPCs, Rec, Gen
  <2>2. NoReplacement \in OptionalReplacement
    BY DEF OptionalReplacement
  <2>3. CASE Return(t)
    BY <1>1, <2>3, ReturnType DEF PatchJob
  <2>4. CASE StartPublish(t, NoReplacement, "unmodified")
    BY <1>1, <2>1, <2>2, <2>4, StartPublishType DEF PatchJob, RecordStatus
  <2>5. ASSUME NEW label \in {"build", "create"}, Goto(t, label), UNCHANGED loc
        PROVE  ThreadsOK' /\ Control'
    <3>1. label \in PCs /\ ControlAt(label, loc[t], todo[t])
      BY <2>1 DEF ControlAt, PCs, WorkerPCs, Rec, Gen
    <3>2. /\ pc' = [pc EXCEPT ![t] = label]
          /\ loc' = [loc EXCEPT ![t] = loc[t]]
          /\ todo' = [todo EXCEPT ![t] = todo[t]]
          /\ loc[t] \in Locals /\ todo[t] \in SUBSET Pipelines
      BY <1>1, <2>5 DEF PatchJob, Goto, ThreadsOK
    <3> QED
      BY <1>1, <3>1, <3>2, ThreadStep
  <2> QED
    BY <2>3, <2>4, <2>5 DEF PatchJob
<1> QED
  BY <1>2, <1>3 DEF TInv, TypeOK

LEMMA BuildBindingsType ==
  ASSUME TInv, NEW t \in Threads, BuildBindings(t)
  PROVE  TInv'
<1>1. GlobalsOK /\ ThreadsOK /\ Control /\ ControlAt(pc[t], loc[t], todo[t])
  BY DEF TInv, TypeOK, Control
<1>2. GlobalsOK'
  BY <1>1 DEF BuildBindings, GlobalsOK, globals, recipeVars, resourceVars, recordVars, mapVars,
     replacementVars
<1>3. ThreadsOK' /\ Control'
  <2>1. Rec(t) \in Pipelines /\ Gen(t) \in 1..MaxGen
    BY <1>1 DEF BuildBindings, ControlAt, WorkerPCs, EnqueuePCs, Rec, Gen
  <2>2. NoReplacement \in OptionalReplacement
    BY DEF OptionalReplacement
  <2>3. ASSUME NEW s \in {"waiting", "failed"}, StartPublish(t, NoReplacement, s)
        PROVE  ThreadsOK' /\ Control'
    BY <1>1, <2>1, <2>2, <2>3, StartPublishType DEF BuildBindings, RecordStatus
  <2>4. CASE Goto(t, "create") /\ loc' = [loc EXCEPT ![t].res = resources]
    <3> DEFINE l == [loc[t] EXCEPT !.res = resources]
    <3>1. l \in Locals
      BY <1>1 DEF GlobalsOK, ThreadsOK, Locals
    <3>2. "create" \in PCs /\ ControlAt("create", l, todo[t])
      BY <2>1 DEF ControlAt, PCs, WorkerPCs, Rec, Gen
    <3>3. /\ pc' = [pc EXCEPT ![t] = "create"]
          /\ loc' = [loc EXCEPT ![t] = l]
          /\ todo' = [todo EXCEPT ![t] = todo[t]] /\ todo[t] \in SUBSET Pipelines
      BY <1>1, <2>4 DEF BuildBindings, Goto, ThreadsOK
    <3> HIDE DEF l
    <3> QED
      BY <1>1, <3>1, <3>2, <3>3, ThreadStep
  <2> QED
    BY <2>3, <2>4 DEF BuildBindings
<1> QED
  BY <1>2, <1>3 DEF TInv, TypeOK

LEMMA CreateReplacementType ==
  ASSUME TInv, NEW t \in Threads, CreateReplacement(t)
  PROVE  TInv'
<1>1. GlobalsOK /\ ThreadsOK /\ Control /\ ControlAt(pc[t], loc[t], todo[t])
  BY DEF TInv, TypeOK, Control
<1>2. GlobalsOK'
  <2>1. Rec(t) \in Pipelines
    BY <1>1 DEF CreateReplacement, ControlAt, WorkerPCs, Rec
  <2>2. built' \in [Pipelines -> Nat]
    <3>1. built \in [Pipelines -> Nat]
      BY <1>1 DEF GlobalsOK
    <3>2. UNCHANGED built \/ built' = [built EXCEPT ![Rec(t)] = @ + 1]
      BY DEF CreateReplacement
    <3> QED
      BY <2>1, <3>1, <3>2
  <2> QED
    BY <1>1, <2>2
       DEF CreateReplacement, GlobalsOK, recipeVars, resourceVars, recordVars, mapVars
<1>3. ThreadsOK' /\ Control'
  <2>1. Rec(t) \in Pipelines /\ Gen(t) \in 1..MaxGen
    BY <1>1 DEF CreateReplacement, ControlAt, WorkerPCs, EnqueuePCs, Rec, Gen
  <2>2. NoReplacement \in OptionalReplacement
    BY DEF OptionalReplacement
  <2>3. CASE StartPublish(t, NoReplacement, "failed")
    BY <1>1, <2>1, <2>2, <2>3, StartPublishType DEF CreateReplacement, RecordStatus
  <2>4. CASE ~ StartPublish(t, NoReplacement, "failed")
    <3> DEFINE r == [rec |-> Rec(t), gen |-> Gen(t), res |-> loc[t].res, n |-> built[Rec(t)] + 1]
    <3>1. r \in OptionalReplacement
      BY <1>1, <2>1 DEF GlobalsOK, ThreadsOK, Locals, Replacements, OptionalReplacement
    <3>2. StartPublish(t, r, "patched") /\ UNCHANGED todo
      BY <2>4 DEF CreateReplacement
    <3> HIDE DEF r
    <3> QED
      BY <1>1, <2>1, <3>1, <3>2, StartPublishType DEF RecordStatus
  <2> QED
    BY <2>3, <2>4
<1> QED
  BY <1>2, <1>3 DEF TInv, TypeOK

LEMMA EnqueueRequestType ==
  ASSUME TInv, NEW t \in Threads, EnqueueRequest(t)
  PROVE  TInv'
<1>1. GlobalsOK /\ ThreadsOK /\ Control /\ ControlAt(pc[t], loc[t], todo[t])
  BY DEF TInv, TypeOK, Control
<1>2. GlobalsOK'
  BY <1>1, ConstantsAssumption DEF EnqueueRequest, GlobalsOK, ControlAt, EnqueuePCs, Rec, Gen,
     recipeVars, resourceVars, mapVars, replacementVars
<1>3. ThreadsOK' /\ Control'
  <2>1. Rec(t) \in Pipelines /\ Gen(t) \in 1..MaxGen
    BY <1>1 DEF EnqueueRequest, ControlAt, WorkerPCs, EnqueuePCs, Rec, Gen
  <2>2. NoReplacement \in OptionalReplacement
    BY DEF OptionalReplacement
  <2>3. CASE StartPublish(t, NoReplacement, "unmodified")
    BY <1>1, <2>1, <2>2, <2>3, StartPublishType DEF EnqueueRequest, RecordStatus
  <2>4. CASE ~ StartPublish(t, NoReplacement, "unmodified")
    <3>1. "mark" \in PCs /\ ControlAt("mark", loc[t], todo[t])
      BY <1>1, <2>1 DEF ControlAt, PCs, EnqueuePCs, Rec, Gen
    <3>2. /\ pc' = [pc EXCEPT ![t] = "mark"]
          /\ loc' = [loc EXCEPT ![t] = loc[t]]
          /\ todo' = [todo EXCEPT ![t] = todo[t]]
          /\ loc[t] \in Locals /\ todo[t] \in SUBSET Pipelines
      BY <1>1, <2>4 DEF EnqueueRequest, Goto, ThreadsOK
    <3> QED
      BY <1>1, <3>1, <3>2, ThreadStep
  <2> QED
    BY <2>3, <2>4
<1> QED
  BY <1>2, <1>3 DEF TInv, TypeOK

LEMMA EnqueueMarkType ==
  ASSUME TInv, NEW t \in Threads, EnqueueMark(t)
  PROVE  TInv'
<1> DEFINE l == loc[t]
<1>1. GlobalsOK /\ ThreadsOK /\ Control /\ ControlAt(pc[t], loc[t], todo[t])
  BY DEF TInv, TypeOK, Control
<1>2. GlobalsOK'
  BY TInv, SetStatusType, <1>1, ConstantsAssumption DEF EnqueueMark, GlobalsOK, ThreadsOK, Locals, ControlAt, Rec, Gen,
     TInv, TypeOK, RecordStatus, recipeVars, resourceVars, recordVars, mapVars, replacementVars, globals, PCs, WorkerPCs, EnqueuePCs, PublishPCs, CallPCs
<1>3. l \in Locals /\ todo[t] \in SUBSET Pipelines
  BY <1>1 DEF ThreadsOK, Locals
<1>4. "push" \in PCs /\ ControlAt("push", l, todo[t])
  BY <1>1, ConstantsAssumption DEF EnqueueMark, GlobalsOK, ThreadsOK, Locals, ControlAt, Rec, Gen, PCs, WorkerPCs, EnqueuePCs, PublishPCs, CallPCs
<1>5. pc' = [pc EXCEPT ![t] = "push"] /\ loc' = [loc EXCEPT ![t] = l] /\ todo' = [todo EXCEPT ![t] = todo[t]]
  BY <1>1 DEF EnqueueMark, Goto, ThreadsOK, globals
<1> HIDE DEF l
<1> QED
  BY <1>1, <1>2, <1>3, <1>4, <1>5, ThreadStep DEF TInv, TypeOK

LEMMA EnqueuePushType ==
  ASSUME TInv, NEW t \in Threads, EnqueuePush(t)
  PROVE  TInv'
<1>1. GlobalsOK /\ ThreadsOK /\ Control /\ ControlAt(pc[t], loc[t], todo[t])
  BY DEF TInv, TypeOK, Control
<1>2. GlobalsOK'
  <2>1. [rec |-> Rec(t), gen |-> Gen(t)] \in Jobs
    BY <1>1 DEF EnqueuePush, ControlAt, EnqueuePCs, Jobs, Rec, Gen
  <2>2. queue' \in Seq(Jobs)
    BY <1>1, <2>1 DEF EnqueuePush, GlobalsOK
  <2> QED
    BY <1>1, <2>2 DEF EnqueuePush, GlobalsOK, recipeVars, resourceVars, recordVars, mapVars,
       replacementVars
<1>3. ThreadsOK' /\ Control'
  BY <1>1, ReturnType DEF EnqueuePush
<1> QED
  BY <1>2, <1>3 DEF TInv, TypeOK

LEMMA RepatchNextType ==
  ASSUME TInv, NEW t \in Threads, RepatchNext(t)
  PROVE  TInv'
<1>1. GlobalsOK /\ ThreadsOK /\ Control /\ ControlAt(pc[t], loc[t], todo[t])
  BY DEF TInv, TypeOK, Control
<1>2. GlobalsOK'
  BY <1>1 DEF RepatchNext, GlobalsOK, globals, recipeVars, resourceVars, recordVars, mapVars,
     replacementVars
<1>3. ThreadsOK' /\ Control'
  <2>1. PICK p \in todo[t] : /\ todo' = [todo EXCEPT ![t] = @ \ {p}]
                             /\ loc' = [loc EXCEPT ![t].rec = p]
    BY DEF RepatchNext
  <2> DEFINE l == [loc[t] EXCEPT !.rec = p]
             records == todo[t] \ {p}
  <2>2. l \in Locals /\ records \in SUBSET Pipelines
    BY <1>1 DEF ThreadsOK, Locals
  <2>3. "request" \in PCs /\ ControlAt("request", l, records)
    BY <1>1 DEF ThreadsOK, Locals, ControlAt, PCs, EnqueuePCs
  <2>4. /\ pc' = [pc EXCEPT ![t] = "request"]
        /\ loc' = [loc EXCEPT ![t] = l]
        /\ todo' = [todo EXCEPT ![t] = records]
    BY <2>1 DEF RepatchNext, Goto
  <2> HIDE DEF l, records
  <2> QED
    BY <1>1, <2>2, <2>3, <2>4, ThreadStep
<1> QED
  BY <1>2, <1>3 DEF TInv, TypeOK

LEMMA InitPipelineType ==
  ASSUME TInv, NEW t \in Threads, NEW p \in Pipelines, InitPipeline(t, p)
  PROVE  TInv'
<1> DEFINE l == [loc[t] EXCEPT !.call = "init", !.rec = p]
<1>1. GlobalsOK /\ ThreadsOK /\ Control /\ ControlAt(pc[t], loc[t], todo[t])
  BY DEF TInv, TypeOK, Control
<1>2. GlobalsOK'
  BY <1>1, ConstantsAssumption DEF InitPipeline, GlobalsOK, ThreadsOK, Locals, ControlAt, Rec, Gen,
     recipeVars, resourceVars, recordVars, mapVars, replacementVars, globals, PCs, WorkerPCs, EnqueuePCs, PublishPCs, CallPCs
<1>3. l \in Locals /\ todo[t] \in SUBSET Pipelines
  <2>1. "init" \in Calls
    BY <1>1, ConstantsAssumption DEF InitPipeline, GlobalsOK, ControlAt, Calls, Rec, Gen, PCs, WorkerPCs, EnqueuePCs, PublishPCs, CallPCs
  <2> QED
    BY <1>1, <2>1 DEF ThreadsOK, Locals
<1>4. "init_count" \in PCs /\ ControlAt("init_count", l, todo[t])
  BY <1>1, ConstantsAssumption DEF InitPipeline, GlobalsOK, ThreadsOK, Locals, ControlAt, Rec, Gen, PCs, WorkerPCs, EnqueuePCs, PublishPCs, CallPCs
<1>5. pc' = [pc EXCEPT ![t] = "init_count"] /\ loc' = [loc EXCEPT ![t] = l] /\ todo' = [todo EXCEPT ![t] = todo[t]]
  BY <1>1 DEF InitPipeline, Goto, ThreadsOK, globals
<1> HIDE DEF l
<1> QED
  BY <1>1, <1>2, <1>3, <1>4, <1>5, ThreadStep DEF TInv, TypeOK

LEMMA InitCountType ==
  ASSUME TInv, NEW t \in Threads, InitCount(t)
  PROVE  TInv'
<1> DEFINE l == loc[t]
<1>1. GlobalsOK /\ ThreadsOK /\ Control /\ ControlAt(pc[t], loc[t], todo[t])
  BY DEF TInv, TypeOK, Control
<1>2. GlobalsOK'
  BY <1>1, ConstantsAssumption DEF InitCount, GlobalsOK, ThreadsOK, Locals, ControlAt, Rec, Gen,
     RecordStatus, recipeVars, resourceVars, recordVars, mapVars, replacementVars, globals, PCs, WorkerPCs, EnqueuePCs, PublishPCs, CallPCs
<1>3. l \in Locals /\ todo[t] \in SUBSET Pipelines
  BY <1>1 DEF ThreadsOK, Locals
<1>4. "init_recipes" \in PCs /\ ControlAt("init_recipes", l, todo[t])
  BY <1>1, ConstantsAssumption DEF InitCount, GlobalsOK, ThreadsOK, Locals, ControlAt, Rec, Gen, PCs, WorkerPCs, EnqueuePCs, PublishPCs, CallPCs
<1>5. pc' = [pc EXCEPT ![t] = "init_recipes"] /\ loc' = [loc EXCEPT ![t] = l] /\ todo' = [todo EXCEPT ![t] = todo[t]]
  BY <1>1 DEF InitCount, Goto, ThreadsOK, globals
<1> HIDE DEF l
<1> QED
  BY <1>1, <1>2, <1>3, <1>4, <1>5, ThreadStep DEF TInv, TypeOK

LEMMA InitRecipesType ==
  ASSUME TInv, NEW t \in Threads, InitRecipes(t)
  PROVE  TInv'
<1> DEFINE l == [loc[t] EXCEPT !.gen = recipes]
<1>1. GlobalsOK /\ ThreadsOK /\ Control /\ ControlAt(pc[t], loc[t], todo[t])
  BY DEF TInv, TypeOK, Control
<1>2. GlobalsOK'
  BY <1>1, ConstantsAssumption DEF InitRecipes, GlobalsOK, ThreadsOK, Locals, ControlAt, Rec, Gen,
     recipeVars, resourceVars, recordVars, mapVars, replacementVars, globals, PCs, WorkerPCs, EnqueuePCs, PublishPCs, CallPCs
<1>3. l \in Locals /\ todo[t] \in SUBSET Pipelines
  <2>1. recipes \in 0..MaxGen
    BY <1>1, ConstantsAssumption DEF InitRecipes, GlobalsOK, ControlAt, Calls, Rec, Gen, PCs, WorkerPCs, EnqueuePCs, PublishPCs, CallPCs
  <2> QED
    BY <1>1, <2>1 DEF ThreadsOK, Locals
<1>4. "request" \in PCs /\ ControlAt("request", l, todo[t])
  BY <1>1, ConstantsAssumption DEF InitRecipes, GlobalsOK, ThreadsOK, Locals, ControlAt, Rec, Gen, PCs, WorkerPCs, EnqueuePCs, PublishPCs, CallPCs
<1>5. pc' = [pc EXCEPT ![t] = "request"] /\ loc' = [loc EXCEPT ![t] = l] /\ todo' = [todo EXCEPT ![t] = todo[t]]
  BY <1>1 DEF InitRecipes, Goto, ThreadsOK, globals
<1> HIDE DEF l
<1> QED
  BY <1>1, <1>2, <1>3, <1>4, <1>5, ThreadStep DEF TInv, TypeOK

LEMMA DestroyPipelineType ==
  ASSUME TInv, NEW t \in Threads, NEW p \in Pipelines, DestroyPipeline(t, p)
  PROVE  TInv'
<1> DEFINE l == [loc[t] EXCEPT !.call = "destroy", !.rec = p]
<1>1. GlobalsOK /\ ThreadsOK /\ Control /\ ControlAt(pc[t], loc[t], todo[t])
  BY DEF TInv, TypeOK, Control
<1>2. GlobalsOK'
  BY <1>1, ConstantsAssumption DEF DestroyPipeline, GlobalsOK, ThreadsOK, Locals, ControlAt, Rec, Gen,
     recipeVars, resourceVars, recordVars, mapVars, replacementVars, globals, PCs, WorkerPCs, EnqueuePCs, PublishPCs, CallPCs
<1>3. l \in Locals /\ todo[t] \in SUBSET Pipelines
  <2>1. "destroy" \in Calls
    BY <1>1, ConstantsAssumption DEF DestroyPipeline, GlobalsOK, ControlAt, Calls, Rec, Gen, PCs, WorkerPCs, EnqueuePCs, PublishPCs, CallPCs
  <2> QED
    BY <1>1, <2>1 DEF ThreadsOK, Locals
<1>4. "destroy_mark" \in PCs /\ ControlAt("destroy_mark", l, todo[t])
  BY <1>1, ConstantsAssumption DEF DestroyPipeline, GlobalsOK, ThreadsOK, Locals, ControlAt, Rec, Gen, PCs, WorkerPCs, EnqueuePCs, PublishPCs, CallPCs
<1>5. pc' = [pc EXCEPT ![t] = "destroy_mark"] /\ loc' = [loc EXCEPT ![t] = l] /\ todo' = [todo EXCEPT ![t] = todo[t]]
  BY <1>1 DEF DestroyPipeline, Goto, ThreadsOK, globals
<1> HIDE DEF l
<1> QED
  BY <1>1, <1>2, <1>3, <1>4, <1>5, ThreadStep DEF TInv, TypeOK

LEMMA DestroyMarkType ==
  ASSUME TInv, NEW t \in Threads, DestroyMark(t)
  PROVE  TInv'
<1> DEFINE l == loc[t]
<1>1. GlobalsOK /\ ThreadsOK /\ Control /\ ControlAt(pc[t], loc[t], todo[t])
  BY DEF TInv, TypeOK, Control
<1>2. GlobalsOK'
  <2>1. Rec(t) \in Pipelines
    BY <1>1 DEF DestroyMark, ControlAt, Rec
  <2>2. status' \in [Pipelines -> RecordStatus]
    BY <1>1, <2>1 DEF DestroyMark, GlobalsOK, RecordStatus
  <2>3. counts' \in [RecordStatus -> Int]
    BY <1>1, <2>1 DEF DestroyMark, GlobalsOK
  <2> QED
    BY <1>1, <2>2, <2>3
       DEF DestroyMark, GlobalsOK, recipeVars, resourceVars, mapVars, replacementVars
<1>3. l \in Locals /\ todo[t] \in SUBSET Pipelines
  BY <1>1 DEF ThreadsOK, Locals
<1>4. "destroy_swap" \in PCs /\ ControlAt("destroy_swap", l, todo[t])
  BY <1>1, ConstantsAssumption DEF DestroyMark, GlobalsOK, ThreadsOK, Locals, ControlAt, Rec, Gen, PCs, WorkerPCs, EnqueuePCs, PublishPCs, CallPCs
<1>5. pc' = [pc EXCEPT ![t] = "destroy_swap"] /\ loc' = [loc EXCEPT ![t] = l] /\ todo' = [todo EXCEPT ![t] = todo[t]]
  BY <1>1 DEF DestroyMark, Goto, ThreadsOK, globals
<1> HIDE DEF l
<1> QED
  BY <1>1, <1>2, <1>3, <1>4, <1>5, ThreadStep DEF TInv, TypeOK

LEMMA DestroySwapType ==
  ASSUME TInv, NEW t \in Threads, DestroySwap(t)
  PROVE  TInv'
<1>1. GlobalsOK /\ ThreadsOK /\ Control /\ ControlAt(pc[t], loc[t], todo[t])
  BY DEF TInv, TypeOK, Control
<1>2. GlobalsOK'
  <2>1. Rec(t) \in Pipelines /\ replacement[Rec(t)] \in OptionalReplacement
    BY <1>1 DEF DestroySwap, ControlAt, Rec, GlobalsOK
  <2>2. retired' \subseteq Replacements
    BY <2>1, RetireType DEF TInv, DestroySwap
  <2>3. replacement' \in [Pipelines -> OptionalReplacement]
    BY <1>1 DEF DestroySwap, GlobalsOK, OptionalReplacement
  <2> QED
    BY <1>1, <2>2, <2>3 DEF DestroySwap, GlobalsOK, recipeVars, resourceVars, mapVars
<1>3. ThreadsOK' /\ Control'
  BY <1>1, ReturnType DEF DestroySwap
<1> QED
  BY <1>2, <1>3 DEF TInv, TypeOK

LEMMA NewRecipesType ==
  ASSUME TInv, NEW t \in Threads, NEW reload \in BOOLEAN, NewRecipes(t, reload)
  PROVE  TInv'
<1> DEFINE l == [loc[t] EXCEPT !.call = "repatch_all", !.gen = generations + 1, !.first = reload]
<1>1. GlobalsOK /\ ThreadsOK /\ Control /\ ControlAt(pc[t], loc[t], todo[t])
  BY DEF TInv, TypeOK, Control
<1>2. GlobalsOK'
  BY <1>1, ConstantsAssumption DEF NewRecipes, GlobalsOK, ThreadsOK, Locals, ControlAt, Rec, Gen,
     recipeVars, resourceVars, recordVars, mapVars, replacementVars, globals, PCs, WorkerPCs, EnqueuePCs, PublishPCs, CallPCs
<1>3. l \in Locals /\ todo[t] \in SUBSET Pipelines
  <2>1. "repatch_all" \in Calls /\ generations + 1 \in 0..MaxGen
    BY <1>1, ConstantsAssumption DEF NewRecipes, GlobalsOK, ControlAt, Calls, Rec, Gen, PCs, WorkerPCs, EnqueuePCs, PublishPCs, CallPCs
  <2> QED
    BY <1>1, <2>1 DEF ThreadsOK, Locals
<1>4. "store_recipes" \in PCs /\ ControlAt("store_recipes", l, todo[t])
  BY <1>1, ConstantsAssumption DEF NewRecipes, GlobalsOK, ThreadsOK, Locals, ControlAt, Rec, Gen, PCs, WorkerPCs, EnqueuePCs, PublishPCs, CallPCs
<1>5. pc' = [pc EXCEPT ![t] = "store_recipes"] /\ loc' = [loc EXCEPT ![t] = l] /\ todo' = [todo EXCEPT ![t] = todo[t]]
  BY <1>1 DEF NewRecipes, Goto, ThreadsOK, globals
<1> HIDE DEF l
<1> QED
  BY <1>1, <1>2, <1>3, <1>4, <1>5, ThreadStep DEF TInv, TypeOK

LEMMA StoreRecipesType ==
  ASSUME TInv, NEW t \in Threads, StoreRecipes(t)
  PROVE  TInv'
<1>1. GlobalsOK /\ ThreadsOK /\ Control /\ ControlAt(pc[t], loc[t], todo[t])
  BY DEF TInv, TypeOK, Control
<1>2. GlobalsOK'
  BY <1>1 DEF StoreRecipes, GlobalsOK, ControlAt, Gen, resourceVars, recordVars, mapVars,
     replacementVars
<1>3. ThreadsOK' /\ Control'
  <2> DEFINE label == IF loc[t].first THEN "reload_resources" ELSE "snapshot"
  <2>1. label \in PCs /\ ControlAt(label, loc[t], todo[t])
    BY <1>1 DEF StoreRecipes, ControlAt, PCs, CallPCs, WorkerPCs, EnqueuePCs, PublishPCs
  <2>2. /\ pc' = [pc EXCEPT ![t] = label]
        /\ loc' = [loc EXCEPT ![t] = loc[t]]
        /\ todo' = [todo EXCEPT ![t] = todo[t]]
        /\ loc[t] \in Locals /\ todo[t] \in SUBSET Pipelines
    BY <1>1 DEF StoreRecipes, Goto, ThreadsOK
  <2> HIDE DEF label
  <2> QED
    BY <1>1, <2>1, <2>2, ThreadStep
<1> QED
  BY <1>2, <1>3 DEF TInv, TypeOK

LEMMA ReloadResourcesType ==
  ASSUME TInv, NEW t \in Threads, ReloadResources(t)
  PROVE  TInv'
<1> DEFINE l == loc[t]
<1>1. GlobalsOK /\ ThreadsOK /\ Control /\ ControlAt(pc[t], loc[t], todo[t])
  BY DEF TInv, TypeOK, Control
<1>2. GlobalsOK'
  BY <1>1, ConstantsAssumption DEF ReloadResources, GlobalsOK, ThreadsOK, Locals, ControlAt, Rec, Gen,
     recipeVars, resourceVars, recordVars, mapVars, replacementVars, globals, PCs, WorkerPCs, EnqueuePCs, PublishPCs, CallPCs
<1>3. l \in Locals /\ todo[t] \in SUBSET Pipelines
  BY <1>1 DEF ThreadsOK, Locals
<1>4. "snapshot" \in PCs /\ ControlAt("snapshot", l, todo[t])
  BY <1>1, ConstantsAssumption DEF ReloadResources, GlobalsOK, ThreadsOK, Locals, ControlAt, Rec, Gen, PCs, WorkerPCs, EnqueuePCs, PublishPCs, CallPCs
<1>5. pc' = [pc EXCEPT ![t] = "snapshot"] /\ loc' = [loc EXCEPT ![t] = l] /\ todo' = [todo EXCEPT ![t] = todo[t]]
  BY <1>1 DEF ReloadResources, Goto, ThreadsOK, globals
<1> HIDE DEF l
<1> QED
  BY <1>1, <1>2, <1>3, <1>4, <1>5, ThreadStep DEF TInv, TypeOK

LEMMA RepatchSnapshotType ==
  ASSUME TInv, NEW t \in Threads, RepatchSnapshot(t)
  PROVE  TInv'
<1>1. GlobalsOK /\ ThreadsOK /\ Control /\ ControlAt(pc[t], loc[t], todo[t])
  BY DEF TInv, TypeOK, Control
<1>2. GlobalsOK'
  BY <1>1 DEF RepatchSnapshot, GlobalsOK, globals, recipeVars, resourceVars, recordVars, mapVars,
     replacementVars
<1>3. ThreadsOK' /\ Control'
  <2>1. PICK records \in SUBSET Pipelines : TakeSnapshot(t, records)
    BY <1>1 DEF RepatchSnapshot, GlobalsOK
  <2>2. Gen(t) \in 1..MaxGen
    BY <1>1 DEF RepatchSnapshot, ControlAt, Gen
  <2> QED
    BY <1>1, <2>1, <2>2, TakeSnapshotType
<1> QED
  BY <1>2, <1>3 DEF TInv, TypeOK

LEMMA LoadBeginType ==
  ASSUME TInv, NEW t \in Threads, LoadBegin(t)
  PROVE  TInv'
<1> DEFINE l == [loc[t] EXCEPT !.call = "load", !.res = loads + 1]
<1>1. GlobalsOK /\ ThreadsOK /\ Control /\ ControlAt(pc[t], loc[t], todo[t])
  BY DEF TInv, TypeOK, Control
<1>2. GlobalsOK'
  BY <1>1, ConstantsAssumption DEF LoadBegin, GlobalsOK, ThreadsOK, Locals, ControlAt, Rec, Gen,
     recipeVars, resourceVars, recordVars, mapVars, replacementVars, globals, PCs, WorkerPCs, EnqueuePCs, PublishPCs, CallPCs
<1>3. l \in Locals /\ todo[t] \in SUBSET Pipelines
  <2>1. "load" \in Calls /\ loads + 1 \in Nat
    BY <1>1, ConstantsAssumption DEF LoadBegin, GlobalsOK, ControlAt, Calls, Rec, Gen, PCs, WorkerPCs, EnqueuePCs, PublishPCs, CallPCs
  <2> QED
    BY <1>1, <2>1 DEF ThreadsOK, Locals
<1>4. "load_first" \in PCs /\ ControlAt("load_first", l, todo[t])
  BY <1>1, ConstantsAssumption DEF LoadBegin, GlobalsOK, ThreadsOK, Locals, ControlAt, Rec, Gen, PCs, WorkerPCs, EnqueuePCs, PublishPCs, CallPCs
<1>5. pc' = [pc EXCEPT ![t] = "load_first"] /\ loc' = [loc EXCEPT ![t] = l] /\ todo' = [todo EXCEPT ![t] = todo[t]]
  BY <1>1 DEF LoadBegin, Goto, ThreadsOK, globals
<1> HIDE DEF l
<1> QED
  BY <1>1, <1>2, <1>3, <1>4, <1>5, ThreadStep DEF TInv, TypeOK

LEMMA LoadFirstType ==
  ASSUME TInv, NEW t \in Threads, LoadFirst(t)
  PROVE  TInv'
<1> DEFINE l == [loc[t] EXCEPT !.first = (resources = 0)]
<1>1. GlobalsOK /\ ThreadsOK /\ Control /\ ControlAt(pc[t], loc[t], todo[t])
  BY DEF TInv, TypeOK, Control
<1>2. GlobalsOK'
  BY <1>1, ConstantsAssumption DEF LoadFirst, GlobalsOK, ThreadsOK, Locals, ControlAt, Rec, Gen,
     recipeVars, resourceVars, recordVars, mapVars, replacementVars, globals, PCs, WorkerPCs, EnqueuePCs, PublishPCs, CallPCs
<1>3. l \in Locals /\ todo[t] \in SUBSET Pipelines
  BY <1>1 DEF ThreadsOK, Locals
<1>4. "load_swap" \in PCs /\ ControlAt("load_swap", l, todo[t])
  BY <1>1, ConstantsAssumption DEF LoadFirst, GlobalsOK, ThreadsOK, Locals, ControlAt, Rec, Gen, PCs, WorkerPCs, EnqueuePCs, PublishPCs, CallPCs
<1>5. pc' = [pc EXCEPT ![t] = "load_swap"] /\ loc' = [loc EXCEPT ![t] = l] /\ todo' = [todo EXCEPT ![t] = todo[t]]
  BY <1>1 DEF LoadFirst, Goto, ThreadsOK, globals
<1> HIDE DEF l
<1> QED
  BY <1>1, <1>2, <1>3, <1>4, <1>5, ThreadStep DEF TInv, TypeOK

LEMMA LoadSwapType ==
  ASSUME TInv, NEW t \in Threads, LoadSwap(t)
  PROVE  TInv'
<1>1. GlobalsOK /\ ThreadsOK /\ Control /\ ControlAt(pc[t], loc[t], todo[t])
  BY DEF TInv, TypeOK, Control
<1>2. GlobalsOK'
  BY <1>1 DEF LoadSwap, GlobalsOK, ThreadsOK, Locals, recipeVars, recordVars, mapVars,
     replacementVars
<1>3. ThreadsOK' /\ Control'
  <2> DEFINE label == IF loc[t].first THEN "load_recipes" ELSE "idle"
             l == IF loc[t].first THEN loc[t] ELSE NoLocals
  <2>1. l \in Locals /\ todo[t] \in SUBSET Pipelines
    BY <1>1, ConstantsAssumption, LocalsOfType DEF ThreadsOK, NoLocals, Calls
  <2>2. todo[t] = {}
    BY <1>1 DEF LoadSwap, ControlAt
  <2>3. label \in PCs /\ ControlAt(label, l, todo[t])
    BY <2>2 DEF ControlAt, PCs, CallPCs, WorkerPCs, EnqueuePCs, PublishPCs
  <2>4. /\ pc' = [pc EXCEPT ![t] = label]
        /\ loc' = [loc EXCEPT ![t] = l]
        /\ todo' = [todo EXCEPT ![t] = todo[t]]
    BY <1>1 DEF LoadSwap, Goto, ThreadsOK
  <2> HIDE DEF l, label
  <2> QED
    BY <1>1, <2>1, <2>3, <2>4, ThreadStep
<1> QED
  BY <1>2, <1>3 DEF TInv, TypeOK

LEMMA LoadRecipesType ==
  ASSUME TInv, NEW t \in Threads, LoadRecipes(t)
  PROVE  TInv'
<1> DEFINE l == [loc[t] EXCEPT !.gen = recipes]
<1>1. GlobalsOK /\ ThreadsOK /\ Control /\ ControlAt(pc[t], loc[t], todo[t])
  BY DEF TInv, TypeOK, Control
<1>2. GlobalsOK'
  BY <1>1, ConstantsAssumption DEF LoadRecipes, GlobalsOK, ThreadsOK, Locals, ControlAt, Rec, Gen,
     recipeVars, resourceVars, recordVars, mapVars, replacementVars, globals, PCs, WorkerPCs, EnqueuePCs, PublishPCs, CallPCs
<1>3. l \in Locals /\ todo[t] \in SUBSET Pipelines
  <2>1. recipes \in 0..MaxGen
    BY <1>1, ConstantsAssumption DEF LoadRecipes, GlobalsOK, ControlAt, Calls, Rec, Gen, PCs, WorkerPCs, EnqueuePCs, PublishPCs, CallPCs
  <2> QED
    BY <1>1, <2>1 DEF ThreadsOK, Locals
<1>4. "load_snapshot" \in PCs /\ ControlAt("load_snapshot", l, todo[t])
  BY <1>1, ConstantsAssumption DEF LoadRecipes, GlobalsOK, ThreadsOK, Locals, ControlAt, Rec, Gen, PCs, WorkerPCs, EnqueuePCs, PublishPCs, CallPCs
<1>5. pc' = [pc EXCEPT ![t] = "load_snapshot"] /\ loc' = [loc EXCEPT ![t] = l] /\ todo' = [todo EXCEPT ![t] = todo[t]]
  BY <1>1 DEF LoadRecipes, Goto, ThreadsOK, globals
<1> HIDE DEF l
<1> QED
  BY <1>1, <1>2, <1>3, <1>4, <1>5, ThreadStep DEF TInv, TypeOK

LEMMA LoadSnapshotType ==
  ASSUME TInv, NEW t \in Threads, LoadSnapshot(t)
  PROVE  TInv'
<1>1. GlobalsOK /\ ThreadsOK /\ Control /\ ControlAt(pc[t], loc[t], todo[t])
  BY DEF TInv, TypeOK, Control
<1>2. GlobalsOK'
  BY <1>1 DEF LoadSnapshot, GlobalsOK, globals, recipeVars, resourceVars, recordVars, mapVars,
     replacementVars
<1>3. ThreadsOK' /\ Control'
  <2>1. PICK records \in SUBSET Pipelines : TakeSnapshot(t, records)
    BY <1>1 DEF LoadSnapshot, GlobalsOK
  <2>2. Gen(t) \in 1..MaxGen
    BY <1>1 DEF LoadSnapshot, ControlAt, Gen
  <2> QED
    BY <1>1, <2>1, <2>2, TakeSnapshotType
<1> QED
  BY <1>2, <1>3 DEF TInv, TypeOK

-----------------------------------------------------------------------------
(* The initial states are well typed.                                      *)
LEMMA InitType == Init => TInv
<1> SUFFICES ASSUME Init PROVE TInv
  OBVIOUS
<1>1. NoLocals \in Locals
  BY ConstantsAssumption, LocalsOfType DEF NoLocals, Calls
<1>2. GlobalsOK
  BY ConstantsAssumption DEF Init, GlobalsOK, RecordStatus, OptionalReplacement
<1>3. ThreadsOK
  BY <1>1 DEF Init, ThreadsOK, PCs
<1>4. Control
  BY DEF Init, Control, ControlAt, WorkerPCs, EnqueuePCs, PublishPCs
<1> QED
  BY <1>2, <1>3, <1>4 DEF TInv, TypeOK

(* Every step of every thread keeps the variables well typed.              *)
LEMMA NextType == TInv /\ [Next]_vars => TInv'
<1> SUFFICES ASSUME TInv, [Next]_vars PROVE TInv'
  OBVIOUS
<1>1. ASSUME NEW t \in Workers, WorkerStep(t) PROVE TInv'
  BY <1>1, TakeJobType, CheckJobType, PatchJobType, BuildBindingsType, CreateReplacementType,
     PublishCheckType, PublishSwapType, PublishOwnersType, PublishStatusType
     DEF WorkerStep, PublishStep, Threads
<1>2. ASSUME NEW t \in Callers, CallStep(t) PROVE TInv'
  <2>1. CASE EnqueueRequest(t) \/ EnqueueMark(t) \/ EnqueuePush(t) \/ RepatchNext(t) \/ PublishStep(t)
    BY <2>1, EnqueueRequestType, EnqueueMarkType, EnqueuePushType, RepatchNextType,
       PublishCheckType, PublishSwapType, PublishOwnersType, PublishStatusType
       DEF PublishStep, Threads
  <2>2. CASE InitCount(t) \/ InitRecipes(t) \/ DestroyMark(t) \/ DestroySwap(t)
    BY <2>2, InitCountType, InitRecipesType, DestroyMarkType, DestroySwapType DEF Threads
  <2>3. CASE StoreRecipes(t) \/ ReloadResources(t) \/ RepatchSnapshot(t)
    BY <2>3, StoreRecipesType, ReloadResourcesType, RepatchSnapshotType DEF Threads
  <2>4. CASE LoadFirst(t) \/ LoadSwap(t) \/ LoadRecipes(t) \/ LoadSnapshot(t)
    BY <2>4, LoadFirstType, LoadSwapType, LoadRecipesType, LoadSnapshotType DEF Threads
  <2> QED
    BY <1>2, <2>1, <2>2, <2>3, <2>4 DEF CallStep
<1>3. ASSUME NEW t \in Creators, NEW p \in Pipelines, InitPipeline(t, p) \/ DestroyPipeline(t, p)
      PROVE  TInv'
  BY <1>3, InitPipelineType, DestroyPipelineType DEF Threads, Callers
<1>4. ASSUME NEW t \in Overlays, ApplyEnvOverrides(t) \/ ReloadAll(t) PROVE TInv'
  BY <1>4, NewRecipesType DEF ApplyEnvOverrides, ReloadAll, Threads, Callers
<1>5. ASSUME NEW t \in Loaders, LoadBegin(t) PROVE TInv'
  BY <1>5, LoadBeginType DEF Threads, Callers
<1>6. CASE UNCHANGED vars
  BY <1>6 DEF TInv, TypeOK, GlobalsOK, ThreadsOK, Control, ControlAt, vars, globals, recipeVars,
     resourceVars, recordVars, mapVars, replacementVars
<1> QED
  BY <1>1, <1>2, <1>3, <1>4, <1>5, <1>6 DEF Next

(* Type correctness, for any number of pipelines, threads and generations. *)
THEOREM TypeCorrect == Spec => []TypeOK
<1>1. TInv => TypeOK
  BY DEF TInv
<1> QED
  BY <1>1, InitType, NextType, PTL DEF Spec

------------------------------------------------------------------------------
(* Owners.                                                                  *)

(* OneOwner is not inductive alone: a new replacement could equal an old    *)
(* one, and a Publish could hold one of another record.  Replacements are   *)
(* numbered below the count of those built, and stay with their record.     *)
Numbered ==
  /\ \A p \in Pipelines : replacement[p] \in Replacements =>
       replacement[p].rec = p /\ replacement[p].n <= built[p]
  /\ \A r \in retired : r.n <= built[r.rec]
  /\ \A t \in Threads : InHand(t) \in Replacements =>
       InHand(t).rec = Rec(t) /\ InHand(t).n <= built[Rec(t)]

OInv == TInv /\ Numbered /\ OneOwner

(* Only thread t moves.                                                     *)
OthersStay(t) ==
  \A u \in Threads \ {t} : InHand(u)' = InHand(u) /\ Rec(u)' = Rec(u)

LEMMA NoReplacementIsNone == NoReplacement \notin Replacements
BY DEF NoReplacement, Replacements

LEMMA InHandType ==
  ASSUME TInv, NEW t \in Threads
  PROVE  InHand(t) \in OptionalReplacement
BY DEF TInv, TypeOK, ThreadsOK, Locals, InHand, OptionalReplacement

(* A step that leaves the records and the retire queue alone, and after     *)
(* which its thread holds nothing or what it held.                          *)
LEMMA QuietStep ==
  ASSUME OInv, NEW t \in Threads, OthersStay(t), UNCHANGED <<replacement, retired, built>>,
         InHand(t)' = NoReplacement \/ (InHand(t)' = InHand(t) /\ Rec(t)' = Rec(t))
  PROVE  Numbered' /\ OneOwner'
<1>1. Numbered'
  BY NoReplacementIsNone DEF OInv, Numbered, OthersStay
<1>2. OneOwner'
  BY NoReplacementIsNone DEF OInv, OneOwner, OthersStay
<1> QED
  BY <1>1, <1>2

LEMMA TakeJobQuiet ==
  ASSUME OInv, NEW t \in Threads, TakeJob(t)
  PROVE  Numbered' /\ OneOwner'
<1>1. pc \in [Threads -> PCs] /\ loc \in [Threads -> Locals]
  BY DEF OInv, TInv, TypeOK, ThreadsOK
<1>2. OthersStay(t) /\ UNCHANGED <<replacement, retired, built>>
  BY <1>1 DEF TakeJob, InHand, OthersStay, Rec, Goto, Return, StartPublish, TakeSnapshot, globals,
     recordVars, replacementVars
<1>3. InHand(t)' = NoReplacement
  BY <1>1 DEF TakeJob, InHand, OthersStay, Rec, Goto, Return, StartPublish, TakeSnapshot, globals,
     recordVars, replacementVars
<1> QED
  BY <1>2, <1>3, QuietStep

LEMMA CheckJobQuiet ==
  ASSUME OInv, NEW t \in Threads, CheckJob(t)
  PROVE  Numbered' /\ OneOwner'
<1>1. pc \in [Threads -> PCs] /\ loc \in [Threads -> Locals]
  BY DEF OInv, TInv, TypeOK, ThreadsOK
<1>2. OthersStay(t) /\ UNCHANGED <<replacement, retired, built>>
  BY <1>1 DEF CheckJob, InHand, OthersStay, Rec, Goto, Return, StartPublish, TakeSnapshot, globals,
     recordVars, replacementVars
<1>3. InHand(t)' = NoReplacement
  BY <1>1 DEF CheckJob, InHand, OthersStay, Rec, Goto, Return, StartPublish, TakeSnapshot, globals,
     recordVars, replacementVars
<1> QED
  BY <1>2, <1>3, QuietStep

LEMMA EnqueueMarkQuiet ==
  ASSUME OInv, NEW t \in Threads, EnqueueMark(t)
  PROVE  Numbered' /\ OneOwner'
<1>1. pc \in [Threads -> PCs] /\ loc \in [Threads -> Locals]
  BY DEF OInv, TInv, TypeOK, ThreadsOK
<1>2. OthersStay(t) /\ UNCHANGED <<replacement, retired, built>>
  BY <1>1 DEF EnqueueMark, InHand, OthersStay, Rec, Goto, Return, StartPublish, TakeSnapshot, globals,
     recordVars, replacementVars
<1>3. InHand(t)' = NoReplacement
  BY <1>1 DEF EnqueueMark, InHand, OthersStay, Rec, Goto, Return, StartPublish, TakeSnapshot, globals,
     recordVars, replacementVars
<1> QED
  BY <1>2, <1>3, QuietStep

LEMMA EnqueuePushQuiet ==
  ASSUME OInv, NEW t \in Threads, EnqueuePush(t)
  PROVE  Numbered' /\ OneOwner'
<1>1. pc \in [Threads -> PCs] /\ loc \in [Threads -> Locals]
  BY DEF OInv, TInv, TypeOK, ThreadsOK
<1>2. OthersStay(t) /\ UNCHANGED <<replacement, retired, built>>
  BY <1>1 DEF EnqueuePush, InHand, OthersStay, Rec, Goto, Return, StartPublish, TakeSnapshot, globals,
     recordVars, replacementVars
<1>3. InHand(t)' = NoReplacement
  BY <1>1 DEF EnqueuePush, InHand, OthersStay, Rec, Goto, Return, StartPublish, TakeSnapshot, globals,
     recordVars, replacementVars
<1> QED
  BY <1>2, <1>3, QuietStep

LEMMA RepatchNextQuiet ==
  ASSUME OInv, NEW t \in Threads, RepatchNext(t)
  PROVE  Numbered' /\ OneOwner'
<1>1. pc \in [Threads -> PCs] /\ loc \in [Threads -> Locals]
  BY DEF OInv, TInv, TypeOK, ThreadsOK
<1>2. OthersStay(t) /\ UNCHANGED <<replacement, retired, built>>
  BY <1>1 DEF RepatchNext, InHand, OthersStay, Rec, Goto, Return, StartPublish, TakeSnapshot, globals,
     recordVars, replacementVars
<1>3. InHand(t)' = NoReplacement
  BY <1>1 DEF RepatchNext, InHand, OthersStay, Rec, Goto, Return, StartPublish, TakeSnapshot, globals,
     recordVars, replacementVars
<1> QED
  BY <1>2, <1>3, QuietStep

LEMMA InitCountQuiet ==
  ASSUME OInv, NEW t \in Threads, InitCount(t)
  PROVE  Numbered' /\ OneOwner'
<1>1. pc \in [Threads -> PCs] /\ loc \in [Threads -> Locals]
  BY DEF OInv, TInv, TypeOK, ThreadsOK
<1>2. OthersStay(t) /\ UNCHANGED <<replacement, retired, built>>
  BY <1>1 DEF InitCount, InHand, OthersStay, Rec, Goto, Return, StartPublish, TakeSnapshot, globals,
     recordVars, replacementVars
<1>3. InHand(t)' = NoReplacement
  BY <1>1 DEF InitCount, InHand, OthersStay, Rec, Goto, Return, StartPublish, TakeSnapshot, globals,
     recordVars, replacementVars
<1> QED
  BY <1>2, <1>3, QuietStep

LEMMA InitRecipesQuiet ==
  ASSUME OInv, NEW t \in Threads, InitRecipes(t)
  PROVE  Numbered' /\ OneOwner'
<1>1. pc \in [Threads -> PCs] /\ loc \in [Threads -> Locals]
  BY DEF OInv, TInv, TypeOK, ThreadsOK
<1>2. OthersStay(t) /\ UNCHANGED <<replacement, retired, built>>
  BY <1>1 DEF InitRecipes, InHand, OthersStay, Rec, Goto, Return, StartPublish, TakeSnapshot, globals,
     recordVars, replacementVars
<1>3. InHand(t)' = NoReplacement
  BY <1>1 DEF InitRecipes, InHand, OthersStay, Rec, Goto, Return, StartPublish, TakeSnapshot, globals,
     recordVars, replacementVars
<1> QED
  BY <1>2, <1>3, QuietStep

LEMMA DestroyMarkQuiet ==
  ASSUME OInv, NEW t \in Threads, DestroyMark(t)
  PROVE  Numbered' /\ OneOwner'
<1>1. pc \in [Threads -> PCs] /\ loc \in [Threads -> Locals]
  BY DEF OInv, TInv, TypeOK, ThreadsOK
<1>2. OthersStay(t) /\ UNCHANGED <<replacement, retired, built>>
  BY <1>1 DEF DestroyMark, InHand, OthersStay, Rec, Goto, Return, StartPublish, TakeSnapshot, globals,
     recordVars, replacementVars
<1>3. InHand(t)' = NoReplacement
  BY <1>1 DEF DestroyMark, InHand, OthersStay, Rec, Goto, Return, StartPublish, TakeSnapshot, globals,
     recordVars, replacementVars
<1> QED
  BY <1>2, <1>3, QuietStep

LEMMA StoreRecipesQuiet ==
  ASSUME OInv, NEW t \in Threads, StoreRecipes(t)
  PROVE  Numbered' /\ OneOwner'
<1>1. pc \in [Threads -> PCs] /\ loc \in [Threads -> Locals]
  BY DEF OInv, TInv, TypeOK, ThreadsOK
<1>2. OthersStay(t) /\ UNCHANGED <<replacement, retired, built>>
  BY <1>1 DEF StoreRecipes, InHand, OthersStay, Rec, Goto, Return, StartPublish, TakeSnapshot, globals,
     recordVars, replacementVars
<1>3. InHand(t)' = NoReplacement
  BY <1>1 DEF StoreRecipes, InHand, OthersStay, Rec, Goto, Return, StartPublish, TakeSnapshot, globals,
     recordVars, replacementVars
<1> QED
  BY <1>2, <1>3, QuietStep

LEMMA ReloadResourcesQuiet ==
  ASSUME OInv, NEW t \in Threads, ReloadResources(t)
  PROVE  Numbered' /\ OneOwner'
<1>1. pc \in [Threads -> PCs] /\ loc \in [Threads -> Locals]
  BY DEF OInv, TInv, TypeOK, ThreadsOK
<1>2. OthersStay(t) /\ UNCHANGED <<replacement, retired, built>>
  BY <1>1 DEF ReloadResources, InHand, OthersStay, Rec, Goto, Return, StartPublish, TakeSnapshot, globals,
     recordVars, replacementVars
<1>3. InHand(t)' = NoReplacement
  BY <1>1 DEF ReloadResources, InHand, OthersStay, Rec, Goto, Return, StartPublish, TakeSnapshot, globals,
     recordVars, replacementVars
<1> QED
  BY <1>2, <1>3, QuietStep

LEMMA RepatchSnapshotQuiet ==
  ASSUME OInv, NEW t \in Threads, RepatchSnapshot(t)
  PROVE  Numbered' /\ OneOwner'
<1>1. pc \in [Threads -> PCs] /\ loc \in [Threads -> Locals]
  BY DEF OInv, TInv, TypeOK, ThreadsOK
<1>2. OthersStay(t) /\ UNCHANGED <<replacement, retired, built>>
  BY <1>1 DEF RepatchSnapshot, InHand, OthersStay, Rec, Goto, Return, StartPublish, TakeSnapshot, globals,
     recordVars, replacementVars
<1>3. InHand(t)' = NoReplacement
  BY <1>1 DEF RepatchSnapshot, InHand, OthersStay, Rec, Goto, Return, StartPublish, TakeSnapshot, globals,
     recordVars, replacementVars
<1> QED
  BY <1>2, <1>3, QuietStep

LEMMA LoadBeginQuiet ==
  ASSUME OInv, NEW t \in Threads, LoadBegin(t)
  PROVE  Numbered' /\ OneOwner'
<1>1. pc \in [Threads -> PCs] /\ loc \in [Threads -> Locals]
  BY DEF OInv, TInv, TypeOK, ThreadsOK
<1>2. OthersStay(t) /\ UNCHANGED <<replacement, retired, built>>
  BY <1>1 DEF LoadBegin, InHand, OthersStay, Rec, Goto, Return, StartPublish, TakeSnapshot, globals,
     recordVars, replacementVars
<1>3. InHand(t)' = NoReplacement
  BY <1>1 DEF LoadBegin, InHand, OthersStay, Rec, Goto, Return, StartPublish, TakeSnapshot, globals,
     recordVars, replacementVars
<1> QED
  BY <1>2, <1>3, QuietStep

LEMMA LoadFirstQuiet ==
  ASSUME OInv, NEW t \in Threads, LoadFirst(t)
  PROVE  Numbered' /\ OneOwner'
<1>1. pc \in [Threads -> PCs] /\ loc \in [Threads -> Locals]
  BY DEF OInv, TInv, TypeOK, ThreadsOK
<1>2. OthersStay(t) /\ UNCHANGED <<replacement, retired, built>>
  BY <1>1 DEF LoadFirst, InHand, OthersStay, Rec, Goto, Return, StartPublish, TakeSnapshot, globals,
     recordVars, replacementVars
<1>3. InHand(t)' = NoReplacement
  BY <1>1 DEF LoadFirst, InHand, OthersStay, Rec, Goto, Return, StartPublish, TakeSnapshot, globals,
     recordVars, replacementVars
<1> QED
  BY <1>2, <1>3, QuietStep

LEMMA LoadSwapQuiet ==
  ASSUME OInv, NEW t \in Threads, LoadSwap(t)
  PROVE  Numbered' /\ OneOwner'
<1>1. pc \in [Threads -> PCs] /\ loc \in [Threads -> Locals]
  BY DEF OInv, TInv, TypeOK, ThreadsOK
<1>2. OthersStay(t) /\ UNCHANGED <<replacement, retired, built>>
  BY <1>1 DEF LoadSwap, InHand, OthersStay, Rec, Goto, Return, StartPublish, TakeSnapshot, globals,
     recordVars, replacementVars
<1>3. InHand(t)' = NoReplacement
  BY <1>1 DEF LoadSwap, InHand, OthersStay, Rec, Goto, Return, StartPublish, TakeSnapshot, globals,
     recordVars, replacementVars
<1> QED
  BY <1>2, <1>3, QuietStep

LEMMA LoadRecipesQuiet ==
  ASSUME OInv, NEW t \in Threads, LoadRecipes(t)
  PROVE  Numbered' /\ OneOwner'
<1>1. pc \in [Threads -> PCs] /\ loc \in [Threads -> Locals]
  BY DEF OInv, TInv, TypeOK, ThreadsOK
<1>2. OthersStay(t) /\ UNCHANGED <<replacement, retired, built>>
  BY <1>1 DEF LoadRecipes, InHand, OthersStay, Rec, Goto, Return, StartPublish, TakeSnapshot, globals,
     recordVars, replacementVars
<1>3. InHand(t)' = NoReplacement
  BY <1>1 DEF LoadRecipes, InHand, OthersStay, Rec, Goto, Return, StartPublish, TakeSnapshot, globals,
     recordVars, replacementVars
<1> QED
  BY <1>2, <1>3, QuietStep

LEMMA LoadSnapshotQuiet ==
  ASSUME OInv, NEW t \in Threads, LoadSnapshot(t)
  PROVE  Numbered' /\ OneOwner'
<1>1. pc \in [Threads -> PCs] /\ loc \in [Threads -> Locals]
  BY DEF OInv, TInv, TypeOK, ThreadsOK
<1>2. OthersStay(t) /\ UNCHANGED <<replacement, retired, built>>
  BY <1>1 DEF LoadSnapshot, InHand, OthersStay, Rec, Goto, Return, StartPublish, TakeSnapshot, globals,
     recordVars, replacementVars
<1>3. InHand(t)' = NoReplacement
  BY <1>1 DEF LoadSnapshot, InHand, OthersStay, Rec, Goto, Return, StartPublish, TakeSnapshot, globals,
     recordVars, replacementVars
<1> QED
  BY <1>2, <1>3, QuietStep

LEMMA PatchJobQuiet ==
  ASSUME OInv, NEW t \in Threads, PatchJob(t)
  PROVE  Numbered' /\ OneOwner'
<1>1. pc \in [Threads -> PCs] /\ loc \in [Threads -> Locals]
  BY DEF OInv, TInv, TypeOK, ThreadsOK
<1>2. OthersStay(t) /\ UNCHANGED <<replacement, retired, built>>
  BY <1>1 DEF PatchJob, Locals, InHand, OthersStay, Rec, Goto, Return, StartPublish, TakeSnapshot, globals,
     recordVars, replacementVars
<1>3. InHand(t)' = NoReplacement
  BY <1>1 DEF PatchJob, Locals, InHand, OthersStay, Rec, Goto, Return, StartPublish, TakeSnapshot, globals,
     recordVars, replacementVars
<1> QED
  BY <1>2, <1>3, QuietStep

LEMMA BuildBindingsQuiet ==
  ASSUME OInv, NEW t \in Threads, BuildBindings(t)
  PROVE  Numbered' /\ OneOwner'
<1>1. pc \in [Threads -> PCs] /\ loc \in [Threads -> Locals]
  BY DEF OInv, TInv, TypeOK, ThreadsOK
<1>2. OthersStay(t) /\ UNCHANGED <<replacement, retired, built>>
  BY <1>1 DEF BuildBindings, Locals, InHand, OthersStay, Rec, Goto, Return, StartPublish, TakeSnapshot, globals,
     recordVars, replacementVars
<1>3. InHand(t)' = NoReplacement
  BY <1>1 DEF BuildBindings, Locals, InHand, OthersStay, Rec, Goto, Return, StartPublish, TakeSnapshot, globals,
     recordVars, replacementVars
<1> QED
  BY <1>2, <1>3, QuietStep

LEMMA EnqueueRequestQuiet ==
  ASSUME OInv, NEW t \in Threads, EnqueueRequest(t)
  PROVE  Numbered' /\ OneOwner'
<1>1. pc \in [Threads -> PCs] /\ loc \in [Threads -> Locals]
  BY DEF OInv, TInv, TypeOK, ThreadsOK
<1>2. OthersStay(t) /\ UNCHANGED <<replacement, retired, built>>
  BY <1>1 DEF EnqueueRequest, Locals, InHand, OthersStay, Rec, Goto, Return, StartPublish, TakeSnapshot, globals,
     recordVars, replacementVars
<1>3. InHand(t)' = NoReplacement
  BY <1>1 DEF EnqueueRequest, Locals, InHand, OthersStay, Rec, Goto, Return, StartPublish, TakeSnapshot, globals,
     recordVars, replacementVars
<1> QED
  BY <1>2, <1>3, QuietStep

LEMMA InitPipelineQuiet ==
  ASSUME OInv, NEW t \in Threads, NEW p \in Pipelines, InitPipeline(t, p)
  PROVE  Numbered' /\ OneOwner'
<1>1. pc \in [Threads -> PCs] /\ loc \in [Threads -> Locals]
  BY DEF OInv, TInv, TypeOK, ThreadsOK
<1>2. OthersStay(t) /\ UNCHANGED <<replacement, retired, built>>
  BY <1>1 DEF InitPipeline, InHand, OthersStay, Rec, Goto, Return, StartPublish, TakeSnapshot, globals,
     recordVars, replacementVars
<1>3. InHand(t)' = NoReplacement
  BY <1>1 DEF InitPipeline, InHand, OthersStay, Rec, Goto, Return, StartPublish, TakeSnapshot, globals,
     recordVars, replacementVars
<1> QED
  BY <1>2, <1>3, QuietStep

LEMMA DestroyPipelineQuiet ==
  ASSUME OInv, NEW t \in Threads, NEW p \in Pipelines, DestroyPipeline(t, p)
  PROVE  Numbered' /\ OneOwner'
<1>1. pc \in [Threads -> PCs] /\ loc \in [Threads -> Locals]
  BY DEF OInv, TInv, TypeOK, ThreadsOK
<1>2. OthersStay(t) /\ UNCHANGED <<replacement, retired, built>>
  BY <1>1 DEF DestroyPipeline, InHand, OthersStay, Rec, Goto, Return, StartPublish, TakeSnapshot, globals,
     recordVars, replacementVars
<1>3. InHand(t)' = NoReplacement
  BY <1>1 DEF DestroyPipeline, InHand, OthersStay, Rec, Goto, Return, StartPublish, TakeSnapshot, globals,
     recordVars, replacementVars
<1> QED
  BY <1>2, <1>3, QuietStep

LEMMA NewRecipesQuiet ==
  ASSUME OInv, NEW t \in Threads, NEW reload \in BOOLEAN, NewRecipes(t, reload)
  PROVE  Numbered' /\ OneOwner'
<1>1. pc \in [Threads -> PCs] /\ loc \in [Threads -> Locals]
  BY DEF OInv, TInv, TypeOK, ThreadsOK
<1>2. OthersStay(t) /\ UNCHANGED <<replacement, retired, built>>
  BY <1>1 DEF NewRecipes, InHand, OthersStay, Rec, Goto, Return, StartPublish, TakeSnapshot, globals,
     recordVars, replacementVars
<1>3. InHand(t)' = NoReplacement
  BY <1>1 DEF NewRecipes, InHand, OthersStay, Rec, Goto, Return, StartPublish, TakeSnapshot, globals,
     recordVars, replacementVars
<1> QED
  BY <1>2, <1>3, QuietStep

LEMMA PublishOwnersQuiet ==
  ASSUME OInv, NEW t \in Threads, PublishOwners(t)
  PROVE  Numbered' /\ OneOwner'
<1>1. pc \in [Threads -> PCs] /\ loc \in [Threads -> Locals]
  BY DEF OInv, TInv, TypeOK, ThreadsOK
<1>2. OthersStay(t) /\ UNCHANGED <<replacement, retired, built>>
  BY <1>1 DEF PublishOwners, InHand, OthersStay, Rec, Goto, Return, StartPublish, TakeSnapshot, globals,
     recordVars, replacementVars
<1>3. InHand(t)' = InHand(t) /\ Rec(t)' = Rec(t)
  BY <1>1 DEF PublishOwners, InHand, OthersStay, Rec, Goto, Return, StartPublish, TakeSnapshot, globals,
     recordVars, replacementVars
<1> QED
  BY <1>2, <1>3, QuietStep

-----------------------------------------------------------------------------
(* The steps that move a replacement                                        *)

(* A Publish retires what it holds.                                         *)
LEMMA RetireHand ==
  ASSUME OInv, NEW t \in Threads, OthersStay(t), UNCHANGED <<replacement, built>>,
         Retire(InHand(t)), InHand(t)' = NoReplacement
  PROVE  Numbered' /\ OneOwner'
<1>1. CASE InHand(t) = NoReplacement
  BY <1>1, QuietStep DEF Retire
<1>2. CASE InHand(t) # NoReplacement
  <2>1. InHand(t) \in Replacements /\ retired' = retired \cup {InHand(t)}
    BY <1>2, InHandType DEF OInv, Retire, OptionalReplacement
  <2>2. InHand(t).n <= built[InHand(t).rec]
    BY <2>1 DEF OInv, Numbered
  <2>3. Numbered'
    BY <2>1, <2>2, NoReplacementIsNone DEF OInv, Numbered, OthersStay
  <2>4. OneOwner'
    BY <2>1, NoReplacementIsNone DEF OInv, OneOwner, OthersStay
  <2> QED
    BY <2>3, <2>4
<1> QED
  BY <1>1, <1>2

LEMMA PublishCheckOwner ==
  ASSUME OInv, NEW t \in Threads, PublishCheck(t)
  PROVE  Numbered' /\ OneOwner'
<1>1. pc \in [Threads -> PCs] /\ loc \in [Threads -> Locals]
  BY DEF OInv, TInv, TypeOK, ThreadsOK
<1>2. OthersStay(t) /\ UNCHANGED <<replacement, built>>
  BY <1>1 DEF PublishCheck, InHand, OthersStay, Rec, Goto, Return, recordVars
<1>3. CASE requested[Rec(t)] # Gen(t) \/ status[Rec(t)] = "destroyed"
  <2>1. Retire(InHand(t)) /\ InHand(t)' = NoReplacement
    BY <1>1, <1>3 DEF PublishCheck, InHand, Goto, Return
  <2> QED
    BY <1>2, <2>1, RetireHand
<1>4. CASE ~ (requested[Rec(t)] # Gen(t) \/ status[Rec(t)] = "destroyed")
  <2>1. UNCHANGED retired /\ InHand(t)' = InHand(t) /\ Rec(t)' = Rec(t)
    BY <1>1, <1>4 DEF PublishCheck, InHand, Goto, Rec
  <2> QED
    BY <1>2, <2>1, QuietStep
<1> QED
  BY <1>3, <1>4

LEMMA PublishStatusOwner ==
  ASSUME OInv, NEW t \in Threads, PublishStatus(t)
  PROVE  Numbered' /\ OneOwner'
<1>1. pc \in [Threads -> PCs] /\ loc \in [Threads -> Locals]
  BY DEF OInv, TInv, TypeOK, ThreadsOK
<1>2. OthersStay(t) /\ UNCHANGED <<replacement, built>>
  BY <1>1 DEF PublishStatus, InHand, OthersStay, Rec, Goto, Return
<1>3. Retire(InHand(t)) /\ InHand(t)' = NoReplacement
  BY <1>1 DEF PublishStatus, InHand, Goto, Return
<1> QED
  BY <1>2, <1>3, RetireHand

(* The exchange: what the Publish held is published, what was published is  *)
(* in its hands.                                                            *)
LEMMA PublishSwapOwner ==
  ASSUME OInv, NEW t \in Threads, PublishSwap(t)
  PROVE  Numbered' /\ OneOwner'
<1>1. /\ pc \in [Threads -> PCs] /\ loc \in [Threads -> Locals]
      /\ replacement \in [Pipelines -> OptionalReplacement]
      /\ Rec(t) \in Pipelines
  BY DEF OInv, TInv, TypeOK, ThreadsOK, GlobalsOK, Control, ControlAt, PublishSwap, PublishPCs, Rec
<1>2. OthersStay(t) /\ UNCHANGED <<retired, built>>
  BY <1>1 DEF PublishSwap, InHand, OthersStay, Rec, Goto, replacementVars
<1>3. /\ replacement' = [replacement EXCEPT ![Rec(t)] = InHand(t)]
      /\ InHand(t)' = replacement[Rec(t)]
      /\ Rec(t)' = Rec(t)
  BY <1>1 DEF PublishSwap, InHand, Rec, Goto, Locals
<1>4. Numbered'
  BY <1>1, <1>2, <1>3 DEF OInv, Numbered, OthersStay
<1>5. \A p \in Pipelines : p # Rec(t) => replacement[p] # replacement[Rec(t)]
                                          \/ replacement[p] = NoReplacement
  BY <1>1 DEF OInv, Numbered, OptionalReplacement
<1>6. \A p \in Pipelines : replacement'[p] \notin retired'
  <2>1. InHand(t) \notin retired
    BY NoReplacementIsNone, InHandType
       DEF OInv, OneOwner, TInv, TypeOK, GlobalsOK, OptionalReplacement
  <2> QED
    BY <1>1, <1>2, <1>3, <2>1 DEF OInv, OneOwner
<1>7. ASSUME NEW u \in Threads, InHand(u)' \in Replacements
      PROVE  /\ InHand(u)' \notin retired'
             /\ \A p \in Pipelines : replacement'[p] # InHand(u)'
             /\ \A v \in Threads \ {u} : InHand(v)' # InHand(u)'
  <2>1. CASE u = t
    BY <1>1, <1>2, <1>3, <1>5, <1>7, <2>1, NoReplacementIsNone DEF OInv, OneOwner, OthersStay
  <2>2. CASE u # t
    BY <1>1, <1>2, <1>3, <1>7, <2>2, NoReplacementIsNone DEF OInv, OneOwner, OthersStay
  <2> QED
    BY <2>1, <2>2
<1>8. OneOwner'
  BY <1>6, <1>7 DEF OneOwner
<1> QED
  BY <1>4, <1>8

(* A new replacement has a number no other one has.                         *)
LEMMA CreateReplacementOwner ==
  ASSUME OInv, NEW t \in Threads, CreateReplacement(t)
  PROVE  Numbered' /\ OneOwner'
<1>1. /\ pc \in [Threads -> PCs] /\ loc \in [Threads -> Locals]
      /\ built \in [Pipelines -> Nat]
      /\ replacement \in [Pipelines -> OptionalReplacement]
      /\ retired \subseteq Replacements
      /\ Rec(t) \in Pipelines
  BY DEF OInv, TInv, TypeOK, ThreadsOK, GlobalsOK, Control, ControlAt, CreateReplacement,
     WorkerPCs, Rec
<1>2. OthersStay(t) /\ UNCHANGED <<replacement, retired>> /\ Rec(t)' = Rec(t)
  <2>1. UNCHANGED <<replacement, retired>>
    BY DEF CreateReplacement, recordVars
  <2>2. PICK repl, result : StartPublish(t, repl, result)
    BY DEF CreateReplacement
  <2>3. /\ \A u \in Threads \ {t} : pc'[u] = pc[u] /\ loc'[u] = loc[u]
        /\ loc'[t].rec = loc[t].rec
    BY <1>1, <2>2 DEF StartPublish, Goto, Locals
  <2>4. OthersStay(t)
    BY <2>3 DEF InHand, OthersStay, Rec
  <2> QED
    BY <2>1, <2>3, <2>4 DEF Rec
<1>3. CASE Effect[Rec(t)][Gen(t)] = "rejected"
  <2>1. UNCHANGED built /\ InHand(t)' = NoReplacement
    BY <1>1, <1>3 DEF CreateReplacement, StartPublish, InHand, Goto, Locals
  <2> QED
    BY <1>2, <2>1, QuietStep
<1>4. CASE Effect[Rec(t)][Gen(t)] # "rejected"
  <2> DEFINE n == built[Rec(t)] + 1
             r == [rec |-> Rec(t), gen |-> Gen(t), res |-> loc[t].res, n |-> n]
  <2>1. built' = [built EXCEPT ![Rec(t)] = n] /\ InHand(t)' = r
    BY <1>1, <1>4 DEF CreateReplacement, StartPublish, InHand, Goto, Locals
  <2>2. r.rec = Rec(t) /\ r.n = n
    OBVIOUS
  <2> HIDE DEF r
  <2>3. \A p \in Pipelines : built[p] \in Nat /\ built'[p] \in Nat /\ built[p] <= built'[p]
    BY <1>1, <2>1
  <2>4. \A x \in Replacements : x.rec \in Pipelines /\ x.n \in Nat
    BY DEF Replacements
  <2>5. built'[Rec(t)] = n /\ n \in Nat
    BY <1>1, <2>1
  <2> HIDE DEF n
  <2>6. Numbered'
    <3>1. ASSUME NEW p \in Pipelines, replacement'[p] \in Replacements
          PROVE  replacement'[p].rec = p /\ replacement'[p].n <= built'[p]
      BY <1>2, <2>3, <2>4, <3>1 DEF OInv, Numbered
    <3>2. ASSUME NEW x \in retired' PROVE x.n <= built'[x.rec]
      BY <1>1, <1>2, <2>3, <2>4 DEF OInv, Numbered
    <3>3. ASSUME NEW u \in Threads, InHand(u)' \in Replacements
          PROVE  InHand(u)'.rec = Rec(u)' /\ InHand(u)'.n <= built'[Rec(u)']
      <4>1. CASE u = t
        BY <1>2, <2>1, <2>2, <2>5, <4>1
      <4>2. CASE u # t
        BY <1>2, <2>3, <2>4, <3>3, <4>2 DEF OInv, Numbered, OthersStay
      <4> QED
        BY <4>1, <4>2
    <3> QED
      BY <3>1, <3>2, <3>3 DEF Numbered
  <2>7. ASSUME NEW x \in Replacements, x.n <= built[x.rec] PROVE x # r
    BY <1>1, <2>2, <2>4, <2>7 DEF n
  <2>8. OneOwner'
    <3>1. r \notin retired
      BY <1>1, <2>7 DEF OInv, Numbered
    <3>2. \A p \in Pipelines : replacement[p] # r \/ replacement[p] = NoReplacement
      BY <1>1, <2>7 DEF OInv, Numbered, OptionalReplacement
    <3>3. \A u \in Threads \ {t} : InHand(u) # r \/ InHand(u) = NoReplacement
      BY <2>7, InHandType DEF OInv, Numbered, OptionalReplacement
    <3> QED
      BY <1>2, <2>1, <3>1, <3>2, <3>3, NoReplacementIsNone DEF OInv, OneOwner, OthersStay
  <2> QED
    BY <2>6, <2>8
<1> QED
  BY <1>3, <1>4

(* The destruction of a pipeline retires what its record held.              *)
LEMMA DestroySwapOwner ==
  ASSUME OInv, NEW t \in Threads, DestroySwap(t)
  PROVE  Numbered' /\ OneOwner'
<1>1. /\ pc \in [Threads -> PCs] /\ loc \in [Threads -> Locals]
      /\ replacement \in [Pipelines -> OptionalReplacement]
      /\ Rec(t) \in Pipelines
  BY DEF OInv, TInv, TypeOK, ThreadsOK, GlobalsOK, Control, ControlAt, DestroySwap, Rec
<1> DEFINE r == replacement[Rec(t)]
<1>2. OthersStay(t) /\ UNCHANGED built
  BY <1>1 DEF DestroySwap, InHand, OthersStay, Rec, Goto, Return
<1>3. InHand(t) = NoReplacement /\ InHand(t)' = NoReplacement
  BY <1>1 DEF DestroySwap, InHand, Goto, Return
<1>4. /\ replacement' = [replacement EXCEPT ![Rec(t)] = NoReplacement]
      /\ retired' = retired \cup ({r} \ {NoReplacement})
      /\ r \in OptionalReplacement
  BY <1>1 DEF DestroySwap, Retire
<1>5. r \in Replacements => r.rec = Rec(t) /\ r.n <= built[Rec(t)]
  BY <1>1 DEF OInv, Numbered
<1> HIDE DEF r
<1>6. Numbered'
  BY <1>1, <1>2, <1>3, <1>4, <1>5, NoReplacementIsNone
     DEF OInv, Numbered, OthersStay, OptionalReplacement
<1>7. \A p \in Pipelines : p # Rec(t) => replacement[p] # r \/ replacement[p] = NoReplacement
  BY <1>1 DEF OInv, Numbered, OptionalReplacement, r
<1>8. \A u \in Threads : InHand(u) \in Replacements => InHand(u) # r
  BY <1>1 DEF OInv, OneOwner, r
<1>9. NoReplacement \notin retired'
  BY <1>4, NoReplacementIsNone DEF OInv, TInv, TypeOK, GlobalsOK
<1>10. OneOwner'
  BY <1>1, <1>2, <1>3, <1>4, <1>7, <1>8, <1>9, NoReplacementIsNone DEF OInv, OneOwner, OthersStay
<1> QED
  BY <1>6, <1>10

-----------------------------------------------------------------------------
LEMMA InitOwner == Init => OInv
<1> SUFFICES ASSUME Init PROVE OInv
  OBVIOUS
<1>1. \A t \in Threads : InHand(t) = NoReplacement
  BY DEF Init, InHand
<1>2. Numbered /\ OneOwner
  BY <1>1, NoReplacementIsNone DEF Init, Numbered, OneOwner
<1> QED
  BY <1>2, InitType DEF OInv

LEMMA NextOwner == OInv /\ [Next]_vars => OInv'
<1> SUFFICES ASSUME OInv, [Next]_vars PROVE Numbered' /\ OneOwner'
  BY NextType DEF OInv
<1>0. ASSUME NEW t \in Threads, PublishStep(t) PROVE Numbered' /\ OneOwner'
  BY <1>0, PublishCheckOwner, PublishSwapOwner, PublishOwnersQuiet, PublishStatusOwner
     DEF PublishStep
<1>1. ASSUME NEW t \in Workers, WorkerStep(t) PROVE Numbered' /\ OneOwner'
  BY <1>0, <1>1, TakeJobQuiet, CheckJobQuiet, PatchJobQuiet, BuildBindingsQuiet,
     CreateReplacementOwner DEF WorkerStep, Threads
<1>2. ASSUME NEW t \in Callers, CallStep(t) PROVE Numbered' /\ OneOwner'
  <2>1. CASE EnqueueRequest(t) \/ EnqueueMark(t) \/ EnqueuePush(t) \/ RepatchNext(t) \/ PublishStep(t)
    BY <1>0, <2>1, EnqueueRequestQuiet, EnqueueMarkQuiet, EnqueuePushQuiet, RepatchNextQuiet
       DEF Threads
  <2>2. CASE InitCount(t) \/ InitRecipes(t) \/ DestroyMark(t) \/ DestroySwap(t)
    BY <2>2, InitCountQuiet, InitRecipesQuiet, DestroyMarkQuiet, DestroySwapOwner DEF Threads
  <2>3. CASE StoreRecipes(t) \/ ReloadResources(t) \/ RepatchSnapshot(t)
    BY <2>3, StoreRecipesQuiet, ReloadResourcesQuiet, RepatchSnapshotQuiet DEF Threads
  <2>4. CASE LoadFirst(t) \/ LoadSwap(t) \/ LoadRecipes(t) \/ LoadSnapshot(t)
    BY <2>4, LoadFirstQuiet, LoadSwapQuiet, LoadRecipesQuiet, LoadSnapshotQuiet DEF Threads
  <2> QED
    BY <1>2, <2>1, <2>2, <2>3, <2>4 DEF CallStep
<1>3. ASSUME NEW t \in Creators, NEW p \in Pipelines, InitPipeline(t, p) \/ DestroyPipeline(t, p)
      PROVE  Numbered' /\ OneOwner'
  BY <1>3, InitPipelineQuiet, DestroyPipelineQuiet DEF Threads, Callers
<1>4. ASSUME NEW t \in Overlays, ApplyEnvOverrides(t) \/ ReloadAll(t)
      PROVE  Numbered' /\ OneOwner'
  BY <1>4, NewRecipesQuiet DEF ApplyEnvOverrides, ReloadAll, Threads, Callers
<1>5. ASSUME NEW t \in Loaders, LoadBegin(t) PROVE Numbered' /\ OneOwner'
  BY <1>5, LoadBeginQuiet DEF Threads, Callers
<1>6. CASE UNCHANGED vars
  <2>1. \A t \in Threads : InHand(t)' = InHand(t) /\ Rec(t)' = Rec(t)
    BY <1>6 DEF vars, InHand, Rec
  <2> QED
    BY <1>6, <2>1 DEF vars, globals, recordVars, replacementVars, OInv, Numbered, OneOwner
<1> QED
  BY <1>1, <1>2, <1>3, <1>4, <1>5, <1>6 DEF Next

(* A replacement has one owner: what a bind can pick up is never in the     *)
(* retire queue and nothing is retired twice, whatever the number of        *)
(* workers, callers, pipelines and reloads.                                 *)
THEOREM OneOwnerHolds == Spec => []OneOwner
<1>1. OInv => OneOwner
  BY DEF OInv
<1> QED
  BY <1>1, InitOwner, NextOwner, PTL DEF Spec

-----------------------------------------------------------------------------
(* The books: counters, and replacements that were built.                   *)

(* The records of a set that have a status.                                 *)
With(records, st, c) == {q \in records : st[q] = c}

Having(c) == With(created, status, c)
Uncounted == {t \in Creators : pc[t] = "init_count"}

(* Threads and jobs know only records that were created, and only           *)
(* OnDestroyPipeline makes a record destroyed.                              *)
ThreadsMade ==
  \A t \in Threads :
    /\ Rec(t) \in created \cup {NoPipeline} /\ todo[t] \subseteq created
    /\ loc[t].to # "destroyed"
    /\ pc[t] = "init_count" => t \in Creators

QueueMade == \A i \in 1..Len(queue) : queue[i].rec \in created

RecordsMade == \A p \in Pipelines \ created : status[p] = "pending"

Made == ThreadsMade /\ QueueMade /\ RecordsMade

(* CountsExact, with the sets it counts.                                    *)
Tallied ==
  /\ IsFiniteSet(created) /\ IsFiniteSet(Uncounted)
  /\ counts["destroyed"] = 0
  /\ \A s \in RecordStatus \ {"destroyed"} :
       counts[s] = Cardinality(Having(s)) - (IF s = "pending" THEN Cardinality(Uncounted) ELSE 0)

-----------------------------------------------------------------------------
(* What threads and jobs know was created.                                  *)

(* A step of thread t to new locals.                                        *)
LEMMA LocalsMade ==
  ASSUME TInv, ThreadsMade, NEW t \in Threads, created \subseteq created',
         NEW l \in Locals, loc' = [loc EXCEPT ![t] = l],
         l.rec \in created' \cup {NoPipeline}, l.to # "destroyed",
         NEW label, pc' = [pc EXCEPT ![t] = label], label = "init_count" => t \in Creators,
         NEW records, todo' = [todo EXCEPT ![t] = records], records \subseteq created'
  PROVE  ThreadsMade'
BY DEF ThreadsMade, TInv, TypeOK, ThreadsOK, Rec

(* A thread that returns has no record.                                    *)
LEMMA ReturnMade ==
  ASSUME TInv, ThreadsMade, NEW t \in Threads, created \subseteq created',
         Return(t), UNCHANGED todo
  PROVE  ThreadsMade'
BY DEF ThreadsMade, TInv, TypeOK, ThreadsOK, Return, Goto, Rec, LocalsOf, NoLocals

(* A thread that starts a Publish has its record.                          *)
LEMMA StartPublishMade ==
  ASSUME TInv, ThreadsMade, NEW t \in Threads, created \subseteq created', UNCHANGED todo,
         NEW r, NEW s, s # "destroyed", StartPublish(t, r, s)
  PROVE  ThreadsMade'
BY DEF ThreadsMade, TInv, TypeOK, ThreadsOK, StartPublish, Goto, Rec, Locals

(* A step of thread t that keeps its record and its list.                   *)
LEMMA GotoMade ==
  ASSUME TInv, ThreadsMade, NEW t \in Threads, created \subseteq created',
         NEW label, label # "init_count", Goto(t, label), UNCHANGED <<loc, todo>>
  PROVE  ThreadsMade'
BY DEF ThreadsMade, TInv, TypeOK, ThreadsOK, Goto, Rec

(* A snapshot is of records that exist.                                    *)
LEMMA TakeSnapshotMade ==
  ASSUME TInv, ThreadsMade, NEW t \in Threads, UNCHANGED created,
         NEW records \in SUBSET created, TakeSnapshot(t, records)
  PROVE  ThreadsMade'
BY DEF ThreadsMade, TInv, TypeOK, ThreadsOK, TakeSnapshot, Goto, Rec, LocalsOf, NoLocals

(* Publish.                                                                *)
LEMMA PublishMade ==
  ASSUME TInv, ThreadsMade, NEW t \in Threads, PublishStep(t)
  PROVE  ThreadsMade'
<1>1. UNCHANGED <<created, todo>>
  BY DEF PublishStep, PublishCheck, PublishSwap, PublishOwners, PublishStatus, mapVars
<1>2. CASE PublishCheck(t)
  BY <1>1, <1>2, ReturnMade, GotoMade DEF PublishCheck
<1>3. CASE PublishSwap(t)
  BY <1>1, <1>3 DEF PublishSwap, ThreadsMade, TInv, TypeOK, ThreadsOK, Goto, Rec, Locals
<1>4. CASE PublishOwners(t)
  BY <1>1, <1>4, GotoMade DEF PublishOwners
<1>5. CASE PublishStatus(t)
  BY <1>1, <1>5, ReturnMade DEF PublishStatus
<1> QED
  BY <1>2, <1>3, <1>4, <1>5 DEF PublishStep

(* A worker.                                                               *)
LEMMA WorkerMade ==
  ASSUME TInv, ThreadsMade, QueueMade, NEW w \in Workers, WorkerStep(w)
  PROVE  ThreadsMade'
<1>0. w \in Threads
  BY DEF Threads
<1>1. CASE TakeJob(w)
  <2>1. /\ queue \in Seq(Jobs) /\ queue # <<>> /\ Head(queue).rec \in created
        /\ loc \in [Threads -> Locals] /\ todo \in [Threads -> SUBSET Pipelines]
    BY <1>1 DEF TakeJob, TInv, TypeOK, GlobalsOK, ThreadsOK, QueueMade
  <2>2. /\ loc' = [loc EXCEPT ![w] = [@ EXCEPT !.call = "job", !.rec = Head(queue).rec,
                                               !.gen = Head(queue).gen]]
        /\ Goto(w, "check") /\ UNCHANGED <<created, todo>>
    BY <1>1 DEF TakeJob, mapVars
  <2> QED
    BY <1>0, <2>1, <2>2 DEF ThreadsMade, TInv, TypeOK, ThreadsOK, Goto, Rec, Locals
<1>2. CASE CheckJob(w)
  BY <1>0, <1>2, ReturnMade, GotoMade DEF CheckJob, globals, mapVars
<1>3. CASE PatchJob(w)
  BY <1>0, <1>3, ReturnMade, GotoMade, StartPublishMade DEF PatchJob, globals, mapVars
<1>4. CASE BuildBindings(w)
  <2>1. UNCHANGED <<created, todo>>
    BY <1>4 DEF BuildBindings, globals, mapVars
  <2>2. CASE Goto(w, "create") /\ loc' = [loc EXCEPT ![w].res = resources]
    BY <1>0, <2>1, <2>2 DEF ThreadsMade, TInv, TypeOK, ThreadsOK, Goto, Rec, Locals
  <2> QED
    BY <1>0, <1>4, <2>1, <2>2, StartPublishMade DEF BuildBindings
<1>5. CASE CreateReplacement(w)
  BY <1>0, <1>5, StartPublishMade DEF CreateReplacement, mapVars
<1>6. CASE PublishStep(w)
  BY <1>0, <1>6, PublishMade
<1> QED
  BY <1>1, <1>2, <1>3, <1>4, <1>5, <1>6 DEF WorkerStep

(* A call from outside.                                                    *)
LEMMA CallMade ==
  ASSUME TInv, ThreadsMade, NEW t \in Callers, CallStep(t)
  PROVE  ThreadsMade'
<1>0. t \in Threads
  BY DEF Threads
<1>1. CASE EnqueueRequest(t)
  BY <1>0, <1>1, StartPublishMade, GotoMade DEF EnqueueRequest, mapVars
<1>2. CASE EnqueueMark(t) \/ InitCount(t) \/ DestroyMark(t) \/ ReloadResources(t)
  BY <1>0, <1>2, GotoMade DEF EnqueueMark, InitCount, DestroyMark, ReloadResources,
     mapVars
<1>3. CASE EnqueuePush(t) \/ DestroySwap(t)
  BY <1>0, <1>3, ReturnMade DEF EnqueuePush, DestroySwap, mapVars
<1>4. CASE RepatchNext(t)
  BY <1>0, <1>4 DEF RepatchNext, ThreadsMade, TInv, TypeOK, ThreadsOK, Goto, Rec,
     Locals, globals, mapVars
<1>5. CASE InitRecipes(t) \/ LoadFirst(t) \/ LoadRecipes(t)
  BY <1>0, <1>5 DEF InitRecipes, LoadFirst, LoadRecipes, ThreadsMade, TInv, TypeOK,
     ThreadsOK, Goto, Rec, Locals, globals, mapVars
<1>6. CASE StoreRecipes(t)
  <2>1. PICK label \in {"reload_resources", "snapshot"} : Goto(t, label)
    BY <1>6 DEF StoreRecipes
  <2> QED
    BY <1>0, <1>6, <2>1, GotoMade DEF StoreRecipes, mapVars
<1>7. CASE RepatchSnapshot(t) \/ LoadSnapshot(t)
  <2>1. PICK records \in SUBSET created : TakeSnapshot(t, records)
    BY <1>7 DEF RepatchSnapshot, LoadSnapshot, TInv, TypeOK, GlobalsOK
  <2> QED
    BY <1>0, <1>7, <2>1, TakeSnapshotMade DEF RepatchSnapshot, LoadSnapshot, globals,
       mapVars
<1>8. CASE LoadSwap(t)
  BY <1>0, <1>8, GotoMade DEF LoadSwap, ThreadsMade, TInv, TypeOK, ThreadsOK, Goto,
     Rec, LocalsOf, NoLocals, mapVars
<1>9. CASE PublishStep(t)
  BY <1>0, <1>9, PublishMade
<1> QED
  BY <1>1, <1>2, <1>3, <1>4, <1>5, <1>6, <1>7, <1>8, <1>9 DEF CallStep

(* Every step keeps what threads know.                                     *)
LEMMA NextThreadsMade ==
  ASSUME TInv, ThreadsMade, QueueMade, [Next]_vars
  PROVE  ThreadsMade'
<1>1. ASSUME NEW t \in Creators, NEW p \in Pipelines, InitPipeline(t, p) \/ DestroyPipeline(t, p)
      PROVE  ThreadsMade'
  <2>0. /\ t \in Threads /\ loc \in [Threads -> Locals] /\ pipelines \subseteq created /\ UNCHANGED todo
    BY <1>1 DEF InitPipeline, DestroyPipeline, TInv, TypeOK, GlobalsOK, ThreadsOK,
       Threads, Callers
  <2>1. CASE InitPipeline(t, p)
    <3>1. /\ loc' = [loc EXCEPT ![t] = [@ EXCEPT !.call = "init", !.rec = p]]
          /\ Goto(t, "init_count") /\ created' = created \cup {p}
      BY <2>1 DEF InitPipeline
    <3> QED
      BY <2>0, <3>1 DEF ThreadsMade, TInv, TypeOK, ThreadsOK, Goto, Rec, Locals
  <2>2. CASE DestroyPipeline(t, p)
    <3>1. /\ loc' = [loc EXCEPT ![t] = [@ EXCEPT !.call = "destroy", !.rec = p]]
          /\ Goto(t, "destroy_mark") /\ created' = created /\ p \in created
      BY <2>0, <2>2 DEF DestroyPipeline
    <3> QED
      BY <2>0, <3>1 DEF ThreadsMade, TInv, TypeOK, ThreadsOK, Goto, Rec, Locals
  <2> QED
    BY <1>1, <2>1, <2>2
<1>2. ASSUME NEW t \in Overlays, NEW reload \in BOOLEAN, NewRecipes(t, reload)
      PROVE  ThreadsMade'
  BY <1>2 DEF NewRecipes, ThreadsMade, TInv, TypeOK, ThreadsOK, Goto, Rec, Locals,
     Threads, Callers, mapVars
<1>3. ASSUME NEW t \in Loaders, LoadBegin(t)
      PROVE  ThreadsMade'
  BY <1>3 DEF LoadBegin, ThreadsMade, TInv, TypeOK, ThreadsOK, Goto, Rec, Locals,
     Threads, Callers, mapVars
<1>4. CASE UNCHANGED vars
  BY <1>4 DEF vars, globals, mapVars, ThreadsMade, Rec
<1> QED
  BY <1>1, <1>2, <1>3, <1>4, WorkerMade, CallMade DEF Next, ReloadAll, ApplyEnvOverrides

(* Only TakeJob and EnqueuePush change the queue, and no record is          *)
(* forgotten.                                                               *)
LEMMA NextQueueMade ==
  ASSUME TInv, ThreadsMade, QueueMade, [Next]_vars
  PROVE  QueueMade'
<1>0. queue \in Seq(Jobs)
  BY DEF TInv, TypeOK, GlobalsOK
<1>1. ASSUME NEW w \in Workers, TakeJob(w) PROVE QueueMade'
  BY <1>0, <1>1 DEF TakeJob, QueueMade, mapVars
<1>2. ASSUME NEW t \in Callers, EnqueuePush(t) PROVE QueueMade'
  <2>1. Rec(t) \in Pipelines /\ Rec(t) \in created
    BY <1>2, ConstantsAssumption
       DEF EnqueuePush, TInv, Control, ControlAt, EnqueuePCs, ThreadsMade, Threads, Rec
  <2> QED
    BY <1>0, <1>2, <2>1 DEF EnqueuePush, QueueMade, mapVars
<1>3. CASE UNCHANGED queue /\ created \subseteq created'
  BY <1>3 DEF QueueMade
<1>4. \/ \E w \in Workers : TakeJob(w)
      \/ \E t \in Callers : EnqueuePush(t)
      \/ UNCHANGED queue /\ created \subseteq created'
  BY DEF Next, WorkerStep, CallStep, PublishStep, PublishCheck, PublishSwap,
     PublishOwners, PublishStatus, CheckJob, PatchJob, BuildBindings,
     CreateReplacement, EnqueueRequest, EnqueueMark, RepatchNext, InitCount,
     InitRecipes, DestroyMark, DestroySwap, StoreRecipes, ReloadResources,
     RepatchSnapshot, LoadFirst, LoadSwap, LoadRecipes, LoadSnapshot, LoadBegin,
     InitPipeline, DestroyPipeline, NewRecipes, ReloadAll, ApplyEnvOverrides, vars,
     globals, mapVars
<1> QED
  BY <1>1, <1>2, <1>3, <1>4

(* The record a thread sets the status of was created.                      *)
LEMMA StatusSetMade ==
  ASSUME TInv, ThreadsMade, NEW t \in Threads,
         pc[t] \in {"pub_status", "mark", "destroy_mark"}
  PROVE  Rec(t) \in created
BY ConstantsAssumption
   DEF TInv, Control, ControlAt, EnqueuePCs, PublishPCs, ThreadsMade, Rec

(* A record that was not created has no status yet.                        *)
LEMMA NextRecordsMade ==
  ASSUME TInv, ThreadsMade, RecordsMade, [Next]_vars
  PROVE  RecordsMade'
<1>0. status \in [Pipelines -> RecordStatus]
  BY DEF TInv, TypeOK, GlobalsOK
<1>1. ASSUME NEW t \in Threads, PublishStatus(t) \/ EnqueueMark(t) \/ DestroyMark(t)
      PROVE  RecordsMade'
  <2>1. Rec(t) \in created
    BY <1>1, StatusSetMade DEF PublishStatus, EnqueueMark, DestroyMark
  <2> QED
    BY <1>0, <1>1, <2>1 DEF PublishStatus, EnqueueMark, DestroyMark, SetStatus,
       RecordsMade, mapVars
<1>2. CASE UNCHANGED status /\ created \subseteq created'
  BY <1>2 DEF RecordsMade
<1>3. \/ \E t \in Threads : PublishStatus(t) \/ EnqueueMark(t) \/ DestroyMark(t)
      \/ UNCHANGED status /\ created \subseteq created'
  BY DEF Next, WorkerStep, CallStep, PublishStep, Threads, PublishCheck, PublishSwap,
     PublishOwners, TakeJob, CheckJob, PatchJob, BuildBindings, CreateReplacement,
     EnqueueRequest, EnqueuePush, RepatchNext, InitCount, InitRecipes, DestroySwap,
     StoreRecipes, ReloadResources, RepatchSnapshot, LoadFirst, LoadSwap, LoadRecipes,
     LoadSnapshot, LoadBegin, InitPipeline, DestroyPipeline, NewRecipes, ReloadAll,
     ApplyEnvOverrides, vars, globals, mapVars, recordVars
<1> QED
  BY <1>1, <1>2, <1>3

(* Every step keeps it all.                                                *)
LEMMA NextMade ==
  ASSUME TInv, Made, [Next]_vars
  PROVE  Made'
BY NextThreadsMade, NextQueueMade, NextRecordsMade DEF Made

(* At the start nothing is known.                                          *)
LEMMA InitMade == Init => Made
BY DEF Init, Made, ThreadsMade, QueueMade, RecordsMade, Rec, NoLocals, LocalsOf, Threads

-----------------------------------------------------------------------------
(* The counters.                                                            *)

(* A counter of the overlay is an integer.                                 *)
LEMMA CountsAreNat ==
  ASSUME Tallied
  PROVE  /\ \A s : IsFiniteSet(Having(s)) /\ Cardinality(Having(s)) \in Nat
         /\ Cardinality(Uncounted) \in Nat
BY FS_Subset, FS_CardinalityType DEF Tallied, Having, With

(* One record changes its status.                                           *)
LEMMA Recount ==
  ASSUME NEW records, IsFiniteSet(records), NEW p \in records, NEW s, NEW c,
         NEW st, NEW st2, st2[p] = s, \A q \in records \ {p} : st2[q] = st[q]
  PROVE  /\ Cardinality(With(records, st, c)) \in Nat
         /\ Cardinality(With(records, st2, c)) =
              Cardinality(With(records, st, c)) + (IF c = s THEN 1 ELSE 0)
                                                       - (IF c = st[p] THEN 1 ELSE 0)
<1> DEFINE A == With(records, st, c)
           B == With(records, st2, c)
<1>0. IsFiniteSet(A) /\ Cardinality(A) \in Nat
  BY FS_Subset, FS_CardinalityType DEF With
<1>1. CASE c = s /\ c = st[p]
  <2>1. B = A
    BY <1>1 DEF With
  <2> QED
    BY <1>0, <1>1, <2>1
<1>2. CASE c = s /\ c # st[p]
  <2>1. B = A \cup {p} /\ p \notin A
    BY <1>2 DEF With
  <2> HIDE DEF A, B
  <2>2. Cardinality(A \cup {p}) = Cardinality(A) + 1
    BY <1>0, <2>1, FS_AddElement
  <2>3. Cardinality(B) = Cardinality(A) + 1 - 0
    BY <1>0, <2>1, <2>2
  <2> QED
    BY <1>0, <1>2, <2>3 DEF A, B
<1>3. CASE c # s /\ c = st[p]
  <2>1. B = A \ {p} /\ p \in A
    BY <1>3 DEF With
  <2> HIDE DEF A, B
  <2>2. Cardinality(A \ {p}) = Cardinality(A) - 1
    BY <1>0, <2>1, FS_RemoveElement
  <2>3. Cardinality(B) = Cardinality(A) + 0 - 1
    BY <1>0, <2>1, <2>2
  <2> QED
    BY <1>0, <1>3, <2>3 DEF A, B
<1>4. CASE c # s /\ c # st[p]
  <2>1. B = A
    BY <1>4 DEF With
  <2> QED
    BY <1>0, <1>4, <2>1
<1> QED
  BY <1>1, <1>2, <1>3, <1>4

(* SetStatus of a record moves it from one counter to another.              *)
LEMMA SetStatusTallied ==
  ASSUME TInv, Tallied, NEW p \in created, NEW s \in RecordStatus \ {"destroyed"},
         SetStatus(p, s), UNCHANGED <<created, Uncounted>>
  PROVE  Tallied'
<1>0. /\ created \subseteq Pipelines /\ status \in [Pipelines -> RecordStatus]
      /\ counts \in [RecordStatus -> Int] /\ created' = created
  BY DEF TInv, TypeOK, GlobalsOK
<1>1. CASE status[p] = "destroyed"
  BY <1>1 DEF SetStatus, Tallied, Having
<1>2. CASE status[p] # "destroyed"
  <2>1. /\ status' = [status EXCEPT ![p] = s]
        /\ counts' = [c \in RecordStatus |-> counts[c] + (IF c = s THEN 1 ELSE 0)
                                                       - (IF c = status[p] THEN 1 ELSE 0)]
    BY <1>2 DEF SetStatus
  <2>2. counts'["destroyed"] = 0
    BY <1>0, <1>2, <2>1 DEF Tallied, RecordStatus
  <2>3. ASSUME NEW c \in RecordStatus \ {"destroyed"}
        PROVE  (counts[c] = Cardinality(Having(c))
                            - (IF c = "pending" THEN Cardinality(Uncounted) ELSE 0))'
    <3>1. Cardinality(Having(c)') = Cardinality(Having(c)) + (IF c = s THEN 1 ELSE 0)
                                    - (IF c = status[p] THEN 1 ELSE 0)
      <4>1. IsFiniteSet(created) /\ \A q \in created \ {p} : status'[q] = status[q]
        BY <1>0, <2>1 DEF Tallied
      <4>2. status'[p] = s
        BY <1>0, <2>1
      <4>3. Having(c)' = With(created, status', c)
        BY <1>0 DEF Having
      <4>4. p \in created /\ Having(c) = With(created, status, c)
        BY DEF Having
      <4> QED
        BY <4>1, <4>2, <4>3, <4>4, Recount
    <3>2. Cardinality(Having(c)) \in Nat /\ Cardinality(Uncounted) \in Nat
      BY CountsAreNat
    <3>3. counts[c] = Cardinality(Having(c)) - (IF c = "pending" THEN Cardinality(Uncounted) ELSE 0)
      BY DEF Tallied
    <3>4. counts'[c] = counts[c] + (IF c = s THEN 1 ELSE 0) - (IF c = status[p] THEN 1 ELSE 0)
      BY <2>1
    <3> QED
      BY <3>1, <3>2, <3>3, <3>4
  <2> QED
    BY <2>2, <2>3 DEF Tallied
<1> QED
  BY <1>1, <1>2

(* OnDestroyPipeline takes a record out of the counters.                   *)
LEMMA DestroyMarkTallied ==
  ASSUME TInv, Tallied, NEW t \in Threads, Rec(t) \in created, DestroyMark(t),
         UNCHANGED <<created, Uncounted>>
  PROVE  Tallied'
<1> DEFINE p == Rec(t)
<1>0. /\ created \subseteq Pipelines /\ status \in [Pipelines -> RecordStatus]
      /\ counts \in [RecordStatus -> Int] /\ p \in created
      /\ created' = created
  BY DEF TInv, TypeOK, GlobalsOK
<1>1. status' = [status EXCEPT ![p] = "destroyed"]
  BY DEF DestroyMark
<1>2. counts' = IF status[p] = "destroyed" THEN counts ELSE [counts EXCEPT ![status[p]] = @ - 1]
  BY DEF DestroyMark
<1> HIDE DEF p
<1>3. counts'["destroyed"] = 0
  BY <1>0, <1>2 DEF Tallied, RecordStatus
<1>4. ASSUME NEW c \in RecordStatus \ {"destroyed"}
      PROVE  (counts[c] = Cardinality(Having(c))
                          - (IF c = "pending" THEN Cardinality(Uncounted) ELSE 0))'
  <2>1. Cardinality(Having(c)') = Cardinality(Having(c)) - (IF c = status[p] THEN 1 ELSE 0)
    <3>1. Cardinality(Having(c)') = Cardinality(Having(c)) + (IF c = "destroyed" THEN 1 ELSE 0)
                                    - (IF c = status[p] THEN 1 ELSE 0)
      <4>1. IsFiniteSet(created) /\ \A q \in created \ {p} : status'[q] = status[q]
        BY <1>0, <1>1 DEF Tallied
      <4>2. status'[p] = "destroyed"
        BY <1>0, <1>1
      <4>3. Having(c)' = With(created, status', c)
        BY <1>0 DEF Having
      <4> QED
        BY <1>0, <4>1, <4>2, <4>3, Recount DEF Having
    <3>2. Cardinality(Having(c)) \in Nat
      BY CountsAreNat
    <3> QED
      BY <1>4, <3>1, <3>2
  <2>2. Cardinality(Having(c)) \in Nat /\ Cardinality(Uncounted) \in Nat
    BY CountsAreNat
  <2>3. counts[c] = Cardinality(Having(c)) - (IF c = "pending" THEN Cardinality(Uncounted) ELSE 0)
    BY DEF Tallied
  <2>4. counts'[c] = counts[c] - (IF c = status[p] THEN 1 ELSE 0)
    BY <1>0, <1>2, <1>4, <2>2, <2>3
  <2> QED
    BY <2>1, <2>2, <2>3, <2>4
<1> QED
  BY <1>3, <1>4 DEF Tallied

(* OnInitPipeline's record is pending, and not counted before InitCount.    *)
LEMMA InitPipelineTallied ==
  ASSUME TInv, RecordsMade, Tallied, NEW t \in Creators, NEW p \in Pipelines, InitPipeline(t, p)
  PROVE  Tallied'
<1>0. /\ pc \in [Threads -> PCs] /\ t \in Threads /\ counts \in [RecordStatus -> Int]
      /\ pc[t] = "idle" /\ pc' = [pc EXCEPT ![t] = "init_count"]
      /\ p \notin created /\ created' = created \cup {p} /\ UNCHANGED <<status, counts>>
      /\ status[p] = "pending"
  BY DEF InitPipeline, Goto, TInv, TypeOK, GlobalsOK, ThreadsOK, Threads, Callers,
     RecordsMade, recordVars
<1>1. Uncounted' = Uncounted \cup {t} /\ t \notin Uncounted
  BY <1>0 DEF Uncounted
<1>2. IsFiniteSet(Uncounted') /\ Cardinality(Uncounted') = Cardinality(Uncounted) + 1
  BY <1>1, FS_AddElement DEF Tallied
<1>3. IsFiniteSet(created')
  BY <1>0, FS_AddElement DEF Tallied
<1>4. Having("pending")' = Having("pending") \cup {p} /\ p \notin Having("pending")
  BY <1>0 DEF Having, With
<1>5. Cardinality(Having("pending")') = Cardinality(Having("pending")) + 1
  BY <1>4, CountsAreNat, FS_AddElement
<1>6. ASSUME NEW c \in RecordStatus \ {"destroyed", "pending"} PROVE Having(c)' = Having(c)
  BY <1>0, <1>6 DEF Having, With
<1>7. Cardinality(Having("pending")) \in Nat /\ Cardinality(Uncounted) \in Nat
  BY CountsAreNat
<1> QED
  BY <1>0, <1>2, <1>3, <1>5, <1>6, <1>7 DEF Tallied

(* InitCount counts the new record.                                        *)
LEMMA InitCountTallied ==
  ASSUME TInv, ThreadsMade, Tallied, NEW t \in Threads, InitCount(t)
  PROVE  Tallied'
<1>0. /\ pc \in [Threads -> PCs] /\ counts \in [RecordStatus -> Int] /\ t \in Creators
      /\ pc[t] = "init_count" /\ pc' = [pc EXCEPT ![t] = "init_recipes"]
      /\ counts' = [counts EXCEPT !["pending"] = @ + 1] /\ UNCHANGED <<created, status>>
  BY DEF InitCount, Goto, TInv, TypeOK, GlobalsOK, ThreadsOK, ThreadsMade, recordVars,
     mapVars
<1>1. Uncounted' = Uncounted \ {t} /\ t \in Uncounted
  BY <1>0 DEF Uncounted
<1>2. IsFiniteSet(Uncounted') /\ Cardinality(Uncounted') = Cardinality(Uncounted) - 1
  BY <1>1, FS_RemoveElement DEF Tallied
<1>3. \A c \in RecordStatus : Having(c)' = Having(c)
  BY <1>0 DEF Having
<1>4. Cardinality(Having("pending")) \in Nat /\ Cardinality(Uncounted) \in Nat
  BY CountsAreNat
<1> QED
  BY <1>0, <1>2, <1>3, <1>4 DEF Tallied, RecordStatus

(* A thread that goes elsewhere is no thread before InitCount.             *)
LEMMA GotoUncounted ==
  ASSUME pc \in [Threads -> PCs], Creators \subseteq Threads, NEW t \in Threads,
         pc[t] # "init_count", \E label \in PCs \ {"init_count"} : Goto(t, label)
  PROVE  UNCHANGED Uncounted
BY DEF Goto, Uncounted

(* Every step keeps the books.                                             *)
LEMMA NextTallied ==
  ASSUME TInv, Made, Tallied, [Next]_vars
  PROVE  Tallied'
<1>0. pc \in [Threads -> PCs] /\ loc \in [Threads -> Locals] /\ Creators \subseteq Threads
  BY DEF TInv, TypeOK, ThreadsOK, Threads, Callers
<1>1. ASSUME NEW t \in Threads, PublishStatus(t) PROVE Tallied'
  <2>1. SetStatus(Rec(t), loc[t].to) /\ UNCHANGED created /\ Rec(t) \in created
    BY <1>1, StatusSetMade DEF PublishStatus, mapVars, Made
  <2>2. loc[t].to \in RecordStatus \ {"destroyed"}
    BY <1>0 DEF Made, ThreadsMade, Locals
  <2>3. UNCHANGED Uncounted
    BY <1>0, <1>1 DEF PublishStatus, Return, Goto, Uncounted
  <2> QED
    BY <2>1, <2>2, <2>3, SetStatusTallied
<1>2. ASSUME NEW t \in Threads, EnqueueMark(t) PROVE Tallied'
  <2>1. SetStatus(Rec(t), "pending") /\ UNCHANGED created /\ Rec(t) \in created
    BY <1>2, StatusSetMade DEF EnqueueMark, mapVars, Made
  <2>2. UNCHANGED Uncounted
    BY <1>0, <1>2 DEF EnqueueMark, Goto, Uncounted
  <2> QED
    BY <2>1, <2>2, SetStatusTallied DEF RecordStatus
<1>3. ASSUME NEW t \in Threads, DestroyMark(t) PROVE Tallied'
  <2>1. UNCHANGED created /\ Rec(t) \in created
    BY <1>3, StatusSetMade DEF DestroyMark, mapVars, Made
  <2>2. UNCHANGED Uncounted
    BY <1>0, <1>3 DEF DestroyMark, Goto, Uncounted
  <2> QED
    BY <1>3, <2>1, <2>2, DestroyMarkTallied
<1>4. CASE UNCHANGED <<created, status, counts, Uncounted>>
  BY <1>4 DEF Tallied, Having
<1>5. ASSUME NEW t \in Threads, PublishStep(t), ~ PublishStatus(t)
      PROVE  UNCHANGED <<created, status, counts, Uncounted>>
  <2>1. UNCHANGED <<created, status, counts>> /\ pc[t] # "init_count"
    BY <1>5 DEF PublishStep, PublishCheck, PublishSwap, PublishOwners, mapVars,
       recordVars
  <2>2. \E label \in PCs \ {"init_count"} : Goto(t, label)
    BY <1>5 DEF PublishStep, PublishCheck, PublishSwap, PublishOwners, Return, PCs,
       CallPCs, PublishPCs
  <2> QED
    BY <1>0, <2>1, <2>2, GotoUncounted
<1>6. ASSUME NEW w \in Workers, WorkerStep(w), ~ PublishStep(w)
      PROVE  UNCHANGED <<created, status, counts, Uncounted>>
  <2>1. UNCHANGED <<created, status, counts>> /\ pc[w] # "init_count" /\ w \in Threads
    BY <1>6 DEF WorkerStep, TakeJob, CheckJob, PatchJob, BuildBindings,
       CreateReplacement, globals, mapVars,
       recordVars, Threads
  <2>2. \E label \in PCs \ {"init_count"} : Goto(w, label)
    BY <1>6 DEF WorkerStep, TakeJob, CheckJob, PatchJob, BuildBindings,
       CreateReplacement, StartPublish, Return,
       PCs, CallPCs, PublishPCs, WorkerPCs
  <2> QED
    BY <1>0, <2>1, <2>2, GotoUncounted
<1>7. ASSUME NEW t \in Callers, CallStep(t),
             ~ PublishStep(t), ~ EnqueueMark(t), ~ DestroyMark(t), ~ InitCount(t)
      PROVE  UNCHANGED <<created, status, counts, Uncounted>>
  <2>1. UNCHANGED <<created, status, counts>> /\ pc[t] # "init_count" /\ t \in Threads
    BY <1>7 DEF CallStep, EnqueueRequest, EnqueuePush, RepatchNext, InitRecipes,
       DestroySwap, StoreRecipes,
       ReloadResources, RepatchSnapshot, LoadFirst, LoadSwap, LoadRecipes,
       LoadSnapshot, globals, mapVars,
       recordVars, Threads
  <2>2. \E label \in PCs \ {"init_count"} : Goto(t, label)
    BY <1>7 DEF CallStep, EnqueueRequest, EnqueuePush, RepatchNext, InitRecipes,
       DestroySwap, StoreRecipes,
       ReloadResources, RepatchSnapshot, LoadFirst, LoadSwap, LoadRecipes,
       LoadSnapshot, StartPublish, Return,
       TakeSnapshot, PCs, CallPCs, PublishPCs, EnqueuePCs
  <2> QED
    BY <1>0, <2>1, <2>2, GotoUncounted
<1>8. ASSUME NEW t \in Threads, \/ \E p \in Pipelines : DestroyPipeline(t, p)
                                \/ ApplyEnvOverrides(t) \/ ReloadAll(t) \/ LoadBegin(t)
      PROVE  UNCHANGED <<created, status, counts, Uncounted>>
  <2>1. UNCHANGED <<created, status, counts>> /\ pc[t] # "init_count"
    BY <1>8 DEF DestroyPipeline, ApplyEnvOverrides, ReloadAll, NewRecipes, LoadBegin,
       mapVars, recordVars
  <2>2. \E label \in PCs \ {"init_count"} : Goto(t, label)
    BY <1>8 DEF DestroyPipeline, ApplyEnvOverrides, ReloadAll, NewRecipes, LoadBegin,
       PCs, CallPCs
  <2> QED
    BY <1>0, <2>1, <2>2, GotoUncounted
<1>9. CASE UNCHANGED vars
  BY <1>4, <1>9 DEF vars, globals, mapVars, recordVars, Uncounted
<1>10. ASSUME NEW t \in Threads, PublishStep(t) PROVE Tallied'
  BY <1>1, <1>4, <1>5, <1>10
<1>11. ASSUME NEW w \in Workers, WorkerStep(w) PROVE Tallied'
  BY <1>4, <1>6, <1>10, <1>11 DEF Threads
<1>12. ASSUME NEW t \in Callers, CallStep(t) PROVE Tallied'
  BY <1>2, <1>3, <1>4, <1>7, <1>10, <1>12, InitCountTallied DEF Threads, Made
<1>13. ASSUME NEW t \in Threads, \/ \E p \in Pipelines : DestroyPipeline(t, p)
                                 \/ ApplyEnvOverrides(t) \/ ReloadAll(t) \/ LoadBegin(t)
       PROVE  Tallied'
  BY <1>4, <1>8, <1>13
<1> QED
  BY <1>9, <1>11, <1>12, <1>13, InitPipelineTallied DEF Next, Made, Threads, Callers

(* Nothing is counted at the start.                                        *)
LEMMA InitTallied == Init => Tallied
<1> SUFFICES ASSUME Init PROVE Tallied
  OBVIOUS
<1>1. Uncounted = {} /\ created = {} /\ \A c : Having(c) = {}
  BY DEF Init, Uncounted, Having, With, Threads, Callers
<1>2. \A s \in RecordStatus : counts[s] = 0
  BY DEF Init
<1> QED
  BY <1>1, <1>2, FS_EmptySet DEF Tallied, RecordStatus

(* The counters the overlay shows are exact, however many creations,        *)
(* Enqueues, Publishes and destructions interleave.                         *)
THEOREM CountsExactHolds == Spec => []CountsExact
<1>1. Init => TInv /\ Made /\ Tallied
  BY InitType, InitMade, InitTallied
<1>2. TInv /\ Made /\ Tallied /\ [Next]_vars => TInv' /\ Made' /\ Tallied'
  BY NextType, NextMade, NextTallied
<1>3. TInv /\ Tallied => CountsExact
  <2> SUFFICES ASSUME Tallied, NEW s \in RecordStatus
               PROVE  LET uncounted == {t \in Creators : s = "pending" /\ pc[t] = "init_count"}
                      IN counts[s] = IF s = "destroyed" THEN 0
                                     ELSE Cardinality({p \in created : status[p] = s})
                                          - Cardinality(uncounted)
    BY DEF CountsExact
  <2>1. CASE s = "pending"
    <3>1. {t \in Creators : s = "pending" /\ pc[t] = "init_count"} = Uncounted
      BY <2>1 DEF Uncounted
    <3> QED
      BY <2>1, <3>1 DEF Tallied, Having, With
  <2>2. CASE s # "pending"
    <3>1. {t \in Creators : s = "pending" /\ pc[t] = "init_count"} = {}
      BY <2>2
    <3>2. Cardinality(Having(s)) \in Nat
      BY CountsAreNat
    <3> QED
      BY <2>2, <3>1, <3>2, FS_EmptySet DEF Tallied, Having, With
  <2> QED
    BY <2>1, <2>2
<1> QED
  BY <1>1, <1>2, <1>3, PTL DEF Spec

-----------------------------------------------------------------------------
(* No replacement is lost.                                                  *)

(* Where a replacement is that is not lost.                                 *)
Home(r) ==
  \/ r \in retired
  \/ \E p \in Pipelines : replacement[p] = r
  \/ \E t \in Threads : InHand(t) = r

AllHome ==
  \A p \in Pipelines : \A n \in 1..built[p] :
    \E r \in Replacements : r.rec = p /\ r.n = n /\ Home(r)

HomesKept == \A r \in Replacements : Home(r) => Home(r)'

(* Where every replacement keeps a home, none is lost.                     *)
LEMMA HomesKeptSuffices ==
  ASSUME AllHome, HomesKept, UNCHANGED built
  PROVE  AllHome'
BY DEF AllHome, HomesKept

(* Only thread t moves.                                                     *)
LEMMA OthersStayAt ==
  ASSUME NEW t \in Threads, \A u \in Threads \ {t} : pc'[u] = pc[u] /\ loc'[u] = loc[u]
  PROVE  OthersStay(t)
BY DEF OthersStay, InHand, Rec

(* A thread that has nothing in hand leaves everything where it is.         *)
LEMMA QuietHome ==
  ASSUME NEW t \in Threads, pc[t] \notin PublishPCs,
         \A u \in Threads \ {t} : pc'[u] = pc[u] /\ loc'[u] = loc[u],
         UNCHANGED <<replacement, retired>>
  PROVE  HomesKept
<1>1. InHand(t) = NoReplacement
  BY DEF InHand, PublishPCs
<1>2. OthersStay(t)
  BY OthersStayAt
<1> QED
  BY <1>1, <1>2, NoReplacementIsNone DEF HomesKept, Home, OthersStay

(* A thread gives what it has in hand to the retire queue.                  *)
LEMMA RetireHome ==
  ASSUME NEW t \in Threads, OthersStay(t), UNCHANGED replacement, Retire(InHand(t))
  PROVE  HomesKept
BY NoReplacementIsNone DEF HomesKept, Home, OthersStay, Retire

(* Publish passes a replacement on.                                        *)
LEMMA PublishHome ==
  ASSUME OInv, NEW t \in Threads, PublishStep(t)
  PROVE  HomesKept
<1>1. /\ pc \in [Threads -> PCs] /\ loc \in [Threads -> Locals]
      /\ replacement \in [Pipelines -> OptionalReplacement]
  BY DEF OInv, TInv, TypeOK, ThreadsOK, GlobalsOK
<1>2. CASE PublishCheck(t)
  <2>1. OthersStay(t) /\ UNCHANGED replacement
    BY <1>1, <1>2, OthersStayAt DEF PublishCheck, Goto, Return, recordVars
  <2>2. CASE requested[Rec(t)] # Gen(t) \/ status[Rec(t)] = "destroyed"
    <3>1. Retire(InHand(t))
      BY <1>2, <2>2 DEF PublishCheck, InHand
    <3> QED
      BY <2>1, <3>1, RetireHome
  <2>3. CASE ~ (requested[Rec(t)] # Gen(t) \/ status[Rec(t)] = "destroyed")
    <3>1. UNCHANGED retired /\ InHand(t)' = InHand(t)
      BY <1>1, <1>2, <2>3 DEF PublishCheck, InHand, Goto
    <3> QED
      BY <2>1, <3>1 DEF HomesKept, Home, OthersStay
  <2> QED
    BY <2>2, <2>3
<1>3. CASE PublishSwap(t)
  <2>1. OthersStay(t) /\ UNCHANGED retired /\ Rec(t) \in Pipelines
    BY <1>1, <1>3, OthersStayAt
       DEF PublishSwap, Goto, replacementVars, OInv, TInv, Control, ControlAt, PublishPCs, Rec
  <2>2. /\ replacement' = [replacement EXCEPT ![Rec(t)] = InHand(t)]
        /\ InHand(t)' = replacement[Rec(t)]
    BY <1>1, <1>3 DEF PublishSwap, InHand, Rec, Goto, Locals
  <2> QED
    BY <1>1, <2>1, <2>2 DEF HomesKept, Home, OthersStay
<1>4. CASE PublishOwners(t)
  <2>1. OthersStay(t) /\ UNCHANGED <<replacement, retired>>
    BY <1>1, <1>4, OthersStayAt DEF PublishOwners, Goto, recordVars, replacementVars
  <2>2. InHand(t)' = InHand(t)
    BY <1>1, <1>4 DEF PublishOwners, InHand, Goto
  <2> QED
    BY <2>1, <2>2 DEF HomesKept, Home, OthersStay
<1>5. CASE PublishStatus(t)
  <2>1. OthersStay(t) /\ UNCHANGED replacement
    BY <1>1, <1>5, OthersStayAt DEF PublishStatus, Goto, Return
  <2>2. Retire(InHand(t))
    BY <1>5 DEF PublishStatus, InHand
  <2> QED
    BY <2>1, <2>2, RetireHome
<1> QED
  BY <1>2, <1>3, <1>4, <1>5 DEF PublishStep

(* A new replacement is in the hands of the Publish that was started.       *)
LEMMA CreateHome ==
  ASSUME OInv, AllHome, NEW w \in Workers, CreateReplacement(w)
  PROVE  AllHome'
<1>1. /\ pc \in [Threads -> PCs] /\ loc \in [Threads -> Locals] /\ w \in Threads
      /\ built \in [Pipelines -> Nat] /\ Rec(w) \in Pipelines
  BY DEF OInv, TInv, TypeOK, ThreadsOK, GlobalsOK, Control, ControlAt,
     CreateReplacement,
     WorkerPCs, Rec, Threads
<1>2. HomesKept
  <2>1. pc[w] \notin PublishPCs /\ UNCHANGED <<replacement, retired>>
    BY DEF CreateReplacement, PublishPCs, recordVars
  <2>2. \A u \in Threads \ {w} : pc'[u] = pc[u] /\ loc'[u] = loc[u]
    BY <1>1 DEF CreateReplacement, StartPublish, Goto
  <2> QED
    BY <1>1, <2>1, <2>2, QuietHome
<1>3. CASE UNCHANGED built
  BY <1>2, <1>3, HomesKeptSuffices
<1>4. CASE built' # built
  <2>1. PICK n : n = built[Rec(w)] + 1
    OBVIOUS
  <2>2. PICK r : r = [rec |-> Rec(w), gen |-> Gen(w), res |-> loc[w].res, n |-> n]
    OBVIOUS
  <2>3. built' = [built EXCEPT ![Rec(w)] = n] /\ InHand(w)' = r
    BY <1>1, <1>4, <2>1, <2>2 DEF CreateReplacement, StartPublish, InHand, Goto, Locals
  <2>4. Gen(w) \in 1..MaxGen /\ loc[w].res \in Nat
    BY <1>1 DEF OInv, TInv, Control, ControlAt, CreateReplacement, WorkerPCs, Gen,
       Locals
  <2>5. r \in Replacements /\ r.rec = Rec(w) /\ r.n = n
    BY <1>1, <2>1, <2>2, <2>4 DEF Replacements
  <2>6. Home(r)'
    BY <1>1, <2>3 DEF Home
  <2>7. ASSUME NEW p \in Pipelines, NEW k \in 1..built'[p]
        PROVE  \E x \in Replacements : x.rec = p /\ x.n = k /\ Home(x)'
    <3>1. CASE k \in 1..built[p]
      <4>1. PICK x \in Replacements : x.rec = p /\ x.n = k /\ Home(x)
        BY <3>1 DEF AllHome
      <4> QED
        BY <1>2, <4>1 DEF HomesKept
    <3>2. CASE k \notin 1..built[p]
      <4>1. p = Rec(w) /\ k = n
        BY <1>1, <2>1, <2>3, <3>2
      <4> QED
        BY <2>5, <2>6, <4>1
    <3> QED
      BY <3>1, <3>2
  <2> QED
    BY <2>7 DEF AllHome
<1> QED
  BY <1>3, <1>4

(* A worker drops nothing.                                                 *)
LEMMA WorkerHome ==
  ASSUME OInv, AllHome, NEW w \in Workers, WorkerStep(w)
  PROVE  AllHome'
<1>0. w \in Threads /\ pc \in [Threads -> PCs] /\ loc \in [Threads -> Locals]
  BY DEF Threads, OInv, TInv, TypeOK, ThreadsOK
<1>1. CASE TakeJob(w) \/ CheckJob(w) \/ PatchJob(w) \/ BuildBindings(w)
  <2>1. pc[w] \notin PublishPCs /\ UNCHANGED <<replacement, retired, built>>
    BY <1>1 DEF TakeJob, CheckJob, PatchJob, BuildBindings, globals, recordVars,
       replacementVars, PublishPCs
  <2>2. \A u \in Threads \ {w} : pc'[u] = pc[u] /\ loc'[u] = loc[u]
    BY <1>0, <1>1 DEF TakeJob, CheckJob, PatchJob, BuildBindings, StartPublish, Return,
       Goto
  <2> QED
    BY <1>0, <2>1, <2>2, QuietHome, HomesKeptSuffices
<1>2. CASE PublishStep(w)
  <2>1. UNCHANGED built
    BY <1>2 DEF PublishStep, PublishCheck, PublishSwap, PublishOwners, PublishStatus,
       replacementVars
  <2> QED
    BY <1>0, <1>2, <2>1, PublishHome, HomesKeptSuffices
<1> QED
  BY <1>1, <1>2, CreateHome DEF WorkerStep

(* OnDestroyPipeline retires what was published.                           *)
LEMMA DestroySwapHome ==
  ASSUME OInv, NEW t \in Threads, DestroySwap(t)
  PROVE  HomesKept
<1>1. /\ pc \in [Threads -> PCs] /\ loc \in [Threads -> Locals] /\ Rec(t) \in Pipelines
      /\ replacement \in [Pipelines -> OptionalReplacement]
  BY DEF OInv, TInv, TypeOK, ThreadsOK, GlobalsOK, Control, ControlAt, DestroySwap, Rec
<1>2. OthersStay(t) /\ InHand(t) = NoReplacement
  BY <1>1, OthersStayAt DEF DestroySwap, InHand, Goto, Return
<1>3. /\ replacement' = [replacement EXCEPT ![Rec(t)] = NoReplacement]
      /\ Retire(replacement[Rec(t)])
  BY DEF DestroySwap
<1> QED
  BY <1>1, <1>2, <1>3, NoReplacementIsNone DEF HomesKept, Home, OthersStay, Retire

(* A call from outside drops nothing.                                      *)
LEMMA CallHome ==
  ASSUME OInv, AllHome, NEW t \in Callers, CallStep(t)
  PROVE  AllHome'
<1>0. t \in Threads /\ pc \in [Threads -> PCs] /\ loc \in [Threads -> Locals]
  BY DEF Threads, OInv, TInv, TypeOK, ThreadsOK
<1>1. CASE ~ PublishStep(t) /\ ~ DestroySwap(t)
  <2>1. pc[t] \notin PublishPCs /\ UNCHANGED <<replacement, retired, built>>
    BY <1>1 DEF CallStep, EnqueueRequest, EnqueueMark, EnqueuePush, RepatchNext,
       InitCount, InitRecipes,
       DestroyMark, StoreRecipes, ReloadResources, RepatchSnapshot, LoadFirst,
       LoadSwap, LoadRecipes,
       LoadSnapshot, globals, recordVars, replacementVars, PublishPCs
  <2>2. \A u \in Threads \ {t} : pc'[u] = pc[u] /\ loc'[u] = loc[u]
    BY <1>0, <1>1 DEF CallStep, EnqueueRequest, EnqueueMark, EnqueuePush, RepatchNext,
       InitCount, InitRecipes,
       DestroyMark, StoreRecipes, ReloadResources, RepatchSnapshot, LoadFirst,
       LoadSwap, LoadRecipes,
       LoadSnapshot, StartPublish, Return, TakeSnapshot, Goto
  <2> QED
    BY <1>0, <2>1, <2>2, QuietHome, HomesKeptSuffices
<1>2. CASE PublishStep(t)
  <2>1. UNCHANGED built
    BY <1>2 DEF PublishStep, PublishCheck, PublishSwap, PublishOwners, PublishStatus,
       replacementVars
  <2> QED
    BY <1>0, <1>2, <2>1, PublishHome, HomesKeptSuffices
<1>3. CASE DestroySwap(t)
  BY <1>0, <1>3, DestroySwapHome, HomesKeptSuffices DEF DestroySwap
<1> QED
  BY <1>1, <1>2, <1>3

(* Every step keeps a home for every replacement.                          *)
LEMMA NextHome == OInv /\ AllHome /\ [Next]_vars => AllHome'
<1> SUFFICES ASSUME OInv, AllHome, [Next]_vars PROVE AllHome'
  OBVIOUS
<1>0. pc \in [Threads -> PCs] /\ loc \in [Threads -> Locals]
  BY DEF OInv, TInv, TypeOK, ThreadsOK
<1>1. ASSUME NEW t \in Threads, \/ \E p \in Pipelines : InitPipeline(t, p) \/ DestroyPipeline(t, p)
                                \/ ApplyEnvOverrides(t) \/ ReloadAll(t) \/ LoadBegin(t)
      PROVE  AllHome'
  <2>1. pc[t] \notin PublishPCs /\ UNCHANGED <<replacement, retired, built>>
    BY <1>1 DEF InitPipeline, DestroyPipeline, ApplyEnvOverrides, ReloadAll,
       NewRecipes, LoadBegin,
       recordVars, replacementVars, PublishPCs
  <2>2. \A u \in Threads \ {t} : pc'[u] = pc[u] /\ loc'[u] = loc[u]
    BY <1>0, <1>1 DEF InitPipeline, DestroyPipeline, ApplyEnvOverrides, ReloadAll,
       NewRecipes, LoadBegin, Goto
  <2> QED
    BY <2>1, <2>2, QuietHome, HomesKeptSuffices
<1>2. CASE UNCHANGED vars
  BY <1>2 DEF vars, globals, recordVars, replacementVars, AllHome, Home, InHand
<1> QED
  BY <1>1, <1>2, WorkerHome, CallHome DEF Next, Threads, Callers

(* No replacement is dropped without going through the retire queue: each   *)
(* one ever built is published, in the hands of a Publish, or retired.      *)
THEOREM NoneLostHolds == Spec => []NoneLost
<1>1. Init => OInv /\ AllHome
  <2>1. Init => AllHome
    BY DEF Init, AllHome
  <2> QED
    BY <2>1, InitOwner
<1>2. OInv /\ AllHome /\ [Next]_vars => OInv' /\ AllHome'
  BY NextOwner, NextHome
<1>3. OInv /\ AllHome => NoneLost
  <2> SUFFICES ASSUME OInv, AllHome, NEW p \in Pipelines, NEW n \in 1..built[p]
               PROVE  \E r \in {replacement[p]} \cup retired \cup {InHand(t) : t \in Threads} :
                        r.rec = p /\ r.n = n
    BY DEF NoneLost
  <2>1. PICK r \in Replacements : r.rec = p /\ r.n = n /\ Home(r)
    BY DEF AllHome
  <2>2. r \in {replacement[p]} \cup retired \cup {InHand(t) : t \in Threads}
    BY <2>1 DEF Home, OInv, Numbered
  <2> QED
    BY <2>1, <2>2
<1> QED
  BY <1>1, <1>2, <1>3, PTL DEF Spec
-----------------------------------------------------------------------------
(* The owner map of D3D11.                                                  *)

(* No thread exchanges the replacement of a record between the exchange and *)
(* the owner entry of another Publish for the record.                       *)
Alone ==
  \A t, u \in Threads : pc[t] = "pub_owners" /\ pc[u] = "pub_swap" => Rec(t) # Rec(u)

(* The handle of the record of a Publish was not given to a new pipeline    *)
(* before the owner entry is made.                                          *)
NoLateReuse ==
  \A t \in Threads : pc[t] = "pub_owners" =>
    \A q \in pipelines : Handle[q] = Handle[Rec(t)] => q = Rec(t)

(* The steps that see the owner map or take a pipeline off the records.     *)
MapPCs == {"pub_owners", "destroy_mark", "destroy_swap"}

Publishes(t, p) == pc[t] = "pub_owners" /\ Rec(t) = p
Destroys(t, p) == pc[t] \in {"destroy_mark", "destroy_swap"} /\ Rec(t) = p

(* An entry is what its record publishes, and the record is in the map or   *)
(* is being destroyed; or it is what a Publish has replaced and will erase. *)
Entered ==
  \A o \in owners :
    \/ /\ o[1] = replacement[o[2]]
       /\ o[2] \in pipelines \/ \E t \in Threads : Destroys(t, o[2])
    \/ \E t \in Threads : Publishes(t, o[2]) /\ loc[t].old = o[1]

(* What a live record publishes has an entry or a Publish that will make it. *)
Listed ==
  \A p \in pipelines : replacement[p] # NoReplacement =>
    <<replacement[p], p>> \in owners \/ \E t \in Threads : Publishes(t, p)

(* What a Publish enters is what the record publishes.                      *)
Current ==
  \A t \in Threads : pc[t] = "pub_owners" /\ Rec(t) \in pipelines =>
    replacement[Rec(t)] = loc[t].repl

(* A record that is being destroyed is no longer in the map; one that was   *)
(* not created publishes nothing.                                           *)
Leaving == \A t \in Threads : pc[t] \in {"destroy_mark", "destroy_swap"} => Rec(t) \notin pipelines
Fresh == \A p \in Pipelines \ created : replacement[p] = NoReplacement

Mapped == Entered /\ Listed /\ Current /\ Leaving /\ Fresh

MInv == OInv /\ Made /\ Mapped

(* The types the steps below need.                                          *)
LEMMA MappedTypes ==
  ASSUME OInv
  PROVE  /\ pc \in [Threads -> PCs] /\ loc \in [Threads -> Locals]
         /\ replacement \in [Pipelines -> OptionalReplacement]
         /\ pipelines \subseteq created /\ created \subseteq Pipelines
         /\ owners \subseteq Replacements \X Pipelines
BY DEF OInv, TInv, TypeOK, ThreadsOK, GlobalsOK

(* The record of a thread at one of those steps was created.                *)
LEMMA AtRecord ==
  ASSUME MInv, NEW t \in Threads, pc[t] \in MapPCs \cup {"pub_swap"}
  PROVE  Rec(t) \in created /\ Rec(t) \in Pipelines
BY ConstantsAssumption
   DEF MInv, OInv, TInv, Control, ControlAt, PublishPCs, MapPCs, Made, ThreadsMade, Rec

(* A thread that neither is nor comes to one of those steps.                *)
LEMMA MapQuiet ==
  ASSUME Mapped, NEW t \in Threads, pc[t] \notin MapPCs, pc'[t] \notin MapPCs,
         \A u \in Threads \ {t} : pc'[u] = pc[u] /\ loc'[u] = loc[u],
         UNCHANGED <<replacement, owners, pipelines, created>>
  PROVE  Mapped'
<1>2. Entered' /\ Listed'
  <2>1. \A u \in Threads : u # t => loc'[u] = loc[u]
    OBVIOUS
  <2>2. \A u \in Threads : \A p : Publishes(u, p)' <=> Publishes(u, p)
    BY DEF Publishes, MapPCs, Rec
  <2>3. \A u \in Threads : \A p : Destroys(u, p)' <=> Destroys(u, p)
    BY DEF Destroys, MapPCs, Rec
  <2>4. \A u \in Threads : \A p : Publishes(u, p) => u # t
    BY DEF Publishes, MapPCs
  <2>5. Entered'
    BY <2>1, <2>2, <2>3, <2>4 DEF Mapped, Entered
  <2>6. Listed'
    BY <2>2 DEF Mapped, Listed
  <2> QED
    BY <2>5, <2>6
<1>3. Current' /\ Leaving' /\ Fresh'
  BY DEF Mapped, Current, Leaving, Fresh, MapPCs, Rec
<1> QED
  BY <1>2, <1>3 DEF Mapped

(* The exchange: what was published is what the Publish will erase.         *)
LEMMA PublishSwapMapped ==
  ASSUME D3D11, MInv, Alone, NEW t \in Threads, PublishSwap(t)
  PROVE  Mapped'
<1>1. /\ pc \in [Threads -> PCs] /\ loc \in [Threads -> Locals]
      /\ replacement \in [Pipelines -> OptionalReplacement]
      /\ owners \subseteq Replacements \X Pipelines
      /\ pipelines \subseteq Pipelines
  BY MappedTypes DEF MInv
<1>2. PICK p : p = Rec(t)
  OBVIOUS
<1>3. p \in Pipelines /\ p \in created
  BY <1>2, AtRecord DEF PublishSwap
<1>4. /\ pc[t] = "pub_swap" /\ pc' = [pc EXCEPT ![t] = "pub_owners"]
      /\ replacement' = [replacement EXCEPT ![p] = loc[t].repl]
      /\ loc' = [loc EXCEPT ![t].old = replacement[p]]
      /\ UNCHANGED <<owners, pipelines, created>>
  BY <1>2 DEF PublishSwap, Goto, mapVars
<1>5. /\ pc'[t] = "pub_owners" /\ loc'[t].rec = p
      /\ loc'[t].old = replacement[p] /\ loc'[t].repl = loc[t].repl
      /\ loc[t].rec = p
  BY <1>1, <1>2, <1>4 DEF Locals, Rec
<1>6. \A u \in Threads \ {t} : pc'[u] = pc[u] /\ loc'[u] = loc[u]
  BY <1>1, <1>4
<1>7. \A q \in Pipelines : replacement'[q] = IF q = p THEN loc[t].repl ELSE replacement[q]
  BY <1>1, <1>4
<1>8. ASSUME NEW u \in Threads, NEW q
      PROVE  /\ u # t => (Publishes(u, q)' <=> Publishes(u, q))
             /\ Destroys(u, q)' <=> Destroys(u, q)
  BY <1>4, <1>5, <1>6 DEF Publishes, Destroys, Rec
<1>9. Publishes(t, p)' /\ \A q : ~ Publishes(t, q)
  BY <1>4, <1>5 DEF Publishes, Rec
<1>10. Entered'
  <2>1. ASSUME NEW o \in owners
        PROVE  \/ /\ o[1] = replacement'[o[2]]
                  /\ o[2] \in pipelines \/ \E u \in Threads : Destroys(u, o[2])'
               \/ \E u \in Threads : Publishes(u, o[2])' /\ loc'[u].old = o[1]
    <3>0. o[2] \in Pipelines
      BY <1>1
    <3>1. CASE o[1] = replacement[o[2]] /\ o[2] = p
      BY <1>5, <1>9, <3>1
    <3>2. CASE /\ o[1] = replacement[o[2]] /\ o[2] # p
               /\ o[2] \in pipelines \/ \E u \in Threads : Destroys(u, o[2])
      BY <1>7, <1>8, <3>0, <3>2
    <3>3. CASE \E u \in Threads : Publishes(u, o[2]) /\ loc[u].old = o[1]
      <4>1. PICK u \in Threads : Publishes(u, o[2]) /\ loc[u].old = o[1]
        BY <3>3
      <4>2. u # t
        BY <1>9, <4>1
      <4> QED BY <1>6, <1>8, <4>1, <4>2
    <3> QED BY <3>1, <3>2, <3>3 DEF MInv, Mapped, Entered
  <2> QED BY <1>4, <2>1 DEF Entered
<1>11. Listed'
  <2>1. ASSUME NEW q \in pipelines, replacement'[q] # NoReplacement
        PROVE  <<replacement'[q], q>> \in owners \/ \E u \in Threads : Publishes(u, q)'
    <3>0. q \in Pipelines
      BY <1>1
    <3>1. CASE q = p
      BY <1>9, <3>1
    <3>2. CASE q # p
      <4>1. replacement'[q] = replacement[q]
        BY <1>7, <3>0, <3>2
      <4>2. <<replacement[q], q>> \in owners \/ \E u \in Threads : Publishes(u, q)
        BY <2>1, <4>1 DEF MInv, Mapped, Listed
      <4> QED BY <1>8, <1>9, <4>1, <4>2
    <3> QED BY <3>1, <3>2
  <2> QED BY <1>4, <2>1 DEF Listed
<1>12. Current'
  <2>1. ASSUME NEW u \in Threads, pc'[u] = "pub_owners", loc'[u].rec \in pipelines
        PROVE  replacement'[loc'[u].rec] = loc'[u].repl
    <3>1. CASE u = t
      BY <1>3, <1>5, <1>7, <3>1
    <3>2. CASE u # t
      <4>1. pc[u] = "pub_owners" /\ loc[u].rec \in pipelines /\ loc'[u] = loc[u]
        BY <1>6, <2>1, <3>2
      <4>2. loc[u].rec # p
        BY <1>4, <1>5, <4>1 DEF Alone, Rec
      <4>3. replacement[loc[u].rec] = loc[u].repl
        BY <4>1 DEF MInv, Mapped, Current, Rec
      <4> QED BY <1>1, <1>7, <4>1, <4>2, <4>3
    <3> QED BY <3>1, <3>2
  <2> QED BY <1>4, <2>1 DEF Current, Rec
<1>13. Leaving'
  BY <1>4, <1>5, <1>6 DEF MInv, Mapped, Leaving, Rec
<1>14. Fresh'
  BY <1>3, <1>4, <1>7 DEF MInv, Mapped, Fresh
<1> QED
  BY <1>10, <1>11, <1>12, <1>13, <1>14 DEF Mapped

(* The owner entry: what the Publish replaced goes, what it published comes. *)
LEMMA PublishOwnersMapped ==
  ASSUME MInv, NoLateReuse, NEW t \in Threads, PublishOwners(t)
  PROVE  Mapped'
<1>1. /\ pc \in [Threads -> PCs] /\ loc \in [Threads -> Locals]
      /\ replacement \in [Pipelines -> OptionalReplacement]
      /\ owners \subseteq Replacements \X Pipelines
      /\ pipelines \subseteq Pipelines
  BY MappedTypes DEF MInv
<1>2. PICK p : p = Rec(t)
  OBVIOUS
<1>3. p \in Pipelines
  BY <1>2, AtRecord DEF PublishOwners, MapPCs
<1>4. PICK old, repl : old = loc[t].old /\ repl = loc[t].repl
  OBVIOUS
<1>5. /\ pc[t] = "pub_owners" /\ pc' = [pc EXCEPT ![t] = "pub_status"]
      /\ UNCHANGED <<replacement, pipelines, created, loc>>
  BY DEF PublishOwners, Goto, mapVars, recordVars
<1>6. p \in pipelines => replacement[p] = repl
  BY <1>2, <1>4, <1>5 DEF MInv, Mapped, Current
<1>7. {q \in pipelines : Handle[q] = Handle[p]} = IF p \in pipelines THEN {p} ELSE {}
  <2>1. \A q \in pipelines : Handle[q] = Handle[p] => q = p
    BY <1>2, <1>5 DEF NoLateReuse
  <2> QED BY <2>1
<1>8. PICK kept : kept = {o \in owners : o[1] # old}
  OBVIOUS
<1>9. IF p \in pipelines /\ repl # NoReplacement
      THEN owners' = {o \in kept : o[1] # repl} \cup {<<repl, p>>}
      ELSE owners' = kept
  <2>1. LET record == {q \in pipelines : Handle[q] = Handle[p]}
        IN IF repl = NoReplacement \/ record = {}
           THEN owners' = kept
           ELSE owners' = {o \in kept : o[1] # repl} \cup ({repl} \X record)
    BY <1>2, <1>4, <1>8 DEF PublishOwners
  <2>2. {repl} \X {p} = {<<repl, p>>}
    OBVIOUS
  <2>3. CASE p \in pipelines
    BY <1>7, <2>1, <2>2, <2>3
  <2>4. CASE p \notin pipelines
    BY <1>7, <2>1, <2>4
  <2> QED BY <2>3, <2>4
<1>10. \A u \in Threads \ {t} : pc'[u] = pc[u]
  BY <1>1, <1>5
<1>11. pc'[t] = "pub_status"
  BY <1>1, <1>5
<1>12. ASSUME NEW u \in Threads, NEW q
       PROVE  /\ Publishes(u, q)' <=> (u # t /\ Publishes(u, q))
              /\ Destroys(u, q)' <=> Destroys(u, q)
  BY <1>5, <1>10, <1>11 DEF Publishes, Destroys, Rec
<1>13. old \in OptionalReplacement /\ InHand(t) = old
  BY <1>1, <1>4, <1>5 DEF Locals, InHand
<1>14. \A q \in Pipelines : replacement[q] # old \/ replacement[q] = NoReplacement
  BY <1>13 DEF MInv, OInv, OneOwner, OptionalReplacement
<1>15. \A q \in Pipelines : replacement[q] # NoReplacement => replacement[q].rec = q
  BY <1>1 DEF MInv, OInv, Numbered, OptionalReplacement
<1>16. Entered'
  <2>1. ASSUME NEW o \in owners'
        PROVE  \/ /\ o[1] = replacement[o[2]]
                  /\ o[2] \in pipelines \/ \E u \in Threads : Destroys(u, o[2])'
               \/ \E u \in Threads : Publishes(u, o[2])' /\ loc[u].old = o[1]
    <3>1. CASE o \in kept
      <4>1. o \in owners /\ o[1] # old
        BY <1>8, <3>1
      <4>2. CASE \E u \in Threads : Publishes(u, o[2]) /\ loc[u].old = o[1]
        <5>1. PICK u \in Threads : Publishes(u, o[2]) /\ loc[u].old = o[1]
          BY <4>2
        <5>2. u # t
          BY <1>4, <4>1, <5>1
        <5> QED BY <1>12, <5>1, <5>2
      <4>3. CASE /\ o[1] = replacement[o[2]]
                 /\ o[2] \in pipelines \/ \E u \in Threads : Destroys(u, o[2])
        BY <1>12, <4>3
      <4> QED BY <4>1, <4>2, <4>3 DEF MInv, Mapped, Entered
    <3>2. CASE o \notin kept
      <4>1. o = <<repl, p>> /\ p \in pipelines
        BY <1>9, <2>1, <3>2
      <4> QED BY <1>6, <4>1
    <3> QED BY <3>1, <3>2
  <2> QED BY <1>5, <2>1 DEF Entered
<1>17. Listed'
  <2>1. ASSUME NEW q \in pipelines, replacement[q] # NoReplacement
        PROVE  <<replacement[q], q>> \in owners' \/ \E u \in Threads : Publishes(u, q)'
    <3>0. q \in Pipelines
      BY <1>1
    <3>1. PICK o : o = <<replacement[q], q>>
      OBVIOUS
    <3>2. o[1] = replacement[q] /\ o[2] = q
      BY <3>1
    <3>3. CASE q = p
      <4>1. repl = replacement[q] /\ o = <<repl, p>>
        BY <1>6, <2>1, <3>1, <3>3
      <4>2. o \in owners'
        BY <1>9, <2>1, <3>3, <4>1
      <4> QED BY <3>1, <4>2
    <3>4. CASE q # p
      <4>1. CASE o \in owners
        <5>1. o \in kept
          BY <1>8, <1>14, <2>1, <3>0, <3>2, <4>1
        <5>2. p \in pipelines /\ repl # NoReplacement => o[1] # repl
          BY <1>3, <1>6, <1>15, <3>0, <3>2, <3>4
        <5>3. o \in owners'
          BY <1>9, <5>1, <5>2
        <5> QED BY <3>1, <5>3
      <4>2. CASE \E u \in Threads : Publishes(u, q)
        <5>1. PICK u \in Threads : Publishes(u, q)
          BY <4>2
        <5>2. u # t
          BY <1>2, <3>4, <5>1 DEF Publishes
        <5> QED BY <1>12, <5>1, <5>2
      <4> QED BY <2>1, <3>1, <4>1, <4>2 DEF MInv, Mapped, Listed
    <3> QED BY <3>3, <3>4
  <2> QED BY <1>5, <2>1 DEF Listed
<1>18. Current' /\ Leaving' /\ Fresh'
  BY <1>5, <1>10, <1>11 DEF MInv, Mapped, Current, Leaving, Fresh, Rec
<1> QED
  BY <1>16, <1>17, <1>18 DEF Mapped

(* A created record is new: no Publish and no destruction knows it.          *)
LEMMA InitPipelineMapped ==
  ASSUME MInv, NEW t \in Threads, NEW p \in Pipelines, InitPipeline(t, p)
  PROVE  Mapped'
<1>1. /\ pc \in [Threads -> PCs] /\ loc \in [Threads -> Locals]
      /\ replacement \in [Pipelines -> OptionalReplacement]
      /\ pipelines \subseteq created /\ created \subseteq Pipelines
  BY MappedTypes DEF MInv
<1>2. /\ pc[t] = "idle" /\ pc' = [pc EXCEPT ![t] = "init_count"]
      /\ p \notin created /\ created' = created \cup {p}
      /\ pipelines' = pipelines \cup {p}
      /\ \A u \in Threads \ {t} : loc'[u] = loc[u]
      /\ UNCHANGED <<replacement, owners>>
  BY <1>1 DEF InitPipeline, Goto, recordVars
<1>3. pc'[t] = "init_count" /\ \A u \in Threads \ {t} : pc'[u] = pc[u]
  BY <1>1, <1>2
<1>4. \A u \in Threads : \A q :
        /\ Publishes(u, q)' <=> Publishes(u, q)
        /\ Destroys(u, q)' <=> Destroys(u, q)
        /\ Publishes(u, q) => u # t
  BY <1>2, <1>3 DEF Publishes, Destroys, Rec
<1>5. \A u \in Threads : pc'[u] \in MapPCs => pc[u] \in MapPCs /\ u # t /\ Rec(u) # p
  BY <1>2, <1>3, AtRecord DEF MapPCs
<1>6. Entered'
  BY <1>2, <1>4 DEF MInv, Mapped, Entered
<1>7. replacement[p] = NoReplacement
  BY <1>2 DEF MInv, Mapped, Fresh
<1>8. Listed'
  BY <1>2, <1>4, <1>7 DEF MInv, Mapped, Listed
<1>9. Current'
  BY <1>2, <1>3, <1>5 DEF MInv, Mapped, Current, MapPCs, Rec
<1>10. Leaving'
  BY <1>2, <1>3, <1>5 DEF MInv, Mapped, Leaving, MapPCs, Rec
<1>11. Fresh'
  BY <1>2 DEF MInv, Mapped, Fresh
<1> QED
  BY <1>6, <1>8, <1>9, <1>10, <1>11 DEF Mapped

(* A pipeline leaves the map when its destruction begins.                   *)
LEMMA DestroyPipelineMapped ==
  ASSUME MInv, NEW t \in Threads, NEW p \in Pipelines, DestroyPipeline(t, p)
  PROVE  Mapped'
<1>1. pc \in [Threads -> PCs] /\ loc \in [Threads -> Locals]
  BY MappedTypes DEF MInv
<1>2. /\ pc[t] = "idle" /\ pc' = [pc EXCEPT ![t] = "destroy_mark"]
      /\ loc' = [loc EXCEPT ![t] = [@ EXCEPT !.call = "destroy", !.rec = p]]
      /\ pipelines' = pipelines \ {p}
      /\ UNCHANGED <<replacement, owners, created>>
  BY DEF DestroyPipeline, Goto, recordVars
<1>3. /\ pc'[t] = "destroy_mark" /\ loc'[t].rec = p
      /\ \A u \in Threads \ {t} : pc'[u] = pc[u] /\ loc'[u] = loc[u]
  BY <1>1, <1>2 DEF Locals
<1>4. Destroys(t, p)'
  BY <1>3 DEF Destroys, Rec
<1>5. \A u \in Threads : \A q :
        /\ Publishes(u, q)' <=> Publishes(u, q)
        /\ Destroys(u, q) => Destroys(u, q)'
        /\ Publishes(u, q) => u # t
  BY <1>2, <1>3 DEF Publishes, Destroys, Rec
<1>6. Entered'
  <2>1. ASSUME NEW o \in owners
        PROVE  \/ /\ o[1] = replacement[o[2]]
                  /\ o[2] \in pipelines' \/ \E u \in Threads : Destroys(u, o[2])'
               \/ \E u \in Threads : Publishes(u, o[2])' /\ loc'[u].old = o[1]
    <3>1. CASE \E u \in Threads : Publishes(u, o[2]) /\ loc[u].old = o[1]
      BY <1>3, <1>5, <3>1
    <3>2. CASE /\ o[1] = replacement[o[2]]
               /\ o[2] \in pipelines \/ \E u \in Threads : Destroys(u, o[2])
      BY <1>2, <1>4, <1>5, <3>2
    <3> QED BY <3>1, <3>2 DEF MInv, Mapped, Entered
  <2> QED BY <1>2, <2>1 DEF Entered
<1>7. Listed'
  BY <1>2, <1>5 DEF MInv, Mapped, Listed
<1>8. Current' /\ Leaving' /\ Fresh'
  BY <1>2, <1>3 DEF MInv, Mapped, Current, Leaving, Fresh, Rec
<1> QED
  BY <1>6, <1>7, <1>8 DEF Mapped

(* The destruction goes on.                                                 *)
LEMMA DestroyMarkMapped ==
  ASSUME MInv, NEW t \in Threads, DestroyMark(t)
  PROVE  Mapped'
<1>1. pc \in [Threads -> PCs]
  BY MappedTypes DEF MInv
<1>2. /\ pc[t] = "destroy_mark" /\ pc' = [pc EXCEPT ![t] = "destroy_swap"]
      /\ UNCHANGED <<replacement, owners, pipelines, created, loc>>
  BY DEF DestroyMark, Goto, mapVars
<1>3. pc'[t] = "destroy_swap" /\ \A u \in Threads \ {t} : pc'[u] = pc[u]
  BY <1>1, <1>2
<1>4. \A u \in Threads : \A q :
        /\ Publishes(u, q)' <=> Publishes(u, q)
        /\ Destroys(u, q)' <=> Destroys(u, q)
  BY <1>2, <1>3 DEF Publishes, Destroys, Rec
<1>5. Entered' /\ Listed'
  BY <1>2, <1>4 DEF MInv, Mapped, Entered, Listed
<1>6. Current' /\ Leaving' /\ Fresh'
  BY <1>2, <1>3 DEF MInv, Mapped, Current, Leaving, Fresh, Rec
<1> QED
  BY <1>5, <1>6 DEF Mapped

(* The destruction takes what the record publishes out of the map.          *)
LEMMA DestroySwapMapped ==
  ASSUME MInv, NEW t \in Threads, DestroySwap(t)
  PROVE  Mapped'
<1>1. /\ pc \in [Threads -> PCs] /\ loc \in [Threads -> Locals]
      /\ replacement \in [Pipelines -> OptionalReplacement]
      /\ owners \subseteq Replacements \X Pipelines
      /\ pipelines \subseteq Pipelines
  BY MappedTypes DEF MInv
<1>2. PICK p : p = Rec(t)
  OBVIOUS
<1>3. p \in Pipelines /\ p \notin pipelines /\ pc[t] = "destroy_swap"
  BY <1>2, AtRecord DEF DestroySwap, MapPCs, MInv, Mapped, Leaving
<1>4. PICK r : r = replacement[p]
  OBVIOUS
<1>5. /\ replacement' = [replacement EXCEPT ![p] = NoReplacement]
      /\ owners' = {o \in owners : o[1] # r}
      /\ UNCHANGED <<pipelines, created>>
  BY <1>2, <1>4 DEF DestroySwap, mapVars
<1>6. pc'[t] \notin MapPCs /\ \A u \in Threads \ {t} : pc'[u] = pc[u] /\ loc'[u] = loc[u]
  BY <1>1 DEF DestroySwap, Return, Goto, MapPCs
<1>7. \A q \in Pipelines : replacement'[q] = IF q = p THEN NoReplacement ELSE replacement[q]
  BY <1>1, <1>5
<1>8. ASSUME NEW u \in Threads, NEW q
      PROVE  /\ Publishes(u, q)' <=> Publishes(u, q)
             /\ q # p => (Destroys(u, q)' <=> Destroys(u, q))
             /\ Publishes(u, q) => u # t
  BY <1>2, <1>3, <1>6 DEF Publishes, Destroys, MapPCs, Rec
<1>9. \A q \in Pipelines : replacement[q] # NoReplacement => replacement[q].rec = q
  BY <1>1 DEF MInv, OInv, Numbered, OptionalReplacement
<1>10. Entered'
  <2>1. ASSUME NEW o \in owners, o[1] # r
        PROVE  \/ /\ o[1] = replacement'[o[2]]
                  /\ o[2] \in pipelines \/ \E u \in Threads : Destroys(u, o[2])'
               \/ \E u \in Threads : Publishes(u, o[2])' /\ loc'[u].old = o[1]
    <3>0. o[2] \in Pipelines
      BY <1>1
    <3>1. CASE \E u \in Threads : Publishes(u, o[2]) /\ loc[u].old = o[1]
      BY <1>6, <1>8, <3>1
    <3>2. CASE /\ o[1] = replacement[o[2]]
               /\ o[2] \in pipelines \/ \E u \in Threads : Destroys(u, o[2])
      <4>1. o[2] # p
        BY <1>4, <2>1, <3>2
      <4> QED BY <1>7, <1>8, <3>0, <3>2, <4>1
    <3> QED BY <3>1, <3>2 DEF MInv, Mapped, Entered
  <2> QED BY <1>5, <2>1 DEF Entered
<1>11. Listed'
  <2>1. ASSUME NEW q \in pipelines, replacement'[q] # NoReplacement
        PROVE  <<replacement'[q], q>> \in owners' \/ \E u \in Threads : Publishes(u, q)'
    <3>1. q \in Pipelines /\ q # p /\ replacement'[q] = replacement[q]
      BY <1>1, <1>3, <1>7
    <3>2. replacement[q] # r
      BY <1>3, <1>4, <1>9, <2>1, <3>1
    <3>3. <<replacement[q], q>> \in owners \/ \E u \in Threads : Publishes(u, q)
      BY <2>1, <3>1 DEF MInv, Mapped, Listed
    <3>4. <<replacement[q], q>> \in owners => <<replacement[q], q>> \in owners'
      <4>1. PICK o : o = <<replacement[q], q>>
        OBVIOUS
      <4>2. o[1] = replacement[q]
        BY <4>1
      <4> QED BY <1>5, <3>2, <4>1, <4>2
    <3> QED BY <1>8, <3>1, <3>3, <3>4
  <2> QED BY <1>5, <2>1 DEF Listed
<1>12. Current' /\ Leaving' /\ Fresh'
  <2>1. ASSUME NEW u \in Threads, pc'[u] = "pub_owners", loc'[u].rec \in pipelines
        PROVE  replacement'[loc'[u].rec] = loc'[u].repl
    <3>1. u # t /\ pc[u] = "pub_owners" /\ loc'[u] = loc[u]
      BY <1>6, <2>1 DEF MapPCs
    <3>2. replacement[loc[u].rec] = loc[u].repl /\ loc[u].rec # p /\ loc[u].rec \in Pipelines
      BY <1>1, <1>3, <2>1, <3>1 DEF MInv, Mapped, Current, Rec
    <3> QED BY <1>7, <3>1, <3>2
  <2>2. Current'
    BY <1>5, <2>1 DEF Current, Rec
  <2>3. Leaving'
    BY <1>5, <1>6 DEF MInv, Mapped, Leaving, MapPCs, Rec
  <2>4. Fresh'
    BY <1>5, <1>7 DEF MInv, Mapped, Fresh
  <2> QED BY <2>2, <2>3, <2>4
<1> QED
  BY <1>10, <1>11, <1>12 DEF Mapped

(* A Publish keeps the map.                                                 *)
LEMMA PublishMapped ==
  ASSUME D3D11, MInv, Alone, NoLateReuse, NEW t \in Threads, PublishStep(t)
  PROVE  Mapped'
<1>1. pc \in [Threads -> PCs] /\ loc \in [Threads -> Locals]
  BY MappedTypes DEF MInv
<1>2. CASE PublishCheck(t) \/ PublishStatus(t)
  <2>1. /\ pc[t] \notin MapPCs /\ pc'[t] \notin MapPCs
        /\ \A u \in Threads \ {t} : pc'[u] = pc[u] /\ loc'[u] = loc[u]
    BY <1>1, <1>2 DEF PublishCheck, PublishStatus, Return, Goto, MapPCs
  <2>2. UNCHANGED <<replacement, owners, pipelines, created>>
    BY <1>2 DEF PublishCheck, PublishStatus, mapVars, recordVars
  <2> QED BY <2>1, <2>2, MapQuiet DEF MInv
<1> QED
  BY <1>2, PublishSwapMapped, PublishOwnersMapped DEF PublishStep

(* A worker keeps it.                                                       *)
LEMMA WorkerMapped ==
  ASSUME D3D11, MInv, Alone, NoLateReuse, NEW w \in Workers, WorkerStep(w)
  PROVE  Mapped'
<1>0. pc \in [Threads -> PCs] /\ loc \in [Threads -> Locals] /\ w \in Threads
  BY MappedTypes DEF MInv, Threads
<1>1. CASE TakeJob(w) \/ CheckJob(w) \/ PatchJob(w) \/ BuildBindings(w) \/ CreateReplacement(w)
  <2>1. pc[w] \notin MapPCs
    BY <1>1 DEF TakeJob, CheckJob, PatchJob, BuildBindings, CreateReplacement, MapPCs
  <2>2. pc'[w] \notin MapPCs
    BY <1>0, <1>1 DEF TakeJob, CheckJob, PatchJob, BuildBindings, CreateReplacement,
       StartPublish, Return, Goto, MapPCs
  <2>3. \A u \in Threads \ {w} : pc'[u] = pc[u] /\ loc'[u] = loc[u]
    BY <1>0, <1>1 DEF TakeJob, CheckJob, PatchJob, BuildBindings, CreateReplacement,
       StartPublish, Return, Goto
  <2>4. UNCHANGED <<replacement, owners, pipelines, created>>
    BY <1>1 DEF TakeJob, CheckJob, PatchJob, BuildBindings, CreateReplacement, globals,
       mapVars, recordVars
  <2> QED BY <1>0, <2>1, <2>2, <2>3, <2>4, MapQuiet DEF MInv
<1> QED
  BY <1>0, <1>1, PublishMapped DEF WorkerStep

(* A call from outside keeps it.                                            *)
LEMMA CallMapped ==
  ASSUME D3D11, MInv, Alone, NoLateReuse, NEW t \in Callers, CallStep(t)
  PROVE  Mapped'
<1>0. pc \in [Threads -> PCs] /\ loc \in [Threads -> Locals] /\ t \in Threads
  BY MappedTypes DEF MInv, Threads
<1>1. CASE \/ EnqueueRequest(t) \/ EnqueueMark(t) \/ EnqueuePush(t) \/ RepatchNext(t)
           \/ InitCount(t) \/ InitRecipes(t) \/ StoreRecipes(t) \/ ReloadResources(t)
           \/ RepatchSnapshot(t) \/ LoadFirst(t) \/ LoadSwap(t) \/ LoadRecipes(t)
           \/ LoadSnapshot(t)
  <2>1. pc[t] \notin MapPCs
    BY <1>1 DEF EnqueueRequest, EnqueueMark, EnqueuePush, RepatchNext, InitCount,
       InitRecipes, StoreRecipes, ReloadResources, RepatchSnapshot, LoadFirst, LoadSwap,
       LoadRecipes, LoadSnapshot, MapPCs
  <2>2. pc'[t] \notin MapPCs
    BY <1>0, <1>1 DEF EnqueueRequest, EnqueueMark, EnqueuePush, RepatchNext, InitCount,
       InitRecipes, StoreRecipes, ReloadResources, RepatchSnapshot, LoadFirst, LoadSwap,
       LoadRecipes, LoadSnapshot, StartPublish, Return, TakeSnapshot, Goto, MapPCs
  <2>3. \A u \in Threads \ {t} : pc'[u] = pc[u] /\ loc'[u] = loc[u]
    BY <1>0, <1>1 DEF EnqueueRequest, EnqueueMark, EnqueuePush, RepatchNext, InitCount,
       InitRecipes, StoreRecipes, ReloadResources, RepatchSnapshot, LoadFirst, LoadSwap,
       LoadRecipes, LoadSnapshot, StartPublish, Return, TakeSnapshot, Goto
  <2>4. UNCHANGED <<replacement, owners, pipelines, created>>
    BY <1>1 DEF EnqueueRequest, EnqueueMark, EnqueuePush, RepatchNext, InitCount,
       InitRecipes, StoreRecipes, ReloadResources, RepatchSnapshot, LoadFirst, LoadSwap,
       LoadRecipes, LoadSnapshot, globals, mapVars, recordVars
  <2> QED BY <1>0, <2>1, <2>2, <2>3, <2>4, MapQuiet DEF MInv
<1>2. CASE PublishStep(t) \/ DestroyMark(t) \/ DestroySwap(t)
  BY <1>0, <1>2, PublishMapped, DestroyMarkMapped, DestroySwapMapped
<1> QED
  BY <1>1, <1>2 DEF CallStep

(* Every step keeps the map, where no Publish is overtaken.                 *)
LEMMA NextMapped ==
  ASSUME D3D11, MInv, Alone, NoLateReuse, [Next]_vars
  PROVE  MInv'
<1>0. pc \in [Threads -> PCs] /\ loc \in [Threads -> Locals]
  BY MappedTypes DEF MInv
<1>1. OInv' /\ Made'
  BY NextOwner, NextMade DEF MInv, OInv
<1>2. ASSUME NEW t \in Creators, NEW p \in Pipelines, InitPipeline(t, p) \/ DestroyPipeline(t, p)
      PROVE  Mapped'
  BY <1>2, InitPipelineMapped, DestroyPipelineMapped DEF Threads, Callers
<1>3. ASSUME NEW t \in Threads, ApplyEnvOverrides(t) \/ ReloadAll(t) \/ LoadBegin(t)
      PROVE  Mapped'
  <2>1. /\ pc[t] \notin MapPCs /\ pc'[t] \notin MapPCs
        /\ \A u \in Threads \ {t} : pc'[u] = pc[u] /\ loc'[u] = loc[u]
    BY <1>0, <1>3 DEF ApplyEnvOverrides, ReloadAll, NewRecipes, LoadBegin, Goto, MapPCs
  <2>2. UNCHANGED <<replacement, owners, pipelines, created>>
    BY <1>3 DEF ApplyEnvOverrides, ReloadAll, NewRecipes, LoadBegin, mapVars, recordVars
  <2> QED BY <2>1, <2>2, MapQuiet DEF MInv
<1>4. ASSUME UNCHANGED vars PROVE Mapped'
  <2>1. UNCHANGED <<pc, loc, replacement, owners, pipelines, created>>
    BY <1>4 DEF vars, globals, mapVars, recordVars
  <2>2. \A u \in Threads : \A q :
          /\ Publishes(u, q)' <=> Publishes(u, q)
          /\ Destroys(u, q)' <=> Destroys(u, q)
    BY <2>1 DEF Publishes, Destroys, Rec
  <2>3. Entered' /\ Listed'
    BY <2>1, <2>2 DEF MInv, Mapped, Entered, Listed
  <2>4. Current' /\ Leaving' /\ Fresh'
    BY <2>1 DEF MInv, Mapped, Current, Leaving, Fresh, Rec
  <2> QED BY <2>3, <2>4 DEF Mapped
<1>5. Mapped'
  <2>1. ASSUME NEW w \in Workers, WorkerStep(w) PROVE Mapped'
    BY <2>1, WorkerMapped
  <2>2. ASSUME NEW t \in Callers, CallStep(t) PROVE Mapped'
    BY <2>2, CallMapped
  <2> QED BY <1>2, <1>3, <1>4, <2>1, <2>2 DEF Next, Threads, Callers
<1> QED
  BY <1>1, <1>5 DEF MInv

LEMMA InitMapped == Init => MInv
<1> SUFFICES ASSUME Init PROVE Mapped
  BY InitOwner, InitMade DEF MInv
<1> QED
  BY DEF Init, Mapped, Entered, Listed, Current, Leaving, Fresh

(* In a quiet state no step is left to make or to erase an entry.            *)
LEMMA MappedPublished ==
  ASSUME MInv
  PROVE  OwnersArePublished
<1> SUFFICES ASSUME Idle
             PROVE  owners = {<<replacement[p], p>> :
                                p \in {q \in pipelines : replacement[q] # NoReplacement}}
  BY DEF OwnersArePublished
<1>1. owners \subseteq Replacements \X Pipelines
  BY MappedTypes DEF MInv
<1>2. \A t \in Threads : \A q : ~ Publishes(t, q) /\ ~ Destroys(t, q)
  BY DEF Idle, Publishes, Destroys
<1>3. \A o \in owners : o[1] = replacement[o[2]] /\ o[2] \in pipelines
  BY <1>2 DEF MInv, Mapped, Entered
<1>4. \A o \in owners : o = <<o[1], o[2]>> /\ o[1] # NoReplacement
  BY <1>1, NoReplacementIsNone
<1>5. \A p \in pipelines : replacement[p] # NoReplacement => <<replacement[p], p>> \in owners
  BY <1>2 DEF MInv, Mapped, Listed
<1> QED
  BY <1>3, <1>4, <1>5

(* D3D11: where no Publish is overtaken by another one or by the reuse of    *)
(* its handle, the owner map of a quiet state is what is published.          *)
THEOREM OwnersPublishedUnlessOvertaken ==
  Spec /\ []Alone /\ []NoLateReuse => []OwnersArePublished
<1>1. CASE D3D11
  <2>1. MInv /\ Alone /\ NoLateReuse /\ [Next]_vars => MInv'
    BY <1>1, NextMapped
  <2> QED
    BY <2>1, InitMapped, MappedPublished, PTL DEF Spec
<1>2. CASE ~ D3D11
  <2>1. OwnersArePublished
    BY <1>2 DEF OwnersArePublished
  <2> QED
    BY <2>1, PTL
<1> QED
  BY <1>1, <1>2

-----------------------------------------------------------------------------
(* One worker, a handle per pipeline, and recipes for all of them: callers   *)
(* publish nothing then.                                                     *)
OneWorker == \A v, w \in Workers : v = w
OwnHandles == \A p, q \in Pipelines : Handle[p] = Handle[q] => p = q
AllApplicable == \A p \in Pipelines : \A g \in 1..MaxGen : Effect[p][g] # "inapplicable"

OnlyWorkersPublish == \A t \in Threads : pc[t] \in PublishPCs => t \in Workers

LEMMA NextOnlyWorkers ==
  ASSUME AllApplicable, TInv, OnlyWorkersPublish, [Next]_vars
  PROVE  OnlyWorkersPublish'
<1>0. pc \in [Threads -> PCs]
  BY DEF TInv, TypeOK, ThreadsOK
<1>1. ASSUME NEW t \in Threads, \A u \in Threads \ {t} : pc'[u] = pc[u],
             pc'[t] \in PublishPCs => pc[t] \in PublishPCs \/ t \in Workers
      PROVE  OnlyWorkersPublish'
  BY <1>1 DEF OnlyWorkersPublish
<1>2. ASSUME NEW t \in Threads, PublishStep(t)
      PROVE  OnlyWorkersPublish'
  <2>1. pc[t] \in PublishPCs /\ \A u \in Threads \ {t} : pc'[u] = pc[u]
    BY <1>0, <1>2 DEF PublishStep, PublishCheck, PublishSwap, PublishOwners, PublishStatus,
       Return, Goto, PublishPCs
  <2> QED BY <1>1, <2>1
<1>3. ASSUME NEW w \in Workers, WorkerStep(w)
      PROVE  OnlyWorkersPublish'
  <2>0. w \in Threads
    BY DEF Threads
  <2>1. CASE ~ PublishStep(w)
    <3>1. \A u \in Threads \ {w} : pc'[u] = pc[u]
      BY <1>0, <1>3, <2>1 DEF WorkerStep, TakeJob, CheckJob, PatchJob, BuildBindings,
         CreateReplacement, StartPublish, Return, Goto
    <3> QED BY <1>1, <2>0, <3>1
  <2> QED BY <1>2, <2>0, <2>1
<1>4. ASSUME NEW t \in Callers, CallStep(t)
      PROVE  OnlyWorkersPublish'
  <2>0. t \in Threads
    BY DEF Threads
  <2>1. CASE EnqueueRequest(t)
    <3>1. Rec(t) \in Pipelines /\ Gen(t) \in 1..MaxGen
      BY <2>0, <2>1 DEF EnqueueRequest, TInv, Control, ControlAt, EnqueuePCs, Rec, Gen
    <3>2. Effect[Rec(t)][Gen(t)] # "inapplicable"
      BY <3>1 DEF AllApplicable
    <3>3. pc' = [pc EXCEPT ![t] = "mark"]
      BY <2>1, <3>2 DEF EnqueueRequest, Goto
    <3> QED BY <1>0, <1>1, <2>0, <3>3 DEF PublishPCs
  <2>2. CASE ~ PublishStep(t) /\ ~ EnqueueRequest(t)
    <3>1. \A u \in Threads \ {t} : pc'[u] = pc[u]
      BY <1>0, <1>4, <2>2 DEF CallStep, EnqueueMark, EnqueuePush, RepatchNext, InitCount,
         InitRecipes, DestroyMark, DestroySwap, StoreRecipes, ReloadResources,
         RepatchSnapshot, LoadFirst, LoadSwap, LoadRecipes, LoadSnapshot, Return,
         TakeSnapshot, Goto
    <3>2. pc'[t] \notin PublishPCs
      BY <1>0, <1>4, <2>0, <2>2 DEF CallStep, EnqueueMark, EnqueuePush, RepatchNext,
         InitCount, InitRecipes, DestroyMark, DestroySwap, StoreRecipes, ReloadResources,
         RepatchSnapshot, LoadFirst, LoadSwap, LoadRecipes, LoadSnapshot, Return,
         TakeSnapshot, Goto, PublishPCs
    <3> QED BY <1>1, <2>0, <3>1, <3>2
  <2> QED BY <1>2, <2>0, <2>1, <2>2
<1>5. ASSUME NEW t \in Threads,
             \/ \E p \in Pipelines : InitPipeline(t, p) \/ DestroyPipeline(t, p)
             \/ ApplyEnvOverrides(t) \/ ReloadAll(t) \/ LoadBegin(t)
      PROVE  OnlyWorkersPublish'
  <2>1. pc'[t] \notin PublishPCs /\ \A u \in Threads \ {t} : pc'[u] = pc[u]
    BY <1>0, <1>5 DEF InitPipeline, DestroyPipeline, ApplyEnvOverrides, ReloadAll,
       NewRecipes, LoadBegin, Goto, PublishPCs
  <2> QED BY <1>1, <2>1
<1>6. CASE UNCHANGED vars
  BY <1>6 DEF vars, OnlyWorkersPublish
<1> QED
  BY <1>3, <1>4, <1>5, <1>6 DEF Next, Threads, Callers

(* D3D11: with one worker, a handle for each pipeline and recipes for every  *)
(* shader, the owner map of a quiet state has the published replacements     *)
(* of live pipelines and no other, whatever the number of pipelines, calls   *)
(* and generations.                                                          *)
THEOREM OwnersArePublishedHolds ==
  ASSUME OneWorker, OwnHandles, AllApplicable
  PROVE  Spec => []OwnersArePublished
<1>1. Init => OnlyWorkersPublish
  BY DEF Init, OnlyWorkersPublish, PublishPCs
<1>2. OnlyWorkersPublish => Alone
  BY DEF OneWorker, OnlyWorkersPublish, Alone, PublishPCs
<1>3. TInv => NoLateReuse
  <2> SUFFICES ASSUME TInv, NEW t \in Threads, pc[t] = "pub_owners", NEW q \in pipelines,
                      Handle[q] = Handle[Rec(t)]
               PROVE  q = Rec(t)
    BY DEF NoLateReuse
  <2>1. Rec(t) \in Pipelines /\ q \in Pipelines
    BY DEF TInv, TypeOK, GlobalsOK, Control, ControlAt, PublishPCs, Rec
  <2> QED BY <2>1 DEF OwnHandles
<1>4. TInv /\ OnlyWorkersPublish /\ [Next]_vars => OnlyWorkersPublish'
  BY NextOnlyWorkers
<1>5. Spec => []Alone /\ []NoLateReuse
  BY <1>1, <1>2, <1>3, <1>4, InitType, NextType, PTL DEF Spec
<1> QED
  BY <1>5, OwnersPublishedUnlessOvertaken, PTL

=============================================================================
