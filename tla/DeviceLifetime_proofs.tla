------------------------ MODULE DeviceLifetime_proofs ------------------------
(* The retire queue and the teardown of a device for every number of       *)
(* devices, workers, lists, objects, frames and queued jobs: the GPU uses   *)
(* only living objects, nothing but an orphan of a job that has ended       *)
(* outlives its device, and in_flight counts the jobs.                      *)
EXTENDS DeviceLifetime, FiniteSetTheorems, TLAPS

WorkerPCs ==
  {"idle", "check", "bindings", "create", "publish", "exchange", "retire", "done", "free"}
OverlayPCs == {"idle", "reload", "repatch"}
GamePCs == {"idle", "enqueue", "take", "retire"}
Phases == {"up", "erased", "dead", "purged", "idle", "gone"}

(* Types.                                                                   *)
Typed ==
  /\ frame \in Nat
  /\ retired \subseteq [frame : Nat, device : Devices, object : Objects]
  /\ lock \in BOOLEAN
  /\ inFlight \in [Devices -> Int]
  /\ queue \in [Jobs -> Records \cup {Null}]
  /\ pipelines \subseteq Records /\ destroyed \subseteq Records /\ copied \subseteq Records
  /\ replacement \in [Records -> Replacements \cup {Null}]
  /\ resources \in [Devices -> Sets \cup {Null}]
  /\ teardown \in [Devices -> Phases]
  /\ pc \in [Threads -> WorkerPCs \cup OverlayPCs \cup GamePCs]
  /\ dev \in [Threads -> Devices \cup {Null}]
  /\ job \in [Threads -> Records \cup {Null}]
  /\ held \in [Threads -> Objects \cup {Null}]
  /\ rest \subseteq Devices
  /\ built \subseteq Objects
  /\ setOf \in [Replacements -> Sets \cup {Null}]
  /\ pending \in [Lists -> Uses \cup {Unbound}]
  /\ gpu \subseteq Uses

(* What a thread has in its locals at each place of its code.  A worker's   *)
(* job outlives its device: "free" has a record and no device.              *)
WorkerControl ==
  \A w \in Workers :
    /\ pc[w] \in WorkerPCs
    /\ pc[w] \in {"idle", "free"} <=> dev[w] = Null
    /\ pc[w] = "idle" <=> job[w] = Null
    /\ dev[w] # Null => DeviceOf[job[w]] = dev[w]
    /\ held[w] \in Replacements \cup {Null}
    /\ held[w] # Null => pc[w] \in {"create", "publish", "exchange", "retire"}

OverlayControl ==
  /\ pc[Overlay] \in OverlayPCs
  /\ job[Overlay] = Null
  /\ held[Overlay] = Null <=> dev[Overlay] = Null
  /\ lock <=> pc[Overlay] = "repatch"
  /\ pc[Overlay] = "idle" => rest = {} /\ dev[Overlay] = Null
  /\ pc[Overlay] = "reload" /\ dev[Overlay] # Null => dev[Overlay] \in rest
  /\ copied # {} => pc[Overlay] = "repatch"
  /\ pc[Overlay] = "repatch" =>
       /\ rest \subseteq devices
       /\ dev[Overlay] # Null => dev[Overlay] \in devices
       /\ \A p \in copied : DeviceOf[p] \in devices

(* The game calls the add-on for devices that are up.                       *)
GameControl ==
  \A g \in Games :
    /\ pc[g] \in GamePCs
    /\ pc[g] = "idle" <=> dev[g] = Null
    /\ pc[g] = "idle" <=> job[g] = Null
    /\ dev[g] # Null => DeviceOf[job[g]] = dev[g] /\ teardown[dev[g]] = "up"
    /\ held[g] # Null => pc[g] = "retire"

(* Whoever refers to an object does so on the object's device.              *)
Belongs ==
  /\ \A p \in Records : replacement[p] # Null =>
       replacement[p] \in built /\ DeviceOf[replacement[p]] = DeviceOf[p]
  /\ \A d \in Devices : resources[d] # Null => DeviceOf[resources[d]] = d
  /\ \A t \in Threads : held[t] # Null => held[t] \in built /\ DeviceOf[held[t]] = dev[t]
  /\ \A e \in retired : DeviceOf[e.object] = e.device
  /\ \A r \in Replacements : setOf[r] # Null => DeviceOf[setOf[r]] = DeviceOf[r]
  /\ \A l \in Lists : pending[l] # Unbound =>
       pending[l].object \in built /\ DeviceOf[pending[l].object] = DeviceOf[l]
  /\ \A u \in gpu : u.object \in built

(* Lists and the GPU work on devices that are up, which are those of        *)
(* g_devices.                                                               *)
OnLiveDevices ==
  /\ devices = {d \in Devices : teardown[d] = "up"}
  /\ \A l \in Lists : pending[l] # Unbound => teardown[DeviceOf[l]] = "up"
  /\ \A u \in gpu : teardown[DeviceOf[u.object]] = "up"

(* in_flight counts the queued jobs and the workers that have one.          *)
WorkingOn(d) == {w \in Workers : dev[w] = d}
Counted ==
  \A d \in Devices : inFlight[d] = Cardinality(QueuedOn(d)) + Cardinality(WorkingOn(d))

RefInv == Typed /\ WorkerControl /\ OverlayControl /\ GameControl /\ Belongs /\ OnLiveDevices

(* A record somebody refers to is in the map, was destroyed, or went with   *)
(* its device.                                                              *)
Mapped ==
  \A p \in LiveRecords : p \in pipelines \cup destroyed \/ teardown[DeviceOf[p]] = "gone"

(* Whoever worked for a device is gone before it is.                        *)
Torn ==
  /\ rest \subseteq devices
  /\ \A d \in Devices :
       /\ teardown[d] \in {"purged", "idle", "gone"} => QueuedOn(d) = {}
       /\ teardown[d] \in {"idle", "gone"} => inFlight[d] = 0
       /\ teardown[d] = "gone" => resources[d] = Null /\ \A e \in retired : e.device # d

(* Of a device that is gone only a destroyed record has a replacement.      *)
Cleared ==
  \A d \in Devices : teardown[d] = "gone" =>
    /\ \A p \in pipelines : DeviceOf[p] # d
    /\ \A p \in LiveRecords \ destroyed : DeviceOf[p] = d => replacement[p] = Null

(* A bound replacement is in a record of the map, in one that is being      *)
(* destroyed, in the hands of the thread that took it from there, or        *)
(* retired no earlier than at the bind.                                     *)
Kept(u) ==
  \/ \E p \in pipelines : replacement[p] = u.object
  \/ \E g \in Games : pc[g] = "take" /\ replacement[job[g]] = u.object
  \/ \E t \in Threads : held[t] = u.object /\ pc[t] \in {"retire"} \cup OverlayPCs
  \/ \E e \in retired : e.object = u.object /\ e.frame >= u.bound

InWindow(u) == u.bound <= frame /\ frame <= u.bound + Window

UsesKept ==
  /\ \A l \in Lists : pending[l] # Unbound =>
       pending[l].bound <= frame /\ (InWindow(pending[l]) => Kept(pending[l]))
  /\ \A u \in gpu : InWindow(u) /\ Kept(u)

-----------------------------------------------------------------------------
(* Each action keeps RefInv.                                                *)

(* There are finitely many jobs on a device.                                *)
LEMMA QueuedOnFinite ==
  ASSUME NEW d
  PROVE  IsFiniteSet(QueuedOn(d)) /\ Cardinality(QueuedOn(d)) \in Nat
BY LifetimeConstants, FS_Subset, FS_CardinalityType DEF QueuedOn

(* What OnBindPipeline leaves pending.                                      *)
LEMMA BindPipelineUse ==
  ASSUME RefInv, NEW l \in Lists, BindPipeline(l)
  PROVE  /\ pending' = [pending EXCEPT ![l] = pending'[l]]
         /\ pending'[l] \in Uses \cup {Unbound}
         /\ pending'[l] # Unbound =>
              \E p \in pipelines :
                /\ DeviceOf[p] = DeviceOf[l] /\ replacement[p] # Null
                /\ pending'[l] = [object |-> replacement[p], bound |-> frame]
<1>1. CASE pending' = [pending EXCEPT ![l] = Unbound]
  BY <1>1 DEF RefInv, Typed
<1>2. ASSUME NEW p \in pipelines, DeviceOf[p] = DeviceOf[l], replacement[p] # Null,
             pending' = [pending EXCEPT ![l] = [object |-> replacement[p], bound |-> frame]]
      PROVE  /\ pending' = [pending EXCEPT ![l] = pending'[l]]
             /\ pending'[l] = [object |-> replacement[p], bound |-> frame]
             /\ pending'[l] \in Uses
  <2>1. p \in Records /\ replacement[p] \in Replacements /\ frame \in Nat
    BY <1>2 DEF RefInv, Typed
  <2>2. [object |-> replacement[p], bound |-> frame] \in Uses
    BY <2>1 DEF Uses
  <2>3. pending'[l] = [object |-> replacement[p], bound |-> frame]
    BY <1>2 DEF RefInv, Typed
  <2> QED
    BY <1>2, <2>2, <2>3
<1> QED
  BY <1>1, <1>2 DEF BindPipeline

(* A present keeps RefInv.                                                 *)
LEMMA PresentRefs ==
  ASSUME RefInv, Present
  PROVE  RefInv'
<1>1. Typed'
  BY DEF Present, RefInv, Typed, teardownVars, jobVars, recordVars, objectVars,
     threadVars, gameVars
<1>2. WorkerControl' /\ OverlayControl' /\ GameControl'
  BY DEF Present, RefInv, WorkerControl, OverlayControl, GameControl, threadVars,
     teardownVars
<1>3. Belongs'
  BY DEF Present, RefInv, Belongs, threadVars, recordVars, objectVars, gameVars
<1>4. OnLiveDevices'
  BY DEF Present, RefInv, OnLiveDevices, teardownVars, gameVars
<1> QED
  BY <1>1, <1>2, <1>3, <1>4 DEF RefInv

(* ShutdownRuntime keeps RefInv.                                           *)
LEMMA ShutdownRefs ==
  ASSUME RefInv, Shutdown
  PROVE  RefInv'
<1>1. Typed'
  BY DEF Shutdown, RefInv, Typed, teardownVars, recordVars, objectVars, threadVars,
     gameVars
<1>2. WorkerControl' /\ OverlayControl' /\ GameControl'
  BY DEF Shutdown, RefInv, WorkerControl, OverlayControl, GameControl, threadVars,
     teardownVars
<1>3. Belongs'
  BY DEF Shutdown, RefInv, Belongs, threadVars, recordVars, objectVars, gameVars
<1>4. OnLiveDevices'
  BY DEF Shutdown, RefInv, OnLiveDevices, teardownVars, gameVars
<1> QED
  BY <1>1, <1>2, <1>3, <1>4 DEF RefInv

(* The start of ReloadAll keeps RefInv.                                    *)
LEMMA ReloadAllRefs ==
  ASSUME RefInv, ReloadAll
  PROVE  RefInv'
<1>1. Typed'
  BY LifetimeConstants DEF ReloadAll, RefInv, Typed, WorkerPCs, OverlayPCs, GamePCs,
     Threads, Objects, Goto, Unbuilt, teardownVars, jobVars, recordVars, objectVars,
     gameVars, OnLiveDevices
<1>2. WorkerControl'
  BY LifetimeConstants DEF ReloadAll, RefInv, WorkerControl, Typed, Threads,
     WorkerPCs, Goto, Unbuilt, teardownVars
<1>3. OverlayControl'
  BY LifetimeConstants DEF ReloadAll, RefInv, OverlayControl, Typed, Threads,
     OverlayPCs, Goto, Unbuilt, teardownVars
<1>4. GameControl'
  BY LifetimeConstants DEF ReloadAll, RefInv, GameControl, Typed, Threads, GamePCs,
     Goto, Unbuilt, teardownVars
<1>5. Belongs'
  BY LifetimeConstants DEF ReloadAll, RefInv, Belongs, Typed, Threads, WorkerControl,
     Goto, Unbuilt, recordVars, objectVars, gameVars
<1>6. OnLiveDevices'
  BY DEF ReloadAll, RefInv, OnLiveDevices, Goto, Unbuilt, teardownVars, gameVars
<1> QED
  BY <1>1, <1>2, <1>3, <1>4, <1>5, <1>6 DEF RefInv

(* LoadResources keeps RefInv.                                             *)
LEMMA LoadResourcesRefs ==
  ASSUME RefInv, NEW d0 \in Devices, LoadResources(d0)
  PROVE  RefInv'
<1>1. Typed'
  BY DEF LoadResources, RefInv, Typed, Unbuilt, teardownVars, jobVars, recordVars,
     threadVars, gameVars, Objects
<1>2. WorkerControl' /\ OverlayControl' /\ GameControl'
  BY DEF LoadResources, RefInv, WorkerControl, OverlayControl, GameControl,
     threadVars, Unbuilt, teardownVars
<1>3. Belongs'
  BY DEF LoadResources, RefInv, Belongs, threadVars, Unbuilt, recordVars, gameVars
<1>4. OnLiveDevices'
  BY DEF LoadResources, RefInv, OnLiveDevices, Unbuilt, teardownVars, gameVars
<1> QED
  BY <1>1, <1>2, <1>3, <1>4 DEF RefInv

(* OnDestroyDevice taking the device out of g_devices keeps RefInv.        *)
LEMMA EraseDeviceRefs ==
  ASSUME RefInv, NEW d0 \in Devices, EraseDevice(d0)
  PROVE  RefInv'
<1>1. Typed'
  BY DEF EraseDevice, RefInv, Typed, TearTo, jobVars, recordVars, objectVars,
     threadVars, gameVars, Phases
<1>2. WorkerControl'
  BY DEF EraseDevice, RefInv, WorkerControl, threadVars, TearTo
<1>3. OverlayControl'
  BY DEF EraseDevice, RefInv, OverlayControl, threadVars, TearTo
<1>4. GameControl'
  BY DEF EraseDevice, RefInv, GameControl, threadVars, TearTo
<1>5. Belongs'
  BY DEF EraseDevice, RefInv, Belongs, threadVars, TearTo, recordVars, objectVars,
     gameVars
<1>6. OnLiveDevices'
  BY DEF EraseDevice, RefInv, OnLiveDevices, TearTo, gameVars, Typed
<1> QED
  BY <1>1, <1>2, <1>3, <1>4, <1>5, <1>6 DEF RefInv

(* A draw keeps RefInv.                                                    *)
LEMMA DrawRefs ==
  ASSUME RefInv, NEW l \in Lists, Draw(l)
  PROVE  RefInv'
<1>1. Typed'
  BY DEF Draw, RefInv, Typed, teardownVars, jobVars, recordVars, objectVars,
     threadVars
<1>2. WorkerControl' /\ OverlayControl' /\ GameControl'
  BY DEF Draw, RefInv, WorkerControl, OverlayControl, GameControl, threadVars,
     teardownVars
<1>3. Belongs'
  BY DEF Draw, RefInv, Belongs, threadVars, recordVars, objectVars
<1>4. OnLiveDevices'
  BY DEF Draw, RefInv, OnLiveDevices, teardownVars, Typed, Belongs
<1> QED
  BY <1>1, <1>2, <1>3, <1>4 DEF RefInv

(* OnResetCommandList keeps RefInv.                                        *)
LEMMA ResetListRefs ==
  ASSUME RefInv, NEW l \in Lists, ResetList(l)
  PROVE  RefInv'
<1>1. Typed'
  BY DEF ResetList, RefInv, Typed, teardownVars, jobVars, recordVars, objectVars,
     threadVars
<1>2. WorkerControl' /\ OverlayControl' /\ GameControl'
  BY DEF ResetList, RefInv, WorkerControl, OverlayControl, GameControl, threadVars,
     teardownVars
<1>3. Belongs'
  BY DEF ResetList, RefInv, Belongs, threadVars, recordVars, objectVars
<1>4. OnLiveDevices'
  BY DEF ResetList, RefInv, OnLiveDevices, teardownVars
<1> QED
  BY <1>1, <1>2, <1>3, <1>4 DEF RefInv

(* The GPU finishing work keeps RefInv.                                    *)
LEMMA FinishRefs ==
  ASSUME RefInv, NEW u \in gpu, Finish(u)
  PROVE  RefInv'
<1>1. Typed'
  BY DEF Finish, RefInv, Typed, teardownVars, jobVars, recordVars, objectVars,
     threadVars
<1>2. WorkerControl' /\ OverlayControl' /\ GameControl'
  BY DEF Finish, RefInv, WorkerControl, OverlayControl, GameControl, threadVars,
     teardownVars
<1>3. Belongs'
  BY DEF Finish, RefInv, Belongs, threadVars, recordVars, objectVars
<1>4. OnLiveDevices'
  BY DEF Finish, RefInv, OnLiveDevices, teardownVars
<1> QED
  BY <1>1, <1>2, <1>3, <1>4 DEF RefInv

(* A worker taking a job keeps RefInv.                                     *)
LEMMA TakeJobRefs ==
  ASSUME RefInv, NEW w \in Workers, TakeJob(w)
  PROVE  RefInv'
<1>1. Typed'
  BY LifetimeConstants DEF TakeJob, RefInv, Typed, WorkerPCs, OverlayPCs, GamePCs,
     Threads, Objects, Goto, teardownVars, recordVars, objectVars, gameVars
<1>2. WorkerControl'
  BY LifetimeConstants DEF TakeJob, RefInv, WorkerControl, Typed, Threads, WorkerPCs,
     Goto, teardownVars
<1>3. OverlayControl'
  BY LifetimeConstants DEF TakeJob, RefInv, OverlayControl, Typed, Threads,
     OverlayPCs, Goto, teardownVars
<1>4. GameControl'
  BY LifetimeConstants DEF TakeJob, RefInv, GameControl, Typed, Threads, GamePCs,
     Goto, teardownVars
<1>5. Belongs'
  BY LifetimeConstants DEF TakeJob, RefInv, Belongs, Typed, Threads, WorkerControl,
     Goto, recordVars, objectVars, gameVars
<1>6. OnLiveDevices'
  BY DEF TakeJob, RefInv, OnLiveDevices, Goto, teardownVars, gameVars
<1> QED
  BY <1>1, <1>2, <1>3, <1>4, <1>5, <1>6 DEF RefInv

(* The test of state.alive keeps RefInv.                                   *)
LEMMA CheckJobRefs ==
  ASSUME RefInv, NEW w \in Workers, CheckJob(w)
  PROVE  RefInv'
<1>1. Typed'
  BY LifetimeConstants DEF CheckJob, RefInv, Typed, WorkerPCs, OverlayPCs, GamePCs,
     Threads, Objects, Goto, teardownVars, jobVars, recordVars, objectVars, gameVars
<1>2. WorkerControl'
  BY LifetimeConstants DEF CheckJob, RefInv, WorkerControl, Typed, Threads, WorkerPCs,
     Goto, teardownVars
<1>3. OverlayControl'
  BY LifetimeConstants DEF CheckJob, RefInv, OverlayControl, Typed, Threads,
     OverlayPCs, Goto, teardownVars
<1>4. GameControl'
  BY LifetimeConstants DEF CheckJob, RefInv, GameControl, Typed, Threads, GamePCs,
     Goto, teardownVars
<1>5. Belongs'
  BY LifetimeConstants DEF CheckJob, RefInv, Belongs, Typed, Threads, WorkerControl,
     Goto, recordVars, objectVars, gameVars
<1>6. OnLiveDevices'
  BY DEF CheckJob, RefInv, OnLiveDevices, Goto, teardownVars, gameVars
<1> QED
  BY <1>1, <1>2, <1>3, <1>4, <1>5, <1>6 DEF RefInv

(* BuildBindings keeps RefInv.                                             *)
LEMMA BuildBindingsRefs ==
  ASSUME RefInv, NEW w \in Workers, BuildBindings(w)
  PROVE  RefInv'
<1>1. Typed'
  BY LifetimeConstants DEF BuildBindings, RefInv, Typed, WorkerPCs, OverlayPCs,
     GamePCs, Threads, Objects, Goto, Unbuilt, teardownVars, jobVars, recordVars,
     gameVars, WorkerControl
<1>2. WorkerControl'
  BY LifetimeConstants DEF BuildBindings, RefInv, WorkerControl, Typed, Threads,
     WorkerPCs, Goto, Unbuilt, teardownVars
<1>3. OverlayControl'
  BY LifetimeConstants DEF BuildBindings, RefInv, OverlayControl, Typed, Threads,
     OverlayPCs, Goto, Unbuilt, teardownVars
<1>4. GameControl'
  BY LifetimeConstants DEF BuildBindings, RefInv, GameControl, Typed, Threads,
     GamePCs, Goto, Unbuilt, teardownVars
<1>5. Belongs'
  BY LifetimeConstants DEF BuildBindings, RefInv, Belongs, Typed, Threads,
     WorkerControl, Goto, Unbuilt, recordVars, gameVars
<1>6. OnLiveDevices'
  BY DEF BuildBindings, RefInv, OnLiveDevices, Goto, Unbuilt, teardownVars, gameVars
<1> QED
  BY <1>1, <1>2, <1>3, <1>4, <1>5, <1>6 DEF RefInv

(* A job without a replacement keeps RefInv.                               *)
LEMMA BindingsFailRefs ==
  ASSUME RefInv, NEW w \in Workers, BindingsFail(w)
  PROVE  RefInv'
<1>1. Typed'
  BY LifetimeConstants DEF BindingsFail, RefInv, Typed, WorkerPCs, OverlayPCs,
     GamePCs, Threads, Objects, Goto, teardownVars, jobVars, recordVars, objectVars,
     gameVars
<1>2. WorkerControl'
  BY LifetimeConstants DEF BindingsFail, RefInv, WorkerControl, Typed, Threads,
     WorkerPCs, Goto, teardownVars
<1>3. OverlayControl'
  BY LifetimeConstants DEF BindingsFail, RefInv, OverlayControl, Typed, Threads,
     OverlayPCs, Goto, teardownVars
<1>4. GameControl'
  BY LifetimeConstants DEF BindingsFail, RefInv, GameControl, Typed, Threads, GamePCs,
     Goto, teardownVars
<1>5. Belongs'
  BY LifetimeConstants DEF BindingsFail, RefInv, Belongs, Typed, Threads,
     WorkerControl, Goto, recordVars, objectVars, gameVars
<1>6. OnLiveDevices'
  BY DEF BindingsFail, RefInv, OnLiveDevices, Goto, teardownVars, gameVars
<1> QED
  BY <1>1, <1>2, <1>3, <1>4, <1>5, <1>6 DEF RefInv

(* The creation of a replacement keeps RefInv.                             *)
LEMMA CreatePipelineRefs ==
  ASSUME RefInv, NEW w \in Workers, CreatePipeline(w)
  PROVE  RefInv'
<1>1. Typed'
  BY LifetimeConstants DEF CreatePipeline, RefInv, Typed, WorkerPCs, OverlayPCs,
     GamePCs, Threads, Objects, Goto, teardownVars, jobVars, recordVars, objectVars,
     gameVars
<1>2. WorkerControl'
  BY LifetimeConstants DEF CreatePipeline, RefInv, WorkerControl, Typed, Threads,
     WorkerPCs, Goto, teardownVars
<1>3. OverlayControl'
  BY LifetimeConstants DEF CreatePipeline, RefInv, OverlayControl, Typed, Threads,
     OverlayPCs, Goto, teardownVars
<1>4. GameControl'
  BY LifetimeConstants DEF CreatePipeline, RefInv, GameControl, Typed, Threads,
     GamePCs, Goto, teardownVars
<1>5. Belongs'
  BY LifetimeConstants DEF CreatePipeline, RefInv, Belongs, Typed, Threads,
     WorkerControl, Goto, recordVars, objectVars, gameVars
<1>6. OnLiveDevices'
  BY DEF CreatePipeline, RefInv, OnLiveDevices, Goto, teardownVars, gameVars
<1> QED
  BY <1>1, <1>2, <1>3, <1>4, <1>5, <1>6 DEF RefInv

(* Publish's test keeps RefInv.                                            *)
LEMMA CheckCurrentRefs ==
  ASSUME RefInv, NEW w \in Workers, CheckCurrent(w)
  PROVE  RefInv'
<1>1. Typed'
  BY LifetimeConstants DEF CheckCurrent, RefInv, Typed, WorkerPCs, OverlayPCs,
     GamePCs, Threads, Objects, Goto, GotoRetire, teardownVars, jobVars, recordVars,
     objectVars, gameVars
<1>2. WorkerControl'
  BY LifetimeConstants DEF CheckCurrent, RefInv, WorkerControl, Typed, Threads,
     WorkerPCs, Goto, GotoRetire, teardownVars
<1>3. OverlayControl'
  BY LifetimeConstants DEF CheckCurrent, RefInv, OverlayControl, Typed, Threads,
     OverlayPCs, Goto, GotoRetire, teardownVars
<1>4. GameControl'
  BY LifetimeConstants DEF CheckCurrent, RefInv, GameControl, Typed, Threads, GamePCs,
     Goto, GotoRetire, teardownVars
<1>5. Belongs'
  BY LifetimeConstants DEF CheckCurrent, RefInv, Belongs, Typed, Threads,
     WorkerControl, Goto, GotoRetire, recordVars, objectVars, gameVars
<1>6. OnLiveDevices'
  BY DEF CheckCurrent, RefInv, OnLiveDevices, Goto, GotoRetire, teardownVars, gameVars
<1> QED
  BY <1>1, <1>2, <1>3, <1>4, <1>5, <1>6 DEF RefInv

(* Publish's exchange keeps RefInv.                                        *)
LEMMA ExchangeRefs ==
  ASSUME RefInv, NEW w \in Workers, Exchange(w)
  PROVE  RefInv'
<1>1. Typed'
  BY LifetimeConstants DEF Exchange, RefInv, Typed, WorkerPCs, OverlayPCs, GamePCs,
     Threads, Objects, GotoRetire, Goto, teardownVars, jobVars, objectVars, gameVars,
     WorkerControl
<1>2. WorkerControl'
  BY LifetimeConstants DEF Exchange, RefInv, WorkerControl, Typed, Threads, WorkerPCs,
     GotoRetire, Goto, teardownVars
<1>3. OverlayControl'
  BY LifetimeConstants DEF Exchange, RefInv, OverlayControl, Typed, Threads,
     OverlayPCs, GotoRetire, Goto, teardownVars
<1>4. GameControl'
  BY LifetimeConstants DEF Exchange, RefInv, GameControl, Typed, Threads, GamePCs,
     GotoRetire, Goto, teardownVars
<1>5. Belongs'
  BY LifetimeConstants DEF Exchange, RefInv, Belongs, Typed, Threads, WorkerControl,
     GotoRetire, Goto, objectVars, gameVars
<1>6. OnLiveDevices'
  BY DEF Exchange, RefInv, OnLiveDevices, GotoRetire, Goto, teardownVars, gameVars
<1> QED
  BY <1>1, <1>2, <1>3, <1>4, <1>5, <1>6 DEF RefInv

(* Publish retiring what it replaced keeps RefInv.                         *)
LEMMA RetireOldRefs ==
  ASSUME RefInv, NEW w \in Workers, RetireOld(w)
  PROVE  RefInv'
<1>1. Typed'
  BY LifetimeConstants DEF RetireOld, RefInv, Typed, WorkerPCs, OverlayPCs, GamePCs,
     Threads, Objects, Goto, Retire, teardownVars, jobVars, recordVars, objectVars,
     gameVars, Belongs
<1>2. WorkerControl'
  BY LifetimeConstants DEF RetireOld, RefInv, WorkerControl, Typed, Threads,
     WorkerPCs, Goto, Retire, teardownVars
<1>3. OverlayControl'
  BY LifetimeConstants DEF RetireOld, RefInv, OverlayControl, Typed, Threads,
     OverlayPCs, Goto, Retire, teardownVars
<1>4. GameControl'
  BY LifetimeConstants DEF RetireOld, RefInv, GameControl, Typed, Threads, GamePCs,
     Goto, Retire, teardownVars
<1>5. Belongs'
  BY LifetimeConstants DEF RetireOld, RefInv, Belongs, Typed, Threads, WorkerControl,
     Goto, Retire, recordVars, objectVars, gameVars
<1>6. OnLiveDevices'
  BY DEF RetireOld, RefInv, OnLiveDevices, Goto, Retire, teardownVars, gameVars
<1> QED
  BY <1>1, <1>2, <1>3, <1>4, <1>5, <1>6 DEF RefInv

(* Counting a job down keeps RefInv.                                       *)
LEMMA JobDoneRefs ==
  ASSUME RefInv, NEW w \in Workers, JobDone(w)
  PROVE  RefInv'
<1>1. Typed'
  BY LifetimeConstants DEF JobDone, RefInv, Typed, WorkerPCs, OverlayPCs, GamePCs,
     Threads, Objects, Goto, teardownVars, recordVars, objectVars, gameVars,
     WorkerControl
<1>2. WorkerControl'
  BY LifetimeConstants DEF JobDone, RefInv, WorkerControl, Typed, Threads, WorkerPCs,
     Goto, teardownVars
<1>3. OverlayControl'
  BY LifetimeConstants DEF JobDone, RefInv, OverlayControl, Typed, Threads,
     OverlayPCs, Goto, teardownVars
<1>4. GameControl'
  BY LifetimeConstants DEF JobDone, RefInv, GameControl, Typed, Threads, GamePCs,
     Goto, teardownVars
<1>5. Belongs'
  BY LifetimeConstants DEF JobDone, RefInv, Belongs, Typed, Threads, WorkerControl,
     Goto, recordVars, objectVars, gameVars
<1>6. OnLiveDevices'
  BY DEF JobDone, RefInv, OnLiveDevices, Goto, teardownVars, gameVars
<1> QED
  BY <1>1, <1>2, <1>3, <1>4, <1>5, <1>6 DEF RefInv

(* Freeing a job keeps RefInv.                                             *)
LEMMA FreeJobRefs ==
  ASSUME RefInv, NEW w \in Workers, FreeJob(w)
  PROVE  RefInv'
<1>1. Typed'
  BY LifetimeConstants DEF FreeJob, RefInv, Typed, WorkerPCs, OverlayPCs, GamePCs,
     Threads, Objects, Goto, teardownVars, jobVars, recordVars, objectVars, gameVars
<1>2. WorkerControl'
  BY LifetimeConstants DEF FreeJob, RefInv, WorkerControl, Typed, Threads, WorkerPCs,
     Goto, teardownVars
<1>3. OverlayControl'
  BY LifetimeConstants DEF FreeJob, RefInv, OverlayControl, Typed, Threads,
     OverlayPCs, Goto, teardownVars
<1>4. GameControl'
  BY LifetimeConstants DEF FreeJob, RefInv, GameControl, Typed, Threads, GamePCs,
     Goto, teardownVars
<1>5. Belongs'
  BY LifetimeConstants DEF FreeJob, RefInv, Belongs, Typed, Threads, WorkerControl,
     Goto, recordVars, objectVars, gameVars
<1>6. OnLiveDevices'
  BY DEF FreeJob, RefInv, OnLiveDevices, Goto, teardownVars, gameVars
<1> QED
  BY <1>1, <1>2, <1>3, <1>4, <1>5, <1>6 DEF RefInv

(* ReloadAll's new set for a device keeps RefInv.                          *)
LEMMA ReloadResourcesRefs ==
  ASSUME RefInv, NEW d0 \in Devices, ReloadResources(d0)
  PROVE  RefInv'
<1>1. Typed'
  BY LifetimeConstants DEF ReloadResources, RefInv, Typed, WorkerPCs, OverlayPCs,
     GamePCs, Threads, Objects, Unbuilt, teardownVars, jobVars, recordVars, gameVars
<1>2. WorkerControl'
  BY LifetimeConstants DEF ReloadResources, RefInv, WorkerControl, Typed, Threads,
     WorkerPCs, Unbuilt, teardownVars
<1>3. OverlayControl'
  BY LifetimeConstants DEF ReloadResources, RefInv, OverlayControl, Typed, Threads,
     OverlayPCs, Unbuilt, teardownVars
<1>4. GameControl'
  BY LifetimeConstants DEF ReloadResources, RefInv, GameControl, Typed, Threads,
     GamePCs, Unbuilt, teardownVars
<1>5. Belongs'
  BY LifetimeConstants DEF ReloadResources, RefInv, Belongs, Typed, Threads,
     WorkerControl, Unbuilt, recordVars, gameVars
<1>6. OnLiveDevices'
  BY DEF ReloadResources, RefInv, OnLiveDevices, Unbuilt, teardownVars, gameVars
<1> QED
  BY <1>1, <1>2, <1>3, <1>4, <1>5, <1>6 DEF RefInv

(* A device ReloadAll has no set for keeps RefInv.                         *)
LEMMA SkipResourcesRefs ==
  ASSUME RefInv, NEW d0 \in Devices, SkipResources(d0)
  PROVE  RefInv'
<1>1. Typed'
  BY LifetimeConstants DEF SkipResources, RefInv, Typed, WorkerPCs, OverlayPCs,
     GamePCs, Threads, Objects, teardownVars, jobVars, recordVars, objectVars, gameVars
<1>2. WorkerControl'
  BY LifetimeConstants DEF SkipResources, RefInv, WorkerControl, Typed, Threads,
     WorkerPCs, teardownVars
<1>3. OverlayControl'
  BY LifetimeConstants DEF SkipResources, RefInv, OverlayControl, Typed, Threads,
     OverlayPCs, teardownVars
<1>4. GameControl'
  BY LifetimeConstants DEF SkipResources, RefInv, GameControl, Typed, Threads,
     GamePCs, teardownVars
<1>5. Belongs'
  BY LifetimeConstants DEF SkipResources, RefInv, Belongs, Typed, Threads,
     WorkerControl, recordVars, objectVars, gameVars
<1>6. OnLiveDevices'
  BY DEF SkipResources, RefInv, OnLiveDevices, teardownVars, gameVars
<1> QED
  BY <1>1, <1>2, <1>3, <1>4, <1>5, <1>6 DEF RefInv

(* ReloadAll retiring an old set keeps RefInv.                             *)
LEMMA RetireResourcesRefs ==
  ASSUME RefInv, RetireResources
  PROVE  RefInv'
<1>1. Typed'
  BY LifetimeConstants DEF RetireResources, RefInv, Typed, WorkerPCs, OverlayPCs,
     GamePCs, Threads, Objects, Retire, teardownVars, jobVars, recordVars, objectVars,
     gameVars, Belongs
<1>2. WorkerControl'
  BY LifetimeConstants DEF RetireResources, RefInv, WorkerControl, Typed, Threads,
     WorkerPCs, Retire, teardownVars
<1>3. OverlayControl'
  BY LifetimeConstants DEF RetireResources, RefInv, OverlayControl, Typed, Threads,
     OverlayPCs, Retire, teardownVars
<1>4. GameControl'
  BY LifetimeConstants DEF RetireResources, RefInv, GameControl, Typed, Threads,
     GamePCs, Retire, teardownVars
<1>5. Belongs'
  BY LifetimeConstants DEF RetireResources, RefInv, Belongs, Typed, Threads,
     WorkerControl, Retire, recordVars, objectVars, gameVars
<1>6. OnLiveDevices'
  BY DEF RetireResources, RefInv, OnLiveDevices, Retire, teardownVars, gameVars
<1> QED
  BY <1>1, <1>2, <1>3, <1>4, <1>5, <1>6 DEF RefInv

(* The start of RepatchAll keeps RefInv.                                   *)
LEMMA RepatchAllRefs ==
  ASSUME RefInv, RepatchAll
  PROVE  RefInv'
<1>1. Typed'
  BY LifetimeConstants DEF RepatchAll, RefInv, Typed, WorkerPCs, OverlayPCs, GamePCs,
     Threads, Objects, Goto, teardownVars, jobVars, recordVars, objectVars, gameVars,
     OnLiveDevices
<1>2. WorkerControl'
  BY LifetimeConstants DEF RepatchAll, RefInv, WorkerControl, Typed, Threads,
     WorkerPCs, Goto, teardownVars
<1>3. OverlayControl'
  BY LifetimeConstants DEF RepatchAll, RefInv, OverlayControl, Typed, Threads,
     OverlayPCs, Goto, teardownVars
<1>4. GameControl'
  BY LifetimeConstants DEF RepatchAll, RefInv, GameControl, Typed, Threads, GamePCs,
     Goto, teardownVars
<1>5. Belongs'
  BY LifetimeConstants DEF RepatchAll, RefInv, Belongs, Typed, Threads, WorkerControl,
     Goto, recordVars, objectVars, gameVars
<1>6. OnLiveDevices'
  BY DEF RepatchAll, RefInv, OnLiveDevices, Goto, teardownVars, gameVars
<1> QED
  BY <1>1, <1>2, <1>3, <1>4, <1>5, <1>6 DEF RefInv

(* The copy of the map keeps RefInv.                                       *)
LEMMA RepatchDeviceRefs ==
  ASSUME RefInv, NEW d0 \in Devices, RepatchDevice(d0)
  PROVE  RefInv'
<1>1. Typed'
  BY LifetimeConstants DEF RepatchDevice, RefInv, Typed, WorkerPCs, OverlayPCs,
     GamePCs, Threads, Objects, teardownVars, jobVars, recordVars, objectVars, gameVars
<1>2. WorkerControl'
  BY LifetimeConstants DEF RepatchDevice, RefInv, WorkerControl, Typed, Threads,
     WorkerPCs, teardownVars
<1>3. OverlayControl'
  BY LifetimeConstants DEF RepatchDevice, RefInv, OverlayControl, Typed, Threads,
     OverlayPCs, teardownVars
<1>4. GameControl'
  BY LifetimeConstants DEF RepatchDevice, RefInv, GameControl, Typed, Threads,
     GamePCs, teardownVars
<1>5. Belongs'
  BY LifetimeConstants DEF RepatchDevice, RefInv, Belongs, Typed, Threads,
     WorkerControl, recordVars, objectVars, gameVars
<1>6. OnLiveDevices'
  BY DEF RepatchDevice, RefInv, OnLiveDevices, teardownVars, gameVars
<1> QED
  BY <1>1, <1>2, <1>3, <1>4, <1>5, <1>6 DEF RefInv

(* RepatchAll's Enqueue of a record keeps RefInv.                          *)
LEMMA RepatchRecordRefs ==
  ASSUME RefInv, NEW p \in Records, RepatchRecord(p)
  PROVE  RefInv'
<1>1. Typed'
  BY LifetimeConstants DEF RepatchRecord, RefInv, Typed, WorkerPCs, OverlayPCs,
     GamePCs, Threads, Objects, TakeOut, PushJob, teardownVars, objectVars, gameVars
<1>2. WorkerControl'
  BY LifetimeConstants DEF RepatchRecord, RefInv, WorkerControl, Typed, Threads,
     WorkerPCs, TakeOut, PushJob, teardownVars
<1>3. OverlayControl'
  BY LifetimeConstants DEF RepatchRecord, RefInv, OverlayControl, Typed, Threads,
     OverlayPCs, TakeOut, PushJob, teardownVars
<1>4. GameControl'
  BY LifetimeConstants DEF RepatchRecord, RefInv, GameControl, Typed, Threads,
     GamePCs, TakeOut, PushJob, teardownVars
<1>5. Belongs'
  BY LifetimeConstants DEF RepatchRecord, RefInv, Belongs, Typed, Threads,
     WorkerControl, TakeOut, PushJob, objectVars, gameVars
<1>6. OnLiveDevices'
  BY DEF RepatchRecord, RefInv, OnLiveDevices, TakeOut, PushJob, teardownVars,
     gameVars
<1> QED
  BY <1>1, <1>2, <1>3, <1>4, <1>5, <1>6 DEF RefInv

(* RepatchAll retiring what it took out keeps RefInv.                      *)
LEMMA RetireRepatchedRefs ==
  ASSUME RefInv, RetireRepatched
  PROVE  RefInv'
<1>1. Typed'
  BY LifetimeConstants DEF RetireRepatched, RefInv, Typed, WorkerPCs, OverlayPCs,
     GamePCs, Threads, Objects, Retire, teardownVars, jobVars, recordVars, objectVars,
     gameVars, Belongs
<1>2. WorkerControl'
  BY LifetimeConstants DEF RetireRepatched, RefInv, WorkerControl, Typed, Threads,
     WorkerPCs, Retire, teardownVars
<1>3. OverlayControl'
  BY LifetimeConstants DEF RetireRepatched, RefInv, OverlayControl, Typed, Threads,
     OverlayPCs, Retire, teardownVars
<1>4. GameControl'
  BY LifetimeConstants DEF RetireRepatched, RefInv, GameControl, Typed, Threads,
     GamePCs, Retire, teardownVars
<1>5. Belongs'
  BY LifetimeConstants DEF RetireRepatched, RefInv, Belongs, Typed, Threads,
     WorkerControl, Retire, recordVars, objectVars, gameVars
<1>6. OnLiveDevices'
  BY DEF RetireRepatched, RefInv, OnLiveDevices, Retire, teardownVars, gameVars
<1> QED
  BY <1>1, <1>2, <1>3, <1>4, <1>5, <1>6 DEF RefInv

(* The end of RepatchAll keeps RefInv.                                     *)
LEMMA ReloadDoneRefs ==
  ASSUME RefInv, ReloadDone
  PROVE  RefInv'
<1>1. Typed'
  BY LifetimeConstants DEF ReloadDone, RefInv, Typed, WorkerPCs, OverlayPCs, GamePCs,
     Threads, Objects, Goto, teardownVars, jobVars, recordVars, objectVars, gameVars
<1>2. WorkerControl'
  BY LifetimeConstants DEF ReloadDone, RefInv, WorkerControl, Typed, Threads,
     WorkerPCs, Goto, teardownVars
<1>3. OverlayControl'
  BY LifetimeConstants DEF ReloadDone, RefInv, OverlayControl, Typed, Threads,
     OverlayPCs, Goto, teardownVars
<1>4. GameControl'
  BY LifetimeConstants DEF ReloadDone, RefInv, GameControl, Typed, Threads, GamePCs,
     Goto, teardownVars
<1>5. Belongs'
  BY LifetimeConstants DEF ReloadDone, RefInv, Belongs, Typed, Threads, WorkerControl,
     Goto, recordVars, objectVars, gameVars
<1>6. OnLiveDevices'
  BY DEF ReloadDone, RefInv, OnLiveDevices, Goto, teardownVars, gameVars
<1> QED
  BY <1>1, <1>2, <1>3, <1>4, <1>5, <1>6 DEF RefInv

(* OnInitPipeline keeps RefInv.                                            *)
LEMMA InitPipelineRefs ==
  ASSUME RefInv, NEW g \in Games, InitPipeline(g)
  PROVE  RefInv'
<1>1. Typed'
  BY LifetimeConstants DEF InitPipeline, RefInv, Typed, WorkerPCs, OverlayPCs,
     GamePCs, Threads, Objects, Goto, teardownVars, jobVars, objectVars, gameVars
<1>2. WorkerControl'
  BY LifetimeConstants DEF InitPipeline, RefInv, WorkerControl, Typed, Threads,
     WorkerPCs, Goto, teardownVars
<1>3. OverlayControl'
  BY LifetimeConstants DEF InitPipeline, RefInv, OverlayControl, Typed, Threads,
     OverlayPCs, Goto, teardownVars
<1>4. GameControl'
  BY LifetimeConstants DEF InitPipeline, RefInv, GameControl, Typed, Threads, GamePCs,
     Goto, teardownVars
<1>5. Belongs'
  BY LifetimeConstants DEF InitPipeline, RefInv, Belongs, Typed, Threads,
     WorkerControl, Goto, objectVars, gameVars, GameControl
<1>6. OnLiveDevices'
  BY DEF InitPipeline, RefInv, OnLiveDevices, Goto, teardownVars, gameVars
<1> QED
  BY <1>1, <1>2, <1>3, <1>4, <1>5, <1>6 DEF RefInv

(* LoadResources coming to a record keeps RefInv.                          *)
LEMMA RepatchWaitingRefs ==
  ASSUME RefInv, NEW g \in Games, RepatchWaiting(g)
  PROVE  RefInv'
<1>1. Typed'
  BY LifetimeConstants DEF RepatchWaiting, RefInv, Typed, WorkerPCs, OverlayPCs,
     GamePCs, Threads, Objects, Goto, teardownVars, jobVars, recordVars, objectVars,
     gameVars
<1>2. WorkerControl'
  BY LifetimeConstants DEF RepatchWaiting, RefInv, WorkerControl, Typed, Threads,
     WorkerPCs, Goto, teardownVars
<1>3. OverlayControl'
  BY LifetimeConstants DEF RepatchWaiting, RefInv, OverlayControl, Typed, Threads,
     OverlayPCs, Goto, teardownVars
<1>4. GameControl'
  BY LifetimeConstants DEF RepatchWaiting, RefInv, GameControl, Typed, Threads,
     GamePCs, Goto, teardownVars
<1>5. Belongs'
  BY LifetimeConstants DEF RepatchWaiting, RefInv, Belongs, Typed, Threads,
     WorkerControl, Goto, recordVars, objectVars, gameVars, GameControl
<1>6. OnLiveDevices'
  BY DEF RepatchWaiting, RefInv, OnLiveDevices, Goto, teardownVars, gameVars
<1> QED
  BY <1>1, <1>2, <1>3, <1>4, <1>5, <1>6 DEF RefInv

(* Enqueue keeps RefInv.                                                   *)
LEMMA EnqueueRefs ==
  ASSUME RefInv, NEW g \in Games, Enqueue(g)
  PROVE  RefInv'
<1>1. Typed'
  BY LifetimeConstants DEF Enqueue, RefInv, Typed, WorkerPCs, OverlayPCs, GamePCs,
     Threads, Objects, Goto, TakeOut, PushJob, Return, teardownVars, objectVars,
     gameVars, GameControl
<1>2. WorkerControl'
  BY LifetimeConstants DEF Enqueue, RefInv, WorkerControl, Typed, Threads, WorkerPCs,
     Goto, TakeOut, PushJob, Return, teardownVars
<1>3. OverlayControl'
  BY LifetimeConstants DEF Enqueue, RefInv, OverlayControl, Typed, Threads,
     OverlayPCs, Goto, TakeOut, PushJob, Return, teardownVars
<1>4. GameControl'
  BY LifetimeConstants DEF Enqueue, RefInv, GameControl, Typed, Threads, GamePCs,
     Goto, TakeOut, PushJob, Return, teardownVars
<1>5. Belongs'
  BY LifetimeConstants DEF Enqueue, RefInv, Belongs, Typed, Threads, WorkerControl,
     Goto, TakeOut, PushJob, Return, objectVars, gameVars, GameControl
<1>6. OnLiveDevices'
  BY DEF Enqueue, RefInv, OnLiveDevices, Goto, TakeOut, PushJob, Return, teardownVars,
     gameVars
<1> QED
  BY <1>1, <1>2, <1>3, <1>4, <1>5, <1>6 DEF RefInv

(* OnDestroyPipeline taking a record out of the map keeps RefInv.          *)
LEMMA DestroyPipelineRefs ==
  ASSUME RefInv, NEW g \in Games, DestroyPipeline(g)
  PROVE  RefInv'
<1>1. Typed'
  BY LifetimeConstants DEF DestroyPipeline, RefInv, Typed, WorkerPCs, OverlayPCs,
     GamePCs, Threads, Objects, Goto, teardownVars, jobVars, objectVars, gameVars
<1>2. WorkerControl'
  BY LifetimeConstants DEF DestroyPipeline, RefInv, WorkerControl, Typed, Threads,
     WorkerPCs, Goto, teardownVars
<1>3. OverlayControl'
  BY LifetimeConstants DEF DestroyPipeline, RefInv, OverlayControl, Typed, Threads,
     OverlayPCs, Goto, teardownVars
<1>4. GameControl'
  BY LifetimeConstants DEF DestroyPipeline, RefInv, GameControl, Typed, Threads,
     GamePCs, Goto, teardownVars
<1>5. Belongs'
  BY LifetimeConstants DEF DestroyPipeline, RefInv, Belongs, Typed, Threads,
     WorkerControl, Goto, objectVars, gameVars, GameControl
<1>6. OnLiveDevices'
  BY DEF DestroyPipeline, RefInv, OnLiveDevices, Goto, teardownVars, gameVars
<1> QED
  BY <1>1, <1>2, <1>3, <1>4, <1>5, <1>6 DEF RefInv

(* OnDestroyPipeline taking the replacement keeps RefInv.                  *)
LEMMA TakeReplacementRefs ==
  ASSUME RefInv, NEW g \in Games, TakeReplacement(g)
  PROVE  RefInv'
<1>1. Typed'
  BY LifetimeConstants DEF TakeReplacement, RefInv, Typed, WorkerPCs, OverlayPCs,
     GamePCs, Threads, Objects, Goto, TakeOut, Return, teardownVars, jobVars, objectVars,
     gameVars, GameControl
<1>2. WorkerControl'
  BY LifetimeConstants DEF TakeReplacement, RefInv, WorkerControl, Typed, Threads,
     WorkerPCs, Goto, TakeOut, Return, teardownVars
<1>3. OverlayControl'
  BY LifetimeConstants DEF TakeReplacement, RefInv, OverlayControl, Typed, Threads,
     OverlayPCs, Goto, TakeOut, Return, teardownVars
<1>4. GameControl'
  BY LifetimeConstants DEF TakeReplacement, RefInv, GameControl, Typed, Threads,
     GamePCs, Goto, TakeOut, Return, teardownVars
<1>5. Belongs'
  BY LifetimeConstants DEF TakeReplacement, RefInv, Belongs, Typed, Threads,
     WorkerControl, Goto, TakeOut, Return, objectVars, gameVars, GameControl
<1>6. OnLiveDevices'
  BY DEF TakeReplacement, RefInv, OnLiveDevices, Goto, TakeOut, Return, teardownVars,
     gameVars
<1> QED
  BY <1>1, <1>2, <1>3, <1>4, <1>5, <1>6 DEF RefInv

(* OnDestroyPipeline retiring the replacement keeps RefInv.                *)
LEMMA RetireTakenRefs ==
  ASSUME RefInv, NEW g \in Games, RetireTaken(g)
  PROVE  RefInv'
<1>1. Typed'
  BY LifetimeConstants DEF RetireTaken, RefInv, Typed, WorkerPCs, OverlayPCs, GamePCs,
     Threads, Objects, Return, Retire, Goto, teardownVars, jobVars, recordVars,
     objectVars, gameVars, Belongs
<1>2. WorkerControl'
  BY LifetimeConstants DEF RetireTaken, RefInv, WorkerControl, Typed, Threads,
     WorkerPCs, Return, Retire, Goto, teardownVars
<1>3. OverlayControl'
  BY LifetimeConstants DEF RetireTaken, RefInv, OverlayControl, Typed, Threads,
     OverlayPCs, Return, Retire, Goto, teardownVars
<1>4. GameControl'
  BY LifetimeConstants DEF RetireTaken, RefInv, GameControl, Typed, Threads, GamePCs,
     Return, Retire, Goto, teardownVars
<1>5. Belongs'
  BY LifetimeConstants DEF RetireTaken, RefInv, Belongs, Typed, Threads,
     WorkerControl, Return, Retire, Goto, recordVars, objectVars, gameVars, GameControl
<1>6. OnLiveDevices'
  BY DEF RetireTaken, RefInv, OnLiveDevices, Return, Retire, Goto, teardownVars,
     gameVars
<1> QED
  BY <1>1, <1>2, <1>3, <1>4, <1>5, <1>6 DEF RefInv

(* OnDestroyDevice clearing state.alive keeps RefInv.                      *)
LEMMA StopJobsRefs ==
  ASSUME RefInv, NEW d0 \in Devices, StopJobs(d0)
  PROVE  RefInv'
<1>1. Typed'
  BY DEF StopJobs, RefInv, Typed, TearTo, jobVars, recordVars, objectVars, threadVars,
     gameVars, Phases
<1>2. WorkerControl'
  BY DEF StopJobs, RefInv, WorkerControl, threadVars, TearTo
<1>3. OverlayControl'
  BY DEF StopJobs, RefInv, OverlayControl, threadVars, TearTo
<1>4. GameControl'
  BY DEF StopJobs, RefInv, GameControl, threadVars, TearTo
<1>5. Belongs'
  BY DEF StopJobs, RefInv, Belongs, threadVars, TearTo, recordVars, objectVars,
     gameVars
<1>6. OnLiveDevices'
  BY DEF StopJobs, RefInv, OnLiveDevices, TearTo, gameVars
<1> QED
  BY <1>1, <1>2, <1>3, <1>4, <1>5, <1>6 DEF RefInv

(* OnDestroyDevice removing the queued jobs keeps RefInv.                  *)
LEMMA RemoveJobsRefs ==
  ASSUME RefInv, NEW d0 \in Devices, RemoveJobs(d0)
  PROVE  RefInv'
<1>1. Typed'
  BY QueuedOnFinite DEF RemoveJobs, RefInv, Typed, TearTo, recordVars, objectVars,
     threadVars, gameVars, Phases
<1>2. WorkerControl'
  BY DEF RemoveJobs, RefInv, WorkerControl, threadVars, TearTo
<1>3. OverlayControl'
  BY DEF RemoveJobs, RefInv, OverlayControl, threadVars, TearTo
<1>4. GameControl'
  BY DEF RemoveJobs, RefInv, GameControl, threadVars, TearTo
<1>5. Belongs'
  BY DEF RemoveJobs, RefInv, Belongs, threadVars, TearTo, recordVars, objectVars,
     gameVars
<1>6. OnLiveDevices'
  BY DEF RemoveJobs, RefInv, OnLiveDevices, TearTo, gameVars
<1> QED
  BY <1>1, <1>2, <1>3, <1>4, <1>5, <1>6 DEF RefInv

(* The end of OnDestroyDevice's wait keeps RefInv.                         *)
LEMMA WaitForJobsRefs ==
  ASSUME RefInv, NEW d0 \in Devices, WaitForJobs(d0)
  PROVE  RefInv'
<1>1. Typed'
  BY DEF WaitForJobs, RefInv, Typed, TearTo, jobVars, recordVars, objectVars,
     threadVars, gameVars, Phases
<1>2. WorkerControl'
  BY DEF WaitForJobs, RefInv, WorkerControl, threadVars, TearTo
<1>3. OverlayControl'
  BY DEF WaitForJobs, RefInv, OverlayControl, threadVars, TearTo
<1>4. GameControl'
  BY DEF WaitForJobs, RefInv, GameControl, threadVars, TearTo
<1>5. Belongs'
  BY DEF WaitForJobs, RefInv, Belongs, threadVars, TearTo, recordVars, objectVars,
     gameVars
<1>6. OnLiveDevices'
  BY DEF WaitForJobs, RefInv, OnLiveDevices, TearTo, gameVars
<1> QED
  BY <1>1, <1>2, <1>3, <1>4, <1>5, <1>6 DEF RefInv

(* OnDestroyDevice dropping its references keeps RefInv.                   *)
LEMMA DestroyStateRefs ==
  ASSUME RefInv, NEW d0 \in Devices, DestroyState(d0)
  PROVE  RefInv'
<1>1. Typed'
  BY DEF DestroyState, RefInv, Typed, TearTo, jobVars, objectVars, threadVars,
     gameVars, Phases
<1>2. WorkerControl'
  BY DEF DestroyState, RefInv, WorkerControl, threadVars, TearTo
<1>3. OverlayControl'
  BY DEF DestroyState, RefInv, OverlayControl, threadVars, TearTo
<1>4. GameControl'
  BY DEF DestroyState, RefInv, GameControl, threadVars, TearTo
<1>5. Belongs'
  BY DEF DestroyState, RefInv, Belongs, threadVars, TearTo, objectVars, gameVars
<1>6. OnLiveDevices'
  BY DEF DestroyState, RefInv, OnLiveDevices, TearTo, gameVars
<1> QED
  BY <1>1, <1>2, <1>3, <1>4, <1>5, <1>6 DEF RefInv

(* OnBindPipeline keeps RefInv.                                            *)
LEMMA BindPipelineRefs ==
  ASSUME RefInv, NEW l \in Lists, BindPipeline(l)
  PROVE  RefInv'
<1>1. Typed'
  BY BindPipelineUse DEF BindPipeline, RefInv, Typed, teardownVars, jobVars,
     recordVars, objectVars, threadVars
<1>2. WorkerControl' /\ OverlayControl' /\ GameControl'
  BY DEF BindPipeline, RefInv, WorkerControl, OverlayControl, GameControl, threadVars,
     teardownVars
<1>3. Belongs'
  BY BindPipelineUse, LifetimeConstants DEF BindPipeline, RefInv, Belongs, threadVars,
     recordVars, objectVars, Typed
<1>4. OnLiveDevices'
  BY BindPipelineUse DEF BindPipeline, RefInv, OnLiveDevices, teardownVars, Typed
<1> QED
  BY <1>1, <1>2, <1>3, <1>4 DEF RefInv

(* RefInv holds at the start.                                              *)
LEMMA InitRefs == Init => RefInv
<1> SUFFICES ASSUME Init PROVE RefInv
  OBVIOUS
<1>1. Typed
  <2>1. /\ pending \in [Lists -> Uses \cup {Unbound}] /\ gpu \subseteq Uses
        /\ retired \subseteq [frame : Nat, device : Devices, object : Objects]
    BY DEF Init
  <2>2. /\ frame \in Nat /\ rest \subseteq Devices /\ built \subseteq Objects
        /\ inFlight \in [Devices -> Int] /\ queue \in [Jobs -> Records \cup {Null}]
        /\ pipelines \subseteq Records /\ destroyed \subseteq Records /\ copied \subseteq Records
    BY DEF Init
  <2>3. /\ replacement \in [Records -> Replacements \cup {Null}]
        /\ resources \in [Devices -> Sets \cup {Null}]
        /\ teardown \in [Devices -> Phases]
        /\ setOf \in [Replacements -> Sets \cup {Null}]
    BY DEF Init, Phases
  <2>4. /\ pc \in [Threads -> WorkerPCs \cup OverlayPCs \cup GamePCs]
        /\ job \in [Threads -> Records \cup {Null}]
        /\ dev \in [Threads -> Devices \cup {Null}]
        /\ held \in [Threads -> Objects \cup {Null}]
    BY DEF Init, WorkerPCs
  <2>5. lock \in BOOLEAN
    BY DEF Init
  <2> QED
    BY <2>1, <2>2, <2>3, <2>4, <2>5 DEF Typed
<1>2. WorkerControl /\ OverlayControl /\ GameControl
  BY DEF Init, WorkerControl, OverlayControl, GameControl, Threads, WorkerPCs, OverlayPCs,
     GamePCs
<1>3. Belongs /\ OnLiveDevices
  BY DEF Init, Belongs, OnLiveDevices
<1> QED
  BY <1>1, <1>2, <1>3 DEF RefInv

(* RefInv is inductive.                                                    *)
LEMMA NextRefs == RefInv /\ [Next]_vars => RefInv'
<1> SUFFICES ASSUME RefInv, [Next]_vars PROVE RefInv'
  OBVIOUS
<1>1. ASSUME NEW w \in Workers, WorkerStep(w) PROVE RefInv'
  BY <1>1, TakeJobRefs, CheckJobRefs, BuildBindingsRefs, BindingsFailRefs,
     CreatePipelineRefs, CheckCurrentRefs, ExchangeRefs, RetireOldRefs, JobDoneRefs,
     FreeJobRefs DEF WorkerStep
<1>2. CASE OverlayStep
  BY <1>2, ReloadResourcesRefs, SkipResourcesRefs, RepatchDeviceRefs,
     RepatchRecordRefs, RetireResourcesRefs, RepatchAllRefs, RetireRepatchedRefs,
     ReloadDoneRefs DEF OverlayStep
<1>3. ASSUME NEW g \in Games, PipelineStep(g) PROVE RefInv'
  BY <1>3, InitPipelineRefs, RepatchWaitingRefs, EnqueueRefs, DestroyPipelineRefs,
     TakeReplacementRefs, RetireTakenRefs DEF PipelineStep
<1>4. ASSUME NEW d \in Devices, TeardownStep(d) PROVE RefInv'
  BY <1>4, StopJobsRefs, RemoveJobsRefs, WaitForJobsRefs, DestroyStateRefs DEF
     TeardownStep
<1>5. CASE GameStep
  BY <1>5, PresentRefs, ShutdownRefs, ReloadAllRefs, LoadResourcesRefs,
     EraseDeviceRefs, BindPipelineRefs, DrawRefs, ResetListRefs, FinishRefs DEF GameStep
<1>6. CASE UNCHANGED vars
  <2>1. Typed'
    BY <1>6 DEF vars, RefInv, Typed, teardownVars, jobVars, recordVars, objectVars,
       threadVars, gameVars
  <2>2. WorkerControl' /\ OverlayControl' /\ GameControl'
    BY <1>6 DEF vars, RefInv, WorkerControl, OverlayControl, GameControl, teardownVars,
       threadVars
  <2>3. Belongs' /\ OnLiveDevices'
    BY <1>6 DEF vars, RefInv, Belongs, OnLiveDevices, teardownVars, recordVars,
       objectVars, threadVars, gameVars
  <2> QED
    BY <2>1, <2>2, <2>3 DEF RefInv
<1> QED
  BY <1>1, <1>2, <1>3, <1>4, <1>5, <1>6 DEF Next

-----------------------------------------------------------------------------
(* in_flight is exact.                                                      *)

(* There are finitely many workers on a device.                            *)
LEMMA WorkingOnFinite ==
  ASSUME NEW d
  PROVE  IsFiniteSet(WorkingOn(d)) /\ Cardinality(WorkingOn(d)) \in Nat
BY LifetimeConstants, FS_Subset, FS_CardinalityType DEF WorkingOn

(* There are no jobs at the start.                                         *)
LEMMA InitCounted == Init => Counted
<1> SUFFICES ASSUME Init, NEW d \in Devices
             PROVE  inFlight[d] = Cardinality(QueuedOn(d)) + Cardinality(WorkingOn(d))
  BY DEF Counted
<1>1. WorkingOn(d) = {} /\ QueuedOn(d) = {}
  BY LifetimeConstants DEF Init, WorkingOn, QueuedOn, Threads
<1> QED
  BY <1>1, FS_EmptySet DEF Init

(* Enqueue counts the job it pushes.                                       *)
LEMMA PushJobCounts ==
  ASSUME RefInv, NEW p \in Records, PushJob(p), NEW d \in Devices
  PROVE  inFlight'[d] - Cardinality(QueuedOn(d))' = inFlight[d] - Cardinality(QueuedOn(d))
<1>1. PICK j \in Jobs : /\ queue[j] = Null
                        /\ queue' = [queue EXCEPT ![j] = p]
                        /\ inFlight' = [inFlight EXCEPT ![DeviceOf[p]] = @ + 1]
  BY DEF PushJob
<1>2. /\ inFlight \in [Devices -> Int] /\ queue \in [Jobs -> Records \cup {Null}]
      /\ p # Null /\ Cardinality(QueuedOn(d)) \in Nat
  BY LifetimeConstants, QueuedOnFinite DEF RefInv, Typed
<1>3. j \notin QueuedOn(d)
  BY <1>1 DEF QueuedOn
<1>4. QueuedOn(d)' = IF d = DeviceOf[p] THEN QueuedOn(d) \cup {j} ELSE QueuedOn(d)
  BY <1>1, <1>2, <1>3 DEF QueuedOn
<1>5. Cardinality(QueuedOn(d) \cup {j}) = Cardinality(QueuedOn(d)) + 1
  BY <1>3, QueuedOnFinite, FS_AddElement
<1> QED
  BY <1>1, <1>2, <1>4, <1>5

(* in_flight stays the number of jobs.                                     *)
LEMMA NextCounted == RefInv /\ Counted /\ [Next]_vars => Counted'
<1> SUFFICES ASSUME RefInv, Counted, [Next]_vars, NEW d \in Devices
             PROVE  (inFlight[d] = Cardinality(QueuedOn(d)) + Cardinality(WorkingOn(d)))'
  BY DEF Counted
<1> DEFINE Exact == inFlight[d] = Cardinality(QueuedOn(d)) + Cardinality(WorkingOn(d))
<1>0. /\ Exact
      /\ inFlight \in [Devices -> Int] /\ queue \in [Jobs -> Records \cup {Null}]
      /\ dev \in [Threads -> Devices \cup {Null}]
      /\ Cardinality(WorkingOn(d)) \in Nat /\ Cardinality(QueuedOn(d)) \in Nat
      /\ RefInv'
  BY WorkingOnFinite, QueuedOnFinite, NextRefs DEF Counted, RefInv, Typed
<1>1. ASSUME NEW w \in Workers, TakeJob(w) PROVE Exact'
  <2>1. PICK j \in Jobs : /\ queue[j] # Null
                          /\ dev' = [dev EXCEPT ![w] = DeviceOf[queue[j]]]
                          /\ queue' = [queue EXCEPT ![j] = Null]
    BY <1>1 DEF TakeJob
  <2> DEFINE e == DeviceOf[queue[j]]
  <2>2. inFlight' = inFlight
    BY <1>1 DEF TakeJob
  <2>3. w \notin WorkingOn(d)
    BY <1>1, LifetimeConstants DEF TakeJob, WorkingOn, RefInv, WorkerControl
  <2>4. WorkingOn(d)' = IF d = e THEN WorkingOn(d) \cup {w} ELSE WorkingOn(d)
    BY <1>0, <2>1, <2>3 DEF WorkingOn, Threads
  <2>5. Cardinality(WorkingOn(d) \cup {w}) = Cardinality(WorkingOn(d)) + 1
    BY <2>3, WorkingOnFinite, FS_AddElement
  <2>6. QueuedOn(d)' = IF d = e THEN QueuedOn(d) \ {j} ELSE QueuedOn(d)
    BY <1>0, <2>1 DEF QueuedOn
  <2>7. d = e => Cardinality(QueuedOn(d) \ {j}) = Cardinality(QueuedOn(d)) - 1
    <3>1. d = e => j \in QueuedOn(d)
      BY <2>1 DEF QueuedOn
    <3> QED
      BY <3>1, QueuedOnFinite, FS_RemoveElement
  <2> QED
    BY <1>0, <2>2, <2>4, <2>5, <2>6, <2>7
<1>2. ASSUME NEW w \in Workers, JobDone(w) PROVE Exact'
  <2>1. /\ dev' = [dev EXCEPT ![w] = Null]
        /\ inFlight' = [inFlight EXCEPT ![dev[w]] = @ - 1]
        /\ queue' = queue
    BY <1>2 DEF JobDone
  <2>2. WorkingOn(d)' = IF dev[w] = d THEN WorkingOn(d) \ {w} ELSE WorkingOn(d)
    BY <1>0, <2>1, LifetimeConstants DEF WorkingOn, Threads
  <2>3. dev[w] = d => Cardinality(WorkingOn(d) \ {w}) = Cardinality(WorkingOn(d)) - 1
    <3>1. dev[w] = d => w \in WorkingOn(d)
      BY DEF WorkingOn
    <3> QED
      BY <3>1, WorkingOnFinite, FS_RemoveElement
  <2>4. dev[w] \in Devices
    BY <1>2, <1>0 DEF JobDone, RefInv, WorkerControl, Threads
  <2>5. QueuedOn(d)' = QueuedOn(d)
    BY <2>1 DEF QueuedOn
  <2> QED
    BY <1>0, <2>1, <2>2, <2>3, <2>4, <2>5
<1>3. ASSUME \A w \in Workers : dev'[w] = dev[w],
             inFlight'[d] - Cardinality(QueuedOn(d))' = inFlight[d] - Cardinality(QueuedOn(d))
      PROVE  Exact'
  <2>1. WorkingOn(d)' = WorkingOn(d)
    BY <1>3 DEF WorkingOn
  <2>2. inFlight'[d] \in Int /\ Cardinality(QueuedOn(d))' \in Nat
    <3>1. inFlight' \in [Devices -> Int]
      BY <1>0 DEF RefInv, Typed
    <3>2. IsFiniteSet(QueuedOn(d)') /\ Cardinality(QueuedOn(d)') \in Nat
      BY LifetimeConstants, FS_Subset, FS_CardinalityType DEF QueuedOn
    <3> QED
      BY <3>1, <3>2
  <2> QED
    BY <1>0, <1>3, <2>1, <2>2
<1>4. CASE UNCHANGED <<inFlight, queue>> /\ \A w \in Workers : dev'[w] = dev[w]
  <2>1. QueuedOn(d)' = QueuedOn(d)
    BY <1>4 DEF QueuedOn
  <2> QED
    BY <1>3, <1>4, <2>1
<1>5. ASSUME NEW p \in Records, RepatchRecord(p) PROVE Exact'
  <2>1. \A w \in Workers : dev'[w] = dev[w]
    BY <1>0, <1>5, LifetimeConstants DEF RepatchRecord, Threads
  <2> QED
    BY <1>3, <1>4, <1>5, <2>1, PushJobCounts DEF RepatchRecord
<1>6. ASSUME NEW g \in Games, Enqueue(g) PROVE Exact'
  <2>1. \A w \in Workers : dev'[w] = dev[w]
    BY <1>0, <1>6, LifetimeConstants DEF Enqueue, Return, Threads
  <2>2. job[g] \in Records
    BY <1>6 DEF Enqueue, RefInv, Typed, GameControl, Threads
  <2> QED
    BY <1>3, <1>4, <1>6, <2>1, <2>2, PushJobCounts DEF Enqueue
<1>7. ASSUME NEW e \in Devices, RemoveJobs(e) PROVE Exact'
  <2>1. \A w \in Workers : dev'[w] = dev[w]
    BY <1>7 DEF RemoveJobs, threadVars
  <2>2. QueuedOn(d)' = IF d = e THEN {} ELSE QueuedOn(d)
    BY <1>0, <1>7 DEF RemoveJobs, QueuedOn
  <2>3. inFlight'[d] = IF d = e THEN inFlight[d] - Cardinality(QueuedOn(d)) ELSE inFlight[d]
    BY <1>0, <1>7 DEF RemoveJobs
  <2>4. Cardinality({}) = 0
    BY FS_EmptySet
  <2> QED
    BY <1>0, <1>3, <2>1, <2>2, <2>3, <2>4
<1>9. ASSUME NEW g \in Games, PipelineStep(g) PROVE Exact'
  <2>1. Enqueue(g) \/ UNCHANGED <<inFlight, queue>>
    BY <1>9 DEF PipelineStep, InitPipeline, RepatchWaiting, DestroyPipeline,
       TakeReplacement, RetireTaken, jobVars
  <2>2. \A w \in Workers : dev'[w] = dev[w]
    BY <1>0, <1>9, LifetimeConstants DEF PipelineStep, InitPipeline, RepatchWaiting,
       Enqueue, DestroyPipeline, TakeReplacement, RetireTaken, Return, Threads
  <2> QED
    BY <1>4, <1>6, <2>1, <2>2
<1>10. CASE OverlayStep
  <2>1. (\E p \in Records : RepatchRecord(p)) \/ UNCHANGED <<inFlight, queue>>
    BY <1>10 DEF OverlayStep, ReloadResources, SkipResources, RepatchDevice,
       RetireResources, RepatchAll, RetireRepatched, ReloadDone, jobVars
  <2>2. \A w \in Workers : dev'[w] = dev[w]
    BY <1>0, <1>10, LifetimeConstants DEF OverlayStep, ReloadResources, SkipResources,
       RepatchDevice, RepatchRecord, RetireResources, RepatchAll, RetireRepatched,
       ReloadDone, Threads
  <2> QED
    BY <1>4, <1>5, <2>1, <2>2
<1>11. ASSUME NEW w \in Workers, WorkerStep(w) PROVE Exact'
  <2>1. TakeJob(w) \/ JobDone(w) \/ UNCHANGED <<dev, inFlight, queue>>
    BY <1>11 DEF WorkerStep, CheckJob, BuildBindings, BindingsFail, CreatePipeline,
       CheckCurrent, Exchange, RetireOld, FreeJob, jobVars
  <2> QED
    BY <1>1, <1>2, <1>4, <1>11, <2>1
<1>12. ASSUME NEW e \in Devices, TeardownStep(e) PROVE Exact'
  <2>1. RemoveJobs(e) \/ UNCHANGED <<dev, inFlight, queue>>
    BY <1>12 DEF TeardownStep, StopJobs, WaitForJobs, DestroyState, jobVars, threadVars
  <2> QED
    BY <1>4, <1>7, <1>12, <2>1
<1>13. CASE GameStep \/ UNCHANGED vars
  <2>1. UNCHANGED <<dev, inFlight, queue>>
    BY <1>13 DEF vars, GameStep, Present, Shutdown, ReloadAll, LoadResources, EraseDevice,
       BindPipeline, Draw, ResetList, Finish, jobVars, threadVars
  <2> QED
    BY <1>4, <2>1
<1> QED
  BY <1>9, <1>10, <1>11, <1>12, <1>13 DEF Next

-----------------------------------------------------------------------------
(* The records of a device.                                                 *)

(* What a step does to the records.                                         *)
LEMMA RecordsNext ==
  ASSUME RefInv, [Next]_vars
  PROVE  /\ \A p \in pipelines' \ pipelines : teardown[DeviceOf[p]] = "up"
         /\ \A p \in destroyed \ destroyed' : p \in pipelines'
         /\ \A p \in pipelines \ (pipelines' \cup destroyed') : teardown'[DeviceOf[p]] = "gone"
         /\ \A p \in Records :
              \/ replacement'[p] \in {replacement[p], Null}
              \/ \E w \in Workers : pc[w] = "exchange" /\ job[w] = p
<1> DEFINE Good ==
      /\ \A p \in pipelines' \ pipelines : teardown[DeviceOf[p]] = "up"
      /\ \A p \in destroyed \ destroyed' : p \in pipelines'
      /\ \A p \in pipelines \ (pipelines' \cup destroyed') : teardown'[DeviceOf[p]] = "gone"
      /\ \A p \in Records :
           \/ replacement'[p] \in {replacement[p], Null}
           \/ \E w \in Workers : pc[w] = "exchange" /\ job[w] = p
<1>0. /\ replacement \in [Records -> Replacements \cup {Null}]
      /\ pipelines \subseteq Records /\ teardown \in [Devices -> Phases]
      /\ \A p \in Records : DeviceOf[p] \in Devices
  BY LifetimeConstants DEF RefInv, Typed
<1>1. CASE UNCHANGED recordVars
  BY <1>1 DEF recordVars
<1>2. ASSUME NEW w \in Workers, Exchange(w) PROVE Good
  BY <1>0, <1>2 DEF Exchange
<1>3. ASSUME NEW p \in Records, RepatchRecord(p) PROVE Good
  BY <1>0, <1>3 DEF RepatchRecord, TakeOut
<1>4. ASSUME NEW g \in Games, Enqueue(g) \/ TakeReplacement(g) PROVE Good
  BY <1>0, <1>4 DEF Enqueue, TakeReplacement, TakeOut
<1>5. ASSUME NEW g \in Games, InitPipeline(g) PROVE Good
  BY <1>0, <1>5 DEF InitPipeline
<1>6. ASSUME NEW g \in Games, DestroyPipeline(g) PROVE Good
  BY <1>0, <1>6 DEF DestroyPipeline
<1>7. ASSUME NEW d \in Devices, DestroyState(d) PROVE Good
  BY <1>0, <1>7 DEF DestroyState, TearTo
<1>8. ASSUME NEW w \in Workers, WorkerStep(w) PROVE Good
  BY <1>1, <1>2, <1>8 DEF WorkerStep, TakeJob, CheckJob, BuildBindings, BindingsFail,
     CreatePipeline, CheckCurrent, RetireOld, JobDone, FreeJob
<1>9. CASE OverlayStep
  BY <1>1, <1>3, <1>9 DEF OverlayStep, ReloadResources, SkipResources, RepatchDevice,
     RetireResources, RepatchAll, RetireRepatched, ReloadDone
<1>10. ASSUME NEW g \in Games, PipelineStep(g) PROVE Good
  BY <1>1, <1>4, <1>5, <1>6, <1>10 DEF PipelineStep, RepatchWaiting, RetireTaken
<1>11. ASSUME NEW d \in Devices, TeardownStep(d) PROVE Good
  BY <1>1, <1>7, <1>11 DEF TeardownStep, StopJobs, RemoveJobs, WaitForJobs
<1>12. CASE GameStep
  BY <1>1, <1>12 DEF GameStep, Present, Shutdown, ReloadAll, LoadResources, EraseDevice,
     BindPipeline, Draw, ResetList, Finish
<1>13. CASE UNCHANGED vars
  BY <1>1, <1>13 DEF vars
<1> QED
  BY <1>8, <1>9, <1>10, <1>11, <1>12, <1>13 DEF Next

(* A device that is gone stays so; DestroyState takes it there.             *)
LEMMA GoneNext ==
  ASSUME RefInv, [Next]_vars, NEW d \in Devices
  PROVE  /\ teardown[d] = "gone" => teardown'[d] = "gone"
         /\ teardown[d] # "gone" /\ teardown'[d] = "gone" => DestroyState(d)
<1>0. teardown \in [Devices -> Phases]
  BY DEF RefInv, Typed
<1>1. CASE UNCHANGED teardown
  BY <1>1
<1>2. ASSUME NEW e \in Devices, EraseDevice(e) \/ StopJobs(e) \/ RemoveJobs(e) \/ WaitForJobs(e)
      PROVE  /\ teardown[d] = "gone" => teardown'[d] = "gone"
             /\ teardown[d] # "gone" => teardown'[d] # "gone"
  BY <1>0, <1>2 DEF EraseDevice, StopJobs, RemoveJobs, WaitForJobs, TearTo
<1>3. ASSUME NEW e \in Devices, DestroyState(e)
      PROVE  /\ teardown[d] = "gone" => teardown'[d] = "gone"
             /\ teardown[d] # "gone" /\ teardown'[d] = "gone" => d = e
  BY <1>0, <1>3 DEF DestroyState, TearTo
<1>4. \/ UNCHANGED teardown
      \/ \E e \in Devices : \/ EraseDevice(e) \/ StopJobs(e) \/ RemoveJobs(e)
                            \/ WaitForJobs(e) \/ DestroyState(e)
  BY DEF vars, Next, WorkerStep, OverlayStep, PipelineStep, TeardownStep, GameStep,
     Present, Shutdown, ReloadAll, LoadResources, BindPipeline, Draw, ResetList, Finish,
     TakeJob, CheckJob, BuildBindings, BindingsFail, CreatePipeline, CheckCurrent,
     Exchange, RetireOld, JobDone, FreeJob, ReloadResources, SkipResources,
     RepatchDevice, RepatchRecord, RetireResources, RepatchAll, RetireRepatched,
     ReloadDone, InitPipeline, RepatchWaiting, Enqueue, DestroyPipeline,
     TakeReplacement, RetireTaken, teardownVars
<1> QED
  BY <1>1, <1>2, <1>3, <1>4

(* Only a record of the map gets its first reference.                       *)
LEMMA LiveNext ==
  ASSUME RefInv, [Next]_vars
  PROVE  LiveRecords' \subseteq LiveRecords \cup pipelines'
<1>0. /\ queue \in [Jobs -> Records \cup {Null}] /\ job \in [Threads -> Records \cup {Null}]
      /\ pipelines \subseteq Records /\ copied \subseteq Records /\ Null \notin Records
  BY LifetimeConstants DEF RefInv, Typed
<1> DEFINE Kin ==
      /\ copied' \subseteq copied \cup pipelines
      /\ \A j \in Jobs : queue'[j] \in LiveRecords \cup pipelines' \cup {Null}
      /\ \A t \in Threads : job'[t] \in LiveRecords \cup pipelines' \cup {Null}
<1>1. Kin => LiveRecords' \subseteq LiveRecords \cup pipelines'
  BY <1>0 DEF LiveRecords
<1>2. /\ \A j \in Jobs : queue[j] \in LiveRecords \cup {Null}
      /\ \A t \in Threads : job[t] \in LiveRecords \cup {Null}
      /\ pipelines \cup copied \subseteq LiveRecords
  BY <1>0 DEF LiveRecords
<1> HIDE DEF Kin
<1>3. ASSUME UNCHANGED <<copied, queue, job>> PROVE Kin
  <2>1. copied' = copied /\ queue' = queue /\ job' = job
    BY <1>3
  <2>2. copied' \subseteq copied \cup pipelines
    BY <2>1
  <2>3. \A j \in Jobs : queue'[j] \in LiveRecords \cup pipelines' \cup {Null}
    BY <1>2, <2>1
  <2>4. \A t \in Threads : job'[t] \in LiveRecords \cup pipelines' \cup {Null}
    BY <1>2, <2>1
  <2> QED
    BY <2>2, <2>3, <2>4 DEF Kin
<1>4. ASSUME NEW w \in Workers, TakeJob(w) \/ FreeJob(w) PROVE Kin
  BY <1>0, <1>2, <1>4 DEF Kin, TakeJob, FreeJob, jobVars
<1>5. ASSUME NEW g \in Games, InitPipeline(g) \/ RepatchWaiting(g) \/ DestroyPipeline(g)
      PROVE  Kin
  BY <1>0, <1>2, <1>5 DEF Kin, InitPipeline, RepatchWaiting, DestroyPipeline, jobVars
<1>6. ASSUME NEW p \in LiveRecords, PushJob(p), copied' \subseteq copied,
             \A t \in Threads : job'[t] \in {job[t], Null}
      PROVE  Kin
  BY <1>0, <1>2, <1>6 DEF Kin, PushJob
<1>7. ASSUME UNCHANGED queue, copied' \subseteq copied,
             \A t \in Threads : job'[t] \in {job[t], Null}
      PROVE  Kin
  BY <1>0, <1>2, <1>7 DEF Kin
<1>8. ASSUME NEW g \in Games, Enqueue(g) PROVE Kin
  <2>1. job[g] \in LiveRecords
    BY <1>0, <1>2, <1>8 DEF Enqueue, RefInv, GameControl, Threads
  <2>2. \A t \in Threads : job'[t] \in {job[t], Null}
    BY <1>0, <1>8 DEF Enqueue, Return
  <2> QED
    BY <1>6, <1>7, <1>8, <2>1, <2>2 DEF Enqueue
<1>9. ASSUME NEW g \in Games, TakeReplacement(g) \/ RetireTaken(g) PROVE Kin
  BY <1>0, <1>7, <1>9 DEF TakeReplacement, RetireTaken, Return, jobVars
<1>10. ASSUME NEW p \in Records, RepatchRecord(p) PROVE Kin
  BY <1>2, <1>6, <1>7, <1>10 DEF RepatchRecord
<1>11. ASSUME NEW d \in Devices, RepatchDevice(d) PROVE Kin
  BY <1>2, <1>11 DEF Kin, RepatchDevice, jobVars
<1>12. ASSUME NEW d \in Devices, RemoveJobs(d) PROVE Kin
  BY <1>2, <1>12 DEF Kin, RemoveJobs, threadVars
<1>13. \/ UNCHANGED <<copied, queue, job>>
       \/ \E w \in Workers : TakeJob(w) \/ FreeJob(w)
       \/ \E g \in Games : \/ InitPipeline(g) \/ RepatchWaiting(g) \/ DestroyPipeline(g)
                           \/ Enqueue(g) \/ TakeReplacement(g) \/ RetireTaken(g)
       \/ \E p \in Records : RepatchRecord(p)
       \/ \E d \in Devices : RepatchDevice(d) \/ RemoveJobs(d)
  BY DEF vars, Next, WorkerStep, OverlayStep, PipelineStep, TeardownStep, GameStep,
     Present, Shutdown, ReloadAll, LoadResources, EraseDevice, BindPipeline, Draw,
     ResetList, Finish, CheckJob, BuildBindings, BindingsFail, CreatePipeline,
     CheckCurrent, Exchange, RetireOld, JobDone, ReloadResources, SkipResources,
     RetireResources, RepatchAll, RetireRepatched, ReloadDone, StopJobs, WaitForJobs,
     DestroyState, jobVars, threadVars
<1> QED
  BY <1>1, <1>3, <1>4, <1>5, <1>8, <1>9, <1>10, <1>11, <1>12, <1>13

(* Mapped is inductive.                                                     *)
LEMMA NextMapped == RefInv /\ Mapped /\ [Next]_vars => Mapped'
<1> SUFFICES ASSUME RefInv, Mapped, [Next]_vars, NEW p \in LiveRecords'
             PROVE  (p \in pipelines \cup destroyed \/ teardown[DeviceOf[p]] = "gone")'
  BY DEF Mapped
<1>1. CASE p \in pipelines'
  BY <1>1
<1>2. CASE p \in LiveRecords
  <2>1. DeviceOf[p] \in Devices
    BY <1>2, LifetimeConstants DEF LiveRecords
  <2> QED
    BY <1>2, <2>1, RecordsNext, GoneNext DEF Mapped
<1> QED
  BY <1>1, <1>2, LiveNext

-----------------------------------------------------------------------------
(* The teardown of a device leaves nothing behind.                          *)

(* Nobody works for a device with nothing in flight.                        *)
LEMMA NobodyWorks ==
  ASSUME RefInv, Counted, NEW d \in Devices, inFlight[d] = 0
  PROVE  QueuedOn(d) = {} /\ \A w \in Workers : dev[w] # d
<1>1. /\ inFlight[d] = Cardinality(QueuedOn(d)) + Cardinality(WorkingOn(d))
      /\ Cardinality(QueuedOn(d)) \in Nat /\ Cardinality(WorkingOn(d)) \in Nat
  BY WorkingOnFinite, QueuedOnFinite DEF Counted
<1>2. Cardinality(QueuedOn(d)) = 0 /\ Cardinality(WorkingOn(d)) = 0
  BY <1>1
<1>3. WorkingOn(d) = {} /\ QueuedOn(d) = {}
  BY <1>2, WorkingOnFinite, QueuedOnFinite, FS_EmptySet
<1> QED
  BY <1>3 DEF WorkingOn

(* A present leaves nothing to a device that is torn down.                 *)
LEMMA PresentTorn ==
  ASSUME Torn, Present
  PROVE  Torn'
BY DEF Torn, QueuedOn, Present, teardownVars, jobVars, threadVars

(* ShutdownRuntime leaves nothing to a device that is torn down.           *)
LEMMA ShutdownTorn ==
  ASSUME Torn, Shutdown
  PROVE  Torn'
BY DEF Torn, QueuedOn, Shutdown, teardownVars, threadVars

(* The start of ReloadAll leaves nothing to a device that is torn down.    *)
LEMMA ReloadAllTorn ==
  ASSUME Torn, ReloadAll
  PROVE  Torn'
BY DEF Torn, QueuedOn, ReloadAll, teardownVars, jobVars

(* LoadResources leaves nothing to a device that is torn down.             *)
LEMMA LoadResourcesTorn ==
  ASSUME Torn, NEW d0 \in Devices, LoadResources(d0)
  PROVE  Torn'
BY DEF Torn, QueuedOn, LoadResources, teardownVars, jobVars, threadVars

(* OnDestroyDevice taking the device out of g_devices leaves nothing to a  *)
(* device that is torn down.                                               *)
LEMMA EraseDeviceTorn ==
  ASSUME RefInv, "reload" \notin Allowed, Torn, NEW d0 \in Devices, EraseDevice(d0)
  PROVE  Torn'
BY DEF Torn, QueuedOn, EraseDevice, jobVars, threadVars, RefInv, OverlayControl,
   OverlayPCs, TearTo

(* A draw leaves nothing to a device that is torn down.                    *)
LEMMA DrawTorn ==
  ASSUME Torn, NEW l \in Lists, Draw(l)
  PROVE  Torn'
BY DEF Torn, QueuedOn, Draw, teardownVars, jobVars, threadVars

(* OnResetCommandList leaves nothing to a device that is torn down.        *)
LEMMA ResetListTorn ==
  ASSUME Torn, NEW l \in Lists, ResetList(l)
  PROVE  Torn'
BY DEF Torn, QueuedOn, ResetList, teardownVars, jobVars, threadVars

(* The GPU finishing work leaves nothing to a device that is torn down.    *)
LEMMA FinishTorn ==
  ASSUME Torn, NEW u \in gpu, Finish(u)
  PROVE  Torn'
BY DEF Torn, QueuedOn, Finish, teardownVars, jobVars, threadVars

(* A worker taking a job leaves nothing to a device that is torn down.     *)
LEMMA TakeJobTorn ==
  ASSUME RefInv, Torn, NEW w \in Workers, TakeJob(w)
  PROVE  Torn'
BY DEF Torn, QueuedOn, TakeJob, teardownVars, RefInv, Typed

(* The test of state.alive leaves nothing to a device that is torn down.   *)
LEMMA CheckJobTorn ==
  ASSUME Torn, NEW w \in Workers, CheckJob(w)
  PROVE  Torn'
BY DEF Torn, QueuedOn, CheckJob, teardownVars, jobVars

(* BuildBindings leaves nothing to a device that is torn down.             *)
LEMMA BuildBindingsTorn ==
  ASSUME Torn, NEW w \in Workers, BuildBindings(w)
  PROVE  Torn'
BY DEF Torn, QueuedOn, BuildBindings, teardownVars, jobVars

(* A job without a replacement leaves nothing to a device that is torn     *)
(* down.                                                                   *)
LEMMA BindingsFailTorn ==
  ASSUME Torn, NEW w \in Workers, BindingsFail(w)
  PROVE  Torn'
BY DEF Torn, QueuedOn, BindingsFail, teardownVars, jobVars

(* The creation of a replacement leaves nothing to a device that is torn   *)
(* down.                                                                   *)
LEMMA CreatePipelineTorn ==
  ASSUME Torn, NEW w \in Workers, CreatePipeline(w)
  PROVE  Torn'
BY DEF Torn, QueuedOn, CreatePipeline, teardownVars, jobVars

(* Publish's test leaves nothing to a device that is torn down.            *)
LEMMA CheckCurrentTorn ==
  ASSUME Torn, NEW w \in Workers, CheckCurrent(w)
  PROVE  Torn'
BY DEF Torn, QueuedOn, CheckCurrent, teardownVars, jobVars

(* Publish's exchange leaves nothing to a device that is torn down.        *)
LEMMA ExchangeTorn ==
  ASSUME Torn, NEW w \in Workers, Exchange(w)
  PROVE  Torn'
BY DEF Torn, QueuedOn, Exchange, teardownVars, jobVars

(* Publish retiring what it replaced leaves nothing to a device that is    *)
(* torn down.                                                              *)
LEMMA RetireOldTorn ==
  ASSUME RefInv, Counted, Torn, NEW w \in Workers, RetireOld(w)
  PROVE  Torn'
BY NobodyWorks DEF Torn, QueuedOn, RetireOld, teardownVars, jobVars, Retire

(* Counting a job down leaves nothing to a device that is torn down.       *)
LEMMA JobDoneTorn ==
  ASSUME RefInv, Counted, Torn, NEW w \in Workers, JobDone(w)
  PROVE  Torn'
BY NobodyWorks DEF Torn, QueuedOn, JobDone, teardownVars, RefInv, Typed

(* Freeing a job leaves nothing to a device that is torn down.             *)
LEMMA FreeJobTorn ==
  ASSUME Torn, NEW w \in Workers, FreeJob(w)
  PROVE  Torn'
BY DEF Torn, QueuedOn, FreeJob, teardownVars, jobVars

(* ReloadAll's new set for a device leaves nothing to a device that is torn*)
(* down.                                                                   *)
LEMMA ReloadResourcesTorn ==
  ASSUME Torn, NEW d0 \in Devices, ReloadResources(d0)
  PROVE  Torn'
BY DEF Torn, QueuedOn, ReloadResources, teardownVars, jobVars

(* A device ReloadAll has no set for leaves nothing to a device that is    *)
(* torn down.                                                              *)
LEMMA SkipResourcesTorn ==
  ASSUME Torn, NEW d0 \in Devices, SkipResources(d0)
  PROVE  Torn'
BY DEF Torn, QueuedOn, SkipResources, teardownVars, jobVars

(* ReloadAll retiring an old set leaves nothing to a device that is torn   *)
(* down.                                                                   *)
LEMMA RetireResourcesTorn ==
  ASSUME RefInv, Torn, RetireResources
  PROVE  Torn'
BY DEF Torn, QueuedOn, RetireResources, teardownVars, jobVars, RefInv, OverlayControl,
   OnLiveDevices, Retire

(* The start of RepatchAll leaves nothing to a device that is torn down.   *)
LEMMA RepatchAllTorn ==
  ASSUME Torn, RepatchAll
  PROVE  Torn'
BY DEF Torn, QueuedOn, RepatchAll, teardownVars, jobVars

(* The copy of the map leaves nothing to a device that is torn down.       *)
LEMMA RepatchDeviceTorn ==
  ASSUME Torn, NEW d0 \in Devices, RepatchDevice(d0)
  PROVE  Torn'
BY DEF Torn, QueuedOn, RepatchDevice, teardownVars, jobVars

(* RepatchAll's Enqueue of a record leaves nothing to a device that is torn*)
(* down.                                                                   *)
LEMMA RepatchRecordTorn ==
  ASSUME RefInv, Torn, NEW p \in Records, RepatchRecord(p)
  PROVE  Torn'
BY LifetimeConstants DEF Torn, QueuedOn, RepatchRecord, teardownVars, PushJob, RefInv,
   Typed, OverlayControl, OnLiveDevices

(* RepatchAll retiring what it took out leaves nothing to a device that is *)
(* torn down.                                                              *)
LEMMA RetireRepatchedTorn ==
  ASSUME RefInv, Torn, RetireRepatched
  PROVE  Torn'
BY DEF Torn, QueuedOn, RetireRepatched, teardownVars, jobVars, RefInv, OverlayControl,
   OnLiveDevices, Retire

(* The end of RepatchAll leaves nothing to a device that is torn down.     *)
LEMMA ReloadDoneTorn ==
  ASSUME Torn, ReloadDone
  PROVE  Torn'
BY DEF Torn, QueuedOn, ReloadDone, teardownVars, jobVars

(* OnInitPipeline leaves nothing to a device that is torn down.            *)
LEMMA InitPipelineTorn ==
  ASSUME Torn, NEW g \in Games, InitPipeline(g)
  PROVE  Torn'
BY DEF Torn, QueuedOn, InitPipeline, teardownVars, jobVars

(* LoadResources coming to a record leaves nothing to a device that is torn*)
(* down.                                                                   *)
LEMMA RepatchWaitingTorn ==
  ASSUME Torn, NEW g \in Games, RepatchWaiting(g)
  PROVE  Torn'
BY DEF Torn, QueuedOn, RepatchWaiting, teardownVars, jobVars

(* Enqueue leaves nothing to a device that is torn down.                   *)
LEMMA EnqueueTorn ==
  ASSUME RefInv, Torn, NEW g \in Games, Enqueue(g)
  PROVE  Torn'
BY LifetimeConstants DEF Torn, QueuedOn, Enqueue, teardownVars, PushJob, RefInv,
   Typed, GameControl, Threads

(* OnDestroyPipeline taking a record out of the map leaves nothing to a    *)
(* device that is torn down.                                               *)
LEMMA DestroyPipelineTorn ==
  ASSUME Torn, NEW g \in Games, DestroyPipeline(g)
  PROVE  Torn'
BY DEF Torn, QueuedOn, DestroyPipeline, teardownVars, jobVars

(* OnDestroyPipeline taking the replacement leaves nothing to a device that*)
(* is torn down.                                                           *)
LEMMA TakeReplacementTorn ==
  ASSUME Torn, NEW g \in Games, TakeReplacement(g)
  PROVE  Torn'
BY DEF Torn, QueuedOn, TakeReplacement, teardownVars, jobVars

(* OnDestroyPipeline retiring the replacement leaves nothing to a device   *)
(* that is torn down.                                                      *)
LEMMA RetireTakenTorn ==
  ASSUME RefInv, Torn, NEW g \in Games, RetireTaken(g)
  PROVE  Torn'
BY DEF Torn, QueuedOn, RetireTaken, teardownVars, jobVars, Retire, Return, Goto,
   RefInv, Typed, GameControl

(* OnDestroyDevice clearing state.alive leaves nothing to a device that is *)
(* torn down.                                                              *)
LEMMA StopJobsTorn ==
  ASSUME Torn, NEW d0 \in Devices, StopJobs(d0)
  PROVE  Torn'
BY DEF Torn, QueuedOn, StopJobs, jobVars, threadVars, TearTo

(* OnDestroyDevice removing the queued jobs leaves nothing to a device that*)
(* is torn down.                                                           *)
LEMMA RemoveJobsTorn ==
  ASSUME RefInv, Counted, Torn, NEW d0 \in Devices, RemoveJobs(d0)
  PROVE  Torn'
BY QueuedOnFinite, NobodyWorks DEF Torn, QueuedOn, RemoveJobs, threadVars, RefInv,
   Typed, TearTo

(* The end of OnDestroyDevice's wait leaves nothing to a device that is    *)
(* torn down.                                                              *)
LEMMA WaitForJobsTorn ==
  ASSUME Torn, NEW d0 \in Devices, WaitForJobs(d0)
  PROVE  Torn'
BY DEF Torn, QueuedOn, WaitForJobs, jobVars, threadVars, TearTo

(* OnDestroyDevice dropping its references leaves nothing to a device that *)
(* is torn down.                                                           *)
LEMMA DestroyStateTorn ==
  ASSUME RefInv, Torn, NEW d0 \in Devices, DestroyState(d0)
  PROVE  Torn'
BY DEF Torn, QueuedOn, DestroyState, jobVars, threadVars, RefInv, Typed, TearTo

(* OnBindPipeline leaves nothing to a device that is torn down.            *)
LEMMA BindPipelineTorn ==
  ASSUME Torn, NEW l \in Lists, BindPipeline(l)
  PROVE  Torn'
BY DEF Torn, QueuedOn, BindPipeline, teardownVars, jobVars, threadVars

(* Torn is inductive.                                                      *)
LEMMA NextTorn == RefInv /\ Counted /\ Torn /\ "reload" \notin Allowed /\ [Next]_vars => Torn'
<1> SUFFICES ASSUME RefInv, Counted, Torn, "reload" \notin Allowed, [Next]_vars PROVE Torn'
  OBVIOUS
<1>1. ASSUME NEW w \in Workers, WorkerStep(w) PROVE Torn'
  BY <1>1, TakeJobTorn, CheckJobTorn, BuildBindingsTorn, BindingsFailTorn,
     CreatePipelineTorn, CheckCurrentTorn, ExchangeTorn, RetireOldTorn, JobDoneTorn,
     FreeJobTorn DEF WorkerStep
<1>2. CASE OverlayStep
  BY <1>2, ReloadResourcesTorn, SkipResourcesTorn, RepatchDeviceTorn,
     RepatchRecordTorn, RetireResourcesTorn, RepatchAllTorn, RetireRepatchedTorn,
     ReloadDoneTorn DEF OverlayStep
<1>3. ASSUME NEW g \in Games, PipelineStep(g) PROVE Torn'
  BY <1>3, InitPipelineTorn, RepatchWaitingTorn, EnqueueTorn, DestroyPipelineTorn,
     TakeReplacementTorn, RetireTakenTorn DEF PipelineStep
<1>4. ASSUME NEW d \in Devices, TeardownStep(d) PROVE Torn'
  BY <1>4, StopJobsTorn, RemoveJobsTorn, WaitForJobsTorn, DestroyStateTorn DEF
     TeardownStep
<1>5. CASE GameStep
  BY <1>5, PresentTorn, ShutdownTorn, ReloadAllTorn, LoadResourcesTorn,
     EraseDeviceTorn, BindPipelineTorn, DrawTorn, ResetListTorn, FinishTorn DEF GameStep
<1>6. CASE UNCHANGED vars
  BY <1>6 DEF vars, Torn, QueuedOn, jobVars, threadVars, teardownVars
<1> QED
  BY <1>1, <1>2, <1>3, <1>4, <1>5, <1>6 DEF Next

(* Cleared is inductive: a worker that could publish again would still be   *)
(* in flight.                                                               *)
LEMMA NextCleared ==
  RefInv /\ Counted /\ Mapped /\ Torn /\ Cleared /\ [Next]_vars => Cleared'
<1> SUFFICES ASSUME RefInv, Counted, Mapped, Torn, Cleared, [Next]_vars,
                    NEW d \in Devices, teardown'[d] = "gone"
             PROVE  (/\ \A p \in pipelines : DeviceOf[p] # d
                     /\ \A p \in LiveRecords \ destroyed :
                          DeviceOf[p] = d => replacement[p] = Null)'
  BY DEF Cleared
<1>1. CASE teardown[d] # "gone"
  <2>1. DestroyState(d)
    BY <1>1, GoneNext
  <2>2. /\ destroyed' = destroyed
        /\ pipelines' = pipelines \ {p \in pipelines : DeviceOf[p] = d}
        /\ \A p \in pipelines : DeviceOf[p] = d => replacement'[p] = Null
    BY <2>1 DEF DestroyState, RefInv, Typed
  <2>3. ASSUME NEW p \in LiveRecords' \ destroyed', DeviceOf[p] = d PROVE p \in pipelines
    BY <1>1, <2>2, <2>3, LiveNext DEF Mapped
  <2> QED
    BY <2>2, <2>3
<1>2. CASE teardown[d] = "gone"
  <2>1. \A p \in pipelines' : DeviceOf[p] # d
    BY <1>2, RecordsNext DEF Cleared
  <2>2. ASSUME NEW p \in LiveRecords' \ destroyed', DeviceOf[p] = d
        PROVE  replacement'[p] = Null
    <3>1. p \in LiveRecords \ destroyed /\ p \in Records
      BY <2>1, <2>2, LiveNext, RecordsNext DEF LiveRecords
    <3>2. replacement[p] = Null
      BY <1>2, <2>2, <3>1 DEF Cleared
    <3>3. \A w \in Workers : dev[w] # d
      BY <1>2, NobodyWorks DEF Torn
    <3>4. ~ \E w \in Workers : pc[w] = "exchange" /\ job[w] = p
      BY <2>2, <3>3 DEF RefInv, WorkerControl
    <3> QED
      BY <3>1, <3>2, <3>4, RecordsNext
  <2> QED
    BY <2>1, <2>2
<1> QED
  BY <1>1, <1>2

(* No device is torn down at the start.                                    *)
LEMMA InitTorn == Init => Mapped /\ Torn /\ Cleared
BY LifetimeConstants DEF Init, Mapped, Torn, Cleared, LiveRecords

(* What refers to a record of a device that is gone, if it has a            *)
(* replacement, is a job that is being freed.                               *)
LEMMA GoneRecord ==
  ASSUME RefInv, Counted, Torn, Cleared, NEW d \in Devices, teardown[d] = "gone",
         NEW p \in LiveRecords, DeviceOf[p] = d, replacement[p] # Null
  PROVE  p \in destroyed /\ \E w \in Workers : pc[w] = "free" /\ job[w] = p
<1>1. p \in destroyed /\ p \in Records /\ p # Null
  BY LifetimeConstants DEF Cleared, LiveRecords
<1>2. p \notin pipelines
  BY DEF Cleared
<1>3. p \notin copied
  BY DEF RefInv, OverlayControl, OnLiveDevices
<1>4. \A j \in Jobs : queue[j] # p
  BY <1>1 DEF Torn, QueuedOn
<1>5. job[Overlay] # p /\ \A g \in Games : job[g] # p
  BY <1>1 DEF RefInv, OverlayControl, GameControl
<1>6. PICK w \in Workers : job[w] = p
  BY <1>2, <1>3, <1>4, <1>5 DEF LiveRecords, Threads
<1>7. dev[w] # d
  BY NobodyWorks DEF Torn
<1> QED
  BY <1>1, <1>6, <1>7 DEF RefInv, WorkerControl

(* Nothing else refers to an object of a device that is gone.               *)
LEMMA GoneIsEmpty ==
  ASSUME RefInv, Counted, Torn, Cleared, NEW d \in Devices, teardown[d] = "gone"
  PROVE  /\ \A t \in Threads : dev[t] # d
         /\ \A o \in Objects : DeviceOf[o] = d => o \notin Referenced \/ o \in Orphans
<1>1. \A w \in Workers : dev[w] # d
  BY NobodyWorks DEF Torn
<1>2. dev[Overlay] # d
  BY LifetimeConstants DEF Torn, RefInv, OverlayControl, OverlayPCs, OnLiveDevices
<1>3. \A g \in Games : dev[g] # d
  BY LifetimeConstants DEF RefInv, GameControl
<1>4. \A t \in Threads : dev[t] # d
  BY <1>1, <1>2, <1>3 DEF Threads
<1> DEFINE Stray == {replacement[job[w]] :
                       w \in {w \in Workers : pc[w] = "free" /\ job[w] \in destroyed}}
<1>5. ASSUME NEW o \in Objects, DeviceOf[o] = d, o \in Direct PROVE o \in Stray
  <2>0. o # Null /\ Unbound.object = Null
    BY LifetimeConstants DEF Unbound
  <2>1. ASSUME NEW p \in LiveRecords, replacement[p] = o PROVE o \in Stray
    <3>1. DeviceOf[p] = d
      BY <1>5, <2>0, <2>1 DEF RefInv, Belongs, LiveRecords
    <3> QED
      BY <2>0, <2>1, <3>1, GoneRecord
  <2>2. \A c \in Devices : resources[c] # o
    BY <1>5, <2>0 DEF Torn, RefInv, Belongs
  <2>3. \A t \in Threads : held[t] # o
    BY <1>4, <1>5, <2>0 DEF RefInv, Belongs
  <2>4. \A l \in Lists : pending[l].object # o
    <3> SUFFICES ASSUME NEW l \in Lists, pending[l] # Unbound PROVE pending[l].object # o
      BY <2>0
    <3> QED
      BY <1>5 DEF RefInv, Belongs, OnLiveDevices
  <2>5. \A e \in retired : e.object # o
    BY <1>5 DEF Torn, RefInv, Belongs
  <2> QED
    BY <1>5, <2>1, <2>2, <2>3, <2>4, <2>5 DEF Direct
<1>6. ASSUME NEW o \in Objects, DeviceOf[o] = d, o \in Referenced PROVE o \in Orphans
  <2>1. CASE o \in Direct
    BY <1>5, <1>6, <2>1 DEF Orphans
  <2>2. ASSUME NEW r \in Direct \cap Replacements, setOf[r] = o PROVE o \in Orphans
    <3>1. DeviceOf[r] = d /\ r \in Objects
      BY <1>6, <2>2, LifetimeConstants DEF RefInv, Belongs, Objects
    <3>2. r \in Stray
      BY <1>5, <2>2, <3>1
    <3> QED
      BY <2>2, <3>2 DEF Orphans
  <2> QED
    BY <1>6, <2>1, <2>2 DEF Referenced
<1> QED
  BY <1>4, <1>6

(* Once OnDestroyDevice is over, no thread works on the device and its      *)
(* objects are destroyed, save what a job that left in_flight holds of a    *)
(* pipeline destroyed while it published - for a game that does not destroy *)
(* a device while ReloadAll loads resources: ReloadAll's copy of g_devices  *)
(* would give resources to one that is gone.                                *)
THEOREM NothingOutlivesDeviceHolds ==
  ASSUME "reload" \notin Allowed
  PROVE  Spec => []NothingOutlivesDevice
<1> DEFINE Inv == RefInv /\ Counted /\ Mapped /\ Torn /\ Cleared
<1>1. Init => Inv
  BY InitRefs, InitCounted, InitTorn
<1>2. Inv /\ [Next]_vars => Inv'
  BY NextRefs, NextCounted, NextMapped, NextTorn, NextCleared
<1>3. Inv => NothingOutlivesDevice
  <2> SUFFICES ASSUME Inv, NEW d \in Devices, teardown[d] = "gone"
               PROVE  /\ \A o \in built : DeviceOf[o] = d => o \in Destroyed \cup Orphans
                      /\ \A t \in Threads : dev[t] # d
    BY DEF NothingOutlivesDevice
  <2>1. built \subseteq Objects
    BY DEF RefInv, Typed
  <2> QED
    BY <2>1, GoneIsEmpty DEF Destroyed
<1> QED
  BY <1>1, <1>2, <1>3, PTL DEF Spec

-----------------------------------------------------------------------------
(* What the GPU uses is referenced.                                         *)

(* A bound replacement on a device that is up stays referenced as long as   *)
(* it may be used.                                                          *)
LEMMA KeptNext ==
  ASSUME RefInv, [Next]_vars, NEW u \in Uses, teardown[DeviceOf[u.object]] = "up",
         Kept(u), u.bound <= frame, frame' <= u.bound + Window
  PROVE  Kept(u)'
<1> DEFINE o == u.object
           Homes == \E p \in pipelines : replacement[p] = o
           Takes == \E g \in Games : pc[g] = "take" /\ replacement[job[g]] = o
           Hands == \E t \in Threads : held[t] = o /\ pc[t] \in {"retire"} \cup OverlayPCs
           Waits == \E e \in retired : e.object = o /\ e.frame >= u.bound
<1>0. /\ o \in Replacements /\ o \in Objects /\ o # Null /\ u.bound \in Nat /\ frame \in Nat
      /\ held \in [Threads -> Objects \cup {Null}]
      /\ replacement \in [Records -> Replacements \cup {Null}] /\ pipelines \subseteq Records
      /\ pc \in [Threads -> WorkerPCs \cup OverlayPCs \cup GamePCs]
      /\ job \in [Threads -> Records \cup {Null}]
      /\ \A p \in Records : replacement[p] = o => DeviceOf[p] = DeviceOf[o]
  BY LifetimeConstants DEF Uses, Objects, RefInv, Typed, Belongs
<1>1. CASE Present
  <2>1. UNCHANGED <<pipelines, replacement, job, held, pc>>
    BY <1>1 DEF Present, recordVars, threadVars
  <2>2. Waits => Waits'
    <3> SUFFICES ASSUME NEW e \in retired, e.object = o, e.frame >= u.bound PROVE e \in retired'
      OBVIOUS
    <3>1. e.frame \in Nat /\ e.frame + RetireFrames > frame'
      BY <1>0, <1>1, LifetimeConstants DEF Present, RefInv, Typed
    <3> QED
      BY <1>1, <1>0, <3>1, LifetimeConstants DEF Present, Expired
  <2> QED
    BY <2>1, <2>2 DEF Kept
<1>2. ASSUME NEW v \in Threads, NEW q \in Records, retired' = retired,
             held' = [held EXCEPT ![v] = replacement[q]], held[v] # o \/ pc[v] # "retire",
             replacement' = [replacement EXCEPT ![q] = replacement'[q]],
             UNCHANGED pipelines, held[v] = o => pc[v] \notin OverlayPCs,
             \A t \in Threads : t # v => pc'[t] = pc[t] /\ job'[t] = job[t],
             replacement[q] = o => pc'[v] \in {"retire"} \cup OverlayPCs,
             pc[v] = "take" => v \in Games /\ job[v] = q
      PROVE  Kept(u)'
  <2>1. replacement[q] = o => Hands'
    BY <1>0, <1>2
  <2>2. CASE Waits
    BY <1>2, <2>2 DEF Kept
  <2>3. CASE Hands
    <3>1. PICK t \in Threads : held[t] = o /\ pc[t] \in {"retire"} \cup OverlayPCs
      BY <2>3
    <3>2. t # v
      BY <1>2, <3>1
    <3> QED
      BY <1>0, <1>2, <3>1, <3>2 DEF Kept
  <2>4. CASE Homes
    <3>1. Homes' \/ replacement[q] = o
      BY <1>0, <1>2, <2>4
    <3> QED
      BY <2>1, <3>1 DEF Kept
  <2>5. CASE Takes
    <3>1. PICK g \in Games : pc[g] = "take" /\ replacement[job[g]] = o
      BY <2>5
    <3>2. g \in Threads /\ job[g] \in Records
      BY <1>0, <3>1 DEF Threads, RefInv, GameControl
    <3>3. CASE g = v \/ job[g] = q
      BY <1>2, <2>1, <3>1, <3>3 DEF Kept
    <3>4. CASE g # v /\ job[g] # q
      <4>1. pc'[g] = "take" /\ replacement'[job'[g]] = o
        BY <1>0, <1>2, <3>1, <3>2, <3>4
      <4> QED
        BY <4>1 DEF Kept
    <3> QED
      BY <3>3, <3>4
  <2> QED
    BY <2>2, <2>3, <2>4, <2>5 DEF Kept
<1>3. ASSUME NEW v \in Threads, Retire(v), held' = [held EXCEPT ![v] = Null],
             UNCHANGED <<pipelines, replacement, frame>>, pc[v] # "take",
             \A t \in Threads : t # v => pc'[t] = pc[t] /\ job'[t] = job[t]
      PROVE  Kept(u)'
  <2>1. retired \subseteq retired'
    BY <1>3 DEF Retire
  <2>2. CASE Waits
    BY <2>1, <2>2 DEF Kept
  <2>3. ASSUME held[v] = o PROVE Waits'
    <3>1. [frame |-> frame, device |-> dev[v], object |-> o] \in retired'
      BY <1>0, <1>3, <2>3 DEF Retire
    <3> QED
      BY <1>0, <3>1
  <2>4. ASSUME NEW t \in Threads, held[t] = o, pc[t] \in {"retire"} \cup OverlayPCs, t # v
        PROVE  Hands'
    BY <1>0, <1>3, <2>4
  <2>5. Homes => Homes'
    BY <1>3
  <2>6. Takes => Takes'
    BY <1>3 DEF Threads
  <2> QED
    BY <2>2, <2>3, <2>4, <2>5, <2>6 DEF Kept
<1>4. ASSUME NEW w \in Workers, Exchange(w) PROVE Kept(u)'
  <2>1. w \in Threads /\ job[w] \in Records
    BY <1>0, <1>4 DEF Exchange, RefInv, WorkerControl, Threads
  <2>2. replacement[job[w]] = o => pc'[w] = "retire"
    BY <1>0, <1>4, <2>1 DEF Exchange, GotoRetire, Goto
  <2>3. /\ pc[w] = "exchange" /\ UNCHANGED <<pipelines, job, retired>>
        /\ held' = [held EXCEPT ![w] = replacement[job[w]]]
        /\ replacement' = [replacement EXCEPT ![job[w]] = replacement'[job[w]]]
        /\ \A t \in Threads : t # w => pc'[t] = pc[t]
    BY <1>0, <1>4, <2>1 DEF Exchange, GotoRetire, Goto
  <2> QED
    BY <1>2, <2>1, <2>2, <2>3 DEF OverlayPCs
<1>5. ASSUME NEW w \in Workers, RetireOld(w) PROVE Kept(u)'
  BY <1>0, <1>5, <1>3 DEF RetireOld, Goto, Threads, recordVars
<1>6. CASE RetireResources \/ RetireRepatched
  BY <1>6, <1>3 DEF RetireResources, RetireRepatched, Threads, recordVars
<1>7. ASSUME NEW g \in Games, RetireTaken(g) PROVE Kept(u)'
  BY <1>0, <1>7, <1>3 DEF RetireTaken, Return, Goto, Threads, recordVars
<1>8. ASSUME NEW d \in Devices, ReloadResources(d) PROVE Kept(u)'
  BY <1>0, <1>8 DEF Kept, ReloadResources, recordVars
<1>9. ASSUME NEW g \in Games, Enqueue(g) \/ TakeReplacement(g) PROVE Kept(u)'
  <2>1. /\ g \in Threads /\ job[g] \in Records /\ held[g] = Null
        /\ UNCHANGED <<pipelines, retired>> /\ pc[g] \in {"enqueue", "take"}
    BY <1>0, <1>9 DEF Enqueue, TakeReplacement, RefInv, GameControl, Threads
  <2>2. CASE TakeOut(g, job[g]) /\ Goto(g, "retire") /\ UNCHANGED job
    <3>1. /\ held' = [held EXCEPT ![g] = replacement[job[g]]]
          /\ replacement' = [replacement EXCEPT ![job[g]] = replacement'[job[g]]]
          /\ pc'[g] = "retire" /\ \A t \in Threads : t # g => pc'[t] = pc[t]
      BY <1>0, <2>1, <2>2 DEF TakeOut, Goto
    <3> QED
      BY <1>0, <1>2, <2>1, <2>2, <3>1
  <2>3. CASE /\ Return(g) /\ UNCHANGED <<replacement, held>>
             /\ pc[g] = "enqueue" \/ replacement[job[g]] = Null
    <3>1. \A t \in Threads : t # g => pc'[t] = pc[t] /\ job'[t] = job[t]
      BY <1>0, <2>3 DEF Return, Goto
    <3>2. Takes => Takes'
      BY <1>0, <2>1, <2>3, <3>1 DEF Threads
    <3>3. Hands => Hands'
      BY <1>0, <2>1, <2>3, <3>1
    <3> QED
      BY <2>1, <2>3, <3>2, <3>3 DEF Kept
  <2> QED
    BY <1>9, <2>2, <2>3 DEF Enqueue, TakeReplacement
<1>10. ASSUME NEW g \in Games, InitPipeline(g) \/ RepatchWaiting(g) PROVE Kept(u)'
  <2>1. /\ g \in Threads /\ held[g] = Null /\ pc[g] = "idle" /\ UNCHANGED <<held, retired>>
        /\ \A t \in Threads : t # g => pc'[t] = pc[t] /\ job'[t] = job[t]
        /\ pipelines \subseteq pipelines'
    BY <1>0, <1>10 DEF InitPipeline, RepatchWaiting, Goto, RefInv, GameControl, Threads,
       recordVars
  <2>2. \A p \in LiveRecords : replacement'[p] = replacement[p]
    <3>1. CASE InitPipeline(g)
      <4>1. PICK d \in Devices :
              /\ \E p \in Records \ LiveRecords : DeviceOf[p] = d
              /\ replacement' = [replacement EXCEPT
                   ![CHOOSE p \in Records \ LiveRecords : DeviceOf[p] = d] = Null]
        BY <3>1 DEF InitPipeline
      <4>2. PICK n \in Records \ LiveRecords :
              n = CHOOSE p \in Records \ LiveRecords : DeviceOf[p] = d
        BY <4>1
      <4>3. replacement' = [replacement EXCEPT ![n] = Null]
        BY <4>1, <4>2
      <4> QED
        BY <1>0, <4>3 DEF LiveRecords
    <3>2. CASE RepatchWaiting(g)
      BY <3>2 DEF RepatchWaiting, recordVars
    <3> QED
      BY <1>10, <3>1, <3>2
  <2>3. /\ pipelines \subseteq LiveRecords
        /\ \A t \in Threads : job[t] # Null => job[t] \in LiveRecords
    BY <1>0 DEF LiveRecords
  <2>4. Takes => Takes'
    <3> SUFFICES ASSUME NEW h \in Games, pc[h] = "take", replacement[job[h]] = o PROVE Takes'
      OBVIOUS
    <3>1. h \in Threads /\ h # g /\ job[h] \in LiveRecords
      BY <2>1, <2>3 DEF RefInv, GameControl, Threads
    <3> QED
      BY <2>1, <2>2, <3>1
  <2>5. Hands => Hands'
    BY <1>0, <2>1
  <2>6. Homes => Homes'
    BY <2>1, <2>2, <2>3
  <2> QED
    BY <2>1, <2>4, <2>5, <2>6 DEF Kept
<1>11. ASSUME NEW g \in Games, DestroyPipeline(g) PROVE Kept(u)'
  <2>1. PICK q \in pipelines : /\ pipelines' = pipelines \ {q}
                               /\ job' = [job EXCEPT ![g] = q]
    BY <1>11 DEF DestroyPipeline
  <2>2. /\ g \in Threads /\ held[g] = Null /\ pc[g] = "idle" /\ pc'[g] = "take"
        /\ UNCHANGED <<held, retired, replacement>>
        /\ \A t \in Threads : t # g => pc'[t] = pc[t]
    BY <1>0, <1>11 DEF DestroyPipeline, Goto, RefInv, GameControl, Threads
  <2>3. replacement[q] = o => Takes'
    BY <1>0, <2>1, <2>2
  <2>4. Takes => Takes'
    BY <1>0, <2>1, <2>2 DEF Threads
  <2>5. Hands => Hands'
    BY <1>0, <2>2
  <2> QED
    BY <2>1, <2>2, <2>3, <2>4, <2>5 DEF Kept
<1>12. ASSUME NEW p \in Records, RepatchRecord(p) PROVE Kept(u)'
  <2>1. /\ Overlay \in Threads /\ held[Overlay] = Null /\ pc[Overlay] = "repatch"
        /\ UNCHANGED <<pc, job, pipelines, retired>>
    BY <1>12 DEF RepatchRecord, Threads
  <2>2. CASE UNCHANGED <<replacement, held>>
    BY <2>1, <2>2 DEF Kept
  <2>3. CASE TakeOut(Overlay, p)
    <3>1. /\ held' = [held EXCEPT ![Overlay] = replacement[p]]
          /\ replacement' = [replacement EXCEPT ![p] = replacement'[p]]
      BY <1>0, <2>3 DEF TakeOut
    <3> QED
      BY <1>0, <1>2, <2>1, <3>1 DEF OverlayPCs
  <2> QED
    BY <1>12, <2>2, <2>3 DEF RepatchRecord
<1>13. ASSUME NEW d \in Devices, DestroyState(d) PROVE Kept(u)'
  <2>1. DeviceOf[o] # d /\ UNCHANGED <<pc, job, held>>
    BY <1>13 DEF DestroyState, TearTo, threadVars
  <2>2. \A p \in Records : replacement[p] = o =>
          replacement'[p] = o /\ (p \in pipelines => p \in pipelines')
    BY <1>0, <1>13, <2>1 DEF DestroyState
  <2>3. Takes => Takes'
    BY <1>0, <2>1, <2>2 DEF Threads, RefInv, GameControl
  <2>4. Waits => Waits'
    BY <1>13, <2>1 DEF DestroyState, RefInv, Belongs
  <2>5. Homes => Homes'
    BY <1>0, <2>2
  <2> QED
    BY <2>1, <2>3, <2>4, <2>5 DEF Kept
<1>14. ASSUME NEW w \in Workers,
              \/ TakeJob(w) \/ CheckJob(w) \/ BuildBindings(w) \/ BindingsFail(w)
              \/ CreatePipeline(w) \/ CheckCurrent(w) \/ JobDone(w) \/ FreeJob(w)
       PROVE  Kept(u)'
  <2>1. UNCHANGED <<pipelines, replacement, retired>>
    BY <1>14 DEF TakeJob, CheckJob, BuildBindings, BindingsFail, CreatePipeline,
       CheckCurrent, JobDone, FreeJob, recordVars
  <2>2. \A g \in Games : pc'[g] = pc[g] /\ job'[g] = job[g]
    BY <1>0, <1>14, LifetimeConstants DEF TakeJob, CheckJob, BuildBindings, BindingsFail,
       CreatePipeline, CheckCurrent, JobDone, FreeJob, Goto, GotoRetire, Threads
  <2>3. Hands => Hands'
    BY <1>0, <1>14 DEF TakeJob, CheckJob, BuildBindings, BindingsFail, CreatePipeline,
       CheckCurrent, JobDone, FreeJob, Goto, GotoRetire, OverlayPCs, RefInv, WorkerControl
  <2> QED
    BY <2>1, <2>2, <2>3 DEF Kept
<1>15. CASE ReloadAll \/ RepatchAll \/ ReloadDone
  <2>1. UNCHANGED <<pipelines, replacement, retired, held, job>>
    BY <1>15 DEF ReloadAll, RepatchAll, ReloadDone, recordVars
  <2>2. Hands => Hands'
    BY <1>0, <1>15 DEF ReloadAll, RepatchAll, ReloadDone, Goto, OverlayPCs
  <2>3. \A g \in Games : pc'[g] = pc[g]
    BY <1>0, <1>15, LifetimeConstants DEF ReloadAll, RepatchAll, ReloadDone, Goto, Threads
  <2> QED
    BY <2>1, <2>2, <2>3 DEF Kept
<1>16. CASE UNCHANGED <<pipelines, replacement, retired, held, pc, job>>
  BY <1>16 DEF Kept
<1>17. ASSUME NEW w \in Workers, WorkerStep(w) PROVE Kept(u)'
  BY <1>4, <1>5, <1>14, <1>17 DEF WorkerStep
<1>18. CASE OverlayStep
  BY <1>6, <1>8, <1>12, <1>15, <1>16, <1>18 DEF OverlayStep, SkipResources, RepatchDevice,
     recordVars
<1>19. ASSUME NEW g \in Games, PipelineStep(g) PROVE Kept(u)'
  BY <1>7, <1>9, <1>10, <1>11, <1>19 DEF PipelineStep
<1>20. ASSUME NEW d \in Devices, TeardownStep(d) PROVE Kept(u)'
  BY <1>13, <1>16, <1>20 DEF TeardownStep, StopJobs, RemoveJobs, WaitForJobs, recordVars,
     threadVars
<1>21. CASE GameStep
  BY <1>1, <1>15, <1>16, <1>21 DEF GameStep, Shutdown, LoadResources, EraseDevice,
     BindPipeline, Draw, ResetList, Finish, recordVars, threadVars
<1>22. CASE UNCHANGED vars
  BY <1>16, <1>22 DEF vars, recordVars, threadVars
<1> QED
  BY <1>17, <1>18, <1>19, <1>20, <1>21, <1>22 DEF Next

(* UsesKept is inductive for a game that is not slow.                      *)
LEMMA NextUsesKept ==
  RefInv /\ UsesKept /\ "slow" \notin Allowed /\ [Next]_vars => UsesKept'
<1> SUFFICES ASSUME RefInv, UsesKept, "slow" \notin Allowed, [Next]_vars PROVE UsesKept'
  OBVIOUS
<1>0. /\ frame \in Nat /\ Window \in Nat
      /\ frame' = frame \/ (frame' = frame + 1 /\ \A u \in gpu : u.bound + Window > frame)
  BY LifetimeConstants DEF RefInv, Typed, vars, Next, WorkerStep, OverlayStep,
     TeardownStep,
     GameStep, jobVars, threadVars, teardownVars, objectVars, gameVars, Present, Shutdown,
     ReloadAll, LoadResources, EraseDevice, BindPipeline, Draw, ResetList, Finish,
     TakeJob, CheckJob, BuildBindings, BindingsFail, CreatePipeline, CheckCurrent,
     Exchange, RetireOld,
     JobDone, FreeJob, InitPipeline, RepatchWaiting, Enqueue,
     DestroyPipeline, TakeReplacement, RetireTaken, PipelineStep, recordVars,
     ReloadResources, SkipResources, RepatchDevice, RepatchRecord, RetireResources,
     RepatchAll,
     RetireRepatched, ReloadDone, StopJobs, RemoveJobs, WaitForJobs, DestroyState
<1>1. ASSUME NEW l \in Lists, pending'[l] # Unbound
      PROVE  (pending[l].bound <= frame /\ (InWindow(pending[l]) => Kept(pending[l])))'
  <2>1. CASE pending'[l] = pending[l]
    <3>1. /\ pending[l] \in Uses /\ pending[l].bound \in Nat
          /\ teardown[DeviceOf[pending[l].object]] = "up" /\ pending[l].bound <= frame
      BY <1>1, <2>1 DEF RefInv, Typed, Belongs, OnLiveDevices, UsesKept, Uses
    <3>2. InWindow(pending[l])' => InWindow(pending[l])
      BY <1>0, <2>1, <3>1 DEF InWindow
    <3>3. ASSUME InWindow(pending[l])' PROVE Kept(pending[l])'
      <4> DEFINE u == pending[l]
      <4>1. Kept(u) /\ frame' <= u.bound + Window
        BY <1>1, <2>1, <3>2, <3>3 DEF UsesKept, InWindow
      <4> HIDE DEF u
      <4>2. u \in Uses /\ teardown[DeviceOf[u.object]] = "up" /\ u.bound <= frame
        BY <3>1 DEF u
      <4>3. ASSUME NEW v \in Uses, v = u PROVE Kept(v)'
        BY <4>1, <4>2, <4>3, KeptNext
      <4> QED
        BY <2>1, <4>2, <4>3 DEF u, Kept
    <3> QED
      BY <1>0, <2>1, <3>1, <3>3
  <2>2. CASE pending'[l] # pending[l]
    <3>1. BindPipeline(l) \/ ResetList(l)
      BY <2>2 DEF vars, Next, WorkerStep, OverlayStep, TeardownStep, GameStep, jobVars,
         threadVars, teardownVars, objectVars, gameVars, Present, Shutdown, ReloadAll,
         LoadResources, EraseDevice, BindPipeline, Draw, ResetList, Finish,
         TakeJob, CheckJob, BuildBindings, BindingsFail, CreatePipeline, CheckCurrent,
         Exchange, RetireOld,
         JobDone, FreeJob, InitPipeline, RepatchWaiting, Enqueue,
     DestroyPipeline, TakeReplacement, RetireTaken, PipelineStep, recordVars,
     ReloadResources, SkipResources, RepatchDevice, RepatchRecord, RetireResources,
         RepatchAll, RetireRepatched, ReloadDone, StopJobs, RemoveJobs, WaitForJobs,
         DestroyState, RefInv, Typed
    <3>2. BindPipeline(l)
      BY <1>1, <3>1 DEF ResetList, RefInv, Typed
    <3>3. PICK p \in pipelines :
            pending'[l] = [object |-> replacement[p], bound |-> frame] /\ replacement[p] # Null
      BY <1>1, <3>2, BindPipelineUse
    <3>4. UNCHANGED <<pipelines, replacement>> /\ frame' = frame
      BY <3>2 DEF BindPipeline, recordVars
    <3> QED
      BY <1>0, <3>3, <3>4 DEF Kept
  <2> QED
    BY <2>1, <2>2
<1>2. ASSUME NEW u \in gpu' PROVE (InWindow(u) /\ Kept(u))'
  <2>1. u \in Uses /\ teardown[DeviceOf[u.object]] = "up" /\ Kept(u) /\ InWindow(u)
    <3>1. CASE u \in gpu
      BY <3>1 DEF RefInv, Typed, OnLiveDevices, UsesKept
    <3>2. CASE u \notin gpu
      <4>1. PICK l \in Lists : Draw(l)
        BY <3>2 DEF vars, Next, WorkerStep, OverlayStep, TeardownStep, GameStep,
           jobVars,
           threadVars, teardownVars, objectVars, gameVars, Present, Shutdown, ReloadAll,
           LoadResources, EraseDevice, BindPipeline, Draw, ResetList, Finish,
           TakeJob, CheckJob, BuildBindings, BindingsFail, CreatePipeline, CheckCurrent,
           Exchange,
           RetireOld, JobDone, FreeJob, InitPipeline, RepatchWaiting, Enqueue,
     DestroyPipeline, TakeReplacement, RetireTaken, PipelineStep, recordVars,
     ReloadResources, SkipResources, RepatchDevice,
           RepatchRecord, RetireResources, RepatchAll, RetireRepatched, ReloadDone,
           StopJobs, RemoveJobs,
           WaitForJobs, DestroyState
      <4>2. u = pending[l] /\ pending[l] # Unbound /\ frame <= pending[l].bound + Window
        BY <3>2, <4>1 DEF Draw
      <4> QED
        BY <4>2 DEF RefInv, Typed, Belongs, OnLiveDevices, UsesKept, InWindow
    <3> QED
      BY <3>1, <3>2
  <2>2. u.bound <= frame' /\ frame' <= u.bound + Window
    <3>1. u.bound \in Nat
      BY <2>1 DEF Uses
    <3>2. CASE u \in gpu
      BY <1>0, <2>1, <3>1, <3>2 DEF InWindow
    <3>3. CASE u \notin gpu
      <4>1. frame' = frame
        BY <3>3 DEF vars, Next, WorkerStep, OverlayStep, TeardownStep, GameStep,
           jobVars,
           threadVars, teardownVars, objectVars, gameVars, Present, Shutdown, ReloadAll,
           LoadResources, EraseDevice, BindPipeline, Draw, ResetList, Finish,
           TakeJob, CheckJob, BuildBindings, BindingsFail, CreatePipeline, CheckCurrent,
           Exchange,
           RetireOld, JobDone, FreeJob, InitPipeline, RepatchWaiting, Enqueue,
     DestroyPipeline, TakeReplacement, RetireTaken, PipelineStep, recordVars,
     ReloadResources, SkipResources, RepatchDevice,
           RepatchRecord, RetireResources, RepatchAll, RetireRepatched, ReloadDone,
           StopJobs, RemoveJobs,
           WaitForJobs, DestroyState
      <4> QED
        BY <4>1, <2>1 DEF InWindow
    <3> QED
      BY <3>2, <3>3
  <2> QED
    BY <2>1, <2>2, KeptNext DEF InWindow
<1> QED
  BY <1>1, <1>2 DEF UsesKept

(* The GPU uses nothing at the start.                                      *)
LEMMA InitUsesKept == Init => UsesKept
BY DEF Init, UsesKept

(* README.md:182-183: the GPU uses no object that is destroyed, whatever    *)
(* publishes, reloads, rebinds and resets drop which reference last, for a  *)
(* game that ends its work with a bound pipeline within Window presents.    *)
THEOREM GpuObjectsAliveHolds ==
  ASSUME "slow" \notin Allowed
  PROVE  Spec => []GpuObjectsAlive
<1>1. Init => RefInv /\ UsesKept
  BY InitRefs, InitUsesKept
<1>2. RefInv /\ UsesKept /\ [Next]_vars => RefInv' /\ UsesKept'
  BY NextRefs, NextUsesKept
<1>3. RefInv /\ UsesKept => GpuObjectsAlive
  <2> SUFFICES ASSUME RefInv, UsesKept, NEW u \in gpu
               PROVE  {u.object, setOf[u.object]} \cap Destroyed = {}
    BY DEF GpuObjectsAlive
  <2>1. u.object \in Replacements /\ Kept(u) /\ DeviceOf[u.object] \in Devices
    BY LifetimeConstants DEF UsesKept, RefInv, Typed, Uses, Objects
  <2>2. u.object \in Direct
    BY <2>1 DEF Kept, Direct, LiveRecords, RefInv, Typed, GameControl, Threads
  <2> QED
    BY <2>1, <2>2 DEF Referenced, Destroyed
<1> QED
  BY <1>1, <1>2, <1>3, PTL DEF Spec

(* in_flight counts the jobs, queued and running: OnDestroyDevice's wait    *)
(* ends neither early nor late.                                             *)
THEOREM InFlightExact == Spec => []Counted
<1>1. Init => RefInv /\ Counted
  BY InitRefs, InitCounted
<1>2. RefInv /\ Counted /\ [Next]_vars => RefInv' /\ Counted'
  BY NextRefs, NextCounted
<1> QED
  BY <1>1, <1>2, PTL DEF Spec

=============================================================================
