--------------------------- MODULE DeviceLifetime ---------------------------
(***************************************************************************)
(* How long the add-on's D3D12 objects live (tools/reshade_addon:          *)
(* runtime.cpp, the retire queue and "Device / queue lifetime").           *)
(*                                                                         *)
(* Replacement pipelines and resource sets are shared: records, command    *)
(* lists, locals and the retire queue hold references, and the last one to *)
(* go destroys the object on its device.  The GPU holds none.  Meanwhile   *)
(* workers have jobs for a device that the game destroys, and the overlay  *)
(* reloads.                                                                *)
(*                                                                         *)
(* A record is shared too: the device's map, jobs, queued or taken, and    *)
(* locals hold it, and its replacement goes with it.  Generations are left *)
(* out: a job may end without a replacement, or with one that Publish      *)
(* finds superseded (PatchRuntime has the details).  Any queued job may be *)
(* taken next.  The GPU and the game are external.                         *)
(***************************************************************************)
EXTENDS Integers, FiniteSets

CONSTANTS
  Devices,      \* D3D12 devices of the process
  Workers,      \* g_workers
  Overlay,      \* the thread that calls ReloadAll
  Games,        \* the game's threads that create and destroy pipelines
  Lists,        \* command lists
  Records,      \* pipeline records; one nobody refers to is free again
  Jobs,         \* jobs that fit in g_queue: a bound
  Replacements, \* replacements the workers build
  Sets,         \* resource sets
  DeviceOf,     \* device of each list, record, replacement and set
  RetireFrames, \* kRetireFrames
  Window,       \* presents from a bind to the end of the GPU's work with it
  MaxFrame,     \* bound on presents
  Allowed,      \* what the game does besides
  Null          \* null pointer

(*   slow    a list is executed, or executed again, more than Window       *)
(*           presents after it was recorded                                *)
(*   reload  a device is destroyed while ReloadAll loads resources         *)
Habits == {"slow", "reload"}

Threads == Workers \cup {Overlay} \cup Games
Objects == Replacements \cup Sets

ASSUME LifetimeConstants ==
  /\ DeviceOf \in [Lists \cup Records \cup Objects -> Devices]
  /\ Replacements \cap Sets = {}
  /\ IsFiniteSet(Workers) /\ IsFiniteSet(Jobs)
  /\ RetireFrames \in Nat /\ Window \in Nat /\ MaxFrame \in Nat
  /\ Window < RetireFrames
  /\ Allowed \subseteq Habits
  /\ Overlay \notin Workers \cup Games /\ Workers \cap Games = {}
  /\ Null \notin Objects \cup Devices \cup Records

VARIABLES
  frame,      \* g_frame
  retired,    \* g_retired: [frame, device, object]
  stopping,   \* g_stop_workers
  devices,    \* g_devices
  lock,       \* RepatchAll holds g_devices_mutex
  alive,      \* state.alive
  inFlight,   \* state.in_flight
  queue,      \* g_queue: the record of each job
  pipelines,  \* state.pipelines: the records in it
  destroyed,  \* the records with status kDestroyed
  replacement,\* record.replacement
  resources,  \* state.resources
  teardown,   \* how far OnDestroyDevice has come
  pc, dev,    \* control state of each thread and the device it works on
  job,        \* the record a thread works on: job.record, a local
  copied,     \* RepatchDevice's copy of the map: records to be enqueued
  held,       \* the object in a thread's local
  rest,       \* devices that the overlay's loop has still to do
  built,      \* objects created so far
  setOf,      \* replacement.resources
  pending,    \* [object, bound]: what a list has pending and its bind's frame
  gpu         \* the GPU's work: what the draws of a list use that is
              \* recorded, or being executed

teardownVars == <<devices, alive, teardown>>
jobVars == <<stopping, inFlight, queue>>
recordVars == <<pipelines, destroyed, replacement>>
objectVars == <<built, setOf>>
threadVars == <<pc, dev, job, copied, held, rest, lock>>
gameVars == <<pending, gpu>>
vars == <<frame, retired, teardownVars, jobVars, recordVars, resources, objectVars,
          threadVars, gameVars>>

Uses == [object : Replacements, bound : Nat]
Unbound == [object |-> Null, bound |-> 0]

(* After OnInitDevice.                                                     *)
Init ==
  /\ frame = 0
  /\ retired = {}
  /\ stopping = FALSE
  /\ devices = Devices
  /\ lock = FALSE
  /\ alive = [d \in Devices |-> TRUE]
  /\ inFlight = [d \in Devices |-> 0]
  /\ queue = [j \in Jobs |-> Null]
  /\ pipelines = {} /\ destroyed = {}
  /\ replacement = [p \in Records |-> Null]
  /\ resources = [d \in Devices |-> Null]
  /\ teardown = [d \in Devices |-> "up"]
  /\ pc = [t \in Threads |-> "idle"]
  /\ dev = [t \in Threads |-> Null]
  /\ job = [t \in Threads |-> Null]
  /\ copied = {}
  /\ held = [t \in Threads |-> Null]
  /\ rest = {}
  /\ built = {}
  /\ setOf = [r \in Replacements |-> Null]
  /\ pending = [l \in Lists |-> Unbound]
  /\ gpu = {}

-----------------------------------------------------------------------------
(* References.  A record lives while the map, a job, a thread or the copy  *)
(* refers to it; an object that was built is destroyed once nothing does.  *)
(* A replacement refers to its resource set.                               *)
LiveRecords ==
  {p \in Records : \/ p \in pipelines \cup copied
                   \/ \E j \in Jobs : queue[j] = p
                   \/ \E t \in Threads : job[t] = p}

Direct ==
  {replacement[p] : p \in LiveRecords} \cup {resources[d] : d \in Devices}
    \cup {held[t] : t \in Threads} \cup {pending[l].object : l \in Lists}
    \cup {e.object : e \in retired}

Referenced == Direct \cup {setOf[r] : r \in Direct \cap Replacements}
Destroyed == built \ Referenced

(* Objects of a kind that can still be built for a device: which one it is *)
(* makes no difference.                                                    *)
Unbuilt(kind, d) == {o \in kind \ built : DeviceOf[o] = d}

-----------------------------------------------------------------------------
(* The retire queue                                                        *)

(* Mutant: one frame early.                                                *)
Mut_Expired(f) == {e \in retired : e.frame + Window <= f}

(* ReleaseRetired(nullptr, false) at g_frame = f.                          *)
Expired(f) == {e \in retired : e.frame + RetireFrames <= f}

(* Retire: the thread t gives up its local.                                *)
Retire(t) ==
  retired' = IF held[t] = Null THEN retired
             ELSE retired \cup {[frame |-> frame, device |-> dev[t], object |-> held[t]]}

(* OnPresent.  What it increments and what it releases need not be one     *)
(* step, but a step in between only postpones the release.                 *)
Present ==
  /\ frame < MaxFrame
  /\ "slow" \in Allowed \/ \A u \in gpu : u.bound + Window > frame
  /\ frame' = frame + 1
  /\ retired' = retired \ Expired(frame')
  /\ UNCHANGED <<teardownVars, jobVars, recordVars, resources, objectVars, threadVars,
                 gameVars>>

(* LoadResources, from the first graphics queue or from a present.  What   *)
(* its RepatchDevice does is RepatchWaiting.                               *)
LoadResources(d) ==
  /\ teardown[d] = "up"
  /\ resources[d] = Null /\ Unbuilt(Sets, d) # {}
  /\ LET s == CHOOSE s \in Unbuilt(Sets, d) : TRUE
     IN built' = built \cup {s} /\ resources' = [resources EXCEPT ![d] = s]
  /\ UNCHANGED <<frame, retired, teardownVars, jobVars, recordVars, setOf, threadVars,
                 gameVars>>

-----------------------------------------------------------------------------
(* Enqueue and the workers                                                 *)

Goto(t, label) == pc' = [pc EXCEPT ![t] = label]

(* Mutant: in_flight does not count the job.                               *)
Mut_PushJob(p) ==
  \E j \in Jobs :
    /\ queue[j] = Null
    /\ queue' = [queue EXCEPT ![j] = p]
    /\ UNCHANGED inFlight

(* Enqueue of a record with applicable recipes.                            *)
PushJob(p) ==
  \E j \in Jobs :
    /\ queue[j] = Null
    /\ queue' = [queue EXCEPT ![j] = p]
    /\ inFlight' = [inFlight EXCEPT ![DeviceOf[p]] = @ + 1]

(* The exchange of a record's replacement for null: OnDestroyPipeline, and *)
(* the Publish of a record without applicable recipes.                     *)
TakeOut(t, p) ==
  /\ replacement[p] # Null
  /\ held' = [held EXCEPT ![t] = replacement[p]]
  /\ replacement' = [replacement EXCEPT ![p] = Null]

TakeJob(w) ==
  /\ pc[w] = "idle" /\ ~ stopping
  /\ \E j \in Jobs :
       /\ queue[j] # Null
       /\ job' = [job EXCEPT ![w] = queue[j]]
       /\ dev' = [dev EXCEPT ![w] = DeviceOf[queue[j]]]
       /\ queue' = [queue EXCEPT ![j] = Null]
  /\ Goto(w, "check")
  /\ UNCHANGED <<frame, retired, teardownVars, stopping, inFlight, recordVars,
                 resources, objectVars, copied, held, rest, lock, gameVars>>

(* ProcessJob: the first test of alive, and of the generation.             *)
CheckJob(w) ==
  /\ pc[w] = "check"
  /\ (alive[dev[w]] /\ Goto(w, "bindings")) \/ Goto(w, "done")
  /\ UNCHANGED <<frame, retired, teardownVars, jobVars, recordVars, resources,
                 objectVars, dev, job, copied, held, rest, lock, gameVars>>

(* BuildBindings: the new Replacement refers to the resource set, unless   *)
(* it binds nothing.  It has no pipeline yet.                              *)
BuildBindings(w) ==
  LET fresh == Unbuilt(Replacements, dev[w])
  IN
  /\ pc[w] = "bindings"
  /\ fresh # {}
  /\ LET r == CHOOSE r \in fresh : TRUE
     IN /\ \E s \in {resources[dev[w]], Null} : setOf' = [setOf EXCEPT ![r] = s]
        /\ built' = built \cup {r}
        /\ held' = [held EXCEPT ![w] = r]
  /\ Goto(w, "create")
  /\ UNCHANGED <<frame, retired, teardownVars, jobVars, recordVars, resources, dev,
                 job, copied, rest, lock, gameVars>>

(* No shader was patched, a binding does not resolve, or the resources are *)
(* not loaded: it publishes null.                                          *)
BindingsFail(w) ==
  /\ pc[w] = "bindings"
  /\ Goto(w, "publish")
  /\ UNCHANGED <<frame, retired, teardownVars, jobVars, recordVars, resources,
                 objectVars, dev, job, copied, held, rest, lock, gameVars>>

(* The second test of alive, and create_pipeline, which may refuse.        *)
CreatePipeline(w) ==
  /\ pc[w] = "create"
  /\ \/ UNCHANGED held /\ alive[dev[w]] /\ Goto(w, "publish")
     \/ held' = [held EXCEPT ![w] = Null] /\ alive[dev[w]] /\ Goto(w, "publish")
     \/ held' = [held EXCEPT ![w] = Null] /\ ~ alive[dev[w]] /\ Goto(w, "done")
  /\ UNCHANGED <<frame, retired, teardownVars, jobVars, recordVars, resources,
                 objectVars, dev, job, copied, rest, lock, gameVars>>

(* Retire does nothing with a null pointer.                                *)
GotoRetire(w, object) == Goto(w, IF object = Null THEN "done" ELSE "retire")

(* Publish's test: a job that is superseded, as one of a destroyed record  *)
(* is, retires what it built.                                              *)
CheckCurrent(w) ==
  /\ pc[w] = "publish"
  /\ (job[w] \notin destroyed /\ Goto(w, "exchange")) \/ GotoRetire(w, held[w])
  /\ UNCHANGED <<frame, retired, teardownVars, jobVars, recordVars, resources,
                 objectVars, dev, job, copied, held, rest, lock, gameVars>>

(* Publish's exchange, of a record that may be destroyed by now.  That its *)
(* parameter refers to the new one until it returns only delays.           *)
Exchange(w) ==
  /\ pc[w] = "exchange"
  /\ held' = [held EXCEPT ![w] = replacement[job[w]]]
  /\ replacement' = [replacement EXCEPT ![job[w]] = held[w]]
  /\ GotoRetire(w, replacement[job[w]])
  /\ UNCHANGED <<frame, retired, teardownVars, jobVars, pipelines, destroyed,
                 resources, objectVars, dev, job, copied, rest, lock, gameVars>>

RetireOld(w) ==
  /\ w \in Workers /\ pc[w] = "retire"
  /\ Retire(w)
  /\ held' = [held EXCEPT ![w] = Null]
  /\ Goto(w, "done")
  /\ UNCHANGED <<frame, teardownVars, jobVars, recordVars, resources, objectVars, dev,
                 job, copied, rest, lock, gameVars>>

(* WorkerMain counts the job down; its local still holds the record.       *)
JobDone(w) ==
  /\ pc[w] = "done"
  /\ inFlight' = [inFlight EXCEPT ![dev[w]] = @ - 1]
  /\ dev' = [dev EXCEPT ![w] = Null]
  /\ Goto(w, "free")
  /\ UNCHANGED <<frame, retired, teardownVars, stopping, queue, recordVars, resources,
                 objectVars, job, copied, held, rest, lock, gameVars>>

(* The end of the loop's body frees the job, and maybe its record and the  *)
(* replacement in it.                                                      *)
FreeJob(w) ==
  /\ pc[w] = "free"
  /\ job' = [job EXCEPT ![w] = Null]
  /\ Goto(w, "idle")
  /\ UNCHANGED <<frame, retired, teardownVars, jobVars, recordVars, resources,
                 objectVars, dev, copied, held, rest, lock, gameVars>>

(* ShutdownRuntime: workers finish their jobs and take no more.            *)
Shutdown ==
  /\ ~ stopping
  /\ stopping' = TRUE
  /\ UNCHANGED <<frame, retired, teardownVars, inFlight, queue, recordVars, resources,
                 objectVars, threadVars, gameVars>>

-----------------------------------------------------------------------------
(* ReloadAll, on the overlay's thread                                      *)

(* The recipes are replaced and g_devices is copied.                       *)
ReloadAll ==
  /\ pc[Overlay] = "idle"
  /\ \A d \in devices : resources[d] # Null => Unbuilt(Sets, d) # {}
  /\ rest' = devices
  /\ Goto(Overlay, "reload")
  /\ UNCHANGED <<frame, retired, teardownVars, jobVars, recordVars, resources,
                 objectVars, dev, job, copied, held, lock, gameVars>>

(* The exchange for one device of the copy; nothing keeps it from being    *)
(* destroyed meanwhile.                                                    *)
ReloadResources(d) ==
  /\ pc[Overlay] = "reload" /\ held[Overlay] = Null
  /\ d \in rest /\ resources[d] # Null /\ Unbuilt(Sets, d) # {}
  /\ LET s == CHOOSE s \in Unbuilt(Sets, d) : TRUE
     IN built' = built \cup {s} /\ resources' = [resources EXCEPT ![d] = s]
  /\ held' = [held EXCEPT ![Overlay] = resources[d]]
  /\ dev' = [dev EXCEPT ![Overlay] = d]
  /\ UNCHANGED <<frame, retired, teardownVars, jobVars, recordVars, setOf, pc, job,
                 copied, rest, lock, gameVars>>

(* state.resources is null: not loaded yet.                                *)
SkipResources(d) ==
  /\ pc[Overlay] = "reload" /\ held[Overlay] = Null
  /\ d \in rest /\ resources[d] = Null
  /\ rest' = rest \ {d}
  /\ UNCHANGED <<frame, retired, teardownVars, jobVars, recordVars, resources,
                 objectVars, pc, dev, job, copied, held, lock, gameVars>>

RetireResources ==
  /\ pc[Overlay] = "reload" /\ held[Overlay] # Null
  /\ Retire(Overlay)
  /\ held' = [held EXCEPT ![Overlay] = Null]
  /\ rest' = rest \ {dev[Overlay]}
  /\ dev' = [dev EXCEPT ![Overlay] = Null]
  /\ UNCHANGED <<frame, teardownVars, jobVars, recordVars, resources, objectVars, pc,
                 job, copied, lock, gameVars>>

(* RepatchAll holds g_devices_mutex.                                       *)
RepatchAll ==
  /\ pc[Overlay] = "reload" /\ rest = {}
  /\ lock' = TRUE
  /\ rest' = devices
  /\ Goto(Overlay, "repatch")
  /\ UNCHANGED <<frame, retired, teardownVars, jobVars, recordVars, resources,
                 objectVars, dev, job, copied, held, gameVars>>

(* The copy of a device's map.                                             *)
RepatchDevice(d) ==
  /\ pc[Overlay] = "repatch" /\ d \in rest /\ copied = {} /\ held[Overlay] = Null
  /\ copied' = {p \in pipelines : DeviceOf[p] = d}
  /\ rest' = rest \ {d}
  /\ UNCHANGED <<frame, retired, teardownVars, jobVars, recordVars, resources,
                 objectVars, pc, dev, job, held, lock, gameVars>>

(* Enqueue of a record of the copy, which may have been destroyed since.   *)
(* One that is superseded meanwhile publishes nothing.  The copy lets go   *)
(* of the record here already: until the lock is given up its device lives.*)
RepatchRecord(p) ==
  /\ pc[Overlay] = "repatch" /\ p \in copied /\ held[Overlay] = Null
  /\ copied' = copied \ {p}
  /\ \/ PushJob(p) /\ UNCHANGED <<replacement, held, dev>>
     \/ /\ TakeOut(Overlay, p)
        /\ dev' = [dev EXCEPT ![Overlay] = DeviceOf[p]]
        /\ UNCHANGED <<inFlight, queue>>
     \/ UNCHANGED <<inFlight, queue, replacement, held, dev>>
  /\ UNCHANGED <<frame, retired, teardownVars, stopping, pipelines, destroyed,
                 resources, objectVars, pc, job, rest, lock, gameVars>>

RetireRepatched ==
  /\ pc[Overlay] = "repatch" /\ held[Overlay] # Null
  /\ Retire(Overlay)
  /\ held' = [held EXCEPT ![Overlay] = Null]
  /\ dev' = [dev EXCEPT ![Overlay] = Null]
  /\ UNCHANGED <<frame, teardownVars, jobVars, recordVars, resources, objectVars, pc,
                 job, copied, rest, lock, gameVars>>

ReloadDone ==
  /\ pc[Overlay] = "repatch" /\ rest = {} /\ copied = {} /\ held[Overlay] = Null
  /\ lock' = FALSE
  /\ Goto(Overlay, "idle")
  /\ UNCHANGED <<frame, retired, teardownVars, jobVars, recordVars, resources,
                 objectVars, dev, job, copied, held, rest, gameVars>>

-----------------------------------------------------------------------------
(* Pipelines, on the game's threads                                        *)

(* OnInitPipeline puts a new record in the map.                            *)
InitPipeline(g) ==
  LET free == Records \ LiveRecords
  IN
  /\ pc[g] = "idle"
  /\ \E d \in Devices :
       /\ teardown[d] = "up"
       /\ \E p \in free : DeviceOf[p] = d
       /\ LET p == CHOOSE p \in free : DeviceOf[p] = d
          IN /\ pipelines' = pipelines \cup {p}
             /\ destroyed' = destroyed \ {p}
             /\ replacement' = [replacement EXCEPT ![p] = Null]
             /\ job' = [job EXCEPT ![g] = p]
             /\ dev' = [dev EXCEPT ![g] = d]
  /\ Goto(g, "enqueue")
  /\ UNCHANGED <<frame, retired, teardownVars, jobVars, resources, objectVars, copied,
                 held, rest, lock, gameVars>>

(* The RepatchDevice of LoadResources, after the exchange, comes to a      *)
(* record.  Its status is left out, so any record may be one that waited.  *)
RepatchWaiting(g) ==
  /\ pc[g] = "idle"
  /\ \E p \in pipelines :
       /\ teardown[DeviceOf[p]] = "up"
       /\ resources[DeviceOf[p]] # Null
       /\ job' = [job EXCEPT ![g] = p]
       /\ dev' = [dev EXCEPT ![g] = DeviceOf[p]]
  /\ Goto(g, "enqueue")
  /\ UNCHANGED <<frame, retired, teardownVars, jobVars, recordVars, resources,
                 objectVars, copied, held, rest, lock, gameVars>>

(* The call returns and its local lets go of the record.                   *)
Return(g) ==
  /\ job' = [job EXCEPT ![g] = Null]
  /\ dev' = [dev EXCEPT ![g] = Null]
  /\ Goto(g, "idle")

Enqueue(g) ==
  /\ pc[g] = "enqueue"
  /\ \/ PushJob(job[g]) /\ UNCHANGED <<replacement, held>> /\ Return(g)
     \/ /\ TakeOut(g, job[g])
        /\ Goto(g, "retire")
        /\ UNCHANGED <<inFlight, queue, job, dev>>
     \/ UNCHANGED <<inFlight, queue, replacement, held>> /\ Return(g)
  /\ UNCHANGED <<frame, retired, teardownVars, stopping, pipelines, destroyed,
                 resources, objectVars, copied, rest, lock, gameVars>>

(* OnDestroyPipeline: out of the map and kDestroyed.  Between the two only *)
(* Publish's test sees the status, as if it came before both.              *)
DestroyPipeline(g) ==
  /\ pc[g] = "idle"
  /\ \E p \in pipelines :
       /\ teardown[DeviceOf[p]] = "up"
       /\ pipelines' = pipelines \ {p}
       /\ destroyed' = destroyed \cup {p}
       /\ job' = [job EXCEPT ![g] = p]
       /\ dev' = [dev EXCEPT ![g] = DeviceOf[p]]
  /\ Goto(g, "take")
  /\ UNCHANGED <<frame, retired, teardownVars, jobVars, replacement, resources,
                 objectVars, copied, held, rest, lock, gameVars>>

TakeReplacement(g) ==
  /\ pc[g] = "take"
  /\ \/ TakeOut(g, job[g]) /\ Goto(g, "retire") /\ UNCHANGED <<job, dev>>
     \/ replacement[job[g]] = Null /\ Return(g) /\ UNCHANGED <<replacement, held>>
  /\ UNCHANGED <<frame, retired, teardownVars, jobVars, pipelines, destroyed,
                 resources, objectVars, copied, rest, lock, gameVars>>

RetireTaken(g) ==
  /\ g \in Games /\ pc[g] = "retire"
  /\ Retire(g)
  /\ held' = [held EXCEPT ![g] = Null]
  /\ Return(g)
  /\ UNCHANGED <<frame, teardownVars, jobVars, recordVars, resources, objectVars,
                 copied, rest, lock, gameVars>>

-----------------------------------------------------------------------------
(* OnDestroyDevice, on the thread that releases the device                 *)

TearTo(d, from, to) == teardown[d] = from /\ teardown' = [teardown EXCEPT ![d] = to]

(* The device's command lists are gone, its GPU work is done and the game  *)
(* makes no other call on it.                                              *)
EraseDevice(d) ==
  /\ TearTo(d, "up", "erased")
  /\ ~ lock
  /\ \A l \in Lists : DeviceOf[l] = d => pending[l] = Unbound
  /\ \A u \in gpu : DeviceOf[u.object] # d
  /\ \A g \in Games : dev[g] # d
  /\ "reload" \in Allowed \/ pc[Overlay] # "reload"
  /\ devices' = devices \ {d}
  /\ UNCHANGED <<frame, retired, alive, jobVars, recordVars, resources, objectVars,
                 threadVars, gameVars>>

StopJobs(d) ==
  /\ TearTo(d, "erased", "dead")
  /\ alive' = [alive EXCEPT ![d] = FALSE]
  /\ UNCHANGED <<frame, retired, devices, jobVars, recordVars, resources, objectVars,
                 threadVars, gameVars>>

QueuedOn(d) == {j \in Jobs : queue[j] # Null /\ DeviceOf[queue[j]] = d}

(* Mutant: in_flight still counts the removed jobs.                        *)
Mut_RemoveJobs(d) ==
  /\ TearTo(d, "dead", "purged")
  /\ queue' = [j \in Jobs |-> IF j \in QueuedOn(d) THEN Null ELSE queue[j]]
  /\ UNCHANGED <<frame, retired, devices, alive, stopping, inFlight, recordVars,
                 resources, objectVars, threadVars, gameVars>>

RemoveJobs(d) ==
  /\ TearTo(d, "dead", "purged")
  /\ queue' = [j \in Jobs |-> IF j \in QueuedOn(d) THEN Null ELSE queue[j]]
  /\ inFlight' = [inFlight EXCEPT ![d] = @ - Cardinality(QueuedOn(d))]
  /\ UNCHANGED <<frame, retired, devices, alive, stopping, recordVars, resources,
                 objectVars, threadVars, gameVars>>

(* Mutant: it does not wait for the workers.                               *)
Mut_WaitForJobs(d) ==
  /\ TearTo(d, "purged", "idle")
  /\ UNCHANGED <<frame, retired, devices, alive, jobVars, recordVars, resources,
                 objectVars, threadVars, gameVars>>

WaitForJobs(d) ==
  /\ TearTo(d, "purged", "idle")
  /\ inFlight[d] = 0
  /\ UNCHANGED <<frame, retired, devices, alive, jobVars, recordVars, resources,
                 objectVars, threadVars, gameVars>>

(* Mutant: the map is cleared but not the records in it.                   *)
Mut_DestroyState(d) ==
  /\ TearTo(d, "idle", "gone")
  /\ pipelines' = {p \in pipelines : DeviceOf[p] # d}
  /\ retired' = {e \in retired : e.device # d}
  /\ resources' = [resources EXCEPT ![d] = Null]
  /\ UNCHANGED <<frame, devices, alive, jobVars, destroyed, replacement, objectVars,
                 threadVars, gameVars>>

(* The map's records and the map are cleared, ReleaseRetired(device, true) *)
(* and the private data.  With the device out of g_devices and no job left *)
(* all that comes between is a worker that frees its job.                  *)
DestroyState(d) ==
  LET mapped == {p \in pipelines : DeviceOf[p] = d}
  IN
  /\ TearTo(d, "idle", "gone")
  /\ replacement' = [p \in Records |-> IF p \in mapped THEN Null ELSE replacement[p]]
  /\ pipelines' = pipelines \ mapped
  /\ retired' = {e \in retired : e.device # d}
  /\ resources' = [resources EXCEPT ![d] = Null]
  /\ UNCHANGED <<frame, devices, alive, jobVars, destroyed, objectVars, threadVars,
                 gameVars>>

-----------------------------------------------------------------------------
(* Command lists: OnBindPipeline, HandleDraw, OnResetCommandList           *)

(* The pipeline of a record in the map, or another one.                    *)
BindPipeline(l) ==
  /\ teardown[DeviceOf[l]] = "up"
  /\ \/ pending' = [pending EXCEPT ![l] = Unbound]
     \/ \E p \in pipelines :
          /\ DeviceOf[p] = DeviceOf[l] /\ replacement[p] # Null
          /\ pending' = [pending EXCEPT ![l] = [object |-> replacement[p], bound |-> frame]]
  /\ UNCHANGED <<frame, retired, teardownVars, jobVars, recordVars, resources,
                 objectVars, threadVars, gpu>>

(* A draw is work of the GPU from now until the list that holds it was     *)
(* executed for the last time, or discarded.                               *)
Draw(l) ==
  /\ pending[l] # Unbound
  /\ "slow" \in Allowed \/ frame <= pending[l].bound + Window
  /\ gpu' = gpu \cup {pending[l]}
  /\ UNCHANGED <<frame, retired, teardownVars, jobVars, recordVars, resources,
                 objectVars, threadVars, pending>>

(* OnResetCommandList, OnDestroyCommandList: the GPU may still be at work. *)
ResetList(l) ==
  /\ pending[l] # Unbound
  /\ pending' = [pending EXCEPT ![l] = Unbound]
  /\ UNCHANGED <<frame, retired, teardownVars, jobVars, recordVars, resources,
                 objectVars, threadVars, gpu>>

Finish(u) ==
  /\ gpu' = gpu \ {u}
  /\ UNCHANGED <<frame, retired, teardownVars, jobVars, recordVars, resources,
                 objectVars, threadVars, pending>>

-----------------------------------------------------------------------------
WorkerStep(w) ==
  \/ TakeJob(w) \/ CheckJob(w) \/ BuildBindings(w) \/ BindingsFail(w) \/ CreatePipeline(w)
  \/ CheckCurrent(w) \/ Exchange(w) \/ RetireOld(w) \/ JobDone(w) \/ FreeJob(w)

OverlayStep ==
  \/ \E d \in Devices : ReloadResources(d) \/ SkipResources(d) \/ RepatchDevice(d)
  \/ \E p \in Records : RepatchRecord(p)
  \/ RetireResources \/ RepatchAll \/ RetireRepatched \/ ReloadDone

PipelineStep(g) ==
  \/ InitPipeline(g) \/ RepatchWaiting(g) \/ Enqueue(g) \/ DestroyPipeline(g)
  \/ TakeReplacement(g) \/ RetireTaken(g)

TeardownStep(d) ==
  \/ StopJobs(d) \/ RemoveJobs(d) \/ WaitForJobs(d) \/ DestroyState(d)

GameStep ==
  \/ Present \/ Shutdown \/ ReloadAll
  \/ \E d \in Devices : LoadResources(d) \/ EraseDevice(d)
  \/ \E l \in Lists : BindPipeline(l) \/ Draw(l) \/ ResetList(l)
  \/ \E u \in gpu : Finish(u)

Next ==
  \/ \E w \in Workers : WorkerStep(w)
  \/ OverlayStep
  \/ \E g \in Games : PipelineStep(g)
  \/ \E d \in Devices : TeardownStep(d)
  \/ GameStep

Spec == Init /\ [][Next]_vars

(* Threads keep running; a job always ends.  Nothing obliges the game to   *)
(* do anything.                                                            *)
Fairness ==
  /\ \A w \in Workers : WF_vars(WorkerStep(w))
  /\ \A d \in Devices : WF_vars(TeardownStep(d))

FairSpec == Spec /\ Fairness

-----------------------------------------------------------------------------
(* Properties                                                              *)

(* The add-on's README.md:182-183: replacements and resource sets "are     *)
(* destroyed eight frames after they're retired, so the GPU is never using *)
(* an object when it's destroyed".  It holds for a game whose GPU is done  *)
(* with a bound pipeline within fewer frames, whatever publishes, reloads, *)
(* rebinds and resets drop which reference last.                           *)
GpuObjectsAlive ==
  \A u \in gpu : {u.object, setOf[u.object]} \cap Destroyed = {}

(* What a job that left in_flight but is not freed yet still holds of a    *)
(* pipeline that the game destroyed while the job published: Publish's     *)
(* exchange came after that of OnDestroyPipeline.                          *)
Orphans ==
  LET kept == {replacement[job[w]] :
                 w \in {w \in Workers : pc[w] = "free" /\ job[w] \in destroyed}}
  IN kept \cup {setOf[r] : r \in kept \cap Replacements}

(* Once OnDestroyDevice is over, no thread works on the device and each of *)
(* its objects was destroyed, save such an orphan: the queued and the      *)
(* running jobs, the reload, the destroyed pipelines and the retire queue  *)
(* leave nothing else.  The orphan is a defect of the code: FreeJob        *)
(* destroys it on a device that is gone (runtime.cpp:78 after :813).       *)
NothingOutlivesDevice ==
  \A d \in Devices : teardown[d] = "gone" =>
    /\ \A o \in built : DeviceOf[o] = d => o \in Destroyed \cup Orphans
    /\ \A t \in Threads : dev[t] # d

(* OnDestroyDevice ends: in_flight reaches zero, whether the jobs were     *)
(* queued or running and even when the workers were stopped.               *)
TeardownEnds == \A d \in Devices : teardown[d] = "erased" ~> teardown[d] = "gone"
=============================================================================
