-------------------------- MODULE RecipeStore_proofs ---------------------------
(***************************************************************************)
(* Proofs about RecipeStore for any recipes, variables, shaders, workers   *)
(* and number of generations.  The inductive invariant StoreInv says of    *)
(* the overlay that it has the overrides of the set it last read unless an *)
(* edit is waiting, and of the caches that what a worker returned is what  *)
(* the cache of its set holds, for good.  PatchInv adds that every result  *)
(* in a cache is the reference patch of its set, and ValuesInv that what   *)
(* ReShade.ini holds reads as what the overlay showed when it was saved.   *)
(***************************************************************************)
EXTENDS RecipeStore, TLAPS, WellFoundedInduction

\* The records are records: what an EXCEPT does not name keeps its value.
SetShape(set) ==
  set = [entries |-> set.entries, overrides |-> set.overrides,
         cache |-> [s \in Shaders |-> set.cache[s]]]

Shape ==
  /\ sets = [g \in 1..MaxGen |-> sets[g]]
  /\ current \in 1..MaxGen
  /\ \A g \in 1..current : SetShape(sets[g])

OverlayShape ==
  /\ overlay = [pending |-> overlay.pending, dirty |-> overlay.dirty, synced |-> overlay.synced,
                auto |-> overlay.auto, typing |-> overlay.typing]
  /\ overlay.synced \in 0..current
  /\ overlay.typing # Null => overlay.dirty

\* Overrides only of variables that are declared.
SetDeclared(set) ==
  \A k \in Settable : set.overrides[k] # Null => Default(set, k[1], k[2]) # Null

DeclaredInv == \A g \in 1..current : SetDeclared(sets[g])

\* An overlay that read the set in force and has no edit of its own has its overrides.
SyncInv ==
  ~overlay.dirty /\ overlay.synced = current => overlay.pending = sets[current].overrides

WorkersInv ==
  /\ workers = [w \in Workers |-> workers[w]]
  /\ \A w \in Workers : workers[w] # Null =>
       workers[w].gen \in 1..current /\ workers[w].shader \in Shaders

\* What was returned is in the cache, and a cache holds one result for a shader.
CacheInv ==
  /\ \A r \in returned : /\ r[1] \in 1..current /\ r[2] \in Shaders
                         /\ r = <<r[1], r[2], r[3]>>
                         /\ r[3] \in sets[r[1]].cache[r[2]]
  /\ \A g \in 1..current : \A s \in Shaders : \A x, y \in sets[g].cache[s] : x = y

StoreInv == Shape /\ OverlayShape /\ DeclaredInv /\ SyncInv /\ WorkersInv /\ CacheInv

-----------------------------------------------------------------------------
\* There is a first generation.
LEMMA GenerationsExist == MaxGen \in Nat \ {0}
BY StoreAssumption

\* Finalize leaves overrides of declared variables only.
LEMMA DeclaredOnly ==
  ASSUME NEW entries, NEW overrides, NEW k \in Settable,
         Declared(entries, overrides)[k] # Null
  PROVE entries[k[1]].loads /\ entries[k[1]].env[k[2]] # Null
BY DEF Declared

\* A new set has the shape of a set, declares its overrides and has an empty cache.
LEMMA NewSet ==
  ASSUME NEW entries, NEW overrides, NEW set,
         set = [entries |-> entries, overrides |-> Declared(entries, overrides), cache |-> NoResults]
  PROVE /\ SetShape(set) /\ SetDeclared(set)
        /\ \A s \in Shaders : set.cache[s] = {}
<1>1. SetShape(set)
  BY DEF SetShape, NoResults
<1>2. SetDeclared(set)
  BY DeclaredOnly DEF SetDeclared, Default, Loads
<1>3. \A s \in Shaders : set.cache[s] = {}
  BY DEF NoResults
<1> QED BY <1>1, <1>2, <1>3

\* The sets that a reload, new values and the start make are such sets.
LEMMA MadeSets ==
  ASSUME NEW overrides, NEW old
  PROVE /\ SetShape(Load(overrides)) /\ SetDeclared(Load(overrides))
        /\ \A s \in Shaders : Load(overrides).cache[s] = {}
        /\ SetShape(WithOverrides(old, overrides)) /\ SetDeclared(WithOverrides(old, overrides))
        /\ \A s \in Shaders : WithOverrides(old, overrides).cache[s] = {}
BY NewSet DEF Load, WithOverrides

\* What a start makes is a set of the current files.
LEMMA FirstSetMade ==
  SetShape(Startup) /\ SetDeclared(Startup) /\ \A s \in Shaders : Startup.cache[s] = {}
BY MadeSets DEF Startup

\* The process starts with one set and an overlay that read none.
LEMMA Started ==
  ASSUME sets' = FirstSet, current' = 1, \E auto : overlay' = ClosedOverlay(auto),
         workers' = [w \in Workers |-> Null], returned' = {}
  PROVE StoreInv'
<1> USE GenerationsExist
<1>1. Shape' /\ DeclaredInv'
  BY FirstSetMade DEF FirstSet, Shape, DeclaredInv
<1>2. OverlayShape' /\ SyncInv'
  BY DEF ClosedOverlay, OverlayShape, SyncInv
<1>3. WorkersInv' /\ CacheInv'
  BY FirstSetMade DEF FirstSet, WorkersInv, CacheInv
<1> QED BY <1>1, <1>2, <1>3 DEF StoreInv

\* A new set in force: the caches of the others stay, the overlay has yet to read it.
LEMMA Advanced ==
  ASSUME StoreInv, NEW set,
         SetShape(set), SetDeclared(set), \A s \in Shaders : set.cache[s] = {},
         current < MaxGen, sets' = [sets EXCEPT ![current + 1] = set], current' = current + 1,
         OverlayShape', overlay'.synced \in 0..current, UNCHANGED <<workers, returned>>
  PROVE StoreInv'
<1> USE GenerationsExist
<1>1. current \in 1..MaxGen /\ current' \in 1..MaxGen /\ current + 1 \notin 1..current
  BY DEF StoreInv, Shape
<1>2. sets' = [g \in 1..MaxGen |-> sets'[g]]
  <2>1. sets = [g \in 1..MaxGen |-> sets[g]]
    BY DEF StoreInv, Shape
  <2> QED BY <2>1, Zenon
<1>3. sets'[current + 1] = set /\ \A g \in 1..current : sets'[g] = sets[g]
  BY <1>1 DEF StoreInv, Shape
<1>4. \A g \in 1..current' : g = current + 1 \/ g \in 1..current
  BY <1>1
<1>5. Shape'
  <2>1. ASSUME NEW g \in 1..current'
        PROVE SetShape(sets'[g])
    <3>1. CASE g = current + 1
      BY <3>1, <1>3
    <3>2. CASE g \in 1..current
      <4>1. sets'[g] = sets[g]
        BY <1>3, <3>2
      <4>2. SetShape(sets[g])
        BY <3>2 DEF StoreInv, Shape
      <4> QED BY <4>1, <4>2
    <3> QED BY <3>1, <3>2, <1>4
  <2>2. \A g \in 1..current' : SetShape(sets'[g])
    BY <2>1
  <2>3. \A g \in 1..current' : SetShape(sets[g])'
    BY <2>2 DEF SetShape
  <2> QED BY <1>1, <1>2, <2>3 DEF Shape
<1>6. DeclaredInv'
  BY <1>3, <1>4 DEF StoreInv, DeclaredInv, SetDeclared, Default, Loads
<1>7. SyncInv'
  BY <1>1 DEF SyncInv
<1>8. WorkersInv'
  BY <1>1 DEF StoreInv, WorkersInv
<1>9. CacheInv'
  <2>1. ASSUME NEW r \in returned'
        PROVE /\ r[1] \in 1..current' /\ r[2] \in Shaders /\ r = <<r[1], r[2], r[3]>>
              /\ r[3] \in sets'[r[1]].cache[r[2]]
    BY <1>1, <1>3 DEF StoreInv, CacheInv
  <2>2. ASSUME NEW g \in 1..current', NEW s \in Shaders, NEW x \in sets'[g].cache[s],
               NEW y \in sets'[g].cache[s]
        PROVE x = y
    BY <1>3, <1>4 DEF StoreInv, CacheInv
  <2> QED BY <2>1, <2>2 DEF CacheInv
<1> QED BY <1>5, <1>6, <1>7, <1>8, <1>9 DEF StoreInv

\* The sync of an overlay that has the values of its set leaves one that has those in
\* force, unless an edit waits.
LEMMA SyncedOverlay ==
  ASSUME StoreInv, NEW o, o = Synced(overlay)
  PROVE /\ o = [pending |-> o.pending, dirty |-> overlay.dirty, synced |-> o.synced,
                auto |-> overlay.auto, typing |-> overlay.typing]
        /\ o.synced \in 0..current
        /\ ~o.dirty => o.pending = sets[current].overrides
<1>1. o = [pending |-> o.pending, dirty |-> overlay.dirty, synced |-> o.synced,
           auto |-> overlay.auto, typing |-> overlay.typing]
  BY DEF StoreInv, OverlayShape, Synced
<1>2. o.synced = (IF overlay.dirty THEN overlay.synced ELSE current) /\ o.pending = Pending(overlay)
  BY DEF StoreInv, OverlayShape, Synced
<1>3. o.synced \in 0..current
  BY <1>2 DEF StoreInv, OverlayShape, Shape
<1>4. ~o.dirty => o.pending = sets[current].overrides
  BY <1>1, <1>2 DEF StoreInv, SyncInv, Pending
<1> QED BY <1>1, <1>3, <1>4

\* An overlay whose fields are those of g_pending and the rest, and which has read a set.
OverlayRecord(o) ==
  /\ o = [pending |-> o.pending, dirty |-> o.dirty, synced |-> o.synced,
          auto |-> o.auto, typing |-> o.typing]
  /\ o.synced \in 0..current

\* A frame that changes the overlay alone.
LEMMA Framed ==
  ASSUME StoreInv, NEW o, OverlayRecord(o), o.typing # Null => o.dirty,
         ~o.dirty /\ o.synced = current => o.pending = sets[current].overrides,
         overlay' = o, UNCHANGED <<sets, current, workers, returned>>
  PROVE StoreInv'
<1>1. OverlayShape'
  BY DEF OverlayShape, OverlayRecord
<1>2. SyncInv'
  BY DEF SyncInv
<1>3. Shape'
  BY DEF StoreInv, Shape, SetShape
<1>4. DeclaredInv'
  BY DEF StoreInv, DeclaredInv, SetDeclared, Default, Loads
<1>5. WorkersInv'
  BY DEF StoreInv, WorkersInv
<1>6. CacheInv'
  BY DEF StoreInv, CacheInv
<1> QED BY <1>1, <1>2, <1>3, <1>4, <1>5, <1>6 DEF StoreInv

\* A frame that ends in ApplyEnvOverrides.
LEMMA Applied ==
  ASSUME StoreInv, NEW o, OverlayRecord(o), Apply(o)
  PROVE StoreInv'
<1>1. PICK set : set = WithOverrides(sets[current], o.pending)
  OBVIOUS
<1>2. SetShape(set) /\ SetDeclared(set) /\ \A s \in Shaders : set.cache[s] = {}
  BY <1>1, MadeSets
<1>3. /\ overlay' = [pending |-> o.pending, dirty |-> FALSE, synced |-> o.synced,
                     auto |-> o.auto, typing |-> Null]
      /\ o.synced \in 0..current
  BY DEF Apply, OverlayRecord
<1>4. current' = current + 1 /\ current < MaxGen
  BY DEF Apply
<1>5. OverlayShape'
  <2>1. current \in 1..MaxGen
    BY DEF StoreInv, Shape
  <2> QED BY <1>3, <1>4, <2>1, GenerationsExist DEF OverlayShape
<1>6. overlay'.synced \in 0..current
  BY <1>3
<1>7. sets' = [sets EXCEPT ![current + 1] = set] /\ UNCHANGED <<workers, returned>>
  BY <1>1 DEF Apply
<1> QED BY <1>2, <1>4, <1>5, <1>6, <1>7, Advanced

\* The overlay of a frame's start, before and after an edit.
LEMMA SyncedRecord ==
  ASSUME StoreInv
  PROVE /\ OverlayRecord(Synced(overlay))
        /\ Synced(overlay).dirty = overlay.dirty /\ Synced(overlay).typing = overlay.typing
        /\ ~overlay.dirty => Synced(overlay).pending = sets[current].overrides
<1> DEFINE o == Synced(overlay)
<1>1. /\ o = [pending |-> o.pending, dirty |-> overlay.dirty, synced |-> o.synced,
              auto |-> overlay.auto, typing |-> overlay.typing]
      /\ o.synced \in 0..current
      /\ ~o.dirty => o.pending = sets[current].overrides
  BY SyncedOverlay
<1> HIDE DEF o
<1>2. o.dirty = overlay.dirty /\ o.typing = overlay.typing /\ o.auto = overlay.auto
  BY <1>1
<1> QED BY <1>1, <1>2 DEF OverlayRecord, o

\* An edit leaves a record of the overlay.
LEMMA EditedRecord ==
  ASSUME StoreInv, NEW k, NEW value, NEW o, o = Edited(Synced(overlay), k, value)
  PROVE /\ OverlayRecord(o) /\ o.dirty
        /\ OverlayRecord([o EXCEPT !.typing = k]) /\ [o EXCEPT !.typing = k].dirty
<1>1. PICK start : start = Synced(overlay) /\ OverlayRecord(start)
  BY SyncedRecord
<1>2. PICK pending : o = [pending |-> pending, dirty |-> TRUE, synced |-> start.synced,
                        auto |-> start.auto, typing |-> start.typing]
  BY <1>1 DEF Edited, OverlayRecord
<1>3. OverlayRecord(o) /\ o.dirty
  BY <1>1, <1>2 DEF OverlayRecord
<1>4. PICK p : p = [o EXCEPT !.typing = k]
  OBVIOUS
<1>5. p = [pending |-> o.pending, dirty |-> o.dirty, synced |-> o.synced,
           auto |-> o.auto, typing |-> k]
  BY <1>3, <1>4 DEF OverlayRecord
<1>6. OverlayRecord(p) /\ p.dirty
  BY <1>3, <1>5 DEF OverlayRecord
<1> QED BY <1>3, <1>4, <1>6

\* What a box or the reset of a value does with its edit.
LEMMA EditStep ==
  ASSUME StoreInv, NEW k, NEW value, NEW o, o = Edited(Synced(overlay), k, value),
         Apply(o) \/ Frame(o)
  PROVE StoreInv'
<1>1. OverlayRecord(o) /\ o.dirty
  BY EditedRecord
<1>2. CASE Apply(o)
  BY <1>1, <1>2, Applied
<1>3. CASE Frame(o)
  BY <1>1, <1>3, Framed DEF Frame
<1> QED BY <1>2, <1>3

\* The overlay as the field that had the focus leaves it.
LEMMA FocusLost ==
  ASSUME StoreInv, NEW o, OverlayRecord(o),
         ~o.dirty => o.pending = sets[current].overrides,
         Frame([o EXCEPT !.typing = Null])
  PROVE StoreInv'
<1>1. PICK p : p = [o EXCEPT !.typing = Null]
  OBVIOUS
<1>2. p = [pending |-> o.pending, dirty |-> o.dirty, synced |-> o.synced,
           auto |-> o.auto, typing |-> Null]
  BY <1>1 DEF OverlayRecord
<1>3. OverlayRecord(p) /\ p.typing = Null /\ p.dirty = o.dirty /\ p.pending = o.pending
  BY <1>2 DEF OverlayRecord
<1>4. overlay' = p /\ UNCHANGED <<sets, current, workers, returned>>
  BY <1>1 DEF Frame
<1> QED BY <1>3, <1>4, Framed

-----------------------------------------------------------------------------
(* One lemma for each kind of step.                                        *)

\* Looking in a cache keeps the invariant.
LEMMA LookupKeeps ==
  ASSUME StoreInv, NEW w \in Workers, NEW s \in Shaders, Lookup(w, s)
  PROVE StoreInv'
<1>1. UNCHANGED <<sets, current, overlay>>
  BY DEF Lookup
<1>2. current \in 1..current
  BY GenerationsExist DEF StoreInv, Shape
<1>3. Shape'
  BY <1>1 DEF StoreInv, Shape, SetShape
<1>4. OverlayShape' /\ SyncInv'
  BY <1>1 DEF StoreInv, OverlayShape, SyncInv
<1>5. DeclaredInv'
  BY <1>1 DEF StoreInv, DeclaredInv, SetDeclared, Default, Loads
<1>6. WorkersInv'
  <2>1. CASE UNCHANGED workers
    BY <1>1, <2>1 DEF StoreInv, WorkersInv
  <2>2. CASE workers' = [workers EXCEPT ![w] = [gen |-> current, shader |-> s]]
    <3>1. workers' = [v \in Workers |-> workers'[v]]
      BY <2>2, Zenon DEF StoreInv, WorkersInv
    <3>2. ASSUME NEW v \in Workers, workers'[v] # Null
          PROVE workers'[v].gen \in 1..current /\ workers'[v].shader \in Shaders
      BY <1>2, <2>2, <3>2 DEF StoreInv, WorkersInv
    <3> QED BY <1>1, <3>1, <3>2 DEF WorkersInv
  <2> QED BY <2>1, <2>2 DEF Lookup
<1>7. CacheInv'
  <2>1. ASSUME NEW r \in returned', r \notin returned
        PROVE \E result \in sets[current].cache[s] : r = <<current, s, result>>
    BY <2>1 DEF Lookup
  <2>2. ASSUME NEW r \in returned'
        PROVE /\ r[1] \in 1..current /\ r[2] \in Shaders
              /\ r = <<r[1], r[2], r[3]>> /\ r[3] \in sets[r[1]].cache[r[2]]
    <3>1. CASE r \in returned
      BY <3>1 DEF StoreInv, CacheInv
    <3>2. CASE r \notin returned
      BY <1>2, <2>1, <3>2
    <3> QED BY <3>1, <3>2
  <2> QED BY <1>1, <2>2 DEF StoreInv, CacheInv
<1> QED BY <1>3, <1>4, <1>5, <1>6, <1>7 DEF StoreInv

\* A result that is stored stays: try_emplace keeps what is there.
LEMMA StoreKeeps ==
  ASSUME StoreInv, NEW w \in Workers, Store(w)
  PROVE StoreInv'
<1> USE GenerationsExist
<1> DEFINE g == workers[w].gen
           s == workers[w].shader
<1>1. g \in 1..current /\ s \in Shaders /\ current \in 1..MaxGen
  BY DEF Store, StoreInv, WorkersInv, Shape
<1>2. PICK new : sets' = [sets EXCEPT ![g].cache[s] = Stored(sets[g].cache[s], new)]
                 /\ returned' = returned \cup {<<g, s, result>> : result \in Stored(sets[g].cache[s], new)}
  BY Zenon DEF Store
<1>3. UNCHANGED <<current, overlay>> /\ workers' = [workers EXCEPT ![w] = Null]
  BY DEF Store
<1> HIDE DEF g, s
<1>4. PICK stored : stored = Stored(sets[g].cache[s], new)
  OBVIOUS
<1>5. \A x, y \in stored : x = y
  BY <1>1, <1>4 DEF Stored, StoreInv, CacheInv
<1>6. sets[g].cache[s] \subseteq stored
  BY <1>4 DEF Stored
<1>7. PICK set : set = sets'[g]
  OBVIOUS
<1>8. g \in 1..MaxGen
  BY <1>1
<1>9. set = [sets[g] EXCEPT !.cache[s] = stored]
  BY <1>2, <1>4, <1>7, <1>8 DEF StoreInv, Shape
<1>10. set = [entries |-> sets[g].entries, overrides |-> sets[g].overrides,
              cache |-> [[z \in Shaders |-> sets[g].cache[z]] EXCEPT ![s] = stored]]
  <2>1. PICK cache : cache = [z \in Shaders |-> sets[g].cache[z]]
    OBVIOUS
  <2>2. PICK old : old = sets[g] /\ old = [entries |-> old.entries, overrides |-> old.overrides, cache |-> cache]
    BY <1>1, <2>1 DEF StoreInv, Shape, SetShape
  <2>3. set = [old EXCEPT !.cache = [old.cache EXCEPT ![s] = stored]]
    BY <1>9, <2>2
  <2>4. old.cache = cache
    BY <2>2
  <2>5. set = [entries |-> old.entries, overrides |-> old.overrides, cache |-> [cache EXCEPT ![s] = stored]]
    BY <2>2, <2>3, <2>4
  <2> QED BY <2>1, <2>2, <2>5
<1>11. /\ SetShape(set) /\ set.entries = sets[g].entries /\ set.overrides = sets[g].overrides
       /\ set.cache[s] = stored /\ \A z \in Shaders : z # s => set.cache[z] = sets[g].cache[z]
  BY <1>1, <1>10 DEF SetShape
<1>12. \A h \in 1..current : h # g => sets'[h] = sets[h]
  BY <1>1, <1>2 DEF StoreInv, Shape
<1>13. Shape'
  <2>1. sets' = [h \in 1..MaxGen |-> sets'[h]]
    BY <1>2, Zenon DEF StoreInv, Shape
  <2>2. ASSUME NEW h \in 1..current
        PROVE SetShape(sets'[h])
    <3>1. CASE h = g
      BY <1>7, <1>11, <3>1
    <3>2. CASE h # g
      <4>1. sets'[h] = sets[h]
        BY <1>12, <3>2
      <4>2. SetShape(sets[h])
        BY DEF StoreInv, Shape
      <4> QED BY <4>1, <4>2
    <3> QED BY <3>1, <3>2
  <2>3. \A h \in 1..current : SetShape(sets[h])'
    BY <2>2 DEF SetShape
  <2> QED BY <1>1, <1>3, <2>1, <2>3 DEF Shape
<1>14. \A h \in 1..current : sets'[h].entries = sets[h].entries /\ sets'[h].overrides = sets[h].overrides
  BY <1>7, <1>11, <1>12
<1>15. OverlayShape' /\ SyncInv'
  <2>1. current \in 1..current
    BY <1>1
  <2> QED BY <1>3, <1>14, <2>1 DEF StoreInv, OverlayShape, SyncInv
<1>16. DeclaredInv'
  BY <1>3, <1>14 DEF StoreInv, DeclaredInv, SetDeclared, Default, Loads
<1>17. WorkersInv'
  <2>1. workers' = [v \in Workers |-> workers'[v]]
    BY <1>3, Zenon DEF StoreInv, WorkersInv
  <2>2. \A v \in Workers : workers'[v] # Null => workers'[v] = workers[v]
    BY <1>3 DEF StoreInv, WorkersInv
  <2> QED BY <1>3, <2>1, <2>2 DEF StoreInv, WorkersInv
<1>18. \A h \in 1..current : \A z \in Shaders : sets[h].cache[z] \subseteq sets'[h].cache[z]
  BY <1>6, <1>7, <1>11, <1>12
<1>19. CacheInv'
  <2>1. ASSUME NEW r \in returned'
        PROVE /\ r[1] \in 1..current /\ r[2] \in Shaders
              /\ r = <<r[1], r[2], r[3]>> /\ r[3] \in sets'[r[1]].cache[r[2]]
    <3>1. CASE r \in returned
      <4>1. /\ r[1] \in 1..current /\ r[2] \in Shaders
            /\ r = <<r[1], r[2], r[3]>> /\ r[3] \in sets[r[1]].cache[r[2]]
        BY <3>1 DEF StoreInv, CacheInv
      <4> QED BY <1>18, <4>1
    <3>2. CASE r \notin returned
      <4>1. PICK result \in stored : r = <<g, s, result>>
        BY <1>2, <1>4, <3>2
      <4>2. r[1] = g /\ r[2] = s /\ r[3] = result
        BY <4>1
      <4> QED BY <1>1, <1>7, <1>11, <4>1, <4>2
    <3> QED BY <3>1, <3>2
  <2>2. ASSUME NEW h \in 1..current, NEW z \in Shaders,
               NEW x \in sets'[h].cache[z], NEW y \in sets'[h].cache[z]
        PROVE x = y
    <3>1. CASE h = g /\ z = s
      BY <1>5, <1>7, <1>11, <3>1
    <3>2. CASE h # g \/ z # s
      <4>1. sets'[h].cache[z] = sets[h].cache[z]
        BY <1>7, <1>11, <1>12, <3>2
      <4> QED BY <4>1 DEF StoreInv, CacheInv
    <3> QED BY <3>1, <3>2
  <2> QED BY <1>3, <2>1, <2>2 DEF CacheInv
<1> QED BY <1>13, <1>15, <1>16, <1>17, <1>19 DEF StoreInv

\* Every frame of the overlay.
LEMMA OverlayKeeps ==
  ASSUME StoreInv
  PROVE /\ \A k \in Settable : Reset(k) => StoreInv'
        /\ \A k \in Settable, value \in Typed : Set(k, value) \/ Type(k, value) => StoreInv'
        /\ Commit \/ Close \/ ApplyButton \/ Repatch \/ AutoBox => StoreInv'
<1>1. OverlayRecord(Synced(overlay)) /\ OverlayRecord(overlay)
  BY SyncedRecord DEF OverlayRecord, StoreInv, OverlayShape
<1>2. ASSUME NEW k \in Settable, Reset(k)
      PROVE StoreInv'
  BY <1>2, EditStep DEF Reset
<1>3. ASSUME NEW k \in Settable, NEW value \in Typed, Set(k, value)
      PROVE StoreInv'
  BY <1>3, EditStep DEF Set
<1>4. ASSUME NEW k \in Settable, NEW value \in Typed, Type(k, value)
      PROVE StoreInv'
  <2>1. PICK o : o = Edited(Synced(overlay), k, value)
    OBVIOUS
  <2>2. PICK p : p = [o EXCEPT !.typing = k]
    OBVIOUS
  <2>3. OverlayRecord(p) /\ p.dirty
    BY <2>1, <2>2, EditedRecord
  <2>4. Frame(p)
    BY <1>4, <2>1, <2>2 DEF Type
  <2> QED BY <2>3, <2>4, Framed DEF Frame
<1>5. PICK start : start = Synced(overlay)
  OBVIOUS
<1>6. OverlayRecord(start) /\ (~start.dirty => start.pending = sets[current].overrides)
  BY <1>5, SyncedRecord
<1>7. ASSUME Commit
      PROVE StoreInv'
  <2>1. Apply(start) \/ Frame([start EXCEPT !.typing = Null])
    BY <1>5, <1>7 DEF Commit
  <2> QED BY <1>6, <2>1, Applied, FocusLost
<1>8. ASSUME Close
      PROVE StoreInv'
  <2>1. overlay.dirty
    BY <1>8 DEF Close, StoreInv, OverlayShape
  <2> QED BY <1>1, <1>8, <2>1, FocusLost DEF Close
<1>9. ASSUME ApplyButton \/ Repatch
      PROVE StoreInv'
  BY <1>1, <1>9, Applied DEF ApplyButton, Repatch
<1>10. ASSUME AutoBox
       PROVE StoreInv'
  <2>1. PICK p : p = [start EXCEPT !.auto = ~@]
    OBVIOUS
  <2>2. p = [pending |-> start.pending, dirty |-> start.dirty, synced |-> start.synced,
             auto |-> ~start.auto, typing |-> start.typing]
    BY <1>6, <2>1 DEF OverlayRecord
  <2>3. overlay.typing = Null /\ Frame(p)
    BY <1>5, <1>10, <2>1 DEF AutoBox
  <2>4. start.typing = Null
    BY <1>5, <2>3, SyncedRecord
  <2>5. OverlayRecord(p)
    BY <1>6, <2>2 DEF OverlayRecord
  <2>6. p.dirty = start.dirty /\ p.pending = start.pending /\ p.typing = Null
    BY <2>2, <2>4
  <2> QED BY <1>6, <2>3, <2>5, <2>6, Framed DEF Frame
<1> QED BY <1>2, <1>3, <1>4, <1>7, <1>8, <1>9, <1>10

\* A reload keeps the invariant.
LEMMA ReloadKeeps ==
  ASSUME StoreInv, Reload
  PROVE StoreInv'
<1>1. PICK start : start = Synced(overlay) /\ OverlayRecord(start)
  BY SyncedRecord
<1>2. start.typing = Null
  BY <1>1, SyncedRecord DEF Reload
<1>3. overlay' = [pending |-> start.pending, dirty |-> FALSE, synced |-> start.synced,
                  auto |-> start.auto, typing |-> Null]
  BY <1>1, <1>2 DEF Reload, OverlayRecord
<1>4. PICK set : set = Load(sets[current].overrides)
  OBVIOUS
<1>5. SetShape(set) /\ SetDeclared(set) /\ \A s \in Shaders : set.cache[s] = {}
  BY <1>4, MadeSets
<1>6. /\ sets' = [sets EXCEPT ![current + 1] = set] /\ current' = current + 1
      /\ current < MaxGen /\ UNCHANGED <<workers, returned>>
  BY <1>4 DEF Reload
<1>7. start.synced \in 0..current /\ current \in 1..MaxGen
  BY <1>1 DEF OverlayRecord, StoreInv, Shape
<1>8. OverlayShape' /\ overlay'.synced \in 0..current
  BY <1>3, <1>6, <1>7, GenerationsExist DEF OverlayShape
<1> QED BY <1>5, <1>6, <1>8, Advanced

\* Saving changes nothing but the sync of the overlay, editing a file nothing.
LEMMA SaveKeeps ==
  ASSUME StoreInv, Save
  PROVE StoreInv'
<1>1. PICK start : start = Synced(overlay) /\ OverlayRecord(start)
  BY SyncedRecord
<1>2. start.typing = Null /\ (~start.dirty => start.pending = sets[current].overrides)
  BY <1>1, SyncedRecord DEF Save
<1>3. overlay' = start /\ UNCHANGED <<sets, current, workers, returned>>
  BY <1>1 DEF Save
<1> QED BY <1>1, <1>2, <1>3, Framed

\* Stuttering keeps the invariant.
LEMMA Unchanged ==
  ASSUME StoreInv, UNCHANGED <<sets, current, overlay, workers, returned>>
  PROVE StoreInv'
<1>1. OverlayRecord(overlay) /\ (overlay.typing # Null => overlay.dirty)
  BY DEF StoreInv, OverlayShape, OverlayRecord
<1>2. ~overlay.dirty /\ overlay.synced = current => overlay.pending = sets[current].overrides
  BY DEF StoreInv, SyncInv
<1> QED BY <1>1, <1>2, Framed

\* The invariant is inductive.
LEMMA Inductive ==
  /\ Init => StoreInv
  /\ StoreInv /\ [Next]_vars => StoreInv'
<1>1. ASSUME Init
      PROVE StoreInv
  <2> USE GenerationsExist
  <2>1. /\ sets = FirstSet /\ current = 1 /\ overlay = ClosedOverlay(TRUE)
        /\ workers = [w \in Workers |-> Null] /\ returned = {}
    BY <1>1 DEF Init
  <2>2. Shape /\ DeclaredInv
    BY <2>1, FirstSetMade DEF FirstSet, Shape, DeclaredInv
  <2>3. OverlayShape /\ SyncInv
    BY <2>1 DEF ClosedOverlay, OverlayShape, SyncInv
  <2>4. WorkersInv /\ CacheInv
    BY <2>1, FirstSetMade DEF FirstSet, WorkersInv, CacheInv
  <2> QED BY <2>2, <2>3, <2>4 DEF StoreInv
<1>2. ASSUME StoreInv, [Next]_vars
      PROVE StoreInv'
  <2>1. ASSUME NEW w \in Workers, Store(w) \/ \E s \in Shaders : Lookup(w, s)
        PROVE StoreInv'
    BY <1>2, <2>1, StoreKeeps, LookupKeeps
  <2>2. ASSUME NEW k \in Settable,
               Reset(k) \/ \E value \in Typed : Set(k, value) \/ Type(k, value)
        PROVE StoreInv'
    BY <1>2, <2>2, OverlayKeeps
  <2>3. ASSUME Commit \/ Close \/ ApplyButton \/ Repatch \/ AutoBox
        PROVE StoreInv'
    BY <1>2, <2>3, OverlayKeeps
  <2>4. ASSUME Reload \/ Save
        PROVE StoreInv'
    BY <1>2, <2>4, ReloadKeeps, SaveKeeps
  <2>5. ASSUME Restart
        PROVE StoreInv'
    BY <2>5, Started DEF Restart
  <2>6. ASSUME NEW n \in Names, NEW content \in Contents[n], EditFile(n, content)
        PROVE StoreInv'
    BY <1>2, <2>6, Unchanged DEF EditFile
  <2>7. ASSUME UNCHANGED vars
        PROVE StoreInv'
    BY <1>2, <2>7, Unchanged DEF vars
  <2> QED BY <1>2, <2>1, <2>2, <2>3, <2>4, <2>5, <2>6, <2>7 DEF Next
<1> QED BY <1>1, <1>2

\* The invariant holds in every reachable state.
LEMMA Invariant == Spec => []StoreInv
BY Inductive, PTL DEF Spec

-----------------------------------------------------------------------------
\* Whatever is edited, reloaded, restarted or applied, a set has overrides of declared
\* variables only, and jobs and results name sets that were made.
THEOREM TypeCorrect == Spec => []TypeOK
<1>1. StoreInv => TypeOK
  BY GenerationsExist DEF StoreInv, Shape, DeclaredInv, SetDeclared, OverlayShape,
     WorkersInv,
                          CacheInv, TypeOK
<1> QED BY <1>1, Invariant, PTL

\* RecipeSet::Patch returns one object for one shader of one generation, however many
\* workers miss the cache at once: the cache keeps the first result, and what was
\* returned is what it keeps.
THEOREM OnePatchPerShader == Spec => []OneResult
<1>1. StoreInv => OneResult
  <2>1. SUFFICES ASSUME StoreInv, NEW r \in returned, NEW q \in returned,
                        r[1] = q[1], r[2] = q[2]
                 PROVE r[3] = q[3]
    BY DEF OneResult
  <2> QED BY <2>1 DEF StoreInv, CacheInv
<1> QED BY <1>1, Invariant, PTL

\* The overlay never shows a value that the recipes do not run with while it offers
\* nothing to apply.
THEOREM OverlayIsTrue == Spec => []ShownIsApplied
<1>1. StoreInv => ShownIsApplied
  <2>1. SUFFICES ASSUME StoreInv, ~overlay.dirty, NEW n \in Names, NEW v \in Vars
                 PROVE Shown(n, v) = Effective(sets[current], n, v)
    BY DEF ShownIsApplied
  <2>2. Pending(overlay) = sets[current].overrides
    BY <2>1 DEF StoreInv, SyncInv, Pending
  <2> QED BY <2>2 DEF Shown, Effective
<1> QED BY <1>1, Invariant, PTL

-----------------------------------------------------------------------------
(* The patches of a set are those of its recipes and values.               *)

\* Induction over a set of naturals, from the least natural outside of it.
LEMMA SetInduction ==
  ASSUME NEW T \in SUBSET Nat, 0 \in T, \A n \in Nat : n \in T => n + 1 \in T
  PROVE  T = Nat
<1> DEFINE S == Nat \ T
           R == {ss \in Nat \X Nat : ss[1] < ss[2]}
<1>1. SUFFICES ASSUME S # {} PROVE FALSE
  OBVIOUS
<1>2. IsWellFoundedOn(R, Nat)
  BY NatLessThanWellFounded DEF OpToRel
<1> HIDE DEF R
<1>3. PICK x \in S : \A y \in S : <<y, x>> \notin R
  BY <1>1, <1>2, WFMin
<1>4. x \in Nat /\ x # 0 /\ x \notin T /\ x - 1 \in Nat
  BY <1>3
<1>5. <<x - 1, x>> \in R
  BY <1>4 DEF R
<1>6. x - 1 \in T
  BY <1>3, <1>4, <1>5
<1> QED BY <1>4, <1>6

\* The recipes of the first n that change a shader, and the reference patch of those.
First(set, s, n) == {i \in Changing(set, s) : i <= n}
Bound(set, S, i) ==
  {[handle |-> h, by |-> Order[i]] :
     h \in {x \in set.entries[Order[i]].adds :
              \A j \in S : j > i => x \notin set.entries[Order[j]].adds}}
BoundBy(set, S) == UNION {Bound(set, S, i) : i \in S}
IsReferenceUpTo(set, s, n, patch) ==
  \E m \in Nat : \E at \in [1..m -> First(set, s, n)] :
    /\ Increasing(at) /\ Range(at) = First(set, s, n)
    /\ patch = [code |-> [i \in 1..m |-> Execution(set, Order[at[i]])],
                bindings |-> BoundBy(set, First(set, s, n))]

\* The order of the recipes is a sequence.
LEMMA OrderIsSeq == Len(Order) \in Nat /\ DOMAIN Order = 1..Len(Order)
BY StoreAssumption

\* A recipe that does not change the shader.
LEMMA PrefixKept ==
  ASSUME NEW set, NEW s, NEW n \in Nat, NEW patch, IsReferenceUpTo(set, s, n, patch),
         n + 1 \notin Changing(set, s)
  PROVE  IsReferenceUpTo(set, s, n + 1, patch)
<1>1. First(set, s, n + 1) = First(set, s, n)
  BY OrderIsSeq DEF First, Changing
<1> QED BY <1>1 DEF IsReferenceUpTo

\* A recipe that changes it.
LEMMA PrefixExtended ==
  ASSUME NEW set, NEW s, NEW n \in Nat, NEW patch, IsReferenceUpTo(set, s, n, patch),
         n + 1 \in Changing(set, s)
  PROVE  IsReferenceUpTo(set, s, n + 1, RunRecipe(set, s, patch, Order[n + 1]))
<1> DEFINE S == First(set, s, n)
           U == First(set, s, n + 1)
           e == Execution(set, Order[n + 1])
<1>1. PICK m \in Nat : \E at \in [1..m -> S] :
        /\ Increasing(at) /\ Range(at) = S
        /\ patch = [code |-> [i \in 1..m |-> Execution(set, Order[at[i]])],
                    bindings |-> BoundBy(set, S)]
  BY DEF IsReferenceUpTo
<1>2. PICK at \in [1..m -> S] :
        /\ Increasing(at) /\ Range(at) = S
        /\ patch = [code |-> [i \in 1..m |-> Execution(set, Order[at[i]])],
                    bindings |-> BoundBy(set, S)]
  BY <1>1
<1>3. U = S \cup {n + 1} /\ S \subseteq 1..n /\ n + 1 \notin S
  BY OrderIsSeq DEF First, Changing
<1> HIDE DEF S, U
<1>4. PICK new : new = [i \in 1..(m + 1) |-> IF i = m + 1 THEN n + 1 ELSE at[i]]
  OBVIOUS
<1>5. new \in [1..(m + 1) -> U] /\ \A i \in 1..m : i \in 1..(m + 1) /\ new[i] = at[i] /\ new[i] \in 1..n
  <2>1. ASSUME NEW i \in 1..m
        PROVE  i \in 1..(m + 1) /\ i # m + 1 /\ at[i] \in S /\ at[i] \in U /\ at[i] \in 1..n
    <3>1. at[i] \in S
      BY <1>2
    <3>2. i \in 1..(m + 1) /\ i # m + 1
      OBVIOUS
    <3> QED BY <1>3, <3>1, <3>2
  <2>2. \A i \in 1..m : new[i] = at[i]
    BY <1>4, <2>1
  <2>3. \A i \in 1..(m + 1) : i = m + 1 \/ i \in 1..m
    OBVIOUS
  <2>4. \A i \in 1..(m + 1) : new[i] \in U
    BY <1>3, <1>4, <2>1, <2>3
  <2> QED BY <1>4, <2>1, <2>2, <2>4
<1>6. new[m + 1] = n + 1 /\ m + 1 \in 1..(m + 1)
  BY <1>4
<1>7. Increasing(new)
  <2>1. SUFFICES ASSUME NEW i \in 1..(m + 1), NEW j \in 1..(m + 1), i < j
                 PROVE  new[i] < new[j]
    BY <1>5 DEF Increasing
  <2>2. i \in 1..m
    BY <2>1
  <2>3. CASE j = m + 1
    BY <1>5, <1>6, <2>2, <2>3
  <2>4. CASE j \in 1..m
    BY <1>2, <1>5, <2>1, <2>2, <2>4 DEF Increasing
  <2> QED BY <2>3, <2>4
<1>8. Range(new) = U
  <2>1. ASSUME NEW x \in U PROVE \E i \in 1..(m + 1) : new[i] = x
    <3>1. CASE x = n + 1
      BY <1>6, <3>1
    <3>2. CASE x \in S
      <4>1. PICK i \in 1..m : at[i] = x
        BY <1>2, <3>2 DEF Range
      <4> QED BY <1>5, <4>1
    <3> QED BY <1>3, <3>1, <3>2
  <2>2. \A i \in 1..(m + 1) : new[i] \in U
    BY <1>5
  <2> QED BY <1>5, <2>1, <2>2 DEF Range
<1>9. PICK code : code = [i \in 1..m |-> Execution(set, Order[at[i]])]
  OBVIOUS
<1>10. Append(code, e) = [i \in 1..(m + 1) |-> Execution(set, Order[new[i]])]
  <2> DEFINE E == {Execution(set, x) : x \in Names}
  <2>1. \A i \in U : Order[i] \in Names /\ Execution(set, Order[i]) \in E
    BY OrderIsSeq DEF U, First, Changing, Names, Range
  <2>2. code \in Seq(E) /\ Len(code) = m
    <3>1. \A i \in 1..m : at[i] \in U
      BY <1>2, <1>3
    <3>2. \A i \in 1..m : Execution(set, Order[at[i]]) \in E
      BY <2>1, <3>1
    <3> HIDE DEF E
    <3> QED BY <1>9, <3>2
  <2>3. Append(code, e) = [i \in 1..(m + 1) |-> IF i = m + 1 THEN e ELSE code[i]]
    BY <2>2
  <2>4. \A i \in 1..(m + 1) : (IF i = m + 1 THEN e ELSE code[i]) = Execution(set, Order[new[i]])
    BY <1>5, <1>6, <1>9
  <2> QED BY <2>3, <2>4
<1>11. PICK adds : adds = set.entries[Order[n + 1]].adds
  OBVIOUS
<1>12. {b \in BoundBy(set, S) : b.handle \notin adds}
          \cup {[handle |-> h, by |-> Order[n + 1]] : h \in adds} = BoundBy(set, U)
  <2> DEFINE L == {b \in BoundBy(set, S) : b.handle \notin adds}
                    \cup {[handle |-> h, by |-> Order[n + 1]] : h \in adds}
  <2>1. ASSUME NEW b \in L PROVE b \in BoundBy(set, U)
    <3>1. CASE b \in BoundBy(set, S) /\ b.handle \notin adds
      <4>1. PICK i \in S : b \in Bound(set, S, i)
        BY <3>1 DEF BoundBy
      <4>2. PICK h \in set.entries[Order[i]].adds :
              /\ b = [handle |-> h, by |-> Order[i]]
              /\ \A j \in S : j > i => h \notin set.entries[Order[j]].adds
        BY <4>1 DEF Bound
      <4>3. \A j \in U : j > i => h \notin set.entries[Order[j]].adds
        BY <1>3, <1>11, <3>1, <4>2
      <4>4. b \in Bound(set, U, i)
        BY <4>2, <4>3 DEF Bound
      <4> QED BY <1>3, <4>4 DEF BoundBy
    <3>2. CASE \E h \in adds : b = [handle |-> h, by |-> Order[n + 1]]
      <4>1. PICK h \in adds : b = [handle |-> h, by |-> Order[n + 1]]
        BY <3>2
      <4>2. \A j \in U : ~ (j > n + 1)
        BY <1>3
      <4>3. b \in Bound(set, U, n + 1)
        BY <1>11, <4>1, <4>2 DEF Bound
      <4> QED BY <1>3, <4>3 DEF BoundBy
    <3> QED BY <3>1, <3>2
  <2>2. ASSUME NEW b \in BoundBy(set, U) PROVE b \in L
    <3>0. PICK i \in U : b \in Bound(set, U, i)
      BY DEF BoundBy
    <3>1. PICK h \in set.entries[Order[i]].adds :
            /\ b = [handle |-> h, by |-> Order[i]]
            /\ \A j \in U : j > i => h \notin set.entries[Order[j]].adds
      BY <3>0 DEF Bound
    <3>2. CASE i = n + 1
      BY <1>11, <3>1, <3>2
    <3>3. CASE i \in S
      <4>1. h \notin adds /\ b.handle = h
        BY <1>3, <1>11, <3>1, <3>3
      <4>2. b \in Bound(set, S, i)
        BY <1>3, <3>1 DEF Bound
      <4>3. b \in BoundBy(set, S)
        BY <3>3, <4>2 DEF BoundBy
      <4> QED BY <4>1, <4>3
    <3> QED BY <1>3, <3>2, <3>3
  <2> QED BY <2>1, <2>2
<1>13. RunRecipe(set, s, patch, Order[n + 1]) =
         [code |-> Append(patch.code, e),
          bindings |-> {b \in patch.bindings : b.handle \notin adds}
                         \cup {[handle |-> h, by |-> Order[n + 1]] : h \in adds}]
  BY <1>11 DEF RunRecipe, Changing
<1>14. patch.code = code /\ patch.bindings = BoundBy(set, S)
  BY <1>2, <1>9
<1>15. RunRecipe(set, s, patch, Order[n + 1]) =
         [code |-> [i \in 1..(m + 1) |-> Execution(set, Order[new[i]])], bindings |-> BoundBy(set, U)]
  BY <1>10, <1>12, <1>13, <1>14
<1>16. m + 1 \in Nat /\ U = First(set, s, n + 1)
  BY DEF U
<1>17. PICK result : result = RunRecipe(set, s, patch, Order[n + 1])
  OBVIOUS
<1>18. IsReferenceUpTo(set, s, n + 1, result)
  BY <1>5, <1>7, <1>8, <1>15, <1>16, <1>17 DEF IsReferenceUpTo
<1> QED BY <1>17, <1>18

\* What the chain starts from, and the function of its prefixes.
Unpatched == [code |-> <<>>, bindings |-> {}]
PrefixesBy(set, s, n, f) ==
  f = [i \in 0..n |-> IF i = 0 THEN Unpatched ELSE RunRecipe(set, s, f[i - 1], Order[i])]

\* The chain of recipes is computed step by step: the function it is defined by exists.
LEMMA ChainExists ==
  ASSUME NEW set, NEW s, NEW n \in Nat
  PROVE  \E f : PrefixesBy(set, s, n, f)
<1> DEFINE T == {m \in Nat : \E f : PrefixesBy(set, s, m, f)}
<1>1. 0 \in T
  <2>1. PICK f : f = [i \in 0..0 |-> Unpatched]
    OBVIOUS
  <2>2. f = [i \in 0..0 |-> IF i = 0 THEN Unpatched ELSE RunRecipe(set, s, f[i - 1], Order[i])]
    BY <2>1
  <2> QED BY <2>2 DEF PrefixesBy
<1>2. ASSUME NEW m \in Nat, m \in T PROVE m + 1 \in T
  <2>1. PICK f : PrefixesBy(set, s, m, f)
    BY <1>2
  <2>2. PICK g : g = [i \in 0..(m + 1) |-> IF i <= m THEN f[i] ELSE RunRecipe(set, s, f[m], Order[m + 1])]
    OBVIOUS
  <2>3. ASSUME NEW i \in 0..(m + 1)
        PROVE  g[i] = IF i = 0 THEN Unpatched ELSE RunRecipe(set, s, g[i - 1], Order[i])
    <3>1. CASE i = 0
      BY <2>1, <2>2, <3>1 DEF PrefixesBy
    <3>2. CASE i \in 1..m
      <4>1. i \in 0..m /\ i - 1 \in 0..m /\ i # 0
        BY <3>2
      <4>2. f[i] = RunRecipe(set, s, f[i - 1], Order[i])
        BY <2>1, <4>1 DEF PrefixesBy
      <4>3. g[i] = f[i] /\ g[i - 1] = f[i - 1]
        BY <2>2, <4>1
      <4> QED BY <4>1, <4>2, <4>3
    <3>3. CASE i = m + 1
      <4>1. g[i] = RunRecipe(set, s, f[m], Order[m + 1]) /\ g[m] = f[m] /\ i - 1 = m /\ i # 0
        BY <2>2, <3>3
      <4> QED BY <3>3, <4>1
    <3> QED BY <3>1, <3>2, <3>3
  <2>4. g = [i \in 0..(m + 1) |->
              IF i = 0 THEN Unpatched ELSE RunRecipe(set, s, g[i - 1], Order[i])]
    BY <2>2, <2>3
  <2> QED BY <2>4 DEF PrefixesBy
<1>3. T = Nat
  BY <1>1, <1>2, SetInduction
<1> QED BY <1>3

\* The chain of a set is its reference patch.
LEMMA ChainIsReference ==
  ASSUME NEW set, NEW s
  PROVE  IsReference(set, s, Chain(set, s))
<1>1. PICK n \in Nat : n = Len(Order) /\ DOMAIN Order = 1..n
  BY OrderIsSeq
<1>2. PICK f : f = CHOOSE g : PrefixesBy(set, s, n, g)
  OBVIOUS
<1>3. PrefixesBy(set, s, n, f)
  BY <1>2, ChainExists
<1>4. Chain(set, s) = f[n]
  BY <1>1, <1>2 DEF Chain, PrefixesBy, Unpatched
<1> DEFINE T == {m \in Nat : m <= n => IsReferenceUpTo(set, s, m, f[m])}
<1>5. 0 \in T
  <2>1. f[0] = Unpatched
    BY <1>3 DEF PrefixesBy
  <2>2. First(set, s, 0) = {}
    BY OrderIsSeq DEF First, Changing
  <2>3. PICK at : at = [i \in 1..0 |-> 0]
    OBVIOUS
  <2>4. at \in [1..0 -> {}] /\ Increasing(at) /\ Range(at) = {}
    BY <2>3 DEF Increasing, Range
  <2>5. [i \in 1..0 |-> Execution(set, Order[at[i]])] = <<>>
    OBVIOUS
  <2>6. BoundBy(set, {}) = {}
    BY DEF BoundBy
  <2>7. IsReferenceUpTo(set, s, 0, Unpatched)
    BY <2>2, <2>4, <2>5, <2>6 DEF IsReferenceUpTo, Unpatched
  <2> QED BY <2>1, <2>7
<1>6. ASSUME NEW m \in Nat, m \in T PROVE m + 1 \in T
  <2>1. SUFFICES ASSUME m + 1 <= n PROVE IsReferenceUpTo(set, s, m + 1, f[m + 1])
    OBVIOUS
  <2>2. IsReferenceUpTo(set, s, m, f[m])
    BY <1>6, <2>1
  <2>3. f[m + 1] = RunRecipe(set, s, f[m], Order[m + 1])
    <3>1. m + 1 \in 0..n /\ m + 1 # 0 /\ m + 1 - 1 = m
      BY <2>1
    <3> QED BY <1>3, <3>1 DEF PrefixesBy
  <2>4. m + 1 \in DOMAIN Order
    BY <1>1, <2>1
  <2>5. CASE m + 1 \in Changing(set, s)
    BY <2>2, <2>3, <2>5, PrefixExtended
  <2>6. CASE m + 1 \notin Changing(set, s)
    <3>1. f[m + 1] = f[m]
      BY <2>3, <2>4, <2>6 DEF RunRecipe, Changing
    <3> QED BY <2>2, <2>6, <3>1, PrefixKept
  <2> QED BY <2>5, <2>6
<1>7. T = Nat
  BY <1>5, <1>6, SetInduction
<1>8. IsReferenceUpTo(set, s, n, Chain(set, s))
  <2>1. n \in T
    BY <1>7
  <2> QED BY <1>4, <2>1
<1>9. First(set, s, n) = Changing(set, s)
  BY <1>1 DEF First, Changing
<1> QED BY <1>8, <1>9 DEF IsReferenceUpTo, IsReference, BoundBy, Bound

\* Every result in a cache is the patch of the recipes and values of its set.
PatchInv ==
  \A g \in 1..current : \A s \in Shaders : \A x \in sets[g].cache[s] :
    IsReference(sets[g], s, x.patch)

\* It takes the recipes and the values of a set, not what was cached, to say what a patch is.
LEMMA ReferenceOf ==
  ASSUME NEW old, NEW new, old.entries = new.entries, old.overrides = new.overrides,
         NEW s, NEW patch, IsReference(old, s, patch)
  PROVE  IsReference(new, s, patch)
<1>1. \A n : AppliesTo(old, n, s) <=> AppliesTo(new, n, s)
  BY DEF AppliesTo, Loads
<1>2. \A n : Execution(old, n) = Execution(new, n)
  <2>1. \A n, v : Effective(old, n, v) = Effective(new, n, v)
    BY DEF Effective, Default, Loads
  <2> QED BY <2>1 DEF Execution
<1>3. Changing(old, s) = Changing(new, s)
  BY <1>1 DEF Changing
<1> QED BY <1>2, <1>3 DEF IsReference

\* A new set has cached nothing, and the others stay.
LEMMA PatchAdvanced ==
  ASSUME StoreInv, PatchInv, NEW set, \A s \in Shaders : set.cache[s] = {},
         current < MaxGen, sets' = [sets EXCEPT ![current + 1] = set], current' = current + 1
  PROVE  PatchInv'
<1>1. current \in 1..MaxGen /\ \A g \in 1..current' : g = current + 1 \/ g \in 1..current
  BY GenerationsExist DEF StoreInv, Shape
<1>2. sets'[current + 1] = set /\ \A g \in 1..current : sets'[g] = sets[g]
  BY <1>1, GenerationsExist DEF StoreInv, Shape
<1>3. ASSUME NEW g \in 1..current', NEW s \in Shaders, NEW x \in sets'[g].cache[s]
      PROVE  IsReference(sets'[g], s, x.patch)
  <2>1. g \in 1..current /\ sets'[g] = sets[g]
    BY <1>1, <1>2, <1>3
  <2> QED BY <1>3, <2>1 DEF PatchInv
<1> QED BY <1>3 DEF PatchInv, IsReference, Changing, AppliesTo, Loads, Execution, Effective, Default

\* A worker stores what the chain comes to, or finds a result there.
LEMMA PatchStored ==
  ASSUME StoreInv, PatchInv, NEW w \in Workers, Store(w)
  PROVE  PatchInv'
<1> DEFINE g == workers[w].gen
           s == workers[w].shader
           chain == Chain(sets[g], s)
           new == [patch |-> chain, maker |-> IF chain.code = <<>> THEN Null ELSE w]
<1>1. g \in 1..current /\ s \in Shaders /\ current \in 1..MaxGen
  BY DEF Store, StoreInv, WorkersInv, Shape
<1>2. sets' = [sets EXCEPT ![g].cache[s] = Stored(sets[g].cache[s], new)] /\ current' = current
  BY DEF Store
<1>3. new.patch = Chain(sets[g], s)
  OBVIOUS
<1> HIDE DEF g, s, chain, new
<1>4. PICK stored : stored = Stored(sets[g].cache[s], new)
  OBVIOUS
<1>5. \A x \in stored : x \in sets[g].cache[s] \/ x = new
  BY <1>4 DEF Stored
<1>6. \A h \in 1..current : h # g => sets'[h] = sets[h]
  BY <1>1, <1>2, GenerationsExist DEF StoreInv, Shape
<1>7. /\ sets'[g].entries = sets[g].entries /\ sets'[g].overrides = sets[g].overrides
      /\ sets'[g].cache = [sets[g].cache EXCEPT ![s] = stored]
  <2>0. SetShape(sets[g]) /\ g \in 1..MaxGen
    <3>1. \A h \in 1..current : SetShape(sets[h])
      BY DEF StoreInv, Shape
    <3>2. SetShape(sets[g])
      BY <1>1, <3>1
    <3>3. g \in 1..MaxGen
      BY <1>1, GenerationsExist
    <3> QED BY <3>2, <3>3
  <2>1. PICK old : old = sets[g] /\ SetShape(old)
    BY <2>0
  <2>2. sets'[g] = [old EXCEPT !.cache[s] = stored]
    BY <1>2, <1>4, <2>0, <2>1 DEF StoreInv, Shape
  <2> QED BY <2>1, <2>2 DEF SetShape
<1>8. ASSUME NEW h \in 1..current, NEW z \in Shaders, NEW x \in sets'[h].cache[z]
      PROVE  IsReference(sets'[h], z, x.patch)
  <2>1. /\ sets'[h].entries = sets[h].entries /\ sets'[h].overrides = sets[h].overrides
        /\ x \in sets[h].cache[z] \/ (h = g /\ z = s /\ x = new)
    <3>1. CASE h = g
      <4>1. sets[g].cache = [y \in Shaders |-> sets[g].cache[y]]
        <5>1. PICK old : old = sets[g] /\ SetShape(old)
          BY <1>1 DEF StoreInv, Shape
        <5>2. PICK c : c = [y \in Shaders |-> old.cache[y]]
          OBVIOUS
        <5>3. old = [entries |-> old.entries, overrides |-> old.overrides, cache |-> c]
          BY <5>1, <5>2 DEF SetShape
        <5>4. old.cache = c
          BY <5>3
        <5> QED BY <5>1, <5>2, <5>4
      <4>2. sets'[g].cache[z] = IF z = s THEN stored ELSE sets[g].cache[z]
        BY <1>1, <1>7, <4>1
      <4> QED BY <1>5, <1>7, <1>8, <3>1, <4>2
    <3>2. CASE h # g
      BY <1>6, <1>8, <3>2
    <3> QED BY <3>1, <3>2
  <2>2. IsReference(sets[h], z, x.patch)
    BY <1>3, <2>1, ChainIsReference DEF PatchInv
  <2> QED BY <2>1, <2>2, ReferenceOf
<1> QED BY <1>2, <1>8 DEF PatchInv, IsReference, Changing, AppliesTo, Loads, Execution, Effective, Default

\* A step that leaves the sets alone keeps every result what it was.
LEMMA PatchStays ==
  ASSUME PatchInv, UNCHANGED <<sets, current>>
  PROVE  PatchInv'
<1>1. ASSUME NEW g \in 1..current', NEW s \in Shaders, NEW x \in sets'[g].cache[s]
      PROVE  IsReference(sets'[g], s, x.patch)
  BY <1>1 DEF PatchInv
<1> QED BY <1>1 DEF PatchInv, IsReference, Changing, AppliesTo, Loads, Execution, Effective, Default

\* The first set has cached nothing.
LEMMA PatchStarted ==
  ASSUME sets' = FirstSet, current' = 1
  PROVE  PatchInv'
<1>1. sets'[1] = Startup /\ 1..current' = {1}
  BY GenerationsExist DEF FirstSet
<1>2. \A s \in Shaders : sets'[1].cache[s] = {}
  BY <1>1, FirstSetMade
<1> QED BY <1>1, <1>2 DEF PatchInv

\* Every step keeps the results of the caches reference patches.
LEMMA PatchInductive ==
  /\ Init => PatchInv
  /\ StoreInv /\ PatchInv /\ [Next]_vars => PatchInv'
<1>1. ASSUME Init PROVE PatchInv
  <2>0. sets = FirstSet /\ current = 1
    BY <1>1 DEF Init
  <2>1. sets[1] = Startup /\ 1..current = {1}
    BY <2>0, GenerationsExist DEF FirstSet
  <2>2. \A s \in Shaders : sets[1].cache[s] = {}
    BY <2>1, FirstSetMade
  <2> QED BY <2>1, <2>2 DEF PatchInv
<1>2. ASSUME StoreInv, PatchInv, [Next]_vars PROVE PatchInv'
  <2>1. ASSUME NEW o, Apply(o) \/ Frame(o) PROVE PatchInv'
    <3>1. CASE Apply(o)
      <4>1. \A s \in Shaders : WithOverrides(sets[current], o.pending).cache[s] = {}
        BY MadeSets
      <4> QED BY <1>2, <3>1, <4>1, PatchAdvanced DEF Apply
    <3>2. CASE Frame(o)
      BY <1>2, <3>2, PatchStays DEF Frame
    <3> QED BY <2>1, <3>1, <3>2
  <2>2. ASSUME NEW w \in Workers, Store(w) \/ \E s \in Shaders : Lookup(w, s) PROVE PatchInv'
    BY <1>2, <2>2, PatchStored, PatchStays DEF Lookup
  <2>3. ASSUME NEW k \in Settable,
               Reset(k) \/ \E value \in Typed : Set(k, value) \/ Type(k, value)
        PROVE  PatchInv'
    BY <2>1, <2>3 DEF Reset, Set, Type
  <2>4. ASSUME Commit \/ Close \/ ApplyButton \/ Repatch \/ AutoBox PROVE PatchInv'
    BY <2>1, <2>4 DEF Commit, Close, ApplyButton, Repatch, AutoBox
  <2>5. ASSUME Reload PROVE PatchInv'
    <3>1. \A s \in Shaders : Load(sets[current].overrides).cache[s] = {}
      BY MadeSets
    <3> QED BY <1>2, <2>5, <3>1, PatchAdvanced DEF Reload
  <2>6. ASSUME Save PROVE PatchInv'
    BY <1>2, <2>6, PatchStays DEF Save
  <2>7. ASSUME Restart PROVE PatchInv'
    BY <2>7, PatchStarted DEF Restart
  <2>8. ASSUME NEW n \in Names, NEW content \in Contents[n], EditFile(n, content) PROVE PatchInv'
    BY <1>2, <2>8, PatchStays DEF EditFile
  <2>9. ASSUME UNCHANGED vars PROVE PatchInv'
    BY <1>2, <2>9, PatchStays DEF vars
  <2> QED BY <1>2, <2>2, <2>3, <2>4, <2>5, <2>6, <2>7, <2>8, <2>9 DEF Next
<1> QED BY <1>1, <1>2

\* Whichever worker asks first and whatever was reloaded or set between, a patch that is
\* returned is that of the recipes and values of its own set, chained in name order
\* (RecipeSet::Patch, RecipeSet::WithOverrides).
THEOREM PatchesAreTheirs == Spec => []PatchIsReference
<1>1. StoreInv /\ PatchInv => PatchIsReference
  BY DEF StoreInv, CacheInv, PatchInv, PatchIsReference
<1>2. Spec => [](StoreInv /\ PatchInv)
  BY Inductive, PatchInductive, PTL DEF Spec
<1> QED BY <1>1, <1>2, PTL

-----------------------------------------------------------------------------
(* What was saved is read again.                                           *)

\* A recipe does not change the type of a variable when its file is edited.
TypesKept ==
  \A n \in Names : \A v \in Vars : \A f, g \in Contents[n] :
    f.env[v] # Null /\ g.env[v] # Null => f.env[v].type = g.env[v].type

\* The values of a variable are those of its type.
ValuesOf(k) ==
  {x \in Values : \A f \in Contents[k[1]] : f.env[k[2]] # Null => x.type = f.env[k[2]].type}
Overrides == {o \in [Settable -> Values \cup {Null}] : \A k \in Settable : o[k] # Null => o[k] \in ValuesOf(k)}

FilesInv ==
  /\ files = [n \in Names |-> files[n]]
  /\ \A n \in Names : files[n] \in Contents[n]
OverridesInv ==
  /\ \A g \in 1..current : /\ \A n \in Names : sets[g].entries[n] \in Contents[n]
                           /\ sets[g].overrides \in Overrides
  /\ overlay.pending \in Overrides

\* What is written for a variable reads as what the overlay showed when it was saved.
IniInv == \A k \in Settable : ini[k] = "" \/ \E x \in ValuesOf(k) : ini[k] = x.text
SavedInv ==
  \A k \in Settable : saved[k] # Null =>
    LET f == saved[k].file
    IN /\ f \in Contents[k[1]] /\ f.loads /\ f.env[k[2]] # Null
       /\ IF ini[k] = "" THEN saved[k].value = f.env[k[2]]
          ELSE saved[k].value \in ValuesOf(k) /\ ini[k] = saved[k].value.text

ValuesInv == FilesInv /\ OverridesInv /\ IniInv /\ SavedInv

\* A settable variable is a recipe and a name.
LEMMA SettableIs ==
  ASSUME NEW k \in Settable
  PROVE  k[1] \in Names /\ k[2] \in Vars /\ k = <<k[1], k[2]>>
BY DEF Settable

\* The default of a variable is a value of its type.
LEMMA DefaultIsValue ==
  ASSUME TypesKept, NEW k \in Settable, NEW f \in Contents[k[1]], f.env[k[2]] # Null
  PROVE  f.env[k[2]] \in ValuesOf(k)
<1>1. k[1] \in Names /\ k[2] \in Vars
  BY SettableIs
<1>2. f.env[k[2]] \in Values
  <2>1. f.env[k[2]] \in Defaults(k)
    BY DEF Defaults
  <2> QED BY <2>1 DEF Values
<1>3. \A g \in Contents[k[1]] : g.env[k[2]] # Null => f.env[k[2]].type = g.env[k[2]].type
  BY <1>1 DEF TypesKept
<1> QED BY <1>2, <1>3 DEF ValuesOf

\* A value is its type and its text, which reads back.
LEMMA ValueShape ==
  ASSUME NEW k, NEW x \in ValuesOf(k)
  PROVE  /\ x \in Values /\ x = [type |-> x.type, text |-> x.text] /\ x # Null
         /\ x.text \notin {"", Null} /\ ReadText(x.text, x.type) = x.text
BY ValuesReadBack DEF ValuesOf

\* The text of a value reads as that value.
LEMMA ReadBack ==
  ASSUME NEW k \in Settable, NEW x \in ValuesOf(k), ini[k] = x.text,
         NEW f \in Contents[k[1]], f.env[k[2]] # Null
  PROVE  LoadEnvOverride(k, f.env[k[2]]) = x
<1>1. f.env[k[2]].type = x.type
  BY DEF ValuesOf
<1>2. /\ x = [type |-> x.type, text |-> x.text] /\ x.text # "" /\ x.text # Null
      /\ ReadText(x.text, x.type) = x.text
  BY ValueShape
<1>3. ReadText(ini[k], f.env[k[2]].type) = x.text
  BY <1>1, <1>2
<1> QED BY <1>1, <1>2, <1>3 DEF LoadEnvOverride

\* Before anything is read no variable is overridden.
LEMMA NoOverride == NoOverrides \in Overrides /\ \A k \in Settable : NoOverrides[k] = Null
BY DEF NoOverrides, Overrides

\* Dropping what is not declared leaves values of the variables.
LEMMA DeclaredOverrides ==
  ASSUME NEW entries, NEW o \in Overrides
  PROVE  Declared(entries, o) \in Overrides
<1>1. PICK d : d = Declared(entries, o)
  OBVIOUS
<1>2. d = [k \in Settable |-> d[k]] /\ \A k \in Settable : d[k] = Null \/ d[k] = o[k]
  BY <1>1 DEF Declared
<1>3. \A k \in Settable : d[k] \in Values \cup {Null} /\ (d[k] # Null => d[k] \in ValuesOf(k))
  BY <1>2 DEF Overrides
<1>4. d \in [Settable -> Values \cup {Null}]
  BY <1>2, <1>3
<1> QED BY <1>1, <1>3, <1>4 DEF Overrides

\* What InitializeRuntime reads for a variable: nothing, or what was written.
LEMMA ReadOverride ==
  ASSUME IniInv, NEW k \in Settable, NEW f \in Contents[k[1]], f.env[k[2]] # Null
  PROVE  IF ini[k] = "" THEN LoadEnvOverride(k, f.env[k[2]]) = Null
         ELSE LoadEnvOverride(k, f.env[k[2]]) \in ValuesOf(k)
BY ReadBack DEF IniInv, LoadEnvOverride

Read == [k \in Settable |->
           IF Default(Load(NoOverrides), k[1], k[2]) = Null THEN Null
           ELSE LoadEnvOverride(k, Default(Load(NoOverrides), k[1], k[2]))]

\* InitializeRuntime makes its set of the files, and of what is read for their variables.
LEMMA StartupReads ==
  ASSUME FilesInv, IniInv
  PROVE  /\ Startup.entries = files /\ Startup.overrides \in Overrides
         /\ \A k \in Settable : files[k[1]].loads /\ files[k[1]].env[k[2]] # Null =>
              Startup.overrides[k] = LoadEnvOverride(k, files[k[1]].env[k[2]])
<1>1. PICK d : d = Load(NoOverrides)
  OBVIOUS
<1>2. d.entries = files /\ d.overrides = Declared(files, NoOverrides)
  BY <1>1 DEF Load
<1>3. ASSUME NEW k \in Settable
      PROVE  Default(d, k[1], k[2]) = IF files[k[1]].loads THEN files[k[1]].env[k[2]] ELSE Null
  BY <1>2 DEF Default, Loads
<1>4. PICK read : read = Read
  OBVIOUS
<1>5. read = [k \in Settable |->
                IF files[k[1]].loads /\ files[k[1]].env[k[2]] # Null
                THEN LoadEnvOverride(k, files[k[1]].env[k[2]]) ELSE Null]
  BY <1>1, <1>3, <1>4 DEF Read
<1>6. ASSUME NEW k \in Settable PROVE read[k] # Null => read[k] \in ValuesOf(k)
  <2>1. files[k[1]] \in Contents[k[1]]
    BY SettableIs DEF FilesInv
  <2> QED BY <1>5, <2>1, ReadOverride
<1>7. read \in Overrides
  <2>1. \A k \in Settable : read[k] \in Values \cup {Null}
    BY <1>6 DEF ValuesOf
  <2> QED BY <1>5, <1>6, <2>1 DEF Overrides
<1>8. Startup = IF read = NoOverrides THEN d ELSE WithOverrides(d, read)
  BY <1>1, <1>4 DEF Startup, Read
<1>9. Startup.entries = files /\ Startup.overrides = Declared(files, read)
  BY <1>2, <1>8 DEF WithOverrides
<1>10. \A k \in Settable : files[k[1]].loads /\ files[k[1]].env[k[2]] # Null =>
         Startup.overrides[k] = read[k]
  BY <1>9 DEF Declared
<1>11. Declared(files, read) \in Overrides
  BY <1>7, DeclaredOverrides
<1>12. \A k \in Settable : files[k[1]].loads /\ files[k[1]].env[k[2]] # Null =>
         Startup.overrides[k] = LoadEnvOverride(k, files[k[1]].env[k[2]])
  BY <1>5, <1>10
<1> QED BY <1>9, <1>11, <1>12

\* The sync of the overlay leaves it with values of the variables.
LEMMA SyncedValues ==
  ASSUME StoreInv, OverridesInv
  PROVE  /\ Pending(overlay) \in Overrides /\ Synced(overlay).pending = Pending(overlay)
         /\ OverlayRecord(Synced(overlay))
<1>1. current \in 1..current
  <2>1. current \in 1..MaxGen
    BY DEF StoreInv, Shape
  <2> QED BY <2>1, GenerationsExist
<1>2. Pending(overlay) \in Overrides
  BY <1>1 DEF OverridesInv, Pending
<1>3. Synced(overlay).pending = Pending(overlay)
  BY DEF StoreInv, OverlayShape, Synced
<1> QED BY <1>2, <1>3, SyncedRecord

\* What the editor shows of a declared variable is a value of it.
LEMMA ShownIsValue ==
  ASSUME StoreInv, TypesKept, OverridesInv, NEW k \in Settable,
         Default(sets[current], k[1], k[2]) # Null
  PROVE  /\ Shown(k[1], k[2]) \in ValuesOf(k)
         /\ Pending(overlay)[k] = Null => Shown(k[1], k[2]) = Default(sets[current], k[1], k[2])
         /\ Pending(overlay)[k] # Null => Shown(k[1], k[2]) = Pending(overlay)[k]
         /\ sets[current].entries[k[1]] \in Contents[k[1]] /\ sets[current].entries[k[1]].loads
         /\ Default(sets[current], k[1], k[2]) = sets[current].entries[k[1]].env[k[2]]
<1>1. current \in 1..current /\ k[1] \in Names /\ k = <<k[1], k[2]>>
  BY SettableIs, GenerationsExist DEF StoreInv, Shape
<1>2. /\ sets[current].entries[k[1]] \in Contents[k[1]] /\ sets[current].entries[k[1]].loads
      /\ Default(sets[current], k[1], k[2]) = sets[current].entries[k[1]].env[k[2]]
  BY <1>1 DEF OverridesInv, Default, Loads
<1>3. Default(sets[current], k[1], k[2]) \in ValuesOf(k)
  BY <1>2, DefaultIsValue
<1>4. Pending(overlay)[k] # Null => Pending(overlay)[k] \in ValuesOf(k)
  BY SyncedValues DEF Overrides
<1>5. Shown(k[1], k[2]) = IF Pending(overlay)[k] # Null THEN Pending(overlay)[k]
                          ELSE Default(sets[current], k[1], k[2])
  BY <1>1 DEF Shown
<1> QED BY <1>2, <1>3, <1>4, <1>5

\* A value that can be entered for a variable is one of its values.
LEMMA EditedValues ==
  ASSUME StoreInv, TypesKept, OverridesInv, NEW k \in Settable, NEW value,
         value = Null \/ (value \in Typed /\ Editable(k, value))
  PROVE  Edited(Synced(overlay), k, value).pending \in Overrides
<1>1. value = Null \/ value \in ValuesOf(k)
  <2>1. SUFFICES ASSUME value \in Typed, Editable(k, value) PROVE value \in ValuesOf(k)
    OBVIOUS
  <2>2. value \in Values
    BY <2>1 DEF Values
  <2>3. Default(sets[current], k[1], k[2]) # Null /\ value.type = Shown(k[1], k[2]).type
    BY <2>1 DEF Editable
  <2>4. Shown(k[1], k[2]) \in ValuesOf(k)
    BY <2>3, ShownIsValue
  <2> QED BY <2>2, <2>3, <2>4 DEF ValuesOf
<1>2. PICK o : o = Synced(overlay) /\ OverlayRecord(o) /\ o.pending \in Overrides
  BY SyncedValues
<1>3. PICK p : p = o.pending
  OBVIOUS
<1>4. Edited(o, k, value).pending = [p EXCEPT ![k] = value]
  BY <1>2, <1>3 DEF Edited, OverlayRecord
<1>5. \A x \in ValuesOf(k) : x \in Values
  BY DEF ValuesOf
<1>6. [p EXCEPT ![k] = value] \in Overrides
  BY <1>1, <1>2, <1>3, <1>5 DEF Overrides
<1> QED BY <1>2, <1>4, <1>6

\* A step that keeps the sets, the files, what is written and what was saved.
LEMMA ValuesKept ==
  ASSUME ValuesInv, UNCHANGED <<files, ini, saved, current>>,
         \A g \in 1..current : /\ sets'[g].entries = sets[g].entries
                               /\ sets'[g].overrides = sets[g].overrides,
         overlay'.pending \in Overrides
  PROVE  ValuesInv'
<1>1. FilesInv' /\ IniInv' /\ SavedInv'
  BY DEF ValuesInv, FilesInv, IniInv, SavedInv
<1>2. OverridesInv'
  BY DEF ValuesInv, OverridesInv
<1> QED BY <1>1, <1>2 DEF ValuesInv

\* A new set of recipes that files have or had, with values of their variables.
LEMMA ValuesAdvanced ==
  ASSUME StoreInv, ValuesInv, NEW set, \A n \in Names : set.entries[n] \in Contents[n],
         set.overrides \in Overrides, current < MaxGen,
         sets' = [sets EXCEPT ![current + 1] = set], current' = current + 1,
         UNCHANGED <<files, ini, saved>>, overlay'.pending \in Overrides
  PROVE  ValuesInv'
<1>1. current \in 1..MaxGen /\ \A g \in 1..current' : g = current + 1 \/ g \in 1..current
  BY GenerationsExist DEF StoreInv, Shape
<1>2. sets'[current + 1] = set /\ \A g \in 1..current : sets'[g] = sets[g]
  BY <1>1, GenerationsExist DEF StoreInv, Shape
<1>3. FilesInv' /\ IniInv' /\ SavedInv'
  BY DEF ValuesInv, FilesInv, IniInv, SavedInv
<1>4. OverridesInv'
  BY <1>1, <1>2 DEF ValuesInv, OverridesInv
<1> QED BY <1>3, <1>4 DEF ValuesInv

\* Storing a result changes neither the recipes of a set nor its values.
LEMMA ValuesStored ==
  ASSUME StoreInv, ValuesInv, NEW w \in Workers, Store(w)
  PROVE  ValuesInv'
<1> DEFINE g == workers[w].gen
           s == workers[w].shader
<1>1. g \in 1..current /\ s \in Shaders /\ current \in 1..MaxGen
  BY DEF Store, StoreInv, WorkersInv, Shape
<1>2. PICK stored : sets' = [sets EXCEPT ![g].cache[s] = stored]
  BY DEF Store
<1>3. UNCHANGED <<files, ini, saved, current, overlay>>
  BY DEF Store
<1> HIDE DEF g, s
<1>4. ASSUME NEW h \in 1..current
      PROVE  sets'[h].entries = sets[h].entries /\ sets'[h].overrides = sets[h].overrides
  <2>1. CASE h # g
    BY <1>1, <1>2, <2>1, GenerationsExist DEF StoreInv, Shape
  <2>2. CASE h = g
    <3>1. \A i \in 1..current : SetShape(sets[i])
      BY DEF StoreInv, Shape
    <3>2. PICK old : old = sets[g] /\ SetShape(old) /\ g \in 1..MaxGen
      BY <1>1, <3>1, GenerationsExist
    <3>3. sets'[g] = [old EXCEPT !.cache[s] = stored]
      BY <1>2, <3>2 DEF StoreInv, Shape
    <3> QED BY <2>2, <3>2, <3>3 DEF SetShape
  <2> QED BY <2>1, <2>2
<1> QED BY <1>3, <1>4, ValuesKept DEF ValuesInv, OverridesInv

\* A frame, and a frame that ends in ApplyEnvOverrides.
LEMMA ValuesFramed ==
  ASSUME StoreInv, ValuesInv, NEW o, OverlayRecord(o), o.pending \in Overrides, Apply(o) \/ Frame(o)
  PROVE  ValuesInv'
<1>1. CASE Frame(o)
  BY <1>1, ValuesKept DEF Frame
<1>2. CASE Apply(o)
  <2>1. PICK set : set = WithOverrides(sets[current], o.pending)
    OBVIOUS
  <2>2. set.entries = sets[current].entries /\ set.overrides = Declared(sets[current].entries, o.pending)
    BY <2>1 DEF WithOverrides
  <2>3. current \in 1..current
    BY GenerationsExist DEF StoreInv, Shape
  <2>4. \A n \in Names : set.entries[n] \in Contents[n]
    BY <2>2, <2>3 DEF ValuesInv, OverridesInv
  <2>5. set.overrides \in Overrides
    BY <2>2, DeclaredOverrides
  <2>6. overlay'.pending = o.pending
    BY <1>2 DEF Apply, OverlayRecord
  <2>7. /\ current < MaxGen /\ sets' = [sets EXCEPT ![current + 1] = set] /\ current' = current + 1
        /\ UNCHANGED <<files, ini, saved>>
    BY <1>2, <2>1 DEF Apply
  <2> QED BY <2>4, <2>5, <2>6, <2>7, ValuesAdvanced
<1> QED BY <1>1, <1>2

\* Overlays that differ in the focus or the box alone have the same values.
LEMMA SameValues ==
  ASSUME NEW o, OverlayRecord(o), NEW k
  PROVE  /\ OverlayRecord([o EXCEPT !.typing = k]) /\ [o EXCEPT !.typing = k].pending = o.pending
         /\ OverlayRecord([o EXCEPT !.auto = ~@]) /\ [o EXCEPT !.auto = ~@].pending = o.pending
<1>1. PICK p : p = [o EXCEPT !.typing = k]
  OBVIOUS
<1>2. PICK q : q = [o EXCEPT !.auto = ~@]
  OBVIOUS
<1>3. p = [pending |-> o.pending, dirty |-> o.dirty, synced |-> o.synced, auto |-> o.auto, typing |-> k]
  BY <1>1 DEF OverlayRecord
<1>4. q = [pending |-> o.pending, dirty |-> o.dirty, synced |-> o.synced, auto |-> ~o.auto,
           typing |-> o.typing]
  BY <1>2 DEF OverlayRecord
<1>5. OverlayRecord(p) /\ p.pending = o.pending
  BY <1>3 DEF OverlayRecord
<1>6. OverlayRecord(q) /\ q.pending = o.pending
  BY <1>4 DEF OverlayRecord
<1> QED BY <1>1, <1>2, <1>5, <1>6

\* Editing in the overlay leaves it with values of the variables.
LEMMA ValuesEdited ==
  ASSUME StoreInv, TypesKept, ValuesInv
  PROVE  /\ \A k \in Settable : Reset(k) => ValuesInv'
         /\ \A k \in Settable, value \in Typed : Set(k, value) \/ Type(k, value) => ValuesInv'
         /\ Commit \/ Close \/ ApplyButton \/ Repatch \/ AutoBox => ValuesInv'
<1>1. OverridesInv /\ OverlayRecord(overlay) /\ overlay.pending \in Overrides
  BY DEF ValuesInv, OverridesInv, StoreInv, OverlayShape, OverlayRecord
<1>2. PICK start : /\ start = Synced(overlay) /\ OverlayRecord(start)
                   /\ start.pending \in Overrides
  BY <1>1, SyncedValues
<1>3. ASSUME NEW k \in Settable, NEW value,
             value = Null \/ (value \in Typed /\ Editable(k, value))
      PROVE  /\ OverlayRecord(Edited(start, k, value))
             /\ Edited(start, k, value).pending \in Overrides
  BY <1>1, <1>2, <1>3, EditedValues, EditedRecord
<1>4. ASSUME NEW k \in Settable, Reset(k) PROVE ValuesInv'
  <2>1. PICK o : o = Edited(start, k, Null) /\ OverlayRecord(o) /\ o.pending \in Overrides
    BY <1>3
  <2>2. Apply(o) \/ Frame(o)
    BY <1>2, <1>4, <2>1 DEF Reset
  <2> QED BY <2>1, <2>2, ValuesFramed
<1>5. ASSUME NEW k \in Settable, NEW value \in Typed, Set(k, value) PROVE ValuesInv'
  <2>0. Editable(k, value)
    BY <1>5 DEF Set
  <2>1. PICK o : o = Edited(start, k, value) /\ OverlayRecord(o) /\ o.pending \in Overrides
    BY <1>3, <2>0
  <2>2. Apply(o) \/ Frame(o)
    BY <1>2, <1>5, <2>1 DEF Set
  <2> QED BY <2>1, <2>2, ValuesFramed
<1>6. ASSUME NEW k \in Settable, NEW value \in Typed, Type(k, value) PROVE ValuesInv'
  <2>0. Editable(k, value)
    BY <1>6 DEF Type
  <2>1. PICK o : o = Edited(start, k, value) /\ OverlayRecord(o) /\ o.pending \in Overrides
    BY <1>3, <2>0
  <2>2. PICK p : p = [o EXCEPT !.typing = k] /\ OverlayRecord(p) /\ p.pending \in Overrides
    BY <2>1, SameValues
  <2>3. Frame(p)
    BY <1>2, <1>6, <2>1, <2>2 DEF Type
  <2> QED BY <2>2, <2>3, ValuesFramed
<1>7. ASSUME NEW o, OverlayRecord(o), o.pending \in Overrides, Frame([o EXCEPT !.typing = Null])
      PROVE  ValuesInv'
  <2>1. PICK p : p = [o EXCEPT !.typing = Null] /\ OverlayRecord(p) /\ p.pending \in Overrides
    BY <1>7, SameValues
  <2> QED BY <1>7, <2>1, ValuesFramed
<1>8. ASSUME Commit PROVE ValuesInv'
  <2>1. Apply(start) \/ Frame([start EXCEPT !.typing = Null])
    BY <1>2, <1>8 DEF Commit
  <2> QED BY <1>2, <1>7, <2>1, ValuesFramed
<1>9. ASSUME Close PROVE ValuesInv'
  BY <1>1, <1>7, <1>9 DEF Close
<1>10. ASSUME ApplyButton \/ Repatch PROVE ValuesInv'
  BY <1>2, <1>10, ValuesFramed DEF ApplyButton, Repatch
<1>11. ASSUME AutoBox PROVE ValuesInv'
  <2>1. PICK p : p = [start EXCEPT !.auto = ~@] /\ OverlayRecord(p) /\ p.pending \in Overrides
    BY <1>2, SameValues
  <2>2. Frame(p)
    BY <1>2, <1>11, <2>1 DEF AutoBox
  <2> QED BY <2>1, <2>2, ValuesFramed
<1> QED BY <1>4, <1>5, <1>6, <1>8, <1>9, <1>10, <1>11

\* The Save button writes what is shown, and nothing where nothing overrides the default.
LEMMA ValuesSaved ==
  ASSUME StoreInv, TypesKept, ValuesInv, Save
  PROVE  ValuesInv'
<1> DEFINE shown == {k \in Settable : Default(sets[current], k[1], k[2]) # Null}
<1>1. /\ ini' = [k \in Settable |-> IF k \in shown THEN SaveEnvOverride(ini[k], Pending(overlay)[k])
                                    ELSE ini[k]]
      /\ saved' = [k \in Settable |-> IF k \in shown
                     THEN [file |-> sets[current].entries[k[1]], value |-> Shown(k[1], k[2])]
                     ELSE saved[k]]
      /\ overlay' = Synced(overlay) /\ UNCHANGED <<files, sets, current>>
  BY DEF Save
<1>2. OverridesInv /\ Pending(overlay) \in Overrides /\ Synced(overlay).pending = Pending(overlay)
  BY SyncedValues DEF ValuesInv
<1>3. FilesInv' /\ OverridesInv'
  BY <1>1, <1>2 DEF ValuesInv, FilesInv, OverridesInv
<1>4. ASSUME NEW k \in Settable, k \in shown
      PROVE  /\ IF Pending(overlay)[k] = Null THEN ini'[k] = ""
                ELSE /\ ini'[k] = Pending(overlay)[k].text /\ ini'[k] # ""
                     /\ Pending(overlay)[k] \in ValuesOf(k)
             /\ saved'[k].file = sets[current].entries[k[1]] /\ saved'[k].value = Shown(k[1], k[2])
  <2>1. Pending(overlay)[k] # Null => Pending(overlay)[k] \in ValuesOf(k)
    BY <1>2 DEF Overrides
  <2>2. \A x \in ValuesOf(k) : x.text # ""
    BY ValueShape
  <2> QED BY <1>1, <1>4, <2>1, <2>2 DEF SaveEnvOverride, FormatValue
<1>5. ASSUME NEW k \in Settable, k \notin shown PROVE ini'[k] = ini[k] /\ saved'[k] = saved[k]
  BY <1>1, <1>5
<1>6. IniInv'
  <2>1. ASSUME NEW k \in Settable PROVE ini'[k] = "" \/ \E x \in ValuesOf(k) : ini'[k] = x.text
    BY <1>4, <1>5 DEF ValuesInv, IniInv
  <2> QED BY <2>1 DEF IniInv
<1>7. SavedInv'
  <2>1. ASSUME NEW k \in Settable, saved'[k] # Null
        PROVE  /\ saved'[k].file \in Contents[k[1]] /\ saved'[k].file.loads
               /\ saved'[k].file.env[k[2]] # Null
               /\ IF ini'[k] = "" THEN saved'[k].value = saved'[k].file.env[k[2]]
                  ELSE saved'[k].value \in ValuesOf(k) /\ ini'[k] = saved'[k].value.text
    <3>1. CASE k \in shown
      <4>1. Default(sets[current], k[1], k[2]) # Null
        BY <3>1
      <4>2. PICK f, x, p : /\ f = sets[current].entries[k[1]] /\ x = Shown(k[1], k[2])
                           /\ p = Pending(overlay)[k]
        OBVIOUS
      <4>3. /\ f \in Contents[k[1]] /\ f.loads /\ f.env[k[2]] # Null
            /\ p = Null => x = f.env[k[2]]
            /\ p # Null => x = p
        BY <4>1, <4>2, ShownIsValue DEF ValuesInv
      <4>4. /\ saved'[k].file = f /\ saved'[k].value = x
            /\ IF p = Null THEN ini'[k] = "" ELSE ini'[k] = p.text /\ ini'[k] # "" /\ p \in ValuesOf(k)
        BY <1>4, <3>1, <4>2
      <4> QED BY <4>3, <4>4
    <3>2. CASE k \notin shown
      BY <1>5, <2>1, <3>2 DEF ValuesInv, SavedInv
    <3> QED BY <3>1, <3>2
  <2> QED BY <2>1 DEF SavedInv
<1> QED BY <1>3, <1>6, <1>7 DEF ValuesInv

\* The start reads values of the variables, and of those that were saved for the file
\* that is there, what was shown.
LEMMA ValuesStarted ==
  ASSUME FilesInv, IniInv, sets' = FirstSet, current' = 1, \E auto : overlay' = ClosedOverlay(auto)
  PROVE  OverridesInv'
<1>1. sets'[1] = Startup /\ 1..current' = {1}
  BY GenerationsExist DEF FirstSet
<1>2. overlay'.pending \in Overrides
  BY NoOverride DEF ClosedOverlay
<1> QED BY <1>1, <1>2, StartupReads DEF OverridesInv, FilesInv

\* The first set after a start has the value that was saved for the file that is there.
LEMMA StartupRestores ==
  ASSUME StoreInv, ValuesInv, Restart, NEW k \in Settable, saved[k] # Null, saved[k].file = files[k[1]]
  PROVE  Effective(sets'[1], k[1], k[2]) = saved[k].value
<1>1. PICK f : f = files[k[1]]
  OBVIOUS
<1>2. /\ f \in Contents[k[1]] /\ f.loads /\ f.env[k[2]] # Null
      /\ IF ini[k] = "" THEN saved[k].value = f.env[k[2]]
         ELSE saved[k].value \in ValuesOf(k) /\ ini[k] = saved[k].value.text
  BY <1>1 DEF ValuesInv, SavedInv
<1>3. sets'[1] = Startup
  BY GenerationsExist DEF Restart, FirstSet
<1>4. Startup.entries = files /\ Startup.overrides[k] = LoadEnvOverride(k, f.env[k[2]])
  BY <1>1, <1>2, StartupReads DEF ValuesInv
<1>5. k = <<k[1], k[2]>> /\ k[1] \in Names
  BY SettableIs
<1>6. Effective(Startup, k[1], k[2]) = IF LoadEnvOverride(k, f.env[k[2]]) # Null
                                       THEN LoadEnvOverride(k, f.env[k[2]]) ELSE f.env[k[2]]
  BY <1>1, <1>2, <1>4, <1>5 DEF Effective, Default, Loads
<1>7. CASE ini[k] = ""
  BY <1>2, <1>3, <1>6, <1>7 DEF LoadEnvOverride
<1>8. CASE ini[k] # ""
  <2>1. LoadEnvOverride(k, f.env[k[2]]) = saved[k].value
    BY <1>2, <1>8, ReadBack
  <2>2. saved[k].value # Null
    BY <1>2, <1>8, ValueShape
  <2> QED BY <1>3, <1>6, <2>1, <2>2
<1> QED BY <1>7, <1>8

\* Every step keeps the values those of their variables.
LEMMA ValuesInductive ==
  ASSUME TypesKept
  PROVE  /\ Init => ValuesInv
         /\ StoreInv /\ ValuesInv /\ [Next]_vars => ValuesInv'
<1>1. ASSUME Init PROVE ValuesInv
  <2>1. FilesInv
    BY <1>1 DEF Init, FilesInv
  <2>2. IniInv /\ SavedInv
    BY <1>1 DEF Init, IniInv, SavedInv
  <2>3. sets = FirstSet /\ current = 1 /\ overlay = ClosedOverlay(TRUE)
    BY <1>1 DEF Init
  <2>4. sets[1] = Startup /\ 1..current = {1}
    BY <2>3, GenerationsExist DEF FirstSet
  <2>5. overlay.pending \in Overrides
    BY <2>3, NoOverride DEF ClosedOverlay
  <2>6. OverridesInv
    BY <2>1, <2>2, <2>4, <2>5, StartupReads DEF OverridesInv, FilesInv
  <2> QED BY <2>1, <2>2, <2>6 DEF ValuesInv
<1>2. ASSUME StoreInv, ValuesInv, [Next]_vars PROVE ValuesInv'
  <2>0. overlay.pending \in Overrides
    BY <1>2 DEF ValuesInv, OverridesInv
  <2>1. ASSUME UNCHANGED <<files, ini, saved, sets, current, overlay>> PROVE ValuesInv'
    BY <1>2, <2>0, <2>1, ValuesKept
  <2>2. ASSUME NEW w \in Workers, Store(w) \/ \E s \in Shaders : Lookup(w, s) PROVE ValuesInv'
    <3>1. CASE Store(w)
      BY <1>2, <3>1, ValuesStored
    <3>2. CASE \E s \in Shaders : Lookup(w, s)
      BY <2>1, <3>2 DEF Lookup
    <3> QED BY <2>2, <3>1, <3>2
  <2>3. ASSUME NEW k \in Settable,
               Reset(k) \/ \E value \in Typed : Set(k, value) \/ Type(k, value)
        PROVE  ValuesInv'
    BY <1>2, <2>3, ValuesEdited
  <2>4. ASSUME Commit \/ Close \/ ApplyButton \/ Repatch \/ AutoBox PROVE ValuesInv'
    BY <1>2, <2>4, ValuesEdited
  <2>5. ASSUME Reload PROVE ValuesInv'
    <3>1. PICK set : set = Load(sets[current].overrides)
      OBVIOUS
    <3>2. current \in 1..current
      BY <1>2, GenerationsExist DEF StoreInv, Shape
    <3>3. set.entries = files /\ set.overrides \in Overrides
      BY <1>2, <3>1, <3>2, DeclaredOverrides DEF Load, ValuesInv, OverridesInv
    <3>4. overlay'.pending \in Overrides
      BY <1>2, <2>5, SyncedValues DEF Reload, ValuesInv, OverlayRecord
    <3>5. /\ current < MaxGen /\ sets' = [sets EXCEPT ![current + 1] = set] /\ current' = current + 1
          /\ UNCHANGED <<files, ini, saved>>
      BY <2>5, <3>1 DEF Reload
    <3>6. \A n \in Names : set.entries[n] \in Contents[n]
      BY <1>2, <3>3 DEF ValuesInv, FilesInv
    <3> QED BY <1>2, <3>3, <3>4, <3>5, <3>6, ValuesAdvanced
  <2>6. ASSUME Save PROVE ValuesInv'
    BY <1>2, <2>6, ValuesSaved
  <2>7. ASSUME Restart PROVE ValuesInv'
    <3>1. OverridesInv'
      BY <1>2, <2>7, ValuesStarted DEF Restart, ValuesInv
    <3>2. FilesInv' /\ IniInv' /\ SavedInv'
      BY <1>2, <2>7 DEF Restart, ValuesInv, FilesInv, IniInv, SavedInv
    <3> QED BY <3>1, <3>2 DEF ValuesInv
  <2>8. ASSUME NEW n \in Names, NEW content \in Contents[n], EditFile(n, content) PROVE ValuesInv'
    <3>1. FilesInv'
      BY <1>2, <2>8 DEF EditFile, ValuesInv, FilesInv
    <3>2. OverridesInv' /\ IniInv' /\ SavedInv'
      BY <1>2, <2>8 DEF EditFile, ValuesInv, OverridesInv, IniInv, SavedInv
    <3> QED BY <3>1, <3>2 DEF ValuesInv
  <2>9. ASSUME UNCHANGED vars PROVE ValuesInv'
    BY <2>1, <2>9 DEF vars
  <2> QED BY <1>2, <2>2, <2>3, <2>4, <2>5, <2>6, <2>7, <2>8, <2>9 DEF Next
<1> QED BY <1>1, <1>2

\* What the overlay showed when the values were saved is what the recipes run with after
\* the next start, for every recipe whose file is the one they were saved for, and whose
\* variables do not change their type (SaveEnvOverride, LoadEnvOverride, InitializeRuntime).
THEOREM SavedIsRestoredHolds ==
  ASSUME TypesKept
  PROVE  Spec => SavedIsRestored
<1>1. StoreInv /\ ValuesInv /\ [Next]_vars =>
        [Restart => \A k \in Settable :
           saved[k] # Null /\ saved[k].file = files[k[1]] =>
             Effective(sets'[1], k[1], k[2]) = saved[k].value]_vars
  BY StartupRestores
<1>2. Spec => [](StoreInv /\ ValuesInv)
  BY Inductive, ValuesInductive, PTL DEF Spec
<1>3. QED
  BY <1>1, <1>2, PTL DEF Spec, SavedIsRestored
================================================================================
