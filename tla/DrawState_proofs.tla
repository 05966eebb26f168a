-------------------------- MODULE DrawState_proofs --------------------------
(***************************************************************************)
(* A D3D11 context under the add-on implements GameBindings, and a draw    *)
(* uses a replacement whole or not at all, for every set of stages, slots  *)
(* and shaders and every recipe.  Assumed of the game: it does not bind    *)
(* back what it read of the add-on's (Restrained); the runs that let it    *)
(* show what then breaks.                                                  *)
(***************************************************************************)
EXTENDS DrawState, TLAPS

Restrained == "rebind_stale" \notin Allowed /\ "rebind_slot" \notin Allowed

(* A record publishes replacements of its own.                             *)
PublishedOwn ==
  \A p \in Pipelines : published[p] \in Replacements => Original[published[p]] = p

(* pending.swapped tells what is bound: the replacement if it is set, the  *)
(* game's shader that has this replacement if it is not.                   *)
SwappedTruthful ==
  \A s \in Stages :
    /\ pending[s].repl = Null => ~ pending[s].swapped /\ bound[s] \notin Replacements
    /\ pending[s].repl # Null =>
         /\ StageOf[Original[pending[s].repl]] = s
         /\ bound[s] = IF pending[s].swapped THEN pending[s].repl
                       ELSE Original[pending[s].repl]

(* Every slot that holds an object of the add-on has the game's saved.     *)
SavedCovers == \A k \in Slots : context[k] \in Replacements => k \in DOMAIN saved

DInv == /\ TypeOK /\ PublishedOwn /\ SwappedTruthful /\ SavedCovers
        /\ DrawnWithResources /\ NoStrayObject /\ FrameEndsWithGameBindings

(* What the slots of a context hold once the saved ones are put back is    *)
(* the game's.                                                             *)
LEMMA GameSlotsType ==
  ASSUME TypeOK, SavedCovers
  PROVE  GameSlots \in [Slots -> Objects \cup {Null}]
BY DEF TypeOK, SavedCovers, GameSlots

(* What bind_pipeline records for a shader of the game.                    *)
LEMMA PendingForShader ==
  ASSUME TypeOK, PublishedOwn, NEW p \in Pipelines \cup {Null}
  PROVE  \/ PendingFor(p) = NoPending
         \/ /\ p \in Pipelines
            /\ published[p] \in Replacements
            /\ Original[published[p]] = p
            /\ PendingFor(p) = [repl |-> published[p], swapped |-> FALSE]
<1>1. p \notin Replacements
  BY DrawConstants
<1>2. CASE p \in pipelines
  <2>1. p \in Pipelines /\ published[p] \in Replacements \cup {Null}
    BY <1>2 DEF TypeOK
  <2>2. published[p] \in Replacements => published[p] # p
    BY <1>1, <2>1
  <2>3. QED
    BY <1>1, <1>2, <2>1, <2>2, DrawConstants DEF PendingFor, PublishedOwn, NoPending
<1>3. CASE p \notin pipelines
  BY <1>1, <1>3 DEF PendingFor, NoPending
<1>4. QED
  BY <1>2, <1>3

-----------------------------------------------------------------------------
(* The inductive invariant                                                 *)

LEMMA DInit == Init => DInv
<1>1. SUFFICES ASSUME Init PROVE DInv
  OBVIOUS
<1>2. TypeOK
  BY <1>1, DrawConstants DEF Init, TypeOK, NoPending, NoneSaved
<1>3. PublishedOwn /\ SwappedTruthful /\ SavedCovers
  BY <1>1, DrawConstants DEF Init, PublishedOwn, SwappedTruthful, SavedCovers, NoPending
<1>4. QED
  BY <1>1, <1>2, <1>3 DEF Init, DInv, DrawnWithResources, NoStrayObject,
     FrameEndsWithGameBindings

LEMMA BindInv ==
  ASSUME DInv, NEW s \in Stages, NEW p \in pipelines \cup {Null}, BindPipeline(s, p)
  PROVE  DInv'
<1>1. p \in Pipelines \cup {Null} /\ p \notin Replacements
  BY DrawConstants DEF DInv, TypeOK
<1>2. \/ PendingFor(p) = NoPending
      \/ /\ p \in Pipelines
         /\ published[p] \in Replacements
         /\ Original[published[p]] = p
         /\ PendingFor(p) = [repl |-> published[p], swapped |-> FALSE]
  BY <1>1, PendingForShader DEF DInv
<1>3. PendingFor(p) \in [repl : Replacements \cup {Null}, swapped : BOOLEAN]
  <2>1. CASE PendingFor(p) = NoPending
    BY <2>1 DEF NoPending
  <2>2. CASE /\ published[p] \in Replacements
             /\ PendingFor(p) = [repl |-> published[p], swapped |-> FALSE]
    BY <2>2
  <2>3. QED
    BY <1>2, <2>1, <2>2
<1>4. TypeOK'
  BY <1>1, <1>3 DEF DInv, TypeOK, BindPipeline
<1>5. SwappedTruthful'
  <2>1. p \in Pipelines => p \in pipelines
    BY DrawConstants DEF DInv, TypeOK
  <2>2. SUFFICES ASSUME NEW t \in Stages
                 PROVE  /\ pending'[t].repl = Null =>
                             ~ pending'[t].swapped /\ bound'[t] \notin Replacements
                        /\ pending'[t].repl # Null =>
                             /\ StageOf[Original[pending'[t].repl]] = t
                             /\ bound'[t] = IF pending'[t].swapped THEN pending'[t].repl
                                            ELSE Original[pending'[t].repl]
    BY DEF SwappedTruthful
  <2>3. CASE t = s
    <3>1. bound'[t] = p /\ pending'[t] = PendingFor(p)
      BY <2>3 DEF BindPipeline, DInv, TypeOK
    <3>2. p \in Pipelines => StageOf[p] = s
      BY <2>1 DEF BindPipeline
    <3>3. QED
      BY <1>1, <1>2, <2>3, <3>1, <3>2, DrawConstants DEF NoPending
  <2>4. CASE t # s
    BY <2>4 DEF BindPipeline, DInv, TypeOK, SwappedTruthful
  <2>5. QED
    BY <2>3, <2>4
<1>6. PublishedOwn' /\ SavedCovers' /\ DrawnWithResources' /\ NoStrayObject' /\ FrameEndsWithGameBindings'
  BY DEF DInv, BindPipeline, PublishedOwn, SavedCovers, DrawnWithResources, NoStrayObject,
     FrameEndsWithGameBindings
<1>7. QED
  BY <1>4, <1>5, <1>6 DEF DInv

LEMMA RebindInv ==
  ASSUME DInv, Restrained, NEW s \in Stages, RebindReplacement(s)
  PROVE  DInv'
<1>1. /\ seen \in Replacements
      /\ s = StageOf[Original[seen]]
      /\ enabled /\ published[Original[seen]] = seen
  BY DEF RebindReplacement, Restrained
<1>2. PendingFor(seen) = [repl |-> seen, swapped |-> TRUE]
  BY <1>1, DrawConstants DEF PendingFor
<1>3. TypeOK'
  BY <1>1, <1>2 DEF DInv, TypeOK, RebindReplacement
<1>4. SwappedTruthful'
  <2>1. pending' = [pending EXCEPT ![s] = [repl |-> seen, swapped |-> TRUE]]
    BY <1>2 DEF RebindReplacement
  <2>2. bound' = [bound EXCEPT ![s] = seen]
    BY DEF RebindReplacement
  <2>3. QED
    BY <1>1, <2>1, <2>2, DrawConstants DEF DInv, TypeOK, SwappedTruthful
<1>5. PublishedOwn' /\ SavedCovers' /\ DrawnWithResources' /\ NoStrayObject' /\ FrameEndsWithGameBindings'
  BY DEF DInv, RebindReplacement, PublishedOwn, SavedCovers, DrawnWithResources, NoStrayObject,
     FrameEndsWithGameBindings
<1>6. QED
  BY <1>3, <1>4, <1>5 DEF DInv

(* ClearState and FinishCommandList(FALSE).                                *)
LEMMA ClearInv ==
  ASSUME DInv, ClearState \/ FinishClear
  PROVE  DInv'
<1>1. /\ bound' = [s \in Stages |-> Null]
      /\ context' = [k \in Slots |-> Null]
      /\ pending' = [s \in Stages |-> NoPending]
      /\ saved' = NoneSaved
      /\ call'.op # "draw"
      /\ UNCHANGED <<deferred, enabled, pipelines, published, seen>>
  BY DEF ClearState, FinishClear
<1>2. TypeOK'
  BY <1>1 DEF DInv, TypeOK, NoPending, NoneSaved
<1>3. PublishedOwn' /\ SwappedTruthful' /\ SavedCovers'
  BY <1>1, DrawConstants DEF DInv, PublishedOwn, SwappedTruthful, SavedCovers, NoPending
<1>4. FrameEndsWithGameBindings'
  BY <1>1, DrawConstants DEF FrameEndsWithGameBindings
<1>5. QED
  BY <1>1, <1>2, <1>3, <1>4 DEF DInv, DrawnWithResources, NoStrayObject

LEMMA WriteInv ==
  ASSUME DInv, NEW k \in Slots, NEW n \in Counts, NEW o \in Objects \cup {Null},
         WriteSlots(k.stage, k.cls, k.slot, n, o)
  PROVE  DInv'
<1>1. k.slot \in Nat /\ n \in Nat /\ o \notin Replacements
  BY DrawConstants
<1>2. TypeOK'
  BY DEF DInv, TypeOK, WriteSlots
<1>3. SavedCovers'
  <2>1. SUFFICES ASSUME NEW j \in Slots, context'[j] \in Replacements
                 PROVE  j \in DOMAIN saved \ Written(k.stage, k.cls, k.slot, n)
    BY DEF SavedCovers, WriteSlots
  <2>2. ~ (j.stage = k.stage /\ j.cls = k.cls /\ j.slot \in k.slot..(k.slot + n - 1))
    BY <1>1, <2>1 DEF WriteSlots
  <2>3. j.slot \in Nat
    BY DrawConstants
  <2>4. j \notin Written(k.stage, k.cls, k.slot, n)
    BY <1>1, <2>2, <2>3 DEF Written
  <2>5. context[j] \in Replacements
    BY <2>1, <2>2 DEF WriteSlots
  <2>6. QED
    BY <2>4, <2>5 DEF DInv, SavedCovers
<1>4. PublishedOwn' /\ SwappedTruthful' /\ DrawnWithResources' /\ NoStrayObject' /\ FrameEndsWithGameBindings'
  BY DEF DInv, WriteSlots, PublishedOwn, SwappedTruthful, DrawnWithResources, NoStrayObject,
     FrameEndsWithGameBindings
<1>5. QED
  BY <1>2, <1>3, <1>4 DEF DInv

(* What a draw binds at a stage with a pending replacement.                *)
LEMMA SwapAt ==
  ASSUME DInv, NEW s \in Stages, pending[s].repl # Null, NEW ready \in BOOLEAN
  PROVE  ApplySwap(s, ready) = IF ready THEN pending[s].repl ELSE Original[pending[s].repl]
BY DEF DInv, TypeOK, SwappedTruthful, ApplySwap, NextSwapAction

(* The parts of a draw: the stages whose replacement is used and the slots *)
(* it pushes into.                                                         *)
Held(group) == {s \in group : pending[s].repl # Null}
Used(group, unresolved) == {s \in Held(group) : Ready(s, unresolved)}
Pushed(group, unresolved) == UNION {Binds[pending[s].repl] : s \in Used(group, unresolved)}

LEMMA DrawEffect ==
  ASSUME DInv, NEW group \in {Graphics, Compute}, NEW unresolved \in SUBSET group,
         Draw(group, unresolved)
  PROVE  LET used == Used(group, unresolved)
             pushed == Pushed(group, unresolved)
         IN /\ used \subseteq group /\ group \subseteq Stages
            /\ \A s \in used : pending[s].repl \in Replacements
            /\ pushed \subseteq Slots
            /\ \A k \in pushed : k.stage \in used /\ k \in Binds[pending[k.stage].repl]
            /\ \A s \in used : Binds[pending[s].repl] \subseteq pushed
            /\ bound' = [s \in Stages |->
                  IF s \in used THEN pending[s].repl
                  ELSE IF s \in Held(group) THEN Original[pending[s].repl] ELSE bound[s]]
            /\ pending' = [s \in Stages |->
                  IF s \in Held(group) THEN [pending[s] EXCEPT !.swapped = s \in used]
                  ELSE pending[s]]
            /\ saved' = [k \in pushed |-> GameSlots[k]]
            /\ context' = [k \in Slots |->
                  IF k \in pushed THEN pending[k.stage].repl ELSE GameSlots[k]]
            /\ call' = [op |-> "draw", group |-> group]
            /\ UNCHANGED <<deferred, enabled, pipelines, published, seen>>
<1> DEFINE used == Used(group, unresolved)
           pushed == Pushed(group, unresolved)
<1>1. used \subseteq group /\ group \subseteq Stages
  BY DEF Used, Held, Stages
<1>2. \A s \in used : pending[s].repl \in Replacements /\ StageOf[Original[pending[s].repl]] = s
  BY <1>1 DEF Used, Held, DInv, TypeOK, SwappedTruthful
<1>3. \A s \in used : Binds[pending[s].repl] \subseteq pushed
  BY DEF Pushed
<1>4. pushed \subseteq Slots
  BY <1>2, DrawConstants DEF Pushed
<1>5. \A k \in pushed : k.stage \in used /\ k \in Binds[pending[k.stage].repl]
  <2>1. SUFFICES ASSUME NEW k \in pushed
                 PROVE  k.stage \in used /\ k \in Binds[pending[k.stage].repl]
    OBVIOUS
  <2>2. PICK s \in used : k \in Binds[pending[s].repl]
    BY DEF Pushed
  <2>3. k.stage = s
    BY <1>2, <2>2, DrawConstants
  <2>4. QED
    BY <2>2, <2>3
<1>6. bound' = [s \in Stages |->
         IF s \in used THEN pending[s].repl
         ELSE IF s \in Held(group) THEN Original[pending[s].repl] ELSE bound[s]]
  <2>1. bound' = [s \in Stages |-> IF s \in Held(group) THEN ApplySwap(s, s \in used) ELSE bound[s]]
    BY DEF Draw, Used, Held
  <2>2. \A s \in Held(group) :
          ApplySwap(s, s \in used) = IF s \in used THEN pending[s].repl
                                     ELSE Original[pending[s].repl]
    <3>1. SUFFICES ASSUME NEW s \in Held(group)
                   PROVE  ApplySwap(s, s \in used) = IF s \in used THEN pending[s].repl
                                                     ELSE Original[pending[s].repl]
      OBVIOUS
    <3>2. s \in Stages /\ pending[s].repl # Null
      BY <1>1 DEF Held
    <3>3. (s \in used) \in BOOLEAN
      OBVIOUS
    <3>4. QED
      BY ONLY DInv, <3>2, <3>3, SwapAt
  <2>3. used \subseteq Held(group)
    BY DEF Used
  <2>4. QED
    BY <2>1, <2>2, <2>3
<1>7. pending' = [s \in Stages |->
         IF s \in Held(group) THEN [pending[s] EXCEPT !.swapped = s \in used] ELSE pending[s]]
  BY DEF Draw, Used, Held
<1>8. /\ saved' = [k \in pushed |-> GameSlots[k]]
      /\ context' = [k \in Slots |-> IF k \in pushed THEN pending[k.stage].repl ELSE GameSlots[k]]
  BY DEF Draw, Pushed, Used, Held, PushBindings
<1>9. /\ call' = [op |-> "draw", group |-> group]
      /\ UNCHANGED <<deferred, enabled, pipelines, published, seen>>
  BY DEF Draw
<1>10. QED
  BY <1>1, <1>2, <1>3, <1>4, <1>5, <1>6, <1>7, <1>8, <1>9

LEMMA DrawInv ==
  ASSUME DInv, NEW group \in {Graphics, Compute}, NEW unresolved \in SUBSET group,
         Draw(group, unresolved)
  PROVE  DInv'
<1> DEFINE used == Used(group, unresolved)
           pushed == Pushed(group, unresolved)
<1>1. /\ used \subseteq group /\ group \subseteq Stages
      /\ \A s \in used : pending[s].repl \in Replacements
      /\ pushed \subseteq Slots
      /\ \A k \in pushed : k.stage \in used /\ k \in Binds[pending[k.stage].repl]
      /\ \A s \in used : Binds[pending[s].repl] \subseteq pushed
  BY DrawEffect
<1>2. /\ bound' = [s \in Stages |->
            IF s \in used THEN pending[s].repl
            ELSE IF s \in Held(group) THEN Original[pending[s].repl] ELSE bound[s]]
      /\ pending' = [s \in Stages |->
            IF s \in Held(group) THEN [pending[s] EXCEPT !.swapped = s \in used] ELSE pending[s]]
      /\ saved' = [k \in pushed |-> GameSlots[k]]
      /\ context' = [k \in Slots |-> IF k \in pushed THEN pending[k.stage].repl ELSE GameSlots[k]]
      /\ call' = [op |-> "draw", group |-> group]
      /\ UNCHANGED <<deferred, enabled, pipelines, published, seen>>
  BY DrawEffect
<1>3. GameSlots \in [Slots -> Objects \cup {Null}]
  BY GameSlotsType DEF DInv
<1>4. \A s \in Held(group) : pending[s].repl \in Replacements /\ Original[pending[s].repl] \in Pipelines
  BY <1>1, DrawConstants DEF Held, DInv, TypeOK
<1>5. used \subseteq Held(group) /\ Held(group) \subseteq Stages
  BY <1>1 DEF Used, Held
<1>6. TypeOK'
  <2>1. bound' \in [Stages -> Pipelines \cup Replacements \cup {Null}]
    BY <1>1, <1>2, <1>4 DEF DInv, TypeOK
  <2>2. pending' \in [Stages -> [repl : Replacements \cup {Null}, swapped : BOOLEAN]]
    <3>1. SUFFICES ASSUME NEW s \in Stages
                   PROVE  pending'[s] \in [repl : Replacements \cup {Null}, swapped : BOOLEAN]
      BY <1>2
    <3>2. pending[s] \in [repl : Replacements \cup {Null}, swapped : BOOLEAN]
      BY DEF DInv, TypeOK
    <3>3. CASE s \in used
      BY <1>2, <1>5, <3>2, <3>3
    <3>4. CASE s \in Held(group) /\ s \notin used
      <4>1. (s \in used) = FALSE
        BY <3>4
      <4>2. pending'[s] = [pending[s] EXCEPT !.swapped = FALSE]
        BY <1>2, <3>4, <4>1
      <4>3. QED
        BY <3>2, <4>2
    <3>5. CASE s \notin Held(group)
      BY <1>2, <3>2, <3>5
    <3>6. QED
      BY <3>3, <3>4, <3>5
  <2>3. DOMAIN saved' \subseteq Slots /\ saved' \in [DOMAIN saved' -> Objects \cup {Null}]
    BY <1>1, <1>2, <1>3
  <2>4. context' \in [Slots -> Objects \cup Replacements \cup {Null}]
    BY <1>1, <1>2, <1>3
  <2>5. QED
    BY <1>2, <2>1, <2>2, <2>3, <2>4 DEF DInv, TypeOK
<1>7. SwappedTruthful'
  <2>1. SUFFICES ASSUME NEW s \in Stages
                 PROVE  /\ pending'[s].repl = Null =>
                             ~ pending'[s].swapped /\ bound'[s] \notin Replacements
                        /\ pending'[s].repl # Null =>
                             /\ StageOf[Original[pending'[s].repl]] = s
                             /\ bound'[s] = IF pending'[s].swapped THEN pending'[s].repl
                                            ELSE Original[pending'[s].repl]
    BY DEF SwappedTruthful
  <2>2. CASE s \in Held(group)
    <3>1. pending[s] \in [repl : Replacements \cup {Null}, swapped : BOOLEAN]
      BY DEF DInv, TypeOK
    <3>2. pending[s].repl # Null /\ StageOf[Original[pending[s].repl]] = s
      BY <2>2 DEF Held, DInv, SwappedTruthful
    <3>3. CASE s \in used
      BY <1>2, <2>2, <3>1, <3>2, <3>3
    <3>4. CASE s \notin used
      BY <1>2, <2>2, <3>1, <3>2, <3>4
    <3>5. QED
      BY <3>3, <3>4
  <2>3. CASE s \notin Held(group)
    BY <1>2, <1>5, <2>3 DEF DInv, SwappedTruthful
  <2>4. QED
    BY <2>2, <2>3
<1>8. SavedCovers'
  BY <1>2, <1>3, DrawConstants DEF SavedCovers
<1>9. DrawnWithResources'
  <2>1. SUFFICES ASSUME NEW s \in group, bound'[s] \in Replacements,
                        NEW k \in Binds[bound'[s]]
                 PROVE  context'[k] = bound'[s]
    BY <1>2 DEF DrawnWithResources
  <2>2. s \in used
    <3>1. s \notin Held(group) => bound[s] \notin Replacements
      BY <1>1, DrawConstants DEF Held, DInv, SwappedTruthful, TypeOK
    <3>2. QED
      BY <1>1, <1>2, <1>4, <2>1, <3>1, DrawConstants
  <2>3. bound'[s] = pending[s].repl /\ k \in pushed
    BY <1>1, <1>2, <2>1, <2>2
  <2>4. k.stage = s
    BY <1>4, <1>5, <2>1, <2>2, <2>3, DrawConstants DEF DInv, SwappedTruthful
  <2>5. QED
    BY <1>1, <1>2, <2>3, <2>4
<1>10. NoStrayObject'
  <2>1. SUFFICES ASSUME NEW k \in Slots, context'[k] \in Replacements
                 PROVE  k.stage \in group /\ bound'[k.stage] = context'[k]
    BY <1>2 DEF NoStrayObject
  <2>2. k \in pushed
    BY <1>2, <1>3, <2>1, DrawConstants
  <2>3. QED
    BY <1>1, <1>2, <2>2
<1>11. PublishedOwn' /\ FrameEndsWithGameBindings'
  BY <1>2 DEF DInv, PublishedOwn, FrameEndsWithGameBindings
<1>12. QED
  BY <1>6, <1>7, <1>8, <1>9, <1>10, <1>11 DEF DInv

LEMMA RestoreInv ==
  ASSUME DInv, Present \/ FinishKeep
  PROVE  DInv'
<1>1. /\ context' = GameSlots
      /\ saved' = NoneSaved
      /\ call'.op # "draw"
      /\ UNCHANGED <<deferred, enabled, pipelines, published, pending, bound, seen>>
  BY DEF Present, FinishKeep, RestoreAllSlots
<1>2. GameSlots \in [Slots -> Objects \cup {Null}]
  BY GameSlotsType DEF DInv
<1>3. TypeOK'
  BY <1>1, <1>2 DEF DInv, TypeOK, NoneSaved
<1>4. SavedCovers'
  BY <1>1, <1>2, DrawConstants DEF SavedCovers
<1>5. PublishedOwn' /\ SwappedTruthful'
  BY <1>1 DEF DInv, PublishedOwn, SwappedTruthful
<1>6. FrameEndsWithGameBindings'
  BY <1>1, <1>2, DrawConstants DEF FrameEndsWithGameBindings
<1>7. QED
  BY <1>1, <1>3, <1>4, <1>5, <1>6 DEF DInv, DrawnWithResources, NoStrayObject

(* Reading a shader back and the steps of other threads leave the context  *)
(* and what the add-on keeps for it alone.                                 *)
LEMMA OtherInv ==
  ASSUME DInv, (\E s \in Stages : ReadShader(s)) \/ OtherStep
  PROVE  DInv'
<1>1. UNCHANGED <<deferred, pending, saved, bound, context, call>>
  BY DEF ReadShader, OtherStep, Publish, DestroyPipeline, SetEnabled
<1>2. SwappedTruthful' /\ SavedCovers' /\ DrawnWithResources' /\ NoStrayObject' /\ FrameEndsWithGameBindings'
  BY <1>1 DEF DInv, SwappedTruthful, SavedCovers, DrawnWithResources, NoStrayObject,
     FrameEndsWithGameBindings
<1>3. CASE \E s \in Stages : ReadShader(s)
  BY <1>2, <1>3 DEF DInv, TypeOK, PublishedOwn, ReadShader
<1>4. ASSUME NEW r \in Replacements, Publish(Original[r], r)
      PROVE  DInv'
  BY <1>2, <1>4, DrawConstants DEF DInv, TypeOK, PublishedOwn, Publish
<1>5. ASSUME NEW p \in Pipelines, Publish(p, Null)
      PROVE  DInv'
  BY <1>2, <1>5, DrawConstants DEF DInv, TypeOK, PublishedOwn, Publish
<1>6. ASSUME NEW p \in Pipelines, DestroyPipeline(p)
      PROVE  DInv'
  BY <1>2, <1>6, DrawConstants DEF DInv, TypeOK, PublishedOwn, DestroyPipeline
<1>7. CASE SetEnabled
  BY <1>2, <1>7 DEF DInv, TypeOK, PublishedOwn, SetEnabled
<1>8. QED
  BY <1>3, <1>4, <1>5, <1>6, <1>7 DEF OtherStep

LEMMA DStep ==
  ASSUME DInv, Restrained, [Next]_vars
  PROVE  DInv'
<1>1. CASE UNCHANGED vars
  BY <1>1 DEF vars, DInv, TypeOK, PublishedOwn, SwappedTruthful, SavedCovers,
              DrawnWithResources, NoStrayObject,
     FrameEndsWithGameBindings
<1>2. CASE Next
  <2>1. \A k \in Slots : ~ RebindSlot(k)
    BY DEF Restrained, RebindSlot
  <2>2. QED
    BY <1>2, <2>1, BindInv, RebindInv, ClearInv, WriteInv, DrawInv, RestoreInv, OtherInv
       DEF Next, GameStep
<1>3. QED
  BY <1>1, <1>2

(* While the game does not bind back what it read of the add-on's, every   *)
(* variable keeps its type.                                                *)
THEOREM DrawTypeCorrect == ASSUME Restrained PROVE Spec => []TypeOK
<1>1. DInv /\ [Next]_vars => DInv'
  BY DStep
<1>2. DInv => TypeOK
  BY DEF DInv
<1>3. QED
  BY <1>1, <1>2, DInit, PTL DEF Spec

(* While the game does not bind back what it read of the add-on's, no draw *)
(* uses a replacement without its objects in their slots.                  *)
THEOREM DrawnWithResourcesHolds == ASSUME Restrained PROVE Spec => []DrawnWithResources
<1>1. DInv /\ [Next]_vars => DInv'
  BY DStep
<1>2. DInv => DrawnWithResources
  BY DEF DInv
<1>3. QED
  BY <1>1, <1>2, DInit, PTL DEF Spec

(* While the game does not bind back what it read of the add-on's, no draw *)
(* sees an object of a replacement that is not drawn.                      *)
THEOREM NoStrayObjectHolds == ASSUME Restrained PROVE Spec => []NoStrayObject
<1>1. DInv /\ [Next]_vars => DInv'
  BY DStep
<1>2. DInv => NoStrayObject
  BY DEF DInv
<1>3. QED
  BY <1>1, <1>2, DInit, PTL DEF Spec

(* While the game does not bind back what it read of the add-on's, a frame *)
(* and a command list end with the game's bindings in every slot.          *)
THEOREM FrameEndsHolds == ASSUME Restrained PROVE Spec => []FrameEndsWithGameBindings
<1>1. DInv /\ [Next]_vars => DInv'
  BY DStep
<1>2. DInv => FrameEndsWithGameBindings
  BY DEF DInv
<1>3. QED
  BY <1>1, <1>2, DInit, PTL DEF Spec

(* A draw that leaves the published replacements and the Enabled box alone *)
(* is a call of Draw.                                                      *)
LEMMA DrawnByDraw ==
  ASSUME DInv, Next, call'.op = "draw", vars' # vars,
         UNCHANGED <<enabled, pipelines, published, seen>>
  PROVE  \E group \in {Graphics, Compute} :
           \E unresolved \in SUBSET group : Draw(group, unresolved)
<1>1. CASE GameStep
  <2>1. ASSUME NEW s \in Stages, NEW p, BindPipeline(s, p) PROVE FALSE
    BY <2>1 DEF BindPipeline
  <2>2. ASSUME NEW s \in Stages, ReadShader(s) PROVE FALSE
    BY <2>2 DEF ReadShader, vars
  <2>3. ASSUME NEW s \in Stages, RebindReplacement(s) PROVE FALSE
    BY <2>3 DEF RebindReplacement
  <2>4. ASSUME ClearState PROVE FALSE
    BY <2>4 DEF ClearState
  <2>5. ASSUME NEW t, NEW c, NEW k, NEW n, NEW o, WriteSlots(t, c, k, n, o) PROVE FALSE
    BY <2>5 DEF WriteSlots
  <2>6. ASSUME NEW k \in Slots, RebindSlot(k) PROVE FALSE
    BY <2>5, <2>6 DEF RebindSlot
  <2>7. ASSUME Present \/ FinishKeep \/ FinishClear PROVE FALSE
    BY <2>7 DEF Present, FinishKeep, FinishClear
  <2>8. QED
    BY <1>1, <2>1, <2>2, <2>3, <2>4, <2>5, <2>6, <2>7 DEF GameStep
<1>2. CASE OtherStep
  <2>1. ASSUME NEW p, NEW r, Publish(p, r) PROVE FALSE
    <3>1. published[p] # r /\ p \in Pipelines
      BY <2>1 DEF Publish, DInv, TypeOK
    <3>2. published' = [published EXCEPT ![p] = r] /\ published \in [Pipelines -> Replacements \cup {Null}]
      BY <2>1 DEF Publish, DInv, TypeOK
    <3>3. QED
      BY <3>1, <3>2
  <2>2. ASSUME NEW p \in Pipelines, DestroyPipeline(p) PROVE FALSE
    BY <2>2 DEF DestroyPipeline
  <2>3. ASSUME SetEnabled PROVE FALSE
    <3>1. enabled' = ~ enabled /\ enabled' = enabled /\ enabled \in BOOLEAN
      BY <2>3 DEF SetEnabled, DInv, TypeOK
    <3>2. (~ enabled) # enabled
      BY <3>1
    <3>3. QED
      BY <3>1, <3>2
  <2>4. QED
    BY <1>2, <2>1, <2>2, <2>3 DEF OtherStep
<1>3. QED
  BY <1>1, <1>2 DEF Next

(* While the game does not bind back what it read of the add-on's, the     *)
(* first draw after the Enabled box was cleared has the game's shaders, in *)
(* every stage it uses and whatever was swapped in (HandleDraw,            *)
(* NextSwapAction).                                                        *)
THEOREM OffAtNextDrawHolds == ASSUME Restrained PROVE Spec => OffAtNextDraw
<1> DEFINE Off == call'.op = "draw" /\ ~ enabled /\ UNCHANGED <<enabled, pipelines, published, seen>>
                    => \A s \in call'.group : bound'[s] \notin Replacements
<1>1. DInv /\ [Next]_vars => DInv'
  BY DStep
<1>2. DInv /\ [Next]_vars => [Off]_vars
  <2>1. SUFFICES ASSUME DInv, Next, vars' # vars, call'.op = "draw", ~ enabled,
                        UNCHANGED <<enabled, pipelines, published, seen>>
                 PROVE  \A s \in call'.group : bound'[s] \notin Replacements
    OBVIOUS
  <2>2. PICK group \in {Graphics, Compute} : \E unresolved \in SUBSET group : Draw(group, unresolved)
    BY <2>1, DrawnByDraw
  <2>3. PICK unresolved \in SUBSET group : Draw(group, unresolved)
    BY <2>2
  <2>4. call'.group = group /\ group \subseteq Stages
    BY <2>3 DEF Draw, Stages
  <2>5. ASSUME NEW s \in group PROVE bound'[s] \notin Replacements
    <3>1. s \in Stages /\ ~ Ready(s, unresolved)
      BY <2>1, <2>4 DEF Ready
    <3>2. CASE pending[s].repl = Null
      <4>1. bound'[s] = bound[s]
        BY <2>3, <3>1, <3>2 DEF Draw
      <4>2. QED
        BY <2>1, <3>1, <3>2, <4>1 DEF DInv, SwappedTruthful
    <3>3. CASE pending[s].repl # Null
      <4>1. bound'[s] = ApplySwap(s, FALSE)
        <5> DEFINE held == {t \in group : pending[t].repl # Null}
                   ready == {t \in held : Ready(t, unresolved)}
        <5>1. bound' = [t \in Stages |-> IF t \in held THEN ApplySwap(t, t \in ready) ELSE bound[t]]
          BY <2>3 DEF Draw
        <5>2. s \in held /\ (s \in ready) = FALSE
          BY <3>1, <3>3
        <5> HIDE DEF held, ready
        <5>3. bound'[s] = ApplySwap(s, s \in ready)
          BY <3>1, <5>1, <5>2
        <5>4. QED
          BY <5>2, <5>3
      <4>2. pending[s] \in [repl : Replacements \cup {Null}, swapped : BOOLEAN]
        BY <2>1, <3>1 DEF DInv, TypeOK
      <4>3. bound'[s] = Original[pending[s].repl]
        BY <2>1, <3>1, <3>3, <4>1, <4>2 DEF ApplySwap, NextSwapAction, DInv, SwappedTruthful
      <4>4. QED
        BY <3>3, <4>2, <4>3, DrawConstants
    <3>4. QED
      BY <3>2, <3>3
  <2>6. QED
    BY <2>4, <2>5
<1>3. QED
  BY <1>1, <1>2, DInit, PTL DEF Spec, OffAtNextDraw

-----------------------------------------------------------------------------
(* Refinement                                                              *)

LEMMA GameInit == Init => Game!Init
BY DEF Init, Game!Init, GameShaders, GameSlots, NoPending, NoneSaved

LEMMA GameBind ==
  ASSUME DInv, NEW s \in Stages, NEW p \in pipelines \cup {Null}, BindPipeline(s, p)
  PROVE  Game!Next
<1>1. p \in Pipelines \cup {Null}
  BY DEF DInv, TypeOK
<1>2. ~ PendingFor(p).swapped
  BY <1>1, PendingForShader DEF DInv, NoPending
<1>3. GameSlots' = GameSlots
  BY DEF BindPipeline, GameSlots
<1>4. GameShaders' = [GameShaders EXCEPT ![s] = p]
  BY <1>2 DEF BindPipeline, GameShaders, DInv, TypeOK
<1>5. Game!BindShader(s, p)
  BY <1>3, <1>4 DEF Game!BindShader, BindPipeline
<1>6. QED
  BY <1>1, <1>5 DEF Game!Next

LEMMA GameRebind ==
  ASSUME DInv, Restrained, NEW s \in Stages, RebindReplacement(s)
  PROVE  Game!Next
<1>1. /\ seen \in Replacements
      /\ Original[seen] \in Pipelines
      /\ enabled /\ published[Original[seen]] = seen
  BY DrawConstants DEF RebindReplacement, Restrained
<1>2. PendingFor(seen) = [repl |-> seen, swapped |-> TRUE]
  BY <1>1, DrawConstants DEF PendingFor
<1>3. GameSlots' = GameSlots
  BY DEF RebindReplacement, GameSlots
<1>4. GameShaders' = [GameShaders EXCEPT ![s] = Original[seen]]
  <2>1. pending' = [pending EXCEPT ![s] = [repl |-> seen, swapped |-> TRUE]]
    BY <1>2 DEF RebindReplacement
  <2>2. bound' = [bound EXCEPT ![s] = seen]
    BY DEF RebindReplacement
  <2>3. QED
    BY <2>1, <2>2 DEF GameShaders, DInv, TypeOK
<1>5. Game!BindShader(s, Original[seen])
  BY <1>3, <1>4 DEF Game!BindShader, RebindReplacement
<1>6. QED
  BY <1>1, <1>5 DEF Game!Next

LEMMA GameClear ==
  ASSUME ClearState \/ FinishClear
  PROVE  Game!Next
<1>1. GameShaders' = [s \in Stages |-> Null] /\ GameSlots' = [k \in Slots |-> Null]
  BY DEF ClearState, FinishClear, GameShaders, GameSlots, NoPending, NoneSaved
<1>2. QED
  BY <1>1 DEF ClearState, FinishClear, Game!Next, Game!Clear

LEMMA GameWrite ==
  ASSUME NEW k \in Slots, NEW n \in Counts, NEW o \in Objects \cup {Null},
         WriteSlots(k.stage, k.cls, k.slot, n, o)
  PROVE  Game!Next
<1> DEFINE written == Written(k.stage, k.cls, k.slot, n)
<1>1. \A j \in Slots : /\ j \in written <=> j \in Game!Written(k.stage, k.cls, k.slot, n)
                       /\ j \in written <=> /\ j.stage = k.stage /\ j.cls = k.cls
                                            /\ j.slot \in k.slot..(k.slot + n - 1)
  BY DrawConstants DEF Written, Game!Written
<1>2. context' = [j \in Slots |-> IF j \in written THEN o ELSE context[j]]
  BY <1>1 DEF WriteSlots
<1>3. saved' = [j \in DOMAIN saved \ written |-> saved[j]]
  BY DEF WriteSlots
<1>4. GameSlots' = [j \in Slots |-> IF j \in written THEN o ELSE GameSlots[j]]
  BY <1>2, <1>3 DEF GameSlots
<1>5. GameShaders' = GameShaders
  BY DEF WriteSlots, GameShaders
<1>6. Game!WriteSlots(k.stage, k.cls, k.slot, n, o)
  BY <1>1, <1>4, <1>5 DEF Game!WriteSlots, WriteSlots
<1>7. QED
  BY <1>6 DEF Game!Next

LEMMA GameDraw ==
  ASSUME DInv, NEW group \in {Graphics, Compute}, NEW unresolved \in SUBSET group,
         Draw(group, unresolved)
  PROVE  Game!Next
<1> DEFINE used == Used(group, unresolved)
           pushed == Pushed(group, unresolved)
<1>1. /\ group \subseteq Stages
      /\ bound' = [s \in Stages |->
            IF s \in used THEN pending[s].repl
            ELSE IF s \in Held(group) THEN Original[pending[s].repl] ELSE bound[s]]
      /\ pending' = [s \in Stages |->
            IF s \in Held(group) THEN [pending[s] EXCEPT !.swapped = s \in used] ELSE pending[s]]
      /\ saved' = [k \in pushed |-> GameSlots[k]]
      /\ context' = [k \in Slots |-> IF k \in pushed THEN pending[k.stage].repl ELSE GameSlots[k]]
      /\ call' = [op |-> "draw", group |-> group]
  BY DrawEffect
<1>2. GameSlots' = GameSlots
  BY <1>1 DEF GameSlots
<1>3. \A s \in Stages : GameShaders'[s] = GameShaders[s]
  <2>1. SUFFICES ASSUME NEW s \in Stages PROVE GameShaders'[s] = GameShaders[s]
    OBVIOUS
  <2>2. pending[s] \in [repl : Replacements \cup {Null}, swapped : BOOLEAN]
    BY DEF DInv, TypeOK
  <2>3. CASE s \in used
    <3>1. pending'[s].repl = pending[s].repl /\ pending'[s].swapped
      BY <1>1, <2>2, <2>3 DEF Used
    <3>2. pending[s].repl # Null
      BY <2>3 DEF Used, Held
    <3>3. QED
      BY <3>1, <3>2 DEF DInv, SwappedTruthful, GameShaders
  <2>4. CASE s \in Held(group) /\ s \notin used
    <3>1. ~ pending'[s].swapped /\ bound'[s] = Original[pending[s].repl]
      BY <1>1, <2>2, <2>4
    <3>2. pending[s].repl # Null
      BY <2>4 DEF Held
    <3>3. QED
      BY <3>1, <3>2 DEF DInv, SwappedTruthful, GameShaders
  <2>5. CASE s \notin Held(group)
    <3>1. pending'[s] = pending[s] /\ bound'[s] = bound[s]
      BY <1>1, <2>5 DEF Used
    <3>2. QED
      BY <3>1 DEF GameShaders
  <2>6. QED
    BY <2>3, <2>4, <2>5
<1>4. GameShaders' = GameShaders
  BY <1>3 DEF GameShaders
<1>5. QED
  BY <1>1, <1>2, <1>4 DEF Game!Next, Game!Use

LEMMA GameRestore ==
  ASSUME Present \/ FinishKeep
  PROVE  Game!Next
<1>1. context' = GameSlots /\ saved' = NoneSaved
  BY DEF Present, FinishKeep, RestoreAllSlots
<1>2. GameSlots' = GameSlots
  BY <1>1 DEF GameSlots, NoneSaved
<1>3. GameShaders' = GameShaders
  BY DEF Present, FinishKeep, GameShaders
<1>4. QED
  BY <1>2, <1>3 DEF Present, FinishKeep, Game!Next, Game!Use

LEMMA GameStutter ==
  ASSUME (\E s \in Stages : ReadShader(s)) \/ OtherStep \/ UNCHANGED vars
  PROVE  UNCHANGED Game!vars
<1>1. UNCHANGED <<pending, saved, bound, context, call>>
  BY DEF ReadShader, OtherStep, Publish, DestroyPipeline, SetEnabled, vars
<1>2. QED
  BY <1>1 DEF Game!vars, GameShaders, GameSlots

(* While the game does not bind back what it read of the add-on's, the     *)
(* bindings it made are those of a context without the add-on, after every *)
(* call: a step of Spec maps to the same call of GameBindings or leaves    *)
(* its state alone.                                                        *)
THEOREM Refinement == ASSUME Restrained PROVE Spec => GameUnaffected
<1>1. DInv /\ [Next]_vars => DInv'
  BY DStep
<1>2. DInv /\ [Next]_vars => [Game!Next]_(Game!vars)
  <2>1. SUFFICES ASSUME DInv, [Next]_vars PROVE Game!Next \/ UNCHANGED Game!vars
    OBVIOUS
  <2>2. CASE UNCHANGED vars
    BY <2>2, GameStutter
  <2>3. CASE Next
    <3>1. \A k \in Slots : ~ RebindSlot(k)
      BY DEF Restrained, RebindSlot
    <3>2. QED
      BY <2>1, <2>3, <3>1, GameBind, GameRebind, GameClear, GameWrite, GameDraw, GameRestore,
         GameStutter DEF Next, GameStep
  <2>4. QED
    BY <2>1, <2>2, <2>3
<1>3. QED
  BY <1>1, <1>2, DInit, GameInit, PTL DEF Spec, GameUnaffected, Game!Spec
=============================================================================
