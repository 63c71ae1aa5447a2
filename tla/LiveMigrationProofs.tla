-------------------------- MODULE LiveMigrationProofs --------------------------
(* Decoding, the policy and the application together implement LayerStore   *)
(* and MigrationPolicy, for any number of layers, any memory and any        *)
(* settings, so that what is proved of each of the two holds of both.       *)
EXTENDS LiveMigration, FiniteSetTheorems, TLAPS

\* What is proved of the two components holds of them here.
StoreFacts == INSTANCE LayerStoreProofs WITH Context <- {ctx}, Gpus <- {Gpu} \cup OtherGpus
PolicyFacts == INSTANCE MigrationPolicyProofs
    WITH Size <- LayerSize, MaxVram <- Capacity, free_vram <- FreeVram, held <- Held

-----------------------------------------------------------------------------
(* The memory side.                                                        *)

\* The policy remembers layers of the model only.
StackInv == demoted_layers \in Seq(Layer)

\* Steps that leave the stack alone.
LEMMA StackUnchanged ==
    ASSUME StackInv, demoted_layers' = demoted_layers
    PROVE  StackInv'
BY DEF StackInv

LEMMA TopIsLayer == StackInv /\ Policy!CanPromote => Policy!Top \in Layer
BY DEF StackInv, Policy!CanPromote, Policy!Top

LEMMA NextStack == StackInv /\ [Next]_vars => StackInv'
<1> SUFFICES ASSUME StackInv, [Next]_vars PROVE StackInv'
  OBVIOUS
<1>1. CASE IdleTick
  BY <1>1, StackUnchanged DEF IdleTick, Policy!OffTick, Policy!BlindTick, Policy!CoolingTick,
     Policy!CalmTick, Policy!NoAutoMove
<1>2. CASE RefusedTick \/ FailedPromotion \/ \E il \in Layer : FailedDemotion(il)
  BY <1>2, StackUnchanged DEF RefusedTick, FailedPromotion, FailedDemotion,
     Policy!PressureTick, Policy!CalmTick, Policy!NoAutoMove
<1>3. ASSUME NEW il \in Layer, NEW slow \in BOOLEAN, Demotion(il, slow) PROVE StackInv'
  BY <1>3 DEF Demotion, Policy!DemoteDecision, StackInv
<1>4. ASSUME NEW slow \in BOOLEAN, Promotion(slow) PROVE StackInv'
  BY <1>4 DEF Promotion, Policy!CanPromote, Policy!PromoteDecision, Policy!PopTop,
     StackInv
<1>5. CASE \E il \in Layer, dev \in Device, slow \in BOOLEAN : ManualMigration(il, dev, slow)
  BY <1>5, StackUnchanged DEF ManualMigration, Policy!ManualDecision
<1>6. CASE VramChanges \/ HostChanges
  BY <1>6, StackUnchanged DEF VramChanges, HostChanges, Policy!VramChanges,
     Policy!HostChanges, Policy!policyVars
<1>7. CASE Decode \/ Complete \/ UNCHANGED vars
           \/ \E il \in Layer, dev \in Device : FailedManualMigration(il, dev)
  BY <1>7, StackUnchanged DEF Decode, Complete, FailedManualMigration, policyVars, vars
<1> QED
  BY <1>1, <1>2, <1>3, <1>4, <1>5, <1>6, <1>7 DEF Next, Tick

LEMMA StackTheorem == Spec => []StackInv
<1>1. Init => StackInv
  BY DEF Init, Policy!Init, StackInv
<1> QED
  BY <1>1, NextStack, PTL DEF Spec

\* A call of live_migrate_layer() is a step of the store.
LEMMA MigrationStep ==
    ASSUME NEW il \in Layer, NEW dev \in Device,
           Store!MigrateLayer(ctx, il, dev) \/ Store!MigrationFails(ctx, il, dev)
    PROVE  Store!Next
BY DEF Store!Next, Layer, Device

LEMMA StoreStep == StackInv /\ [Next]_vars => [Store!Next]_(Store!vars)
<1> SUFFICES ASSUME StackInv, [Next]_vars PROVE [Store!Next]_(Store!vars)
  OBVIOUS
<1>0. Cpu \in Device /\ Gpu \in Device
  BY DEF Device, Store!Device
<1>1. ASSUME UNCHANGED storeVars PROVE UNCHANGED Store!vars
  BY <1>1 DEF storeVars, Store!vars, Store!modelVars, Store!contextVars
<1>2. CASE Decode \/ Complete
  BY <1>2 DEF Decode, Complete, Store!Next
<1>3. CASE IdleTick \/ RefusedTick \/ VramChanges \/ HostChanges \/ UNCHANGED vars
  BY <1>1, <1>3 DEF IdleTick, RefusedTick, VramChanges, HostChanges, vars
<1>4. ASSUME NEW il \in Layer, FailedDemotion(il) \/ \E slow \in BOOLEAN : Demotion(il, slow)
      PROVE  Store!Next
  BY <1>0, <1>4, MigrationStep DEF FailedDemotion, Demotion
<1>5. ASSUME FailedPromotion \/ \E slow \in BOOLEAN : Promotion(slow) PROVE Store!Next
  BY <1>0, <1>5, TopIsLayer, MigrationStep DEF FailedPromotion, Promotion
<1>6. ASSUME NEW il \in Layer, NEW dev \in Device,
             FailedManualMigration(il, dev)
             \/ \E slow \in BOOLEAN : ManualMigration(il, dev, slow)
      PROVE  Store!Next
  BY <1>6, MigrationStep DEF FailedManualMigration, ManualMigration
<1> QED
  BY <1>2, <1>3, <1>4, <1>5, <1>6 DEF Next, Tick

(* Whatever the policy decides and the application asks for, the model and   *)
(* the context behave as LayerStore says, so what is proved of LayerStore    *)
(* with one context holds of them.                                           *)
LEMMA StoreRefinement == Spec => Store!Spec
<1>1. Init => Store!Init
  BY DEF Init
<1> QED
  BY <1>1, StackTheorem, StoreStep, PTL DEF Spec, Store!Spec

-----------------------------------------------------------------------------
(* What is proved of LayerStore, for the store of this module.             *)

LEMMA StoreConstants == StoreFacts!StoreAssumption
BY ModelAssumption DEF StoreFacts!StoreAssumption, StoreFacts!Layer, Layer, Store!Layer

LEMMA SameMove ==
    ASSUME NEW il, NEW dev
    PROVE  Store!MoveLayer(il, dev) <=> StoreFacts!MoveLayer(il, dev)
<1>1. Store!CanMove(il) <=> StoreFacts!CanMove(il)
  BY DEF Store!CanMove, StoreFacts!CanMove, Store!LayerTensors, StoreFacts!LayerTensors
<1>2. /\ Store!LayerTensors(il) = StoreFacts!LayerTensors(il)
      /\ Store!CopyIntact(il) = StoreFacts!CopyIntact(il)
  BY DEF Store!LayerTensors, StoreFacts!LayerTensors, Store!CopyIntact, StoreFacts!CopyIntact,
     Store!SourceEntries, StoreFacts!SourceEntries
<1>3. \A map, e : Store!Replaced(map, il, e) = StoreFacts!Replaced(map, il, e)
  BY DEF Store!Replaced, StoreFacts!Replaced
<1>4. /\ \A e : Store!Owning(il, e) = StoreFacts!Owning(il, e)
      /\ Store!Released(il) = StoreFacts!Released(il)
      /\ \A e : Store!Cleared(e) = StoreFacts!Cleared(e)
  BY DEF Store!Owning, StoreFacts!Owning, Store!Released, StoreFacts!Released, Store!Cleared,
     StoreFacts!Cleared
<1> QED
  BY <1>1, <1>2, <1>3, <1>4, Zenon DEF Store!MoveLayer, StoreFacts!MoveLayer

LEMMA SameCall ==
    ASSUME NEW c
    PROVE  /\ Store!Decode(c) <=> StoreFacts!Decode(c)
           /\ Store!Complete(c) <=> StoreFacts!Complete(c)
           /\ \A il, dev :
                 Store!MigrationFails(c, il, dev) <=> StoreFacts!MigrationFails(c, il, dev)
           /\ \A il, dev :
                 Store!MigrateLayer(c, il, dev) <=> StoreFacts!MigrateLayer(c, il, dev)
<1> USE DEF Store!modelVars, StoreFacts!modelVars, Store!Synchronized, StoreFacts!Synchronized
<1>1. Store!Decode(c) <=> StoreFacts!Decode(c)
  BY DEF Store!Decode, StoreFacts!Decode, Store!NoGraph, StoreFacts!NoGraph, Store!Layer,
     StoreFacts!Layer
<1>2. Store!Complete(c) <=> StoreFacts!Complete(c)
  BY DEF Store!Complete, StoreFacts!Complete
<1>3. ASSUME NEW il, NEW dev
      PROVE  Store!MigrationFails(c, il, dev) <=> StoreFacts!MigrationFails(c, il, dev)
  BY DEF Store!MigrationFails, StoreFacts!MigrationFails
<1>4. ASSUME NEW il, NEW dev
      PROVE  Store!MigrateLayer(c, il, dev) <=> StoreFacts!MigrateLayer(c, il, dev)
  BY SameMove, Zenon DEF Store!MigrateLayer, StoreFacts!MigrateLayer, Store!AlreadyThere,
     StoreFacts!AlreadyThere, Store!DropGraph, StoreFacts!DropGraph, Store!NoGraph,
     StoreFacts!NoGraph
<1> QED
  BY <1>1, <1>2, <1>3, <1>4

LEMMA SameStore == Store!Spec => StoreFacts!Spec
<1>1. Store!Init => StoreFacts!Init
  BY DEF Store!Init, StoreFacts!Init, Store!LoadPlacement, StoreFacts!LoadPlacement,
     Store!LoadedSlots, StoreFacts!LoadedSlots, Store!LoadedEntry, StoreFacts!LoadedEntry,
     Store!Leader, StoreFacts!Leader, Store!OnDevice, StoreFacts!OnDevice, Store!OnHost,
     StoreFacts!OnHost, Store!Layer, StoreFacts!Layer, Store!Device, StoreFacts!Device,
     Store!NoGraph, StoreFacts!NoGraph
<1>2. [Store!Next]_(Store!vars) => [StoreFacts!Next]_(StoreFacts!vars)
  BY SameCall, Zenon DEF Store!Next, StoreFacts!Next, Store!vars, StoreFacts!vars,
     Store!modelVars, StoreFacts!modelVars, Store!contextVars, StoreFacts!contextVars,
     Store!Layer, StoreFacts!Layer, Store!Device, StoreFacts!Device
<1> QED
  BY <1>1, <1>2, PTL DEF Store!Spec, StoreFacts!Spec

\* Others hold no more than the device has.
ForeignOK == foreign \in 0 .. Capacity

\* What the policy's view of the memory rests on.
MemoryInv ==
    /\ StoreFacts!TypeOK
    /\ StoreFacts!WeightsReachable
    /\ StoreFacts!EntriesAccounted
    /\ StoreFacts!BuffersFollowLayers
    /\ live_layer_buffers
    /\ ForeignOK

LEMMA BuffersStay ==
    [StoreFacts!Next]_(StoreFacts!vars) => UNCHANGED live_layer_buffers
BY StoreConstants, StoreFacts!ModelChanges DEF StoreFacts!modelVars, StoreFacts!MoveLayer

LEMMA ForeignType == ForeignOK /\ [Next]_vars => ForeignOK'
BY DEF ForeignOK, Next, Tick, Ticking, Decode, IdleTick, RefusedTick, Demotion, FailedDemotion,
   Promotion, FailedPromotion, ManualMigration, FailedManualMigration, Complete,
   VramChanges, HostChanges, vars

LEMMA MemoryTheorem == Spec => []MemoryInv
<1>0. Init => ForeignOK
  BY DEF Init, ForeignOK
<1>1. Init => live_layer_buffers
  BY DEF Init
<1>2. Spec => StoreFacts!Spec
  BY StoreRefinement, SameStore, PTL
<1>3. live_layer_buffers /\ UNCHANGED live_layer_buffers => live_layer_buffers'
  OBVIOUS
<1>4. Spec => []live_layer_buffers
  BY <1>1, <1>2, <1>3, BuffersStay, PTL DEF Spec, StoreFacts!Spec
<1>5. Spec => []ForeignOK
  BY <1>0, ForeignType, PTL DEF Spec
<1> QED
  BY <1>2, <1>4, <1>5, StoreConstants, StoreFacts!StoreTypeCorrect,
     StoreFacts!WeightsReachableTheorem, StoreFacts!AccountedTheorem,
     StoreFacts!FollowTheorem, PTL DEF MemoryInv

(* Whatever the policy and the application ask for, the weights stay          *)
(* reachable, device memory is given back, queued work reads no released      *)
(* buffer and no graph or reservation of another placement is used.           *)
THEOREM ContextTheorem ==
    Spec => [](/\ Store!WeightsReachable /\ Store!DeviceMemoryReleased
               /\ Store!NoReadOfReleasedBuffer /\ Store!GraphIsCurrent)
<1>1. StoreFacts!SingleContext
  BY DEF StoreFacts!SingleContext
<1>2. Spec => StoreFacts!Spec
  BY StoreRefinement, SameStore, PTL
<1>3. StoreFacts!Spec => []StoreFacts!NoReadOfReleasedBuffer
  BY <1>1, StoreConstants, StoreFacts!NoReadTheorem
<1>4. StoreFacts!Spec => []StoreFacts!GraphIsCurrent
  BY <1>1, StoreConstants, StoreFacts!GraphTheorem
<1>5. /\ StoreFacts!WeightsReachable => Store!WeightsReachable
      /\ StoreFacts!DeviceMemoryReleased => Store!DeviceMemoryReleased
      /\ StoreFacts!NoReadOfReleasedBuffer => Store!NoReadOfReleasedBuffer
      /\ StoreFacts!GraphIsCurrent => Store!GraphIsCurrent
  BY DEF StoreFacts!WeightsReachable, Store!WeightsReachable, StoreFacts!DeviceMemoryReleased,
     Store!DeviceMemoryReleased, StoreFacts!NoReadOfReleasedBuffer,
     Store!NoReadOfReleasedBuffer, StoreFacts!GraphIsCurrent, Store!GraphIsCurrent,
     StoreFacts!Layer, Store!Layer, StoreFacts!NoGraph, Store!NoGraph
<1> QED
  BY <1>2, <1>3, <1>4, <1>5, StoreConstants, StoreFacts!WeightsReachableTheorem,
     StoreFacts!ReleasedTheorem, PTL

-----------------------------------------------------------------------------
(* The device memory of the model, tensor by tensor.                       *)

\* What the buffers hold on the device, and what the layers have there.
Stored == {p \in LiveOnGpu \X Weight : p[2] \in ctxs_bufs[p[1]].tensors}
Owned == {p \in Layer \X Weight : p[2] \in TensorsOnGpu(p[1])}

LEMMA OwnedFacts ==
    /\ IsFiniteSet(Owned)
    /\ \A l \in Layer : IsFiniteSet(TensorsOnGpu(l))
    /\ IsFiniteSet(Layer)
<1>1. IsFiniteSet(Layer)
  BY ModelAssumption, FS_Interval DEF Layer, Store!Layer
<1>2. IsFiniteSet(Layer \X Weight)
  BY <1>1, ModelAssumption, FS_Product
<1>3. Owned \in SUBSET (Layer \X Weight)
  BY DEF Owned
<1>4. \A l \in Layer : TensorsOnGpu(l) \in SUBSET Weight
  BY DEF TensorsOnGpu, Store!LayerTensors
<1> QED
  BY <1>1, <1>2, <1>3, <1>4, ModelAssumption, FS_Subset

\* A tensor of a layer is in a live buffer that lists it, and no other layer is.
LEMMA Reached ==
    ASSUME MemoryInv, NEW l \in Layer, NEW w \in Weight, slots[l][w] # 0
    PROVE  /\ slots[l][w] \in 1 .. size
           /\ ctxs_bufs[slots[l][w]].live /\ ctxs_bufs[slots[l][w]].intact
           /\ w \in ctxs_bufs[slots[l][w]].tensors
           /\ \A m \in Layer : slots[m][w] = slots[l][w] => m = l
<1> USE DEF Layer, Store!Layer, StoreFacts!Layer
<1>1. slots[l][w] \in 0 .. size /\ size \in Nat
  BY DEF MemoryInv, StoreFacts!TypeOK
<1>2. slots[l][w] \in 1 .. size
  BY <1>1
<1>3. /\ ctxs_bufs[slots[l][w]].live /\ ctxs_bufs[slots[l][w]].intact
      /\ \A m \in Layer : slots[m][w] = slots[l][w] => m = l
  BY DEF MemoryInv, StoreFacts!WeightsReachable
<1>4. w \in ctxs_bufs[slots[l][w]].tensors
  BY <1>2, <1>3 DEF MemoryInv, StoreFacts!EntriesAccounted
<1> QED
  BY <1>2, <1>3, <1>4

\* From the tensors of the layers to the entries that hold them, one to one.
LEMMA OwnedIsStored == MemoryInv => VramAccounted
<1> SUFFICES ASSUME MemoryInv PROVE Cardinality(Stored) = Cardinality(Owned)
  BY DEF VramAccounted, ModelVram, Stored, Owned
<1> DEFINE f == [p \in Owned |-> <<slots[p[1]][p[2]], p[2]>>]
<1>1. ASSUME NEW p \in Owned
      PROVE  /\ p = <<p[1], p[2]>> /\ p[1] \in Layer /\ p[2] \in Weight
             /\ slots[p[1]][p[2]] # 0 /\ ctxs_bufs[slots[p[1]][p[2]]].dev = Gpu
             /\ f[p] \in Stored
  <2>1. /\ p = <<p[1], p[2]>> /\ p[1] \in Layer /\ p[2] \in Weight
        /\ slots[p[1]][p[2]] # 0 /\ ctxs_bufs[slots[p[1]][p[2]]].dev = Gpu
    BY DEF Owned, TensorsOnGpu, Store!LayerTensors
  <2>2. slots[p[1]][p[2]] \in LiveOnGpu /\ p[2] \in ctxs_bufs[slots[p[1]][p[2]]].tensors
    BY <2>1, Reached DEF LiveOnGpu
  <2> QED
    BY <2>1, <2>2 DEF Stored
<1>2. ASSUME NEW p \in Owned, NEW q \in Owned, f[p] = f[q] PROVE p = q
  <2>1. p[2] = q[2] /\ slots[p[1]][p[2]] = slots[q[1]][p[2]]
    BY <1>2
  <2>2. /\ p[1] \in Layer /\ q[1] \in Layer /\ p[2] \in Weight /\ slots[p[1]][p[2]] # 0
        /\ p = <<p[1], p[2]>> /\ q = <<q[1], q[2]>>
    BY <1>1
  <2>3. p[1] = q[1]
    BY <2>1, <2>2, Reached
  <2> QED
    BY <2>1, <2>2, <2>3
<1>3. ASSUME NEW s \in Stored PROVE \E p \in Owned : f[p] = s
  <2>1. /\ s = <<s[1], s[2]>> /\ s[1] \in 1 .. size /\ s[2] \in Weight
        /\ ctxs_bufs[s[1]].live /\ ctxs_bufs[s[1]].dev = Gpu
        /\ s[2] \in ctxs_bufs[s[1]].tensors
    BY DEF Stored, LiveOnGpu
  <2>2. PICK l \in Layer : slots[l][s[2]] = s[1]
    BY <2>1 DEF MemoryInv, StoreFacts!EntriesAccounted, Layer, Store!Layer, StoreFacts!Layer
  <2>3. <<l, s[2]>> \in Owned
    BY <2>1, <2>2 DEF Owned, TensorsOnGpu, Store!LayerTensors
  <2> QED
    BY <2>1, <2>2, <2>3
<1>4. f \in Bijection(Owned, Stored)
  BY <1>1, <1>2, <1>3 DEF Bijection, Injection, Surjection, IsInjective
<1> QED
  BY <1>4, OwnedFacts, FS_Bijection DEF ExistsBijection

(* No byte of device memory is held that is not a tensor of a layer there,   *)
(* and none is counted twice: what the policy reads as free is right.        *)
THEOREM VramTheorem == Spec => []VramAccounted
BY MemoryTheorem, OwnedIsStored, PTL


-----------------------------------------------------------------------------
(* What a migration does to the memory the policy sees.                    *)

\* Nothing moved: the policy sees no change.
LEMMA NothingMoved ==
    ASSUME UNCHANGED <<size, ctxs_bufs, slots, foreign>>
    PROVE  UNCHANGED <<Held, FreeVram>>
BY DEF Held, FreeVram, ModelVram, LiveOnGpu, TensorsOnGpu, Store!LayerTensors

\* The layers that stay keep what they have on the device; the one that moves
\* takes all its tensors there, or leaves none.
LEMMA MovedTensors ==
    ASSUME MemoryInv, MemoryInv', NEW il \in Layer, NEW dev \in Device,
           Store!MoveLayer(il, dev)
    PROVE  /\ \A l \in Layer \ {il} : TensorsOnGpu(l)' = TensorsOnGpu(l)
           /\ TensorsOnGpu(il)' = IF dev = Gpu /\ il \notin Bufferless THEN Weight ELSE {}
<1> USE DEF Layer, Store!Layer, StoreFacts!Layer
<1>1. /\ size \in Nat /\ size' = size + 1
      /\ slots \in [Layer -> [Weight -> 0 .. size]]
      /\ ctxs_bufs'[size + 1].dev = dev
      /\ \A e \in 1 .. size : e \notin layer_ctxs[il] => ctxs_bufs'[e] = ctxs_bufs[e]
  BY DEF MemoryInv, StoreFacts!TypeOK, Store!MoveLayer, Store!Released
<1>2. \A l \in Layer, w \in Weight :
         slots'[l][w] = IF l = il /\ slots[l][w] # 0 THEN size + 1 ELSE slots[l][w]
  BY <1>1 DEF Store!MoveLayer, Store!Replaced
<1>3. ASSUME NEW l \in Layer \ {il} PROVE TensorsOnGpu(l)' = TensorsOnGpu(l)
  <2>1. ASSUME NEW w \in Weight, slots[l][w] # 0
        PROVE  ctxs_bufs'[slots[l][w]] = ctxs_bufs[slots[l][w]]
    <3>1. slots[l][w] \in 1 .. size
      BY <2>1, Reached
    <3>2. slots[l][w] \notin layer_ctxs[il]
      BY <2>1 DEF MemoryInv, StoreFacts!WeightsReachable
    <3> QED
      BY <1>1, <3>1, <3>2
  <2>2. \A w \in Weight : slots'[l][w] = slots[l][w]
    BY <1>2
  <2> QED
    BY <2>1, <2>2 DEF TensorsOnGpu, Store!LayerTensors
<1>4. \A w \in Weight : slots[il][w] = 0 <=> il \in Bufferless
  BY DEF MemoryInv, StoreFacts!BuffersFollowLayers
<1>5. \A w \in Weight : slots'[il][w] = IF il \in Bufferless THEN 0 ELSE size + 1
  BY <1>2, <1>4
<1>6. TensorsOnGpu(il)' = IF dev = Gpu /\ il \notin Bufferless THEN Weight ELSE {}
  BY <1>1, <1>5 DEF TensorsOnGpu, Store!LayerTensors
<1> QED
  BY <1>3, <1>6

\* A tensor is counted with its layer.
OwnedByOthers(il) == {p \in Owned : p[1] # il}

LEMMA CountByLayer ==
    \A il \in Layer :
        /\ Cardinality(OwnedByOthers(il)) \in Nat
        /\ Cardinality(TensorsOnGpu(il)) \in Nat
        /\ Cardinality(Owned)
           = Cardinality(OwnedByOthers(il)) + Cardinality(TensorsOnGpu(il))
<1> TAKE il \in Layer
<1> DEFINE others == OwnedByOthers(il)
           mine == {il} \X TensorsOnGpu(il)
<1>1. Owned = others \cup mine /\ others \cap mine = {}
  BY DEF Owned, OwnedByOthers, TensorsOnGpu, Store!LayerTensors
<1>2. IsFiniteSet(others) /\ IsFiniteSet(TensorsOnGpu(il))
  BY OwnedFacts, FS_Subset DEF OwnedByOthers
<1>3. /\ IsFiniteSet(mine)
      /\ Cardinality(mine) = Cardinality({il}) * Cardinality(TensorsOnGpu(il))
      /\ Cardinality({il}) = 1
  BY <1>2, FS_Product, FS_Singleton
<1>4. /\ Cardinality(TensorsOnGpu(il)) \in Nat /\ Cardinality(others) \in Nat
      /\ Cardinality(others \cap mine) = 0
  BY <1>1, <1>2, FS_CardinalityType, FS_EmptySet
<1>5. Cardinality(Owned)
      = Cardinality(others) + Cardinality(mine) - Cardinality(others \cap mine)
  BY <1>1, <1>2, <1>3, FS_Union
<1> HIDE DEF others, mine
<1>6. Cardinality(Owned) = Cardinality(others) + Cardinality(TensorsOnGpu(il))
  BY <1>3, <1>4, <1>5
<1> QED
  BY <1>4, <1>6 DEF others

\* The model's memory on the device, before and after.
LEMMA ModelVramByLayer ==
    ASSUME NEW il \in Layer
    PROVE  MemoryInv => ModelVram = Cardinality(OwnedByOthers(il)) + Held[il]
BY OwnedIsStored, CountByLayer DEF VramAccounted, Owned, Held

\* A layer that moves gives back what it held on the device and takes its full
\* size when that is where it goes, as the policy assumes.
LEMMA MoveIsPlaced ==
    ASSUME MemoryInv, MemoryInv', UNCHANGED foreign, NEW il \in Layer, NEW dev \in Device,
           Store!MoveLayer(il, dev)
    PROVE  Policy!Placed(il, dev)
<1> DEFINE gains == IF dev = Gpu THEN LayerSize[il] ELSE 0
<1>1. /\ dev_layer[il] # dev
      /\ dev_layer' = [dev_layer EXCEPT ![il] = dev]
  BY DEF Store!MoveLayer
<1>2. Policy!HeldAfter(il, dev) = gains
  BY <1>1 DEF Policy!HeldAfter
<1>3. /\ \A l \in Layer \ {il} : TensorsOnGpu(l)' = TensorsOnGpu(l)
      /\ TensorsOnGpu(il)' = IF dev = Gpu /\ il \notin Bufferless THEN Weight ELSE {}
  BY MovedTensors
<1>4. Cardinality(TensorsOnGpu(il)') = gains
  BY <1>3, FS_EmptySet DEF LayerSize
<1>5. Held' = [Held EXCEPT ![il] = gains]
  BY <1>3, <1>4 DEF Held
<1>6. FreeVram' = FreeVram + Held[il] - gains
  <2>1. ModelVram = Cardinality(OwnedByOthers(il)) + Held[il]
    BY ModelVramByLayer
  <2>2. ModelVram' = Cardinality(OwnedByOthers(il)') + Held'[il]
    <3>1. (MemoryInv => ModelVram = Cardinality(OwnedByOthers(il)) + Held[il])'
      BY ModelVramByLayer, PTL
    <3> QED
      BY <3>1
  <2>3. OwnedByOthers(il)' = OwnedByOthers(il)
    <3>1. Owned' \subseteq Layer \X Weight /\ Owned \subseteq Layer \X Weight
      BY DEF Owned
    <3>2. \A p \in Layer \X Weight : p[1] # il => (p \in Owned' <=> p \in Owned)
      BY <1>3 DEF Owned
    <3> QED
      BY <3>1, <3>2 DEF OwnedByOthers
  <2>4. Held'[il] = gains
    BY <1>4 DEF Held
  <2>5. Cardinality(OwnedByOthers(il)) \in Nat /\ Held[il] \in Nat /\ gains \in Nat
    BY CountByLayer, ModelAssumption, FS_CardinalityType DEF Held, LayerSize
  <2> HIDE DEF gains
  <2> QED
    BY <2>1, <2>2, <2>3, <2>4, <2>5, SettingAssumption DEF FreeVram, MemoryInv, ForeignOK
<1> HIDE DEF gains
<1> QED
  BY <1>1, <1>2, <1>5, <1>6 DEF Policy!Placed, Policy!VramAfter


\* A call of live_migrate_layer() that succeeds is a placement for the policy.
LEMMA CallIsPlaced ==
    ASSUME MemoryInv, MemoryInv', UNCHANGED foreign, NEW il \in Layer, NEW dev \in Device,
           Store!MigrateLayer(ctx, il, dev)
    PROVE  Policy!Placed(il, dev)
<1>1. CASE Store!MoveLayer(il, dev)
  BY <1>1, MoveIsPlaced
<1>2. CASE Store!AlreadyThere(il, dev)
  <2>1. /\ dev_layer[il] = dev
        /\ UNCHANGED <<size, ctxs_bufs, slots, dev_layer>>
        /\ UNCHANGED <<Held, FreeVram>>
    BY <1>2, NothingMoved DEF Store!AlreadyThere, Store!modelVars
  <2>2. dev_layer \in [Layer -> Device] /\ Held = [Held EXCEPT ![il] = Held[il]]
    BY DEF MemoryInv, StoreFacts!TypeOK, StoreFacts!Layer, StoreFacts!Device, Layer, Device,
       Store!Layer, Store!Device, Held
  <2>3. FreeVram \in Int /\ Held[il] \in Int
    BY ModelVramByLayer, CountByLayer, SettingAssumption DEF FreeVram, MemoryInv, ForeignOK,
       Held
  <2> QED
    BY <2>1, <2>2, <2>3 DEF Policy!Placed, Policy!HeldAfter, Policy!VramAfter
<1> QED
  BY <1>1, <1>2 DEF Store!MigrateLayer

\* A step that leaves the memory and the policy alone.
LEMMA PolicyStutters ==
    ASSUME UNCHANGED <<size, ctxs_bufs, slots, dev_layer, foreign, policyVars>>
    PROVE  UNCHANGED Policy!vars
BY NothingMoved DEF policyVars, Policy!vars, Policy!policyVars, Policy!hostVars,
   Policy!historyVars

LEMMA PolicyStep ==
    MemoryInv /\ MemoryInv' /\ StackInv /\ [Next]_vars => [Policy!Next]_(Policy!vars)
<1> SUFFICES ASSUME MemoryInv, MemoryInv', StackInv, [Next]_vars
             PROVE  [Policy!Next]_(Policy!vars)
  OBVIOUS
<1>0. /\ Cpu \in Device /\ Gpu \in Device
      /\ Layer = Policy!Layer /\ Device = Policy!Device
  BY DEF Device, Store!Device, Policy!Device, Layer, Store!Layer, Policy!Layer
<1> USE DEF Policy!Next, Policy!Tick
<1>1. CASE IdleTick
  BY <1>1 DEF IdleTick
<1>2. CASE RefusedTick
  BY <1>2 DEF RefusedTick
<1>3. ASSUME NEW il \in Layer, NEW slow \in BOOLEAN, Demotion(il, slow)
      PROVE  Policy!DemoteTick
  BY <1>0, <1>3, CallIsPlaced DEF Demotion, Ticking, Policy!DemoteTick, Policy!Demote
<1>4. ASSUME NEW il \in Layer, FailedDemotion(il) PROVE Policy!PressureTick
  BY <1>4 DEF FailedDemotion
<1>5. ASSUME NEW slow \in BOOLEAN, Promotion(slow) PROVE Policy!PromoteTick
  <2>1. Policy!Top \in Layer
    BY <1>5, TopIsLayer DEF Promotion
  <2>2. Policy!Placed(Policy!Top, Gpu)
    BY <1>0, <1>5, <2>1, CallIsPlaced DEF Promotion, Ticking
  <2> QED
    BY <1>5, <2>2 DEF Promotion, Policy!PromoteTick, Policy!Promote
<1>6. CASE FailedPromotion
  BY <1>6 DEF FailedPromotion
<1>7. ASSUME NEW il \in Layer, NEW dev \in Device, NEW slow \in BOOLEAN,
             ManualMigration(il, dev, slow)
      PROVE  Policy!Manual
  BY <1>0, <1>7, CallIsPlaced DEF ManualMigration, Policy!Manual, Policy!ManualMigrate
<1>8. CASE VramChanges \/ HostChanges
  BY <1>8 DEF VramChanges, HostChanges
<1>9. CASE Decode \/ Complete \/ UNCHANGED vars
           \/ \E il \in Layer, dev \in Device : FailedManualMigration(il, dev)
  BY <1>9, PolicyStutters DEF Decode, Complete, FailedManualMigration, vars, storeVars,
     Store!Decode, Store!Complete, Store!MigrationFails, Store!modelVars
<1> QED
  BY <1>1, <1>2, <1>3, <1>4, <1>5, <1>6, <1>7, <1>8, <1>9 DEF Next, Tick

(* Decoding with layer buffers implements the policy: its decisions are taken *)
(* on the memory that the buffers really hold, and a migration changes that   *)
(* memory as the policy assumes.                                              *)
THEOREM PolicyRefinement == Spec => PolicySpec
<1>1. Init => Policy!Init
  BY DEF Init
<1> QED
  BY <1>1, StackTheorem, PolicyStep, MemoryTheorem, PTL DEF Spec, PolicySpec, Policy!Spec


-----------------------------------------------------------------------------
(* What is proved of MigrationPolicy, for the policy of this module.       *)

LEMMA PolicyConstants ==
    /\ PolicyFacts!LayerAssumption
    /\ PolicyFacts!DeviceAssumption
    /\ PolicyFacts!SettingAssumption
<1>1. \A l \in Layer : LayerSize[l] \in Nat
  BY ModelAssumption, FS_CardinalityType DEF LayerSize
<1> QED
  BY <1>1, ModelAssumption, SettingAssumption DEF PolicyFacts!LayerAssumption,
     PolicyFacts!DeviceAssumption, PolicyFacts!SettingAssumption, PolicyFacts!Layer, Layer,
     Store!Layer, LayerSize

LEMMA SamePlaced ==
    ASSUME NEW il, NEW dev
    PROVE  /\ Policy!Placed(il, dev) <=> PolicyFacts!Placed(il, dev)
           /\ \A slow : Policy!Timed(il, dev, slow) <=> PolicyFacts!Timed(il, dev, slow)
BY DEF Policy!Placed, PolicyFacts!Placed, Policy!Timed, PolicyFacts!Timed,
   Policy!CanMigrate, PolicyFacts!CanMigrate, Policy!VramAfter, PolicyFacts!VramAfter,
   Policy!HeldAfter, PolicyFacts!HeldAfter

LEMMA SameObserve ==
    /\ Policy!Ready <=> PolicyFacts!Ready
    /\ Policy!NoAutoMove <=> PolicyFacts!NoAutoMove
    /\ \A slow : Policy!CountTick(slow) <=> PolicyFacts!CountTick(slow)
    /\ Policy!CanPromote <=> PolicyFacts!CanPromote
    /\ Policy!Top = PolicyFacts!Top
BY DEF Policy!Ready, PolicyFacts!Ready, Policy!Observe, PolicyFacts!Observe, Policy!Cooling,
   PolicyFacts!Cooling, Policy!Due, PolicyFacts!Due, Policy!CountDecode,
   PolicyFacts!CountDecode, Policy!Sample, PolicyFacts!Sample, Policy!hostVars,
   PolicyFacts!hostVars, Policy!NoAutoMove, PolicyFacts!NoAutoMove, Policy!CountTick,
   PolicyFacts!CountTick, Policy!Min2, PolicyFacts!Min2, Policy!CanPromote,
   PolicyFacts!CanPromote, Policy!RestoreFree, PolicyFacts!RestoreFree, Policy!Top,
   PolicyFacts!Top

LEMMA SameTick ==
    /\ Policy!OffTick <=> PolicyFacts!OffTick
    /\ Policy!BlindTick <=> PolicyFacts!BlindTick
    /\ Policy!CoolingTick <=> PolicyFacts!CoolingTick
    /\ Policy!PressureTick <=> PolicyFacts!PressureTick
    /\ Policy!CalmTick <=> PolicyFacts!CalmTick
BY SameObserve DEF Policy!OffTick, PolicyFacts!OffTick, Policy!BlindTick,
   PolicyFacts!BlindTick, Policy!CoolingTick, PolicyFacts!CoolingTick, Policy!PressureTick,
   PolicyFacts!PressureTick, Policy!CalmTick, PolicyFacts!CalmTick, Policy!Observe,
   PolicyFacts!Observe, Policy!Cooling, PolicyFacts!Cooling, Policy!Due, PolicyFacts!Due,
   Policy!CountDecode, PolicyFacts!CountDecode, Policy!Sample, PolicyFacts!Sample,
   Policy!hostVars, PolicyFacts!hostVars, Policy!historyVars, PolicyFacts!historyVars

LEMMA SameAutoMove ==
    /\ Policy!DemoteTick <=> PolicyFacts!DemoteTick
    /\ Policy!PromoteTick <=> PolicyFacts!PromoteTick
<1>1. \A il : Policy!IsVictim(il) <=> PolicyFacts!IsVictim(il)
  BY DEF Policy!IsVictim, PolicyFacts!IsVictim, Policy!Attempt, PolicyFacts!Attempt,
     Policy!Cursor, PolicyFacts!Cursor, Policy!Layer, PolicyFacts!Layer
<1>2. ASSUME NEW il, NEW slow
      PROVE  Policy!Demote(il, slow) <=> PolicyFacts!Demote(il, slow)
  BY <1>1, SamePlaced, SameObserve DEF Policy!Demote, PolicyFacts!Demote,
     Policy!DemoteDecision, PolicyFacts!DemoteDecision, Policy!CpuBusy, PolicyFacts!CpuBusy,
     Policy!CursorBelow, PolicyFacts!CursorBelow
<1>3. ASSUME NEW slow PROVE Policy!Promote(slow) <=> PolicyFacts!Promote(slow)
  BY SamePlaced, SameObserve DEF Policy!Promote, PolicyFacts!Promote,
     Policy!PromoteDecision, PolicyFacts!PromoteDecision, Policy!PopTop, PolicyFacts!PopTop,
     Policy!CursorBelow, PolicyFacts!CursorBelow
<1> QED
  BY <1>2, <1>3 DEF Policy!DemoteTick, PolicyFacts!DemoteTick, Policy!PromoteTick,
     PolicyFacts!PromoteTick, Policy!Layer, PolicyFacts!Layer

LEMMA SameSurroundings ==
    /\ Policy!Manual <=> PolicyFacts!Manual
    /\ Policy!VramChanges <=> PolicyFacts!VramChanges
    /\ Policy!HostChanges <=> PolicyFacts!HostChanges
<1>1. ASSUME NEW il, NEW dev, NEW slow
      PROVE  Policy!ManualMigrate(il, dev, slow) <=> PolicyFacts!ManualMigrate(il, dev, slow)
  BY SamePlaced DEF Policy!ManualMigrate, PolicyFacts!ManualMigrate, Policy!ManualDecision,
     PolicyFacts!ManualDecision, Policy!hostVars, PolicyFacts!hostVars
<1> QED
  BY <1>1 DEF Policy!Manual, PolicyFacts!Manual, Policy!VramChanges,
     PolicyFacts!VramChanges, Policy!HostChanges, PolicyFacts!HostChanges, Policy!Layer,
     PolicyFacts!Layer, Policy!Device, PolicyFacts!Device, Policy!policyVars,
     PolicyFacts!policyVars, Policy!hostVars, PolicyFacts!hostVars, Policy!historyVars,
     PolicyFacts!historyVars

LEMMA SamePolicy == Policy!Spec => PolicyFacts!Spec
<1>1. Policy!Init => PolicyFacts!Init
  BY DEF Policy!Init, PolicyFacts!Init, Policy!Layer, PolicyFacts!Layer, Policy!Holdings,
     PolicyFacts!Holdings, Policy!NoMove, PolicyFacts!NoMove
<1>2. [Policy!Next]_(Policy!vars) => [PolicyFacts!Next]_(PolicyFacts!vars)
  BY SameTick, SameAutoMove, SameSurroundings DEF Policy!Next, PolicyFacts!Next,
     Policy!Tick, PolicyFacts!Tick, Policy!vars, PolicyFacts!vars, Policy!policyVars,
     PolicyFacts!policyVars, Policy!hostVars, PolicyFacts!hostVars, Policy!historyVars,
     PolicyFacts!historyVars
<1> QED
  BY <1>1, <1>2, PTL DEF Policy!Spec, PolicyFacts!Spec

LEMMA PolicyHolds == Spec => PolicyFacts!Spec
BY PolicyRefinement, SamePolicy, PTL DEF PolicySpec

LEMMA SamePolicyVars == UNCHANGED Policy!vars <=> UNCHANGED PolicyFacts!vars
BY DEF Policy!vars, PolicyFacts!vars, Policy!policyVars, PolicyFacts!policyVars,
   Policy!hostVars, PolicyFacts!hostVars, Policy!historyVars, PolicyFacts!historyVars

LEMMA SamePromises ==
    /\ PolicyFacts!CooldownRespected => Policy!CooldownRespected
    /\ PolicyFacts!RotatesVictims => Policy!RotatesVictims
    /\ PolicyFacts!NoBounce => Policy!NoBounce
<1> DEFINE Rested == demoted_layers' # demoted_layers => ticks_since_slow = CooldownDecodes
           Rotates(Layers) == \A l \in Layers :
                        /\ last_auto = [dir |-> "promote", layer |-> l]
                        /\ last_auto' = [dir |-> "demote", layer |-> l]
                        => \A k \in Layers \ {l} : dev_layer[k] # Gpu
<1>1. [Rested]_(PolicyFacts!vars) => [Rested]_(Policy!vars)
  BY SamePolicyVars
<1>2. [Rotates(PolicyFacts!Layer)]_(PolicyFacts!vars) => [Rotates(Policy!Layer)]_(Policy!vars)
  BY SamePolicyVars DEF Policy!Layer, PolicyFacts!Layer
<1>3. [quiet => ~PolicyFacts!Reverses]_(PolicyFacts!vars) => [quiet => ~Policy!Reverses]_(Policy!vars)
  BY SamePolicyVars DEF Policy!Reverses, PolicyFacts!Reverses
<1>4. PolicyFacts!CooldownRespected => Policy!CooldownRespected
  BY <1>1, PTL DEF Policy!CooldownRespected, PolicyFacts!CooldownRespected
<1>5. PolicyFacts!RotatesVictims => Policy!RotatesVictims
  BY <1>2, PTL DEF Policy!RotatesVictims, PolicyFacts!RotatesVictims
<1>6. PolicyFacts!NoBounce => Policy!NoBounce
  BY <1>3, PTL DEF Policy!NoBounce, PolicyFacts!NoBounce
<1> QED BY <1>4, <1>5, <1>6

(* The policy keeps its promises on real memory too: it sits out the cooldown *)
(* after a slow copy, rotates its victims, and knows where each layer is that *)
(* the application leaves alone (live_migration_tick()).                      *)
THEOREM DecisionTheorem ==
    Spec => Policy!CooldownRespected /\ Policy!RotatesVictims /\ []UntouchedIsHomeOrParked
<1>1. PolicyFacts!UntouchedIsHomeOrParked => UntouchedIsHomeOrParked
  BY DEF UntouchedIsHomeOrParked, Policy!UntouchedIsHomeOrParked, PolicyFacts!UntouchedIsHomeOrParked, Policy!Layer,
     PolicyFacts!Layer, Policy!Demoted, PolicyFacts!Demoted
<1> QED
  BY <1>1, PolicyHolds, SamePromises, PolicyConstants, PolicyFacts!CooldownTheorem,
     PolicyFacts!RotationTheorem, PolicyFacts!ParkedTheorem, PTL

(* When the gap between the thresholds is larger than any layer (its weights  *)
(* take one unit each), the policy does not undo its own last move while      *)
(* nobody else moves VRAM: what a migration really frees and takes is what    *)
(* the hysteresis of live_migration_tick() counts on.                         *)
THEOREM BounceTheorem ==
    ASSUME Policy!HysteresisCoversLayers
    PROVE  Spec => Policy!NoBounce
<1>1. PolicyFacts!HysteresisCoversLayers
  BY DEF Policy!HysteresisCoversLayers, PolicyFacts!HysteresisCoversLayers, Policy!Layer,
     PolicyFacts!Layer, Policy!RestoreFree, PolicyFacts!RestoreFree
<1>2. PolicyFacts!Spec => PolicyFacts!NoBounce
  BY <1>1, PolicyConstants, PolicyFacts!HysteresisTheorem
<1> QED BY <1>2, PolicyHolds, SamePromises, PTL

(* While the application leaves a layer alone, every weight of it is readable,*)
(* intact and in host memory as long as it is on the policy's stack.          *)
THEOREM ParkedMemoryTheorem == Spec => []ParkedInHostMemory
<1>1. MemoryInv /\ PolicyFacts!UntouchedIsHomeOrParked /\ StackInv => ParkedInHostMemory
  <2> SUFFICES ASSUME MemoryInv, PolicyFacts!UntouchedIsHomeOrParked, StackInv,
                      NEW l \in Policy!Demoted \ touched
               PROVE  /\ Held[l] = 0
                      /\ \A w \in Store!LayerTensors(l) :
                            /\ ctxs_bufs[slots[l][w]].live
                            /\ ctxs_bufs[slots[l][w]].intact
                            /\ ctxs_bufs[slots[l][w]].dev = Cpu
    BY DEF ParkedInHostMemory
  <2>1. l \in Layer
    BY DEF StackInv, Policy!Demoted
  <2>2. dev_layer[l] = Cpu
    BY <2>1 DEF PolicyFacts!UntouchedIsHomeOrParked, PolicyFacts!Layer, PolicyFacts!Demoted,
       Policy!Demoted, Layer, Store!Layer
  <2>3. ASSUME NEW w \in Store!LayerTensors(l)
        PROVE  /\ ctxs_bufs[slots[l][w]].live /\ ctxs_bufs[slots[l][w]].intact
               /\ ctxs_bufs[slots[l][w]].dev = Cpu
    <3>1. w \in Weight /\ slots[l][w] # 0
      BY DEF Store!LayerTensors
    <3>2. ctxs_bufs[slots[l][w]].dev \in {dev_layer[l], Cpu}
      BY <2>1, <3>1 DEF MemoryInv, StoreFacts!BuffersFollowLayers, StoreFacts!Layer, Layer,
         Store!Layer
    <3> QED
      BY <2>1, <2>2, <3>1, <3>2, Reached
  <2>4. TensorsOnGpu(l) = {}
    BY <2>3, ModelAssumption DEF TensorsOnGpu
  <2>5. Held[l] = 0
    BY <2>1, <2>4, FS_EmptySet DEF Held
  <2> QED
    BY <2>3, <2>5
<1> QED
  BY <1>1, StackTheorem, MemoryTheorem, PolicyHolds, PolicyConstants, PolicyFacts!ParkedTheorem, PTL

================================================================================
