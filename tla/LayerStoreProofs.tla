---------------------------- MODULE LayerStoreProofs ----------------------------
(* Safety of a layer migration's memory side, for any number of layers,    *)
(* weights and devices.                                                    *)
EXTENDS LayerStore, TLAPS

USE StoreAssumption DEF Layer

-----------------------------------------------------------------------------
(* The state as loaded.                                                    *)

\* A loaded tensor is in one of two entries of the leader of its layer.
LEMMA LoadedIn ==
    ASSUME Init, NEW l \in Layer, NEW w \in Weight, slots[l][w] # 0
    PROVE  \E m \in Layer : /\ slots[l][w] \in {OnDevice(m), OnHost(m)}
                            /\ live_layer_buffers => m = l
<1>1. PICK kept \in [Layer -> SUBSET Weight] : slots = LoadedSlots(kept)
  BY DEF Init
<1>2. /\ 0 \in Layer /\ Leader(l) \in Layer
      /\ live_layer_buffers => Leader(l) = l
  BY DEF Leader
<1>3. \/ slots[l][w] = OnDevice(Leader(l))
      \/ slots[l][w] = OnHost(IF live_layer_buffers THEN l ELSE 0)
  BY <1>1 DEF LoadedSlots
<1> QED
  BY <1>2, <1>3

\* Different layers have different entries.
LEMMA EntriesApart ==
    ASSUME NEW l \in Layer, NEW m \in Layer
    PROVE  /\ OnDevice(l) \in 1 .. 2 * NLayer /\ OnHost(l) \in 1 .. 2 * NLayer
           /\ OnDevice(l) # OnHost(m)
           /\ OnDevice(l) = OnDevice(m) => l = m
           /\ OnHost(l) = OnHost(m) => l = m
BY DEF OnDevice, OnHost

LEMMA LoadedSlotType ==
    ASSUME Init PROVE slots \in [Layer -> [Weight -> 0 .. 2 * NLayer]]
<1>1. PICK kept \in [Layer -> SUBSET Weight] : slots = LoadedSlots(kept)
  BY DEF Init
<1>2. slots = [l \in Layer |-> [w \in Weight |-> slots[l][w]]]
  BY <1>1 DEF LoadedSlots
<1>3. ASSUME NEW l \in Layer, NEW w \in Weight PROVE slots[l][w] \in 0 .. 2 * NLayer
  <2>1. CASE slots[l][w] = 0
    BY <2>1
  <2>2. CASE slots[l][w] # 0
    <3>1. PICK m \in Layer : slots[l][w] \in {OnDevice(m), OnHost(m)}
      BY <2>2, LoadedIn
    <3>2. slots[l][w] \in 1 .. 2 * NLayer
      BY <3>1, EntriesApart
    <3> QED
      BY <3>2
  <2> QED
    BY <2>1, <2>2
<1> QED
  BY <1>2, <1>3

LEMMA InitType == Init => TypeOK
<1> SUFFICES ASSUME Init PROVE TypeOK
  OBVIOUS
<1>1. size = 2 * NLayer /\ size \in Nat
  BY DEF Init
<1>2. slots \in [Layer -> [Weight -> 0 .. size]]
  BY <1>1, LoadedSlotType
<1>3. dev_layer \in [Layer -> Device]
  BY DEF Init, LoadPlacement
<1>4. ASSUME NEW e \in 1 .. size PROVE LoadedEntry(e) \in Entry
  BY <1>3 DEF LoadedEntry, Entry, Device
<1>5. ctxs_bufs \in [1 .. size -> Entry]
  BY <1>1, <1>4 DEF Init
<1>6. layer_ctxs \in [Layer -> SUBSET (1 .. size)]
  <2>1. \A l \in Layer : {slots[l][w] : w \in Weight} \ {0} \subseteq 1 .. size
    BY <1>1, <1>2
  <2> QED
    BY <2>1 DEF Init
<1> QED
  BY <1>1, <1>2, <1>3, <1>5, <1>6 DEF Init, TypeOK

LEMMA InitReachable == Init => WeightsReachable
<1> SUFFICES ASSUME Init, NEW l \in Layer, NEW w \in Weight, slots[l][w] # 0
             PROVE  /\ ctxs_bufs[slots[l][w]].live
                    /\ ctxs_bufs[slots[l][w]].intact
                    /\ live_layer_buffers => slots[l][w] \in layer_ctxs[l]
                    /\ \A m \in Layer \ {l} : slots[l][w] \notin layer_ctxs[m]
  BY DEF Init, WeightsReachable
<1>1. slots[l][w] \in 1 .. 2 * NLayer
  BY LoadedSlotType
<1>2. ctxs_bufs[slots[l][w]].live /\ ctxs_bufs[slots[l][w]].intact
  BY <1>1 DEF Init, LoadedEntry
<1>3. live_layer_buffers => slots[l][w] \in layer_ctxs[l]
  BY DEF Init
<1>4. ASSUME NEW m \in Layer \ {l}, slots[l][w] \in layer_ctxs[m] PROVE FALSE
  <2>1. live_layer_buffers /\ \E v \in Weight : slots[m][v] = slots[l][w]
    BY <1>4 DEF Init
  <2> QED
    BY <2>1, LoadedIn, EntriesApart
<1> QED
  BY <1>2, <1>3, <1>4

LEMMA InitReleased == Init => DeviceMemoryReleased
<1> SUFFICES ASSUME Init, NEW e \in 1 .. size, live_layer_buffers,
                    ctxs_bufs[e].live, ctxs_bufs[e].dev \in Gpus
             PROVE  \E l \in Layer : e \in layer_ctxs[l] /\ dev_layer[l] = ctxs_bufs[e].dev
  BY DEF DeviceMemoryReleased
<1>1. ctxs_bufs[e] = LoadedEntry(e)
  BY DEF Init
<1>2. \E l \in Layer : e = OnDevice(l) /\ dev_layer[l] = ctxs_bufs[e].dev
  <2> DEFINE owner == CHOOSE l \in Layer : e = OnDevice(l)
  <2>1. ctxs_bufs[e].dev = IF \E l \in Layer : e = OnDevice(l) THEN dev_layer[owner] ELSE Cpu
    BY <1>1 DEF LoadedEntry
  <2>2. \E l \in Layer : e = OnDevice(l)
    BY <2>1
  <2>3. owner \in Layer /\ e = OnDevice(owner)
    BY <2>2
  <2> QED
    BY <2>1, <2>2, <2>3
<1> PICK l \in Layer : e = OnDevice(l) /\ dev_layer[l] = ctxs_bufs[e].dev
  BY <1>2
<1>3. PICK m \in Layer, w \in Weight : slots[m][w] = e
  <2> DEFINE tensors == {w \in Weight : \E m \in Layer : slots[m][w] = e}
  <2>1. LoadedEntry(e).live = (tensors # {})
    BY DEF LoadedEntry
  <2>2. tensors # {}
    BY <1>1, <2>1
  <2> QED
    BY <2>2
<1>4. m = l
  <2>1. slots[m][w] # 0
    BY <1>3, EntriesApart
  <2>2. e \in {OnDevice(m), OnHost(m)}
    BY <1>3, <2>1, LoadedIn
  <2> QED
    BY <2>2 DEF OnDevice, OnHost
<1>5. layer_ctxs[l] = {slots[l][v] : v \in Weight} \ {0}
  BY DEF Init
<1>6. e # 0
  BY EntriesApart
<1>7. e \in layer_ctxs[l]
  BY <1>3, <1>4, <1>5, <1>6
<1> QED
  BY <1>7

-----------------------------------------------------------------------------
(* One migration.                                                          *)

LEMMA MoveType ==
    ASSUME TypeOK, NEW il \in Layer, NEW dev \in Device, MoveLayer(il, dev)
    PROVE  /\ size' \in Nat /\ live_layer_buffers' \in BOOLEAN
           /\ size' = size + 1
           /\ ctxs_bufs' \in [1 .. size' -> Entry]
           /\ layer_ctxs' \in [Layer -> SUBSET (1 .. size')]
           /\ slots' \in [Layer -> [Weight -> 0 .. size']]
           /\ tensors_by_name' \in [Layer -> [Weight -> 0 .. size']]
           /\ dev_layer' \in [Layer -> Device]
<1> USE DEF MoveLayer, Released, Owning
<1>1. size' = size + 1 /\ size' \in Nat /\ live_layer_buffers' \in BOOLEAN
  BY DEF TypeOK
<1>2. 0 .. size \subseteq 0 .. size' /\ 1 .. size \subseteq 1 .. size' /\ size' \in 1 .. size'
  BY <1>1 DEF TypeOK
<1>3. ctxs_bufs' \in [1 .. size' -> Entry]
  <2>1. \A e \in 1 .. size' : e # size' => ctxs_bufs[e] \in Entry
    BY <1>1 DEF TypeOK
  <2>2. CopyIntact(il) \in BOOLEAN /\ LayerTensors(il) \subseteq Weight
    BY DEF CopyIntact, LayerTensors
  <2>3. \A x \in Entry : Cleared(x) \in Entry
    BY DEF Entry, Cleared
  <2>4. [live |-> TRUE, dev |-> dev, tensors |-> LayerTensors(il),
         intact |-> CopyIntact(il)] \in Entry
    BY <2>2 DEF Entry
  <2> QED
    BY <1>1, <2>1, <2>3, <2>4
<1>4. layer_ctxs' \in [Layer -> SUBSET (1 .. size')]
  BY <1>1, <1>2 DEF TypeOK
<1>5. \A map \in [Layer -> [Weight -> 0 .. size]] :
         Replaced(map, il, size + 1) \in [Layer -> [Weight -> 0 .. size']]
  BY <1>1, <1>2 DEF Replaced
<1>6. slots' \in [Layer -> [Weight -> 0 .. size']]
      /\ tensors_by_name' \in [Layer -> [Weight -> 0 .. size']]
  BY <1>5 DEF TypeOK
<1> QED
  BY <1>1, <1>3, <1>4, <1>6 DEF TypeOK

\* The layer's tensors are all in the new entry; all other slots stay.
LEMMA MovedSlots ==
    ASSUME TypeOK, NEW il \in Layer, NEW dev \in Device, MoveLayer(il, dev),
           NEW l \in Layer, NEW w \in Weight
    PROVE  /\ slots'[l][w] = IF l = il /\ slots[l][w] # 0 THEN size + 1 ELSE slots[l][w]
           /\ tensors_by_name[l][w] = slots[l][w] => tensors_by_name'[l][w] = slots'[l][w]
BY DEF TypeOK, MoveLayer, Replaced

LEMMA MoveReachable ==
    ASSUME TypeOK, WeightsReachable, NEW il \in Layer, NEW dev \in Device, MoveLayer(il, dev)
    PROVE  WeightsReachable'
<1> SUFFICES ASSUME NEW l \in Layer, NEW w \in Weight
             PROVE  /\ tensors_by_name'[l][w] = slots'[l][w]
                    /\ slots'[l][w] # 0 =>
                         /\ ctxs_bufs'[slots'[l][w]].live
                         /\ ctxs_bufs'[slots'[l][w]].intact
                         /\ live_layer_buffers' => slots'[l][w] \in layer_ctxs'[l]
                         /\ \A m \in Layer \ {l} : slots'[l][w] \notin layer_ctxs'[m]
  BY DEF WeightsReachable
<1>1. tensors_by_name'[l][w] = slots'[l][w]
  BY MovedSlots DEF WeightsReachable
<1>2. CASE l = il /\ slots[l][w] # 0
  <2>1. slots'[l][w] = size + 1 /\ size + 1 \notin 1 .. size /\ size + 1 \in 1 .. size + 1
    BY <1>2, MovedSlots DEF TypeOK
  <2>2. CopyIntact(il)
    BY DEF CopyIntact, SourceEntries, LayerTensors, WeightsReachable
  <2>3. ctxs_bufs'[size + 1].live /\ ctxs_bufs'[size + 1].intact
    BY <2>1, <2>2 DEF MoveLayer, Released, Owning
  <2>4. layer_ctxs' = [layer_ctxs EXCEPT ![il] = {size + 1}]
    BY DEF MoveLayer, Released, Owning
  <2>5. \A m \in Layer \ {l} : size + 1 \notin layer_ctxs'[m]
    BY <1>2, <2>1, <2>4 DEF TypeOK
  <2>6. size + 1 \in layer_ctxs'[l]
    BY <1>2, <2>4 DEF TypeOK
  <2> QED
    BY <1>1, <2>1, <2>3, <2>5, <2>6
<1>3. CASE l # il /\ slots[l][w] # 0
  <2>0. slots[l][w] \in 0 .. size /\ size \in Nat
    BY DEF TypeOK
  <2>1. slots'[l][w] = slots[l][w] /\ slots[l][w] \in 1 .. size /\ size \in Nat
    BY <1>3, <2>0, MovedSlots
  <2>2. /\ ctxs_bufs[slots[l][w]].live
        /\ ctxs_bufs[slots[l][w]].intact
        /\ live_layer_buffers => slots[l][w] \in layer_ctxs[l]
        /\ \A m \in Layer \ {l} : slots[l][w] \notin layer_ctxs[m]
    BY <1>3 DEF WeightsReachable
  <2>3. ctxs_bufs'[slots[l][w]] = ctxs_bufs[slots[l][w]]
    BY <1>3, <2>1, <2>2 DEF MoveLayer, Released, Owning
  <2>4. /\ layer_ctxs' = [layer_ctxs EXCEPT ![il] = {size + 1}]
        /\ live_layer_buffers' = live_layer_buffers
    BY DEF MoveLayer, Released, Owning
  <2>5. slots[l][w] # size + 1
    BY <2>1
  <2>6. \A m \in Layer \ {l} : slots[l][w] \notin layer_ctxs'[m]
    BY <2>2, <2>4, <2>5 DEF TypeOK
  <2>7. live_layer_buffers' => slots[l][w] \in layer_ctxs'[l]
    BY <1>3, <2>2, <2>4 DEF TypeOK
  <2> QED
    BY <1>1, <2>1, <2>2, <2>3, <2>6, <2>7
<1>4. CASE slots[l][w] = 0
  BY <1>1, <1>4, MovedSlots
<1> QED
  BY <1>2, <1>3, <1>4

LEMMA MoveReleased ==
    ASSUME TypeOK, DeviceMemoryReleased, NEW il \in Layer, NEW dev \in Device,
           MoveLayer(il, dev)
    PROVE  DeviceMemoryReleased'
<1> SUFFICES ASSUME NEW e \in 1 .. size', live_layer_buffers',
                    ctxs_bufs'[e].live, ctxs_bufs'[e].dev \in Gpus
             PROVE  \E l \in Layer : e \in layer_ctxs'[l] /\ dev_layer'[l] = ctxs_bufs'[e].dev
  BY DEF DeviceMemoryReleased
<1>1. /\ size' = size + 1 /\ size \in Nat
      /\ layer_ctxs' = [layer_ctxs EXCEPT ![il] = {size + 1}]
      /\ dev_layer' = [dev_layer EXCEPT ![il] = dev]
      /\ live_layer_buffers
  BY DEF MoveLayer, Released, Owning, TypeOK
<1>2. CASE e = size + 1
  <2>1. ctxs_bufs'[e].dev = dev
    BY <1>1, <1>2 DEF MoveLayer, Released, Owning
  <2> QED
    BY <1>1, <1>2, <2>1 DEF TypeOK
<1>3. CASE e # size + 1
  <2>1. e \in 1 .. size
    BY <1>1, <1>3
  <2>2. e \notin layer_ctxs[il] /\ ctxs_bufs'[e] = ctxs_bufs[e]
    <3>1. ctxs_bufs'[e] = IF e \in layer_ctxs[il]
                          THEN Cleared(ctxs_bufs[e])
                          ELSE ctxs_bufs[e]
      BY <1>1, <1>3 DEF MoveLayer, Released, Owning
    <3>2. ~Cleared(ctxs_bufs[e]).live
      BY DEF Cleared
    <3> QED
      BY <3>1, <3>2
  <2>3. PICK l \in Layer : e \in layer_ctxs[l] /\ dev_layer[l] = ctxs_bufs[e].dev
    BY <1>1, <2>1, <2>2 DEF DeviceMemoryReleased
  <2> QED
    BY <1>1, <2>2, <2>3 DEF TypeOK
<1> QED
  BY <1>2, <1>3

-----------------------------------------------------------------------------
(* A step of one context.                                                  *)

LEMMA MigrateType ==
    ASSUME TypeOK, NEW c \in Context, NEW il \in Layer, NEW dev \in Device,
           MigrateLayer(c, il, dev)
    PROVE  TypeOK'
<1> USE DEF MigrateLayer, DropGraph, Synchronized, NoGraph
<1>1. CASE MoveLayer(il, dev)
  <2>1. /\ size' \in Nat /\ live_layer_buffers' \in BOOLEAN
        /\ size' = size + 1
        /\ ctxs_bufs' \in [1 .. size' -> Entry]
        /\ layer_ctxs' \in [Layer -> SUBSET (1 .. size')]
        /\ slots' \in [Layer -> [Weight -> 0 .. size']]
        /\ tensors_by_name' \in [Layer -> [Weight -> 0 .. size']]
        /\ dev_layer' \in [Layer -> Device]
    BY <1>1, MoveType
  <2>2. 0 .. size \subseteq 0 .. size' /\ 1 .. size \subseteq 1 .. size'
    BY <2>1 DEF TypeOK
  <2>3. [Layer -> [Weight -> 0 .. size]] \subseteq [Layer -> [Weight -> 0 .. size']]
    BY <2>2
  <2>4. graph' \in [Context -> [Layer -> [Weight -> 0 .. size']] \cup {NoGraph}]
    BY <2>3 DEF TypeOK
  <2>5. in_flight' \in [Context -> SUBSET (1 .. size')]
    BY <2>2 DEF TypeOK
  <2>6. sched_need_reserve' \in [Context -> BOOLEAN]
        /\ reserved_for' \in [Context -> [Layer -> Device]]
    BY DEF TypeOK
  <2> QED
    BY <2>1, <2>4, <2>5, <2>6 DEF TypeOK
<1>2. CASE AlreadyThere(il, dev)
  BY <1>2 DEF AlreadyThere, modelVars, TypeOK
<1> QED
  BY <1>1, <1>2

LEMMA DecodeType ==
    ASSUME TypeOK, NEW c \in Context, Decode(c)
    PROVE  TypeOK'
<1> USE DEF Decode
<1>1. UNCHANGED <<live_layer_buffers, size, ctxs_bufs, layer_ctxs, slots, tensors_by_name,
                  dev_layer>>
  BY DEF modelVars
<1>2. graph' \in [Context -> [Layer -> [Weight -> 0 .. size]] \cup {NoGraph}]
  BY DEF TypeOK
<1>3. in_flight' \in [Context -> SUBSET (1 .. size)]
  <2>1. graph'[c] \in [Layer -> [Weight -> 0 .. size]]
    BY DEF TypeOK
  <2> DEFINE reads == {graph'[c][l][w] : l \in Layer, w \in Weight} \ {0}
  <2>2. ASSUME NEW l \in Layer, NEW w \in Weight, graph'[c][l][w] # 0
        PROVE  graph'[c][l][w] \in 1 .. size
    <3>1. graph'[c][l][w] \in 0 .. size /\ size \in Nat
      BY <2>1 DEF TypeOK
    <3> QED
      BY <2>2, <3>1
  <2>3. reads \subseteq 1 .. size
    BY <2>2
  <2>4. in_flight' = [in_flight EXCEPT ![c] = @ \cup reads]
    OBVIOUS
  <2> HIDE DEF reads, Decode
  <2> QED
    BY <2>3, <2>4 DEF TypeOK
<1>4. sched_need_reserve' \in [Context -> BOOLEAN]
      /\ reserved_for' \in [Context -> [Layer -> Device]]
  BY DEF TypeOK
<1> QED
  BY <1>1, <1>2, <1>3, <1>4 DEF TypeOK

LEMMA NextType == TypeOK /\ [Next]_vars => TypeOK'
<1> SUFFICES ASSUME TypeOK, [Next]_vars PROVE TypeOK'
  OBVIOUS
<1> USE DEF modelVars, contextVars
<1>1. ASSUME NEW c \in Context, NEW il \in Layer, NEW dev \in Device, MigrationFails(c, il, dev)
      PROVE  TypeOK'
  BY <1>1 DEF MigrationFails, Synchronized, TypeOK
<1>2. ASSUME NEW c \in Context, Complete(c) PROVE TypeOK'
  BY <1>2 DEF Complete, Synchronized, TypeOK
<1>3. CASE UNCHANGED vars
  BY <1>3 DEF vars, TypeOK
<1> QED
  BY <1>1, <1>2, <1>3, MigrateType, DecodeType DEF Next

(* Indices stay inside ctxs_bufs and every pointer is null or an entry.     *)
THEOREM StoreTypeCorrect == Spec => []TypeOK
BY InitType, NextType, PTL DEF Spec

\* The model changes in a move only.
LEMMA ModelChanges ==
    ASSUME [Next]_vars
    PROVE  \/ UNCHANGED modelVars
           \/ \E il \in Layer, dev \in Device : MoveLayer(il, dev)
<1>1. ASSUME NEW c \in Context, NEW il \in Layer, NEW dev \in Device,
             MigrateLayer(c, il, dev)
      PROVE  UNCHANGED modelVars \/ MoveLayer(il, dev)
  BY <1>1 DEF MigrateLayer, AlreadyThere
<1>2. ASSUME NEW c \in Context,
             Decode(c) \/ Complete(c)
             \/ \E il \in Layer, dev \in Device : MigrationFails(c, il, dev)
      PROVE  UNCHANGED modelVars
  BY <1>2 DEF Decode, Complete, MigrationFails
<1>3. CASE UNCHANGED vars
  BY <1>3 DEF vars
<1> QED
  BY <1>1, <1>2, <1>3 DEF Next

(* Whatever is migrated where, no slot and no name points to a buffer that  *)
(* was released or holds other bytes than those of the model file.          *)
THEOREM WeightsReachableTheorem == Spec => []WeightsReachable
<1>1. TypeOK /\ WeightsReachable /\ [Next]_vars => WeightsReachable'
  <2> SUFFICES ASSUME TypeOK, WeightsReachable, [Next]_vars PROVE WeightsReachable'
    OBVIOUS
  <2>1. CASE UNCHANGED modelVars
    BY <2>1 DEF modelVars, WeightsReachable
  <2> QED
    BY <2>1, ModelChanges, MoveReachable
<1> QED
  BY <1>1, InitReachable, StoreTypeCorrect, PTL DEF Spec

(* Migrations leak no device memory.                                        *)
THEOREM ReleasedTheorem == Spec => []DeviceMemoryReleased
<1>1. TypeOK /\ DeviceMemoryReleased /\ [Next]_vars => DeviceMemoryReleased'
  <2> SUFFICES ASSUME TypeOK, DeviceMemoryReleased, [Next]_vars PROVE DeviceMemoryReleased'
    OBVIOUS
  <2>1. CASE UNCHANGED modelVars
    BY <2>1 DEF modelVars, DeviceMemoryReleased
  <2> QED
    BY <2>1, ModelChanges, MoveReleased
<1> QED
  BY <1>1, InitReleased, StoreTypeCorrect, PTL DEF Spec

-----------------------------------------------------------------------------
(* What is in the buffers.                                                 *)

\* A live entry holds exactly the tensors whose slots point to it.
EntriesAccounted ==
    \A e \in 1 .. size : ctxs_bufs[e].live =>
        ctxs_bufs[e].tensors = {w \in Weight : \E l \in Layer : slots[l][w] = e}

\* The slots of a layer are all null or none is, and a tensor that is not on the
\* device of its layer is in host memory.
BuffersFollowLayers ==
    \A l \in Layer, w \in Weight :
        /\ slots[l][w] = 0 <=> l \in Bufferless
        /\ slots[l][w] # 0 => ctxs_bufs[slots[l][w]].dev \in {dev_layer[l], Cpu}

LEMMA InitAccounted == Init => EntriesAccounted
<1> SUFFICES ASSUME Init, NEW e \in 1 .. size
             PROVE  ctxs_bufs[e].tensors = {w \in Weight : \E l \in Layer : slots[l][w] = e}
  BY DEF EntriesAccounted
<1>1. ctxs_bufs[e] = LoadedEntry(e)
  BY DEF Init
<1> QED
  BY <1>1 DEF LoadedEntry

LEMMA InitFollow == Init => BuffersFollowLayers
<1> SUFFICES ASSUME Init, NEW l \in Layer, NEW w \in Weight
             PROVE  /\ slots[l][w] = 0 <=> l \in Bufferless
                    /\ slots[l][w] # 0 => ctxs_bufs[slots[l][w]].dev \in {dev_layer[l], Cpu}
  BY DEF BuffersFollowLayers
<1>1. PICK kept \in [Layer -> SUBSET Weight] : slots = LoadedSlots(kept)
  BY DEF Init
<1>2. Leader(l) \in Layer /\ dev_layer[Leader(l)] = dev_layer[l] /\ 0 \in Layer
  BY DEF Leader
<1> DEFINE host == OnHost(IF live_layer_buffers THEN l ELSE 0)
<1>3. slots[l][w] = IF l \in Bufferless THEN 0
                    ELSE IF w \in kept[l] THEN host ELSE OnDevice(Leader(l))
  BY <1>1 DEF LoadedSlots
<1>4. /\ host \in 1 .. 2 * NLayer /\ OnDevice(Leader(l)) \in 1 .. 2 * NLayer
      /\ \A m \in Layer : host # OnDevice(m)
  BY <1>2, EntriesApart
<1>5. CASE slots[l][w] = OnDevice(Leader(l))
  <2> DEFINE owner == CHOOSE m \in Layer : OnDevice(Leader(l)) = OnDevice(m)
  <2>1. owner = Leader(l)
    BY <1>2, EntriesApart
  <2>2. ctxs_bufs[slots[l][w]] = LoadedEntry(OnDevice(Leader(l)))
    BY <1>4, <1>5 DEF Init
  <2>3. ctxs_bufs[slots[l][w]].dev =
           IF \E m \in Layer : OnDevice(Leader(l)) = OnDevice(m) THEN dev_layer[owner] ELSE Cpu
    BY <2>2 DEF LoadedEntry
  <2> HIDE DEF owner, host
  <2>4. ctxs_bufs[slots[l][w]].dev = dev_layer[l]
    BY <1>2, <2>1, <2>3
  <2>5. OnDevice(Leader(l)) # 0 /\ host # 0
    BY <1>4
  <2>6. slots[l][w] = 0 <=> l \in Bufferless
    BY <1>3, <2>5
  <2> QED
    BY <2>4, <2>6
<1>6. CASE slots[l][w] = host
  <2>1. ctxs_bufs[slots[l][w]].dev = Cpu
    BY <1>4, <1>6 DEF Init, LoadedEntry
  <2> QED
    BY <1>3, <1>4, <1>6, <2>1
<1> QED
  BY <1>3, <1>4, <1>5, <1>6

LEMMA MoveAccounted ==
    ASSUME TypeOK, WeightsReachable, EntriesAccounted,
           NEW il \in Layer, NEW dev \in Device, MoveLayer(il, dev)
    PROVE  EntriesAccounted'
<1> SUFFICES ASSUME NEW e \in 1 .. size', ctxs_bufs'[e].live
             PROVE  ctxs_bufs'[e].tensors = {w \in Weight : \E l \in Layer : slots'[l][w] = e}
  BY DEF EntriesAccounted
<1>1. size' = size + 1 /\ size \in Nat
  BY DEF MoveLayer, TypeOK
<1>2. \A l \in Layer, w \in Weight :
         /\ slots'[l][w] = IF l = il /\ slots[l][w] # 0 THEN size + 1 ELSE slots[l][w]
         /\ slots[l][w] \in 0 .. size
  <2> TAKE l \in Layer, w \in Weight
  <2>1. slots'[l][w] = IF l = il /\ slots[l][w] # 0 THEN size + 1 ELSE slots[l][w]
    BY MovedSlots
  <2>2. slots[l][w] \in 0 .. size
    BY DEF TypeOK
  <2> QED
    BY <2>1, <2>2
<1>3. CASE e = size + 1
  <2>1. ctxs_bufs'[e].tensors = {w \in Weight : slots[il][w] # 0}
    BY <1>1, <1>3 DEF MoveLayer, LayerTensors
  <2>2. \A w \in Weight : (\E l \in Layer : slots'[l][w] = e) <=> slots[il][w] # 0
    BY <1>1, <1>2, <1>3
  <2> QED
    BY <2>1, <2>2
<1>4. CASE e # size + 1
  <2>1. e \in 1 .. size /\ live_layer_buffers
    BY <1>1, <1>4 DEF MoveLayer, CanMove
  <2>2. e \notin layer_ctxs[il] /\ ctxs_bufs'[e] = ctxs_bufs[e]
    <3>1. ctxs_bufs'[e] = IF e \in layer_ctxs[il]
                          THEN Cleared(ctxs_bufs[e]) ELSE ctxs_bufs[e]
      BY <1>1, <1>4 DEF MoveLayer, Released, Owning
    <3>2. ~Cleared(ctxs_bufs[e]).live
      BY DEF Cleared
    <3> QED
      BY <3>1, <3>2
  <2>3. \A w \in Weight : slots[il][w] # e
    BY <2>1, <2>2 DEF WeightsReachable
  <2>4. \A w \in Weight : (\E l \in Layer : slots'[l][w] = e)
                          <=> (\E l \in Layer : slots[l][w] = e)
    BY <1>2, <1>4, <2>3
  <2> QED
    BY <2>1, <2>2, <2>4 DEF EntriesAccounted
<1> QED
  BY <1>3, <1>4

LEMMA MoveFollows ==
    ASSUME TypeOK, WeightsReachable, BuffersFollowLayers,
           NEW il \in Layer, NEW dev \in Device, MoveLayer(il, dev)
    PROVE  BuffersFollowLayers'
<1> SUFFICES ASSUME NEW l \in Layer, NEW w \in Weight
             PROVE  /\ slots'[l][w] = 0 <=> l \in Bufferless
                    /\ slots'[l][w] # 0 =>
                          ctxs_bufs'[slots'[l][w]].dev \in {dev_layer'[l], Cpu}
  BY DEF BuffersFollowLayers
<1>1. /\ size' = size + 1 /\ size \in Nat /\ slots[l][w] \in 0 .. size
      /\ dev_layer'[l] = IF l = il THEN dev ELSE dev_layer[l]
      /\ live_layer_buffers
  BY DEF MoveLayer, CanMove, TypeOK
<1>2. slots'[l][w] = IF l = il /\ slots[l][w] # 0 THEN size + 1 ELSE slots[l][w]
  BY MovedSlots
<1>3. CASE l = il /\ slots[l][w] # 0
  <2>1. ctxs_bufs'[size + 1].dev = dev
    BY <1>1 DEF MoveLayer
  <2> QED
    BY <1>1, <1>2, <1>3, <2>1 DEF BuffersFollowLayers
<1>4. CASE l # il /\ slots[l][w] # 0
  <2>1. slots[l][w] \notin layer_ctxs[il]
    BY <1>4 DEF WeightsReachable
  <2>2. ctxs_bufs'[slots[l][w]] = ctxs_bufs[slots[l][w]]
    BY <1>1, <1>4, <2>1 DEF MoveLayer, Released
  <2> QED
    BY <1>1, <1>2, <1>4, <2>2 DEF BuffersFollowLayers
<1>5. CASE slots[l][w] = 0
  BY <1>2, <1>5 DEF BuffersFollowLayers
<1> QED
  BY <1>3, <1>4, <1>5

\* A live buffer holds the tensors of the layers that point to it and no others:
\* migrate_layer() keeps nothing that no layer can reach.
THEOREM AccountedTheorem == Spec => []EntriesAccounted
<1>1. TypeOK /\ WeightsReachable /\ EntriesAccounted /\ [Next]_vars => EntriesAccounted'
  <2> SUFFICES ASSUME TypeOK, WeightsReachable, EntriesAccounted, [Next]_vars
               PROVE  EntriesAccounted'
    OBVIOUS
  <2>1. CASE UNCHANGED modelVars
    BY <2>1 DEF modelVars, EntriesAccounted
  <2> QED
    BY <2>1, ModelChanges, MoveAccounted
<1> QED
  BY <1>1, InitAccounted, StoreTypeCorrect, WeightsReachableTheorem, PTL DEF Spec

\* The tensors of a layer that is not on the CPU are on the device that
\* migrate_layer() wrote to dev_layer or in host memory; those of a layer on the
\* CPU are all in host memory.
THEOREM FollowTheorem == Spec => []BuffersFollowLayers
<1>1. TypeOK /\ WeightsReachable /\ BuffersFollowLayers /\ [Next]_vars
      => BuffersFollowLayers'
  <2> SUFFICES ASSUME TypeOK, WeightsReachable, BuffersFollowLayers, [Next]_vars
               PROVE  BuffersFollowLayers'
    OBVIOUS
  <2>1. CASE UNCHANGED modelVars
    BY <2>1 DEF modelVars, BuffersFollowLayers
  <2> QED
    BY <2>1, ModelChanges, MoveFollows
<1> QED
  BY <1>1, InitFollow, StoreTypeCorrect, WeightsReachableTheorem, PTL DEF Spec

-----------------------------------------------------------------------------
(* What synchronize() and the graph reset give, when one context uses the  *)
(* model.                                                                  *)

SingleContext == \A c, d \in Context : c = d

(* A single context never decodes with a graph or a reservation made for    *)
(* another placement.                                                       *)
THEOREM GraphTheorem ==
    ASSUME SingleContext
    PROVE  Spec => []GraphIsCurrent
<1>1. Init => GraphIsCurrent
  BY DEF Init, GraphIsCurrent
<1>2. TypeOK /\ GraphIsCurrent /\ [Next]_vars => GraphIsCurrent'
  <2> SUFFICES ASSUME TypeOK, GraphIsCurrent, [Next]_vars PROVE GraphIsCurrent'
    OBVIOUS
  <2>1. ASSUME NEW c \in Context, NEW il \in Layer, NEW dev \in Device,
               MigrateLayer(c, il, dev)
        PROVE  GraphIsCurrent'
    <3>1. \A d \in Context : graph'[d] = NoGraph /\ sched_need_reserve'[d]
      BY <2>1 DEF SingleContext, MigrateLayer, DropGraph, TypeOK
    <3> QED
      BY <3>1 DEF GraphIsCurrent
  <2>2. ASSUME NEW c \in Context, Decode(c) PROVE GraphIsCurrent'
    BY <2>2 DEF Decode, modelVars, TypeOK, GraphIsCurrent
  <2>3. CASE UNCHANGED <<slots, dev_layer, graph, sched_need_reserve, reserved_for>>
    BY <2>3 DEF GraphIsCurrent
  <2> QED
    BY <2>1, <2>2, <2>3 DEF Next, MigrationFails, Complete, vars, modelVars, contextVars
<1> QED
  BY <1>1, <1>2, StoreTypeCorrect, PTL DEF Spec

(* Work that a single context queued never reads a buffer that migration    *)
(* has released.                                                            *)
THEOREM NoReadTheorem ==
    ASSUME SingleContext
    PROVE  Spec => []NoReadOfReleasedBuffer
<1>1. Init => NoReadOfReleasedBuffer
  BY DEF Init, NoReadOfReleasedBuffer
<1>2. TypeOK /\ WeightsReachable /\ GraphIsCurrent /\ NoReadOfReleasedBuffer /\ [Next]_vars
      => NoReadOfReleasedBuffer'
  <2> SUFFICES ASSUME TypeOK, WeightsReachable, GraphIsCurrent, NoReadOfReleasedBuffer,
                      [Next]_vars
               PROVE  NoReadOfReleasedBuffer'
    OBVIOUS
  <2>1. ASSUME NEW c \in Context, in_flight' = Synchronized(c) PROVE NoReadOfReleasedBuffer'
    <3>1. \A d \in Context : in_flight'[d] = {}
      BY <2>1 DEF Synchronized, SingleContext, TypeOK
    <3> QED
      BY <3>1 DEF NoReadOfReleasedBuffer
  <2>2. ASSUME NEW c \in Context, Decode(c) PROVE NoReadOfReleasedBuffer'
    <3> SUFFICES ASSUME NEW d \in Context, NEW e \in in_flight'[d] PROVE ctxs_bufs'[e].live
      BY DEF NoReadOfReleasedBuffer
    <3>1. ctxs_bufs' = ctxs_bufs
      BY <2>2 DEF Decode, modelVars
    <3>2. d = c /\ graph'[c] = slots
      BY <2>2 DEF SingleContext, Decode, GraphIsCurrent, TypeOK
    <3>3. e \in in_flight[d] \/ \E l \in Layer, w \in Weight : e = slots[l][w] /\ e # 0
      BY <2>2, <3>2 DEF Decode, TypeOK
    <3> QED
      BY <3>1, <3>3 DEF NoReadOfReleasedBuffer, WeightsReachable
  <2>3. CASE UNCHANGED vars
    BY <2>3 DEF vars, modelVars, contextVars, NoReadOfReleasedBuffer
  <2> QED
    BY <2>1, <2>2, <2>3 DEF Next, MigrateLayer, MigrationFails, Complete
<1> QED
  BY <1>1, <1>2, StoreTypeCorrect, WeightsReachableTheorem, GraphTheorem, PTL DEF Spec

================================================================================
