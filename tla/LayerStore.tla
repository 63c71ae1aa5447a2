------------------------------- MODULE LayerStore -------------------------------
(***************************************************************************)
(* The memory side of live layer migration: the per-layer contexts and     *)
(* buffers of a llama_model, migrate_layer(), and what live_migrate_layer()*)
(* does around it in each llama_context that decodes with the model.       *)
(*                                                                         *)
(* A tensor is named by its layer and weight; what the pointers of the code*)
(* tell apart is the entry of ctxs_bufs the tensor lives in, so a tensor   *)
(* slot holds the index of that entry (0 is nullptr).                      *)
(*                                                                         *)
(* All lines are those of patches/llama.cpp/0001-experimental-live-layer-  *)
(* migration.patch.                                                        *)
(***************************************************************************)
EXTENDS Integers

CONSTANTS
    NLayer,      \* layers.size()
    Weight,      \* the tensor slots of a llama_layer
    Bufferless,  \* layers loaded without a tensor of their own
    Cpu,         \* the CPU device
    Gpus,        \* the offload devices of the model (gpu_buft_list)
    Context,     \* the llama_contexts that use the model
    MaxEntries   \* bound: length of ctxs_bufs at which migrations stop

Layer == 0 .. NLayer - 1
Device == {Cpu} \cup Gpus

ASSUME StoreAssumption ==
    /\ NLayer \in Nat \ {0}
    /\ Bufferless \subseteq Layer
    /\ Cpu \notin Gpus
    /\ MaxEntries \in Nat

VARIABLES
    live_layer_buffers, \* the model was loaded with LLAMA_EXPERIMENTAL_LAYER_BUFFERS=1
    size,               \* ctxs_bufs.size()
    ctxs_bufs,          \* entry -> [live, dev, tensors, intact]
    layer_ctxs,         \* layer -> the entries that layer owns
    slots,              \* layer -> weight -> entry (llama_layer)
    tensors_by_name,    \* layer -> weight -> entry
    dev_layer,          \* layer -> device
    graph,              \* context -> the slots its cached graph was built from
    in_flight,          \* context -> entries that queued work still reads
    sched_need_reserve, \* context -> the scheduler must be reserved anew
    reserved_for        \* context -> the placement the scheduler was reserved for

modelVars == <<live_layer_buffers, size, ctxs_bufs, layer_ctxs, slots, tensors_by_name,
               dev_layer>>
contextVars == <<graph, in_flight, sched_need_reserve, reserved_for>>
vars == <<modelVars, contextVars>>

NoGraph == <<>>

\* An entry is a ggml context with its backend buffer; a cleared entry stays in
\* the vector.  Its bytes are intact when they are those of the model file.
Entry == [live : BOOLEAN, dev : Device, tensors : SUBSET Weight, intact : BOOLEAN]

-----------------------------------------------------------------------------
(* Loading.  The first layers are on the CPU, each device gets a block of the *)
(* others.  A tensor is in the buffer of its layer's device, or of the CPU    *)
(* when an override or an unsupported operation keeps it there.  There is one *)
(* context per buffer type, and per layer when layer buffers are enabled:     *)
(* entry 2l+1 is the device context of layer l, 2l+2 its host context; one    *)
(* that got no tensor is skipped by the code and here is not live.            *)

LoadPlacement ==
    {d \in [Layer -> Device] : \A a, b \in Layer : a <= b =>
        /\ d[b] = Cpu => d[a] = Cpu
        /\ d[a] = d[b] => \A m \in a .. b : d[m] = d[a]}

\* The layer whose device context the tensors of layer l share.
Leader(l) ==
    IF live_layer_buffers THEN l ELSE CHOOSE m \in Layer : dev_layer[m] = dev_layer[l]
OnDevice(l) == 2 * l + 1
OnHost(l) == 2 * l + 2

LoadedSlots(kept) ==
    [l \in Layer |-> [w \in Weight |->
        IF l \in Bufferless THEN 0
        ELSE IF w \in kept[l] THEN OnHost(IF live_layer_buffers THEN l ELSE 0)
        ELSE OnDevice(Leader(l))]]

LoadedEntry(e) ==
    LET tensors == {w \in Weight : \E l \in Layer : slots[l][w] = e} IN
    [live    |-> tensors # {},
     dev     |-> IF \E l \in Layer : e = OnDevice(l)
                 THEN dev_layer[CHOOSE l \in Layer : e = OnDevice(l)] ELSE Cpu,
     tensors |-> tensors,
     intact  |-> TRUE]

Init ==
    /\ live_layer_buffers \in BOOLEAN
    /\ dev_layer \in LoadPlacement
    /\ \E kept \in [Layer -> SUBSET Weight] : slots = LoadedSlots(kept)
    /\ tensors_by_name = slots
    /\ size = 2 * NLayer
    /\ ctxs_bufs = [e \in 1 .. 2 * NLayer |-> LoadedEntry(e)]
    /\ layer_ctxs = [l \in Layer |-> IF live_layer_buffers
                                     THEN {slots[l][w] : w \in Weight} \ {0} ELSE {}]
    /\ graph = [c \in Context |-> NoGraph]
    /\ in_flight = [c \in Context |-> {}]
    /\ sched_need_reserve = [c \in Context |-> TRUE]
    /\ reserved_for = [c \in Context |-> dev_layer]

-----------------------------------------------------------------------------
(* llama_model::migrate_layer()                                            *)

\* The tensors of a layer, and the entries that hold them.
LayerTensors(il) == {w \in Weight : slots[il][w] # 0}
SourceEntries(il) == {slots[il][w] : w \in LayerTensors(il)}

\* The guards before anything is allocated: -2 when the model has no layer
\* buffers, when the layer owns none, or when it has no tensor.
CanMove(il) ==
    /\ live_layer_buffers
    /\ layer_ctxs[il] # {}
    /\ LayerTensors(il) # {}

\* Faulty: moves the tensors of one of the layer's contexts only.
ReplacedInOneEntry(map, il, e) ==
    [map EXCEPT ![il] = [w \in Weight |->
        IF slots[il][w] = (CHOOSE x \in SourceEntries(il) : TRUE) THEN e ELSE map[il][w]]]

\* The pointers to the old tensors of layer il now point into entry e.
Replaced(map, il, e) ==
    [map EXCEPT ![il] = [w \in Weight |->
        IF slots[il][w] # 0 /\ map[il][w] = slots[il][w] THEN e ELSE map[il][w]]]

\* The copy is as good as the buffers it reads.
CopyIntact(il) ==
    \A e \in SourceEntries(il) : ctxs_bufs[e].live /\ ctxs_bufs[e].intact

\* Context and buffer are freed, the entry stays in the vector.
Cleared(entry) ==
    [live |-> FALSE, dev |-> entry.dev, tensors |-> {}, intact |-> entry.intact]

\* What the layer gives up, and what it owns from then on.
\* (Faulty variants: the old buffers stay, the index is off by one.)
ReleasesNothing(il) == {}
Released(il) == layer_ctxs[il]

Owning(il, e) == [layer_ctxs EXCEPT ![il] = {e}]

\* Allocate, copy, swap the slots and the names, append the new entry, clear the
\* old ones, make the new entry the layer's only one.
MoveLayer(il, dev) ==
    LET new == size + 1 IN
    /\ CanMove(il)
    /\ dev_layer[il] # dev
    /\ size < MaxEntries
    /\ size' = new
    /\ slots' = Replaced(slots, il, new)
    /\ tensors_by_name' = Replaced(tensors_by_name, il, new)
    /\ ctxs_bufs' = [e \in 1 .. new |->
          IF e = new THEN [live |-> TRUE, dev |-> dev, tensors |-> LayerTensors(il),
                           intact |-> CopyIntact(il)]
          ELSE IF e \in Released(il) THEN Cleared(ctxs_bufs[e]) ELSE ctxs_bufs[e]]
    /\ layer_ctxs' = Owning(il, new)
    /\ dev_layer' = [dev_layer EXCEPT ![il] = dev]
    /\ UNCHANGED live_layer_buffers

\* Without layer buffers even a layer that is there already is refused.
AlreadyThere(il, dev) ==
    /\ live_layer_buffers
    /\ dev_layer[il] = dev
    /\ UNCHANGED modelVars

-----------------------------------------------------------------------------
(* llama_context                                                           *)

\* Faulty: does not wait.
NotSynchronized(c) == in_flight

\* synchronize(): the queued work of this context is done.
Synchronized(c) == [in_flight EXCEPT ![c] = {}]

\* Faulty: forgets gf_res_prev->reset().
KeepGraph(c) ==
    /\ sched_need_reserve' = [sched_need_reserve EXCEPT ![c] = TRUE]
    /\ UNCHANGED <<graph, reserved_for>>

\* The graph that read the old placement is dropped and the scheduler is to be
\* reserved anew.
DropGraph(c) ==
    /\ graph' = [graph EXCEPT ![c] = NoGraph]
    /\ sched_need_reserve' = [sched_need_reserve EXCEPT ![c] = TRUE]
    /\ UNCHANGED reserved_for

MigrateLayer(c, il, dev) ==
    /\ in_flight' = Synchronized(c)
    /\ MoveLayer(il, dev) \/ AlreadyThere(il, dev)
    /\ DropGraph(c)

\* migrate_layer() returned an error: not movable, or no memory for the new buffer.
MigrationFails(c, il, dev) ==
    /\ live_layer_buffers => dev_layer[il] # dev
    /\ in_flight' = Synchronized(c)
    /\ UNCHANGED <<modelVars, graph, sched_need_reserve, reserved_for>>

\* decode(): reserve if asked to, reuse the cached graph or build one from the
\* slots, and queue work that reads the weights it refers to.
Decode(c) ==
    /\ sched_need_reserve' = [sched_need_reserve EXCEPT ![c] = FALSE]
    /\ reserved_for' =
          [reserved_for EXCEPT ![c] = IF sched_need_reserve[c] THEN dev_layer ELSE @]
    /\ \/ graph[c] # NoGraph /\ graph' = graph
       \/ graph' = [graph EXCEPT ![c] = slots]
    /\ in_flight' = [in_flight EXCEPT ![c] =
          @ \cup ({graph'[c][l][w] : l \in Layer, w \in Weight} \ {0})]
    /\ UNCHANGED modelVars

\* The device finishes the queued work.
Complete(c) ==
    /\ in_flight[c] # {}
    /\ in_flight' = Synchronized(c)
    /\ UNCHANGED <<modelVars, graph, sched_need_reserve, reserved_for>>

Next ==
    \E c \in Context :
        \/ Decode(c)
        \/ Complete(c)
        \/ \E il \in Layer, dev \in Device : MigrateLayer(c, il, dev)
        \/ \E il \in Layer, dev \in Device : MigrationFails(c, il, dev)

Spec == Init /\ [][Next]_vars

-----------------------------------------------------------------------------
(* Indices stay inside ctxs_bufs, pointers are null or an entry.             *)
TypeOK ==
    /\ live_layer_buffers \in BOOLEAN
    /\ size \in Nat
    /\ ctxs_bufs \in [1 .. size -> Entry]
    /\ layer_ctxs \in [Layer -> SUBSET (1 .. size)]
    /\ slots \in [Layer -> [Weight -> 0 .. size]]
    /\ tensors_by_name \in [Layer -> [Weight -> 0 .. size]]
    /\ dev_layer \in [Layer -> Device]
    /\ graph \in [Context -> [Layer -> [Weight -> 0 .. size]] \cup {NoGraph}]
    /\ in_flight \in [Context -> SUBSET (1 .. size)]
    /\ sched_need_reserve \in [Context -> BOOLEAN]
    /\ reserved_for \in [Context -> [Layer -> Device]]

(* Every weight can be reached by slot and by name, in a buffer that is not   *)
(* released and holds the bytes of the model file, and a migration of another *)
(* layer does not free that buffer: no migration leaves a pointer to what it  *)
(* or a later one frees.                                                      *)
WeightsReachable ==
    \A l \in Layer, w \in Weight :
        /\ tensors_by_name[l][w] = slots[l][w]
        /\ slots[l][w] # 0 =>
              /\ ctxs_bufs[slots[l][w]].live
              /\ ctxs_bufs[slots[l][w]].intact
              /\ live_layer_buffers => slots[l][w] \in layer_ctxs[l]
              /\ \A m \in Layer \ {l} : slots[l][w] \notin layer_ctxs[m]

(* Device memory is held only for layers that are on that device: a migration *)
(* gives all old buffers back (live-layer-migration.md, "release the old      *)
(* memory").                                                                  *)
DeviceMemoryReleased ==
    \A e \in 1 .. size :
        live_layer_buffers /\ ctxs_bufs[e].live /\ ctxs_bufs[e].dev \in Gpus =>
            \E l \in Layer : e \in layer_ctxs[l] /\ dev_layer[l] = ctxs_bufs[e].dev

(* Work queued by a context never reads a buffer that has been released.      *)
NoReadOfReleasedBuffer ==
    \A c \in Context : \A e \in in_flight[c] : ctxs_bufs[e].live

(* A graph that may be reused refers to the current tensors, and a scheduler  *)
(* that will not be reserved anew was reserved for the current placement      *)
(* (live-layer-migration.md, "so the next decode builds against the new       *)
(* placement").                                                               *)
GraphIsCurrent ==
    \A c \in Context :
        /\ graph[c] # NoGraph => graph[c] = slots
        /\ ~sched_need_reserve[c] => reserved_for[c] = dev_layer

================================================================================
