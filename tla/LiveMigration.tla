----------------------------- MODULE LiveMigration -----------------------------
(***************************************************************************)
(* One llama_context with its live-migration policy, decoding with a model *)
(* that was loaded into layer buffers: MigrationPolicy decides, LayerStore *)
(* moves the memory.  The free VRAM that the policy reads is no variable   *)
(* here: it is what the live buffers of the model and the other users of   *)
(* the device leave of the capacity.                                       *)
(*                                                                         *)
(* All lines are those of patches/llama.cpp/0001-experimental-live-layer-  *)
(* migration.patch.                                                        *)
(***************************************************************************)
EXTENDS Integers, Sequences, FiniteSets

CONSTANTS
    NLayer, Weight, Bufferless, Cpu, Gpu, OtherGpus,
    Capacity,   \* memory of Gpu; each weight takes 1
    MaxEntries, \* bound, see LayerStore
    MinFree, RestoreSetting, RestoreStep, Interval, CooldownDecodes, ManualCalls, MaxStack

VARIABLES
    \* the model and the context: LayerStore
    live_layer_buffers, size, ctxs_bufs, layer_ctxs, slots, tensors_by_name, dev_layer,
    graph, in_flight, sched_need_reserve, reserved_for,
    \* the policy: MigrationPolicy
    demoted_layers, demote_cursor, copy_cooldown_remaining, decode_counter, last_cpu_load,
    host_load, ram_low, home, touched, last_auto, quiet, ticks_since_slow,
    \* their surroundings
    foreign,    \* VRAM taken by everything but the model's weights
    phase       \* decode() is about to run live_migration_tick()

ctx == "ctx"

Store == INSTANCE LayerStore WITH Context <- {ctx}, Gpus <- {Gpu} \cup OtherGpus

Layer == Store!Layer
Device == Store!Device

ASSUME ModelAssumption ==
    /\ NLayer \in Nat \ {0}
    /\ Bufferless \subseteq Layer
    /\ IsFiniteSet(Weight)
    /\ Cpu # Gpu /\ Cpu \notin OtherGpus /\ Gpu \notin OtherGpus
    /\ MaxEntries \in Nat

ASSUME SettingAssumption ==
    /\ Capacity \in Nat /\ MinFree \in Nat /\ RestoreSetting \in Nat
    /\ RestoreStep \in Nat \ {0}
    /\ Interval \in Nat \ {0} /\ CooldownDecodes \in Nat \ {0}
    /\ ManualCalls \in BOOLEAN /\ MaxStack \in Nat

\* Device memory of the model's live buffers, and of the tensors of each layer.
LiveOnGpu == {e \in 1 .. size : ctxs_bufs[e].live /\ ctxs_bufs[e].dev = Gpu}
ModelVram == Cardinality({p \in LiveOnGpu \X Weight : p[2] \in ctxs_bufs[p[1]].tensors})
TensorsOnGpu(l) == {w \in Store!LayerTensors(l) : ctxs_bufs[slots[l][w]].dev = Gpu}

FreeVram == Capacity - foreign - ModelVram
Held == [l \in Layer |-> Cardinality(TensorsOnGpu(l))]
LayerSize == [l \in Layer |-> IF l \in Bufferless THEN 0 ELSE Cardinality(Weight)]

Policy == INSTANCE MigrationPolicy
    WITH Size <- LayerSize, MaxVram <- Capacity, free_vram <- FreeVram, held <- Held

storeVars == <<live_layer_buffers, size, ctxs_bufs, layer_ctxs, slots, tensors_by_name,
               dev_layer, graph, in_flight, sched_need_reserve, reserved_for>>
policyVars == <<demoted_layers, demote_cursor, copy_cooldown_remaining, decode_counter,
                last_cpu_load, host_load, ram_low, home, touched, last_auto, quiet,
                ticks_since_slow>>
vars == <<storeVars, policyVars, foreign, phase>>

Init ==
    /\ Store!Init
    /\ live_layer_buffers
    /\ foreign \in 0 .. Capacity
    /\ Policy!Init
    /\ phase = "idle"

-----------------------------------------------------------------------------
(* decode() queues the graph, then ticks.                                  *)

Decode ==
    /\ phase = "idle"
    /\ Store!Decode(ctx)
    /\ phase' = "tick"
    /\ UNCHANGED <<policyVars, foreign>>

Ticking ==
    /\ phase = "tick"
    /\ phase' = "idle"
    /\ UNCHANGED foreign

\* Returns before the policy looks for a layer.
IdleTick ==
    /\ Ticking
    /\ UNCHANGED storeVars
    /\ \/ Policy!OffTick
       \/ Policy!BlindTick
       \/ Policy!CoolingTick
       \/ Policy!CalmTick /\ ~Policy!CanPromote

\* Under pressure, but there is nothing to demote or nowhere to put it.
RefusedTick ==
    /\ Ticking
    /\ UNCHANGED storeVars
    /\ Policy!PressureTick
    /\ \/ Policy!CpuBusy
       \/ ram_low
       \/ \A l \in Layer : dev_layer[l] # Gpu

Demotion(il, slow) ==
    /\ Ticking
    /\ Store!MigrateLayer(ctx, il, Cpu)
    /\ Policy!DemoteDecision(il, slow)
    /\ UNCHANGED <<host_load, ram_low, home, touched>>

FailedDemotion(il) ==
    /\ Ticking
    /\ Store!MigrationFails(ctx, il, Cpu)
    /\ Policy!PressureTick
    /\ ~Policy!CpuBusy
    /\ ~ram_low
    /\ Policy!IsVictim(il)

Promotion(slow) ==
    /\ Ticking
    /\ Policy!CanPromote
    /\ Store!MigrateLayer(ctx, Policy!Top, Gpu)
    /\ Policy!PromoteDecision(slow)

FailedPromotion ==
    /\ Ticking
    /\ Policy!CanPromote
    /\ Store!MigrationFails(ctx, Policy!Top, Gpu)
    /\ Policy!CalmTick

Tick ==
    \/ IdleTick
    \/ RefusedTick
    \/ \E il \in Layer, slow \in BOOLEAN : Demotion(il, slow)
    \/ \E il \in Layer : FailedDemotion(il)
    \/ \E slow \in BOOLEAN : Promotion(slow)
    \/ FailedPromotion

-----------------------------------------------------------------------------
(* Between two calls of decode().                                          *)

\* llama_live_migrate_layer().
ManualMigration(il, dev, slow) ==
    /\ phase = "idle"
    /\ Store!MigrateLayer(ctx, il, dev)
    /\ UNCHANGED <<foreign, phase>>
    /\ Policy!ManualDecision(il, dev, slow)

FailedManualMigration(il, dev) ==
    /\ phase = "idle"
    /\ ManualCalls
    /\ Store!MigrationFails(ctx, il, dev)
    /\ UNCHANGED <<policyVars, foreign, phase>>

\* The device finishes the queued work.
Complete == Store!Complete(ctx) /\ UNCHANGED <<policyVars, foreign, phase>>

\* KV cache, compute buffers or other processes take or release VRAM.
VramChanges ==
    /\ foreign' \in 0 .. Capacity
    /\ UNCHANGED <<storeVars, phase>>
    /\ Policy!VramChanges

HostChanges ==
    /\ UNCHANGED <<storeVars, foreign, phase>>
    /\ Policy!HostChanges

Next ==
    \/ Decode
    \/ Tick
    \/ \E il \in Layer, dev \in Device, slow \in BOOLEAN : ManualMigration(il, dev, slow)
    \/ \E il \in Layer, dev \in Device : FailedManualMigration(il, dev)
    \/ Complete
    \/ VramChanges
    \/ HostChanges

Spec == Init /\ [][Next]_vars

-----------------------------------------------------------------------------
(* What the buffers do is what the policy takes a migration to do: a demotion *)
(* frees exactly what the layer held, a promotion takes its full size, a      *)
(* failed one changes nothing.                                                *)
PolicySpec == Policy!Spec

(* Between the policy's moves the application moves layers too.  The layers   *)
(* it leaves alone are on the CPU exactly while they are, once, on the        *)
(* policy's stack, and at home otherwise, although its calls move layers the  *)
(* stack names, fill and free the device and start cooldowns in between.      *)
UntouchedIsHomeOrParked == Policy!UntouchedIsHomeOrParked

(* The device memory of the model's buffers is that of the tensors the layers *)
(* have there: no buffer outlives its layer's stay, none is shared.           *)
VramAccounted ==
    ModelVram = Cardinality({p \in Layer \X Weight : p[2] \in TensorsOnGpu(p[1])})

(* The weights of a parked layer are in host memory, readable and intact,     *)
(* while the policy's stack says that it can bring them back.                 *)
ParkedInHostMemory ==
    \A l \in Policy!Demoted \ touched :
        /\ Held[l] = 0
        /\ \A w \in Store!LayerTensors(l) :
              LET e == slots[l][w] IN
              ctxs_bufs[e].live /\ ctxs_bufs[e].intact /\ ctxs_bufs[e].dev = Cpu

================================================================================
