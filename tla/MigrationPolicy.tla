---------------------------- MODULE MigrationPolicy ----------------------------
(***************************************************************************)
(* The automatic live-migration policy of a llama_context:                 *)
(* live_migration_tick(), run at the end of every successful decode(), and *)
(* the bookkeeping of live_migrate_layer().  The memory side of a migration *)
(* is LayerStore; here migrate_layer() either succeeds or changes nothing. *)
(*                                                                         *)
(* All lines are those of patches/llama.cpp/0001-experimental-live-layer-  *)
(* migration.patch.                                                        *)
(***************************************************************************)
EXTENDS Integers, Sequences, FiniteSets

CONSTANTS
    NLayer,          \* hparams.n_layer_all
    Bufferless,      \* layers without a migration buffer: migrate_layer() returns -2
    Size,            \* Size[l]: device memory that all tensors of layer l take
    Cpu, Gpu,        \* the CPU device and live_migration.device
    OtherGpus,       \* the other offload devices of the model
    MaxVram,         \* bound: the largest free VRAM reading
    MinFree,         \* live_migration.min_free_vram
    RestoreSetting,  \* LLAMA_LIVE_MIGRATION_RESTORE_FREE_MB as configured
    RestoreStep,     \* the 512 MiB added when that setting is too low
    Interval,        \* interval_decodes
    CooldownDecodes, \* copy_cooldown_decodes
    ManualCalls,     \* whether the application also calls llama_live_migrate_layer()
    MaxStack         \* bound: length of demoted_layers at which manual calls stop

Layer == 0 .. NLayer - 1
Device == {Cpu, Gpu} \cup OtherGpus

ASSUME LayerAssumption ==
    /\ NLayer \in Nat \ {0}
    /\ Bufferless \subseteq Layer
    /\ Size \in [Layer -> Nat]

ASSUME DeviceAssumption ==
    /\ Cpu # Gpu
    /\ Cpu \notin OtherGpus /\ Gpu \notin OtherGpus

ASSUME SettingAssumption ==
    /\ MaxVram \in Nat
    /\ MinFree \in Nat
    /\ RestoreSetting \in Nat
    /\ RestoreStep \in Nat \ {0}
    /\ Interval \in Nat \ {0}
    /\ CooldownDecodes \in Nat \ {0}
    /\ ManualCalls \in BOOLEAN
    /\ MaxStack \in Nat

\* live_migration_init(): a restore threshold at or below the demotion one is raised.
RestoreFree == IF RestoreSetting <= MinFree THEN MinFree + RestoreStep ELSE RestoreSetting

\* No layer is larger than the gap between the two thresholds.  The code does not
\* require it; a run checks what happens without it.
HysteresisCoversLayers == \A l \in Layer : Size[l] <= RestoreFree - MinFree + 1

VARIABLES
    dev_layer,               \* the device of each layer
    demoted_layers,          \* stack of the layers the policy demoted
    demote_cursor,           \* where the next search for a layer to demote starts
    copy_cooldown_remaining, \* policy ticks still to sit out
    decode_counter,          \* modulo Interval
    last_cpu_load,           \* "unknown" (-1), "ok", or "busy" (>= max_cpu_load)
    held,                    \* held[l]: memory of Gpu that layer l occupies
    free_vram,               \* what ggml_backend_dev_memory() reports of Gpu
    host_load,               \* environment: the load a good CPU sample shows
    ram_low,                 \* environment: free RAM is below min_free_ram
    \* history variables
    home,                    \* dev_layer as loaded
    touched,                 \* layers the application moved by itself
    last_auto,               \* the policy's last successful move
    quiet,                   \* nobody else moved VRAM since then
    ticks_since_slow         \* policy ticks since the last slow copy (capped)

policyVars == <<demoted_layers, demote_cursor, copy_cooldown_remaining, decode_counter,
                last_cpu_load>>
hostVars == <<host_load, ram_low>>
historyVars == <<touched, last_auto, quiet, ticks_since_slow>>
vars == <<dev_layer, held, free_vram, home, policyVars, hostVars, historyVars>>

\* As loaded, tensors of a layer on Gpu may have been kept in CPU memory.
Holdings ==
    {h \in [Layer -> UNION {0 .. Size[l] : l \in Layer}] :
        \A l \in Layer : h[l] <= Size[l] /\ (dev_layer[l] # Gpu => h[l] = 0)}

NoMove == [dir |-> "none", layer |-> 0]
AutoMove == [dir : {"demote", "promote"}, layer : Layer]

Init ==
    /\ \E k, m \in 0 .. NLayer :
          /\ k <= m
          /\ m < NLayer => OtherGpus # {}
          /\ \E g \in OtherGpus \cup {Gpu} :
                dev_layer = [l \in Layer |-> IF l < k THEN Cpu ELSE IF l < m THEN Gpu ELSE g]
    /\ held \in Holdings
    /\ home = dev_layer
    /\ touched = {}
    /\ demoted_layers = <<>>
    /\ demote_cursor = NLayer - 1
    /\ copy_cooldown_remaining = 0
    /\ decode_counter = 0
    /\ last_cpu_load = "unknown"
    /\ free_vram \in 0 .. MaxVram
    /\ host_load = "ok"
    /\ ram_low = FALSE
    /\ last_auto = NoMove
    /\ quiet = FALSE
    /\ ticks_since_slow = CooldownDecodes

-----------------------------------------------------------------------------
(* live_migrate_layer(): what a successful move does to the policy state.  *)

\* Leaving Gpu gives back what the layer holds there; moving there allocates
\* room for all its tensors.
HeldAfter(il, dev) ==
    IF dev_layer[il] = dev THEN held[il] ELSE IF dev = Gpu THEN Size[il] ELSE 0
VramAfter(il, dev) == free_vram + held[il] - HeldAfter(il, dev)

Placed(il, dev) ==
    /\ dev_layer' = [dev_layer EXCEPT ![il] = dev]
    /\ held' = [held EXCEPT ![il] = HeldAfter(il, dev)]
    /\ free_vram' = VramAfter(il, dev)

\* migrate_layer() can succeed: the layer is there already, or it owns a buffer
\* and the new buffer fits.
CanMigrate(il, dev) ==
    \/ dev_layer[il] = dev
    \/ il \notin Bufferless /\ VramAfter(il, dev) >= 0

\* A copy slower than max_copy_ms starts (or extends) the cooldown; a call that
\* found the layer on the target device is not timed.
Timed(il, dev, slow) ==
    /\ CanMigrate(il, dev)
    /\ slow => dev_layer[il] # dev
    /\ copy_cooldown_remaining' =
          IF slow /\ copy_cooldown_remaining < CooldownDecodes
          THEN CooldownDecodes ELSE copy_cooldown_remaining

-----------------------------------------------------------------------------
(* live_migration_tick()                                                   *)

Due == (decode_counter + 1) % Interval = 0
CountDecode == decode_counter' = (decode_counter + 1) % Interval

\* llama_cpu_load_sample() either fails, leaving the last load, or reads the host.
Sample ==
    \/ last_cpu_load' = last_cpu_load
    \/ last_cpu_load' = host_load

Min2(a, b) == IF a < b THEN a ELSE b

\* A policy tick that got past the memory reading; resets the count on a slow copy.
CountTick(slow) ==
    ticks_since_slow' = IF slow THEN 0 ELSE Min2(ticks_since_slow + 1, CooldownDecodes)

\* Not a multiple of interval_decodes.
OffTick ==
    /\ ~Due
    /\ CountDecode
    /\ UNCHANGED <<dev_layer, held, free_vram, home, demoted_layers, demote_cursor,
                   copy_cooldown_remaining, last_cpu_load, hostVars, historyVars>>

\* The device reports no memory: total_vram == 0.
BlindTick ==
    /\ Due
    /\ CountDecode
    /\ UNCHANGED <<dev_layer, held, free_vram, home, demoted_layers, demote_cursor,
                   copy_cooldown_remaining, last_cpu_load, hostVars, historyVars>>

\* A tick that reads the memory and takes a CPU sample.
Observe ==
    /\ Due
    /\ CountDecode
    /\ Sample
    /\ UNCHANGED <<home, touched, hostVars>>

Cooling == copy_cooldown_remaining > 0

CoolingTick ==
    /\ Observe
    /\ Cooling
    /\ copy_cooldown_remaining' = copy_cooldown_remaining - 1
    /\ CountTick(FALSE)
    /\ UNCHANGED <<dev_layer, held, free_vram, demoted_layers, demote_cursor, last_auto, quiet>>

\* Faulty: moves during the cooldown.
ReadyWhileCooling == Observe
Ready == Observe /\ ~Cooling

\* The layers are examined downwards from the cursor, wrapping around: Attempt(l)
\* is the attempt at which layer l is examined.
Cursor == IF demote_cursor \in Layer THEN demote_cursor ELSE NLayer - 1
Attempt(l) == IF l <= Cursor THEN Cursor - l ELSE Cursor - l + NLayer

\* Faulty: the search ends at layer 0.
VictimWithoutWrap(il) ==
    /\ dev_layer[il] = Gpu
    /\ il <= Cursor
    /\ \A j \in Layer : dev_layer[j] = Gpu => Attempt(il) <= Attempt(j)

\* The first layer on the device, wherever the cursor is.
IsVictim(il) ==
    /\ dev_layer[il] = Gpu
    /\ \A j \in Layer : dev_layer[j] = Gpu => Attempt(il) <= Attempt(j)

CpuBusy == last_cpu_load' = "busy"

NoAutoMove ==
    /\ CountTick(FALSE)
    /\ UNCHANGED <<dev_layer, held, free_vram, demoted_layers, demote_cursor,
                   copy_cooldown_remaining, last_auto, quiet>>

\* Pressure, but the CPU is busy, RAM is low, no layer is left on the device, or
\* the migration failed: nothing moves and the cursor stays.
PressureTick ==
    /\ Ready
    /\ free_vram < MinFree
    /\ NoAutoMove

\* Faulty: the next search starts at the layer that was moved.
CursorAt(il) == demote_cursor' = il
CursorBelow(il) == demote_cursor' = il - 1

DemoteDecision(il, slow) ==
    /\ Ready
    /\ free_vram < MinFree
    /\ ~CpuBusy
    /\ ~ram_low
    /\ IsVictim(il)
    /\ Timed(il, Cpu, slow)
    /\ demoted_layers' = Append(demoted_layers, il)
    /\ CursorBelow(il)
    /\ last_auto' = [dir |-> "demote", layer |-> il]
    /\ quiet' = TRUE
    /\ CountTick(slow)

Demote(il, slow) == DemoteDecision(il, slow) /\ Placed(il, Cpu)

\* Faulty: restores at the threshold.
PromoteAtThreshold == free_vram >= RestoreFree /\ demoted_layers # <<>>
CanPromote == free_vram > RestoreFree /\ demoted_layers # <<>>
Top == demoted_layers[Len(demoted_layers)]

\* Faulty: a promoted layer stays on the stack.
KeepTop == UNCHANGED demoted_layers
PopTop == demoted_layers' = SubSeq(demoted_layers, 1, Len(demoted_layers) - 1)

PromoteDecision(slow) ==
    /\ Ready
    /\ free_vram >= MinFree
    /\ CanPromote
    /\ Timed(Top, Gpu, slow)
    /\ PopTop
    /\ CursorBelow(Top)
    /\ last_auto' = [dir |-> "promote", layer |-> Top]
    /\ quiet' = TRUE
    /\ CountTick(slow)

Promote(slow) == PromoteDecision(slow) /\ Placed(Top, Gpu)

\* Neither threshold crossed, nothing to promote, or the promotion failed (it
\* cannot fail for a layer that is on the device already).
CalmTick ==
    /\ Ready
    /\ free_vram >= MinFree
    /\ CanPromote => dev_layer[Top] # Gpu
    /\ NoAutoMove

DemoteTick == \E il \in Layer, slow \in BOOLEAN : Demote(il, slow)
PromoteTick == \E slow \in BOOLEAN : Promote(slow)

Tick == OffTick \/ BlindTick \/ CoolingTick \/ PressureTick \/ DemoteTick
        \/ PromoteTick \/ CalmTick

-----------------------------------------------------------------------------
(* The application and the machine.                                        *)

\* llama_live_migrate_layer() between two decodes; a failing call changes nothing.
\* (MaxStack bounds the stack, which grows when the application promotes by itself.)
ManualDecision(il, dev, slow) ==
    /\ ManualCalls
    /\ Len(demoted_layers) < MaxStack
    /\ Timed(il, dev, slow)
    /\ quiet' = (quiet /\ dev_layer[il] = dev)
    /\ touched' = touched \cup {il}
    /\ ticks_since_slow' = IF slow THEN 0 ELSE ticks_since_slow
    /\ UNCHANGED <<home, demoted_layers, demote_cursor, decode_counter, last_cpu_load,
                   hostVars, last_auto>>

ManualMigrate(il, dev, slow) == ManualDecision(il, dev, slow) /\ Placed(il, dev)

\* Other users of the device take or release VRAM.
VramChanges ==
    /\ free_vram' \in 0 .. MaxVram
    /\ quiet' = FALSE
    /\ UNCHANGED <<dev_layer, held, home, policyVars, hostVars, touched, last_auto,
                   ticks_since_slow>>

HostChanges ==
    /\ host_load' \in {"ok", "busy"}
    /\ ram_low' \in BOOLEAN
    /\ UNCHANGED <<dev_layer, held, free_vram, home, policyVars, historyVars>>

Manual == \E il \in Layer, dev \in Device, slow \in BOOLEAN : ManualMigrate(il, dev, slow)

Next == Tick \/ Manual \/ VramChanges \/ HostChanges

Spec == Init /\ [][Next]_vars

(* Decoding goes on; the device reports its memory, the CPU can be sampled and *)
(* a migration that can succeed does, again and again (not every time).        *)
Fairness ==
    /\ WF_vars(Tick)
    /\ SF_vars(CoolingTick)
    /\ SF_vars(DemoteTick)
    /\ SF_vars(PromoteTick)

\* The policy alone, without the application's calls.
FairSpec == Init /\ [][Tick \/ VramChanges \/ HostChanges]_vars /\ Fairness

-----------------------------------------------------------------------------
(* Every variable stays in its type: the cursor may leave the layers at -1, *)
(* the cooldown never exceeds copy_cooldown_decodes.                        *)
TypeOK ==
    /\ dev_layer \in [Layer -> Device]
    /\ demoted_layers \in Seq(Layer)
    /\ demote_cursor \in -1 .. NLayer - 1
    /\ copy_cooldown_remaining \in 0 .. CooldownDecodes
    /\ decode_counter \in 0 .. Interval - 1
    /\ last_cpu_load \in {"unknown", "ok", "busy"}
    /\ held \in [Layer -> Nat]
    /\ \A l \in Layer : held[l] <= Size[l] /\ (dev_layer[l] # Gpu => held[l] = 0)
    /\ free_vram \in Nat
    /\ host_load \in {"ok", "busy"}
    /\ ram_low \in BOOLEAN
    /\ home \in [Layer -> Device]
    /\ touched \subseteq Layer
    /\ last_auto \in AutoMove \cup {NoMove}
    /\ quiet \in BOOLEAN
    /\ ticks_since_slow \in 0 .. CooldownDecodes

Demoted == {demoted_layers[i] : i \in 1 .. Len(demoted_layers)}

(* A layer the application never moved is on the CPU exactly while it is in   *)
(* demoted_layers, where it occurs once and came from the policy's device;    *)
(* otherwise it is where it was loaded.  No layer the policy parked is ever   *)
(* lost, promoted twice, or promoted without having been demoted.             *)
UntouchedIsHomeOrParked ==
    \A l \in Layer \ touched :
        /\ dev_layer[l] = IF l \in Demoted THEN Cpu ELSE home[l]
        /\ l \in Demoted => home[l] = Gpu
        /\ \A i, j \in 1 .. Len(demoted_layers) :
              demoted_layers[i] = l /\ demoted_layers[j] = l => i = j

(* The policy does not undo its own last move while nobody else moves VRAM:   *)
(* what a demotion frees never reaches the restore threshold, what a          *)
(* promotion takes never leaves pressure (live-layer-migration.md,            *)
(* "use hysteresis").                                                         *)
Reverses == last_auto.dir # "none" /\ last_auto'.dir # last_auto.dir
NoBounce == [][quiet => ~Reverses]_vars

(* A layer that was promoted back is the last one to be demoted again: the    *)
(* search that starts below it takes any other layer of the device first.     *)
RotatesVictims ==
    [][\A l \in Layer :
          /\ last_auto = [dir |-> "promote", layer |-> l]
          /\ last_auto' = [dir |-> "demote", layer |-> l]
          => \A k \in Layer \ {l} : dev_layer[k] # Gpu]_vars

(* After a copy slower than max_copy_ms, automatic or asked for by the        *)
(* application, the policy sits out copy_cooldown_decodes policy ticks before *)
(* it moves a layer.                                                          *)
CooldownRespected ==
    [][demoted_layers' # demoted_layers => ticks_since_slow = CooldownDecodes]_vars

\* VRAM pressure that a demotion may answer.
Pressed ==
    /\ free_vram < MinFree
    /\ host_load = "ok"
    /\ ~ram_low
    /\ \E l \in Layer \ Bufferless : dev_layer[l] = Gpu

(* Pressure does not last while a layer can be moved off the device and the   *)
(* CPU and RAM have room for it.                                              *)
PressureIsRelieved == Pressed ~> ~Pressed

(* Once VRAM has recovered, and as long as it stays above the restore         *)
(* threshold, the policy brings back every layer it demoted.                  *)
ParkedLayersReturn == CanPromote ~> ~CanPromote

================================================================================
