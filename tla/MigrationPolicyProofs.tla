------------------------- MODULE MigrationPolicyProofs -------------------------
(* Safety of the live-migration policy, for any number of layers, any layer *)
(* sizes and any thresholds.                                                *)
EXTENDS MigrationPolicy, SequenceTheorems, TLAPS

LEMMA SettingFacts ==
    /\ RestoreFree \in Nat
    /\ RestoreFree > MinFree
BY SettingAssumption DEF RestoreFree

\* The tick counter stays below interval_decodes.
LEMMA CounterStep ==
    ASSUME decode_counter \in 0 .. Interval - 1, CountDecode
    PROVE  decode_counter' \in 0 .. Interval - 1
<1>1. Interval \in Nat \ {0} /\ decode_counter + 1 \in Nat
  BY SettingAssumption
<1>2. \A a \in Nat, b \in Nat \ {0} : a % b \in 0 .. b - 1
  OBVIOUS
<1> QED
  BY <1>1, <1>2 DEF CountDecode

\* The memory side of the type invariant.
HeldOK ==
    /\ dev_layer \in [Layer -> Device]
    /\ held \in [Layer -> Nat]
    /\ \A l \in Layer : held[l] <= Size[l] /\ (dev_layer[l] # Gpu => held[l] = 0)
    /\ free_vram \in Nat

\* A placed layer is on a device of the model, holds no more than its size there
\* and leaves VRAM non-negative.
LEMMA PlacedType ==
    ASSUME TypeOK, NEW il \in Layer, NEW dev \in Device, CanMigrate(il, dev), Placed(il,
       dev)
    PROVE  HeldOK'
<1>1. Size[il] \in Nat /\ held[il] \in Nat /\ held[il] <= Size[il] /\ free_vram \in Nat
  BY LayerAssumption DEF TypeOK
<1>2. /\ HeldAfter(il, dev) \in Nat
      /\ HeldAfter(il, dev) <= Size[il]
      /\ dev # Gpu => HeldAfter(il, dev) = 0
  BY <1>1 DEF HeldAfter, TypeOK
<1>3. free_vram' \in Nat
  <2>1. CASE dev_layer[il] = dev
    BY <1>1, <2>1 DEF Placed, VramAfter, HeldAfter
  <2>2. CASE dev_layer[il] # dev
    BY <1>1, <1>2, <2>2 DEF Placed, CanMigrate, VramAfter
  <2> QED
    BY <2>1, <2>2
<1>4. dev_layer' \in [Layer -> Device] /\ held' \in [Layer -> Nat]
  BY <1>2 DEF TypeOK, Placed
<1>5. ASSUME NEW l \in Layer
      PROVE  held'[l] <= Size[l] /\ (dev_layer'[l] # Gpu => held'[l] = 0)
  <2>1. CASE l = il
    BY <1>2, <2>1 DEF TypeOK, Placed
  <2>2. CASE l # il
    BY <2>2 DEF TypeOK, Placed
  <2> QED
    BY <2>1, <2>2
<1> QED
  BY <1>3, <1>4, <1>5 DEF HeldOK

LEMMA TimedType ==
    ASSUME TypeOK, NEW il, NEW dev, NEW slow \in BOOLEAN, Timed(il, dev, slow)
    PROVE  copy_cooldown_remaining' \in 0 .. CooldownDecodes
BY SettingAssumption DEF TypeOK, Timed

LEMMA CountTickType ==
    ASSUME ticks_since_slow \in 0 .. CooldownDecodes, NEW slow \in BOOLEAN, CountTick(slow)
    PROVE  ticks_since_slow' \in 0 .. CooldownDecodes
BY SettingAssumption DEF CountTick, Min2

\* The types of the memory-independent part of the state after a step of Observe.
LEMMA ObserveType ==
    ASSUME TypeOK, Observe
    PROVE  /\ decode_counter' \in 0 .. Interval - 1
           /\ last_cpu_load' \in {"unknown", "ok", "busy"}
           /\ home' \in [Layer -> Device] /\ touched' \subseteq Layer
           /\ host_load' \in {"ok", "busy"} /\ ram_low' \in BOOLEAN
<1>1. decode_counter' \in 0 .. Interval - 1
  BY CounterStep DEF TypeOK, Observe
<1> QED
  BY <1>1 DEF TypeOK, Observe, Sample, hostVars

LEMMA DemoteType ==
    ASSUME TypeOK, NEW il \in Layer, NEW slow \in BOOLEAN, Demote(il, slow)
    PROVE  TypeOK'
<1> USE DEF Demote, DemoteDecision, CursorBelow
<1>1. HeldOK' /\ copy_cooldown_remaining' \in 0 .. CooldownDecodes
  BY PlacedType, TimedType DEF Device, Timed
<1>2. ticks_since_slow' \in 0 .. CooldownDecodes
  BY CountTickType DEF TypeOK
<1>3. demoted_layers' \in Seq(Layer) /\ demote_cursor' \in -1 .. NLayer - 1
  BY LayerAssumption DEF TypeOK, Layer
<1>4. last_auto' \in AutoMove /\ quiet' \in BOOLEAN
  BY DEF AutoMove
<1> QED
  BY <1>1, <1>2, <1>3, <1>4, ObserveType DEF TypeOK, HeldOK, Ready, Cooling

LEMMA PromoteType ==
    ASSUME TypeOK, NEW slow \in BOOLEAN, Promote(slow)
    PROVE  TypeOK' /\ Top \in Layer
<1> USE DEF Promote, PromoteDecision, PopTop, CursorBelow
<1>1. Top \in Layer
  BY DEF TypeOK, CanPromote, Top
<1>2. HeldOK' /\ copy_cooldown_remaining' \in 0 .. CooldownDecodes
  BY <1>1, PlacedType, TimedType DEF Device, Timed
<1>3. ticks_since_slow' \in 0 .. CooldownDecodes
  BY CountTickType DEF TypeOK
<1>4. demoted_layers' \in Seq(Layer)
  BY DEF TypeOK, CanPromote
<1>5. demote_cursor' \in -1 .. NLayer - 1
  BY <1>1, LayerAssumption DEF Layer
<1>6. last_auto' \in AutoMove /\ quiet' \in BOOLEAN
  BY <1>1 DEF AutoMove
<1> QED
  BY <1>1, <1>2, <1>3, <1>4, <1>5, <1>6, ObserveType DEF TypeOK, HeldOK, Ready, Cooling

LEMMA InitType == Init => TypeOK
<1> SUFFICES ASSUME Init PROVE TypeOK
  OBVIOUS
<1>1. dev_layer \in [Layer -> Device]
  BY DEF Init, Device
<1>2. demote_cursor \in -1 .. NLayer - 1
  BY LayerAssumption DEF Init
<1>3. /\ copy_cooldown_remaining \in 0 .. CooldownDecodes
      /\ ticks_since_slow \in 0 .. CooldownDecodes
      /\ decode_counter \in 0 .. Interval - 1
      /\ free_vram \in Nat
  BY SettingAssumption DEF Init
<1>4. /\ home \in [Layer -> Device] /\ touched \subseteq Layer
      /\ demoted_layers \in Seq(Layer)
      /\ last_auto \in AutoMove \cup {NoMove}
  BY <1>1 DEF Init
<1>5. /\ last_cpu_load \in {"unknown", "ok", "busy"} /\ host_load \in {"ok", "busy"}
      /\ ram_low \in BOOLEAN /\ quiet \in BOOLEAN
  BY DEF Init
<1>6. /\ held \in [Layer -> Nat]
      /\ \A l \in Layer : held[l] <= Size[l] /\ (dev_layer[l] # Gpu => held[l] = 0)
  <2>1. UNION {0 .. Size[l] : l \in Layer} \subseteq Nat
    BY LayerAssumption
  <2> QED
    BY <2>1 DEF Init, Holdings
<1> QED
  BY <1>1, <1>2, <1>3, <1>4, <1>5, <1>6 DEF TypeOK

LEMMA NextType == TypeOK /\ [Next]_vars => TypeOK'
<1> SUFFICES ASSUME TypeOK, [Next]_vars PROVE TypeOK'
  OBVIOUS
<1>1. CASE OffTick
  BY <1>1, CounterStep DEF TypeOK, OffTick, hostVars, historyVars
<1>2. CASE BlindTick
  BY <1>2, CounterStep DEF TypeOK, BlindTick, hostVars, historyVars
<1>3. CASE CoolingTick
  <2>1. copy_cooldown_remaining' \in 0 .. CooldownDecodes
    BY <1>3, SettingAssumption DEF TypeOK, CoolingTick, Cooling
  <2>2. ticks_since_slow' \in 0 .. CooldownDecodes
    BY <1>3, CountTickType DEF TypeOK, CoolingTick, Cooling
  <2> QED
    BY <1>3, <2>1, <2>2, ObserveType DEF TypeOK, CoolingTick, Cooling
<1>4. CASE PressureTick
  BY <1>4, ObserveType, CountTickType DEF TypeOK, PressureTick, Ready, NoAutoMove
<1>5. CASE DemoteTick
  BY <1>5, DemoteType DEF DemoteTick
<1>6. CASE PromoteTick
  BY <1>6, PromoteType DEF PromoteTick
<1>7. CASE CalmTick
  BY <1>7, ObserveType, CountTickType DEF TypeOK, CalmTick, Ready, NoAutoMove
<1>8. CASE Manual
  <2> PICK il \in Layer, dev \in Device, slow \in BOOLEAN : ManualMigrate(il, dev, slow)
    BY <1>8 DEF Manual
  <2> USE DEF ManualMigrate, ManualDecision
  <2>1. HeldOK' /\ copy_cooldown_remaining' \in 0 .. CooldownDecodes
    BY PlacedType, TimedType DEF Timed
  <2>2. ticks_since_slow' \in 0 .. CooldownDecodes
    BY SettingAssumption DEF TypeOK
  <2>3. quiet' \in BOOLEAN /\ touched' \subseteq Layer
    BY DEF TypeOK
  <2> QED
    BY <2>1, <2>2, <2>3 DEF TypeOK, HeldOK, hostVars
<1>9. CASE VramChanges
  <2>1. free_vram' \in Nat
    BY <1>9, SettingAssumption DEF VramChanges
  <2>2. quiet' \in BOOLEAN
    BY <1>9 DEF VramChanges
  <2> QED
    BY <1>9, <2>1, <2>2 DEF TypeOK, VramChanges, policyVars, hostVars
<1>10. CASE HostChanges
  BY <1>10 DEF TypeOK, HostChanges, policyVars, historyVars
<1>11. CASE UNCHANGED vars
  BY <1>11 DEF TypeOK, vars, policyVars, hostVars, historyVars
<1> QED
  BY <1>1, <1>2, <1>3, <1>4, <1>5, <1>6, <1>7, <1>8, <1>9, <1>10, <1>11 DEF Next, Tick

(* Every variable of the policy keeps its type. *)
THEOREM TypeCorrect == Spec => []TypeOK
BY InitType, NextType, PTL DEF Spec

-----------------------------------------------------------------------------
(* Cooldown: what is still to sit out makes up for the ticks already sat out. *)

CooldownInv == ticks_since_slow + copy_cooldown_remaining >= CooldownDecodes

LEMMA NextCooldown == TypeOK /\ CooldownInv /\ [Next]_vars => CooldownInv'
<1> SUFFICES ASSUME TypeOK, CooldownInv, [Next]_vars PROVE CooldownInv'
  OBVIOUS
<1> USE SettingAssumption DEF TypeOK, CooldownInv
<1>1. ASSUME UNCHANGED <<ticks_since_slow, copy_cooldown_remaining>> PROVE CooldownInv'
  BY <1>1
<1>2. CASE OffTick \/ BlindTick \/ VramChanges \/ HostChanges \/ UNCHANGED vars
  BY <1>1, <1>2 DEF OffTick, BlindTick, VramChanges, HostChanges, vars, policyVars,
     historyVars
<1>3. CASE CoolingTick
  BY <1>3 DEF CoolingTick, Cooling, CountTick, Min2
<1>4. CASE PressureTick \/ CalmTick
  BY <1>4 DEF PressureTick, CalmTick, NoAutoMove, CountTick, Min2
<1>5. CASE DemoteTick
  BY <1>5 DEF DemoteTick, Demote, DemoteDecision, CursorBelow, Timed, CountTick, Min2
<1>6. CASE PromoteTick
  BY <1>6 DEF PromoteTick, Promote, PromoteDecision, PopTop, CursorBelow, Timed,
     CountTick, Min2
<1>7. CASE Manual
  BY <1>7 DEF Manual, ManualMigrate, ManualDecision, Timed
<1> QED
  BY <1>2, <1>3, <1>4, <1>5, <1>6, <1>7 DEF Next, Tick

\* Only a successful demotion or promotion touches the stack.
LEMMA StackChanges ==
    ASSUME [Next]_vars, demoted_layers' # demoted_layers
    PROVE  DemoteTick \/ PromoteTick
BY DEF Next, Tick, OffTick, BlindTick, CoolingTick, Cooling, PressureTick, CalmTick,
   NoAutoMove, Manual,
       ManualMigrate, ManualDecision, VramChanges, HostChanges, vars, policyVars

(* The policy moves no layer before it sat out copy_cooldown_decodes policy  *)
(* ticks after a slow copy.                                                  *)
THEOREM CooldownTheorem == Spec => CooldownRespected
<1>1. Init => CooldownInv
  BY SettingAssumption DEF Init, CooldownInv
<1>2. TypeOK /\ CooldownInv /\ [Next]_vars
      => [demoted_layers' # demoted_layers => ticks_since_slow = CooldownDecodes]_vars
  <2> SUFFICES ASSUME TypeOK, CooldownInv, [Next]_vars, demoted_layers' # demoted_layers
               PROVE  ticks_since_slow = CooldownDecodes
    OBVIOUS
  <2>1. ~Cooling
    BY StackChanges DEF DemoteTick, Demote, DemoteDecision, PromoteTick, Promote,
       PromoteDecision, Ready
  <2>2. copy_cooldown_remaining = 0
    BY <2>1 DEF TypeOK, Cooling
  <2> QED
    BY <2>2, SettingAssumption DEF TypeOK, CooldownInv
<1> QED
  BY <1>1, <1>2, NextCooldown, TypeCorrect, PTL DEF Spec, CooldownRespected

-----------------------------------------------------------------------------
(* Rotation: a move leaves the cursor just below the layer it moved.         *)

CursorInv == last_auto.dir # "none" => demote_cursor = last_auto.layer - 1

LEMMA NextCursor == CursorInv /\ [Next]_vars => CursorInv'
<1> SUFFICES ASSUME CursorInv, [Next]_vars PROVE CursorInv'
  OBVIOUS
<1>1. ASSUME UNCHANGED <<demote_cursor, last_auto>> PROVE CursorInv'
  BY <1>1 DEF CursorInv
<1>2. CASE DemoteTick
  BY <1>2 DEF DemoteTick, Demote, DemoteDecision, CursorBelow, CursorInv
<1>3. CASE PromoteTick
  BY <1>3 DEF PromoteTick, Promote, PromoteDecision, PopTop, CursorBelow, CursorInv
<1>4. CASE ~DemoteTick /\ ~PromoteTick
  BY <1>1, <1>4 DEF Next, Tick, OffTick, BlindTick, CoolingTick, Cooling, PressureTick,
     CalmTick,
     NoAutoMove, Manual, ManualMigrate, ManualDecision, VramChanges, HostChanges, vars,
        policyVars, historyVars
<1> QED
  BY <1>2, <1>3, <1>4

\* The layer just above the cursor is examined at the last attempt.
LEMMA LastAttempt ==
    ASSUME NEW l \in Layer, demote_cursor = l - 1, NEW k \in Layer, k # l
    PROVE  Attempt(k) < Attempt(l)
BY LayerAssumption DEF Attempt, Cursor, Layer

(* A layer promoted back is the last one to be demoted again.                *)
THEOREM RotationTheorem == Spec => RotatesVictims
<1> DEFINE Rotates == \A l \in Layer :
                        /\ last_auto = [dir |-> "promote", layer |-> l]
                        /\ last_auto' = [dir |-> "demote", layer |-> l]
                        => \A k \in Layer \ {l} : dev_layer[k] # Gpu
<1>1. Init => CursorInv
  BY DEF Init, CursorInv, NoMove
<1>2. TypeOK /\ CursorInv /\ [Next]_vars => [Rotates]_vars
  <2> SUFFICES ASSUME TypeOK, CursorInv, [Next]_vars,
                      NEW l \in Layer,
                      last_auto = [dir |-> "promote", layer |-> l],
                      last_auto' = [dir |-> "demote", layer |-> l],
                      NEW k \in Layer \ {l}, dev_layer[k] = Gpu
               PROVE  FALSE
    OBVIOUS
  <2>1. demote_cursor = l - 1
    BY DEF CursorInv
  <2>2. DemoteTick
    BY DEF Next, Tick, OffTick, BlindTick, CoolingTick, Cooling, PressureTick, CalmTick,
       PromoteTick,
       Promote, PromoteDecision, PopTop, CursorBelow, NoAutoMove, Manual, ManualMigrate,
          ManualDecision, VramChanges, HostChanges, vars, historyVars
  <2>3. PICK il \in Layer, slow \in BOOLEAN : Demote(il, slow)
    BY <2>2 DEF DemoteTick
  <2>4. il = l /\ IsVictim(il)
    BY <2>3 DEF Demote, DemoteDecision, CursorBelow
  <2>5. Attempt(l) <= Attempt(k)
    BY <2>4 DEF IsVictim
  <2>6. Attempt(k) < Attempt(l)
    BY <2>1, LastAttempt
  <2>7. Attempt(k) \in Int /\ Attempt(l) \in Int
    BY LayerAssumption DEF Attempt, Cursor, Layer, TypeOK
  <2> QED
    BY <2>5, <2>6, <2>7
<1> QED
  BY <1>1, <1>2, NextCursor, TypeCorrect, PTL DEF Spec, RotatesVictims

-----------------------------------------------------------------------------
(* Hysteresis: what the policy's last move left behind, as long as nobody    *)
(* else moved VRAM.                                                          *)

HysteresisInv ==
    quiet => /\ last_auto.dir = "demote" => free_vram <= RestoreFree
             /\ last_auto.dir = "promote" => free_vram >= MinFree

LEMMA NextHysteresis ==
    ASSUME HysteresisCoversLayers
    PROVE  TypeOK /\ HysteresisInv /\ [Next]_vars => HysteresisInv'
<1> SUFFICES ASSUME TypeOK, HysteresisInv, [Next]_vars
             PROVE  HysteresisInv'
  OBVIOUS
<1>1. ASSUME UNCHANGED <<free_vram, last_auto>>, quiet' => quiet PROVE HysteresisInv'
  BY <1>1 DEF HysteresisInv, RestoreFree
<1>2. CASE DemoteTick
  <2> PICK il \in Layer, slow \in BOOLEAN : Demote(il, slow)
    BY <1>2 DEF DemoteTick
  <2>1. free_vram < MinFree /\ free_vram' = free_vram + held[il] - 0
    BY DeviceAssumption DEF Demote, DemoteDecision, CursorBelow, IsVictim, Placed,
       VramAfter, HeldAfter
  <2>0. held[il] \in Nat /\ held[il] <= Size[il]
    BY DEF TypeOK
  <2>2. Size[il] \in Nat /\ Size[il] <= RestoreFree - MinFree + 1
    BY LayerAssumption DEF HysteresisCoversLayers
  <2>3. free_vram' <= RestoreFree
    BY <2>0, <2>1, <2>2, SettingFacts, SettingAssumption DEF TypeOK
  <2>4. last_auto'.dir = "demote" /\ RestoreFree' = RestoreFree
    BY DEF Demote, DemoteDecision, CursorBelow, RestoreFree
  <2> QED
    BY <2>3, <2>4 DEF HysteresisInv
<1>3. CASE PromoteTick
  <2> PICK slow \in BOOLEAN : Promote(slow)
    BY <1>3 DEF PromoteTick
  <2>0. Top \in Layer
    BY PromoteType
  <2>1. free_vram > RestoreFree /\ free_vram' = free_vram + held[Top] - HeldAfter(Top, Gpu)
    BY DEF Promote, PromoteDecision, PopTop, CursorBelow, CanPromote, Placed, VramAfter
  <2>2. Size[Top] \in Nat /\ Size[Top] <= RestoreFree - MinFree + 1
    BY <2>0, LayerAssumption DEF HysteresisCoversLayers
  <2>5. held[Top] \in Nat /\ (held[Top] = HeldAfter(Top, Gpu)
                              \/ (held[Top] = 0 /\ HeldAfter(Top, Gpu) = Size[Top]))
    BY <2>0 DEF TypeOK, HeldAfter
  <2>3. free_vram' >= MinFree
    BY <2>1, <2>2, <2>5, SettingFacts, SettingAssumption DEF TypeOK
  <2>4. last_auto'.dir = "promote"
    BY DEF Promote, PromoteDecision, PopTop, CursorBelow
  <2> QED
    BY <2>3, <2>4 DEF HysteresisInv
<1>4. CASE Manual
  <2> PICK il \in Layer, dev \in Device, slow \in BOOLEAN : ManualMigrate(il, dev, slow)
    BY <1>4 DEF Manual
  <2>1. CASE dev_layer[il] = dev
    <3>1. free_vram' = free_vram + held[il] - held[il] /\ held[il] \in Nat
      BY <2>1 DEF TypeOK, ManualMigrate, Placed, VramAfter, HeldAfter
    <3>2. free_vram' = free_vram
      BY <3>1 DEF TypeOK
    <3> QED
      BY <1>1, <2>1, <3>2 DEF ManualMigrate, ManualDecision
  <2>2. CASE dev_layer[il] # dev
    BY <2>2 DEF ManualMigrate, ManualDecision, HysteresisInv
  <2> QED
    BY <2>1, <2>2
<1>5. CASE VramChanges
  BY <1>5 DEF VramChanges, HysteresisInv
<1>6. CASE OffTick \/ BlindTick \/ CoolingTick \/ PressureTick \/ CalmTick \/ HostChanges
           \/ UNCHANGED vars
  <2>1. UNCHANGED <<free_vram, last_auto, quiet>>
    BY <1>6 DEF OffTick, BlindTick, CoolingTick, Cooling, PressureTick, CalmTick,
       HostChanges,
       NoAutoMove, vars, historyVars
  <2> QED
    BY <1>1, <2>1
<1> QED
  BY <1>2, <1>3, <1>4, <1>5, <1>6 DEF Next, Tick

(* When no layer is larger than the gap between the thresholds, the policy   *)
(* never undoes its own move while nobody else moves VRAM.                   *)
THEOREM HysteresisTheorem ==
    ASSUME HysteresisCoversLayers
    PROVE  Spec => NoBounce
<1>1. Init => HysteresisInv
  BY DEF Init, HysteresisInv
<1>2. TypeOK /\ HysteresisInv /\ [Next]_vars => [quiet => ~Reverses]_vars
  <2> SUFFICES ASSUME TypeOK, HysteresisInv, [Next]_vars, quiet, Reverses PROVE FALSE
    OBVIOUS
  <2>1. DemoteTick \/ PromoteTick
    BY DEF Reverses, Next, Tick, OffTick, BlindTick, CoolingTick, Cooling, PressureTick,
       CalmTick,
       NoAutoMove, Manual, ManualMigrate, ManualDecision, VramChanges, HostChanges, vars,
          historyVars
  <2>2. CASE DemoteTick
    <3>1. free_vram < MinFree /\ last_auto'.dir = "demote"
      BY <2>2 DEF DemoteTick, Demote, DemoteDecision, CursorBelow
    <3>2. last_auto.dir = "promote"
      BY <3>1 DEF TypeOK, AutoMove, NoMove, Reverses
    <3> QED
      BY <3>1, <3>2, SettingAssumption DEF HysteresisInv, TypeOK
  <2>3. CASE PromoteTick
    <3>1. free_vram > RestoreFree /\ last_auto'.dir = "promote"
      BY <2>3 DEF PromoteTick, Promote, PromoteDecision, PopTop, CursorBelow, CanPromote
    <3>2. last_auto.dir = "demote"
      BY <3>1 DEF TypeOK, AutoMove, NoMove, Reverses
    <3> QED
      BY <3>1, <3>2, SettingFacts DEF HysteresisInv, TypeOK
  <2> QED
    BY <2>1, <2>2, <2>3
<1> QED
  BY <1>1, <1>2, NextHysteresis, TypeCorrect, PTL DEF Spec, NoBounce

-----------------------------------------------------------------------------
(* Conservation: a layer the application leaves alone is at home or parked.  *)

\* Appending a layer to the stack, and taking the top off.
LEMMA PushFacts ==
    ASSUME demoted_layers \in Seq(Layer), NEW il \in Layer,
           demoted_layers' = Append(demoted_layers, il)
    PROVE  /\ Len(demoted_layers') = Len(demoted_layers) + 1
           /\ \A i \in 1 .. Len(demoted_layers) : demoted_layers'[i] = demoted_layers[i]
           /\ demoted_layers'[Len(demoted_layers) + 1] = il
           /\ Demoted' = Demoted \cup {il}
<1>1. /\ Len(demoted_layers') = Len(demoted_layers) + 1
      /\ \A i \in 1 .. Len(demoted_layers) : demoted_layers'[i] = demoted_layers[i]
      /\ demoted_layers'[Len(demoted_layers) + 1] = il
      /\ Len(demoted_layers) \in Nat
  OBVIOUS
<1>2. 1 .. Len(demoted_layers') = 1 .. Len(demoted_layers) \cup {Len(demoted_layers) + 1}
  BY <1>1
<1> QED
  BY <1>1, <1>2 DEF Demoted

\* A nonempty sequence without its last element.
LEMMA PopSequence ==
  ASSUME NEW S, NEW s \in Seq(S), s # <<>>
  PROVE  LET t == SubSeq(s, 1, Len(s) - 1) IN
         /\ t \in Seq(S)
         /\ Len(t) = Len(s) - 1
         /\ \A i \in 1 .. Len(s) - 1 : t[i] = s[i]
         /\ Len(s) \in Nat \ {0}
<1> DEFINE n == Len(s)
<1> DEFINE t == SubSeq(s, 1, n - 1)
<1>1. n \in Nat \ {0}
  BY EmptySeq
<1>2. \A i \in 1 .. n - 1 : s[i] \in S
  OBVIOUS
<1>3. /\ t \in Seq(S)
      /\ Len(t) = IF 1 <= n - 1 THEN n - 1 - 1 + 1 ELSE 0
      /\ \A i \in 1 .. n - 1 - 1 + 1 : t[i] = s[1 + i - 1]
  <2> HIDE DEF n
  <2>1. 1 \in Int /\ n - 1 \in Int
    BY <1>1
  <2> QED
    BY <1>2, <2>1, SubSeqProperties
<1> HIDE DEF n, t
<1>4. (IF 1 <= n - 1 THEN n - 1 - 1 + 1 ELSE 0) = n - 1
  BY <1>1
<1>5. \A i \in 1 .. n - 1 : t[i] = s[i]
  <2> TAKE i \in 1 .. n - 1
  <2>1. i \in 1 .. n - 1 - 1 + 1 /\ 1 + i - 1 = i
    BY <1>1
  <2> QED
    BY <1>3, <2>1
<1> QED
  BY <1>1, <1>3, <1>4, <1>5 DEF n, t

LEMMA PopFacts ==
    ASSUME demoted_layers \in Seq(Layer), demoted_layers # <<>>,
           demoted_layers' = SubSeq(demoted_layers, 1, Len(demoted_layers) - 1)
    PROVE  /\ Len(demoted_layers') = Len(demoted_layers) - 1
           /\ \A i \in 1 .. Len(demoted_layers) - 1 : demoted_layers'[i] = demoted_layers[i]
           /\ Len(demoted_layers) \in Nat \ {0}
           /\ Demoted = Demoted' \cup {Top}
<1>1. /\ Len(demoted_layers') = Len(demoted_layers) - 1
      /\ \A i \in 1 .. Len(demoted_layers) - 1 : demoted_layers'[i] = demoted_layers[i]
      /\ Len(demoted_layers) \in Nat \ {0}
  BY PopSequence
<1>2. 1 .. Len(demoted_layers) = 1 .. Len(demoted_layers') \cup {Len(demoted_layers)}
  BY <1>1
<1>3. \A i \in 1 .. Len(demoted_layers') : demoted_layers'[i] = demoted_layers[i]
  BY <1>1
<1>4. Len(demoted_layers) \in 1 .. Len(demoted_layers)
  BY <1>1
<1>5. ASSUME NEW i \in 1 .. Len(demoted_layers)
      PROVE  demoted_layers[i] \in Demoted' \cup {Top}
  BY <1>2, <1>3 DEF Demoted, Top
<1>6. Top \in Demoted
  BY <1>4 DEF Demoted, Top
<1>7. ASSUME NEW i \in 1 .. Len(demoted_layers') PROVE demoted_layers'[i] \in Demoted
  BY <1>2, <1>3 DEF Demoted
<1>8. Demoted = Demoted' \cup {Top}
  BY <1>5, <1>6, <1>7 DEF Demoted
<1> QED
  BY <1>1, <1>8

LEMMA NextParked == TypeOK /\ UntouchedIsHomeOrParked /\ [Next]_vars =>
   UntouchedIsHomeOrParked'
<1> SUFFICES ASSUME TypeOK, UntouchedIsHomeOrParked, [Next]_vars
             PROVE  UntouchedIsHomeOrParked'
  OBVIOUS
<1>1. ASSUME UNCHANGED <<dev_layer, home, demoted_layers, touched>>
      PROVE  UntouchedIsHomeOrParked'
  BY <1>1 DEF UntouchedIsHomeOrParked, Demoted
<1>2. CASE DemoteTick
  <2> PICK il \in Layer, slow \in BOOLEAN : Demote(il, slow)
    BY <1>2 DEF DemoteTick
  <2>1. /\ dev_layer' = [dev_layer EXCEPT ![il] = Cpu]
        /\ dev_layer[il] = Gpu
        /\ UNCHANGED <<home, touched>>
        /\ demoted_layers \in Seq(Layer)
        /\ demoted_layers' = Append(demoted_layers, il)
    BY DEF Demote, DemoteDecision, CursorBelow, IsVictim, Placed, Ready, Observe, TypeOK
  <2> SUFFICES ASSUME NEW l \in Layer \ touched
               PROVE  /\ dev_layer'[l] = IF l \in Demoted' THEN Cpu ELSE home[l]
                      /\ l \in Demoted' => home[l] = Gpu
                      /\ \A i, j \in 1 .. Len(demoted_layers') :
                            demoted_layers'[i] = l /\ demoted_layers'[j] = l => i = j
    BY <2>1 DEF UntouchedIsHomeOrParked
  <2>2. /\ dev_layer[l] = IF l \in Demoted THEN Cpu ELSE home[l]
        /\ l \in Demoted => home[l] = Gpu
        /\ \A i, j \in 1 .. Len(demoted_layers) :
              demoted_layers[i] = l /\ demoted_layers[j] = l => i = j
    BY DEF UntouchedIsHomeOrParked
  <2>3. dev_layer'[l] = IF l = il THEN Cpu ELSE dev_layer[l]
    BY <2>1 DEF TypeOK
  <2>4. il = l => l \notin Demoted
    BY <2>1, <2>2, DeviceAssumption
  <2>5. /\ Len(demoted_layers') = Len(demoted_layers) + 1
        /\ \A i \in 1 .. Len(demoted_layers) : demoted_layers'[i] = demoted_layers[i]
        /\ demoted_layers'[Len(demoted_layers) + 1] = il
        /\ Demoted' = Demoted \cup {il}
        /\ Len(demoted_layers) \in Nat
    BY <2>1, PushFacts
  <2>6. dev_layer'[l] = IF l \in Demoted' THEN Cpu ELSE home[l]
    BY <2>2, <2>3, <2>5
  <2>7. l \in Demoted' => home[l] = Gpu
    BY <2>1, <2>2, <2>4, <2>5
  <2>8. ASSUME NEW i \in 1 .. Len(demoted_layers'), NEW j \in 1 .. Len(demoted_layers'),
               demoted_layers'[i] = l, demoted_layers'[j] = l
        PROVE  i = j
    <3>1. ASSUME NEW k \in 1 .. Len(demoted_layers'), demoted_layers'[k] = l
          PROVE  \/ k = Len(demoted_layers) + 1 /\ il = l
                 \/ k \in 1 .. Len(demoted_layers) /\ demoted_layers[k] = l /\ l \in Demoted
      BY <2>5, <3>1 DEF Demoted
    <3> QED
      BY <2>2, <2>4, <2>8, <3>1
  <2> QED
    BY <2>1, <2>6, <2>7, <2>8
<1>3. CASE PromoteTick
  <2> PICK slow \in BOOLEAN : Promote(slow)
    BY <1>3 DEF PromoteTick
  <2>1. /\ dev_layer' = [dev_layer EXCEPT ![Top] = Gpu]
        /\ UNCHANGED <<home, touched>>
        /\ demoted_layers \in Seq(Layer) /\ demoted_layers # <<>>
        /\ demoted_layers' = SubSeq(demoted_layers, 1, Len(demoted_layers) - 1)
        /\ Top \in Layer
    BY PromoteType DEF Promote, PromoteDecision, PopTop, CursorBelow, CanPromote, Placed,
       Ready, Observe, TypeOK
  <2> SUFFICES ASSUME NEW l \in Layer \ touched
               PROVE  /\ dev_layer'[l] = IF l \in Demoted' THEN Cpu ELSE home[l]
                      /\ l \in Demoted' => home[l] = Gpu
                      /\ \A i, j \in 1 .. Len(demoted_layers') :
                            demoted_layers'[i] = l /\ demoted_layers'[j] = l => i = j
    BY <2>1 DEF UntouchedIsHomeOrParked
  <2>2. /\ dev_layer[l] = IF l \in Demoted THEN Cpu ELSE home[l]
        /\ l \in Demoted => home[l] = Gpu
        /\ \A i, j \in 1 .. Len(demoted_layers) :
              demoted_layers[i] = l /\ demoted_layers[j] = l => i = j
    BY DEF UntouchedIsHomeOrParked
  <2>3. dev_layer'[l] = IF l = Top THEN Gpu ELSE dev_layer[l]
    BY <2>1 DEF TypeOK
  <2>4. /\ Len(demoted_layers') = Len(demoted_layers) - 1
        /\ \A i \in 1 .. Len(demoted_layers) - 1 : demoted_layers'[i] = demoted_layers[i]
        /\ Len(demoted_layers) \in Nat \ {0}
        /\ Demoted = Demoted' \cup {Top}
    BY <2>1, PopFacts
  <2>5. l = Top => l \notin Demoted'
    <3> SUFFICES ASSUME l = Top, NEW i \in 1 .. Len(demoted_layers'), demoted_layers'[i] = l
                 PROVE  FALSE
      BY DEF Demoted
    <3>1. /\ i \in 1 .. Len(demoted_layers) /\ demoted_layers[i] = l
          /\ Len(demoted_layers) \in 1 .. Len(demoted_layers)
          /\ demoted_layers[Len(demoted_layers)] = l
          /\ i # Len(demoted_layers)
      BY <2>4 DEF Top
    <3> QED
      BY <2>2, <3>1
  <2>6. dev_layer'[l] = IF l \in Demoted' THEN Cpu ELSE home[l]
    BY <2>2, <2>3, <2>4, <2>5
  <2>7. l \in Demoted' => home[l] = Gpu
    BY <2>2, <2>4
  <2>8. \A i, j \in 1 .. Len(demoted_layers') :
           demoted_layers'[i] = l /\ demoted_layers'[j] = l => i = j
    BY <2>2, <2>4
  <2> QED
    BY <2>1, <2>6, <2>7, <2>8
<1>4. CASE Manual
  <2> PICK il \in Layer, dev \in Device, slow \in BOOLEAN : ManualMigrate(il, dev, slow)
    BY <1>4 DEF Manual
  <2>1. /\ touched' = touched \cup {il}
        /\ UNCHANGED <<home, demoted_layers>>
        /\ \A l \in Layer \ touched' : dev_layer'[l] = dev_layer[l]
    BY DEF ManualMigrate, ManualDecision, Placed, TypeOK
  <2> QED
    BY <2>1 DEF UntouchedIsHomeOrParked, Demoted
<1>5. CASE OffTick \/ BlindTick \/ CoolingTick \/ PressureTick \/ CalmTick \/ VramChanges
           \/ HostChanges \/ UNCHANGED vars
  <2>1. UNCHANGED <<dev_layer, home, demoted_layers, touched>>
    BY <1>5 DEF OffTick, BlindTick, CoolingTick, Cooling, PressureTick, CalmTick,
       VramChanges,
       HostChanges, Ready, Observe, NoAutoMove, vars, policyVars, historyVars
  <2> QED
    BY <1>1, <2>1
<1> QED
  BY <1>2, <1>3, <1>4, <1>5 DEF Next, Tick

(* A layer the application never moves is on the CPU exactly while it is     *)
(* once in demoted_layers, and where it was loaded otherwise.                *)
THEOREM ParkedTheorem == Spec => []UntouchedIsHomeOrParked
<1>1. Init => UntouchedIsHomeOrParked
  BY DEF Init, UntouchedIsHomeOrParked, Demoted
<1> QED
  BY <1>1, NextParked, TypeCorrect, PTL DEF Spec

================================================================================
