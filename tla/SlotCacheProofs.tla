--------------------------- MODULE SlotCacheProofs ---------------------------
(* Theorems about SlotCache and their proofs. *)
EXTENDS SlotCache, TLAPS

--------------------------------------------------------------------------------
(* The operators on the index. *)

\* What refresh_cache_index() does to an entry.
LEMMA RefreshedFacts ==
    ASSUME NEW index \in Index
    PROVE  /\ Refreshed(index) \in Index
           /\ \A k \in Key :
                /\ Refreshed(index)[k] = "none" <=> index[k] = "none"
                /\ slots[k] # NoFile /\ index[k] # "none"
                      => Refreshed(index)[k] = "available"
                /\ slots[k] = NoFile /\ index[k] = "planned"
                      => Refreshed(index)[k] = "planned"
<1>1. ASSUME NEW k \in Key
      PROVE  /\ Refreshed(index)[k] \in Status
             /\ Refreshed(index)[k] = "none" <=> index[k] = "none"
             /\ slots[k] # NoFile /\ index[k] # "none"
                   => Refreshed(index)[k] = "available"
             /\ slots[k] = NoFile /\ index[k] = "planned"
                   => Refreshed(index)[k] = "planned"
  <2>1. CASE index[k] = "none"
    BY <2>1 DEF Refreshed, Status
  <2>2. CASE index[k] # "none" /\ slots[k] # NoFile
    BY <2>2 DEF Refreshed, Status
  <2>3. CASE index[k] = "planned" /\ slots[k] = NoFile
    BY <2>3 DEF Refreshed, Status
  <2>4. CASE index[k] \notin {"none", "planned"} /\ slots[k] = NoFile
    BY <2>4 DEF Refreshed, Status
  <2>5. QED
    BY <2>1, <2>2, <2>3, <2>4
<1>2. Refreshed(index) \in Index
  BY <1>1 DEF Refreshed, Index
<1>3. QED
  BY <1>1, <1>2

\* cmd_cache_prune() without --drop-planned keeps what is planned or available.
LEMMA PrunedFacts ==
    ASSUME NEW index \in Index, NEW drop \in BOOLEAN
    PROVE  /\ Pruned(index, drop) \in Index
           /\ \A k \in Key :
                index[k] = "available" \/ (index[k] = "planned" /\ ~drop)
                    => Pruned(index, drop)[k] = index[k]
BY DEF Pruned, Index, Status

--------------------------------------------------------------------------------
(* Types. *)

LEMMA TypeInit == Init => TypeOK
BY SlotConstants DEF Init, TypeOK, NoEntries, Index, Status, Step

LEMMA PlanTypes ==
    ASSUME TypeOK, NEW c \in Client, NEW index \in Index, NEW j \in Job \cup {NoJob}
    PROVE  /\ GoesOnToSave(c, index, j) => TypeOK'
           /\ j # NoJob /\ pc[c] = "idle" /\ GivesUnregistered(c, j) => TypeOK'
BY DEF TypeOK, GoesOnToSave, GivesUnregistered, Step

LEMMA JobTypes ==
    ASSUME TypeOK, NEW r \in Request
    PROVE  /\ PlannedKey(r) \in Key
           /\ CreateJob(r) \in Job
           /\ \A k \in Key : ReuseJob(r, k) \in Job
BY DEF TypeOK, PlannedKey, CreateJob, ReuseJob, Job, Key

LEMMA CommandTypes ==
    ASSUME TypeOK, NEW c \in Client, Command(c)
    PROVE  TypeOK'
<1>1. CASE \E r \in Request : PlanCreate(c, r)
  <2>1. PICK r \in Request : PlanCreate(c, r)
    BY <1>1
  <2>2. /\ index_file \in Index /\ pc[c] = "idle"
        /\ PlannedKey(r) \in Key /\ CreateJob(r) \in Job
    BY <2>1, JobTypes DEF PlanCreate, CanStart
  <2>3. Upserted(Refreshed(index_file), PlannedKey(r)) \in Index
    BY <2>2, RefreshedFacts DEF Upserted, Index, Status
  <2>4. QED
    BY <2>1, <2>2, <2>3, PlanTypes, SlotConstants DEF PlanCreate
<1>2. CASE \E r \in Request : PlanReuse(c, r)
  <2>1. PICK r \in Request : PlanReuse(c, r)
    BY <1>2
  <2>2. index_file \in Index /\ pc[c] = "idle" /\ Refreshed(index_file) \in Index
    BY <2>1, RefreshedFacts DEF PlanReuse, CanStart
  <2>3. PICK k \in Key : \/ GoesOnToSave(c, Refreshed(index_file), ReuseJob(r, k))
                         \/ GivesUnregistered(c, ReuseJob(r, k))
    BY <2>1 DEF PlanReuse, Matches
  <2>4. QED
    BY <2>2, <2>3, PlanTypes, JobTypes, SlotConstants
<1>3. CASE SaveRefreshed(c)
  BY <1>3, PlanTypes, RefreshedFacts DEF SaveRefreshed, CanStart
<1>4. CASE Prune(c)
  BY <1>4, PlanTypes, RefreshedFacts, PrunedFacts DEF Prune, CanStart
<1>5. CASE Truncate(c)
  BY <1>5 DEF Truncate, TypeOK, Step
<1>6. CASE Write(c)
  BY <1>6 DEF Write, AfterSave, TypeOK, Step, NoEntries, Index, Status
<1>7. QED
  BY <1>1, <1>2, <1>3, <1>4, <1>5, <1>6 DEF Command

LEMMA RunnerTypes ==
    ASSUME TypeOK, NEW c \in Client, Runner(c)
    PROVE  TypeOK'
<1>1. CASE pc[c] \in {"prefill", "saving"}
  <2>1. job[c] \in Job /\ job[c].key \in Key
    BY <1>1 DEF TypeOK, Job
  <2>2. \A complete \in BOOLEAN : Saved(c, complete) \in Slot
    BY <2>1 DEF Saved, Slot, TypeOK, Job
  <2>3. QED
    BY <1>1, <2>1, <2>2
       DEF Runner, Abandon, Prefill, OpenSlot, CloseSlot, SavedByOthers, UseExisting,
           ExistingIsGone, Restore, CanRestore, RestoreFails, TypeOK, Step
<1>2. CASE pc[c] \notin {"prefill", "saving"}
  BY <1>2 DEF Runner, Abandon, Prefill, OpenSlot, CloseSlot, UseExisting, ExistingIsGone,
              Restore, RestoreFails, CanRestore, Ends, TypeOK, Step
<1>3. QED
  BY <1>1, <1>2

LEMMA CrashTypes ==
    ASSUME TypeOK, NEW c \in Client, Crash(c)
    PROVE  TypeOK'
BY DEF Crash, Ends, TypeOK, Step, NoEntries, Index, Status

LEMMA TypeStep == TypeOK /\ [Next]_vars => TypeOK'
<1> SUFFICES ASSUME TypeOK, [Next]_vars PROVE TypeOK'
  OBVIOUS
<1>1. ASSUME NEW c \in Client, Command(c) \/ Runner(c) \/ Crash(c) PROVE TypeOK'
  BY <1>1, CommandTypes, RunnerTypes, CrashTypes
<1>2. ASSUME NEW k \in Key, DeleteSlot(k) PROVE TypeOK'
  BY <1>2 DEF DeleteSlot, TypeOK
<1>3. ASSUME NEW v \in Version, ReplaceModel(v) PROVE TypeOK'
  BY <1>3 DEF ReplaceModel, TypeOK
<1>4. CASE UNCHANGED vars
  BY <1>4 DEF vars, TypeOK
<1>5. QED
  BY <1>1, <1>2, <1>3, <1>4 DEF Next

\* Every reachable state has the right types, and a client holds a command exactly
\* while it has one to run.
THEOREM TypeCorrect == Spec => []TypeOK
BY TypeInit, TypeStep, PTL DEF Spec

--------------------------------------------------------------------------------
(* What a slot file holds. *)

\* Key and contents of every slot file, and key and request of every command, agree
\* on the prompt and the settings.
PromptInv ==
    /\ \A k \in Key : slots[k] # NoFile => slots[k].request = k.request
    /\ \A c \in Client : job[c] # NoJob => job[c].key.request = job[c].request

LEMMA PromptInit == Init => PromptInv
BY DEF Init, PromptInv

LEMMA PromptCommand ==
    ASSUME TypeOK, PromptInv, NEW c \in Client, Command(c)
    PROVE  PromptInv'
<1>1. CASE \E r \in Request : PlanCreate(c, r)
  <2>1. PICK r \in Request : PlanCreate(c, r)
    BY <1>1
  <2>2. job' = [job EXCEPT ![c] = CreateJob(r)] /\ slots' = slots
    BY <2>1 DEF PlanCreate, GoesOnToSave, GivesUnregistered
  <2>3. CreateJob(r).key.request = CreateJob(r).request
    BY DEF CreateJob, PlannedKey
  <2>4. QED
    BY <2>2, <2>3 DEF PromptInv, TypeOK
<1>2. CASE \E r \in Request : PlanReuse(c, r)
  <2>1. PICK r \in Request : PlanReuse(c, r)
    BY <1>2
  <2>2. PICK k \in Matches(Refreshed(index_file), r) :
          job' = [job EXCEPT ![c] = ReuseJob(r, k)] /\ slots' = slots
    BY <2>1 DEF PlanReuse, GoesOnToSave, GivesUnregistered
  <2>3. ReuseJob(r, k).key.request = ReuseJob(r, k).request
    BY DEF ReuseJob, Matches
  <2>4. QED
    BY <2>2, <2>3 DEF PromptInv, TypeOK
<1>3. CASE SaveRefreshed(c) \/ Prune(c)
  BY <1>3 DEF SaveRefreshed, Prune, GoesOnToSave, PromptInv, TypeOK
<1>4. CASE Truncate(c) \/ Write(c)
  BY <1>4 DEF Truncate, Write, PromptInv
<1>5. QED
  BY <1>1, <1>2, <1>3, <1>4 DEF Command

LEMMA PromptRunner ==
    ASSUME TypeOK, PromptInv, NEW c \in Client, Runner(c)
    PROVE  PromptInv'
<1>1. CASE OpenSlot(c) \/ CloseSlot(c)
  <2>1. job[c] # NoJob /\ job[c].key \in Key /\ job' = job
    BY <1>1 DEF OpenSlot, CloseSlot, TypeOK, Job
  <2>2. PICK complete \in BOOLEAN :
          slots' = [slots EXCEPT ![job[c].key] = Saved(c, complete)]
    BY <1>1 DEF OpenSlot, CloseSlot, SavedByOthers
  <2>3. Saved(c, complete).request = job[c].key.request
    BY <2>1 DEF Saved, PromptInv
  <2>4. QED
    BY <2>1, <2>2, <2>3 DEF PromptInv, TypeOK
<1>2. CASE ~(OpenSlot(c) \/ CloseSlot(c))
  BY <1>2 DEF Runner, Abandon, Prefill, UseExisting, ExistingIsGone, Restore,
              RestoreFails, Ends, PromptInv, TypeOK
<1>3. QED
  BY <1>1, <1>2

LEMMA PromptStep == TypeOK /\ PromptInv /\ [Next]_vars => PromptInv'
<1> SUFFICES ASSUME TypeOK, PromptInv, [Next]_vars PROVE PromptInv'
  OBVIOUS
<1>1. ASSUME NEW c \in Client, Command(c) \/ Runner(c) PROVE PromptInv'
  BY <1>1, PromptCommand, PromptRunner
<1>2. ASSUME NEW c \in Client, Crash(c) PROVE PromptInv'
  BY <1>2 DEF Crash, Ends, PromptInv, TypeOK
<1>3. ASSUME NEW k \in Key, DeleteSlot(k) PROVE PromptInv'
  BY <1>3 DEF DeleteSlot, PromptInv, TypeOK
<1>4. ASSUME NEW v \in Version, ReplaceModel(v) PROVE PromptInv'
  BY <1>4 DEF ReplaceModel, PromptInv
<1>5. CASE UNCHANGED vars
  BY <1>5 DEF vars, PromptInv
<1>6. QED
  BY <1>1, <1>2, <1>3, <1>4, <1>5 DEF Next

\* A slot that the runner restores was saved for the prompt and settings of its
\* request, however commands overlap, crash and delete.
THEOREM PromptTheorem == Spec => []RestoresItsPrompt
<1>1. TypeOK /\ PromptInv => RestoresItsPrompt
  <2> SUFFICES ASSUME TypeOK, PromptInv, NEW c \in Client, CanRestore(c)
               PROVE  slots[job[c].key].request = job[c].request
    BY DEF RestoresItsPrompt
  <2>1. job[c] # NoJob /\ job[c].key \in Key
    BY DEF CanRestore, TypeOK, Job
  <2>2. QED
    BY <2>1 DEF CanRestore, PromptInv
<1>2. QED
  BY PromptInit, PromptStep, TypeCorrect, <1>1, PTL DEF Spec

--------------------------------------------------------------------------------
(* Which model made a slot file. *)

\* While commands refer to the model file it stays, so that keys, commands, loaded
\* models and slot files agree on it.
ModelInv ==
    /\ \A k \in Key : slots[k] # NoFile => slots[k].version = k.version
    /\ \A c \in Client : job[c] # NoJob => job[c].key.version = model
    /\ \A c \in Client : pc[c] \in {"prefill", "saving"} => loaded[c] = model

LEMMA ModelInit == Init => ModelInv
BY DEF Init, ModelInv

LEMMA ModelCommand ==
    ASSUME SizesTellVersions, TypeOK, ModelInv, NEW c \in Client, Command(c)
    PROVE  ModelInv'
<1>1. CASE \E r \in Request : PlanCreate(c, r)
  <2>1. PICK r \in Request : PlanCreate(c, r)
    BY <1>1
  <2>2. /\ job' = [job EXCEPT ![c] = CreateJob(r)]
        /\ pc' \in {[pc EXCEPT ![c] = "truncate"], [pc EXCEPT ![c] = "planned"]}
        /\ UNCHANGED <<slots, model, loaded>>
    BY <2>1 DEF PlanCreate, GoesOnToSave, GivesUnregistered
  <2>3. CreateJob(r).key.version = model
    BY DEF CreateJob, PlannedKey
  <2>4. QED
    BY <2>2, <2>3 DEF ModelInv, TypeOK
<1>2. CASE \E r \in Request : PlanReuse(c, r)
  <2>1. PICK r \in Request : PlanReuse(c, r)
    BY <1>2
  <2>2. PICK k \in Matches(Refreshed(index_file), r) :
          /\ job' = [job EXCEPT ![c] = ReuseJob(r, k)]
          /\ pc' \in {[pc EXCEPT ![c] = "truncate"], [pc EXCEPT ![c] = "planned"]}
          /\ UNCHANGED <<slots, model, loaded>>
    BY <2>1 DEF PlanReuse, GoesOnToSave, GivesUnregistered
  <2>3. k \in Key /\ SizeOf[k.version] = SizeOf[model]
    BY DEF Matches
  <2>4. k.version = model
    BY <2>3 DEF SizesTellVersions, TypeOK, Key
  <2>5. ReuseJob(r, k).key.version = model
    BY <2>4 DEF ReuseJob
  <2>6. QED
    BY <2>2, <2>5 DEF ModelInv, TypeOK
<1>3. CASE SaveRefreshed(c) \/ Prune(c)
  BY <1>3 DEF SaveRefreshed, Prune, GoesOnToSave, ModelInv, TypeOK
<1>4. CASE Truncate(c) \/ Write(c)
  BY <1>4 DEF Truncate, Write, AfterSave, ModelInv, TypeOK
<1>5. QED
  BY <1>1, <1>2, <1>3, <1>4 DEF Command

LEMMA ModelRunner ==
    ASSUME TypeOK, ModelInv, NEW c \in Client, Runner(c)
    PROVE  ModelInv'
<1>1. CASE OpenSlot(c) \/ CloseSlot(c)
  <2>1. /\ job[c] # NoJob /\ job[c].key \in Key /\ loaded[c] = model
        /\ UNCHANGED <<job, model, loaded>>
    BY <1>1 DEF OpenSlot, CloseSlot, TypeOK, Job, ModelInv
  <2>2. PICK complete \in BOOLEAN :
          slots' = [slots EXCEPT ![job[c].key] = Saved(c, complete)]
    BY <1>1 DEF OpenSlot, CloseSlot, SavedByOthers
  <2>3. Saved(c, complete).version = job[c].key.version
    BY <2>1 DEF Saved, ModelInv
  <2>4. pc' \in {[pc EXCEPT ![c] = "saving"], [pc EXCEPT ![c] = "restore"]}
    BY <1>1 DEF OpenSlot, CloseSlot
  <2>5. QED
    BY <2>1, <2>2, <2>3, <2>4 DEF ModelInv, TypeOK
<1>2. CASE ~(OpenSlot(c) \/ CloseSlot(c))
  BY <1>2 DEF Runner, Abandon, Prefill, UseExisting, ExistingIsGone, Restore,
              RestoreFails, Ends, ModelInv, TypeOK
<1>3. QED
  BY <1>1, <1>2

LEMMA ModelStep ==
    ASSUME SizesTellVersions, ~CarelessReplaces
    PROVE  TypeOK /\ ModelInv /\ [Next]_vars => ModelInv'
<1> SUFFICES ASSUME TypeOK, ModelInv, [Next]_vars PROVE ModelInv'
  OBVIOUS
<1>1. ASSUME NEW c \in Client, Command(c) \/ Runner(c) PROVE ModelInv'
  BY <1>1, ModelCommand, ModelRunner
<1>2. ASSUME NEW c \in Client, Crash(c) PROVE ModelInv'
  BY <1>2 DEF Crash, Ends, ModelInv, TypeOK
<1>3. ASSUME NEW k \in Key, DeleteSlot(k) PROVE ModelInv'
  BY <1>3 DEF DeleteSlot, ModelInv, TypeOK
<1>4. ASSUME NEW v \in Version, ReplaceModel(v) PROVE ModelInv'
  <2>1. \A c \in Client : job[c] = NoJob /\ pc[c] \notin {"prefill", "saving"}
    BY <1>4 DEF ReplaceModel, TypeOK
  <2>2. QED
    BY <1>4, <2>1 DEF ReplaceModel, ModelInv
<1>5. CASE UNCHANGED vars
  BY <1>5 DEF vars, ModelInv
<1>6. QED
  BY <1>1, <1>2, <1>3, <1>4, <1>5 DEF Next

\* If no two versions of the model file have the same size, and none replaces
\* another under a command, a restored slot comes from the model in use.
THEOREM ModelTheorem ==
    ASSUME SizesTellVersions, ~CarelessReplaces
    PROVE  Spec => []ReuseMatchesModel
<1>1. TypeOK /\ ModelInv => ReuseMatchesModel
  <2> SUFFICES ASSUME TypeOK, ModelInv, NEW c \in Client, CanRestore(c)
               PROVE  slots[job[c].key].version = model
    BY DEF ReuseMatchesModel
  <2>1. job[c] # NoJob /\ job[c].key \in Key
    BY DEF CanRestore, TypeOK, Job
  <2>2. QED
    BY <2>1 DEF CanRestore, ModelInv
<1>2. TypeOK /\ ModelInv /\ [Next]_vars => ModelInv'
  BY ModelStep
<1>3. QED
  BY ModelInit, <1>2, TypeCorrect, <1>1, PTL DEF Spec

--------------------------------------------------------------------------------
(* Slots and the index, for a careful user. *)

Saving(c) == pc[c] \in {"truncate", "write"}

\* The index knows of the slot of k: as planned before the file is there, somehow
\* once it is.
Knows(index, k) == index[k] = "planned" \/ (index[k] # "none" /\ slots[k] # NoFile)

\* The index knows of every slot file, and of every slot a command is about to make.
Covers(index) ==
    /\ \A k \in Key : slots[k] # NoFile => index[k] # "none"
    /\ \A d \in Client : /\ pc[d] \in {"planned", "prefill"}
                         /\ job[d].strategy = "create"
                         => Knows(index, job[d].key)

\* One command of weak_llm.py at a time; the index on disk and the one about to be
\* written cover all slots, the latter also the one that its own command will make.
CoverInv ==
    /\ \A c, d \in Client : Saving(c) /\ Saving(d) => c = d
    /\ index_file \in Index => Covers(index_file)
    /\ \A c \in Client : Saving(c) =>
         /\ Covers(entries[c])
         /\ job[c] # NoJob /\ job[c].strategy = "create" => Knows(entries[c], job[c].key)
    /\ \A c \in Client : pc[c] = "saving" => slots[job[c].key] # NoFile

LEMMA CoverInit == Init => CoverInv
BY DEF Init, CoverInv, Covers, Saving, NoEntries

\* Refreshing keeps what the index knows, and pruning too as long as planned entries
\* stay.
LEMMA RefreshedCovers ==
    ASSUME TypeOK, NEW index \in Index, Covers(index)
    PROVE  Covers(Refreshed(index)) /\ Covers(Pruned(Refreshed(index), FALSE))
<1>1. \A d \in Client : pc[d] \in {"planned", "prefill"} => job[d].key \in Key
  BY DEF TypeOK, Job
<1>2. ASSUME NEW k \in Key
      PROVE  /\ slots[k] # NoFile /\ index[k] # "none" =>
                  /\ Refreshed(index)[k] = "available"
                  /\ Pruned(Refreshed(index), FALSE)[k] = "available"
             /\ Knows(index, k) => /\ Knows(Refreshed(index), k)
                                  /\ Knows(Pruned(Refreshed(index), FALSE), k)
  <2> DEFINE fresh == Refreshed(index)
  <2>1. /\ fresh \in Index
        /\ slots[k] # NoFile /\ index[k] # "none" => fresh[k] = "available"
        /\ slots[k] = NoFile /\ index[k] = "planned" => fresh[k] = "planned"
    BY RefreshedFacts
  <2>2. fresh[k] \in {"available", "planned"} => Pruned(fresh, FALSE)[k] = fresh[k]
    BY <2>1, PrunedFacts
  <2> HIDE DEF fresh
  <2>3. /\ slots[k] # NoFile /\ index[k] # "none" =>
             fresh[k] = "available" /\ Pruned(fresh, FALSE)[k] = "available"
        /\ Knows(index, k) => Knows(fresh, k) /\ Knows(Pruned(fresh, FALSE), k)
    BY <2>1, <2>2 DEF Knows
  <2>4. QED
    BY <2>3 DEF fresh
<1>3. ASSUME NEW kept, kept \in {Refreshed(index), Pruned(Refreshed(index), FALSE)}
      PROVE  Covers(kept)
  <2>1. \A k \in Key : slots[k] # NoFile => kept[k] = "available"
    BY <1>2, <1>3 DEF Covers
  <2>2. \A k \in Key : Knows(index, k) => Knows(kept, k)
    BY <1>2, <1>3
  <2>3. QED
    BY <1>1, <2>1, <2>2 DEF Covers
<1>4. QED
  BY <1>3

\* A command that saves an index which covers all slots.
LEMMA CoverSave ==
    ASSUME Serial, TypeOK, CoverInv, NEW c \in Client, CanStart(c),
           NEW index \in Index, Covers(index), NEW j \in Job \cup {NoJob},
           j # NoJob /\ j.strategy = "create" => Knows(index, j.key),
           GoesOnToSave(c, index, j)
    PROVE  CoverInv'
<1>1. \A d \in Client : ~Saving(d)
  BY DEF CanStart, Saving
<1>2. \A d \in Client : d # c => pc'[d] = pc[d] /\ job'[d] = job[d]
  BY DEF GoesOnToSave, TypeOK
<1>3. pc'[c] = "truncate" /\ entries'[c] = index /\ job'[c] = j
  BY DEF GoesOnToSave, TypeOK
<1>4. slots' = slots /\ index_file' = index_file
  BY DEF GoesOnToSave
<1>5. \A d \in Client : Saving(d)' => d = c
  BY <1>1, <1>2 DEF Saving
<1>6. Covers(index)' /\ (index_file \in Index => Covers(index_file)')
  BY <1>2, <1>3, <1>4 DEF Covers, Knows, CoverInv
<1>7. j # NoJob /\ j.strategy = "create" => Knows(index, j.key)'
  BY <1>4 DEF Knows
<1>8. \A d \in Client : pc'[d] = "saving" => slots'[job'[d].key] # NoFile
  BY <1>2, <1>3, <1>4 DEF CoverInv
<1>9. QED
  BY <1>3, <1>4, <1>5, <1>6, <1>7, <1>8 DEF CoverInv

LEMMA CoverWrite ==
    ASSUME Serial, TypeOK, CoverInv, NEW c \in Client, Truncate(c) \/ Write(c)
    PROVE  CoverInv'
<1>1. Saving(c) /\ \A d \in Client : Saving(d) => d = c
  BY DEF Truncate, Write, CoverInv, Saving
<1>2. slots' = slots /\ job' = job /\ \A d \in Client \ {c} : pc'[d] = pc[d]
  BY DEF Truncate, Write, TypeOK
<1>3. \A d \in Client \ {c} : ~Saving(d)'
  BY <1>1, <1>2 DEF Saving
<1>4. \A d \in Client : pc'[d] = "saving" => slots'[job'[d].key] # NoFile
  BY <1>2 DEF CoverInv, Truncate, Write, AfterSave, TypeOK
<1>5. PICK index : index = entries[c]
  OBVIOUS
<1>6. /\ Covers(index)
      /\ job[c] # NoJob /\ job[c].strategy = "create" => Knows(index, job[c].key)
  BY <1>1, <1>5 DEF CoverInv
<1>7. pc'[c] = "planned" => job[c] # NoJob
  BY DEF Truncate, Write, AfterSave, TypeOK
<1>8. pc'[c] # "prefill"
  BY DEF Truncate, Write, AfterSave, TypeOK
<1>9. Covers(index)'
  BY <1>2, <1>6, <1>7, <1>8 DEF Covers, Knows
<1>10. CASE Truncate(c)
  <2>1. entries' = entries /\ index_file' \notin Index
    BY <1>10, SlotConstants DEF Truncate
  <2>2. job'[c] # NoJob /\ job'[c].strategy = "create" => Knows(index, job[c].key)'
    BY <1>2, <1>6 DEF Knows
  <2>3. QED
    BY <1>2, <1>3, <1>4, <1>5, <1>9, <2>1, <2>2 DEF CoverInv
<1>11. CASE Write(c)
  <2>1. pc'[c] = AfterSave(c) /\ AfterSave(c) \in {"idle", "planned"}
    BY <1>11 DEF Write, AfterSave, TypeOK
  <2>2. ~Saving(c)'
    BY <2>1 DEF Saving
  <2>3. index_file' = index \/ index_file' \notin Index
    BY <1>5, <1>11, SlotConstants DEF Write
  <2>4. QED
    BY <1>3, <1>4, <1>9, <2>2, <2>3 DEF CoverInv
<1>12. QED
  BY <1>10, <1>11

LEMMA CoverCommand ==
    ASSUME CarefulUser, TypeOK, CoverInv, NEW c \in Client, Command(c)
    PROVE  CoverInv'
<1>1. Serial /\ ~Unregistered /\ ~DropPlanned
  BY DEF CarefulUser
<1>2. CASE Truncate(c) \/ Write(c)
  BY <1>1, <1>2, CoverWrite
<1>3. CASE ~(Truncate(c) \/ Write(c))
  <2>1. CanStart(c) /\ index_file \in Index
    BY <1>3 DEF Command, PlanCreate, PlanReuse, SaveRefreshed, Prune, CanStart
  <2> DEFINE index == Refreshed(index_file)
  <2>2. /\ index \in Index /\ Covers(index)
        /\ Pruned(index, FALSE) \in Index /\ Covers(Pruned(index, FALSE))
    BY <2>1, RefreshedFacts, RefreshedCovers, PrunedFacts DEF CoverInv
  <2>3. CASE \E r \in Request : PlanCreate(c, r)
    <3>1. PICK r \in Request : PlanCreate(c, r)
      BY <2>3
    <3> DEFINE added == Upserted(index, PlannedKey(r))
    <3>2. /\ PlannedKey(r) \in Key
          /\ CreateJob(r) \in Job /\ CreateJob(r).key = PlannedKey(r)
      BY JobTypes DEF CreateJob
    <3>3. GoesOnToSave(c, added, CreateJob(r))
      BY <1>1, <3>1 DEF PlanCreate, GivesUnregistered
    <3>4. added \in Index /\ \A k \in Key : added[k] = index[k] \/ added[k] = "planned"
      BY <2>2, <3>2 DEF Upserted, Index, Status
    <3>5. added[PlannedKey(r)] = "planned"
      BY <2>2, <3>2 DEF Upserted, Index
    <3>6. \A d \in Client : pc[d] \in {"planned", "prefill"} => job[d].key \in Key
      BY DEF TypeOK, Job
    <3>7. Covers(added)
      BY <2>2, <3>4, <3>6 DEF Covers, Knows
    <3>8. Knows(added, CreateJob(r).key)
      BY <3>2, <3>5 DEF Knows
    <3>9. QED
      BY <1>1, <2>1, <3>2, <3>3, <3>4, <3>7, <3>8, CoverSave
  <2>4. CASE \E r \in Request : PlanReuse(c, r)
    <3>1. PICK r \in Request, k \in Key : GoesOnToSave(c, index, ReuseJob(r, k))
      BY <1>1, <2>4 DEF PlanReuse, Matches, GivesUnregistered
    <3>2. ReuseJob(r, k) \in Job /\ ReuseJob(r, k).strategy # "create"
      BY JobTypes DEF ReuseJob
    <3>3. QED
      BY <1>1, <2>1, <2>2, <3>1, <3>2, CoverSave
  <2>5. CASE SaveRefreshed(c)
    BY <1>1, <2>1, <2>2, <2>5, CoverSave DEF SaveRefreshed
  <2>6. CASE Prune(c)
    <3>1. GoesOnToSave(c, Pruned(index, FALSE), NoJob)
      BY <1>1, <2>6 DEF Prune
    <3>2. QED
      BY <1>1, <2>1, <2>2, <3>1, CoverSave
  <2>7. QED
    BY <1>3, <2>3, <2>4, <2>5, <2>6 DEF Command
<1>4. QED
  BY <1>2, <1>3

LEMMA CoverRunner ==
    ASSUME CarefulUser, TypeOK, CoverInv, NEW c \in Client, Runner(c)
    PROVE  CoverInv'
<1>1. /\ index_file' = index_file /\ entries' = entries
      /\ ~Saving(c) /\ ~Saving(c)'
      /\ \A d \in Client \ {c} : pc'[d] = pc[d] /\ job'[d] = job[d]
  BY DEF Runner, Abandon, Prefill, OpenSlot, CloseSlot, UseExisting, ExistingIsGone,
         Restore, RestoreFails, CanRestore, Ends, TypeOK, Saving
<1>2. pc'[c] \in {"planned", "prefill"} =>
         pc[c] \in {"planned", "prefill"} /\ job'[c] = job[c]
  BY DEF Runner, Abandon, Prefill, OpenSlot, CloseSlot, UseExisting, ExistingIsGone,
         Restore, RestoreFails, Ends, TypeOK
<1>3. /\ \A k \in Key : slots[k] # NoFile => slots'[k] # NoFile
      /\ \A k \in Key : slots'[k] # slots[k] =>
           /\ k = job[c].key
           /\ slots[k] # NoFile \/ (pc[c] = "prefill" /\ job[c].strategy = "create")
      /\ pc'[c] = "saving" => job'[c] = job[c] /\ slots'[job[c].key] # NoFile
  <2>1. CASE OpenSlot(c) \/ CloseSlot(c)
    <3>1. job[c] \in Job /\ job[c].key \in Key /\ job' = job /\ job[c].strategy = "create"
      BY <2>1 DEF OpenSlot, CloseSlot, TypeOK, Job
    <3>2. PICK complete \in BOOLEAN :
            slots' = [slots EXCEPT ![job[c].key] = Saved(c, complete)]
      BY <2>1 DEF OpenSlot, CloseSlot, SavedByOthers
    <3>3. Saved(c, complete) \in Slot
      BY <3>1 DEF Saved, Slot, Job, TypeOK
    <3>4. pc[c] = "prefill" \/ slots[job[c].key] # NoFile
      BY <2>1 DEF OpenSlot, CloseSlot, CoverInv
    <3>5. QED
      BY <3>1, <3>2, <3>3, <3>4, SlotConstants DEF TypeOK
  <2>2. CASE ~(OpenSlot(c) \/ CloseSlot(c))
    BY <2>2 DEF Runner, Abandon, Prefill, UseExisting, ExistingIsGone, Restore,
                RestoreFails, Ends, TypeOK
  <2>3. QED
    BY <2>1, <2>2
<1>4. ASSUME NEW index, Covers(index) PROVE Covers(index)'
  <2>1. \A k \in Key : Knows(index, k) => Knows(index, k)'
    BY <1>3 DEF Knows
  <2>2. \A k \in Key : slots'[k] # NoFile => index[k] # "none"
    BY <1>3, <1>4 DEF Covers, Knows
  <2>3. \A d \in Client : pc[d] \in {"planned", "prefill"} => job[d].key \in Key
    BY DEF TypeOK, Job
  <2>4. \A d \in Client : pc'[d] \in {"planned", "prefill"} =>
          pc[d] \in {"planned", "prefill"} /\ job'[d] = job[d]
    BY <1>1, <1>2
  <2>5. \A d \in Client : /\ pc'[d] \in {"planned", "prefill"}
                          /\ job'[d].strategy = "create"
                          => Knows(index, job[d].key)'
    BY <1>4, <2>1, <2>3, <2>4 DEF Covers
  <2>6. QED
    BY <2>2, <2>5 DEF Covers
<1>5. index_file' \in Index => Covers(index_file)'
  BY <1>1, <1>4 DEF CoverInv
<1>6. ASSUME NEW d \in Client, Saving(d)'
      PROVE  /\ Covers(entries[d])'
             /\ job'[d] # NoJob /\ job'[d].strategy = "create"
                   => Knows(entries[d], job[d].key)'
  <2>1. d # c /\ Saving(d) /\ job'[d] = job[d]
    BY <1>1, <1>6 DEF Saving
  <2>2. PICK index : index = entries[d] /\ index = entries'[d]
    BY <1>1
  <2>3. Covers(index) /\ Covers(index)'
    BY <1>4, <2>1, <2>2 DEF CoverInv
  <2>4. job[d] # NoJob => job[d].key \in Key
    BY DEF TypeOK, Job
  <2>5. job[d] # NoJob /\ job[d].strategy = "create"
          => \/ Knows(index, job[d].key) /\ slots[job[d].key] # NoFile
             \/ index[job[d].key] = "planned"
    BY <2>1, <2>2 DEF CoverInv, Knows
  <2>6. QED
    BY <1>3, <2>1, <2>2, <2>3, <2>4, <2>5 DEF Knows
<1>7. \A d \in Client : pc'[d] = "saving" => slots'[job'[d].key] # NoFile
  <2>1. \A d \in Client : pc[d] = "saving" => job[d].key \in Key
    BY DEF TypeOK, Job
  <2>2. QED
    BY <1>1, <1>3, <2>1 DEF CoverInv
<1>8. \A d, e \in Client : Saving(d)' /\ Saving(e)' => d = e
  BY <1>1 DEF Saving, CoverInv
<1>9. QED
  BY <1>5, <1>6, <1>7, <1>8 DEF CoverInv

LEMMA CoverAround ==
    ASSUME ~CarelessDeletes, TypeOK, CoverInv,
           \/ \E k \in Key : DeleteSlot(k)
           \/ \E v \in Version : ReplaceModel(v)
           \/ UNCHANGED vars
    PROVE  CoverInv'
<1>1. CASE \E k \in Key : DeleteSlot(k)
  <2>1. PICK k \in Key : DeleteSlot(k)
    BY <1>1
  <2>2. /\ \A d \in Client : job[d] # NoJob => job[d].key # k /\ job[d].key \in Key
        /\ \A i \in Key : slots'[i] = IF i = k THEN NoFile ELSE slots[i]
        /\ UNCHANGED <<index_file, pc, entries, job>>
    BY <2>1 DEF DeleteSlot, TypeOK, Job
  <2>3. \A i \in Key : slots'[i] # NoFile => slots[i] # NoFile
    BY <2>2
  <2>4. \A d \in Client : pc[d] \in {"planned", "prefill", "saving"} => job[d] # NoJob
    BY DEF TypeOK
  <2>5. ASSUME NEW index, NEW d \in Client, job[d] # NoJob, Knows(index, job[d].key)
        PROVE  Knows(index, job[d].key)'
    BY <2>2, <2>5 DEF Knows
  <2>6. ASSUME NEW index, Covers(index) PROVE Covers(index)'
    BY <2>2, <2>3, <2>4, <2>5, <2>6 DEF Covers
  <2>7. index_file' \in Index => Covers(index_file)'
    BY <2>2, <2>6 DEF CoverInv
  <2>8. ASSUME NEW c \in Client, Saving(c)'
        PROVE  /\ Covers(entries[c])'
               /\ job'[c] # NoJob /\ job'[c].strategy = "create"
                     => Knows(entries[c], job[c].key)'
    <3>1. PICK index : index = entries[c] /\ index = entries'[c]
      BY <2>2
    <3>2. Saving(c)
      BY <2>2, <2>8 DEF Saving
    <3>3. QED
      BY <2>2, <2>5, <2>6, <3>1, <3>2 DEF CoverInv
  <2>9. QED
    BY <2>2, <2>4, <2>7, <2>8 DEF CoverInv, Saving
<1>2. CASE \E v \in Version : ReplaceModel(v)
  BY <1>2 DEF ReplaceModel, CoverInv, Covers, Knows, Saving
<1>3. CASE UNCHANGED vars
  BY <1>3 DEF vars, CoverInv, Covers, Knows, Saving
<1>4. QED
  BY <1>1, <1>2, <1>3

\* A careful user is offered every slot that exists: the index never forgets one.
THEOREM OfferedTheorem ==
    ASSUME CarefulUser
    PROVE  Spec => []ExistingSlotIsOffered
<1>1. TypeOK /\ CoverInv /\ [Next]_vars => CoverInv'
  <2> SUFFICES ASSUME TypeOK, CoverInv, [Next]_vars PROVE CoverInv'
    OBVIOUS
  <2>1. \A c \in Client : ~Crash(c)
    BY DEF CarefulUser, Crash
  <2>2. ASSUME NEW c \in Client, Command(c) \/ Runner(c) PROVE CoverInv'
    BY <2>2, CoverCommand, CoverRunner
  <2>3. ASSUME \/ \E k \in Key : DeleteSlot(k)
               \/ \E v \in Version : ReplaceModel(v)
               \/ UNCHANGED vars
        PROVE  CoverInv'
    BY <2>3, CoverAround DEF CarefulUser
  <2>4. QED
    BY <2>1, <2>2, <2>3 DEF Next
<1>2. TypeOK /\ CoverInv => ExistingSlotIsOffered
  <2> SUFFICES ASSUME TypeOK, CoverInv, NEW c \in Client, NEW r \in Request,
                      CanStart(c), slots[PlannedKey(r)] # NoFile
               PROVE  Matches(Refreshed(index_file), r) # {}
    BY DEF ExistingSlotIsOffered
  <2> DEFINE k == PlannedKey(r)
  <2>1. k \in Key /\ k.version = model /\ k.request = r
    BY JobTypes DEF PlannedKey
  <2>2. index_file \in Index /\ index_file[k] # "none"
    BY <2>1 DEF CanStart, CoverInv, Covers
  <2>3. Refreshed(index_file)[k] # "none"
    BY <2>1, <2>2, RefreshedFacts
  <2>4. k \in Matches(Refreshed(index_file), r)
    BY <2>1, <2>3 DEF Matches
  <2>5. QED
    BY <2>4
<1>3. QED
  BY CoverInit, <1>1, <1>2, TypeCorrect, PTL DEF Spec
================================================================================
