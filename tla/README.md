# spillguard-llm-planner in TLA+

This directory specifies the parts of the repository where several actors, a
long sequence of calls, a crash or a limit can go wrong in ways a test would
hardly reach. Every module is written from the source; comments at the head of
a module name the file, `PROJECT.json` maps each definition to its lines.

## 1. The system and its parts

| part | source | state it keeps | operations | how it meets the others |
|---|---|---|---|---|
| live migration policy | patch 0001, `llama_context` | counters, thresholds, cursor, stack of demoted layers, cooldown, last CPU load | `live_migration_init`, `live_migration_tick`, `live_migrate_layer` | runs at the end of `decode()`, calls `migrate_layer` |
| layer buffers | patch 0001, `llama_model` | `ctxs_bufs`, `layer_ctxs`, tensor slots, `tensors_by_name`, `dev_layer` | `load_tensors`, `migrate_layer` | shared by all contexts of the model; contexts cache graphs of the slots |
| planner and slot cache | `scripts/weak_llm.py` | cache index and profile (JSON files), slot files | plan, adaptive, run, cache list, cache prune | separate processes share the files |
| phase-split runner | `scripts/phase-split-llama.ps1` | three server processes in turn, a slot file | start, wait, save, restore, stop | writes the slots the planner offers |
| SAGE live loop | `scripts/sage_live_loop.py` | text and tokens so far, managed endpoints, the verifier process | proxy step, verifier, oracle | starts, stops and asks servers on one port |
| SAGE policy and scheduler | patches 0006-0012, `sage_runtime_scheduler.py`, `sage_multitoken_replay.py` | per-step decisions | decide, schedule, replay, compare | one rule, written in Python and C++ |
| dual-live scheduler | patch 0014 | two contexts, pending tokens, positions | propose, ask the oracle, feed both | in one process |
| CUDA scripts | `sage_oracle_cuda_*.py`, `sage_kv_tier_smoke.py` | host and device buffers, streams, events | read, copy, launch, wait, release | reader threads and streams |
| pager and planners | `sage_gguf_blocks.py`, `sage_block_plan.py`, `sage_oracle_pager*.py`, `sage_verifier_*.py` | blocks, pages, stages | group, plan, page, stage | feed the CUDA scripts |
| KV tiers | `sage_kv_*` | tokens and bytes per tier | account, pack | the same account in patch 0014 |
| captures, fits, projections, reports | the other `sage_*` scripts | records in files | read, compute, write | one script's output is the next one's input |
| contract check, gates, fit profiles | `sage_contract_check.py`, `sage_runtime_gate.py`, `*.ps1` | none that outlives a call | read, compare | run others or read their reports |

What is hard in them: the decode loop and the policy act on memory that queued
GPU work still reads (ordering), that graphs and scheduler reservations refer to
(stale state) and that other contexts share (interleaving); the policy reacts to
readings that other processes change at any time; moves can fail or be slow;
planner, runner and prune share files without a lock and may crash half way;
servers are started, waited for and stopped with timeouts while other programs
may take the port; a pipeline reuses buffers between threads and streams and any
of its calls may fail; two contexts follow one text at different distances; and
what one script computes another computes again, from a file or in C++.
`PROJECT.json` lists these hazards at
their lines with the properties that cover them.

What makes each part correct, in a sentence: the policy loses no layer it
parked, does not bounce, rotates its victims, honours its cooldown and in the
end relieves pressure and restores layers; the buffers never leave a pointer
into released memory and give all device memory back; the slot cache never
offers a slot made for something else and survives a crash; the runner leaves no
server behind; the live loop keeps one model in memory at a time and its text is
what was selected, token after token, as in the dual-live scheduler; the CUDA
scripts never overwrite a buffer in use and release what they made; planners keep
to their budgets; and tools that compute the same thing agree.

## 2. What is modelled

### MigrationPolicy

One `llama_context` with its policy enabled. An action is a whole call:
`OffTick`, `BlindTick`, `CoolingTick`, `PressureTick`, `Demote`, `Promote`,
`CalmTick` are the ways through `live_migration_tick()`, `ManualMigrate` is a
successful `llama_live_migrate_layer()`, `VramChanges` and `HostChanges` are the
machine. `DemoteDecision`, `PromoteDecision` and `ManualDecision` hold what a
call does to the policy; `Placed` says what the move does to the placement and
to VRAM, so that LiveMigration can put the buffers in its place.

- The search of victims is `Attempt`/`IsVictim`: the layer met first on the way
  down from the cursor, wrapping at 0.
- `held[l]` is the memory of the device a layer really occupies, at most its
  size: tensors may have been kept on the host at load. A promotion always
  allocates the full size (`migrate_layer` puts all tensors into one buffer).
- `Sample` keeps the last CPU load when `llama_cpu_load_sample()` fails.
- A slow copy (`slow`) is chosen freely; it raises the cooldown to
  `copy_cooldown_decodes` but never lowers it.
- `decode_counter` is kept modulo the interval, RAM and CPU readings are the
  outcome of their comparison. Times, averages and log texts are left out.
- `home`, `touched`, `last_auto`, `quiet` and `ticks_since_slow` are history
  variables, read by properties only.

### LayerStore

The model and the contexts that use it. A tensor is named by layer and slot; a
slot holds the index of the `ctxs_bufs` entry its tensor lives in (0 is null),
which is what pointers into freed memory come down to. `Init` loads: layers on
the CPU first, then a block per device, each tensor in its layer's device entry
or kept on the host, one context per layer only with
`LLAMA_EXPERIMENTAL_LAYER_BUFFERS`. `MoveLayer` is the successful path of
`migrate_layer()`, `AlreadyThere` its early return, `MigrationFails` all error
returns after `synchronize()`. `Decode` reserves, reuses or builds a graph, and
queues work that reads the entries its graph refers to until `Complete` or
`synchronize()`. Two slots of one layer that share a tensor behave like two
tensors in one entry. Model loading as such, graphs and the scheduler of
llama.cpp are outside `src/` and marked external.

### LiveMigration

`LayerStore` and `MigrationPolicy` together for one context, with no free-VRAM
variable: `FreeVram` is what live buffers and foreign use leave of `Capacity`.
`decode()` is two steps, the queued graph and the tick. The buffers are
LayerStore's by construction: each action here is one of its actions or leaves it
alone. Nothing of the kind holds of the policy, whose VRAM is computed from
buffers here: `PolicySpec`, MigrationPolicy under the refinement mapping, is
checked as a property, and says that the memory effects MigrationPolicy assumes of
a move are those the buffers produce. `UntouchedIsHomeOrParked` is checked here
too, because the application's own calls are allowed here.

### SlotCache

The index file, the slot files, the model file, and command lines (clients) that
run `weak_llm.py` and then perhaps the runner with the command they were given.

- A key stands for what `planned_cache_entry()` hashes: the identity of the model
  file, with its modification time, and a request (prompt, context, cache type,
  placements). The index is a function from keys to statuses: entries are unique
  by key, and of several matches of a lookup any may come first.
- A command is three steps: it reads the index and looks at the slot files
  (`PlanCreate`, `PlanReuse`, `SaveRefreshed`, `Prune`), opens the index for
  writing (`Truncate`), and writes (`Write`). Readers in between find
  `Truncated` and fail, as `load_cache_index()` does; two writers may leave
  `Garbage`.
- Hardware, profile and economics decide between strategies (`AdaptivePlan`): here
  any that the code can choose is possible, so every property holds whatever they say.
- The runner's steps are those that touch the cache: `Prefill`, `OpenSlot`,
  `CloseSlot`, `UseExisting`, `Restore`, and what can fail of them; `Crash` is a
  process that dies or a request that fails.
- The user deletes slot files and replaces the model file. `Serial`, `Crashes`,
  `DropPlanned`, `Unregistered`, `CarelessDeletes` and `CarelessReplaces` say
  what may happen; a run that sets them is a claim about every such environment.

### PhaseSplit

The runner's three servers. `Ready` is the return of `Wait-ServerReady`, which
any server on the port satisfies; `handle` is the variable that the finally
block stops, set only then. So a wait that times out (`Timeout`, line 48, possible
at any moment of it) or a server that cannot be started (`StartFails`) ends the run
without a handle, and a server that was only late stays. `abandoned` is a history
variable, the servers that lived when the wait for them was given up. A process
binds its port some time after it was launched and exits when the port is taken.
A kill is taken to be done when `Stop-ServerProcess` returns (it waits 10
seconds). Servers are external.

### SelectedText, LiveLoop and DualLive

`SelectedText` is what both runtimes of SAGE promise of the text they write: it
grows by one token at a time, the proxy proposes each, the oracle is asked only
when the proposal is not accepted, and whoever answers was shown all the text
there is and no other. `Strangers` may answer in a model's place.

- `LiveLoop` is `run_live()` with its `EndpointManager`, the servers it starts,
  the verifier process and everything that can fail: a start, a request, a wait, a
  kill that times out, an interrupt, a process that dies, another program on the
  port. `pc` is the place in the code, `waiting` the server whose `/health` is
  asked for; `failed` is an exception on its way through the finally blocks
  (`Raise`). An answer is the model that gave it and the length of the text it
  was given; the decision is `DecisionOf`. `interrupted` is a history variable.
  `AsOracle` says that where both models are one file, one is the other.
- `DualLive` is `main()` of patch 0014: the runners' pending tokens, positions and
  contexts. A piece of text is named by author and step; how many tokens the other
  model's tokenizer makes of it, up to `MaxPieces` and perhaps none, is chosen
  freely. The policy is `CppDecide` of `DecisionPolicy`, without captured tensors.
  `Encoders` are models with an encoder, which the code feeds only what is pending.

### CudaOrder, CudaHost and CudaScripts

`CudaHost` runs a script of CUDA calls: the main thread issues them one after the
other, each may fail and then the finally block starts, except for the records of
events whose return code five scripts ignore (`RecordUnchecked`): such a failure
is passed over (`MissRecord`) and the event keeps its earlier record, if it has
one. Streams execute what is
queued on them at any speed; reader threads of the pool fill pinned buffers. What
a buffer holds is the number of the stage whose bytes are in it, so that reading
the wrong stage's bytes shows. `CudaScripts` gives the ten scripts as sequences
of such calls for `N` stages, `B` pinned and `D` device buffers, `Replays` and
`Threads`; stages in `Empty` have nothing to launch and are skipped as the
scripts skip them, and a stage of the matrix-vector script launches one kernel for
each of `Tensors` tensors. Each has the order in which its finally block releases. `CudaOrder`
says what the text of a script shows before it runs: what exists at each call
(`AliveAt`), what the finally block knows of (`KnownAt`), and which call is over
before which other one (`Settled`, from the order on a stream, records waited
for, calls that drain the device and results awaited). Its assumptions are the
rules that the scripts keep; TLC evaluates them for the ten, the proofs use
nothing else of a script.

### AdaptivePlan and PlannerChecks

`AdaptivePlan` holds what `weak_llm.py` computes: placements from the rows of a
profile (`RecommendFromRows`, `PhaseSelected`), the level of `memory_pressure()`,
the newest report of a phase-split run (`LatestPhaseMeasurement`; the report
itself is `PhaseReport`, from the runner), the break-even of a slot
(`EstimateBreakEven`), and the strategy (`StrategyOf`). Speeds are whole tokens per
second and times exact fractions; rounding to decimals is left out. "No
break-even" is 0, which the code treats alike. The dictionary of runs is the places
of their rows in the profile, and the list of candidates is those places in the
order of `sort()`. `PlannerChecks` states what these promise each other and the next
plan, over profiles of three runs and over plans with reports of earlier runs; the
numbers of a request and of a measurement are its constants (`PlannerAssumption`).

### The SAGE tools

These scripts read files, compute and write; the modules hold what they compute as
operators, over integers, fractions by cross multiplication, and small records:

| module | scripts |
|---|---|
| `DecisionPolicy` | scheduler, replays, C++ policy (0008, 0012), parity, live comparison and report |
| `Captures` | probe, tasks, candidate replay, failures, captured tensors, comparisons |
| `PolicyFits` | router, probe and candidate fits, evaluations, targets, shortlists |
| `OraclePages` | tensor sizes, block plans, signals, pages, stages, staging |
| `VerifierPages` | verifier manifest and plan, reduced-page probe |
| `KvTiers` | tier plan, account of a trace, packing, account of patch 0014 |
| `Projections` | scenarios, limits, budgets, simulation |
| `Tallies` | counting, ordering and comparing, as all of them do it |

`SageDecisions` and `SageTools` check them against each other: an input is chosen
(rows of decisions, an oracle and a proxy's answers, tensors, a model file and a
budget, a context length, codes to pack, times) and the properties say how the
results of several scripts on it belong together. A row of decisions was captured
with no tensors, with tensors but not the one the frozen policy reads (the
sentinel), or with it. `DecisionsAgree` says what each program makes of that: the
C++ policy and the parity scripts call a token covered when the sentinel is there,
the Python scheduler when any tensor is, the policy report when there is a
capture; on all other tokens, and in all else, they agree.

## 3. Runs

| run | instance | shows |
|---|---|---|
| policy_auto | 3 layers, one of size 3, VRAM 0..5, thresholds 2/4, interval 2, cooldown 2, fairness | conservation, no bounce, rotation, cooldown; pressure is relieved, parked layers return |
| store | 3 layers (one without tensors), 2 weights, 2 devices, 3 migrations | reachability, release, no read after free, current graphs |
| store_two_contexts | 2 contexts of one model | finding: the other context keeps its graph |
| live | 2 layers, 2 weights, capacity 4, application's calls, 2 migrations | accounting, parked weights, layers at home or parked, refinement of the policy |
| slot_prompts | 2 clients, 2 requests, everything allowed but replacing the model | no slot of another prompt is restored |
| slot_careful | 2 clients, 2 requests, 2 versions of different size, a careful user | no slot of another model is restored, every slot file is found |
| slot_same_size | 2 versions of the same size | finding: the old model's slot is restored |
| phase_split | 2 command lines, 2 runs of one and 1 of the other, ports apart, waits that time out on servers that live, fairness | only an abandoned server is left or answers another run, at most one for each run; one at a time; every run ends |
| cuda_scripts | 10 scripts, 4 stages, 2 pinned and 2 device buffers, 2 replays, 2 threads, an empty stage, 2 tensors, every call may fail | data are current, totals whole, buffers are released once and after their use, every run ends |
| live_loop | 2 tokens, every mix of options, foreign programs on the port, fairness | one model at a time, decisions replay, nothing is left, the text is a SelectedText, every run ends |
| dual_live | 4 tokens, up to 2 tokens a piece, contexts derived or of size 4 | contexts hold the text, room suffices, the text is a SelectedText |
| algorithms | rows, answers, files and budgets of the sizes in the .cfg, profiles of three runs, plans | tools agree: decisions, labels, pages, KV tiers, projections, plans |

Bounds. Three layers let the search wrap and skip; a layer of size 3 against a
gap of 2 covers the equality case of the hysteresis (`HysteresisCoversLayers`
holds with equality: demotion at 1 frees to exactly the restore threshold).
`MaxStack` stops manual calls when the stack is full: a stack longer than the
number of layers appears once the application promotes a parked layer itself,
which three entries over two layers include. `MaxEntries` allows three
migrations after loading in store, there, back, and there again; in live it
allows two, because every step is checked against the policy there. Sizes and readings are
in units, so one unit is the granularity at which thresholds are crossed.
Two clients, two requests and two versions of the model give every pair of
conflicting commands; a third client would only repeat the role of one of them.
Two runs of one command line let the second meet what the first left behind; the
other runs beside them, and what it may leave is of the same kind.

Four stages over two buffers make each buffer be refilled twice, once while the
other is in use; two replays tell one total from another. Two tokens are enough
for a live loop to carry whatever a step leaves over into the next one; with a
text of four tokens the oracle's context of the dual-live run falls behind by
three and catches up. The tools' inputs cover each of their branches: blocks
with and without a layer, ties, empty selections, budgets met exactly, tiers
that are empty, repeated ids, NaN sums, captures without the sentinel.
Plans meet a prompt of 2, 5 or 2000 tokens
with 0 or 4 of an answer, speeds that differ, tie or are too slow, free memory of
10, 30 and 90 percent (one of each level of pressure), and times with and without a
break-even.

CHECK_DEADLOCK is off where a run of the program ends: MCCudaScripts,
MCLiveLoop, MCDualLive, MCPhaseSplit, MCSageTools (after the input), and
MCSlotCachePrompts, where a broken index stops all commands.

Fairness (policy_auto): decoding goes on (WF of `Tick`); a
cooldown tick, a demotion and a promotion that stay possible happen again and
again (SF): the memory reading, the CPU sample and the allocation may each fail
any number of times but not forever. Without the last assumption nothing can be
promised: the code retries, it has no other means.
Fairness (phase_split): each script goes on, because every wait in it has a limit,
and each server process either binds or exits and, if it lives, loads its model;
nobody has to start a run.
Fairness (live_loop): the loop goes on, since every request and every wait has a
timeout; servers, other programs and the user do what they like.
Fairness (cuda_scripts): main thread, streams and reader threads each go on, the
main thread only by what succeeds (`Progress`), or by asking for the result of a
read that failed. No call has to fail: none of the waits has a timeout, and
`RunEnds` says that each is met by what it waits for.

Mutants. Definitions marked "Faulty" are variants of the definition that
follows them, with a bug the code might have; `PROJECT.json` names the property
that finds each. They are used nowhere else.

## 4. Findings

- `store_two_contexts`: only the calling context is synchronized and reset.
- `slot_same_size`: the lookup leaves out the modification time that the key has.

Not findings, since no document, comment or test says otherwise, but worth
knowing; each is what an assumption or a bound of a property is about:

- The fix-up of the restore threshold (0001 patch, 519) does not know layer sizes.
  With defaults the gap is 1280 MiB; larger layers or closer settings bounce.
  `HysteresisTheorem` says what gap is enough (`HysteresisCoversLayers`).
- A failed demotion leaves the cursor, and the tick ends: a layer that can never
  move, where the search starts, blocks every other. Layers without a buffer of
  their own do occur: `n_layer_all` counts layers whose tensors a load may skip.
- When two commands overlap, the later one writes back an index without the entry
  of the earlier one, whose slot is never found (`Serial` FALSE violates
  `ExistingSlotIsOffered`). So does `cache-prune --drop-planned` (`DropPlanned`),
  which removes entries of commands that have not run yet.
- A slot whose save was cut short is offered at every plan from then on and can
  never be restored (`OpenSlot`, `Crash`); an index left empty or mixed by a crash
  or an overlap stops all commands until somebody deletes it.
- A live server whose wait timed out (`abandoned`) is never stopped and serves
  the next run on its port (`NoServerLeft` and `OwnServerAnswers` name it as the
  exception); all command lines share port 18100 by default, and
  with shared ports a run may be answered by another run's server
  (`OwnServerAnswers` needs `DisjointPorts`).
- An interrupt of the live loop that comes while it awaits a server's start or the
  verifier leaves that process behind (`NothingLeft` excludes it); whoever answers
  on the port is taken for the server (`Strangers`).
- In patch 0014 a model with an encoder reads each selected piece by itself: with
  `Encoders` not empty `TextSpec` does not hold. A piece that a tokenizer makes
  no tokens of leaves its runner nothing to decode, and the run fails; when the
  proxy ends the text, what that step found is dropped; a derived context size has
  room for 32 tokens more than are predicted (`Slack`), and a tokenizer that needs
  more than that ends the run.
- The planner takes the newest report for its placements. One of a run that reused
  a slot, or ran without the cold comparison, hides an older one that measured the
  cost: the former makes the planner estimate again, the latter promises no saving,
  so that no slot is made (`LastReportCounts`, `CreatedSlotsPayOff`). A saving that
  was measured may, per token, exceed the whole time of the request; the break-even
  then promises more than a plan can save, and `CreatedSlotsPayOff` excludes it.
- Where a script ignores that an event's record failed (`missed`), the time it
  reports of that launch is taken from an earlier record of the event, or cannot
  be taken, and the run fails. The sums it reads back are right all the same
  (`TotalsAreWhole`).
- A token that needs a verdict and was captured without the sentinel is decided by
  its entropy in the Python scheduler and goes to the oracle in C++
  (`OneRuleTheorem` gives both results).
- The device memory of a buffer set whose third or fourth allocation fails is known
  to no list of the finally block (`NothingForgotten` speaks of what they know).

## 5. Proofs

TLAPS proves, for all values of the constants that satisfy the named assumptions,
43 theorems of specifications and 6 about operators. Types are proved, not checked
by a run, wherever there is a proof module. Each proof follows one plan: an
invariant that is inductive, shown to hold initially and to survive each action,
one step per action; the property is a part or a consequence of it. The
strengthened invariants below were checked by TLC on the instances of section 3,
or smaller ones, before they were proved.

### Live migration

- MigrationPolicyProofs: `TypeCorrect`; `CooldownTheorem`, from the invariant
  that ticks since a slow copy and remaining cooldown together make up the full
  cooldown (`CooldownInv`); `RotationTheorem`, from the invariant that the
  cursor is just below the layer moved last (`CursorInv`), which makes that
  layer the last one of the search (`LastAttempt`); `HysteresisTheorem`, under
  `HysteresisCoversLayers`, from what the last move left behind while nobody else
  moved VRAM (`HysteresisInv`); `ParkedTheorem`, whose property is inductive with
  the type invariant: the step lemmas are what Append and SubSeq do to the set
  of parked layers (`PushFacts`, `PopFacts`).
- LayerStoreProofs: `StoreTypeCorrect`; `WeightsReachableTheorem` and
  `ReleasedTheorem`, both inductive with types (a move frees only entries that
  its own layer owns, and reachability says that no other layer's slot is in
  one); `GraphTheorem` and `NoReadTheorem` under `SingleContext`, the assumption
  that store_two_contexts shows to be needed. Two facts about what is in the
  buffers, which nothing in the component alone needs: a live entry holds exactly
  the tensors whose slots point to it (`AccountedTheorem`), and a tensor is on
  the device of its layer or in host memory (`FollowTheorem`).
- LiveMigrationProofs: the composition, under `ModelAssumption` (a finite set of
  weights, three kinds of device that differ) and `SettingAssumption` (naturals).
  `StackInv`: the stack holds layers of the model only.
  `VramTheorem`, from `MemoryInv`: the device memory of
  live buffers is that of the tensors the layers have there, since a live entry
  holds exactly the tensors that point to it (`EntriesAccounted`) and those follow
  their layers (`BuffersFollowLayers`), which makes slots and stored tensors a
  bijection (`OwnedIsStored`). So a demotion frees what the layer held and a
  promotion takes its full size, and with that `PolicyRefinement`: each step of the
  composition is one of MigrationPolicy on real memory, or a stutter.
- What is proved of a component so holds of the composition (of LayerStore by the
  lemma `StoreRefinement`, which only says how the composition was built).
  LiveMigrationProofs instantiates both proof modules with the
  mapping: `ContextTheorem` (the memory side's four invariants; the one
  context is what `SingleContext` asks for), `DecisionTheorem` (cooldown, rotation,
  layers at home or parked), `BounceTheorem` (no bounce, under
  `HysteresisCoversLayers`), and `ParkedMemoryTheorem`, which needs both sides:
  a layer on the stack is on the CPU for the policy, so each of its weights is,
  live and intact, in a host buffer.

### Processes and files

- SlotCacheProofs: `PromptTheorem` without any assumption (keys, files and
  commands agree on the prompt: `PromptInv`); `ModelTheorem` under
  `SizesTellVersions`, with `ModelInv` for the version; `OfferedTheorem` for a
  `CarefulUser`: the index on disk and the one in a command's memory know of every
  slot file and of every slot about to be made (`CoverInv`), which refreshing and
  pruning preserve (`RefreshedCovers`).
- PhaseSplitProofs: `ServersTheorem`, from the invariant that a live server was
  abandoned or is the one its run is waiting for or posting to (`ServerInv`),
  whoever shares the ports and whichever wait fails; `OneServerTheorem`, from the
  same: two servers of one run would both be that one, since a run that abandons a
  server starts no other; `OwnServerTheorem` adds `DisjointPorts`.
- LiveLoopProofs: `TypeCorrect`, `OneModelTheorem`, `NothingLeftTheorem`,
  `ReplayTheorem` and `TextRefinement`, for any number of tokens, from one
  invariant: a server that lives is held or awaited as long as nothing failed, and
  once something failed none is started (`ProcessesKnown`); what the manager holds
  fits the place in the code (`ServersHeld`); an unkilled process is held or
  awaited even after a failure (`Leftovers`); the answers of the step at hand
  were given to the text as it is, and there is a verdict exactly where a verifier
  was asked (`StepKnown`). The type of decisions is inductive only with the last.

### CUDA scripts

CudaHostProofs speaks of any set of scripts that satisfies the assumptions of
CudaOrder, of any length, with any number of streams, threads and buffers.

- `TypeCorrect` and `NothingForgottenTheorem`: what a script owns has a place in
  the order of its finally block (`Placed`), and what the block has passed is
  released (`Progressing`). `ProgramAssumption` only.
- `BuffersTheorem` under `OrderAssumption`: what exists and what the finally block
  knows of is told by how far the script came (`Tracking`), and a buffer
  that queued work uses exists, because device memory goes first and its release
  drains the device (`AllSafe`).
- `DataTheorem` and `TotalsTheorem` under `SyncAssumption`, from `ContentInv`;
  they hold whichever ignored records fail (an event has passed the records of it
  that did not, `EventsCount`). The
  assumption is about the text of a script only: each write of a buffer is
  over before the next, and each reader comes after the write of its stage and
  before the next one. The theorems say that this is enough at any speed of
  streams and threads and wherever the run fails. The invariant ties the run to
  the text: queues hold the last calls of their stream, in order
  (`QueueOrdered`); an event has passed exactly the records of it that are on no
  queue (`EventsCount`); waits, synchronizations, draining calls and awaited reads
  behind the main thread have had their effect (`WaitsMet`, `SyncsMet`,
  `DrainsMet`, `AwaitsMet`); the pool works on submitted reads without a result, and
  on none once it is closed (`PoolKept`). From these follows the lemma the rest
  stands on, that `Settled` calls are over (`HostOrderHolds`, `SettledIsOver`), and
  from it that memory holds what the last finished write left (`MemoryFollows`)
  and outputs hold the launches since they were zeroed (`SumsFollow`).

### One computation in several programs

SageProofs: `TypeCorrect`, `ContextsTheorem`, `RoomTheorem` for any number of
tokens, tokenizers and sizes, and `TextRefinement` for models without encoders:
as read and pending are together the text, an answer was given to all of it.
Then, about operators and without a specification:

- `OneRuleTheorem`: for every task (a sentinel counts as a tensor) the Python
  scheduler and the C++ hook decide alike unless the token needs a verdict and
  lacks the sentinel; there the hook asks the oracle, the scheduler lets the
  entropy decide, and the theorem gives both results. The replay repeats the hook
  in every case. `ParityTheorem`: so the parity check finds no mismatch in any rows.
- `TiersTheorem`: three programs split any number of tokens alike, and into all of
  them; `GrowsTheorem`: a longer context never needs fewer bytes; `BytesTheorem`:
  the C++ estimate equals the scripts' account, or is one byte more where halves
  are rounded differently.
- `PackingTheorem`: any number of two-bit codes are read back by the script and, for
  every block size, by the kernel.

And of `ToolsSpec`, whose invariants `InputIsCache`, `InputIsPriced` and
`InputIsPlanned` say what inputs the scripts may be given, for any context, times,
speeds, prompts and memory:

- `KvTiersTheorem`: `KvTiersAddUp`. The plan's bytes are a sum over layers, the
  account's a product of tokens and a width, the sample's a count of packed bytes.
  That they agree rests on the sum of a set (`SumFrom`, `SumStep`: it is the same
  whichever element is taken first), on the largest of a trace's rows being that of
  the whole context (`GrowsTheorem`), and on the rounding of one size against that
  of many (`RoundedOften`).
- `ProjectionsTheorem`: `ProjectionsAgree`. A limit is a quotient rounded down; it is
  tight because a quotient is the largest number whose product fits.
- `PlannerTheorem`: `PlannerAgrees`. Placements: for any profile of at most eight rows
  that measures nothing twice, the candidates are the runs ordered by score and
  place, so the first has the highest score whatever the order of rows
  (`PlacementsHold`). Plans: the fractions of a break-even are compared by value,
  which needs that `Gcd` has values at all and that they divide both numbers; the
  break-even is then the one the runner reports, and the smallest number of uses that
  pays for a slot (`PlansHold`). Pressure: freed memory never raises the level
  (`PressureHolds`, from `LevelFalls`, which is for all sizes).

Induction over data is done there on sets of numbers, not with the library's
theorems that take an operator: a set that holds 0 and, with n, n + 1 holds all
numbers (`AllOfNat`), since otherwise there were a least one missing.

### Model-checked only

- Liveness (`PressureIsRelieved`, `ParkedLayersReturn`, `RunEnds`): outside the
  prover's reach.
- `DecisionsAgree`, `CapturesKeepTheirLabels`, `PagesFitTheBudget`:
  each selects, sorts or folds sequences of rows, blocks or
  tensors with operators of the community modules whose values are given by
  recursion on the sequence, which the provers do not unfold. The part of
  `DecisionsAgree` that needs none is the theorems above.
- `SyncAssumption` and `OrderAssumption` of the ten scripts: TLC evaluates them for
  the numbers of stages and buffers of cuda_scripts. For more stages they repeat
  the same pattern, which is not proved.

## 6. Not modelled

- Contract check and runtime gate: comparisons of finished reports with limits,
  no state and no second computation to agree with.
- sage_agreement.py, sage_live_gate.py, the profile and CUDA check scripts: they run
  other programs one after the other and print what came out.
- Patch 0013 (live proxy): one runner of patch 0014 whose decisions are written,
  not acted upon.
- Floating-point results: what kernels compute, rounding, percentages in reports.
- Parsers and formats: GGUF headers, JSON, prompts, log files, PowerShell output.
- The subcommands of `weak_llm.py` that run llama-bench and store a profile, or only
  start llama-cli or a server.
- Rounding in `weak_llm.py`: speeds and times of a plan are exact.
- What a prompt file says when the runner reads it: the command carries
  `-PromptFile <path>` (`weak_llm.py`, 867), and the slot's key is made of what the
  file said at planning. `SlotCache` takes the file to stay as it is between plan
  and run; one that is edited in between is run under the key of its old text, and
  `RestoresItsPrompt` says nothing of it.
