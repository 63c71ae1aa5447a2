------------------------------- MODULE SlotCache -------------------------------
(***************************************************************************)
(* The persistent slot cache: an index file and one slot file per planned  *)
(* prefill, in one directory.  Clients are command lines: each runs        *)
(* weak_llm.py (plan, cache-list --save, cache-prune), which reads the     *)
(* index, changes it and writes it back without a lock, and then perhaps   *)
(* the command it was given, phase-split-llama.ps1, which makes or uses a  *)
(* slot file.                                                              *)
(*                                                                         *)
(* Lines are those of scripts/weak_llm.py and scripts/phase-split-llama.ps1 *)
(***************************************************************************)
EXTENDS Integers, FiniteSets

CONSTANTS
    Client,
    Request,          \* prompt, context size, cache type and placements of a request
    Version,          \* contents the model file has at some time
    SizeOf,           \* SizeOf[v]: size of the model file
    NoFile,           \* no slot file under this name
    Truncated,        \* the index file is open for writing and still empty
    Garbage,          \* the index file is not valid JSON
    NoJob,            \* the client holds no phase-split command
    Serial,           \* commands of weak_llm.py do not overlap each other
    Crashes,          \* processes may die, requests to the server may time out
    DropPlanned,      \* cache-prune is also used with --drop-planned
    Unregistered,     \* plans are also made with --no-register-cache
    CarelessDeletes,  \* slot files are deleted although a command still refers to them
    CarelessReplaces  \* the model file is replaced although a command still refers to it

\* What planned_cache_entry() hashes: model_identity() has the modification time,
\* so that each content of the model file has keys of its own.
Key == [version : Version, request : Request]

Status == {"none", "planned", "available", "missing"}
Index == [Key -> Status]
NoEntries == [k \in Key |-> "none"]

Slot == [version : Version, request : Request, complete : BOOLEAN]
\* A command as planned.  Its prompt is given, or is that of a file which is taken to say
\* the same when the command is run.
Job == [strategy : {"create", "reuse"}, request : Request, key : Key]

ASSUME SlotConstants ==
    /\ SizeOf \in [Version -> Nat]
    /\ NoFile \notin Slot
    /\ Truncated \notin Index /\ Garbage \notin Index /\ Truncated # Garbage
    /\ NoJob \notin Job
    /\ {Serial, Crashes, DropPlanned, Unregistered} \subseteq BOOLEAN
    /\ {CarelessDeletes, CarelessReplaces} \subseteq BOOLEAN

\* The size of the model file tells its contents apart.
SizesTellVersions == \A v, w \in Version : SizeOf[v] = SizeOf[w] => v = w

\* A user who waits for each command of weak_llm.py to end, keeps what was planned
\* and deletes no slot that a command refers to.
CarefulUser ==
    /\ Serial
    /\ ~Crashes /\ ~DropPlanned /\ ~Unregistered /\ ~CarelessDeletes

VARIABLES
    index_file,  \* contents of the index file: readable entries, Truncated or Garbage
    slots,       \* the slot file of each key
    model,       \* the model file
    pc,          \* where each client is
    entries,     \* the index as the client's command has it in memory
    job,         \* the command the client was given
    loaded       \* the model that the client's prefill server has loaded

vars == <<index_file, slots, model, pc, entries, job, loaded>>

Step == {"idle", "truncate", "write", "planned", "prefill", "saving", "restore"}

\* A missing index file is an index without entries.
Init ==
    /\ index_file = NoEntries
    /\ slots = [k \in Key |-> NoFile]
    /\ model \in Version
    /\ pc = [c \in Client |-> "idle"]
    /\ entries = [c \in Client |-> NoEntries]
    /\ job = [c \in Client |-> NoJob]
    /\ loaded = [c \in Client |-> model]

--------------------------------------------------------------------------------
(* Operators on the index. *)

PlannedKey(r) == [version |-> model, request |-> r]

\* refresh_cache_index(): a planned entry stays planned until its file is there.
Refreshed(index) ==
    [k \in Key |-> CASE index[k] = "none" -> "none"
                     [] index[k] # "none" /\ slots[k] # NoFile -> "available"
                     [] index[k] = "planned" /\ slots[k] = NoFile -> "planned"
                     [] OTHER -> "missing"]

\* Faulty: looks up the model only.
MatchesAnyPrompt(index, r) ==
    {k \in Key : /\ index[k] # "none"
                 /\ SizeOf[k.version] = SizeOf[model]
                 /\ slots[k] # NoFile}

\* Faulty: looks up the prompt only.
MatchesAnyModel(index, r) ==
    {k \in Key : index[k] # "none" /\ k.request = r /\ slots[k] # NoFile}

\* cache_lookup(): the model's path and size, the prompt and the settings are
\* compared, the modification time is not.  Of several matches any may be first.
Matches(index, r) ==
    {k \in Key : /\ index[k] # "none"
                 /\ SizeOf[k.version] = SizeOf[model]
                 /\ k.request = r
                 /\ slots[k] # NoFile}

\* Faulty: drops planned entries whatever the option says.
PrunedTooFar(index, drop) ==
    [k \in Key |-> IF index[k] \in {"missing", "planned"} THEN "none" ELSE index[k]]

\* cmd_cache_prune()
Pruned(index, drop) ==
    [k \in Key |-> IF index[k] = "missing" \/ (drop /\ index[k] = "planned")
                   THEN "none" ELSE index[k]]

\* upsert_cache_entry(): the planned entry is added, or replaces the one of its key.
Upserted(index, k) == [index EXCEPT ![k] = "planned"]

--------------------------------------------------------------------------------
(* weak_llm.py.  Reading the index and looking at the slot files is one step;   *)
(* the index is written in two: open() truncates the file, write() fills it.    *)

\* load_cache_index() fails on anything but valid JSON, and the command with it.
CanStart(c) ==
    /\ pc[c] = "idle"
    /\ index_file \in Index
    /\ Serial => \A d \in Client : pc[d] \notin {"truncate", "write"}

\* The command goes on to save `index`, and to give the user the command j if any.
GoesOnToSave(c, index, j) ==
    /\ pc' = [pc EXCEPT ![c] = "truncate"]
    /\ entries' = [entries EXCEPT ![c] = index]
    /\ job' = [job EXCEPT ![c] = j]
    /\ UNCHANGED <<index_file, slots, model, loaded>>

\* --no-register-cache: the command is given and nothing is saved.
GivesUnregistered(c, j) ==
    /\ Unregistered
    /\ pc' = [pc EXCEPT ![c] = "planned"]
    /\ job' = [job EXCEPT ![c] = j]
    /\ UNCHANGED <<index_file, slots, model, entries, loaded>>

CreateJob(r) == [strategy |-> "create", request |-> r, key |-> PlannedKey(r)]
ReuseJob(r, k) == [strategy |-> "reuse", request |-> r, key |-> k]

\* make_adaptive_plan() without a match, when the economics or the user ask for a
\* slot.
PlanCreate(c, r) ==
    /\ CanStart(c)
    /\ Matches(Refreshed(index_file), r) = {}
    /\ \/ GoesOnToSave(c, Upserted(Refreshed(index_file), PlannedKey(r)), CreateJob(r))
       \/ GivesUnregistered(c, CreateJob(r))

PlanReuse(c, r) ==
    /\ CanStart(c)
    /\ \E k \in Matches(Refreshed(index_file), r) :
         \/ GoesOnToSave(c, Refreshed(index_file), ReuseJob(r, k))
         \/ GivesUnregistered(c, ReuseJob(r, k))

\* A plan for the normal server, or cache-list --save.
SaveRefreshed(c) ==
    /\ CanStart(c)
    /\ GoesOnToSave(c, Refreshed(index_file), NoJob)

Prune(c) ==
    /\ CanStart(c)
    /\ \E drop \in BOOLEAN :
         /\ drop => DropPlanned
         /\ GoesOnToSave(c, Pruned(Refreshed(index_file), drop), NoJob)

Truncate(c) ==
    /\ pc[c] = "truncate"
    /\ pc' = [pc EXCEPT ![c] = "write"]
    /\ index_file' = Truncated
    /\ UNCHANGED <<slots, model, entries, job, loaded>>

AfterSave(c) == IF job[c] = NoJob THEN "idle" ELSE "planned"

\* If another client has written in the meantime, the longer text shows behind the
\* shorter one.
Write(c) ==
    /\ pc[c] = "write"
    /\ pc' = [pc EXCEPT ![c] = AfterSave(c)]
    /\ \/ index_file' = entries[c]
       \/ index_file # Truncated /\ index_file' = Garbage
    /\ entries' = [entries EXCEPT ![c] = NoEntries]
    /\ UNCHANGED <<slots, model, job, loaded>>

Command(c) ==
    \/ \E r \in Request : PlanCreate(c, r) \/ PlanReuse(c, r)
    \/ SaveRefreshed(c) \/ Prune(c) \/ Truncate(c) \/ Write(c)

--------------------------------------------------------------------------------
(* phase-split-llama.ps1, run with the command that was given. *)

Ends(c) ==
    /\ pc' = [pc EXCEPT ![c] = "idle"]
    /\ job' = [job EXCEPT ![c] = NoJob]
    /\ UNCHANGED <<slots, model, loaded>>

\* The user does not run the command.
Abandon(c) == pc[c] = "planned" /\ Ends(c) /\ UNCHANGED <<index_file, entries>>

\* The prefill server loads the model that is there now and evaluates the prompt.
Prefill(c) ==
    /\ pc[c] = "planned" /\ job[c].strategy = "create"
    /\ pc' = [pc EXCEPT ![c] = "prefill"]
    /\ loaded' = [loaded EXCEPT ![c] = model]
    /\ UNCHANGED <<index_file, slots, model, entries, job>>

Saved(c, complete) ==
    [version |-> loaded[c], request |-> job[c].request, complete |-> complete]

\* action=save: the server writes the file in place.
OpenSlot(c) ==
    /\ pc[c] = "prefill"
    /\ pc' = [pc EXCEPT ![c] = "saving"]
    /\ slots' = [slots EXCEPT ![job[c].key] = Saved(c, FALSE)]
    /\ UNCHANGED <<index_file, model, entries, job, loaded>>

SavedByOthers(c) ==
    \E d \in Client \ {c} : pc[d] = "saving" /\ job[d].key = job[c].key

\* A file that two servers write at a time is complete when the last one is done.
CloseSlot(c) ==
    /\ pc[c] = "saving"
    /\ pc' = [pc EXCEPT ![c] = "restore"]
    /\ slots' = [slots EXCEPT ![job[c].key] = Saved(c, ~SavedByOthers(c))]
    /\ UNCHANGED <<index_file, model, entries, job, loaded>>

\* -UseExistingSlot: the file must be there.
UseExisting(c) ==
    /\ pc[c] = "planned" /\ job[c].strategy = "reuse"
    /\ slots[job[c].key] # NoFile
    /\ pc' = [pc EXCEPT ![c] = "restore"]
    /\ UNCHANGED <<index_file, slots, model, entries, job, loaded>>

ExistingIsGone(c) ==
    /\ pc[c] = "planned" /\ job[c].strategy = "reuse"
    /\ slots[job[c].key] = NoFile
    /\ Ends(c) /\ UNCHANGED <<index_file, entries>>

\* The decode server, with the model that is there now, accepts a whole file only.
CanRestore(c) ==
    /\ pc[c] = "restore"
    /\ slots[job[c].key] # NoFile
    /\ slots[job[c].key].complete

Restore(c) == CanRestore(c) /\ Ends(c) /\ UNCHANGED <<index_file, entries>>

RestoreFails(c) ==
    /\ pc[c] = "restore" /\ ~CanRestore(c)
    /\ Ends(c) /\ UNCHANGED <<index_file, entries>>

Runner(c) ==
    \/ Abandon(c) \/ Prefill(c) \/ OpenSlot(c) \/ CloseSlot(c)
    \/ UseExisting(c) \/ ExistingIsGone(c) \/ Restore(c) \/ RestoreFails(c)

--------------------------------------------------------------------------------
(* What happens around the commands. *)

\* The process dies, or a request of the runner fails and its servers are stopped:
\* what is on disk stays as it is, half an index included.
Crash(c) ==
    /\ Crashes /\ pc[c] \notin {"idle", "planned"}
    /\ \/ index_file' = index_file
       \/ pc[c] = "write" /\ index_file' = Garbage
    /\ entries' = [entries EXCEPT ![c] = NoEntries]
    /\ Ends(c)

DeleteSlot(k) ==
    /\ slots[k] # NoFile
    /\ \A c \in Client : /\ job[c] # NoJob
                        /\ job[c].key = k
                        => CarelessDeletes /\ pc[c] # "saving"
    /\ slots' = [slots EXCEPT ![k] = NoFile]
    /\ UNCHANGED <<index_file, model, pc, entries, job, loaded>>

ReplaceModel(v) ==
    /\ v # model
    /\ CarelessReplaces \/ \A c \in Client : job[c] = NoJob
    /\ model' = v
    /\ UNCHANGED <<index_file, slots, pc, entries, job, loaded>>

Next ==
    \/ \E c \in Client : Command(c) \/ Runner(c) \/ Crash(c)
    \/ \E k \in Key : DeleteSlot(k)
    \/ \E v \in Version : ReplaceModel(v)

Spec == Init /\ [][Next]_vars

--------------------------------------------------------------------------------
(* Properties *)

\* Types, and where a client that holds a command can be.
TypeOK ==
    /\ index_file \in Index \cup {Truncated, Garbage}
    /\ slots \in [Key -> Slot \cup {NoFile}]
    /\ model \in Version
    /\ pc \in [Client -> Step]
    /\ entries \in [Client -> Index]
    /\ job \in [Client -> Job \cup {NoJob}]
    /\ loaded \in [Client -> Version]
    /\ \A c \in Client :
         /\ pc[c] = "idle" => job[c] = NoJob
         /\ pc[c] \in {"planned", "prefill", "saving", "restore"} => job[c] # NoJob
         /\ pc[c] \in {"prefill", "saving"} => job[c].strategy = "create"

\* What the runner restores was saved for the prompt and the settings it was asked
\* for, whatever happened to index and slot files in between: commands that overlap,
\* crashes, files deleted and made again by others.
RestoresItsPrompt ==
    \A c \in Client : CanRestore(c) => slots[job[c].key].request = job[c].request

\* What the runner restores was computed by the model file that is there now.
ReuseMatchesModel ==
    \A c \in Client : CanRestore(c) => slots[job[c].key].version = model

\* Once the slot file of a request exists, the planner finds it (README 1626: "After
\* the slot file exists, the planner can switch to phase-reuse").
ExistingSlotIsOffered ==
    \A c \in Client, r \in Request :
        CanStart(c) /\ slots[PlannedKey(r)] # NoFile
            => Matches(Refreshed(index_file), r) # {}
================================================================================
