------------------------------ MODULE CudaHost ------------------------------
(***************************************************************************)
(* How one of the CUDA scripts (src/scripts/sage_oracle_cuda_*.py and      *)
(* sage_kv_tier_smoke.py) runs: the main thread works through the calls of *)
(* its try block, streams execute what was queued on them later and in     *)
(* parallel, the threads of a pool fill pinned host buffers, any call may  *)
(* fail, and the finally block releases, one by one, what the script has   *)
(* put into its lists and variables.  A script is data: a sequence of      *)
(* calls and the order of its finally block (modules CudaOrder and         *)
(* CudaScripts).                                                           *)
(*                                                                         *)
(* What a buffer holds is the number of the stage whose bytes are in it,   *)
(* or 0; what an output holds is the set of launches added to it since it  *)
(* was zeroed, with 0 in the set for a start from memory never zeroed.     *)
(***************************************************************************)
EXTENDS CudaOrder

(* The calls of a script.  A resource is <<kind, number>>. *)
Alloc(r) == [do |-> "alloc", res |-> r]               \* into a local variable
Take(r) == [do |-> "take", res |-> r]                 \* into what finally releases
Own(R) == [do |-> "own", all |-> R]                   \* append to finally's lists
Free(r) == [do |-> "free", res |-> r]
Check == [do |-> "check"]                             \* anything else that may fail
Try == [do |-> "try"]
Read(h, i) == [do |-> "read", to |-> h, stage |-> i]
Upload(d) == [do |-> "upload", to |-> d]              \* cudaMemcpy from host memory
Copy(a, b, i, s) == [do |-> "copy", from |-> a, to |-> b, stage |-> i, stream |-> s]
Kernel(k, a, i, outs, s) ==
    [do |-> "kernel", launch |-> k, from |-> a, stage |-> i, outs |-> outs, stream |-> s]
Zero(o, s) == [do |-> "zero", out |-> o, stream |-> s]
Record(e, s) == [do |-> "record", event |-> e, stream |-> s, checked |-> TRUE]
\* cudaEventRecord whose return code the script does not look at.
RecordUnchecked(e, s) == [do |-> "record", event |-> e, stream |-> s, checked |-> FALSE]
Wait(e, s) == [do |-> "wait", event |-> e, stream |-> s]
Sync(e) == [do |-> "sync", event |-> e]
SyncDevice == [do |-> "syncDevice"]
Elapsed(E) == [do |-> "elapsed", events |-> E]
Fetch(o, K) == [do |-> "fetch", out |-> o, expect |-> K]
FetchData(d, i) == [do |-> "fetchData", from |-> d, stage |-> i]
OpenPool == [do |-> "open"]
Submit(h, i) == [do |-> "submit", to |-> h, stage |-> i]
Await(i) == [do |-> "await", stage |-> i]
ClosePool == [do |-> "close"]

Infallible == {"own", "try", "open", "close"}
Noticed(c) == c.do = "record" => c.checked    \* its failure raises

VARIABLES
    script,     \* the script, chosen once
    pc, phase,  \* next call; "run", "join" (leaving the pool), "final", "done"
    inTry, open,
    ok, stuck,  \* no call failed; a release failed
    kind,       \* which entry of the finally block is at work
    live,       \* resources allocated and not released
    owned,      \* resources the finally block knows of
    queue,      \* calls queued on each stream, by their place in the script
    finished,   \* the last record of each event that was executed
    missed,     \* the records that failed and that nobody noticed
    mem, acc,                       \* contents
    waiting, reading, result,       \* the pool
    stale, partial  \* history: work that met other bytes, sums, than meant

hostVars == <<pc, phase, inTry, open, ok, stuck, kind, live, owned>>
poolVars == <<waiting, reading, result>>
vars == <<script, hostVars, queue, finished, missed, mem, acc, poolVars, stale, partial>>

program == Programs[script]
Of(kinds) == {r \in program.resources : r[1] \in kinds}
Buffers == Of({"host", "dev", "act"})
Outputs == Of({"out", "row"})
Idle == \A s \in Of({"stream"}) : queue[s] = <<>>
\* The device has passed all records of the event that were made.
Passed(e, i) == \A j \in Records(program, i, e) \ missed : j <= finished[e]
Reached(e) == Passed(e, pc)

-----------------------------------------------------------------------------
Init ==
    /\ script \in DOMAIN Programs
    /\ pc = 1 /\ phase = "run" /\ kind = 1
    /\ inTry = FALSE /\ open = FALSE /\ ok = TRUE /\ stuck = FALSE
    /\ live = {} /\ owned = {}
    /\ queue = [s \in Of({"stream"}) |-> <<>>]
    /\ finished = [e \in Of({"event"}) |-> 0]
    /\ missed = {}
    /\ mem = [b \in Buffers |-> 0]
    /\ acc = [o \in Outputs |-> {0}]
    /\ waiting = <<>> /\ reading = {} /\ result = [i \in 1..program.stages |-> "none"]
    /\ stale = {} /\ partial = {}

Running == phase = "run" /\ pc <= Len(program.body)
Op == program.body[pc]
At(names) == Running /\ Op.do \in names
Proceed == pc' = pc + 1 /\ UNCHANGED <<script, phase, ok, stuck, kind>>

(* cudaHostAlloc, cudaMalloc, cudaStreamCreate, cudaEventCreate, a module. *)
Acquire ==
    /\ At({"alloc", "take"})
    /\ live' = live \cup {Op.res}
    /\ owned' = IF Op.do = "take" THEN owned \cup {Op.res} ELSE owned
    /\ Proceed
    /\ UNCHANGED <<inTry, open, queue, finished, missed, mem, acc, poolVars, stale, partial>>

Remember ==
    /\ At({"own"})
    /\ owned' = owned \cup Op.all
    /\ Proceed
    /\ UNCHANGED <<inTry, open, live, queue, finished, missed, mem, acc, poolVars, stale, partial>>

ReleaseNow ==
    /\ At({"free"}) /\ Idle
    /\ live' = live \ {Op.res}
    /\ Proceed
    /\ UNCHANGED <<inTry, open, owned, queue, finished, missed, mem, acc, poolVars, stale, partial>>

EnterBlock ==
    /\ At({"try", "open", "check"})
    /\ inTry' = (inTry \/ Op.do = "try")
    /\ open' = (open \/ Op.do = "open")
    /\ Proceed
    /\ UNCHANGED <<live, owned, queue, finished, missed, mem, acc, poolVars, stale, partial>>

(* A blocking read of a stage into a pinned buffer, or a blocking copy to   *)
(* the device.                                                              *)
Fill ==
    /\ \/ At({"read"}) /\ mem' = [mem EXCEPT ![Op.to] = Op.stage]
       \/ At({"upload"}) /\ Idle /\ mem' = [mem EXCEPT ![Op.to] = 1]
    /\ Proceed
    /\ UNCHANGED <<inTry, open, live, owned, queue, finished, missed, acc, poolVars, stale, partial>>

\* Faulty: leaves out the memset, so that sums start from what memory held.
EnqueueNotZeroed ==
    /\ At(Asynchronous)
    /\ queue' = IF Op.do = "zero" THEN queue ELSE [queue EXCEPT ![Op.stream] = Append(@, pc)]
    /\ Proceed
    /\ UNCHANGED <<inTry, open, live, owned, finished, missed, mem, acc, poolVars, stale, partial>>

Enqueue ==
    /\ At(Asynchronous)
    /\ queue' = [queue EXCEPT ![Op.stream] = Append(@, pc)]
    /\ Proceed
    /\ UNCHANGED <<inTry, open, live, owned, finished, missed, mem, acc, poolVars, stale, partial>>

(* Where a script ignores what cudaEventRecord returns, a record that fails *)
(* leaves the event as it was, and the script goes on.                      *)
MissRecord ==
    /\ At({"record"}) /\ ~Op.checked
    /\ missed' = missed \cup {pc}
    /\ Proceed
    /\ UNCHANGED <<inTry, open, live, owned, queue, finished, mem, acc, poolVars, stale, partial>>

\* Faulty: does not wait for the event.
SynchronizeAtOnce ==
    /\ At({"sync", "syncDevice", "elapsed"})
    /\ Proceed
    /\ UNCHANGED <<inTry, open, live, owned, queue, finished, missed, mem, acc, poolVars, stale, partial>>

Synchronize ==
    /\ \/ At({"sync"}) /\ Reached(Op.event)
       \/ At({"syncDevice"}) /\ Idle
       \/ At({"elapsed"}) /\ \A e \in Op.events : Reached(e)
    /\ Proceed
    /\ UNCHANGED <<inTry, open, live, owned, queue, finished, missed, mem, acc, poolVars, stale, partial>>

(* cudaMemcpy to host memory runs after everything queued before it.       *)
ReadBack ==
    /\ Idle
    /\ \/ At({"fetch"}) /\ partial' = IF acc[Op.out] = Op.expect THEN partial ELSE partial \cup {pc}
       \/ At({"fetchData"}) /\ partial' = IF mem[Op.from] = Op.stage THEN partial ELSE partial \cup {pc}
    /\ Proceed
    /\ UNCHANGED <<inTry, open, live, owned, queue, finished, missed, mem, acc, poolVars, stale>>

SubmitRead ==
    /\ At({"submit"})
    /\ waiting' = Append(waiting, [to |-> Op.to, stage |-> Op.stage])
    /\ Proceed
    /\ UNCHANGED <<inTry, open, live, owned, queue, finished, missed, mem, acc, reading, result, stale, partial>>

AwaitRead ==
    /\ At({"await"}) /\ result[Op.stage] = "ok"
    /\ Proceed
    /\ UNCHANGED <<inTry, open, live, owned, queue, finished, missed, mem, acc, poolVars, stale, partial>>

PoolIsIdle == waiting = <<>> /\ reading = {}

LeavePool ==
    /\ At({"close"}) /\ PoolIsIdle
    /\ open' = FALSE
    /\ Proceed
    /\ UNCHANGED <<inTry, live, owned, queue, finished, missed, mem, acc, poolVars, stale, partial>>

-----------------------------------------------------------------------------
Leaving == IF open THEN "join" ELSE IF inTry THEN "final" ELSE "done"

\* Faulty: what a thread of the pool raises stays there.
FailsUnlessAwaiting ==
    /\ Running /\ Op.do \notin Infallible \cup {"await"} /\ Noticed(Op)
    /\ ok' = FALSE
    /\ phase' = Leaving
    /\ mem' = IF Op.do = "read" THEN [mem EXCEPT ![Op.to] = 0] ELSE mem
    /\ UNCHANGED <<script, pc, inTry, open, stuck, kind, live, owned,
                   queue, finished, missed, acc, poolVars, stale, partial>>

(* Any call may fail, and raises where the script looks at its return code; *)
(* a result of the pool does when the read has.  The exception leaves the   *)
(* pool's block first, which waits for all its reads.                       *)
Fails ==
    /\ Running /\ Op.do \notin Infallible /\ Noticed(Op)
    /\ Op.do = "await" => result[Op.stage] = "failed"
    /\ ok' = FALSE
    /\ phase' = Leaving
    /\ mem' = IF Op.do = "read" THEN [mem EXCEPT ![Op.to] = 0] ELSE mem
    /\ UNCHANGED <<script, pc, inTry, open, stuck, kind, live, owned,
                   queue, finished, missed, acc, poolVars, stale, partial>>

Joined ==
    /\ phase = "join" /\ PoolIsIdle
    /\ phase' = (IF inTry THEN "final" ELSE "done") /\ open' = FALSE
    /\ UNCHANGED <<script, pc, inTry, ok, stuck, kind, live, owned,
                   queue, finished, missed, mem, acc, poolVars, stale, partial>>

Completed ==
    /\ phase = "run" /\ pc > Len(program.body)
    /\ phase' = Leaving
    /\ UNCHANGED <<script, pc, inTry, open, ok, stuck, kind, live, owned,
                   queue, finished, missed, mem, acc, poolVars, stale, partial>>

-----------------------------------------------------------------------------
ToRelease == {r \in owned \cap live : r[1] = program.final[kind]}
Cleaning == phase = "final" /\ kind <= Len(program.final)

\* Faulty: frees device memory without waiting for the device.
ReleaseAtOnce ==
    /\ Cleaning /\ ToRelease # {}
    /\ live' = live \ {CHOOSE r \in ToRelease : TRUE}
    /\ UNCHANGED <<script, pc, phase, inTry, open, ok, stuck, kind, owned,
                   queue, finished, missed, mem, acc, poolVars, stale, partial>>

(* The entries of one list go one by one, in an order that does not matter. *)
(* cudaFree waits for the device; the other releases do not.                *)
Release ==
    /\ Cleaning /\ ToRelease # {}
    /\ program.final[kind] \in DeviceMemory => Idle
    /\ live' = live \ {CHOOSE r \in ToRelease : TRUE}
    /\ UNCHANGED <<script, pc, phase, inTry, open, ok, stuck, kind, owned,
                   queue, finished, missed, mem, acc, poolVars, stale, partial>>

(* A release that fails ends the finally block: the rest stays.            *)
ReleaseFails ==
    /\ Cleaning /\ ToRelease # {}
    /\ phase' = "done" /\ stuck' = TRUE /\ ok' = FALSE
    /\ UNCHANGED <<script, pc, inTry, open, kind, live, owned,
                   queue, finished, missed, mem, acc, poolVars, stale, partial>>

\* Faulty: leaves the rest of a list.
NextKindEarly ==
    /\ Cleaning
    /\ kind' = kind + 1
    /\ UNCHANGED <<script, pc, phase, inTry, open, ok, stuck, live, owned,
                   queue, finished, missed, mem, acc, poolVars, stale, partial>>

NextKind ==
    /\ Cleaning /\ ToRelease = {}
    /\ kind' = kind + 1
    /\ UNCHANGED <<script, pc, phase, inTry, open, ok, stuck, live, owned,
                   queue, finished, missed, mem, acc, poolVars, stale, partial>>

Exit ==
    /\ phase = "final" /\ kind > Len(program.final)
    /\ phase' = "done"
    /\ UNCHANGED <<script, pc, inTry, open, ok, stuck, kind, live, owned,
                   queue, finished, missed, mem, acc, poolVars, stale, partial>>

Progress == \/ Acquire \/ Remember \/ ReleaseNow \/ EnterBlock \/ Fill \/ Enqueue \/ Synchronize
            \/ ReadBack \/ SubmitRead \/ AwaitRead \/ LeavePool \/ Joined \/ Completed
            \/ Release \/ NextKind \/ Exit
Host == Progress \/ MissRecord \/ Fails \/ ReleaseFails

\* The result of a read that failed, when it is asked for, raises.
AwaitFails == At({"await"}) /\ Fails

-----------------------------------------------------------------------------
(* A stream executes its next call; a wait is for the latest record made    *)
(* before it.                                                               *)
Execute(s) ==
    /\ queue[s] # <<>>
    /\ LET at == Head(queue[s])
           op == program.body[at]
           met == IF op.do \in {"copy", "kernel"} /\ mem[op.from] # op.stage THEN {at} ELSE {}
       IN  /\ op.do = "wait" => Passed(op.event, at)
           /\ mem' = IF op.do = "copy" THEN [mem EXCEPT ![op.to] = mem[op.from]] ELSE mem
           /\ acc' = CASE op.do = "kernel" -> [o \in Outputs |->
                            IF o \in op.outs THEN acc[o] \cup {op.launch} ELSE acc[o]]
                       [] op.do = "zero" -> [acc EXCEPT ![op.out] = {}]
                       [] OTHER -> acc
           /\ finished' = IF op.do = "record" THEN [finished EXCEPT ![op.event] = at] ELSE finished
           /\ stale' = stale \cup met
    /\ queue' = [queue EXCEPT ![s] = Tail(@)]
    /\ UNCHANGED <<script, hostVars, missed, poolVars, partial>>

(* A thread of the pool takes the oldest read; while it reads, the buffer   *)
(* holds parts of two stages.                                               *)
StartRead ==
    /\ waiting # <<>> /\ Cardinality(reading) < program.workers
    /\ reading' = reading \cup {Head(waiting)}
    /\ mem' = [mem EXCEPT ![Head(waiting).to] = 0]
    /\ waiting' = Tail(waiting)
    /\ UNCHANGED <<script, hostVars, queue, finished, missed, acc, result, stale, partial>>

EndRead(t) ==
    /\ t \in reading
    /\ reading' = reading \ {t}
    /\ \/ /\ mem' = [mem EXCEPT ![t.to] = t.stage]
          /\ result' = [result EXCEPT ![t.stage] = "ok"]
       \/ /\ result' = [result EXCEPT ![t.stage] = "failed"]
          /\ UNCHANGED mem
    /\ UNCHANGED <<script, hostVars, queue, finished, missed, acc, waiting, stale, partial>>

Device == \E s \in Of({"stream"}) : Execute(s)
Reader == StartRead \/ \E t \in reading : EndRead(t)

Next == Host \/ Device \/ Reader

(* The main thread, the device and the pool's threads all make progress.   *)
(* No call has to fail: a wait of the main thread, none of which has a      *)
(* timeout, ends only when what it waits for has happened.                  *)
Spec == /\ Init /\ [][Next]_vars
        /\ WF_vars(Progress \/ AwaitFails) /\ WF_vars(Device) /\ WF_vars(Reader)

-----------------------------------------------------------------------------
(* Resources and positions keep their types, and no thread of the pool is   *)
(* at work once the finally block has started.                              *)
TypeOK ==
    /\ script \in DOMAIN Programs
    /\ pc \in Nat \ {0} /\ kind \in Nat \ {0}
    /\ phase \in {"run", "join", "final", "done"}
    /\ {inTry, open, ok, stuck} \subseteq BOOLEAN
    /\ live \subseteq program.resources /\ owned \subseteq program.resources
    /\ phase \in {"final", "done"} => ~open

\* Until the finally block starts, all that it would release exists.
NothingReleasedTwice == phase \in {"run", "join"} => owned \subseteq live

\* No queued work uses a buffer that was released.
NoUseAfterRelease ==
    \A s \in Of({"stream"}) : \A i \in 1..Len(queue[s]) :
        LET op == program.body[queue[s][i]] IN op.do \in {"copy", "kernel"} => Uses(op) \subseteq live

\* When the script succeeds nothing at all is left on the device or pinned.
SuccessLeavesNothing == phase = "done" /\ ok => live = {}

(* No buffer is released a second time, or while work that uses it is queued: *)
(* the finally blocks run only after the streams are drained or undone; and a *)
(* script that succeeds has released each.                                  *)
BuffersReleasedOnce == NothingReleasedTwice /\ NoUseAfterRelease /\ SuccessLeavesNothing

\* The pool's threads write only into buffers that exist and that no copy
\* queued on a stream is still to read.
RefillWaits ==
    \A t \in reading :
        /\ t.to \in live
        /\ \A s \in Of({"stream"}) : \A i \in 1..Len(queue[s]) :
               LET op == program.body[queue[s][i]] IN op.do = "copy" => op.from # t.to

(* No copy and no kernel meets the bytes of another stage than the one the  *)
(* script queued it for, and no buffer is refilled before it was copied.    *)
DataIsCurrent == stale = {} /\ RefillWaits

\* Times are asked only of events the device has passed, whichever records were
\* missed (else CUDA answers cudaErrorNotReady and the run fails after all its work).
TimesAreComplete == At({"elapsed"}) => \A e \in Op.events : Reached(e)

(* What the script reads back at the end is the sum over every stage (or    *)
(* row, or value) it selected, each counted once and from zero, and the     *)
(* times it takes are of records the device has passed.  The time of a      *)
(* launch whose record is in missed is not the launch's: five scripts       *)
(* ignore that failure and read the record of the copy before it.           *)
TotalsAreWhole == partial = {} /\ TimesAreComplete

(* When the script ends nothing that its finally block knows of is left,    *)
(* wherever it failed, unless a release itself failed.                      *)
NothingForgotten == phase = "done" /\ inTry /\ ~stuck => live \cap owned = {}

(* Every run ends: no wait, of the main thread, of a stream or of the pool, *)
(* lasts for ever, even if no call ever fails to end it.                    *)
RunEnds == <>(phase = "done")
=============================================================================
