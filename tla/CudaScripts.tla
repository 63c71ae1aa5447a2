----------------------------- MODULE CudaScripts -----------------------------
(***************************************************************************)
(* The CUDA scripts as programs of CudaHost: the calls each makes between  *)
(* its first allocation and its last, in the order of the source, for N    *)
(* stages (chunks, replays), B pinned and D device buffers.  Start and     *)
(* stop event of a pair are one resource; a start event is never waited    *)
(* for, so its record is left out.                                         *)
(***************************************************************************)
EXTENDS CudaHost, SequencesExt

CONSTANTS N, B, D, Replays, Threads,
          Empty,      \* stages without a tensor that dequant and matvec work on
          Tensors     \* tensors, and so matvec launches, of each other stage

Module == <<"module", 1>>
Compiled == <<"nvrtc", 1>>
H(b) == <<"host", b>>
Dv(b) == <<"dev", b>>
Out(k) == <<"out", k>>
Row(i) == <<"row", i>>
Activation == <<"act", 1>>
St(s) == <<"stream", s>>
Ev(e) == <<"event", e>>
GpuWindow == Ev(0)

Each(n, F(_)) == FlattenSeq([i \in 1..n |-> F(i)])
Buffer(i, n) == ((i - 1) % n) + 1

Script(n, workers, calls, cleanup) ==
    LET named == UNION {IF c.do \in {"alloc", "take"} THEN {c.res} ELSE {} : c \in ToSet(calls)}
    IN  [resources |-> named, stages |-> n, workers |-> workers, body |-> calls, final |-> cleanup]

-----------------------------------------------------------------------------
(* Steps the scripts share. *)
FindDevice == <<Check>>
CompileImage == <<Alloc(Compiled), Check, Free(Compiled)>>
LoadFunction == <<Alloc(Module), Check, Own({Module})>>
LoadKernel == FindDevice \o CompileImage \o LoadFunction

(* Both ways of putting a pinned and a device buffer, a stream and a pair   *)
(* of events together: an own entry of each list only when all five exist.  *)
BufferSet(b) ==
    <<Alloc(H(b)), Alloc(Dv(b)), Alloc(St(b)), Alloc(Ev(b)), Own({H(b), Dv(b), St(b), Ev(b)})>>

TimedCopy(a, b, i, s, e) == <<Copy(a, b, i, s), Record(e, s), Sync(e), Elapsed({e})>>
\* Launches between two records of which the scripts ignore the return codes.
Timed(launches, s, e) == launches \o <<RecordUnchecked(e, s), Sync(e), Elapsed({e})>>
TimedLaunch(k, a, i, outs, s, e) == Timed(<<Kernel(k, a, i, outs, s)>>, s, e)

LaunchByteSum(i, b) == TimedLaunch(i, Dv(b), i, {Out(1)}, St(b), Ev(b))
LaunchDequant(i, b) == TimedLaunch(i, Dv(b), i, {Out(1), Out(2)}, St(b), Ev(b))
TensorOf(i, t) == (i - 1) * Tensors + t
LaunchMatvec(i, t, outs, b) == <<Kernel(TensorOf(i, t), Dv(b), i, outs, St(b))>>
LaunchVocab(i) == TimedLaunch(i, Dv(1), i, {Out(1), Out(2), Row(1)}, St(1), Ev(1))

-----------------------------------------------------------------------------
(* sage_oracle_cuda_staging.py *)
StagingSetup == FindDevice \o <<Check, Try>> \o Each(B, BufferSet)
StagingRead(i) == <<Check, Read(H(Buffer(i, B)), i)>>
StagingStage(i) ==
    LET b == Buffer(i, B) IN StagingRead(i) \o TimedCopy(H(b), Dv(b), i, St(b), Ev(b))
StagingCleanup == <<"event", "stream", "dev", "host">>
Staging == Script(N, 1, StagingSetup \o Each(N, StagingStage) \o <<Check>>, StagingCleanup)

(* sage_oracle_cuda_kernel_smoke.py: the sum is zeroed on the first stream, *)
(* which also works on the first stage, before anything else is queued.     *)
KernelSetup == LoadKernel \o <<Check, Try>> \o Each(B, BufferSet)
KernelOutput == <<Take(Out(1)), Zero(Out(1), St(1))>>
KernelRead(i) == <<Check, Read(H(Buffer(i, B)), i)>>
KernelStage(i) ==
    LET b == Buffer(i, B)
    IN  KernelRead(i) \o TimedCopy(H(b), Dv(b), i, St(b), Ev(b)) \o LaunchByteSum(i, b)
KernelCleanup == <<"out", "event", "stream", "dev", "host", "module">>
KernelSmoke == Script(N, 1,
    KernelSetup \o KernelOutput \o Each(N, KernelStage) \o <<Fetch(Out(1), 1..N), Check>>, KernelCleanup)

(* sage_oracle_cuda_dequant_smoke.py: a stage of which nothing was read is  *)
(* passed over.                                                             *)
Worked == (1..N) \ Empty
DequantSetup == LoadKernel \o <<Check, Try>> \o Each(B, BufferSet)
DequantOutput == <<Take(Out(1)), Take(Out(2)), Zero(Out(1), St(1)), Zero(Out(2), St(1)), SyncDevice>>
DequantRead(i) == IF i \in Empty THEN <<Check>> ELSE <<Check, Read(H(Buffer(i, B)), i)>>
DequantStage(i) ==
    LET b == Buffer(i, B)
    IN  DequantRead(i) \o (IF i \in Empty THEN <<>>
                            ELSE TimedCopy(H(b), Dv(b), i, St(b), Ev(b)) \o LaunchDequant(i, b))
DequantCleanup == <<"out", "event", "stream", "dev", "host", "module">>
DequantSmoke == Script(N, 1,
    DequantSetup \o DequantOutput \o Each(N, DequantStage)
        \o <<Fetch(Out(1), Worked), Fetch(Out(2), Worked), Check>>, DequantCleanup)

(* sage_oracle_cuda_matvec_smoke.py: one launch for each tensor of a stage; *)
(* the scores of a stage, if asked for, are known to the stage alone.       *)
MatvecSetup == LoadKernel \o <<Check, Try>> \o Each(B, BufferSet)
MatvecActivation == <<Take(Activation), Upload(Activation)>>
MatvecOutput == <<Take(Out(1)), Take(Out(2)), Zero(Out(1), St(1)), Zero(Out(2), St(1)), SyncDevice>>
MatvecRead(i) == IF i \in Empty THEN <<Check>> ELSE <<Check, Read(H(Buffer(i, B)), i)>>
MatvecTotals(i, outs, b) == Timed(Each(Tensors, LAMBDA t : LaunchMatvec(i, t, outs, b)), St(b), Ev(b))
MatvecScores(i, b) ==
    <<Alloc(Row(i)), Zero(Row(i), St(b))>> \o MatvecTotals(i, {Out(1), Out(2), Row(i)}, b)
        \o <<Fetch(Row(i), {TensorOf(i, t) : t \in 1..Tensors}), Check, Free(Row(i))>>
MatvecStage(i, launches) ==
    LET b == Buffer(i, B)
    IN  MatvecRead(i) \o (IF i \in Empty THEN <<>> ELSE TimedCopy(H(b), Dv(b), i, St(b), Ev(b)) \o launches)
WithScores(i) == MatvecStage(i, MatvecScores(i, Buffer(i, B)))
WithoutScores(i) == MatvecStage(i, MatvecTotals(i, {Out(1), Out(2)}, Buffer(i, B)))
MatvecSum == {TensorOf(i, t) : i \in Worked, t \in 1..Tensors}
MatvecCleanup == <<"act", "out", "event", "stream", "dev", "host", "module">>
MatvecSmoke == [scores \in BOOLEAN |-> Script(N, 1,
    MatvecSetup \o MatvecActivation \o MatvecOutput
        \o (IF scores THEN Each(N, WithScores) ELSE Each(N, WithoutScores))
        \o <<Fetch(Out(1), MatvecSum), Fetch(Out(2), MatvecSum), Check>>, MatvecCleanup)]

-----------------------------------------------------------------------------
(* sage_oracle_cuda_vocab_smoke.py: one buffer, chunk after chunk of rows;  *)
(* every resource has a variable of its own from the start.                 *)
RowBuffers ==
    <<Take(H(1)), Take(Dv(1)), Take(St(1)), Take(Ev(1)), Take(Row(1)), Take(Out(1)), Take(Out(2)),
      Take(Activation), Upload(Activation)>>
VocabSetup == <<Check>> \o LoadKernel \o <<Try>> \o RowBuffers
                \o <<Zero(Out(1), St(1)), Zero(Out(2), St(1)), SyncDevice>>
VocabChunk(i) ==
    <<Read(H(1), i)>> \o TimedCopy(H(1), Dv(1), i, St(1), Ev(1))
        \o <<Zero(Row(1), St(1))>> \o LaunchVocab(i) \o <<Fetch(Row(1), {i}), Check>>
RowCleanup == <<"out", "row", "act", "event", "stream", "dev", "host", "module">>
VocabSmoke == Script(N, 1,
    VocabSetup \o Each(N, VocabChunk) \o <<Fetch(Out(1), 1..N), Fetch(Out(2), 1..N), Check>>, RowCleanup)

(* sage_oracle_cuda_candidate_smoke.py: the same buffers, one batch of rows *)
CandidateSetup == <<Check>> \o LoadKernel \o <<Try>>
CandidateBuffers == RowBuffers
CandidateRows ==
    <<Read(H(1), 1), Zero(Out(1), St(1)), Zero(Out(2), St(1))>>
        \o TimedCopy(H(1), Dv(1), 1, St(1), Ev(1))
        \o <<Zero(Row(1), St(1))>> \o LaunchVocab(1) \o <<Fetch(Row(1), {1}), Check>>
CandidateCleanup == RowCleanup
CandidateSmoke == Script(1, 1, CandidateSetup \o CandidateBuffers \o CandidateRows, CandidateCleanup)

(* sage_kv_tier_smoke.py: packs the sample on the device and unpacks what   *)
(* it has packed.                                                           *)
KvTierSetup == LoadKernel \o <<Check, Try, Take(H(1)), Read(H(1), 1), Take(Dv(1)), Take(Dv(2)),
                               Take(Dv(3)), Take(St(1)), Take(Ev(1))>>
LaunchPack(a, b) == TimedCopy(a, b, 1, St(1), Ev(1))
KvTierPack == TimedCopy(H(1), Dv(1), 1, St(1), Ev(1)) \o LaunchPack(Dv(1), Dv(2)) \o LaunchPack(Dv(2), Dv(3))
KvTierCleanup == <<"event", "stream", "dev", "host", "module">>
KvTierSmoke == Script(1, 1, KvTierSetup \o KvTierPack \o <<FetchData(Dv(2), 1), Check>>, KvTierCleanup)

-----------------------------------------------------------------------------
(* The three scripts that overlap copies (first stream) with kernels        *)
(* (second stream) over D device buffers.  Stage i has events: h2d-stop and *)
(* kernel-stop.                                                             *)
Transfer == St(1)
Compute == St(2)
Copied(k) == Ev(2 * k - 1)
Computed(k) == Ev(2 * k)

ReuseDevice(k) == IF k > D THEN <<Wait(Computed(k - D), Transfer)>> ELSE <<>>
CopyThenCompute(k, host, i) ==
    ReuseDevice(k)
        \o <<Copy(host, Dv(Buffer(k, D)), i, Transfer), Record(Copied(k), Transfer),
             Wait(Copied(k), Compute),
             Kernel(k, Dv(Buffer(k, D)), i, {Out(1)}, Compute), Record(Computed(k), Compute)>>

TwoStreams == <<Take(Transfer), Take(Compute), Take(Out(1)), Zero(Out(1), Compute), SyncDevice>>
StageEvents(n) == Each(2 * n, LAMBDA e : <<Take(Ev(e))>>) \o <<Take(GpuWindow)>>
StageTimes(n) == <<Elapsed({Ev(e) : e \in 1..(2 * n)})>>
OverlapCleanup == <<"out", "event", "stream", "dev", "host", "module">>

(* All stages are read into pinned memory of their own first; a buffer is   *)
(* listed when its stage has been read.                                     *)
PinnedStage(i) == <<Check, Alloc(H(i)), Read(H(i), i), Own({H(i)})>>
DeviceBuffers == Each(D, LAMBDA b : <<Take(Dv(b))>>)

(* sage_oracle_cuda_overlap_smoke.py *)
OverlapSetup == <<Check>> \o LoadKernel \o <<Try>> \o Each(N, PinnedStage)
OverlapBuffers == DeviceBuffers \o TwoStreams \o StageEvents(N)
OverlapStages == Each(N, LAMBDA i : CopyThenCompute(i, H(i), i))
OverlapEnd == <<Record(GpuWindow, Compute), Sync(GpuWindow)>> \o StageTimes(N)
                \o <<Elapsed({GpuWindow}), Fetch(Out(1), 1..N), Check>>
OverlapSmoke == Script(N, 1, OverlapSetup \o OverlapBuffers \o OverlapStages \o OverlapEnd, OverlapCleanup)

(* sage_oracle_cuda_page_cache_smoke.py: the pinned stages are the cache,   *)
(* replayed several times; the last event is recorded on the stream of the  *)
(* copies, after it has waited for the last kernel of the replay.           *)
CacheOps == Replays * N
ReplayEvent(r) == Ev(2 * CacheOps + r)
PageCacheSetup == <<Check>> \o LoadKernel \o <<Try>> \o Each(N, PinnedStage)
PageCacheBuffers ==
    DeviceBuffers \o TwoStreams \o StageEvents(CacheOps) \o Each(Replays, LAMBDA r : <<Take(ReplayEvent(r))>>)
ReplayStage(r, i) == LET k == (r - 1) * N + i IN CopyThenCompute(k, H(i), i)
ReplayOnce(r) ==
    Each(N, LAMBDA i : ReplayStage(r, i)) \o <<Wait(Computed(r * N), Transfer), Record(ReplayEvent(r), Transfer)>>
PageCacheEnd ==
    <<Record(GpuWindow, Transfer), Sync(GpuWindow), Elapsed({GpuWindow})>> \o StageTimes(CacheOps)
        \o <<Elapsed({ReplayEvent(r) : r \in 1..Replays}), Fetch(Out(1), 1..CacheOps), Check>>
PageCacheCleanup == <<"out", "event", "stream", "dev", "host", "module">>
PageCacheSmoke == Script(N, 1,
    PageCacheSetup \o PageCacheBuffers \o Each(Replays, ReplayOnce) \o PageCacheEnd, PageCacheCleanup)

(* sage_oracle_cuda_prefetch_overlap_smoke.py: a pool reads stages ahead    *)
(* into B pinned buffers, while earlier ones are copied and worked on; a    *)
(* buffer is given to the pool again when its copy has ended.               *)
PinnedBuffer(b) == <<Alloc(H(b)), Own({H(b)})>>
PrefetchSetup == <<Check>> \o LoadKernel \o <<Try>> \o Each(B, PinnedBuffer)
PrefetchBuffers == DeviceBuffers \o TwoStreams \o StageEvents(N)
SubmitStage(i) == <<Check, Submit(H(Buffer(i, B)), i)>>
RefillAfter(i) ==
    LET next == i + B
    IN  IF next <= N THEN <<Sync(Copied(next - B))>> \o SubmitStage(next) ELSE <<>>
PrefetchStage(i) == <<Await(i)>> \o CopyThenCompute(i, H(Buffer(i, B)), i) \o RefillAfter(i)
FirstReads == Each(IF B < N THEN B ELSE N, SubmitStage)
PrefetchEnd == <<Record(GpuWindow, Compute), Sync(GpuWindow), Elapsed({GpuWindow})>> \o StageTimes(N)
                \o <<Fetch(Out(1), 1..N), Check>>
PrefetchCleanup == <<"out", "event", "stream", "dev", "host", "module">>
PrefetchSmoke == Script(N, Threads,
    PrefetchSetup \o PrefetchBuffers \o <<OpenPool>> \o FirstReads \o Each(N, PrefetchStage) \o <<ClosePool>>
        \o PrefetchEnd, PrefetchCleanup)

AllScripts ==
    [staging |-> Staging, kernel |-> KernelSmoke, dequant |-> DequantSmoke,
     matvec |-> MatvecSmoke[FALSE], matvecScores |-> MatvecSmoke[TRUE],
     vocab |-> VocabSmoke, candidate |-> CandidateSmoke, kvTier |-> KvTierSmoke,
     overlap |-> OverlapSmoke, pageCache |-> PageCacheSmoke, prefetch |-> PrefetchSmoke]
=============================================================================
