------------------------------- MODULE Captures --------------------------------
(* Where the data of the decision policy come from.  sage_logprob_probe.py    *)
(* lets proxy and oracle answer the same prompts and compares them step by    *)
(* step; sage_candidate_tasks.py makes a task of every step a verifier might  *)
(* judge; sage_candidate_replay.py asks the oracle again with the proxy's own *)
(* text; sage_failure_tasks.py selects rows of the replay; sage_probe_        *)
(* capture.py and sage_runtime_capture.py run the tasks with tensor capture   *)
(* and sage_compare_runtime_debug.py and sage_compare_runtime_decisions.py    *)
(* compare what was captured.                                                 *)
(*                                                                            *)
(* A tensor's data that must be equal (type, operation, shape, counts) are    *)
(* one value `sig', the numbers compared with a tolerance one value `sum'.    *)
EXTENDS DecisionPolicy

-----------------------------------------------------------------------------
(* sage_logprob_probe.py                                                      *)
Infinite == 10^6        \* the margin of a token without a rival

\* parse_step(): the first of the most probable tokens stands in for what the server leaves out.
ParseStep(raw) ==
    LET given(f, default) == IF f \in DOMAIN raw THEN raw[f] ELSE default
        top == given("top", <<>>)
        first == IF top = <<>> THEN [token_id |-> -1, token |-> ""] ELSE top[1]
    IN  [token_id |-> given("token_id", first.token_id), token |-> given("token", first.token), top |-> top,
         entropy |-> raw.entropy,
         margin |-> CASE Len(top) = 0 -> 0 [] Len(top) = 1 -> Infinite
                      [] OTHER -> top[1].logprob - top[2].logprob]

CompareSteps(proxy, oracle, index) ==
    LET values(step, f) == {step.top[i][f] : i \in DOMAIN step.top}
        overlap(f) == Cardinality(values(proxy, f) \cap values(oracle, f))
    IN  [index |-> index, top1_id_match |-> proxy.token_id = oracle.token_id,
         top1_token_match |-> proxy.token = oracle.token,
         topk_id_overlap |-> overlap("token_id"), topk_token_overlap |-> overlap("token"),
         proxy_margin |-> proxy.margin, proxy_entropy |-> proxy.entropy]

\* make_rows(): the steps both have, of the prompts both were asked.
MakeRows(prompts, proxy, oracle) ==
    [p \in 1 .. Smaller(Len(prompts), Smaller(Len(proxy), Len(oracle))) |->
        [prompt |-> prompts[p], proxy |-> proxy[p], oracle |-> oracle[p],
         steps |-> [i \in 1 .. Smaller(Len(proxy[p]), Len(oracle[p])) |->
                        CompareSteps(proxy[p][i], oracle[p][i], i - 1)]]]

SummarizeProbe(rows, ignore) ==
    LET steps == FoldLeft(LAMBDA all, r : all \o SelectSeq(r.steps, LAMBDA s : s.index >= ignore), <<>>, rows)
    IN  [prompts |-> Len(rows), steps |-> Len(steps), top1_id_matches |-> CountOf(steps, LAMBDA s : s.top1_id_match),
         top1_token_matches |-> CountOf(steps, LAMBDA s : s.top1_token_match)]

-----------------------------------------------------------------------------
(* sage_candidate_tasks.py                                                    *)
StepToken(steps, index) == IF index < Len(steps) THEN steps[index + 1].token ELSE ""

CandidateMatches(step, class, opt) ==
    /\ "any" \in opt.classes \/ class \in opt.classes
    /\ step.proxy_margin >= opt.min_margin
    /\ opt.max_entropy >= 0 => step.proxy_entropy <= opt.max_entropy

\* Faulty: the ignored tokens are part of the text.
AppendTextWhole(proxy, ignore, index) == [i \in 1 .. index |-> StepToken(proxy, i - 1)]

\* The proxy's tokens between the ignored ones and this step.
AppendText(proxy, ignore, index) == [i \in 1 .. index - ignore |-> StepToken(proxy, ignore + i - 1)]

\* One step of build_tasks(): perhaps a task, then the step counts for the prefix of the next.
StepTask(acc, row, prompt_index, step, class_of, opt) ==
    LET token  == StepToken(row.proxy, step.index)
        task   == [task_id |-> Len(acc.tasks) + 1, prompt_index |-> prompt_index, prompt |-> row.prompt,
                   step_index |-> step.index, append_text |-> AppendText(row.proxy, opt.ignore, step.index),
                   proxy_token |-> token, oracle_token |-> StepToken(row.oracle, step.index),
                   proxy_margin |-> step.proxy_margin, proxy_entropy |-> step.proxy_entropy,
                   token_class |-> class_of[token], top1_match |-> step.top1_token_match, prefix_match |-> acc.token_ok,
                   label_quality |-> IF acc.token_ok THEN "same-prefix" ELSE "diverged-prefix"]
        wanted == CandidateMatches(step, class_of[token], opt) /\ (opt.require_prefix => acc.token_ok)
    IN  IF step.index < opt.ignore THEN acc
        ELSE [tasks |-> IF wanted THEN Append(acc.tasks, task) ELSE acc.tasks,
              token_ok |-> acc.token_ok /\ step.top1_token_match]

\* build_tasks(): a row starts with a matching prefix, and the numbers of the tasks go on over all files.
BuildTasks(files, class_of, opt) ==
    LET ofRow(tasks, row, p) ==
            FoldLeft(LAMBDA acc, step : StepTask(acc, row, p, step, class_of, opt),
                     [tasks |-> tasks, token_ok |-> TRUE], row.steps).tasks
        ofFile(tasks, rows) ==
            FoldLeft(LAMBDA acc, p : ofRow(acc, rows[p], p), tasks, [p \in DOMAIN rows |-> p])
    IN  FoldLeft(ofFile, <<>>, files)

SummarizeTasks(tasks) ==
    [tasks |-> Len(tasks), top1_token_matches |-> CountOf(tasks, LAMBDA t : t.top1_match),
     same_prefix_tasks |-> CountOf(tasks, LAMBDA t : t.prefix_match),
     same_prefix_matches |-> CountOf(tasks, LAMBDA t : t.prefix_match /\ t.top1_match)]

-----------------------------------------------------------------------------
(* sage_candidate_replay.py: the oracle's one token after a rendered prompt,  *)
(* a function of it for a server at temperature 0.                            *)
RenderPrompt(prompt, thought_prefix, append_text) == [prompt |-> prompt, text |-> thought_prefix \o append_text]

ReplayTask(task, oracle, opt) ==
    LET step == ParseStep(oracle[RenderPrompt(task.prompt, opt.thought_prefix, task.append_text)])
    IN  [task |-> task, oracle_token |-> step.token, match |-> step.token = task.proxy_token,
         in_topk |-> \E i \in DOMAIN step.top : step.top[i].token = task.proxy_token]

\* The whole replay; it ends with an answer that has no step.
Replay(tasks, oracle, opt) == [i \in DOMAIN tasks |-> ReplayTask(tasks[i], oracle, opt)]

SummarizeReplay(rows) ==
    LET of(quality) == SelectSeq(rows, LAMBDA r : r.task.label_quality = quality)
    IN  [tasks |-> Len(rows), replay_matches |-> CountOf(rows, LAMBDA r : r.match),
         original_matches |-> CountOf(rows, LAMBDA r : r.task.top1_match),
         label_changes |-> CountOf(rows, LAMBDA r : r.match # r.task.top1_match),
         same_prefix_tasks |-> Len(of("same-prefix")),
         same_prefix_replay_matches |-> CountOf(of("same-prefix"), LAMBDA r : r.match),
         diverged_prefix_tasks |-> Len(of("diverged-prefix")),
         diverged_prefix_replay_matches |-> CountOf(of("diverged-prefix"), LAMBDA r : r.match)]

-----------------------------------------------------------------------------
(* sage_failure_tasks.py                                                      *)
RowMatchesKind(row, kind, gate) ==
    LET accepted == ProxyGateAccepts(row.task, gate)
    IN  \/ kind = "false-accepts" /\ accepted /\ ~row.match
        \/ kind = "true-accepts" /\ accepted /\ row.match
        \/ kind = "all-mismatches" /\ ~row.match
        \/ kind = "accepted" /\ accepted
        \/ kind = "all"

\* selected_rows(): the first rows that match, so many of a class and so many in all (0: no limit).
SelectedRows(rows, gate, opt) ==
    LET ofClass(s, class) == CountOf(s, LAMBDA r : r.task.token_class = class)
        wanted(row) == /\ "any" \in opt.classes \/ row.task.token_class \in opt.classes
                       /\ opt.label_quality \in {"any", row.task.label_quality}
                       /\ RowMatchesKind(row, opt.kind, gate)
        room(s, row) == /\ opt.max_tasks > 0 => Len(s) < opt.max_tasks
                        /\ opt.max_per_class > 0 => ofClass(s, row.task.token_class) < opt.max_per_class
    IN  FoldLeft(LAMBDA s, row : IF wanted(row) /\ room(s, row) THEN Append(s, row) ELSE s, <<>>, rows)

\* task_from_row(): a mismatch is called a false accept, whether the gate accepted it or not.
TaskFromRow(row) ==
    [failure_kind |-> IF row.match THEN "replay-match" ELSE "replay-false-accept", replay_top1_match |-> row.match,
     replay_oracle_token |-> row.oracle_token, original_top1_match |-> row.task.top1_match] @@ row.task

-----------------------------------------------------------------------------
(* sage_probe_capture.py, sage_runtime_capture.py.  The output of llama-debug *)
(* is a sequence of lines: a "header" (name, sig), a "sum" or "stats" line,   *)
(* or any "other"; a NaN sum is "other", a NaN in a stats line is not.        *)
Occurrence(signals, name) == CountOf(signals, LAMBDA s : s.name = name)
AddSignal(signals, name, sig, sum) ==
    Append(signals, [name |-> name, occurrence |-> Occurrence(signals, name), sig |-> sig, sum |-> sum])

NothingPending == [kind |-> "other"]

\* parse_tensor_signals(): a sum belongs to the last header, which it uses up.
SignalLine(acc, line) ==
    CASE line.kind = "header" -> [acc EXCEPT !.pending = line]
      [] line.kind \in {"sum", "stats"} /\ acc.pending # NothingPending ->
            [signals |-> AddSignal(acc.signals, acc.pending.name, acc.pending.sig, line.sum), pending |-> NothingPending]
      [] OTHER -> acc

ParseTensorSignals(lines) == FoldLeft(SignalLine, [signals |-> <<>>, pending |-> NothingPending], lines).signals

\* parse_tensor_signals_jsonl(): one record of the file, one signal.
ParseTensorJsonl(records) == FoldLeft(LAMBDA s, r : AddSignal(s, r.name, r.sig, r.sum), <<>>, records)

\* load_tasks()
LoadTasks(tasks, offset, limit) ==
    LET usable == SelectSeq(tasks, LAMBDA t : "prompt" \in DOMAIN t)
        rest   == SubSeq(usable, offset + 1, Len(usable))
    IN  IF limit > 0 THEN FirstOf(rest, limit) ELSE rest

NoFile == [exists |-> FALSE]
File(records) == [exists |-> TRUE, records |-> records]

\* run_prompt() of the probe: the file of statistics if there is one, else the output.
ProbeCapture(prompt, task, output, stats) ==
    LET tensors == IF stats.exists THEN ParseTensorJsonl(stats.records) ELSE ParseTensorSignals(output)
    IN  [prompt |-> prompt, task |-> task, tensor_count |-> Len(tensors), tensors |-> tensors]

\* run_prompt() of the runtime: what the program did not write is empty, however it ended.
RuntimeCapture(prompt, task, stats, decision) ==
    LET tensors == IF stats.exists THEN ParseTensorJsonl(stats.records) ELSE <<>>
    IN  [prompt |-> prompt, task |-> task, tensor_count |-> Len(tensors), tensors |-> tensors,
         decisions |-> IF decision.exists THEN decision.records ELSE <<>>]

-----------------------------------------------------------------------------
(* sage_compare_runtime_debug.py                                              *)
TensorKey(tensor) == <<tensor.name, tensor.occurrence>>
TensorKeys(capture) == {TensorKey(capture.tensors[i]) : i \in DOMAIN capture.tensors}
TensorAt(capture, key) == capture.tensors[CHOOSE i \in DOMAIN capture.tensors : TensorKey(capture.tensors[i]) = key]

\* compare_captures(), pair by pair; a key that occurs twice in a capture ends it.
CompareCaptures(debug, runtime, tolerance) ==
    LET pairs == 1 .. Smaller(Len(debug), Len(runtime))
        same(i) == TensorKeys(debug[i]) \cap TensorKeys(runtime[i])
        differs(i, key) == \/ TensorAt(debug[i], key).sig # TensorAt(runtime[i], key).sig
                           \/ Abs(TensorAt(debug[i], key).sum - TensorAt(runtime[i], key).sum) > tolerance
        twice(capture) == Cardinality(TensorKeys(capture)) < Len(capture.tensors)
    IN  IF \E i \in pairs : twice(debug[i]) \/ twice(runtime[i]) THEN Failure
        ELSE [status |-> "compared",
              missing |-> SumOf(LAMBDA i : Cardinality(TensorKeys(debug[i]) \ TensorKeys(runtime[i])), [i \in pairs |-> i]),
              extra |-> SumOf(LAMBDA i : Cardinality(TensorKeys(runtime[i]) \ TensorKeys(debug[i])), [i \in pairs |-> i]),
              passed |-> /\ Len(debug) = Len(runtime)
                         /\ \A i \in pairs : /\ debug[i].prompt = runtime[i].prompt
                                             /\ TensorKeys(debug[i]) = TensorKeys(runtime[i])
                                             /\ \A key \in same(i) : ~differs(i, key)]

-----------------------------------------------------------------------------
(* sage_compare_runtime_decisions.py                                          *)
Sentinel == "ffn_norm-0"
NoSum == <<>>

\* latest_ffn_sum(): the last sum of the tensor the frozen policy looks at.
LatestFfnSum(capture) ==
    LET sums == SelectSeq(capture.tensors, LAMBDA t : t.name = Sentinel)
    IN  IF sums = <<>> THEN NoSum ELSE <<Last(sums).sum>>

ExactFields == {"proxy_gate_accept", "verifier_needed", "verifier_covered", "verifier_accept", "action", "reason"}

\* compare(): the last decision of each task against that of the Python scheduler.
CompareDecisions(captures, gate, verifier_mask) ==
    LET expected == LastByKey([i \in DOMAIN captures |->
                        [key |-> captures[i].task.task_id,
                         value |-> SchedulerDecision(captures[i].task @@ [tensor_count |-> captures[i].tensor_count],
                                                     gate, verifier_mask[i])]])
        last     == LastByKey([i \in DOMAIN captures |-> [key |-> captures[i].task.task_id, value |-> captures[i]]])
        written  == SelectSeq(captures, LAMBDA c : c.decisions # <<>>)
        runtime  == LastByKey([i \in DOMAIN written |->
                        [key |-> written[i].task.task_id, value |-> Last(written[i].decisions)]])
        same(id) == /\ runtime[id].candidate_id = id
                    /\ \A f \in ExactFields : runtime[id][f] = expected[id][f]
                    /\ runtime[id].ffn_sum = LatestFfnSum(last[id])
        missing  == DOMAIN expected \ DOMAIN runtime
    IN  [matched |-> Cardinality(DOMAIN expected \cap DOMAIN runtime), missing |-> Cardinality(missing),
         extra |-> SumOf(LAMBDA c : Len(c.decisions) - 1, written),
         passed |-> missing = {} /\ \A id \in DOMAIN runtime : same(id)]
================================================================================
