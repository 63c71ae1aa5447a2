---------------------------- MODULE DecisionPolicy ----------------------------
(* The decision rule of the SAGE scheduler: which of the proxy's tokens are   *)
(* accepted and which are asked of the oracle.  The rule is written three     *)
(* times in the repository: for captured runs (sage_runtime_scheduler.py), in *)
(* the C++ hook that runs inside llama.cpp (patch 0007), and for replays      *)
(* (sage_multitoken_replay.py, sage_cpp_scheduler_replay.py); the live loop   *)
(* (LiveLoop) decides by a fourth copy.  This module holds the rule, the      *)
(* summaries computed from its decisions and the comparison of a live run     *)
(* with its replay.                                                           *)
EXTENDS Tallies

Accept   == "accept_proxy"
Fallback == "oracle_fallback"

-----------------------------------------------------------------------------
(* A task: the proxy's step (entropy, margin, class of its token), what the   *)
(* oracle says, and the tensors captured for it.                              *)
ProxyGateAccepts(task, gate) ==
    task.proxy_entropy <= gate.max_entropy \/ task.proxy_margin >= gate.min_margin

VerifierNeeded(task, gate) ==
    ProxyGateAccepts(task, gate) /\ task.token_class \in gate.verifier_classes

\* make_decisions(): one decision of the Python scheduler.
SchedulerDecision(task, gate, verifier_accept) ==
    LET accept  == ProxyGateAccepts(task, gate)
        needed  == VerifierNeeded(task, gate)
        covered == needed /\ task.tensor_count > 0
        reason  == CASE ~accept             -> "proxy_gate_reject"
                     [] accept /\ ~needed   -> "proxy_gate_non_verifier_class"
                     [] needed /\ ~covered  -> "missing_runtime_signal"
                     [] OTHER -> IF verifier_accept THEN "runtime_verifier_accept"
                                                    ELSE "runtime_verifier_reject"
        action  == IF reason \in {"proxy_gate_non_verifier_class", "runtime_verifier_accept"}
                   THEN Accept ELSE Fallback
    IN  [proxy_gate_accept |-> accept, verifier_needed |-> needed, verifier_covered |-> covered,
         verifier_accept |-> IF ~covered THEN "none" ELSE IF verifier_accept THEN "accept" ELSE "reject",
         action |-> action, reason |-> reason, top1_match |-> task.top1_match,
         false_accept |-> action = Accept /\ ~task.top1_match]

\* summarize() of the scheduler.
SchedulerSummary(decisions, max_error, require_coverage) ==
    LET count(Test(_)) == CountOf(decisions, Test)
        needed   == count(LAMBDA d : d.verifier_needed)
        covered  == count(LAMBDA d : d.verifier_covered)
        accepted == count(LAMBDA d : d.action = Accept)
        false    == count(LAMBDA d : d.false_accept)
    IN  [captures |-> Len(decisions),
         proxy_gate_accepts |-> count(LAMBDA d : d.proxy_gate_accept),
         verifier_needed |-> needed, verifier_covered |-> covered, verifier_missing |-> needed - covered,
         verifier_accepts |-> count(LAMBDA d : d.verifier_accept = "accept"),
         verifier_rejects |-> count(LAMBDA d : d.verifier_accept = "reject"),
         accepted_proxy |-> accepted,
         oracle_fallbacks |-> count(LAMBDA d : d.action = Fallback),
         false_accepts |-> false,
         true_accepts |-> count(LAMBDA d : d.action = Accept /\ d.top1_match),
         true_rejects |-> count(LAMBDA d : d.verifier_accept = "reject" /\ ~d.top1_match),
         false_rejects |-> count(LAMBDA d : d.verifier_accept = "reject" /\ d.top1_match),
         meets_all_gates |-> AtMost(false, accepted, max_error)
                             /\ (require_coverage => needed = covered)]

-----------------------------------------------------------------------------
(* replay(): the runtime decision is the last one recorded under the task's   *)
(* key, by the C++ hook or by the Python scheduler.                           *)
RowKey(task) == <<task.task_id, task.proxy_token>>

\* load_cpp_decisions(): a capture counts only if it holds decisions; the last of them does.
LoadCppDecisions(captures) ==
    LET withDecisions == SelectSeq(captures, LAMBDA c : c.decisions # <<>>)
    IN  LastByKey([i \in DOMAIN withDecisions |->
            [key |-> RowKey(withDecisions[i].task), value |-> Last(withDecisions[i].decisions)]])

\* load_python_decisions(): every capture is decided by the Python scheduler.
LoadPythonDecisions(captures, gate, verifier_mask) ==
    LastByKey([i \in DOMAIN captures |->
        [key |-> RowKey(captures[i].task),
         value |-> SchedulerDecision(captures[i].task, gate, verifier_mask[i])]])

NoDecision == [action |-> "none"]

ChooseRuntimeDecision(key, cpp, python, source) ==
    CASE source \in {"cpp", "auto"} /\ key \in DOMAIN cpp -> <<cpp[key], "cpp">>
      [] source \in {"python", "auto"} /\ key \in DOMAIN python -> <<python[key], "python">>
      [] OTHER -> <<NoDecision, "missing">>

\* What replay() does with one row, once gate and need are known.
ReplayRule(accept, needed, runtime, source) ==
    CASE ~accept ->
            [action |-> Fallback, reason |-> "proxy_gate_reject", decision_source |-> "proxy_gate",
             verifier_covered |-> FALSE]
      [] accept /\ ~needed ->
            [action |-> Accept, reason |-> "proxy_gate_non_verifier_class",
             decision_source |-> "proxy_gate", verifier_covered |-> FALSE]
      [] needed /\ runtime = NoDecision ->
            [action |-> Fallback, reason |-> "missing_runtime_signal", decision_source |-> source,
             verifier_covered |-> FALSE]
      [] OTHER ->
            [action |-> runtime.action, reason |-> runtime.reason, decision_source |-> source,
             verifier_covered |-> runtime.verifier_covered]

ReplayDecision(row, gate, cpp, python, source) ==
    LET task    == row.task
        accept  == ProxyGateAccepts(task, gate)
        needed  == VerifierNeeded(task, gate)
        chosen  == ChooseRuntimeDecision(RowKey(task), cpp, python, source)
        rule    == ReplayRule(accept, needed, chosen[1], chosen[2])
    IN  rule @@ [proxy_gate_accept |-> accept, verifier_needed |-> needed,
                 replay_top1_match |-> row.match, task_id |-> task.task_id, prompt_index |-> task.prompt_index,
                 step_index |-> task.step_index, token_class |-> task.token_class, proxy_token |-> task.proxy_token,
                 selected_token |-> IF rule.action = Accept THEN task.proxy_token ELSE row.oracle_token,
                 false_accept |-> rule.action = Accept /\ ~row.match]

\* The time of one token times the rows of the trace: every row costs the proxy, every row that
\* needed the verifier its call, every row that was not accepted the oracle.
TraceTime(cost, stats_total, needed, accepted) ==
    stats_total * cost.proxy_ms + needed * cost.verifier_ms + (stats_total - accepted) * cost.oracle_ms

\* The gates of a report (multitoken_replay and policy_report): speed, error, coverage.
MeetsGates(cost, opt, counts) ==
    /\ TraceTime(cost, opt.stats_total, counts.verifier_needed, counts.final_accepts)
          <= opt.stats_total * opt.target_ms
    /\ AtMost(counts.final_false_accepts, counts.final_accepts, opt.max_accepted_error)
    /\ AtMost(counts.final_false_accepts, opt.stats_total, opt.max_total_error)
    /\ opt.require_coverage => counts.verifier_missing = 0

\* summarize() of the replay; stats_total may exceed the rows that were replayed.
ReplaySummary(decisions, cost, opt) ==
    LET count(Test(_)) == CountOf(decisions, Test)
        needed  == count(LAMBDA d : d.verifier_needed)
        covered == count(LAMBDA d : d.verifier_covered)
        counts  == [proxy_gate_accepts |-> count(LAMBDA d : d.proxy_gate_accept),
                    proxy_false_accepts |-> count(LAMBDA d : d.proxy_gate_accept /\ ~d.replay_top1_match),
                    verifier_needed |-> needed, verifier_covered |-> covered,
                    verifier_missing |-> needed - covered,
                    direct_proxy_accepts |-> count(LAMBDA d : d.reason = "proxy_gate_non_verifier_class"),
                    final_accepts |-> count(LAMBDA d : d.action = Accept),
                    oracle_fallbacks |-> count(LAMBDA d : d.action = Fallback),
                    final_false_accepts |-> count(LAMBDA d : d.false_accept)]
    IN  counts @@ [meets_all_gates |-> MeetsGates(cost, opt, counts)]

\* summarize() of sage_policy_report.py: the same counts from the rows and the verifier's records,
\* a map from row keys to [accepted, match].
PolicyReport(rows, records, gate, cost, opt) ==
    LET gated  == SelectSeq(rows, LAMBDA r : ProxyGateAccepts(r.task, gate))
        needed == SelectSeq(gated, LAMBDA r : r.task.token_class \in gate.verifier_classes)
        others == SelectSeq(gated, LAMBDA r : r.task.token_class \notin gate.verifier_classes)
        known  == SelectSeq(needed, LAMBDA r : RowKey(r.task) \in DOMAIN records)
        passed == SelectSeq(known, LAMBDA r : records[RowKey(r.task)].accepted)
        counts == [proxy_gate_accepts |-> Len(gated),
                   proxy_false_accepts |-> CountOf(gated, LAMBDA r : ~r.match),
                   verifier_needed |-> Len(needed), verifier_covered |-> Len(known),
                   verifier_missing |-> Len(needed) - Len(known),
                   direct_proxy_accepts |-> Len(others),
                   final_accepts |-> Len(others) + Len(passed),
                   oracle_fallbacks |-> Len(rows) - Len(others) - Len(passed),
                   final_false_accepts |-> CountOf(others, LAMBDA r : ~r.match)
                                           + CountOf(passed, LAMBDA r : ~records[RowKey(r.task)].match)]
    IN  counts @@ [meets_all_gates |-> MeetsGates(cost, opt, counts)]

-----------------------------------------------------------------------------
(* The frozen policy.  A task's ffn_norm_0 sum is present or not (has_ffn); a  *)
(* sum that is missing passes no threshold.                                   *)
FrozenAccept(task, frozen) ==
    task.proxy_entropy <= frozen.entropy \/ (task.has_ffn /\ task.ffn_sum >= frozen.ffn_sum)

\* expected_decision() of the parity script.
ExpectedDecision(task, gate, frozen) ==
    LET accept  == ProxyGateAccepts(task, gate)
        needed  == VerifierNeeded(task, gate)
        covered == needed /\ task.has_ffn
        verdict == covered /\ FrozenAccept(task, frozen)
    IN  [proxy_gate_accept |-> accept, verifier_needed |-> needed, verifier_covered |-> covered,
         verifier_accept |-> IF ~covered THEN "none" ELSE IF verdict THEN "accept" ELSE "reject",
         action |-> IF (accept /\ ~needed) \/ verdict THEN Accept ELSE Fallback,
         reason |-> CASE ~accept -> "proxy_gate_reject"
                      [] accept /\ ~needed -> "proxy_gate_non_verifier_class"
                      [] needed /\ ~covered -> "missing_runtime_signal"
                      [] OTHER -> IF verdict THEN "runtime_verifier_accept" ELSE "runtime_verifier_reject"]

\* Faulty: a missing sum counts as a verdict of the verifier.
CppDecideUncovered(task, gate, frozen) ==
    [ExpectedDecision([task EXCEPT !.has_ffn = TRUE], gate, frozen) EXCEPT !.verifier_covered = task.has_ffn]

\* common_sage_decide(), with the gate and the thresholds the C++ code is written with.
CppDecide(task, gate, frozen) ==
    LET accept  == task.proxy_entropy <= gate.max_entropy \/ task.proxy_margin >= gate.min_margin
        needed  == accept /\ task.token_class \in gate.verifier_classes
        covered == needed /\ task.has_ffn
        passed  == covered /\ (task.proxy_entropy <= frozen.entropy \/ task.ffn_sum >= frozen.ffn_sum)
        because(action, reason) ==
            [proxy_gate_accept |-> accept, verifier_needed |-> needed, verifier_covered |-> covered,
             verifier_accept |-> IF covered THEN IF passed THEN "accept" ELSE "reject" ELSE "none",
             action |-> action, reason |-> reason]
    IN  CASE accept /\ ~needed  -> because(Accept, "proxy_gate_non_verifier_class")
          [] needed /\ ~covered -> because(Fallback, "missing_runtime_signal")
          [] needed /\ passed   -> because(Accept, "runtime_verifier_accept")
          [] needed /\ ~passed /\ covered -> because(Fallback, "runtime_verifier_reject")
          [] OTHER -> because(Fallback, "proxy_gate_reject")

\* The token a decision selects, and whether accepting it was wrong.
Selected(row, decision) == IF decision.action = Accept THEN row.task.proxy_token ELSE row.oracle_token
FalseAccept(row, decision) == decision.action = Accept /\ ~row.match

\* One row of the parity check: the fields in which the two decisions differ.
ParityMismatch(row, cpp, expected) ==
    {f \in DOMAIN expected : cpp[f] # expected[f]}
    \cup (IF Selected(row, cpp) # Selected(row, expected) THEN {"selected_token"} ELSE {})
    \cup (IF FalseAccept(row, cpp) # FalseAccept(row, expected) THEN {"false_accept"} ELSE {})

\* run_parity(): `cpp' holds the decisions the executable wrote for the rows, in their order.
RunParity(rows, cpp, gate, frozen) ==
    LET expected == [i \in DOMAIN rows |-> ExpectedDecision(rows[i].task, gate, frozen)]
        wrong == {i \in DOMAIN rows : ParityMismatch(rows[i], cpp[i], expected[i]) # {}}
    IN  IF rows = <<>> \/ Len(cpp) # Len(rows) THEN Failure
        ELSE [status |-> "checked", checked_rows |-> Len(rows),
              verifier_needed |-> CountOf(expected, LAMBDA d : d.verifier_needed),
              verifier_missing |-> CountOf(expected, LAMBDA d : d.reason = "missing_runtime_signal"),
              final_false_accepts |-> CountOf([i \in DOMAIN rows |-> FalseAccept(rows[i], expected[i])],
                                              LAMBDA wrongly : wrongly),
              mismatches |-> Cardinality(wrong), meets_required_matches |-> wrong = {}]

-----------------------------------------------------------------------------
(* sage_cpp_scheduler_replay.py: the text of every prompt grows by the token  *)
(* each of its rows selects.  `texts' maps prompts to sequences of tokens.    *)
TextOf(texts, prompt) == IF prompt \in DOMAIN texts THEN texts[prompt] ELSE <<>>

Grow(acc, row, decision) ==
    LET prompt == row.task.prompt_index
        before == TextOf(acc.texts, prompt)
        after  == Append(before, Selected(row, decision))
    IN  [texts |-> (prompt :> after) @@ acc.texts,
         steps |-> Append(acc.steps, [decision |-> decision, selected |-> Selected(row, decision),
                                      prefix_before |-> before, text_after |-> after])]

\* The rows are taken in the order of the file, by both sides.
ReplayTexts(rows, decisions) ==
    FoldLeft(LAMBDA acc, i : Grow(acc, rows[i], decisions[i]), [texts |-> <<>>, steps |-> <<>>], [i \in DOMAIN rows |-> i])

\* run_replay(): every step of the C++ replay against the expected one.
RunSchedulerReplay(rows, cpp_steps, gate, frozen) ==
    LET expected == ReplayTexts(rows, [i \in DOMAIN rows |-> ExpectedDecision(rows[i].task, gate, frozen)]).steps
        wrong == {i \in DOMAIN rows :
                    \/ cpp_steps[i].decision.action # expected[i].decision.action
                    \/ cpp_steps[i].decision.reason # expected[i].decision.reason
                    \/ cpp_steps[i].selected # expected[i].selected
                    \/ FalseAccept(rows[i], cpp_steps[i].decision) # FalseAccept(rows[i], expected[i].decision)
                    \/ cpp_steps[i].prefix_before # expected[i].prefix_before
                    \/ cpp_steps[i].text_after # expected[i].text_after}
    IN  IF rows = <<>> \/ Len(cpp_steps) # Len(rows) THEN Failure
        ELSE [status |-> "checked",
              prompt_count |-> Cardinality({rows[i].task.prompt_index : i \in DOMAIN rows}),
              generated_text_matches |-> CountOf([i \in DOMAIN rows |-> cpp_steps[i].text_after = expected[i].text_after],
                                                 LAMBDA same : same),
              meets_required_matches |-> wrong = {}]

-----------------------------------------------------------------------------
(* sage_live_replay_compare.py: the decisions of a live run, step by step     *)
(* against those of its replay.                                               *)
CoverageOf(asked, covered) == IF ~asked THEN "none" ELSE IF covered THEN "covered" ELSE "missing"

\* compare_rows(): which fields agree.
CompareRow(live, replay) ==
    [action |-> live.action = replay.action, reason |-> live.reason = replay.reason,
     token_class |-> live.token_class = replay.token_class,
     proxy_token |-> live.proxy_token = replay.proxy_token,
     selected_token |-> live.selected_token = replay.selected_token,
     verifier_coverage |-> CoverageOf(live.verifier_asked, live.verifier_covered)
                           = CoverageOf(replay.verifier_needed, replay.verifier_covered)]

\* The fields that may be required, in the order they are looked at.
RequiredFields == <<"action", "selected_token", "proxy_token", "verifier_coverage">>

FirstMismatch(rows, required) ==
    LET asked == SelectSeq(RequiredFields, LAMBDA f : f \in required)
        wrong == {i \in DOMAIN rows : \E f \in required : ~rows[i][f]}
        first == CHOOSE i \in wrong : \A j \in wrong : i <= j
    IN  IF wrong = {} THEN [index |-> Len(rows), field |-> ""]
        ELSE [index |-> first - 1, field |-> SelectSeq(asked, LAMBDA f : ~rows[first][f])[1]]

\* replay_decisions_for_prompt() and replay_decisions_for_task_ids(): the last decision of a task counts.
ReplayOfPrompt(decisions, prompt) ==
    Sorted(SelectSeq(decisions, LAMBDA d : d.prompt_index = prompt),
           LAMBDA a, b : a.step_index < b.step_index \/ (a.step_index = b.step_index /\ a.task_id < b.task_id))

ReplayOfTasks(decisions, task_ids) ==
    LET byId == LastByKey([i \in DOMAIN decisions |-> [key |-> decisions[i].task_id, value |-> decisions[i]]])
    IN  [i \in DOMAIN task_ids |-> byId[task_ids[i]]]

CompareRuns(live, decisions, opt) ==
    LET seeded    == opt.task_ids # <<>>
        unknown   == {opt.task_ids[i] : i \in DOMAIN opt.task_ids}
                     \ {decisions[i].task_id : i \in DOMAIN decisions}
        replay    == IF seeded THEN ReplayOfTasks(decisions, opt.task_ids)
                     ELSE LET all == ReplayOfPrompt(decisions, opt.prompt_index)
                          IN  SubSeq(all, opt.replay_offset + 1, Len(all))
        cut(s)    == IF opt.max_steps > 0 THEN FirstOf(s, opt.max_steps) ELSE s
        compared  == Smaller(Len(cut(live)), Len(cut(replay)))
        rows      == [i \in 1 .. compared |-> CompareRow(cut(live)[i], cut(replay)[i])]
        mismatch  == FirstMismatch(rows, opt.required)
    IN  IF (seeded /\ unknown # {}) \/ compared = 0 THEN Failure
        ELSE [status |-> "compared", compared_steps |-> compared,
              first_mismatch_field |-> mismatch.field, prefix_aligned_steps |-> mismatch.index,
              selected_token_matches |-> CountOf(rows, LAMBDA r : r.selected_token),
              meets_required_matches |->
                 /\ \A f \in opt.required : CountOf(rows, LAMBDA r : r[f]) = compared
                 /\ Len(cut(live)) = compared]

-----------------------------------------------------------------------------
(* sage_live_report.py: where the time of a live run went.                    *)
StepTiming(step) ==
    LET accounted == step.proxy_ms + step.verifier_ms + step.oracle_ms
    IN  [proxy_ms |-> step.proxy_ms, verifier_ms |-> step.verifier_ms, oracle_ms |-> step.oracle_ms,
         accounted_ms |-> accounted, step_ms |-> step.step_ms, overhead_ms |-> NotNegative(step.step_ms - accounted)]

\* summarize_live(), with what its comparison found ("none": there is no comparison), and combine() of several runs.
TimeTotals(steps, elapsed, compare_pass) ==
    LET accounted == SumOf(LAMBDA s : s.proxy_ms + s.verifier_ms + s.oracle_ms, steps)
    IN  [steps |-> Len(steps), elapsed_ms |-> elapsed, accounted_ms |-> accounted,
         overhead_ms |-> NotNegative(elapsed - accounted), compare_pass |-> compare_pass]

CombineRuns(runs) ==
    LET elapsed == SumOf(LAMBDA r : r.elapsed_ms, runs)  accounted == SumOf(LAMBDA r : r.accounted_ms, runs)
    IN  [steps |-> SumOf(LAMBDA r : r.steps, runs), elapsed_ms |-> elapsed, accounted_ms |-> accounted,
         overhead_ms |-> NotNegative(elapsed - accounted),
         all_compares_passed |-> \A i \in DOMAIN runs : runs[i].compare_pass # "failed"]
================================================================================
