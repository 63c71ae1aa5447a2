----------------------------- MODULE SageDecisions -----------------------------
(* What the tools that make, replay and fit the decisions of SAGE promise     *)
(* each other.  The scripts are sequential programs that read files and write *)
(* one, so that the behaviours here are short: an input is chosen (SageTools) *)
(* and the properties say how the results of several scripts on this input    *)
(* belong together.                                                           *)
EXTENDS Captures, PolicyFits

CONSTANTS
    Rows,       \* how many rows a replay may have
    Steps       \* how many tokens a model answers

ASSUME SageDecisionsAssumption == Rows \in Nat /\ Steps \in Nat \ {0}

VARIABLE input

Nothing == [tool |-> "none"]
NothingChosen == input = Nothing

SeqsUpTo(S, n) == UNION {[1 .. k -> S] : k \in 0 .. n}

-----------------------------------------------------------------------------
(* One decision, four programs.                                               *)
RowGate == [max_entropy |-> 1, min_margin |-> 1, verifier_classes |-> {"punct"}]
Frozen  == [entropy |-> 0, ffn_sum |-> 1]

Captured(name, sum) == [name |-> name, occurrence |-> 0, sig |-> 0, sum |-> sum]
Other == Captured("l_out-0", 1)

\* A step of the proxy: sure or not, verified or not, right or wrong, and what was captured of
\* it: nothing, a tensor that the frozen policy does not look at, its sentinel, or both.
ProxySteps == [sure : {<<0, 0>>, <<1, 0>>, <<2, 0>>, <<2, 1>>}, class : {"punct", "word"}, match : BOOLEAN,
               prompt : {1, 2},
               tensors : {<<>>, <<Other>>, <<Captured(Sentinel, 0)>>, <<Other, Captured(Sentinel, 1)>>}]

RowOf(step, i) ==
    LET sum == LatestFfnSum(step) IN
    [tensors |-> step.tensors, match |-> step.match,
     oracle_token |-> IF step.match THEN <<"proxy", i>> ELSE <<"oracle", i>>,
     task |-> [task_id |-> i, prompt_index |-> step.prompt, step_index |-> i - 1, proxy_token |-> <<"proxy", i>>,
               proxy_entropy |-> step.sure[1], proxy_margin |-> step.sure[2], token_class |-> step.class,
               top1_match |-> step.match, tensor_count |-> Len(step.tensors), has_ffn |-> sum # NoSum,
               ffn_sum |-> IF sum = NoSum THEN 0 ELSE sum[1]]]

ChooseRows ==
    /\ input = Nothing
    /\ \E n \in 1 .. Rows : \E steps \in [1 .. n -> ProxySteps] :
          /\ steps[1].prompt = 1
          /\ input' = [tool |-> "decisions", rows |-> [i \in 1 .. n |-> RowOf(steps[i], i)]]

\* The capture of a row by the patched llama.cpp, which decides as it writes.
CaptureOf(row) ==
    [task |-> row.task, tensors |-> row.tensors, tensor_count |-> Len(row.tensors),
     decisions |-> << [candidate_id |-> row.task.task_id, ffn_sum |-> LatestFfnSum(row)]
                      @@ CppDecide(row.task, RowGate, Frozen) >>]

\* The frozen policy, as an expression over the features 1 (entropy) and 2 (the sentinel's sum).
FrozenExpression == [op |-> "OR", left |-> [feature |-> 1, direction |-> "<=", threshold |-> Frozen.entropy],
                     right |-> [feature |-> 2, direction |-> ">=", threshold |-> Frozen.ffn_sum]]

RecordOf(row) ==
    [features |-> IF row.task.has_ffn THEN <<row.task.proxy_entropy, row.task.ffn_sum>> ELSE <<row.task.proxy_entropy>>]
    @@ row.task

\* The costs and limits of the reports.
Cost   == [proxy_ms |-> 1, verifier_ms |-> 2, oracle_ms |-> 4]
Limits(n) == [stats_total |-> n, target_ms |-> 4, max_accepted_error |-> [num |-> 0, den |-> 1],
              max_total_error |-> [num |-> 1, den |-> 2], require_coverage |-> TRUE]

\* What a live run records of a decision it makes as the replay does.
LiveDecision(d) ==
    [action |-> d.action, reason |-> d.reason, token_class |-> d.token_class, proxy_token |-> d.proxy_token,
     selected_token |-> d.selected_token, verifier_asked |-> d.verifier_needed, verifier_covered |-> d.verifier_covered]

Map(Op(_), s) == [i \in DOMAIN s |-> Op(s[i])]

(* When is a token covered that needs a verdict?  For the C++ hook and the    *)
(* parity scripts when its capture has the sentinel, but for the scheduler    *)
(* when it has any tensor, and for the policy report when there is a capture  *)
(* at all.  A sum that is not there accepts nothing.                          *)
Covered(program, task) ==
    \/ program = "scheduler" /\ task.tensor_count > 0
    \/ program = "report"

AsSeenBy(program, rows) == [i \in DOMAIN rows |-> [rows[i] EXCEPT !.task.has_ffn = Covered(program, rows[i].task)]]

\* A token whose verdict the scheduler takes from tensors without the sentinel.
WithoutSentinel(task) == VerifierNeeded(task, RowGate) /\ task.tensor_count > 0 /\ ~task.has_ffn

(* C++ and Python decide alike: single decisions and replayed texts always,   *)
(* and what the hook wrote passes the comparison with the scheduler exactly   *)
(* when no verdict was taken from tensors without the sentinel.               *)
TwinsAgree(rows) ==
    LET cpp      == Map(LAMBDA r : CppDecide(r.task, RowGate, Frozen), rows)
        steps    == ReplayTexts(rows, cpp)
        chosen(p) == SelectSeq(Map(LAMBDA r : <<r.task.prompt_index, Selected(r, CppDecide(r.task, RowGate, Frozen))>>, rows),
                               LAMBDA x : x[1] = p)
    IN  /\ RunParity(rows, cpp, RowGate, Frozen).meets_required_matches
        /\ RunSchedulerReplay(rows, steps.steps, RowGate, Frozen).meets_required_matches
        /\ \A p \in {1, 2} : TextOf(steps.texts, p) = Map(LAMBDA x : x[2], chosen(p))
        /\ CompareDecisions(Map(CaptureOf, rows), RowGate, Map(LAMBDA r : FrozenAccept(r.task, Frozen), rows)).passed
              <=> \A i \in DOMAIN rows : ~WithoutSentinel(rows[i].task)

(* Every report counts the same decisions, whichever source they come from,   *)
(* apart from where it draws the line of coverage: with Python's decisions,   *)
(* and in the policy report, it counts what the C++ rule decides of the rows  *)
(* as that program sees them.                                                 *)
ReportsAgree(rows) ==
    LET captures == Map(CaptureOf, rows)
        Verdict(task) == FrozenAccept(task, Frozen)
        cpp      == LoadCppDecisions(captures)
        python   == LoadPythonDecisions(captures, RowGate, Map(LAMBDA r : Verdict(r.task), rows))
        summary(some, hook, source) ==
            ReplaySummary(Map(LAMBDA r : ReplayDecision(r, RowGate, hook, python, source), some), Cost, Limits(Len(some)))
        counted(source)  == summary(rows, cpp, source)
        expected(program) ==
            LET seen == AsSeenBy(program, rows) IN summary(seen, LoadCppDecisions(Map(CaptureOf, seen)), "cpp")
        records  == LastByKey(Map(LAMBDA r : [key |-> RowKey(r.task),
                                             value |-> [accepted |-> Verdict(r.task), match |-> r.match]], rows))
        scheduler == SchedulerSummary(Map(LAMBDA r : SchedulerDecision(r.task, RowGate, Verdict(r.task)), rows),
                                      [num |-> 0, den |-> 1], TRUE)
        gate     == GateEval(Map(RecordOf, rows), RowGate, Len(rows))
        judged   == EvaluateExpression(Map(RecordOf, rows), FrozenExpression)
    IN  /\ counted("auto") = counted("cpp")
        /\ counted("python") = expected("scheduler")
        /\ PolicyReport(rows, records, RowGate, Cost, Limits(Len(rows))) = expected("report")
        /\ scheduler.accepted_proxy = counted("python").final_accepts
        /\ scheduler.false_accepts = counted("python").final_false_accepts
        /\ scheduler.verifier_missing = counted("python").verifier_missing
        /\ gate.accepted = counted("auto").proxy_gate_accepts
        /\ gate.false_accepts = counted("auto").proxy_false_accepts
        /\ judged.accepted = CountOf(rows, LAMBDA r : Verdict(r.task))
        /\ counted("auto").meets_all_gates => scheduler.meets_all_gates

(* A verifier that costs nothing, catches nothing and refuses nothing leaves  *)
(* the rule of the router as it was; the better it catches, the fewer errors. *)
TargetsAgree(rows) ==
    LET records == Map(RecordOf, rows)
        free    == [proxy_ms |-> 1, verifier_ms |-> 0, oracle_ms |-> 4, target_ms |-> 4]
        limits  == [max_total_error |-> [num |-> 1, den |-> 2], max_accepted_error |-> [num |-> 0, den |-> 1]]
        table(result) == PolicyRows(CandidateStats(records, result.rule, NoStats), {0, 50}, {0}, free, limits)
    IN  \A result \in RouterFit(records, free, limits.max_accepted_error) :
            \A row \in table(result), other \in table(result) :
                /\ row.accepted + row.oracle_calls = 100 * Len(rows)
                /\ row.catch = 0 => /\ row.meets_target <=> result.meets_target
                                    /\ row.meets_all => result.passes_safety
                /\ row.catch <= other.catch => row.uncaught >= other.uncaught

(* A live run that decides as the replay did is found equal to it, prompt by  *)
(* prompt, whatever the order of the rows in the file.                        *)
LiveRunsAgree(rows) ==
    LET captures  == Map(CaptureOf, rows)
        decisions == Map(LAMBDA r : ReplayDecision(r, RowGate, LoadCppDecisions(captures), <<>>, "cpp"), rows)
        of(p)     == SelectSeq(decisions, LAMBDA d : d.prompt_index = p)
        result(p) == CompareRuns(Map(LiveDecision, of(p)), Reverse(decisions),
                                 [task_ids |-> <<>>, prompt_index |-> p, replay_offset |-> 0, max_steps |-> 0,
                                  required |-> {"action", "selected_token", "verifier_coverage"}])
    IN  \A p \in {1, 2} : /\ (result(p) = Failure) <=> (of(p) = <<>>)
                           /\ of(p) # <<>> => /\ result(p).meets_required_matches
                                              /\ result(p).prefix_aligned_steps = Len(of(p))

(* The decision rule is written in four places.  They agree on every task,    *)
(* but for one that needs a verdict and was captured without the sentinel of  *)
(* the frozen policy: common_sage_decide() and the parity scripts miss the    *)
(* signal there and ask the oracle, the Python scheduler (line 152) counts    *)
(* any tensor as the signal and the policy report any capture, and both then  *)
(* accept the token when its entropy alone passes.                            *)
DecisionsAgree ==
    input.tool = "decisions" =>
        /\ TwinsAgree(input.rows)
        /\ ReportsAgree(input.rows)
        /\ TargetsAgree(input.rows)
        /\ LiveRunsAgree(input.rows)

-----------------------------------------------------------------------------
(* Labels: the oracle at temperature 0 is a function from texts to tokens, so *)
(* that its answer is the text that grows from nothing.                       *)
Tokens == {"a", "b"}
Texts  == SeqsUpTo(Tokens, Steps - 1)

Answer(oracle) == FoldLeft(LAMBDA text, i : Append(text, oracle[text]), <<>>, [i \in 1 .. Steps |-> i])

\* Oracles that look at the place and the last token only, which is enough to answer otherwise
\* after another prefix.
SameView(a, b) == Len(a) = Len(b) /\ Last(a) = Last(b)
Oracles == {o \in [Texts -> Tokens] : \A a, b \in Texts \ {<<>>} : SameView(a, b) => o[a] = o[b]}

ChooseLabels ==
    /\ input = Nothing
    /\ \E oracle \in Oracles, proxy \in [1 .. Steps -> Tokens], ignore \in {0, 1} :
          input' = [tool |-> "labels", oracle |-> oracle, proxy |-> proxy, ignore |-> ignore]

\* What the server says of a step: "a" is a confident token.
RawStep(token) ==
    LET other == IF token = "a" THEN "b" ELSE "a"
        code(t) == IF t = "a" THEN 1 ELSE 2
    IN  [entropy |-> code(token), top |-> << [token_id |-> code(token), token |-> token, logprob |-> 2],
                                             [token_id |-> code(other), token |-> other, logprob |-> code(token)] >>]

StepsOf(text) == Map(LAMBDA token : ParseStep(RawStep(token)), text)
ClassOf == [token \in Tokens |-> IF token = "a" THEN "punct" ELSE "word"]

\* Three prompts: the third has the oracle's own answer, the second the answer of "b" alone.
ProbeRows(oracle, proxy) ==
    MakeRows(<<1, 2, 3>>, << StepsOf(proxy), StepsOf([i \in 1 .. Steps |-> "b"]), StepsOf(Answer(oracle)) >>,
             [p \in 1 .. 3 |-> StepsOf(Answer(oracle))])

\* The tasks of so many files, all with the same rows.
TasksOf(rows, files, classes, require_prefix, ignore) ==
    BuildTasks([file \in 1 .. files |-> rows], ClassOf,
               [classes |-> classes, min_margin |-> 0, max_entropy |-> -1, require_prefix |-> require_prefix,
                ignore |-> ignore])

\* A text that is longer than the oracle's domain is cut at its start.
Says(oracle, text) == oracle[IF Len(text) < Steps THEN text ELSE SubSeq(text, Len(text) - Steps + 2, Len(text))]

\* The thought prefix stands for the tokens that are ignored.
ReplayOf(i, tasks) ==
    LET prefix  == FirstOf(Answer(i.oracle), i.ignore)
        prompts == {RenderPrompt(tasks[k].prompt, prefix, tasks[k].append_text) : k \in DOMAIN tasks}
    IN  Replay(tasks, [p \in prompts |-> RawStep(Says(i.oracle, p.text))], [thought_prefix |-> prefix])

\* A step behind a matching prefix keeps its label when it is replayed, and only others change.
LabelsKept(tasks, replay, before, after) ==
    /\ \A k \in DOMAIN tasks : tasks[k].label_quality = "same-prefix" =>
          replay[k].match = tasks[k].top1_match /\ replay[k].oracle_token = tasks[k].oracle_token
    /\ after.same_prefix_tasks = before.same_prefix_tasks
    /\ after.same_prefix_replay_matches = before.same_prefix_matches
    /\ after.label_changes <= after.diverged_prefix_tasks

CandidateCapture(task) == [task |-> task, features |-> <<task.proxy_margin, task.step_index>>]

\* The tasks are the steps that the probe counts, and batches of them are all of them.
TasksAreSteps(probe, tasks) ==
    /\ Len(tasks) = 2 * probe.steps
    /\ SummarizeTasks(tasks).top1_token_matches = 2 * probe.top1_token_matches
    /\ LoadTasks(tasks, 0, 3) \o LoadTasks(tasks, 3, 0) = tasks

\* Every capture finds its label again, among tasks of two files that have the same prompts.
LabelsFound(tasks, replay, captures, labels) ==
    LET loaded(quality, replayed) == Map(LAMBDA r : r.top1_match, LoadRecords(captures, quality, replayed, labels))
    IN  /\ loaded("any", TRUE) = Map(LAMBDA r : r.match, replay)
        /\ loaded("same-prefix", TRUE) = loaded("same-prefix", FALSE)
        /\ Len(loaded("same-prefix", TRUE)) + Len(loaded("diverged-prefix", TRUE)) = Len(tasks)

\* Failure tasks: what the gate accepts is a true or a false accept, and limits only cut off the end.
FailuresSplit(replay) ==
    LET gate == [max_entropy |-> 1, min_margin |-> 5, verifier_classes |-> {"punct"}]
        chosen(kind, most, most_of_class) ==
            SelectedRows(replay, gate, [classes |-> {"any"}, label_quality |-> "any", kind |-> kind,
                                        max_tasks |-> most, max_per_class |-> most_of_class])
    IN  /\ Len(chosen("false-accepts", 0, 0)) + Len(chosen("true-accepts", 0, 0)) = Len(chosen("accepted", 0, 0))
        /\ chosen("all", 2, 0) = FirstOf(replay, 2)
        /\ Len(chosen("all", 0, 1)) = Cardinality({replay[k].task.token_class : k \in DOMAIN replay})
        /\ \A k \in DOMAIN chosen("false-accepts", 0, 0) :
              TaskFromRow(chosen("false-accepts", 0, 0)[k]).failure_kind = "replay-false-accept"

\* A rule is judged on prompts it was not fitted on, and a safe one stands before all others.
FitIsSound(fit, records, All(_)) ==
    LET prompts(s) == {s[k].prompt_index : k \in DOMAIN s}
        whole(c) == /\ c.true_accepts + c.false_accepts = c.accepted /\ c.true_rejects + c.false_rejects = c.rejected
                    /\ c.accepted + c.rejected = c.total
    IN  fit # Failure =>
        /\ prompts(fit.train) \cap prompts(fit.holdout) = {}
        /\ Len(fit.train) + Len(fit.holdout) = Len(records)
        /\ \A k \in DOMAIN fit.results :
              /\ whole(fit.results[k].train) /\ whole(fit.results[k].holdout)
              /\ fit.results[k].train.accepted + fit.results[k].holdout.accepted
                    = All(fit.results[k].train.expression).accepted
        /\ \A p \in ProbeFit(fit.train) :
              p.false_accepts = 0 => \E k \in DOMAIN fit.results :
                  fit.results[k].train.false_accepts = 0 /\ fit.results[1].train.accepted >= p.accepted

RecordsJudged(records, captures, labels) ==
    FitIsSound(FitHoldout(records, [prompt_indices |-> {}, modulus |-> 3, remainder |-> 0], [num |-> 0, den |-> 1], 2, TRUE),
               records, LAMBDA e : VerifierEval(captures, "any", TRUE, labels, e))

FitsJudged(captures, labels) == RecordsJudged(LoadRecords(captures, "any", TRUE, labels), captures, labels)

\* A record joined from the probe has the label that the task of the same step has.
ProbesJoin(rows, tasks, first) ==
    LET at(n) == SelectSeq(tasks, LAMBDA t : t.step_index = n)
        captures(n) == Map(LAMBDA t : [prompt |-> t.prompt] @@ CandidateCapture(t), at(n))
        labels(s) == Map(LAMBDA x : <<x.prompt, x.top1_match>>, s)
    IN  \A n \in first .. Steps - 1, label \in {"token", "id"} :
            labels(JoinRecords(rows, captures(n), n, label)) = labels(at(n))

\* The bound of a router: the answers that match need no call.
RouterIsBounded(stats) ==
    /\ stats.prefix_tokens <= stats.proxy_tokens
    /\ stats.exact = stats.rows <=> stats.prefix_tokens = stats.proxy_tokens
    /\ \A proxy \in 0 .. 3, target \in 0 .. 5 : target >= proxy =>
          LET t == RouterTarget(stats, [proxy_ms |-> proxy, oracle_ms |-> 4, target_ms |-> target], "exact")
          IN  t.reachable <=> t.upper_bound_time <= stats.rows * target

AnswerRows(proxy, answer) ==
    << [proxy |-> proxy, oracle |-> answer, exact |-> proxy = answer, normalized |-> proxy = answer],
       [proxy |-> answer, oracle |-> answer, exact |-> TRUE, normalized |-> TRUE] >>

\* The rescue tokens of a shortlist only add, and all of them rescue everything.
ShortlistSteps(proxy, answer) ==
    << [proxy |-> Map(LAMBDA s : [token_id |-> s.token_id, top_ids |-> <<s.token_id>>], StepsOf(proxy)),
        oracle |-> StepsOf(answer), piece_ids |-> <<1>>] >>

RescueOnlyAdds(steps, static, position, table) ==
    LET covered(some_static, some_position, pieces) == Coverage(steps, 1, some_static, some_position, pieces).covered
    IN  /\ covered(<<>>, <<>>, 0) = CountOf(steps, LAMBDA s : s.proxy_id = s.oracle_id)
        /\ covered(static, <<>>, 0) = Len(steps)
        /\ covered(<<>>, position, 0) = Len(steps)
        /\ covered(<<>>, position, 1) >= covered(<<>>, <<>>, 1)
        /\ \A k \in DOMAIN table.coverage : /\ table.coverage[k].covered >= table.proxy_top1_matches
                                             /\ table.coverage[k].covered + table.coverage[k].missed = table.steps

ShortlistRescues(asked, steps, ignore) ==
    RescueOnlyAdds(steps, StaticRescue(steps, 1, 2), PositionRescue(steps, 1),
                   SummarizeSplit(SplitRows(asked \o asked, 2, {0}).eval, 1, StaticRescue(steps, 1, 2),
                                  PositionRescue(steps, 1), 1, ignore))

BoundsHold(proxy, answer, ignore) ==
    /\ RouterIsBounded(AgreementStats(AnswerRows(proxy, answer)))
    /\ ShortlistRescues(ShortlistSteps(proxy, answer), IterSteps(ShortlistSteps(proxy, answer), ignore), ignore)

-----------------------------------------------------------------------------
(* Captures: the tensors one computation shows to both hooks.                 *)
ChooseTensors ==
    /\ input = Nothing
    /\ \E events \in SeqsUpTo([name : {Sentinel, "l_out-0"}, sum : {0, 1}, nan : BOOLEAN], Steps) :
          input' = [tool |-> "captures", events |-> events]

\* The output of llama-debug for a tensor, with --tensor-stats or without.
Lines(e, stats) ==
    << [kind |-> "header", name |-> e.name, sig |-> 0],
       IF stats THEN [kind |-> "stats", sum |-> e.sum]
       ELSE IF e.nan THEN [kind |-> "other"] ELSE [kind |-> "sum", sum |-> e.sum],
       [kind |-> "other"] >>

Output(events, stats) == FoldLeft(LAMBDA all, e : all \o Lines(e, stats), <<>>, events)
Written(events) == Map(LAMBDA e : [name |-> e.name, sig |-> 0, sum |-> e.sum], events)

(* The statistics of llama-debug, read from its output or from a file, are    *)
(* those of the runtime hook, each under the same name and occurrence; the    *)
(* sums printed with the values are too as long as none is NaN.               *)
TensorsRead(events) ==
    LET numbers == SelectSeq(events, LAMBDA e : ~e.nan)
        debug(output, stats) == << ProbeCapture(1, 1, output, stats) >>
        runtime(some) == << RuntimeCapture(1, 1, File(Written(some)), NoFile) >>
        same(captures, some) == CompareCaptures(captures, runtime(some), 0).passed
    IN  /\ same(debug(Output(events, TRUE), NoFile), events)
        /\ same(debug(Output(events, FALSE), File(Written(events))), events)
        /\ same(debug(Output(events, FALSE), NoFile), numbers)
        /\ events # <<>> => ~same(debug(Output(Tail(events), TRUE), NoFile), events)

TasksHold(tasks, replay, require_prefix) ==
    /\ LabelsKept(tasks, replay, SummarizeTasks(tasks), SummarizeReplay(replay))
    /\ LabelsFound(tasks, replay, Map(CandidateCapture, tasks), ReplayLabels(replay))
    /\ FailuresSplit(replay)
    /\ require_prefix => SummarizeReplay(replay).label_changes = 0

TasksAndReplay(i, tasks, require_prefix) == TasksHold(tasks, ReplayOf(i, tasks), require_prefix)

LabelsHold(i, rows) ==
    LET all(files) == TasksOf(rows, files, {"any"}, FALSE, i.ignore)
    IN  /\ TasksAreSteps(SummarizeProbe(rows, i.ignore), all(2))
        /\ ProbesJoin(rows, all(1), i.ignore)
        /\ \A classes \in {{"any"}, {"punct"}}, require_prefix \in BOOLEAN :
              TasksAndReplay(i, TasksOf(rows, 2, classes, require_prefix, i.ignore), require_prefix)
        /\ FitsJudged(Map(CandidateCapture, all(1)), ReplayLabels(ReplayOf(i, all(1))))

(* A label that is fitted on is the oracle's own: what changes on the way     *)
(* from a probe over tasks, replays and captures to a fitted rule is only     *)
(* what has to change.                                                        *)
CapturesKeepTheirLabels ==
    /\ input.tool = "labels" => /\ LabelsHold(input, ProbeRows(input.oracle, input.proxy))
                                /\ BoundsHold(input.proxy, Answer(input.oracle), input.ignore)
    /\ input.tool = "captures" => TensorsRead(input.events)
================================================================================
