------------------------------ MODULE PolicyFits ------------------------------
(* How the rules of the decision policy are found and judged: rules on the    *)
(* proxy's step (sage_router_fit.py, sage_policy_target.py), rules on the     *)
(* captured tensors (sage_probe_fit.py, sage_candidate_probe_fit.py), the     *)
(* evaluation of a fixed rule (sage_gate_eval.py, sage_verifier_eval.py), the *)
(* bound no router can pass (sage_router_eval.py), and the shortlists of      *)
(* candidate tokens (sage_proxy_shortlist_eval.py).                           *)
(*                                                                            *)
(* A record is a labelled step: its prompt_index, step_index, token_class,    *)
(* proxy_margin, proxy_entropy, top1_match and features, a function from      *)
(* features to values.  A feature is a number, its place in the alphabet.     *)
(* Rates are pairs of counts, see Tallies.                                    *)
EXTENDS DecisionPolicy

-----------------------------------------------------------------------------
(* What accepting some of the records gets right and wrong.                   *)
Confusion(records, accepted) ==
    LET count(S) == Cardinality(S)
        all  == DOMAIN records
        good == {i \in all : records[i].top1_match}
    IN  [accepted |-> count(accepted), rejected |-> count(all \ accepted), total |-> count(all),
         true_accepts |-> count(accepted \cap good), false_accepts |-> count(accepted \ good),
         true_rejects |-> count((all \ accepted) \ good), false_rejects |-> count((all \ accepted) \cap good)]

Accepted(records, Test(_)) == {i \in DOMAIN records : Test(records[i])}

\* summarize() of sage_gate_eval.py; stats_total = 0 leaves the rates out.
GateEval(records, gate, stats_total) ==
    LET c == Confusion(records, Accepted(records, LAMBDA r : ProxyGateAccepts(r, gate)))
    IN  IF stats_total > 0 /\ stats_total < Len(records) THEN Failure
        ELSE c @@ [status |-> "evaluated",
                   oracle_calls |-> IF stats_total > 0 THEN stats_total - c.accepted ELSE -1]

-----------------------------------------------------------------------------
(* sage_router_fit.py: thresholds on margin and entropy, for all tokens or    *)
(* for those of one class.                                                    *)
AnyClass == "any"
NoBound  == -1

\* A rule, which is also the candidate rule of sage_policy_target.py (candidate_filter()).
RuleAccepts(record, rule) ==
    /\ rule.class # AnyClass => record.token_class = rule.class
    /\ rule.min_margin # NoBound => record.proxy_margin >= rule.min_margin
    /\ rule.max_entropy # NoBound => record.proxy_entropy <= rule.max_entropy

\* finite_values(): the values that occur, and 0.
Thresholds(values) == values \cup {0}

\* fit_rules(): the rules that are tried; a class is combined with one threshold only.
RouterRules(records) ==
    LET margins   == Thresholds({records[i].proxy_margin : i \in DOMAIN records})
        entropies == Thresholds({records[i].proxy_entropy : i \in DOMAIN records})
        classes   == {records[i].token_class : i \in DOMAIN records}
        one == {<<m, NoBound>> : m \in margins} \cup {<<NoBound, e>> : e \in entropies}
        rule(class, bounds) == [class |-> class, min_margin |-> bounds[1], max_entropy |-> bounds[2]]
    IN  {rule(AnyClass, b) : b \in one \cup (margins \X entropies)}
        \cup {rule(c, b) : c \in classes, b \in one \cup {<<NoBound, NoBound>>}}

\* evaluate_rule() for one or more records.
RouterResult(records, rule, cost, max_false_accept) ==
    LET c == Confusion(records, Accepted(records, LAMBDA r : RuleAccepts(r, rule)))
    IN  c @@ [rule |-> rule,
              meets_target |-> c.total * cost.proxy_ms + c.rejected * cost.oracle_ms <= c.total * cost.target_ms,
              passes_safety |-> AtMost(c.false_accepts, c.accepted, max_false_accept)]

RouterFit(records, cost, max_false_accept) ==
    {RouterResult(records, rule, cost, max_false_accept) : rule \in RouterRules(records)}

-----------------------------------------------------------------------------
(* sage_policy_target.py: a candidate rule, and a verifier that catches `catch'*)
(* of 100 bad candidates and rejects `reject' of 100 good ones by mistake.    *)
NoStats == [total |-> -1]

\* make_candidate_stats(): counts that were given must add up, else they are made from the records.
CandidateStats(records, rule, given) ==
    LET c == Confusion(records, Accepted(records, LAMBDA r : RuleAccepts(r, rule)))
    IN  IF given = NoStats
        THEN [status |-> "counted", total |-> c.total, candidates |-> c.accepted, good |-> c.true_accepts,
              bad |-> c.false_accepts, rejected |-> c.rejected]
        ELSE IF given.candidates # given.good + given.bad \/ given.candidates > given.total THEN Failure
        ELSE [status |-> "counted", total |-> given.total, candidates |-> given.candidates, good |-> given.good,
              bad |-> given.bad, rejected |-> given.total - given.candidates]

\* make_rows(): counts and times are those of 100 times the records.
PolicyRow(stats, catch, reject, cost, opt) ==
    LET caught   == stats.bad * catch
        uncaught == 100 * stats.bad - caught
        refused  == stats.good * reject
        oracle   == 100 * stats.rejected + caught + refused
        accepted == NotNegative(100 * stats.candidates - caught - refused)
        time     == 100 * stats.total * cost.proxy_ms + 100 * stats.candidates * cost.verifier_ms
                    + oracle * cost.oracle_ms
        speed    == time <= 100 * stats.total * cost.target_ms
    IN  [catch |-> catch, reject |-> reject, oracle_calls |-> oracle, accepted |-> accepted,
         uncaught |-> uncaught, time |-> time, meets_target |-> speed,
         meets_all |-> /\ speed
                       /\ AtMost(uncaught, 100 * stats.total, opt.max_total_error)
                       /\ AtMost(uncaught, accepted, opt.max_accepted_error)]

PolicyRows(stats, catches, rejects, cost, opt) ==
    {PolicyRow(stats, c, r, cost, opt) : c \in catches, r \in rejects}

-----------------------------------------------------------------------------
(* sage_probe_fit.py: one threshold on one captured feature.                  *)
\* load_probe_by_prompt() and load_joined_records(): the last capture of a prompt, the step of the row.
JoinRecords(rows, captures, step_index, label) ==
    LET probes == LastByKey([i \in DOMAIN captures |-> [key |-> captures[i].prompt, value |-> captures[i]]])
        usable == SelectSeq(rows, LAMBDA r : r.prompt \in DOMAIN probes /\ step_index < Len(r.steps))
        match(step) == IF label = "token" THEN step.top1_token_match ELSE step.top1_id_match
    IN  [i \in DOMAIN usable |->
            [features |-> probes[usable[i].prompt].features, prompt |-> usable[i].prompt,
             top1_match |-> match(usable[i].steps[step_index + 1])]]

\* A threshold [feature, direction, threshold]; a record without the feature is not accepted.
PredicateAccepts(record, p) ==
    /\ p.feature \in DOMAIN record.features
    /\ IF p.direction = "<=" THEN record.features[p.feature] <= p.threshold
                             ELSE record.features[p.feature] >= p.threshold

FeaturesOf(records) == UNION {DOMAIN records[i].features : i \in DOMAIN records}

ValuesOf(records, feature) ==
    {records[i].features[feature] : i \in {j \in DOMAIN records : feature \in DOMAIN records[j].features}}

ProbeFit(records) ==
    {[predicate |-> p] @@ Confusion(records, Accepted(records, LAMBDA r : PredicateAccepts(r, p))) :
        p \in UNION {[feature : {f}, direction : {"<=", ">="}, threshold : ValuesOf(records, f)] :
                        f \in FeaturesOf(records)}}

-----------------------------------------------------------------------------
(* sage_candidate_probe_fit.py: the labels of a replay, and pairs of          *)
(* thresholds.                                                                *)
NoId == 0       \* a task without an id

\* load_replay_labels(): a label is found under the task's key, and under its id if that occurs once.
ReplayLabels(rows) ==
    LET named == SelectSeq(rows, LAMBDA r : r.task.task_id # NoId)
        once  == SelectSeq(named, LAMBDA r : CountOf(named, LAMBDA q : q.task.task_id = r.task.task_id) = 1)
    IN  [by_key |-> LastByKey([i \in DOMAIN named |-> [key |-> RowKey(named[i].task), value |-> named[i].match]]),
         by_id  |-> LastByKey([i \in DOMAIN once |-> [key |-> once[i].task.task_id, value |-> once[i].match]])]

HasLabel(task, labels) == RowKey(task) \in DOMAIN labels.by_key \/ task.task_id \in DOMAIN labels.by_id
LabelOf(task, labels) ==
    IF RowKey(task) \in DOMAIN labels.by_key THEN labels.by_key[RowKey(task)] ELSE labels.by_id[task.task_id]

LabelQualityMatches(task, quality) ==
    \/ quality = "any"
    \/ quality = "same-prefix" /\ (task.label_quality = "same-prefix" \/ task.prefix_match)
    \/ quality = "diverged-prefix" /\ task.label_quality = "diverged-prefix"

\* load_records(): with a replay, a capture without a label is left out and a label replaces its own.
LoadRecords(captures, quality, replayed, labels) ==
    LET usable == SelectSeq(captures, LAMBDA c : /\ LabelQualityMatches(c.task, quality)
                                                 /\ replayed => HasLabel(c.task, labels))
        record(c) == [features |-> c.features, prompt_index |-> c.task.prompt_index,
                      label_source |-> IF replayed THEN "oracle-replay" ELSE "continuation",
                      top1_match |-> IF replayed THEN LabelOf(c.task, labels) ELSE c.task.top1_match]
    IN  [i \in DOMAIN usable |-> record(usable[i])]

\* make_predicates(): by feature, threshold and direction.
MakePredicates(records) ==
    FoldLeft(LAMBDA all, f :
                FoldLeft(LAMBDA some, t : some \o << [feature |-> f, direction |-> "<=", threshold |-> t],
                                                     [feature |-> f, direction |-> ">=", threshold |-> t] >>,
                         all, InOrder(ValuesOf(records, f), <)),
             <<>>, InOrder(FeaturesOf(records), <))

\* An expression: one threshold, or two joined by AND or OR.
Single(p) == [op |-> "SINGLE", left |-> p, right |-> p]

ExpressionMask(records, e) ==
    LET left == Accepted(records, LAMBDA r : PredicateAccepts(r, e.left))
        right == Accepted(records, LAMBDA r : PredicateAccepts(r, e.right))
    IN  IF e.op = "OR" THEN left \cup right ELSE left \cap right

EvaluateExpression(records, e) == [expression |-> e] @@ Confusion(records, ExpressionMask(records, e))

\* rank_key(), highest first; the rows are of the same records, so that most rates compare as counts.
RanksAbove(a, b) ==
    LET precise(x) == IF x.accepted = 0 THEN [num |-> 1, den |-> 1] ELSE [num |-> x.true_accepts, den |-> x.accepted]
        pa == precise(a)  pb == precise(b)
    IN  \/ a.accepted > b.accepted
        \/ a.accepted = b.accepted /\ a.true_rejects > b.true_rejects
        \/ a.accepted = b.accepted /\ a.true_rejects = b.true_rejects /\ a.false_rejects < b.false_rejects
        \/ /\ a.accepted = b.accepted /\ a.true_rejects = b.true_rejects /\ a.false_rejects = b.false_rejects
           /\ pa.num * pb.den > pb.num * pa.den

Safe(row, max_error) == AtMost(row.false_accepts, row.accepted, max_error)

\* The order in which the best single thresholds are chosen.
SafeFirst(a, b, max_error) ==
    \/ Safe(a, max_error) /\ ~Safe(b, max_error)
    \/ /\ Safe(a, max_error) <=> Safe(b, max_error)
       /\ \/ a.accepted > b.accepted
          \/ a.accepted = b.accepted /\ a.true_rejects > b.true_rejects
          \/ a.accepted = b.accepted /\ a.true_rejects = b.true_rejects /\ a.false_rejects < b.false_rejects

\* AND and OR of each pair of thresholds.
PairRules(records, best) ==
    LET pair(i, j, op) ==
            EvaluateExpression(records, [op |-> op, left |-> best[i].expression.left, right |-> best[j].expression.left])
        after(i) == FoldLeft(LAMBDA some, j : some \o <<pair(i, j, "AND"), pair(i, j, "OR")>>,
                             <<>>, [k \in 1 .. Len(best) - i |-> i + k])
    IN  FoldLeft(LAMBDA all, i : all \o after(i), <<>>, [k \in DOMAIN best |-> k])

\* fit_rules(): every threshold, then AND and OR of each pair of the best ones.
FitRules(records, max_error, pair_base_top, include_pairs) ==
    LET predicates == MakePredicates(records)
        single == [i \in DOMAIN predicates |-> EvaluateExpression(records, Single(predicates[i]))]
        best   == FirstOf(Sorted(single, LAMBDA a, b : SafeFirst(a, b, max_error)), pair_base_top)
    IN  IF include_pairs /\ pair_base_top > 1 THEN single \o PairRules(records, best) ELSE single

HeldOut(record, opt) ==
    IF opt.prompt_indices # {} THEN record.prompt_index \in opt.prompt_indices
    ELSE record.prompt_index % opt.modulus = opt.remainder

\* split_records(), split_records_by_prompt_indices(): a prompt is held out with all its records.
SplitRecords(records, opt) ==
    [train |-> SelectSeq(records, LAMBDA r : ~HeldOut(r, opt)), holdout |-> SelectSeq(records, LAMBDA r : HeldOut(r, opt))]

\* The safe rules, or all when none is, in their order.
RankedRules(results, max_error) ==
    LET safe == SelectSeq(results, LAMBDA row : Safe(row, max_error))
    IN  Sorted(IF safe # <<>> THEN safe ELSE results, RanksAbove)

JudgedRules(ranked, holdout) ==
    [i \in DOMAIN ranked |-> [train |-> ranked[i], holdout |-> EvaluateExpression(holdout, ranked[i].expression)]]

\* fit_holdout(): the rules fitted on the training records, judged on the others.
FitHoldout(records, opt, max_error, pair_base_top, include_pairs) ==
    LET split == SplitRecords(records, opt)
        rules == FitRules(split.train, max_error, pair_base_top, include_pairs)
    IN  IF split.train = <<>> \/ split.holdout = <<>> THEN Failure
        ELSE [status |-> "fitted", train |-> split.train, holdout |-> split.holdout,
              results |-> JudgedRules(RankedRules(rules, max_error), split.holdout)]

\* main() of sage_verifier_eval.py: a fixed expression on the records of a run.
VerifierEval(captures, quality, replayed, labels, e) ==
    LET records == LoadRecords(captures, quality, replayed, labels)
    IN  IF records = <<>> THEN Failure ELSE EvaluateExpression(records, e)

-----------------------------------------------------------------------------
(* sage_router_eval.py: a row is two answers as sequences of tokens, and      *)
(* whether they are equal as written.                                         *)
CommonPrefix(a, b) ==
    LET equal(n) == n <= Len(a) /\ n <= Len(b) /\ SubSeq(a, 1, n) = SubSeq(b, 1, n)
    IN  CHOOSE n \in 0 .. Len(a) : equal(n) /\ ~equal(n + 1)

AgreementStats(rows) ==
    [rows |-> Len(rows), exact |-> CountOf(rows, LAMBDA r : r.exact), normalized |-> CountOf(rows, LAMBDA r : r.normalized),
     proxy_tokens |-> SumOf(LAMBDA r : Len(r.proxy), rows),
     prefix_tokens |-> SumOf(LAMBDA r : CommonPrefix(r.proxy, r.oracle), rows)]

\* The most of a call that the target pays for, at most all of it: max_call_rate times the call's time.
MaxCallTime(cost) == Smaller(NotNegative(cost.target_ms - cost.proxy_ms), cost.oracle_ms)

\* router_target(), for a call that takes time and one row or more.
RouterTarget(stats, cost, match_field) ==
    LET matches == IF match_field = "normalized" THEN stats.normalized ELSE stats.exact
        calls   == stats.rows - matches
    IN  [reachable |-> calls * cost.oracle_ms <= stats.rows * MaxCallTime(cost),
         upper_bound_time |-> stats.rows * cost.proxy_ms + calls * cost.oracle_ms,
         trust_errors |-> calls]

-----------------------------------------------------------------------------
(* sage_proxy_shortlist_eval.py: whether the oracle's token is among the      *)
(* proxy's first k tokens and the rescue tokens.                              *)
\* split_rows(); a row stands at the place it has in all the files.
SplitRows(rows, train_mod, remainders) ==
    LET half(keep) == SelectSeq([i \in DOMAIN rows |-> [index |-> i - 1, row |-> rows[i]]],
                                LAMBDA x : (x.index % train_mod \in remainders) = keep)
        bare(s) == [i \in DOMAIN s |-> s[i].row]
    IN  IF train_mod <= 1 THEN [status |-> "split", train |-> rows, eval |-> rows]
        ELSE IF half(TRUE) = <<>> \/ half(FALSE) = <<>> THEN Failure
        ELSE [status |-> "split", train |-> bare(half(TRUE)), eval |-> bare(half(FALSE))]

\* iter_steps(): the steps both sides have and whose tokens have an identity (0 or more).
IterSteps(rows, ignore) ==
    LET steps(r) == SelectSeq([i \in 1 .. Smaller(Len(r.proxy), Len(r.oracle)) |->
                                  [step_index |-> i - 1, proxy_id |-> r.proxy[i].token_id,
                                   oracle_id |-> r.oracle[i].token_id, top_ids |-> r.proxy[i].top_ids,
                                   piece_ids |-> r.piece_ids]],
                              LAMBDA s : s.step_index >= ignore /\ s.proxy_id >= 0 /\ s.oracle_id >= 0)
    IN  FoldLeft(LAMBDA all, r : all \o steps(r), <<>>, rows)

\* most_common(n): the most frequent, the earlier one of equals first.
MostCommon(ids, n) ==
    LET count(x) == CountOf(ids, LAMBDA y : y = x)
        first(x) == CHOOSE i \in DOMAIN ids : ids[i] = x /\ \A j \in 1 .. i - 1 : ids[j] # x
    IN  FirstOf(InOrder({ids[i] : i \in DOMAIN ids},
                             LAMBDA x, y : count(x) > count(y) \/ (count(x) = count(y) /\ first(x) < first(y))), n)

IdsOf(steps) == [i \in DOMAIN steps |-> steps[i].oracle_id]
TopIds(step, k) == {id \in {step.top_ids[i] : i \in 1 .. Smaller(k, Len(step.top_ids))} : id >= 0}

StaticRescue(steps, proxy_k, n) == MostCommon(IdsOf(SelectSeq(steps, LAMBDA s : s.oracle_id \notin TopIds(s, proxy_k))), n)

PositionRescue(steps, n) ==
    [at \in IF n <= 0 THEN {} ELSE {steps[i].step_index : i \in DOMAIN steps} |->
        MostCommon(IdsOf(SelectSeq(steps, LAMBDA s : s.step_index = at)), n)]

\* coverage_for(): piece_ids are the vocabulary's pieces of the prompt.
CandidateIds(step, k, static, position, pieces) ==
    LET ids(s) == {s[i] : i \in DOMAIN s}
    IN  TopIds(step, k) \cup ids(static)
        \cup (IF step.step_index \in DOMAIN position THEN ids(position[step.step_index]) ELSE {})
        \cup ids(FirstOf(step.piece_ids, pieces))

Coverage(steps, k, static, position, pieces) ==
    LET candidates(s) == CandidateIds(s, k, static, position, pieces)
        covered == CountOf(steps, LAMBDA s : s.oracle_id \in candidates(s))
    IN  [steps |-> Len(steps), covered |-> covered, missed |-> Len(steps) - covered,
         candidate_rows |-> SumOf(LAMBDA s : Cardinality(candidates(s)), steps)]

\* summarize_split(): the proxy alone, with either rescue, and with the pieces of the prompt.
SummarizeSplit(rows, k, static, position, pieces, ignore) ==
    LET steps == IterSteps(rows, ignore)
        row(name, some_static, some_position, some_pieces) ==
            [name |-> name] @@ Coverage(steps, k, some_static, some_position, some_pieces)
    IN  [prompts |-> Len(rows), steps |-> Len(steps),
         proxy_top1_matches |-> CountOf(steps, LAMBDA s : s.proxy_id = s.oracle_id),
         coverage |-> <<row("proxy", <<>>, <<>>, 0)>>
            \o (IF static # <<>> THEN <<row("static", static, <<>>, 0)>> ELSE <<>>)
            \o (IF DOMAIN position # {} THEN <<row("position", <<>>, position, 0)>> ELSE <<>>)
            \o (IF DOMAIN position # {} /\ pieces > 0 THEN <<row("pieces", <<>>, position, pieces)>> ELSE <<>>)]
================================================================================
