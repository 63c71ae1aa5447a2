------------------------------- MODULE SageTools -------------------------------
(* What the tools that plan the oracle's memory and time promise each other,  *)
(* and the specification over all tools: one input is chosen, for one group of *)
(* tools.                                                                     *)
EXTENDS SageDecisions, PlannerChecks, VerifierPages, KvTiers, Projections

CONSTANTS
    Budget,     \* the largest budget of a plan, in blocks of 18 bytes
    Context,    \* the largest context of a KV cache
    Codes,      \* how many values are packed
    Time        \* the largest time of a projection

ASSUME SageToolsAssumption == {Budget, Context, Codes, Time} \subseteq Nat

-----------------------------------------------------------------------------
(* Pages.  A model of two layers; the second may have no norm, and a block of *)
(* the first has two tensors.                                                 *)
FileOf(i) ==
    LET tensor(layer, component, elements, type) ==
            [layer |-> layer, component |-> component, n_bytes |-> TensorBytes(elements, type)]
        norm1 == IF i.norm THEN << tensor(1, "norm", 3, "F32") >> ELSE <<>>
        all == << tensor(NoLayer, "embedding", 32, "Q8_0"), tensor(0, "norm", 2, "F32"),
                  tensor(0, "ffn", 32, "Q4_0"), tensor(0, "attention", i.attention, "Q4_0"),
                  tensor(0, "ffn", i.ffn, "Q4_0"), tensor(1, "attention", 33, "Q4_0"), tensor(1, "ffn", 65, "Q4_0") >>
               \o norm1
    IN  [k \in DOMAIN all |-> [offset |-> Len(all) - k] @@ all[k]]

\* The rows that were measured: none, or those of three blocks.
Measured == { <<>>, << [key |-> <<1, "ffn">>, score |-> -3], [key |-> <<0, "attention">>, score |-> 4],
                       [key |-> <<1, "ffn">>, score |-> 2],  [key |-> <<0, "ffn">>, score |-> 1] >> }

ChoosePages ==
    /\ input = Nothing
    /\ \E attention \in {32, 64}, ffn \in {31, 96}, norm \in BOOLEAN, budget \in 0 .. Budget, limit \in {18, 40, 60},
          measured \in Measured :
          input' = [tool |-> "pages", attention |-> attention, ffn |-> ffn, norm |-> norm, budget |-> 18 * budget,
                    limit |-> limit, measured |-> measured]

NoKeyTwice(s) == \A a, b \in DOMAIN s : KeyOf(s[a]) = KeyOf(s[b]) => a = b

PlanOptions == {[policy |-> p, ffn_min |-> s[1], attention_max |-> s[2], global_mode |-> g, boundary_layers |-> 1] :
                  p \in {"balanced", "ffn-first"}, s \in {<<0, 100>>, <<60, 40>>}, g \in {"none", "all"}}

(* What a plan omits does not fit any more.                                   *)
PlanIsFull(plan, opt) ==
    /\ NoKeyTwice(plan.selected)
    /\ plan.used_bytes <= opt.budget
    /\ UsedBy(plan.selected, "attention") <= ShareOf(opt.budget, opt.attention_max)
    /\ \A k \in DOMAIN plan.omitted : ~CanSelect(plan.omitted[k], plan.selected, opt)

(* A plan by signal takes the norms or fails, and the measured blocks that fit.*)
SignalPlanIsFull(plan, groups, signal, budget, include_norms) ==
    LET norms == SelectSeq(groups, LAMBDA g : g.component = "norm")
    IN  IF include_norms /\ BytesOf(norms) > budget THEN plan = Failure
        ELSE /\ NoKeyTwice(plan.selected) /\ plan.used_bytes <= budget
             /\ include_norms => \A k \in DOMAIN norms : Holds(plan.selected, KeyOf(norms[k]))
             /\ \A k \in DOMAIN groups : SignalOf(signal, groups[k]) > 0 /\ ~Holds(plan.selected, KeyOf(groups[k]))
                   => plan.used_bytes + groups[k].n_bytes > budget

SignalOptions(budget, include_norms) ==
    [budget |-> budget, global_mode |-> "none", include_norms |-> include_norms, drop_unsignaled |-> TRUE]

(* A verifier's block comes with the norm of its layer, if the model has one; *)
(* and no more blocks are selected than the table of fits says.               *)
ManifestIsSound(groups, selected, policy, budget) ==
    LET layers(c) == {k \in {0, 1} : <<k, c>> \in DebugTensorFilters(selected)}
    IN  /\ NoKeyTwice(selected) /\ BytesOf(selected) <= budget
        /\ \A k \in layers("ffn") \cup layers("attention") :
              Holds(groups, <<k, "norm">>) => Holds(selected, <<k, "norm">>)
        /\ policy # "attention-sentinel" => \A k \in {0, 1} : AddPackage(groups, selected, k, "ffn", budget) = selected
        /\ policy = "ffn-sentinel" => layers("attention") = {}
        /\ \A c \in {"ffn", "attention"} : Cardinality(layers(c)) <= ComponentFits(groups, budget)[c]

(* The stages carry every page once and in order, none is cut where the next  *)
(* page would still have fitted, and only a page that is too large by itself  *)
(* passes the limit.                                                          *)
StagesCarryPages(tensors, ledger, stages, limit) ==
    /\ FoldLeft(LAMBDA ids, s : ids \o s.page_ids, <<>>, stages) = [k \in DOMAIN ledger.pages |-> k - 1]
    /\ \A k \in DOMAIN stages : Len(stages[k].page_ids) = 1 \/ stages[k].n_bytes <= limit
    /\ \A k \in 1 .. Len(stages) - 1 :
          /\ stages[k].n_bytes + ledger.pages[stages[k + 1].page_ids[1] + 1].n_bytes > limit
          /\ stages[k].buffer # stages[k + 1].buffer
    /\ RuntimeStep(ledger, 1, ledger.gpu_staged_bytes, 1, TRUE).max_measured_device_stage_bytes >= MostBytes(ledger.pages)

(* A buffer of the largest stage holds them all, a smaller one does not.      *)
StagesAreRead(tensors, ledger) ==
    LET whole(staged) == /\ staged # Failure
                         /\ BytesOf(staged.stages) = ledger.selected_bytes
                         /\ \A k \in DOMAIN staged.stages : staged.stages[k].n_bytes = staged.stages[k].planned_bytes
    IN  ledger.stages # <<>> => /\ whole(StagePages(ledger, tensors, 0, 0, ledger.max_stage_bytes))
                                /\ StagePages(ledger, tensors, 0, 0, ledger.max_stage_bytes - 1) = Failure

LedgerIsStaged(tensors, ledger, limit) ==
    StagesCarryPages(tensors, ledger, ledger.stages, limit) /\ StagesAreRead(tensors, ledger)

(* The table of fits is the largest number of blocks that any choice reaches. *)
FitsAreLargest(groups, fits, full_layers, plan, budget) ==
    LET some(c)  == {k \in DOMAIN groups : groups[k].component = c}
        bytes(S) == MapThenSumSet(LAMBDA k : groups[k].n_bytes, S)
        fit(name) == \E combo \in MinComboBudgets(groups) : combo.name = name /\ combo.n_bytes <= budget
    IN  /\ \A c \in DOMAIN fits :
              /\ \E S \in SUBSET some(c) : Cardinality(S) = fits[c] /\ bytes(S) <= budget
              /\ \A S \in SUBSET some(c) : bytes(S) <= budget => Cardinality(S) <= fits[c]
              /\ CountOf(plan.selected, LAMBDA b : b.component = c) <= fits[c]
        /\ fits["ffn"] >= 1 <=> fit("one_ffn_group")
        /\ full_layers >= 1 <=> fit("one_full_layer")
        /\ full_layers <= fits["attention"]

(* A probe of the selected blocks, with the scores of the whole model, finds  *)
(* no difference and keeps the rows of the selected blocks.                   *)
QualityIsKept(probe, full, reduced, selected) ==
    /\ probe.reduced_signal_consistent <=> reduced # <<>>
    /\ probe.retained_rows = CountOf(GlobalTopRows(full, 3), LAMBDA r : Holds(selected, r.name))
    /\ probe.selection_needs_optimization => reduced # full

Scored(g) == [name |-> KeyOf(g), rows |-> << [row |-> 1, score |-> -5 - g.layer], [row |-> 2, score |-> 2] >>]
Whole == [num |-> 1, den |-> 1]
ProbeOptions == [top_k |-> 2, top_n |-> 3, min_top1 |-> Whole, min_overlap |-> Whole, max_delta |-> 0, min_retention |-> Whole]

SelectionIsProbed(full, reduced, selected) ==
    QualityIsKept(QualityProbe(full, reduced, TRUE, ProbeOptions), full, reduced, selected)

ManifestIsUsed(tensors, groups, selected, policy, i) ==
    LET blocks == SelectSeq(groups, LAMBDA g : g.component = "ffn")
    IN  /\ ManifestIsSound(groups, selected, policy, i.budget)
        /\ LedgerIsStaged(tensors, PageLedger(selected, BytesOf(tensors), i.limit), i.limit)
        /\ SelectionIsProbed(Map(Scored, blocks), Map(Scored, SelectSeq(blocks, LAMBDA g : Holds(selected, KeyOf(g)))),
                             selected)

PlansFit(tensors, groups, signal, i) ==
    /\ \A o \in {[budget |-> i.budget] @@ p : p \in PlanOptions} : PlanIsFull(MakePlan(tensors, o), o)
    /\ \A norms \in BOOLEAN :
          SignalPlanIsFull(SignalPlan(tensors, signal, SignalOptions(i.budget, norms)), groups, signal, i.budget, norms)
    /\ \A policy \in {"ffn-sentinel", "attention-sentinel", "hybrid"}, order \in {"early", "late", "boundary"} :
          ManifestIsUsed(tensors, groups, BuildManifest(tensors, policy, order, i.budget), policy, i)
    /\ FitsAreLargest(groups, ComponentFits(groups, i.budget), FullLayersFit(groups, i.budget),
                      PolicyFit(tensors, i.budget, "balanced"), i.budget)

PlansOfFile(tensors, i) == PlansFit(tensors, GroupsOf(tensors), ExtractSignal(i.measured), i)

(* Every planner keeps to its budget and the plans fit into the buffers made  *)
(* for them: what is selected is staged, whole, once, and within the limits.  *)
PagesFitTheBudget == input.tool = "pages" => PlansOfFile(FileOf(input), input)

-----------------------------------------------------------------------------
(* The tiered KV cache.                                                       *)
ChooseKv ==
    /\ input = Nothing
    /\ \E key \in {2, 4, 5}, value \in {<<>>, <<1>>}, context \in 1 .. Context, recent \in 0 .. 2, sinks \in 0 .. 1,
          warm \in {0, 2, Context}, bits \in {2, 3} :
          input' = [tool |-> "kv", key |-> key, value |-> value, context |-> context,
                    opt |-> [hot_recent |-> recent, sinks |-> sinks, warm_max |-> warm, warm_bits |-> bits,
                             cold_dim |-> 3, cold_bits |-> 1, hot_budget |-> 64, include_context_limit |-> TRUE]]

ChoosePacking ==
    /\ input = Nothing
    /\ \E codes \in SeqsUpTo(0 .. 3, Codes) : input' = [tool |-> "packing", codes |-> codes]

\* Two layers; the values of the second are given or have the dimension of its keys.
KvTensors(i) ==
    LET tensor(role, layer, shape) == [role |-> role, layer |-> layer, shape |-> shape]
        given == IF i.value = <<>> THEN <<>> ELSE << tensor("value", 1, <<4, i.value[1]>>) >>
    IN  << tensor("embedding", 0, <<4, 9>>), tensor("key", 0, <<4, 2>>), tensor("value", 0, <<2>>),
           tensor("key", 1, <<4, i.key>>) >> \o given

(* The plan of a context and the account of a trace put every token in the    *)
(* same tier, and no further token ever makes the cache smaller.              *)
AccountIsThePlan(ledger, i) ==
    LET of(n)  == Account(ledger, i.opt, n)
        same(at) ==
            /\ <<at.hot_tokens, at.warm_tokens, at.cold_tokens>>
                  = <<ledger.tiers.hot.tokens, ledger.tiers.warm.tokens, ledger.tiers.cold.tokens>>
            /\ <<at.full_bytes, at.tier_bytes, at.saved_bytes>> = <<ledger.full_bytes, ledger.tier_bytes, ledger.saved_bytes>>
            /\ KvLedgerPayload(ledger, ledger, i.context, i.opt).hot_fits_budget => at.hot_bytes <= i.opt.hot_budget
    IN  /\ ledger.tiers.hot.tokens + ledger.tiers.warm.tokens + ledger.tiers.cold.tokens = i.context
        /\ same(of(i.context))
        /\ \A n \in 1 .. i.context : of(n).tier_bytes >= of(n - 1).tier_bytes

(* The largest step of a trace is the plan of its context.                    *)
TraceIsThePlan(trace, ledger) ==
    /\ trace.max_tier_bytes = ledger.tier_bytes /\ trace.max_full_bytes = ledger.full_bytes
    /\ trace.sweep_exercises_warm <=> ledger.tiers.warm.tokens > 0

(* The sample that is packed stands for the warm tier: it rounds per token    *)
(* what the plan rounds per tier.                                             *)
SampleIsTheTier(smoke, ledger, warm_bits) ==
    IF warm_bits # 2 THEN smoke = Failure
    ELSE /\ smoke.warm_tokens = ledger.tiers.warm.tokens
         /\ 2 * Abs(smoke.warm_bytes - ledger.tiers.warm.total_bytes) <= smoke.warm_tokens + 1
         /\ ledger.tiers.warm.bits_per_token % 8 = 0 =>
                /\ smoke.warm_bytes = ledger.tiers.warm.total_bytes
                /\ smoke.sample_packed_bytes = smoke.planned_sample_bytes

(* The C++ scheduler puts every token where the scripts put it, and its bytes *)
(* differ by the rounding of halves at most.                                  *)
SchedulerTiersAgree(ledger, i) ==
    \A n \in 0 .. i.context :
        LET cpp == CppAccount(n, ledger.full_bits, i.opt)
            of_scripts == Account(ledger, i.opt, n)
        IN  /\ \A tokens \in {"hot_tokens", "warm_tokens", "cold_tokens"} : cpp[tokens] = of_scripts[tokens]
            /\ \A bytes \in {"hot_bytes", "full_bytes"} : cpp[bytes] = of_scripts[bytes]
            /\ \A bytes \in {"warm_bytes", "cold_bytes"} : cpp[bytes] - of_scripts[bytes] \in {0, 1}

(* Grouped heads that divide the embedding give the dimensions of the tensors. *)
HeaderGivesTheShapes ==
    \A n_head, n_head_kv, head_dim \in 1 .. 3 :
        LET kv_dim == head_dim * n_head_kv
            shapes == [layer \in 1 .. 2 |-> [layer |-> layer, k_dim |-> kv_dim, v_dim |-> kv_dim]]
        IN  CppBitsPerToken(2, n_head * head_dim, n_head, n_head_kv) = BitsPerToken(shapes, 16, 16)

TiersAgree(shapes, i) ==
    LET ledger == KvLedger(shapes, i.context, i.opt)
        steps  == << [oracle_kv_tokens |-> i.context - 1, action |-> Accept] >>
    IN  /\ AccountIsThePlan(ledger, i)
        /\ TraceIsThePlan(RuntimeKvLedger(ledger, i.opt, steps, <<1>>), ledger)
        /\ SampleIsTheTier(TierSmoke(shapes, i.context, i.opt, 2), ledger, i.opt.warm_bits)
        /\ SchedulerTiersAgree(ledger, i)

PackingIsInverse(codes) ==
    LET packed   == Pack(codes)
        unpacked == Unpack(packed.packed, Len(codes))
    IN  /\ \A k \in DOMAIN packed.packed : packed.packed[k] \in 0 .. 255
        /\ unpacked.codes = codes /\ unpacked.checksum = packed.checksum
        /\ \A block \in 1 .. 3 :
              LET bytes == KernelPack(codes, GridFor(PackedBytes(Len(codes)), block), block)
              IN  /\ bytes = packed.packed
                  /\ KernelUnpack(bytes, Len(codes), GridFor(Len(codes), block), block) = codes

(* Plan, trace, packed sample and the C++ scheduler's estimate of the tiered  *)
(* cache tell the same story: no token is counted twice or lost, and what is  *)
(* packed is unpacked.                                                        *)
KvTiersAddUp ==
    /\ input.tool = "kv" => TiersAgree(KvShapes(KvTensors(input)), input)
    /\ HeaderGivesTheShapes
    /\ input.tool = "packing" => PackingIsInverse(input.codes)

-----------------------------------------------------------------------------
(* Projections: two tokens, with some calls of the verifier and the oracle.   *)
ChooseProjection ==
    /\ input = Nothing
    /\ \E proxy \in 0 .. Time, verifier \in 0 .. Time, oracle \in 1 .. Time + 1, calls \in 0 .. 2, asked \in 0 .. 2,
          target \in 0 .. 2 * Time :
          input' = [tool |-> "projection", target |-> target,
                    s |-> Scenario("run", 2, proxy, [calls |-> asked, ms |-> verifier], [calls |-> calls, ms |-> oracle], 0)]

(* A limit is the point up to which the scenario meets the target.            *)
LimitsAreTight(s, target) ==
    s.oracle_calls > 0 =>
        /\ FallbackLimit(s, target).meets_configured <=> MeetsTarget(s, target)
        /\ \A fixed \in 0 .. 1, percent \in 0 .. 3 :
              LET limit == ActiveLimit(s, target, 1, fixed, 2)
              IN  (limit.feasible /\ percent * limit.den <= limit.num)
                  <=> MeetsTarget([s EXCEPT !.oracle_ms = 1 + fixed + 2 * percent], target)

(* The scenarios of a shortlist meet the target when their limits say so, and *)
(* a run that was observed is priced at the time it took.                     *)
ScenariosAreLimited(s, target) ==
    LET sparse    == [component_ms |-> s.oracle_ms, pcie_ms |-> 1, kernel_ms |-> 0]
        live      == [proxy_ms |-> s.proxy_ms, elapsed_ms |-> s.oracle_ms, accounted_ms |-> 1]
        policy    == [tokens |-> s.tokens, proxy_ms |-> s.proxy_ms, verifier |-> [calls |-> s.verifier_calls, ms |-> s.verifier_ms],
                      oracle |-> [calls |-> s.oracle_calls, ms |-> s.oracle_ms]]
        shortlist == [tokens |-> s.tokens, verifier_ms |-> s.verifier_ms, fallbacks |-> s.oracle_calls]
        scenarios == ShortlistScenarios(shortlist, live, 1, sparse, 5)
        limits    == ShortlistLimits(shortlist, live, 1, sparse, 5, <<target>>)
        base      == BaseScenarios(policy, live, ProxyTime(live, 1, TRUE))
    IN  /\ s.oracle_calls > 0 => \A k \in DOMAIN scenarios :
              limits[k][1].meets_configured <=> MeetsTarget(scenarios[k], target)
        /\ live.elapsed_ms > live.proxy_ms => ScenarioTime(base[1]) = s.tokens * live.elapsed_ms
        /\ live.proxy_ms > 0 => /\ ScenarioTime(base[3]) = ScenarioTime(base[4])
                                /\ ScenarioTime(base[4]) = ScenarioTime(base[5])
        /\ ActiveLimits(policy, live, ProxyTime(live, 1, TRUE), <<target, target + 1>>, 1, 0, 1)[1]
              = ActiveLimits(policy, live, ProxyTime(live, 1, FALSE), <<target, target + 1>>, 1, 0, 1)[1]

(* What a budget allows meets the target when it is used.                     *)
BudgetsSuffice(s, target) ==
    /\ \A n_bytes \in {1, 3}, complete \in BOOLEAN :
          LET replay == [ms |-> s.oracle_ms, n_bytes |-> n_bytes, saves_host_read |-> complete, stage_byte_match |-> TRUE,
                         byte_budget_respected |-> TRUE, resident |-> TRUE, transformer |-> FALSE]
              budget == PageCacheBudget(s, replay, target, target + 2)
              others == s.tokens * s.proxy_ms + s.verifier_calls * s.verifier_ms
          IN  IF s.oracle_calls = 0 THEN budget = Failure
              ELSE /\ budget.measured_plan_meets_target <=> MeetsTarget(s, target) /\ complete
                   /\ budget.reduction_target_identified =>
                         /\ n_bytes * others + s.oracle_calls * s.oracle_ms * budget.max_active_bytes
                               <= n_bytes * s.tokens * target
                         /\ budget.required_reduction > 0
    /\ \A fraction \in {0, 40, 100} :
          LET o == [tokens |-> s.tokens, proxy_ms |-> s.proxy_ms, target_ms |-> target, compute_ms |-> 1, fixed_ms |-> 0,
                    ms_per_percent |-> 2, dense_bytes |-> 1, overhead_bytes |-> 0, kv_bytes |-> 0, vram_bytes |-> 1]
              budget == ComputeBudget(o, s.oracle_calls, fraction)
              rest   == s.tokens * s.proxy_ms + s.oracle_calls
              allowed == {percent \in 0 .. 3 : percent * budget.max_active.den <= budget.max_active.num}
          IN  budget # Failure /\ 100 * rest <= (100 - fraction) * s.tokens * target
              => \A row \in SimulateRows(o, {s.oracle_calls}, allowed) : row.meets_target

(* Hiding so much of the GPU's time, or making the proxy so much faster, is   *)
(* enough and no more than needed.                                            *)
OverlapSuffices(s, target) ==
    LET sparse == [pcie_ms |-> 1, kernel_ms |-> 1, component_replay_complete |-> TRUE, transformer_integrated |-> FALSE]
        every  == [s EXCEPT !.verifier_calls = s.tokens]
        full   == [every EXCEPT !.oracle_ms = s.oracle_ms + 1]
        budget == OverlapBudget(full, every, sparse, target, [floor_ms |-> target + 3, max_proxy_reduction_ms |-> 2])
    IN  budget.overlap_target_passed /\ s.oracle_calls > 0 =>
            /\ ScenarioTime(every) - budget.required_hidden_ms = s.tokens * target
            /\ ScenarioTime(every) - budget.required_proxy_ms = s.tokens * target

(* The report of several runs is that of one run with all their steps, except *)
(* that a run that accounts for more time than it took hides no overhead.     *)
TimesAddUp(s, target) ==
    LET step   == [proxy_ms |-> s.proxy_ms, verifier_ms |-> s.verifier_ms, oracle_ms |-> s.oracle_ms, step_ms |-> target]
        run(n) == TimeTotals([k \in 1 .. n |-> StepTiming(step)], n * target, "passed")
        both   == CombineRuns(<< run(s.verifier_calls), run(s.oracle_calls) >>)
        one    == run(s.verifier_calls + s.oracle_calls)
    IN  /\ \A f \in {"steps", "elapsed_ms", "accounted_ms", "overhead_ms"} : both[f] = one[f]
        /\ one.overhead_ms = one.steps * StepTiming(step).overhead_ms
        /\ both.all_compares_passed

(* The limits, budgets and reductions that three reports derive from a target *)
(* are those at which the priced scenario reaches it.                         *)
ProjectionsAgree ==
    input.tool = "projection" =>
        /\ LimitsAreTight(input.s, input.target)
        /\ ScenariosAreLimited(input.s, input.target)
        /\ BudgetsSuffice(input.s, input.target)
        /\ OverlapSuffices(input.s, input.target)
        /\ TimesAddUp(input.s, input.target)

-----------------------------------------------------------------------------
ChooseInput ==
    \/ ChooseRows \/ ChooseLabels \/ ChooseTensors
    \/ ChoosePages \/ ChooseKv \/ ChoosePacking \/ ChooseProjection
    \/ ChooseProfile \/ ChoosePlan

ToolsSpec == NothingChosen /\ [][ChooseInput]_input
================================================================================
