------------------------------ MODULE PlannerChecks ------------------------------
(* What the planner, the runner it plans for and the next plan promise each    *)
(* other, for one input (SageTools says which are chosen).                     *)
EXTENDS SageDecisions, AdaptivePlan

CONSTANTS
    Speeds, CpuSpeeds,          \* tokens per second that llama-bench measured, with a GPU and without
    PromptTokens, AnswerTokens,    \* of a request
    FreeMemory,                 \* VRAM that is free, in percent
    SaveTimes, ColdTimes        \* what saving a slot took, and the request without one

ASSUME PlannerAssumption ==
    /\ Speeds \subseteq Nat /\ CpuSpeeds \subseteq Nat
    /\ PromptTokens \subseteq Nat \ {0} /\ AnswerTokens \subseteq Nat
    /\ FreeMemory \subseteq Nat /\ SaveTimes \subseteq Nat /\ ColdTimes \subseteq Nat

-------------------------------------------------------------------------------
(* Profiles: three runs of llama-bench, some of which failed (no row).         *)
OrNone(S) == {<<>>} \cup {<<x>> : x \in S}

RunRows(ngl, type_k, tg, pp) ==
    LET row(gen, prompt, ts) == [n_gpu_layers |-> ngl, type_k |-> type_k, type_v |-> "q8_0",
                                 n_gen |-> gen, n_prompt |-> prompt, avg_ts |-> ts]
    IN  (IF pp = <<>> THEN <<>> ELSE << row(0, 512, pp[1]) >>) \o (IF tg = <<>> THEN <<>> ELSE << row(128, 0, tg[1]) >>)

ProfileOf(i) == RunRows(20, "q8_0", i.part[1], i.part[2]) \o RunRows(-1, i.type_k, i.full[1], i.full[2])
                \o RunRows(0, "q8_0", i.cpu[1], i.cpu[2])

ChooseProfile ==
    /\ input = Nothing
    /\ \E part \in OrNone(Speeds) \X OrNone(Speeds), full \in OrNone(Speeds) \X OrNone(Speeds),
          cpu \in {<<x>> : x \in CpuSpeeds} \X OrNone(CpuSpeeds),
          type_k \in {"q8_0", "f16"} :
          input' = [tool |-> "profile", part |-> part, full |-> full, cpu |-> cpu, type_k |-> type_k]

(* The placement for decoding has the best score, in a chat the best speed; the *)
(* one for the prompt can hand its cache over, and no row of a run that could,  *)
(* and that is measured at generation, is faster.  The order of the rows in the *)
(* profile does not change the speeds.                                          *)
PlacementsAreBest(rows, mode, best, choice, again) ==
    LET gen(r)    == {k \in DOMAIN rows : rows[k].n_gen > 0 /\ RunOf(rows[k]) = RunOf(r)}
        prompts   == {k \in DOMAIN rows : rows[k].n_prompt > 0 /\ gen(rows[k]) # {}}
    IN  /\ mode = "chat" => \A k \in DOMAIN rows : rows[k].n_gen > 0 => rows[k].avg_ts <= best.decode.generation_tps
        /\ \A k \in prompts : /\ rows[k].avg_ts <= best.prefill.prompt_tps
                              /\ mode = "prefill" => rows[k].avg_ts <= best.decode.prompt_tps
        /\ choice # Failure =>
              /\ SameTypes(choice.prefill, choice.decode)
              /\ \A k \in prompts : SameTypes(rows[k], choice.decode) => rows[k].avg_ts <= choice.prefill.prompt_tps
              /\ again # Failure => again.decode.score = choice.decode.score

PlacementsOf(rows) ==
    \A mode \in {"chat", "balanced", "prefill"} :
        PlacementsAreBest(rows, mode, RecommendFromRows(rows, mode), PhaseSelected(rows, mode),
                          PhaseSelected(Reverse(rows), mode))

-------------------------------------------------------------------------------
(* Plans for a given profile, with reports of earlier runs.                    *)
PlannedProfile == RunRows(20, "q8_0", <<5>>, <<2>>) \o RunRows(-1, "q8_0", <<5>>, <<5>>)

Earlier == {[existing |-> e, tokens |-> 2, prefill |-> 3, save |-> save, restore |-> 2, decode |-> 3, cold |-> cold] :
               e \in BOOLEAN, save \in SaveTimes, cold \in OrNone(ColdTimes)}

ChoosePlan ==
    /\ input = Nothing
    /\ \E strategy \in {"auto", "phase", "normal"}, prompt \in BOOLEAN, tokens \in PromptTokens, new \in AnswerTokens,
          free \in FreeMemory, allow \in BOOLEAN, run \in Earlier :
          input' = [tool |-> "plan", run |-> run, hw |-> [vram_total |-> 100, vram_free |-> free, ram_total |-> 0, ram_free |-> 0],
                    o |-> [strategy |-> strategy, prompt |-> prompt, prompt_tokens |-> tokens, new_tokens |-> new,
                           allow_phase_on_normal_pressure |-> allow, context |-> 1, cache_type |-> "", model_mib |-> 50,
                           expected_reuses |-> 1]]

\* The plan of an input when n uses are expected, with these reports and slots.
PlanOf(i, n, reports, slots) ==
    MakeAdaptivePlan(PlannedProfile, "chat", [i.o EXCEPT !.expected_reuses = n], reports, i.hw, slots)

(* A slot that is made for as many uses as are expected costs no more than it  *)
(* saves, and for fewer uses it is not made; unless a measurement promises to  *)
(* save more than the whole request takes.  From break-even on it is made just *)
(* when memory is short or the user allows it.                                 *)
CreatedSlotsPayOff(i, e, strategy) ==
    LET n             == e.break_even
        pays(uses)    == NoMore(Plus(e.create, Times(uses, e.cached_total)), Times(uses, e.normal_total))
        creates(uses) == strategy[uses] = "phase-create"
    IN  i.o.strategy = "auto" =>
            /\ n = NoBreakEven => ~creates(1000)
            /\ n > 0 /\ NoMore(e.saving, e.normal_total) => /\ creates(n) => pays(n)
                                                            /\ n > 1 => ~pays(n - 1)
            /\ n > 0 => /\ \A uses \in {n, n + 1} :
                              creates(uses) <=> i.o.prompt /\ (i.hw.vram_free < 35 \/ i.o.allow_phase_on_normal_pressure)
                        /\ ~creates(n - 1)

(* For a run that was measured as a whole the planner comes to the break-even  *)
(* that the runner reports, whatever the length of the next prompt.            *)
BreakEvensAgree(i, report, plan) == ~i.run.existing => plan.economics.break_even = report.break_even

(* A plan that makes a slot is followed, once the slot is there, by one that   *)
(* uses it, whatever the report of that run says and however many uses are     *)
(* expected; and a slot is used with the placements it was made for only.      *)
SlotsAreUsed(i, first, report) ==
    LET next(slots) == PlanOf(i, 1, <<report>>, slots)
        other == [first.request EXCEPT !.decode_ngl = first.request.decode_ngl + 1]
        again(plan) == plan.strategy = "phase-reuse" /\ plan.request = first.request
    IN  /\ first.strategy = "phase-create" => again(next({first.request}))
        /\ next({other}).strategy # "phase-reuse"

(* What is measured last counts: a report that cannot be read or is of other   *)
(* placements changes nothing, and one of a run that found its slot hides the  *)
(* cost of making it.                                                          *)
LastReportCounts(i, before, after, report, reuse) ==
    LET other   == [report EXCEPT !.tokens = 1, !.prefill = 7, !.saving = <<1>>]
        skipped == {[other EXCEPT !.readable = FALSE], [other EXCEPT !.prefill_ngl = report.prefill_ngl + 1],
                    [other EXCEPT !.cache_type = "f16"], [other EXCEPT !.context = report.context + 1]}
    IN  \A r \in skipped \cup {reuse} :
            PlanOf(i, 1, <<report, r>>, {}).economics = IF r = reuse THEN before.economics ELSE after.economics

PlanAgrees(i, reports, plan) ==
    CreatedSlotsPayOff(i, plan.economics, [n \in Nat |-> PlanOf(i, n, reports, {}).strategy])

\* The plans without a report and with one; a plan for many uses.
PlansAgree(i, before, after, report, reuse) ==
    /\ PlanAgrees(i, <<>>, before) /\ PlanAgrees(i, <<report>>, after)
    /\ BreakEvensAgree(i, report, after)
    /\ SlotsAreUsed(i, PlanOf(i, 1000, <<>>, {}), report)
    /\ LastReportCounts(i, before, after, report, reuse)

ReportFor(plan, run) == PhaseReport(plan.request, run)

PlansAgreeWith(i, before, report) ==
    PlansAgree(i, before, PlanOf(i, 1, <<report>>, {}), report, ReportFor(before, [i.run EXCEPT !.existing = TRUE]))

PlansFollow(i, before) == PlansAgreeWith(i, before, ReportFor(before, i.run))

(* Memory that is freed never raises the pressure.                             *)
Rank(level) == CASE level = "high" -> 2 [] level = "moderate" -> 1 [] OTHER -> 0

PressureFalls ==
    \A total \in {0, 100}, ram_total \in {0, 100}, slow \in BOOLEAN, model_mib \in {50, 96} :
       \A vram, ram \in {10, 14, 15, 19, 20, 29, 30, 34, 35, 90} : \A more \in {1, 5} :
          LET level(v, r) == PressureLevel([vram_total |-> total, vram_free |-> v, ram_total |-> ram_total, ram_free |-> r],
                                           model_mib, slow)
          IN  /\ Rank(level(vram + more, ram)) <= Rank(level(vram, ram))
              /\ Rank(level(vram, ram + more)) <= Rank(level(vram, ram))

(* Profile, plan, runner and next plan tell the same story: placements that    *)
(* can share a slot, slots that pay off and are then used, and the runner's    *)
(* break-even.                                                                 *)
PlannerAgrees ==
    /\ input.tool = "none" => PressureFalls
    /\ input.tool = "profile" => PlacementsOf(ProfileOf(input))
    /\ input.tool = "plan" => PlansFollow(input, PlanOf(input, 1, <<>>, {}))
================================================================================
