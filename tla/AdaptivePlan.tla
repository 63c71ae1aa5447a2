------------------------------ MODULE AdaptivePlan ------------------------------
(* How weak_llm.py chooses: placements from a profile, the pressure on memory, *)
(* what a slot costs and saves, and from these the strategy of a plan.  The    *)
(* files a plan reads and writes, and their sharing, are in SlotCache; the     *)
(* times come from reports of phase-split-llama.ps1, which are modelled here.  *)
(*                                                                             *)
(* Speeds are whole tokens per second, times fractions [num, den] of           *)
(* milliseconds; rounding to decimals is left out.                             *)
EXTENDS Tallies

\* Gcd[b][a]: of a and b.
Gcd[b \in Nat] == [a \in Nat |-> IF b = 0 THEN a ELSE Gcd[a % b][b]]

Reduced(num, den, gcd) == [num |-> num \div gcd, den |-> den \div gcd]
Fraction(num, den) == Reduced(num, den, Gcd[den][Abs(num)])
Plus(a, b)     == Fraction(a.num * b.den + b.num * a.den, a.den * b.den)
Minus(a, b)    == Plus(a, Fraction(-b.num, b.den))
Times(n, a)    == Fraction(n * a.num, a.den)
NoMore(a, b)   == a.num * b.den <= b.num * a.den
Zero           == Fraction(0, 1)
PositivePart(a) == IF a.num > 0 THEN a ELSE Zero

\* ceil(a / b), for b > 0.
CeilOf(a, b) == -((-(a.num * b.den)) \div (a.den * b.num))

-------------------------------------------------------------------------------
(* Placements.  A row of llama-bench measures one run, a placement with its    *)
(* types of cache, at generation (n_gen > 0), at prompts (n_prompt > 0).       *)
RunOf(row) == [n_gpu_layers |-> row.n_gpu_layers, type_k |-> row.type_k, type_v |-> row.type_v]

\* rows_by_run(): the rows of a kind that measure a run.  The last one counts; a speed that was not measured is 0.
Generations(rows)     == {k \in DOMAIN rows : rows[k].n_gen > 0}
Prompts(rows)         == {k \in DOMAIN rows : rows[k].n_prompt > 0}
OfRun(rows, kind, run) == {k \in kind : RunOf(rows[k]) = run}
SpeedOf(rows, kind, run) ==
    LET measures == OfRun(rows, kind, run)
    IN  IF measures = {} THEN 0 ELSE rows[Max(measures)].avg_ts

\* The places of the rows that are the first of their run.
FirstRows(rows) == {k \in DOMAIN rows : \A j \in OfRun(rows, DOMAIN rows, RunOf(rows[k])) : k <= j}

\* A balanced score is four thousand times that of the code.
Score(mode, tg, pp) ==
    CASE mode = "prefill"  -> pp
      [] mode = "balanced" -> tg * (3000 + Smaller(pp, 1000))
      [] mode = "chat"     -> tg

CandidateOf(run, mode, tg, pp) ==
    [n_gpu_layers |-> run.n_gpu_layers, type_k |-> run.type_k, type_v |-> run.type_v,
     generation_tps |-> tg, prompt_tps |-> pp, score |-> Score(mode, tg, pp)]

Candidate(rows, mode, run) ==
    CandidateOf(run, mode, SpeedOf(rows, Generations(rows), run), SpeedOf(rows, Prompts(rows), run))

\* The runs measured at generation, best first; equals in the order of the rows.
RunCandidates(rows, mode) ==
    LET usable    == {k \in FirstRows(rows) : OfRun(rows, Generations(rows), RunOf(rows[k])) # {}}
        candidate == [k \in usable |-> Candidate(rows, mode, RunOf(rows[k]))]
        Better(j, k) == \/ candidate[j].score > candidate[k].score
                        \/ candidate[j].score = candidate[k].score /\ j < k
        places    == InOrder(usable, Better)
    IN  [n \in DOMAIN places |-> candidate[places[n]]]

\* max() by prompt_tps of the candidates at these places that have one, or the placement for decoding.
FastestPrompt(candidates, places, decode) ==
    LET measured == {k \in places : candidates[k].prompt_tps > 0}
        fastest  == {k \in measured : \A j \in measured : candidates[j].prompt_tps <= candidates[k].prompt_tps}
    IN  IF measured = {} THEN decode ELSE candidates[Min(fastest)]

FullOffloadIsSlow(candidates) ==
    LET full == {k \in DOMAIN candidates : candidates[k].n_gpu_layers = -1}
    IN  /\ full # {} /\ candidates[1].n_gpu_layers # -1
        /\ 10 * candidates[Min(full)].generation_tps < 8 * candidates[1].generation_tps

RecommendOf(candidates) ==
    IF candidates = <<>> THEN Failure
    ELSE [status |-> "recommended", decode |-> candidates[1],
          prefill |-> FastestPrompt(candidates, DOMAIN candidates, candidates[1]),
          spill_warning |-> FullOffloadIsSlow(candidates), top |-> FirstOf(candidates, 8)]

RecommendFromRows(rows, mode) == RecommendOf(RunCandidates(rows, mode))

SameTypes(a, b) == a.type_k = b.type_k /\ a.type_v = b.type_v

\* phase_selected(): a slot that one server saves is restored by another with the same types.
PhaseChoice(r) ==
    LET ranked == <<r.prefill>> \o r.top
        places == {k \in DOMAIN ranked : SameTypes(ranked[k], r.decode)}
    IN  IF r = Failure \/ r.decode.type_k # r.decode.type_v THEN Failure
        ELSE [status |-> "selected", decode |-> r.decode, cache_type |-> r.decode.type_k, spill_warning |-> r.spill_warning,
              prefill |-> FastestPrompt(ranked, places, r.decode)]

PhaseSelected(rows, mode) == PhaseChoice(RecommendFromRows(rows, mode))

-------------------------------------------------------------------------------
(* Pressure.  A total of 0 is one that could not be read.                      *)
Below(part, whole, percent) == whole > 0 /\ 100 * part < percent * whole

\* memory_pressure(): its level.
PressureLevel(hw, model_mib, full_offload_slow) ==
    LET known == hw.vram_total > 0
        high  == \/ known /\ (100 * model_mib > 95 * hw.vram_total \/ full_offload_slow)
                 \/ Below(hw.vram_free, hw.vram_total, 20)
                 \/ Below(hw.ram_free, hw.ram_total, 15)
        moderate == Below(hw.vram_free, hw.vram_total, 35) \/ Below(hw.ram_free, hw.ram_total, 30)
    IN  CASE high               -> "high"
          [] ~high /\ ~known    -> "unknown"
          [] OTHER              -> IF moderate THEN "moderate" ELSE "normal"

-------------------------------------------------------------------------------
(* What a slot costs and saves.  Times that were not taken are <<>>, others    *)
(* <<ms>>.                                                                     *)
NoBreakEven == 0     \* None, which the strategy treats like 0

\* The report of a run of phase-split-llama.ps1: request is what the run was for.
PhaseReport(request, run) ==
    LET saving == IF run.cold = <<>> THEN <<>> ELSE << run.cold[1] - run.decode >>
        create == run.prefill + run.save + run.restore
    IN  [readable |-> TRUE, context |-> request.context, cache_type |-> request.cache_type,
         prefill_ngl |-> request.prefill_ngl, decode_ngl |-> request.decode_ngl,
         tokens |-> IF run.existing THEN 0 ELSE run.tokens,
         prefill |-> IF run.existing THEN 0 ELSE run.prefill, save |-> IF run.existing THEN 0 ELSE run.save,
         restore |-> run.restore, saving |-> saving,
         break_even |-> IF saving = <<>> \/ run.existing THEN NoBreakEven
                        ELSE IF saving[1] <= 0 THEN NoBreakEven
                        ELSE CeilOf(Fraction(create, 1), Fraction(saving[1], 1))]

IsFor(report, request) ==
    /\ report.readable
    /\ report.context = request.context /\ report.cache_type = request.cache_type
    /\ report.prefill_ngl = request.prefill_ngl /\ report.decode_ngl = request.decode_ngl

Measurement(report) ==
    [status |-> "measured", tokens |-> report.tokens, create |-> report.prefill + report.save + report.restore,
     saving |-> IF report.saving = <<>> THEN 0 ELSE report.saving[1], break_even |-> report.break_even]

\* latest_phase_measurement(): of the reports, in the order they were written, the last for the request.
LatestPhaseMeasurement(reports, request) ==
    LET found == {k \in DOMAIN reports : IsFor(reports[k], request)}
    IN  IF found = {} THEN Failure ELSE Measurement(reports[Max(found)])

\* ms_for_tokens(); a speed of 0 gives no time, and none counts as 0.
MsForTokens(tokens, tps) == IF tps <= 0 THEN Zero ELSE Fraction(1000 * tokens, tps)

IsMeasured(measurement) == measurement # Failure /\ measurement.tokens > 0

\* As measured, per token; or the prompt at the speed of the profile and a fifth of a millisecond per token.
CreateTime(o, normal_total, prefill, measurement) ==
    IF IsMeasured(measurement) THEN Fraction(measurement.create * o.prompt_tokens, measurement.tokens)
    ELSE Plus(IF prefill.prompt_tps > 0 THEN MsForTokens(o.prompt_tokens, prefill.prompt_tps) ELSE normal_total,
              Fraction(Max({1250, o.prompt_tokens}), 5))

\* As measured, per token; or 15 percent of the time of the prompt.
SavingTime(o, normal_prompt, measurement) ==
    IF IsMeasured(measurement) THEN PositivePart(Fraction(measurement.saving * o.prompt_tokens, measurement.tokens))
    ELSE Fraction(15 * normal_prompt.num, 100 * normal_prompt.den)

Economics(normal_total, create, saving) ==
    [normal_total |-> normal_total, create |-> create, saving |-> saving,
     cached_total |-> PositivePart(Minus(normal_total, saving)),
     break_even |-> IF saving.num > 0 THEN CeilOf(create, saving) ELSE NoBreakEven]

\* estimate_break_even()
EstimateBreakEven(o, decode, prefill, measurement) ==
    LET normal_prompt == MsForTokens(o.prompt_tokens, decode.prompt_tps)
        normal_total  == Plus(normal_prompt, MsForTokens(o.new_tokens, decode.generation_tps))
    IN  Economics(normal_total, CreateTime(o, normal_total, prefill, measurement),
                  SavingTime(o, normal_prompt, measurement))

-------------------------------------------------------------------------------
(* The plan.                                                                   *)
\* Faulty: break-even itself is not enough.
PaysOffLater(o, break_even, level) ==
    /\ o.prompt /\ break_even # NoBreakEven /\ o.expected_reuses > break_even
    /\ level \in {"moderate", "high"} \/ o.allow_phase_on_normal_pressure

\* Whether a slot that does not exist is worth making.
PaysOff(o, break_even, level) ==
    /\ o.prompt /\ break_even # NoBreakEven /\ o.expected_reuses >= break_even
    /\ level \in {"moderate", "high"} \/ o.allow_phase_on_normal_pressure

StrategyOf(o, hit, break_even, level) ==
    CASE o.strategy = "normal"               -> "normal-server"
      [] o.strategy = "phase" /\ o.prompt    -> IF hit THEN "phase-reuse" ELSE "phase-create"
      [] OTHER -> CASE hit -> "phase-reuse"
                    [] ~hit /\ PaysOff(o, break_even, level) -> "phase-create"
                    [] OTHER -> "normal-server"

\* What a slot is looked up by besides model and prompt, and a report besides the model only.
RequestOf(o, choice) ==
    [context |-> o.context, cache_type |-> IF o.cache_type = "" THEN choice.cache_type ELSE o.cache_type,
     prefill_ngl |-> choice.prefill.n_gpu_layers, decode_ngl |-> choice.decode.n_gpu_layers]

PlanWith(o, request, hit, economics, level) ==
    [status |-> "planned", request |-> request, economics |-> economics,
     strategy |-> StrategyOf(o, hit, economics.break_even, level)]

PlanForChoice(choice, o, reports, hw, slots) ==
    LET request == RequestOf(o, choice)
    IN  IF choice = Failure THEN Failure
        ELSE PlanWith(o, request, o.prompt /\ request \in slots,
                      EstimateBreakEven(o, choice.decode, choice.prefill, LatestPhaseMeasurement(reports, request)),
                      PressureLevel(hw, o.model_mib, choice.spill_warning))

\* make_adaptive_plan(): slots are the requests whose slot for this prompt exists.
MakeAdaptivePlan(rows, mode, o, reports, hw, slots) ==
    PlanForChoice(PhaseSelected(rows, mode), o, reports, hw, slots)
================================================================================
