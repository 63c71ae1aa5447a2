------------------------------ MODULE OraclePages ------------------------------
(* Which blocks of the oracle model a sparse step uses, and how they come     *)
(* through the staging buffers: sage_gguf_blocks.py groups the tensors of a   *)
(* GGUF file into blocks, sage_block_plan.py and sage_signal_aware_pager.py   *)
(* select blocks within a byte budget, sage_oracle_pager.py makes one page of *)
(* each and packs the pages into stages, sage_oracle_pager_staging.py reads   *)
(* the stages into host buffers, and sage_oracle_runtime_step.py adds the     *)
(* bytes up.  Sizes are counts of bytes, shares are percentages, and a score  *)
(* is scaled to an integer.                                                   *)
EXTENDS Tallies

\* The bytes of a sequence of tensors, blocks, pages or stages, and of the largest of them.
BytesOf(s) == SumOf(LAMBDA x : x.n_bytes, s)
MostBytes(s) == MostOf(LAMBDA x : x.n_bytes, s)

-----------------------------------------------------------------------------
(* sage_gguf_blocks.py.  A tensor is a record of its layer, its component,    *)
(* elements, type and offset.                                                 *)
NoLayer == 999999       \* how a tensor outside the layers is ordered

\* Elements per block and bytes per block of a tensor type.
QuantSizes == [F32 |-> <<1, 4>>, Q4_0 |-> <<32, 18>>, Q8_0 |-> <<32, 34>>, Q6_K |-> <<256, 210>>]

\* tensor_nbytes(): a last block that is not full takes its whole size.
TensorBytes(n_elements, type) ==
    ((n_elements + QuantSizes[type][1] - 1) \div QuantSizes[type][1]) * QuantSizes[type][2]

\* The alphabetical order of the component names.
Components == <<"attention", "embedding", "ffn", "norm", "other", "output", "rope">>
ComponentRank(c) == CHOOSE i \in DOMAIN Components : Components[i] = c

KeyOf(tensor) == <<tensor.layer, tensor.component>>
KeyBefore(a, b) == a.layer < b.layer \/ (a.layer = b.layer /\ ComponentRank(a.component) < ComponentRank(b.component))

\* parse_gguf(): the tensors of one layer and component are a group, and groups are sorted.
GroupsOf(tensors) ==
    LET keys == {KeyOf(tensors[i]) : i \in DOMAIN tensors}
        group(k) == LET items == SelectSeq(tensors, LAMBDA t : KeyOf(t) = k)
                    IN  [layer |-> k[1], component |-> k[2], n_tensors |-> Len(items), n_bytes |-> BytesOf(items)]
    IN  InOrder({group(k) : k \in keys}, KeyBefore)

LayerCount(tensors) == Cardinality({tensors[i].layer : i \in DOMAIN tensors} \ {NoLayer})

-----------------------------------------------------------------------------
(* sage_block_plan.py                                                         *)
IsBoundary(layer, layer_count, boundary_layers) ==
    layer # NoLayer /\ (layer < boundary_layers \/ layer >= layer_count - boundary_layers)

IncludeGlobal(group, mode) ==
    group.layer # NoLayer \/ mode = "all" \/ (mode # "none" /\ group.component = mode)

\* Ten times COMPONENT_WEIGHTS of the policy.
Weight(component, policy) ==
    CASE component \in {"norm", "rope"} -> 1000
      [] component \in {"embedding", "output"} -> 5
      [] component = "attention" ->
            CASE policy = "attention-first" -> 80 [] policy = "balanced" -> 40 [] policy = "boundary" -> 30 [] OTHER -> 15
      [] component = "ffn" ->
            CASE policy = "ffn-first" -> 80 [] policy = "boundary" -> 30 [] policy = "balanced" -> 25 [] OTHER -> 10
      [] OTHER -> 10

\* score_group(), times 80 center: weight, boundary and a mild preference for the edges.
ScoreGroup(group, policy, layer_count, boundary_layers) ==
    LET center == IF layer_count - 1 > 2 THEN layer_count - 1 ELSE 2    \* twice max(center, 1)
        edge   == IF group.layer # NoLayer /\ layer_count > 1
                  THEN 4 * center + Abs(2 * group.layer - (layer_count - 1))
                  ELSE 4 * center
        boundary == IF ~IsBoundary(group.layer, layer_count, boundary_layers) THEN 1
                    ELSE IF policy = "boundary" THEN 8 ELSE 2
    IN  Weight(group.component, policy) * boundary * edge

\* The order of the candidates: score per byte, score, smaller blocks; highest first.
RicherThan(a, b) ==
    LET left == a.score * AtLeastOne(b.n_bytes)  right == b.score * AtLeastOne(a.n_bytes)
    IN  \/ left > right
        \/ left = right /\ a.score > b.score
        \/ left = right /\ a.score = b.score /\ a.n_bytes < b.n_bytes

Candidates(groups, layer_count, opt) ==
    LET included == SelectSeq(groups, LAMBDA g : IncludeGlobal(g, opt.global_mode))
    IN  Sorted([i \in DOMAIN included |->
                   [score |-> ScoreGroup(included[i], opt.policy, layer_count, opt.boundary_layers)] @@ included[i]],
               RicherThan)

\* The bytes of the selected blocks of one component, or of all.
UsedBy(selected, component) == BytesOf(SelectSeq(selected, LAMBDA b : b.component = component))

ShareOf(budget, percent) == (budget * percent) \div 100

\* can_select()
CanSelect(block, selected, opt) ==
    /\ \A i \in DOMAIN selected : KeyOf(selected[i]) # KeyOf(block)
    /\ BytesOf(selected) + block.n_bytes <= opt.budget
    /\ block.component = "attention" =>
          UsedBy(selected, "attention") + block.n_bytes <= ShareOf(opt.budget, opt.attention_max)

SelectNext(selected, block, opt) == IF CanSelect(block, selected, opt) THEN Append(selected, block) ELSE selected

\* make_plan(): first feed-forward blocks up to their share, then whatever fits.
MakePlan(tensors, opt) ==
    LET candidates == Candidates(GroupsOf(tensors), LayerCount(tensors), opt)
        ffn_min == ShareOf(opt.budget, opt.ffn_min)
        ffn == FoldLeft(LAMBDA sel, b : IF UsedBy(sel, "ffn") >= ffn_min THEN sel ELSE SelectNext(sel, b, opt),
                        <<>>, SelectSeq(candidates, LAMBDA b : b.component = "ffn"))
        selected == FoldLeft(LAMBDA sel, b : SelectNext(sel, b, opt), ffn, candidates)
    IN  [selected |-> selected, used_bytes |-> BytesOf(selected),
         omitted |-> SelectSeq(candidates, LAMBDA b : \A i \in DOMAIN selected : KeyOf(selected[i]) # KeyOf(b))]

-----------------------------------------------------------------------------
(* sage_signal_aware_pager.py.  `signal' gives each block the sum of the      *)
(* magnitudes of its measured rows.                                           *)

\* extract_signal(): the rows of one block, over all stages and tensors, are added up.
ExtractSignal(rows) ==
    [k \in {rows[i].key : i \in DOMAIN rows} |->
        SumOf(LAMBDA r : Abs(r.score), SelectSeq(rows, LAMBDA r : r.key = k))]

SignalOf(signal, block) == IF KeyOf(block) \in DOMAIN signal THEN signal[KeyOf(block)] ELSE 0

BySignal(a, b) ==       \* score per byte, score, smaller, key; highest first (--byte-penalty 1)
    LET left == a.score * b.n_bytes  right == b.score * a.n_bytes
    IN  \/ left > right
        \/ left = right /\ a.score > b.score
        \/ left = right /\ a.score = b.score /\ a.n_bytes < b.n_bytes
        \/ left = right /\ a.score = b.score /\ a.n_bytes = b.n_bytes /\ KeyBefore(b, a)

\* make_signal_plan(): the norms (or failure), then blocks by their signal, within the budget.
SignalPlan(tensors, signal, opt) ==
    LET scored(g) == [score |-> IF g.component = "norm" /\ opt.include_norms
                                THEN AtLeastOne(SignalOf(signal, g)) ELSE SignalOf(signal, g)] @@ g
        groups == SelectSeq(GroupsOf(tensors), LAMBDA g : IncludeGlobal(g, opt.global_mode))
        candidates == SelectSeq([i \in DOMAIN groups |-> scored(groups[i])],
                                LAMBDA b : opt.drop_unsignaled /\ ~(b.component = "norm" /\ opt.include_norms)
                                           => b.score > 0)
        norms == IF opt.include_norms THEN SelectSeq(candidates, LAMBDA b : b.component = "norm") ELSE <<>>
        ranked == Sorted(SelectSeq(candidates, LAMBDA b : \A i \in DOMAIN norms : norms[i] # b), BySignal)
        selected == FoldLeft(LAMBDA sel, b : IF BytesOf(sel) + b.n_bytes <= opt.budget THEN Append(sel, b) ELSE sel,
                             norms, ranked)
    IN  IF BytesOf(norms) > opt.budget THEN Failure
        ELSE [status |-> "planned", selected |-> selected, used_bytes |-> BytesOf(selected)]

-----------------------------------------------------------------------------
(* sage_oracle_pager.py                                                       *)
MakePages(selected) ==
    LET ordered == Sorted(selected, KeyBefore)
    IN  [i \in DOMAIN ordered |-> [page_id |-> i - 1, key |-> KeyOf(ordered[i]),
                                   n_tensors |-> ordered[i].n_tensors, n_bytes |-> ordered[i].n_bytes]]

\* A stage of these pages, put into buffer A or B by turns.
Stage(stages, ids, n_bytes) ==
    [stage_index |-> Len(stages), buffer |-> IF Len(stages) % 2 = 0 THEN "A" ELSE "B",
     page_ids |-> ids, n_bytes |-> n_bytes]

\* flush(): what is gathered becomes a stage.
Flush(acc) ==
    IF acc.ids = <<>> THEN acc
    ELSE [stages |-> Append(acc.stages, Stage(acc.stages, acc.ids, acc.n_bytes)), ids |-> <<>>, n_bytes |-> 0]

\* Faulty: what was gathered stays behind when a page of its own stage comes.
AddPageUnflushed(acc, page, limit) ==
    LET room == IF acc.ids # <<>> /\ acc.n_bytes + page.n_bytes > limit THEN Flush(acc) ELSE acc
    IN  IF page.n_bytes > limit
        THEN [acc EXCEPT !.stages = Append(@, Stage(@, <<page.page_id>>, page.n_bytes))]
        ELSE [room EXCEPT !.ids = Append(@, page.page_id), !.n_bytes = @ + page.n_bytes]

AddPage(acc, page, limit) ==
    LET flushed == Flush(acc)
        room == IF acc.ids # <<>> /\ acc.n_bytes + page.n_bytes > limit THEN flushed ELSE acc
    IN  IF page.n_bytes > limit
        THEN [flushed EXCEPT !.stages = Append(@, Stage(@, <<page.page_id>>, page.n_bytes))]
        ELSE [room EXCEPT !.ids = Append(@, page.page_id), !.n_bytes = @ + page.n_bytes]

MakeStages(pages, limit) ==
    Flush(FoldLeft(LAMBDA acc, p : AddPage(acc, p, limit), [stages |-> <<>>, ids |-> <<>>, n_bytes |-> 0], pages)).stages

\* make_payload(): the ledger of a plan (both planners write the same one).
PageLedger(selected, model_bytes, stage_buffer) ==
    LET pages == MakePages(selected)
        stages == MakeStages(pages, stage_buffer)
    IN  [pages |-> pages, stages |-> stages, selected_bytes |-> BytesOf(pages),
         max_stage_bytes |-> MostBytes(stages), exact_fallback_bytes |-> model_bytes,
         host_pinned_bytes |-> BytesOf(pages), gpu_staged_bytes |-> MostBytes(stages),
         stage_buffer_bytes |-> stage_buffer]

-----------------------------------------------------------------------------
(* sage_oracle_pager_staging.py                                               *)
\* selected_stages(): the first stages of the ledger, within a number and a size (0: no limit).
SelectedStages(stages, limit_stages, max_bytes) ==
    LET within(n) == /\ limit_stages > 0 => n <= limit_stages
                     /\ max_bytes > 0 => BytesOf(SubSeq(stages, 1, n)) <= max_bytes
        lengths == {n \in 0 .. Len(stages) : within(n)}
    IN  IF stages # <<>> /\ max_bytes > 0 /\ stages[1].n_bytes > max_bytes THEN Failure
        ELSE [status |-> "selected",
              stages |-> SubSeq(stages, 1, CHOOSE n \in lengths : \A k \in lengths : k <= n)]

\* stage_pages(): every tensor of every page of a stage, in file order, is read behind the last one.
Contents(page, tensors) ==
    Sorted(SelectSeq(tensors, LAMBDA t : KeyOf(t) = page.key), LAMBDA a, b : a.offset < b.offset)

StagedBytes(stage, ledger, tensors) ==
    SumOf(LAMBDA id : BytesOf(Contents(ledger.pages[id + 1], tensors)), stage.page_ids)

StageFits(stage, ledger, tensors, buffer_bytes) ==
    /\ stage.n_bytes <= buffer_bytes
    /\ \A i \in DOMAIN stage.page_ids :
          LET page == ledger.pages[stage.page_ids[i] + 1] IN
          /\ Contents(page, tensors) # <<>>
          /\ page.n_bytes = BytesOf(Contents(page, tensors))
    /\ StagedBytes(stage, ledger, tensors) <= buffer_bytes

StagePages(ledger, tensors, limit_stages, max_bytes, buffer_bytes) ==
    LET chosen == SelectedStages(ledger.stages, limit_stages, max_bytes) IN
    IF chosen = Failure \/ ledger.stages = <<>> THEN Failure
    ELSE IF \E i \in DOMAIN chosen.stages : ~StageFits(chosen.stages[i], ledger, tensors, buffer_bytes) THEN Failure
    ELSE [status |-> "staged",
          stages |-> [i \in DOMAIN chosen.stages |->
                        [planned_bytes |-> chosen.stages[i].n_bytes,
                         n_bytes |-> StagedBytes(chosen.stages[i], ledger, tensors)]]]

-----------------------------------------------------------------------------
(* sage_oracle_runtime_step.py: the bytes of one sparse step, and whether the *)
(* whole model has to answer anyway.                                          *)
RuntimeStep(ledger, candidate_bytes, kernel_buffer, candidate_buffer, covers_top1) ==
    [active_sparse_step_bytes |-> ledger.selected_bytes + candidate_bytes,
     max_measured_device_stage_bytes |-> IF kernel_buffer > candidate_buffer THEN kernel_buffer ELSE candidate_buffer,
     exact_fallback_required |-> ~covers_top1,
     exact_fallback_bytes |-> ledger.exact_fallback_bytes]
================================================================================
