----------------------------- MODULE VerifierPages -----------------------------
(* Which blocks of the oracle model judge a candidate: sage_verifier_         *)
(* manifest.py selects the blocks of a verifier within a budget, sage_        *)
(* verifier_plan.py says what a budget could hold, and sage_reduced_page_     *)
(* quality_probe.py compares the scores of a reduced selection with those of  *)
(* the full one.                                                              *)
EXTENDS OraclePages

-----------------------------------------------------------------------------
(* sage_verifier_manifest.py                                                  *)
\* The place of a layer in the order "boundary": first, last, second, ...
BoundaryRank(layer, layer_count) ==
    IF 2 * layer <= layer_count - 1 THEN 2 * layer ELSE 2 * (layer_count - 1 - layer) + 1

\* layer_sequence()
LayerSequence(layer_count, mode) ==
    LET from_center(layer) == Abs(2 * layer - (layer_count - 1))
        before(a, b) == CASE mode = "early" -> a < b
                          [] mode = "late" -> a > b
                          [] mode = "middle" -> \/ from_center(a) < from_center(b)
                                                \/ from_center(a) = from_center(b) /\ a < b
                          [] mode = "boundary" -> BoundaryRank(a, layer_count) < BoundaryRank(b, layer_count)
    IN  InOrder(0 .. layer_count - 1, before)

Holds(s, key) == \E i \in DOMAIN s : KeyOf(s[i]) = key

\* component_package(): the block, after the norms of its layer unless they are selected already.
ComponentPackage(groups, selected, layer, component) ==
    LET missing(c) == SelectSeq(groups, LAMBDA g : KeyOf(g) = <<layer, c>> /\ ~Holds(selected, <<layer, c>>))
    IN  IF missing(component) = <<>> THEN <<>> ELSE missing("norm") \o missing(component)

\* add_package(): all of it or nothing.
AddPackage(groups, selected, layer, component, budget) ==
    LET package == ComponentPackage(groups, selected, layer, component)
    IN  IF BytesOf(selected) + BytesOf(package) > budget THEN selected ELSE selected \o package

\* build_manifest(): hybrid takes one feed-forward block, then attention, then feed-forward again.
BuildManifest(tensors, policy, layer_order, budget) ==
    LET groups == GroupsOf(tensors)
        order  == LayerSequence(LayerCount(tensors), layer_order)
        all(selected, component) ==
            FoldLeft(LAMBDA s, layer : AddPackage(groups, s, layer, component, budget), selected, order)
        one == FoldLeft(LAMBDA s, layer : IF s = <<>> THEN AddPackage(groups, s, layer, "ffn", budget) ELSE s,
                        <<>>, order)
    IN  CASE policy = "ffn-sentinel"       -> all(<<>>, "ffn")
          [] policy = "attention-sentinel" -> all(<<>>, "attention")
          [] policy = "hybrid"             -> all(all(one, "attention"), "ffn")

\* build_debug_tensor_filters(): the components whose graph nodes are watched, layer by layer.
DebugTensorFilters(selected) ==
    {k \in {KeyOf(selected[i]) : i \in DOMAIN selected} : k[2] \in {"attention", "ffn"}}

-----------------------------------------------------------------------------
(* sage_verifier_plan.py: the smallest first, up to the first that is too     *)
(* large.                                                                     *)
SmallestThatFit(sizes, budget) ==
    LET sorted == Sorted(sizes, LAMBDA a, b : a < b)
        total(n) == SumOf(LAMBDA b : b, SubSeq(sorted, 1, n))
    IN  CHOOSE n \in 0 .. Len(sorted) :
            /\ n > 0 => total(n) <= budget
            /\ n < Len(sorted) => total(n + 1) > budget

SizesOf(groups, component) ==
    LET some == SelectSeq(groups, LAMBDA g : g.component = component) IN [i \in DOMAIN some |-> some[i].n_bytes]

\* The bytes of every layer, without what stands outside the layers.
LayerSizes(groups) ==
    LET layers == InOrder({groups[i].layer : i \in DOMAIN groups} \ {NoLayer}, <)
    IN  [k \in DOMAIN layers |-> BytesOf(SelectSeq(groups, LAMBDA g : g.layer = layers[k]))]

ComponentFits(groups, budget) ==
    [c \in {groups[i].component : i \in DOMAIN groups} |-> SmallestThatFit(SizesOf(groups, c), budget)]

FullLayersFit(groups, budget) == SmallestThatFit(LayerSizes(groups), budget)

\* policy_fit()
PolicyFit(tensors, budget, policy) ==
    MakePlan(tensors, [budget |-> budget, policy |-> policy, boundary_layers |-> 4, global_mode |-> "none",
                       ffn_min |-> 0, attention_max |-> 100])

\* min_combo_budgets(): the least bytes of some combinations; those the model does not have are left out.
MinComboBudgets(groups) ==
    LET sorted(s) == Sorted(s, LAMBDA a, b : a < b)
        ffn == sorted(SizesOf(groups, "ffn"))  attention == sorted(SizesOf(groups, "attention"))
        layers == sorted(LayerSizes(groups))
        combo(name, present, n_bytes) == IF present THEN {[name |-> name, n_bytes |-> n_bytes]} ELSE {}
    IN  combo("one_ffn_group", ffn # <<>>, ffn[1])
        \cup combo("one_attention_group", attention # <<>>, attention[1])
        \cup combo("three_attention_groups", Len(attention) >= 3, attention[1] + attention[2] + attention[3])
        \cup combo("one_ffn_plus_one_attention", ffn # <<>> /\ attention # <<>>, ffn[1] + attention[1])
        \cup combo("one_full_layer", layers # <<>>, layers[1])

-----------------------------------------------------------------------------
(* sage_reduced_page_quality_probe.py.  A capture is a sequence of scored     *)
(* tensors [name, rows], the rows [row, score] with the best ones first.      *)
ScoredRows(scored) ==
    FoldLeft(LAMBDA all, t : all \o [i \in DOMAIN t.rows |-> [name |-> t.name] @@ t.rows[i]], <<>>, scored)

RowKeys(rows) == {<<rows[i].name, rows[i].row>> : i \in DOMAIN rows}

\* global_top_rows(): the rows of all tensors by the magnitude of their scores.
GlobalTopRows(scored, n) == FirstOf(Sorted(ScoredRows(scored), LAMBDA a, b : Abs(a.score) > Abs(b.score)), n)

TensorRows(scored, name) == (SelectSeq(scored, LAMBDA t : t.name = name)[1]).rows

QualityProbe(full, reduced, same_activation, opt) ==
    LET names(scored) == {scored[i].name : i \in DOMAIN scored}
        shared    == SetToSeq(names(full) \cap names(reduced))
        top(scored, name) == LET first == FirstOf(TensorRows(scored, name), opt.top_k)
                             IN  [i \in DOMAIN first |-> first[i].row]
        set(s)    == {s[i] : i \in DOMAIN s}
        top1      == CountOf(shared, LAMBDA t : /\ top(full, t) # <<>> /\ top(reduced, t) # <<>>
                                                /\ top(full, t)[1] = top(reduced, t)[1])
        size(t)   == AtLeastOne(Cardinality(set(top(full, t))))
        common(t) == Cardinality(set(top(full, t)) \cap set(top(reduced, t)))
        product   == FoldLeft(LAMBDA p, t : p * size(t), 1, shared)
        overlap   == SumOf(LAMBDA t : common(t) * (product \div size(t)), shared)
        delta     == MostOf(LAMBDA r : MostOf(LAMBDA q : IF q.name = r.name /\ q.row = r.row THEN Abs(r.score - q.score) ELSE 0,
                                              ScoredRows(reduced)), ScoredRows(full))
        best      == GlobalTopRows(full, opt.top_n)
        retained  == CountOf(best, LAMBDA r : <<r.name, r.row>> \in RowKeys(ScoredRows(reduced)))
    IN  [shared_scored_tensors |-> Len(shared), shared_top1_matches |-> top1, full_rows |-> Len(best),
         retained_rows |-> retained, max_delta |-> delta,
         reduced_signal_consistent |->
            /\ same_activation
            /\ shared # <<>>
            /\ top1 * opt.min_top1.den >= opt.min_top1.num * Len(shared)
            /\ overlap * opt.min_overlap.den >= opt.min_overlap.num * product * Len(shared)
            /\ delta <= opt.max_delta,
         selection_needs_optimization |->
            retained * opt.min_retention.den < opt.min_retention.num * AtLeastOne(Len(best))]
================================================================================
