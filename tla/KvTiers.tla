-------------------------------- MODULE KvTiers --------------------------------
(* The tiered key-value cache of the oracle: recent tokens and sinks stay hot *)
(* in full precision, older ones are quantized (warm), the rest are summaries *)
(* (cold).  sage_kv_ledger.py plans the tiers of a context, sage_kv_runtime_  *)
(* ledger.py accounts the tokens of a live trace by them, and sage_kv_tier_   *)
(* smoke.py packs a sample of the warm tier.  A size per token is in bits.    *)
EXTENDS Tallies

CONSTANT ChecksumSize       \* how many checksums there are (2^32 in the code)

ASSUME ChecksumAssumption == ChecksumSize \in Nat \ {0}

\* int(round(bits / 8)): halves go to the even neighbour.
RoundedBytes(bits) ==
    LET whole == bits \div 8  rest == bits % 8
    IN  IF rest > 4 \/ (rest = 4 /\ whole % 2 = 1) THEN whole + 1 ELSE whole

\* tensor_kv_dim(): the largest dimension that is not the hidden one.
TensorKvDim(shape, hidden_dim) ==
    LET others == ToSet(shape) \ {hidden_dim}
    IN  CASE shape = <<>>   -> 0
          [] Len(shape) = 1 -> shape[1]
          [] OTHER -> IF others # {} THEN Max(others) ELSE Last(shape)

\* infer_hidden_dim(): the first dimension of the embedding, else the largest of the first query tensor.
HiddenDim(tensors) ==
    LET named(role) == {i \in DOMAIN tensors : tensors[i].role = role /\ tensors[i].shape # <<>>}
        first(role) == tensors[Min(named(role))].shape
    IN  IF named("embedding") # {} THEN first("embedding")[1]
        ELSE IF named("query") # {} THEN Max(ToSet(first("query")))
        ELSE 0

\* infer_layer_kv_shapes(): the dimension of each layer's keys or values; a later tensor replaces an earlier one.
KvDims(tensors, role, hidden_dim) ==
    LET some == {i \in DOMAIN tensors : tensors[i].role = role}
        last(layer) == tensors[Max({i \in some : tensors[i].layer = layer})]
    IN  [layer \in {tensors[i].layer : i \in some} |-> TensorKvDim(last(layer).shape, hidden_dim)]

\* The value dimension defaults to the key's.
ShapesOf(keys, values) ==
    LET key(layer)   == IF layer \in DOMAIN keys THEN keys[layer] ELSE 0
        shape(layer) == [layer |-> layer, k_dim |-> key(layer),
                         v_dim |-> IF layer \in DOMAIN values THEN values[layer] ELSE key(layer)]
    IN  InOrder({s \in {shape(l) : l \in DOMAIN keys \cup DOMAIN values} : s.k_dim > 0 \/ s.v_dim > 0},
                LAMBDA a, b : a.layer < b.layer)

KvShapes(tensors) ==
    ShapesOf(KvDims(tensors, "key", HiddenDim(tensors)), KvDims(tensors, "value", HiddenDim(tensors)))

\* bytes_per_token(), in bits.
BitsPerToken(shapes, k_bits, v_bits) == SumOf(LAMBDA s : s.k_dim * k_bits + s.v_dim * v_bits, shapes)

-----------------------------------------------------------------------------
(* The plan of a context.                                                     *)
HotTokens(context, opt)  == Smaller(context, opt.hot_recent + opt.sinks)
WarmTokens(context, opt) == Smaller(NotNegative(context - HotTokens(context, opt)), opt.warm_max)
ColdTokens(context, opt) == NotNegative(context - HotTokens(context, opt) - WarmTokens(context, opt))

Tier(name, tokens, bits) == [name |-> name, tokens |-> tokens, bits_per_token |-> bits,
                             total_bytes |-> RoundedBytes(tokens * bits)]

\* model_payload() of sage_kv_ledger.py, for the shapes of a model.
KvLedger(shapes, context, opt) ==
    LET full   == BitsPerToken(shapes, 16, 16)
        tiers  == [hot  |-> Tier("hot", HotTokens(context, opt), full),
                   warm |-> Tier("warm", WarmTokens(context, opt), BitsPerToken(shapes, opt.warm_bits, opt.warm_bits)),
                   cold |-> Tier("cold", ColdTokens(context, opt), opt.cold_dim * opt.cold_bits)]
        total  == tiers.hot.total_bytes + tiers.warm.total_bytes + tiers.cold.total_bytes
        whole  == RoundedBytes(context * full)
    IN  IF shapes = <<>> THEN Failure
        ELSE [status |-> "planned", context |-> context, full_bits |-> full, tiers |-> tiers,
              full_bytes |-> whole, tier_bytes |-> total, saved_bytes |-> NotNegative(whole - total)]

\* make_payload() of sage_kv_ledger.py, from the ledgers of both models: what the live trace is given, and whether the hot tier fits.
KvLedgerPayload(proxy, oracle, context, opt) ==
    IF context <= 0 \/ opt.warm_bits <= 0 \/ opt.cold_bits <= 0 \/ proxy = Failure \/ oracle = Failure
    THEN Failure
    ELSE [status |-> "planned", proxy |-> proxy, oracle |-> oracle,
          hot_fits_budget |-> oracle.tiers.hot.total_bytes <= opt.hot_budget]

-----------------------------------------------------------------------------
(* KVPolicy.account(): the tokens of one step of a live trace.                *)
\* Faulty: the sinks are counted among the recent tokens as well.
AccountSinksTwice(ledger, opt, tokens) ==
    LET recent == Smaller(tokens, opt.hot_recent)
        sinks  == Smaller(tokens, opt.sinks)
        warm   == Smaller(NotNegative(tokens - recent), opt.warm_max)
        cold   == NotNegative(tokens - recent - warm)
        bytes  == RoundedBytes((sinks + recent) * ledger.tiers.hot.bits_per_token)
    IN  [hot_tokens |-> sinks + recent, warm_tokens |-> warm, cold_tokens |-> cold,
         full_bytes |-> RoundedBytes(tokens * ledger.full_bits), hot_bytes |-> bytes,
         warm_bytes |-> 0, cold_bytes |-> 0, tier_bytes |-> bytes, saved_bytes |-> 0]

Account(ledger, opt, tokens) ==
    LET sinks     == Smaller(tokens, opt.sinks)
        remaining == NotNegative(tokens - sinks)
        recent    == Smaller(remaining, opt.hot_recent)
        warm      == Smaller(NotNegative(remaining - recent), opt.warm_max)
        cold      == NotNegative(remaining - recent - warm)
        full_bytes == RoundedBytes(tokens * ledger.full_bits)
        hot_bytes  == RoundedBytes((sinks + recent) * ledger.tiers.hot.bits_per_token)
        warm_bytes == RoundedBytes(warm * ledger.tiers.warm.bits_per_token)
        cold_bytes == RoundedBytes(cold * ledger.tiers.cold.bits_per_token)
        total == hot_bytes + warm_bytes + cold_bytes
    IN  [hot_tokens |-> sinks + recent, warm_tokens |-> warm, cold_tokens |-> cold,
         full_bytes |-> full_bytes, hot_bytes |-> hot_bytes, warm_bytes |-> warm_bytes, cold_bytes |-> cold_bytes,
         tier_bytes |-> total, saved_bytes |-> NotNegative(full_bytes - total)]

\* make_payload() of sage_kv_runtime_ledger.py: the steps of the trace, then the swept context sizes.
RuntimeKvLedger(ledger, opt, steps, sweep) ==
    LET sizes == InOrder({sweep[i] : i \in DOMAIN sweep}
                              \cup (IF opt.include_context_limit THEN {ledger.context} ELSE {}), <)
        of_steps == [i \in DOMAIN steps |-> Account(ledger, opt, steps[i].oracle_kv_tokens)]
        of_sweep == [i \in DOMAIN sizes |-> Account(ledger, opt, sizes[i])]
        rows == of_steps \o of_sweep
    IN  IF ledger.context <= 0 \/ ledger.full_bits <= 0 \/ ledger.tiers.warm.bits_per_token <= 0 THEN Failure
        ELSE [status |-> "accounted", step_rows |-> of_steps, sweep_rows |-> of_sweep,
              fallback_steps |-> CountOf(steps, LAMBDA s : s.action = "oracle_fallback"),
              accept_steps |-> CountOf(steps, LAMBDA s : s.action = "accept_proxy"),
              sweep_exercises_warm |-> \E i \in DOMAIN of_sweep : of_sweep[i].warm_tokens > 0,
              max_full_bytes |-> MostOf(LAMBDA r : r.full_bytes, rows),
              max_tier_bytes |-> MostOf(LAMBDA r : r.tier_bytes, rows),
              max_warm_bytes |-> MostOf(LAMBDA r : r.warm_bytes, rows)]

-----------------------------------------------------------------------------
(* The same estimate in llama-sage-dual-live (patch 0014), which takes the    *)
(* sizes from the model's header and rounds halves up.                        *)
\* estimate_f16_kv_bytes_per_token(), in bits: the dimension of keys and values is rounded up.
CppBitsPerToken(n_layer, n_embd, n_head, n_head_kv) ==
    IF 0 \in {n_layer, n_embd, n_head, n_head_kv} THEN 0
    ELSE n_layer * ((n_embd * n_head_kv + n_head - 1) \div n_head) * 2 * 16

\* round_to_u64()
CppRoundedBytes(bits) == (bits + 4) \div 8

\* estimate_tiered_kv_bytes()
CppAccount(n_tokens, full_bits, opt) ==
    LET tokens    == NotNegative(n_tokens)
        sinks     == Smaller(tokens, NotNegative(opt.sinks))
        remaining == NotNegative(tokens - sinks)
        recent    == Smaller(remaining, NotNegative(opt.hot_recent))
        warm      == Smaller(NotNegative(remaining - recent), NotNegative(opt.warm_max))
        cold      == NotNegative(remaining - recent - warm)
        hot_bytes  == CppRoundedBytes((sinks + recent) * full_bits)
        warm_bytes == CppRoundedBytes((warm * full_bits * AtLeastOne(opt.warm_bits)) \div 16)
        cold_bytes == CppRoundedBytes(cold * NotNegative(opt.cold_dim) * AtLeastOne(opt.cold_bits))
    IN  [hot_tokens |-> sinks + recent, warm_tokens |-> warm, cold_tokens |-> cold,
         full_bytes |-> CppRoundedBytes(tokens * full_bits),
         hot_bytes |-> hot_bytes, warm_bytes |-> warm_bytes, cold_bytes |-> cold_bytes,
         tier_bytes |-> hot_bytes + warm_bytes + cold_bytes]

-----------------------------------------------------------------------------
(* sage_kv_tier_smoke.py: two bits of every 16-bit value, four to a byte.  A  *)
(* value is given by the code its upper byte ends in.                         *)
PackedBytes(n_values) == (n_values + 3) \div 4

\* pack_2bit_from_fp16_bytes(): the packed bytes and the checksum of codes and positions.
Pack(codes) ==
    LET lane(i, k) == IF 4 * (i - 1) + k <= Len(codes) THEN codes[4 * (i - 1) + k] ELSE 0
    IN  [packed |-> [i \in 1 .. PackedBytes(Len(codes)) |->
                        lane(i, 1) + 4 * lane(i, 2) + 16 * lane(i, 3) + 64 * lane(i, 4)],
         checksum |-> SumOf(LAMBDA i : codes[i] + i - 1, [i \in DOMAIN codes |-> i]) % ChecksumSize]

\* unpack_2bit_codes()
Unpack(packed, n_values) ==
    LET n == Smaller(n_values, 4 * Len(packed))
        code(i) == (packed[((i - 1) \div 4) + 1] \div 4^((i - 1) % 4)) % 4
    IN  [codes |-> [i \in 1 .. n_values |-> IF i <= n THEN code(i) ELSE 0],
         checksum |-> SumOf(LAMBDA i : code(i) + i - 1, [i \in 1 .. n |-> i]) % ChecksumSize]

\* The two CUDA kernels: one thread per packed byte, one thread per value.
KernelPack(codes, grid, block) ==
    [i \in 1 .. Smaller(grid * block, PackedBytes(Len(codes))) |->
        SumOf(LAMBDA k : IF 4 * (i - 1) + k <= Len(codes) THEN codes[4 * (i - 1) + k] * 4^(k - 1) ELSE 0,
              <<1, 2, 3, 4>>)]
KernelUnpack(packed, n_values, grid, block) ==
    [i \in 1 .. Smaller(grid * block, n_values) |-> (packed[((i - 1) \div 4) + 1] \div 4^((i - 1) % 4)) % 4]

GridFor(n, block) == (n + block - 1) \div block

\* make_payload() of sage_kv_tier_smoke.py: the tiers by the rounded bytes of one token.
TierSmoke(shapes, context, opt, sample_tokens) ==
    LET full   == RoundedBytes(BitsPerToken(shapes, 16, 16))
        packed == RoundedBytes(BitsPerToken(shapes, opt.warm_bits, opt.warm_bits))
        warm   == WarmTokens(context, opt)
        sample == Smaller(sample_tokens, AtLeastOne(IF warm > 0 THEN warm ELSE sample_tokens))
        values == (sample * full) \div 2
    IN  IF opt.warm_bits # 2 \/ sample_tokens <= 0 \/ context <= 0 \/ shapes = <<>> THEN Failure
        ELSE [status |-> "measured", hot_tokens |-> HotTokens(context, opt), warm_tokens |-> warm,
              cold_tokens |-> ColdTokens(context, opt), sample_values |-> values,
              sample_packed_bytes |-> PackedBytes(values), planned_sample_bytes |-> sample * packed,
              warm_bytes |-> warm * packed, tier_bytes |-> HotTokens(context, opt) * full + warm * packed]
================================================================================
