------------------------------ MODULE Projections ------------------------------
(* What speed a run would reach: sage_runtime_projection.py prices scenarios  *)
(* and turns a target speed into limits on the oracle's part, sage_overlap_   *)
(* budget.py and sage_page_cache_budget.py ask what must be hidden or reduced *)
(* to reach the target.                                                       *)
(*                                                                            *)
(* Times are whole milliseconds and a speed is given by its time per token.   *)
(* A rate of calls is given by the calls made in `tokens' tokens, so that a   *)
(* time per token is compared through the time of these tokens.               *)
EXTENDS Tallies

Unlimited == [status |-> "unlimited"]

\* scenario(): the time of all its tokens.
ScenarioTime(s) ==
    s.tokens * (s.proxy_ms + s.extra_ms) + s.verifier_calls * s.verifier_ms + s.oracle_calls * s.oracle_ms

MeetsTarget(s, target_ms) == ScenarioTime(s) > 0 /\ ScenarioTime(s) <= s.tokens * target_ms

\* Faulty: the verifier's calls are not taken off.
RoomWithoutVerifier(s, target_ms) == s.tokens * (target_ms - s.proxy_ms)

\* What the target leaves to the oracle's calls in all the tokens.
RoomForOracle(s, target_ms) == s.tokens * (target_ms - s.proxy_ms) - s.verifier_calls * s.verifier_ms

\* active_limit(): how many percent of the oracle may be active, as the fraction num / den.
ActiveLimit(s, target_ms, compute_ms, fixed_ms, ms_per_percent) ==
    LET room     == RoomForOracle(s, target_ms)
        transfer == room - s.oracle_calls * (compute_ms + fixed_ms)
    IN  IF s.oracle_calls <= 0 THEN Unlimited @@ [feasible |-> TRUE]
        ELSE [status |-> "limited", feasible |-> room > 0 /\ transfer >= 0,
              num |-> IF ms_per_percent > 0 THEN transfer ELSE 0,
              den |-> IF ms_per_percent > 0 THEN s.oracle_calls * ms_per_percent ELSE 1]

\* fallback_limit(): s is a scenario whose verifier is called for every token.
FallbackLimit(s, target_ms) ==
    IF s.oracle_calls <= 0 THEN Unlimited @@ [meets_configured |-> TRUE]
    ELSE [status |-> "limited", num |-> RoomForOracle(s, target_ms), den |-> s.oracle_calls,
          meets_configured |-> s.oracle_ms * s.oracle_calls <= RoomForOracle(s, target_ms)]

-----------------------------------------------------------------------------
(* make_projection()                                                          *)
Scenario(name, tokens, proxy_ms, verifier, oracle, extra_ms) ==
    [name |-> name, tokens |-> tokens, proxy_ms |-> proxy_ms, verifier_calls |-> verifier.calls,
     verifier_ms |-> verifier.ms, oracle_calls |-> oracle.calls, oracle_ms |-> oracle.ms, extra_ms |-> extra_ms]

NoCalls == [calls |-> 0, ms |-> 0]

\* What a total leaves beyond the proxy; when it is not above the proxy's time, all of it again.
BeyondProxy(total, proxy_ms) == IF total > proxy_ms THEN total - proxy_ms ELSE total

MeasuredProxy(live, configured_ms) == IF live.proxy_ms > 0 THEN live.proxy_ms ELSE configured_ms

\* The scenarios that do not depend on a shortlist, from the policy's rates and the live report's times.
BaseScenarios(policy, live, proxy_ms) ==
    LET priced(name, proxy) ==
            Scenario(name, policy.tokens, proxy, policy.verifier, policy.oracle, 0)
        observed(name, total) ==
            Scenario(name, policy.tokens, live.proxy_ms, NoCalls, NoCalls, BeyondProxy(total, live.proxy_ms))
    IN  << observed("live_python_observed", live.elapsed_ms),
           observed("live_no_outer_overhead_same_requests", live.accounted_ms),
           priced("persistent_active_byte_policy", policy.proxy_ms),
           priced("persistent_active_byte_measured_proxy", MeasuredProxy(live, proxy_ms)),
           priced("persistent_active_byte_configured_proxy", proxy_ms) >>

\* The oracle answers of a shortlist miss: exact, the measured sparse replay, its GPU part alone.
FallbackKinds(sparse, exact_ms) ==
    LET measured(kind, ms) == IF ms > 0 THEN << [kind |-> kind, ms |-> ms] >> ELSE <<>>
    IN  << [kind |-> "exact", ms |-> exact_ms] >> \o measured("sparse_replay", sparse.component_ms)
            \o measured("sparse_gpu", sparse.pcie_ms + sparse.kernel_ms)

\* One shortlist: both proxy speeds with every kind of fallback.
ShortlistScenarios(shortlist, live, proxy_ms, sparse, exact_ms) ==
    LET kinds == FallbackKinds(sparse, exact_ms)
        of(label, proxy) == [i \in DOMAIN kinds |->
            Scenario(<<label, kinds[i].kind>>, shortlist.tokens, proxy,
                     [calls |-> shortlist.tokens, ms |-> shortlist.verifier_ms],
                     [calls |-> shortlist.fallbacks, ms |-> kinds[i].ms], 0)]
    IN  of("configured_proxy", proxy_ms) \o of("measured_proxy", MeasuredProxy(live, proxy_ms))

\* The limits on those scenarios, each for the target and the upper target.
ShortlistLimits(shortlist, live, proxy_ms, sparse, exact_ms, targets) ==
    LET scenarios == ShortlistScenarios(shortlist, live, proxy_ms, sparse, exact_ms)
    IN  [i \in DOMAIN scenarios |-> [t \in DOMAIN targets |-> FallbackLimit(scenarios[i], targets[t])]]

\* --use-live-proxy: the measured proxy time replaces the configured one when there is one.
ProxyTime(live, configured_ms, use_live) ==
    IF use_live /\ live.proxy_ms > 0 THEN live.proxy_ms ELSE configured_ms

ActiveLimits(policy, live, proxy_ms, targets, compute_ms, fixed_ms, ms_per_percent) ==
    LET limit(proxy, target) ==
            ActiveLimit(Scenario("limit", policy.tokens, proxy, policy.verifier, policy.oracle, 0),
                        target, compute_ms, fixed_ms, ms_per_percent)
    IN  << limit(MeasuredProxy(live, proxy_ms), targets[1]), limit(proxy_ms, targets[1]), limit(proxy_ms, targets[2]) >>

-----------------------------------------------------------------------------
(* sage_overlap_budget.py: `full' and `gpu' are scenarios of a projection     *)
(* that differ in the time of a fallback; `target' is an answer time, `floor' *)
(* a slower one that must be met already.                                     *)
\* The GPU time of a fallback that must be hidden, times the calls.
HiddenTime(s, target_ms) ==
    IF s.oracle_calls > 0 THEN NotNegative(s.oracle_calls * s.oracle_ms - RoomForOracle(s, target_ms))
    ELSE s.oracle_ms

ProxyReduction(s, target_ms) ==         \* in all the tokens
    NotNegative(s.tokens * s.proxy_ms
                - (s.tokens * target_ms - s.tokens * s.verifier_ms - s.oracle_calls * s.oracle_ms))

OverlapBudget(full, gpu, sparse, target, opt) ==
    [required_hidden_ms |-> HiddenTime(gpu, target), required_proxy_ms |-> ProxyReduction(gpu, target),
     overlap_target_passed |->
        /\ MeetsTarget(full, opt.floor_ms)
        /\ ~MeetsTarget(full, target)
        /\ ~MeetsTarget(gpu, target)
        /\ HiddenTime(gpu, target) > 0
        /\ HiddenTime(gpu, target) <= AtLeastOne(gpu.oracle_calls) * (sparse.pcie_ms + sparse.kernel_ms)
        /\ ProxyReduction(gpu, target) <= gpu.tokens * opt.max_proxy_reduction_ms
        /\ sparse.component_replay_complete
        /\ ~sparse.transformer_integrated]

-----------------------------------------------------------------------------
(* sage_page_cache_budget.py: the fallback is a replay of the page cache,     *)
(* which takes replay.ms for replay.n_bytes.                                  *)
PageCacheEvidence(replay) ==
    /\ replay.ms > 0
    /\ replay.n_bytes > 0
    /\ replay.saves_host_read
    /\ replay.stage_byte_match
    /\ replay.byte_budget_respected
    /\ replay.resident
    /\ ~replay.transformer

\* The bytes that the target allows to be active, as the fraction num / den; 0 when nothing is left for them.
MaxActive(s, replay, target_ms) ==
    LET room == RoomForOracle(s, target_ms)
    IN  IF replay.ms > 0 /\ replay.n_bytes > 0 /\ room > 0
        THEN [num |-> room * replay.n_bytes, den |-> s.oracle_calls * replay.ms]
        ELSE [num |-> 0, den |-> 1]

\* With no fallback calls the allowed bytes are infinite, and their conversion to an integer fails.
PageCacheBudget(scenario, replay, target_ms, floor_ms) ==
    LET s    == [scenario EXCEPT !.oracle_ms = replay.ms, !.extra_ms = 0]
        most == MaxActive(s, replay, target_ms)
        identified == /\ MeetsTarget(s, floor_ms)
                      /\ ~MeetsTarget(s, target_ms)
                      /\ PageCacheEvidence(replay)
                      /\ most.num > 0
                      /\ most.num < replay.n_bytes * most.den
        meets == /\ MeetsTarget(s, target_ms)
                 /\ PageCacheEvidence(replay)
                 /\ most.num >= replay.n_bytes * most.den
    IN  IF s.oracle_calls <= 0 /\ replay.ms > 0 /\ replay.n_bytes > 0 THEN Failure
        ELSE [status |-> "budgeted", max_active |-> most,
              max_active_bytes |-> most.num \div most.den,
              required_reduction |-> NotNegative(replay.n_bytes - most.num \div most.den),
              reduction_target_identified |-> identified, measured_plan_meets_target |-> meets,
              budget_target_passed |-> identified \/ meets]

-----------------------------------------------------------------------------
(* sage_simulate.py and sage_budget.py.  Speeds and sizes are given by times: *)
(* per token, and per percent of the oracle that is transferred.  `calls'     *)
(* calls are made in `tokens' tokens.                                         *)
SimulateRow(o, calls, active_percent) ==
    LET oracle_ms == active_percent * o.ms_per_percent + o.compute_ms + o.fixed_ms
    IN  [expected_ms |-> o.tokens * o.proxy_ms + calls * oracle_ms,
         meets_target |-> o.tokens * o.proxy_ms + calls * oracle_ms <= o.tokens * o.target_ms]

SimulateRows(o, calls, active_percents) == {SimulateRow(o, c, a) : c \in calls, a \in active_percents}

\* compute_budget(): of the target's time a share of `fraction' percent may go into transfers.
ComputeBudget(o, calls, fraction) ==
    IF calls <= 0 \/ calls > o.tokens \/ fraction <= 0 \/ fraction > 100 THEN Failure
    ELSE [status |-> "budgeted",
          max_active |-> [num |-> o.tokens * o.target_ms * fraction, den |-> 100 * calls * o.ms_per_percent],
          dense_streaming_meets_target |-> 100 * o.ms_per_percent <= o.target_ms,
          dense_weights_fit |-> o.dense_bytes + o.overhead_bytes + o.kv_bytes <= o.vram_bytes]
================================================================================
