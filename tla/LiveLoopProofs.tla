---------------------------- MODULE LiveLoopProofs ----------------------------
(* For any number of tokens, whatever fails and whoever shares the port: two  *)
(* models are never in memory together unless the run was told so, the run is *)
(* a SelectedText, and a replay of it decides as it did.                      *)
EXTENDS LiveLoop, SequenceTheorems, TLAPS

(* What the program counter says of the processes, as long as nothing failed: *)
(* a server that lives is held or awaited, a verifier is awaited, and once    *)
(* something failed no process is started any more.                           *)
Awaited(p) == pc = "wait" /\ waiting.role = p

ProcessesKnown ==
    /\ failed => pc \in {"finish_oracle", "finally", "finally_oracle", "ended"}
    /\ ~failed /\ Alive("proxy") => proxy_server \/ Awaited("proxy")
    /\ ~failed /\ Alive("oracle") => oracle_server \/ Awaited("oracle")
    /\ ~failed /\ Alive("verifier") => pc = "wait_child"
    /\ Alive("oracle") => ~conf.same_model

ServersHeld ==
    /\ oracle_server => ~proxy_server /\ pc \in {"ask_oracle", "finish_oracle", "finally", "finally_oracle", "ended"}
    /\ pc = "start_oracle" \/ Awaited("oracle") => ~proxy_server /\ ~conf.oracle_base_url /\ ~conf.same_model
    /\ Awaited("oracle") => waiting.next = "ask_oracle"
    /\ Awaited("proxy") => ~proxy_server /\ ~conf.proxy_base_url
    /\ Awaited("proxy") /\ waiting.next = "ask_oracle" => conf.same_model
    /\ pc = "ask_oracle" => conf.oracle_base_url \/ conf.same_model \/ oracle_server
    /\ pc = "wait_child" /\ conf.pause => ~proxy_server

Running(p) == procs[p] \in {"starting", "ready"}

Leftovers ==
    ~interrupted =>
        /\ Running("proxy") => proxy_server \/ Awaited("proxy")
        /\ Running("oracle") => oracle_server \/ Awaited("oracle")
        /\ Running("verifier") => pc = "wait_child"
        /\ pc = "finally_oracle" => ~proxy_server
        /\ pc = "ended" => \A p \in Role : ~Running(p)

(* What the step at hand has found: answers to the text as it is, and a       *)
(* verdict exactly where a verifier was asked.                                *)
Shown(a, models) == a.by \in models \cup {"foreign"} /\ a.at = TextLength
Oracles == IF conf.same_model THEN {"proxy", "oracle"} ELSE {"oracle"}
Asking  == pc = "ask_proxy" \/ (Awaited("proxy") /\ waiting.next = "ask_proxy")
Judging == pc \in {"verify", "wait_child"}
OracleAsked == pc = "finish_oracle" /\ ~failed
Chosen == InQueryOracle \/ OracleAsked \/ pc = "append"
Action == DecisionOf(step).action

StepKnown ==
    /\ pc \notin {"step", "finally", "finally_oracle", "ended"} => TextLength < Tokens
    /\ Judging \/ Chosen => Shown(step.proxy, {"proxy"})
    /\ Judging \/ InQueryOracle => step.oracle = NoAnswer
    /\ Judging => step.candidate /\ step.gate /\ step.verifier_class
    /\ Asking \/ Judging => step.verdict = NoVerdict /\ step.oracle = NoAnswer
    /\ InQueryOracle \/ OracleAsked => Action = Fallback
    /\ OracleAsked \/ (pc = "append" /\ Action = Fallback) => Shown(step.oracle, Oracles)
    /\ pc = "append" /\ Action # Fallback => step.oracle = NoAnswer
    /\ Chosen => /\ step.gate => step.candidate
                 /\ (step.verdict = NoVerdict) <=> ~(step.gate /\ step.verifier_class)

IInv == TypeOK /\ ProcessesKnown /\ ServersHeld /\ OneModelAtATime /\ Leftovers /\ StepKnown /\ DecidesAsReplay

-----------------------------------------------------------------------------
(* Strings and records that differ.                                           *)
LEMMA Verdicts ==
    /\ NoVerdict \notin Written \cup Replaced
    /\ \A v \in Written \cup Replaced : v.action \in {Accept, Fallback}
    /\ \A v \in Replaced : v.action = Fallback
    /\ FallbackFor("verifier_process_timeout") \in Replaced
    /\ FallbackFor("missing_verifier_decision") \in Replaced
    /\ FallbackFor("verifier_process_failed") \in Replaced
<1>1. \A v \in Written : v # NoVerdict
  BY DEF Written, Verdict, NoVerdict, NoDecision, Accept, Fallback
<1>2. \A v \in Written : v.action \in {Accept, Fallback}
  BY DEF Written, Verdict
<1>3. \A v \in Replaced : v # NoVerdict
  BY DEF Replaced, FallbackFor, Verdict, NoVerdict, NoDecision, Accept, Fallback
<1>4. \A v \in Replaced : v.action = Fallback
  BY DEF Replaced, FallbackFor, Verdict
<1> QED BY <1>1, <1>2, <1>3, <1>4 DEF Replaced

-----------------------------------------------------------------------------
(* Processes.  The actions of the host leave every server where it was known  *)
(* to be; nothing lives that did not live before.                             *)
PortTypes ==
    /\ procs \in [Role -> {"none", "starting", "ready", "killed"}]
    /\ port \in {"free", "foreign"} \cup Server
    /\ port \in Server => procs[port] \in {"ready", "killed"}

LEMMA PortKept ==
    ASSUME PortTypes,
           \/ UNCHANGED hostVars
           \/ \E p \in Role : Stopped(p) \/ StopTimesOut(p)
           \/ Environment
    PROVE  PortTypes' /\ \A p \in Role : Alive(p)' => Alive(p)
<1>1. CASE UNCHANGED hostVars
  BY <1>1 DEF hostVars, PortTypes, Alive
<1>2. ASSUME NEW p \in Role, Stopped(p) PROVE PortTypes' /\ \A q \in Role : Alive(q)' => Alive(q)
  BY <1>2 DEF Stopped, Released, PortTypes, Alive, Role, Server
<1>3. ASSUME NEW p \in Role, StopTimesOut(p) PROVE PortTypes' /\ \A q \in Role : Alive(q)' => Alive(q)
  BY <1>3 DEF StopTimesOut, PortTypes, Alive, Role, Server
<1>4. CASE Environment
  <2>1. ASSUME NEW p \in Server, Bind(p) PROVE PortTypes' /\ \A q \in Role : Alive(q)' => Alive(q)
    BY <2>1 DEF Bind, PortTypes, Alive, Role, Server
  <2>2. ASSUME NEW p \in Role, Dies(p) PROVE PortTypes' /\ \A q \in Role : Alive(q)' => Alive(q)
    BY <1>2, <2>2 DEF Dies
  <2>3. CASE ForeignBinds \/ ForeignLeaves
    BY <2>3 DEF ForeignBinds, ForeignLeaves, PortTypes, Alive, Server
  <2> QED BY <1>4, <2>1, <2>2, <2>3 DEF Environment
<1> QED BY <1>1, <1>2, <1>3, <1>4

(* Popen() of one process.                                                    *)
LEMMA PopenKept ==
    ASSUME PortTypes, NEW p \in Role, ~Alive(p), Popen(p)
    PROVE  PortTypes' /\ Alive(p)' /\ \A q \in Role : q # p => (Alive(q)' <=> Alive(q))
BY DEF PortTypes, Popen, Alive, Role, Server

(* A process that stop() has seen end.                                        *)
LEMMA StoppedIsGone ==
    ASSUME PortTypes, NEW p \in Role, Stopped(p)
    PROVE  ~Alive(p)'
BY DEF PortTypes, Stopped, Alive
-----------------------------------------------------------------------------
(* Every step leaves the processes known: no server is started while another  *)
(* lives, and none at all once something failed.                              *)
LEMMA ProcessesStep ==
    ASSUME TypeOK, ProcessesKnown, ServersHeld, OneModelAtATime, [Next]_vars
    PROVE  PortTypes' /\ ProcessesKnown' /\ ServersHeld' /\ OneModelAtATime'
<1> USE DEF TypeOK, PortTypes, ProcessesKnown, ServersHeld, OneModelAtATime, Awaited, Alive, Role, Server
<1> USE DEF Stopped, StopTimesOut, Released, Popen, Raise, Goto, InQueryOracle, hostVars
<1>1. CASE BeginStep
  BY <1>1 DEF BeginStep, ProxyBaseUrl
<1>2. CASE EndLoop
  BY <1>2 DEF EndLoop
<1>3. CASE WaitAnswered
  BY <1>3 DEF WaitAnswered
<1>4. CASE WaitFails
  BY <1>4 DEF WaitFails
<1>5. CASE AskProxy
  BY <1>5 DEF AskProxy
<1>6. CASE AskFails
  BY <1>6 DEF AskFails
<1>7. CASE PauseProxy
  <2>1. CASE Stopped("proxy") /\ proxy_server' = FALSE /\ UNCHANGED <<pc, failed>>
    BY <1>7, <2>1 DEF PauseProxy
  <2>2. CASE StopTimesOut("proxy") /\ Raise /\ UNCHANGED proxy_server
    BY <1>7, <2>2 DEF PauseProxy
  <2> QED BY <1>7, <2>1, <2>2 DEF PauseProxy
<1>8. CASE StartVerifier
  BY <1>8 DEF StartVerifier
<1>9. CASE VerifierEnds
  BY <1>9 DEF VerifierEnds, Judged
<1>10. CASE VerifierTimesOut
  BY <1>10 DEF VerifierTimesOut, Judged
<1>11. CASE OracleBaseUrl
  BY <1>11 DEF OracleBaseUrl, ProxyBaseUrl
<1>12. CASE StartOracle
  BY <1>12 DEF StartOracle
<1>13. CASE AskOracle
  BY <1>13 DEF AskOracle
<1>14. CASE FinishOracleCall
  BY <1>14 DEF FinishOracleCall
<1>15. CASE AppendDecision
  BY <1>15 DEF AppendDecision
<1>16. CASE FinallyProxy
  BY <1>16 DEF FinallyProxy
<1>17. CASE FinallyOracle
  BY <1>17 DEF FinallyOracle
<1>18. CASE WaitInterrupted
  BY <1>18 DEF WaitInterrupted
<1>19. CASE VerifierInterrupted
  BY <1>19 DEF VerifierInterrupted
<1>20. CASE UNCHANGED vars \/ Environment
  BY <1>20, PortKept DEF vars, loopVars, Environment, Bind, Dies, ForeignBinds, ForeignLeaves
<1> QED
  BY <1>1, <1>2, <1>3, <1>4, <1>5, <1>6, <1>7, <1>8, <1>9, <1>10, <1>11, <1>12, <1>13, <1>14, <1>15, <1>16, <1>17, <1>18, <1>19, <1>20 DEF Next, Loop, Interrupt

(* A process that nobody killed is one that somebody still holds or awaits.   *)
LEMMA LeftoversStep ==
    ASSUME TypeOK, ProcessesKnown, ServersHeld, Leftovers, [Next]_vars
    PROVE  Leftovers'
<1> USE DEF TypeOK, ProcessesKnown, ServersHeld, Leftovers, Running, Awaited, Alive, Role, Server
<1> USE DEF Stopped, StopTimesOut, Popen, Raise, Goto, InQueryOracle, hostVars
<1>1. CASE BeginStep
  BY <1>1 DEF BeginStep, ProxyBaseUrl
<1>2. CASE EndLoop
  BY <1>2 DEF EndLoop
<1>3. CASE WaitAnswered
  BY <1>3 DEF WaitAnswered
<1>4. CASE WaitFails
  BY <1>4 DEF WaitFails
<1>5. CASE AskProxy
  BY <1>5 DEF AskProxy
<1>6. CASE AskFails
  BY <1>6 DEF AskFails
<1>7. CASE PauseProxy
  BY <1>7 DEF PauseProxy
<1>8. CASE StartVerifier
  BY <1>8 DEF StartVerifier
<1>9. CASE VerifierEnds
  BY <1>9 DEF VerifierEnds, Judged
<1>10. CASE VerifierTimesOut
  BY <1>10 DEF VerifierTimesOut, Judged
<1>11. CASE OracleBaseUrl
  BY <1>11 DEF OracleBaseUrl, ProxyBaseUrl
<1>12. CASE StartOracle
  BY <1>12 DEF StartOracle
<1>13. CASE AskOracle
  BY <1>13 DEF AskOracle
<1>14. CASE FinishOracleCall
  BY <1>14 DEF FinishOracleCall
<1>15. CASE AppendDecision
  BY <1>15 DEF AppendDecision
<1>16. CASE FinallyProxy
  BY <1>16 DEF FinallyProxy
<1>17. CASE FinallyOracle
  BY <1>17 DEF FinallyOracle
<1>18. CASE WaitInterrupted
  BY <1>18 DEF WaitInterrupted
<1>19. CASE VerifierInterrupted
  BY <1>19 DEF VerifierInterrupted
<1>20. CASE UNCHANGED vars \/ Environment
  BY <1>20 DEF vars, loopVars, Environment, Bind, Dies, ForeignBinds, ForeignLeaves
<1> QED
  BY <1>1, <1>2, <1>3, <1>4, <1>5, <1>6, <1>7, <1>8, <1>9, <1>10, <1>11, <1>12, <1>13, <1>14, <1>15, <1>16, <1>17, <1>18, <1>19, <1>20 DEF Next, Loop, Interrupt

-----------------------------------------------------------------------------
(* Every variable of the loop keeps its type.                                 *)
LEMMA DecisionsTyped ==
    ASSUME step \in Step, Action \in {Accept, Fallback}
    PROVE  DecisionOf(step) \in ADecision
BY DEF Action, DecisionOf, Step, ADecision, Reason

ServerTypes ==
    /\ proxy_server \in BOOLEAN /\ (proxy_server => ~conf.proxy_base_url)
    /\ oracle_server \in BOOLEAN /\ (oracle_server => ~conf.oracle_base_url /\ ~conf.same_model)

LEMMA ServerTypesStep ==
    ASSUME ServerTypes, UNCHANGED conf, proxy_server' \in {proxy_server, FALSE}, oracle_server' \in {oracle_server, FALSE}
    PROVE  ServerTypes'
<1>1. proxy_server' \in BOOLEAN /\ (proxy_server' => ~conf.proxy_base_url)
  <2>1. CASE proxy_server' = FALSE
    BY <2>1
  <2>2. CASE proxy_server' = proxy_server
    BY <2>2 DEF ServerTypes
  <2> QED BY <2>1, <2>2
<1>2. oracle_server' \in BOOLEAN /\ (oracle_server' => ~conf.oracle_base_url /\ ~conf.same_model)
  <2>1. CASE oracle_server' = FALSE
    BY <2>1
  <2>2. CASE oracle_server' = oracle_server
    BY <2>2 DEF ServerTypes
  <2> QED BY <2>1, <2>2
<1> QED BY <1>1, <1>2 DEF ServerTypes

LEMMA TypesStep ==
    ASSUME TypeOK, ServersHeld, StepKnown, PortTypes', [Next]_vars
    PROVE  TypeOK'
<1> USE TokensAssumption, Verdicts DEF TypeOK, PortTypes, ServerTypes, Label, Server, Role
<1> USE DEF Stopped, StopTimesOut, Popen, Raise, Goto, hostVars, TextLength
<1>1. CASE BeginStep
  BY <1>1 DEF BeginStep, ProxyBaseUrl, Step, Answer, AVerdict, NoStep, NoAnswer, NoVerdict
<1>2. CASE EndLoop
  BY <1>2 DEF EndLoop
<1>3. CASE WaitAnswered
  <2>1. ServerTypes'
    BY <1>3 DEF WaitAnswered, ServersHeld, Awaited
  <2>2. step' \in Step /\ UNCHANGED decisions
    BY <1>3 DEF WaitAnswered
  <2>3. pc' \in Label /\ waiting' \in [role : Server, next : {"ask_proxy", "ask_oracle"}] /\ failed' \in BOOLEAN
    BY <1>3 DEF WaitAnswered
  <2> QED BY <1>3, <2>1, <2>2, <2>3 DEF WaitAnswered
<1>4. CASE WaitFails
  BY <1>4 DEF WaitFails
<1>5. CASE AskProxy
  <2>1. PICK candidate, gate, verifier \in BOOLEAN :
            /\ step' = [step EXCEPT !.proxy = [by |-> ProxyBehindUrl, at |-> TextLength], !.candidate = candidate,
                                    !.gate = candidate /\ gate, !.verifier_class = verifier]
            /\ pc' = (IF candidate /\ gate THEN IF verifier THEN "verify" ELSE "append" ELSE "oracle")
    BY <1>5 DEF AskProxy
  <2>2. [by |-> ProxyBehindUrl, at |-> TextLength] \in Answer
    BY <1>5 DEF AskProxy, Answer, ProxyBehindUrl
  <2>3. (candidate /\ gate) \in BOOLEAN
    OBVIOUS
  <2>4. step' \in Step
    BY <2>1, <2>2, <2>3 DEF Step
  <2>5. pc' \in Label
    BY <2>1
  <2> QED BY <1>5, <2>4, <2>5 DEF AskProxy
<1>6. CASE AskFails
  BY <1>6 DEF AskFails
<1>7. CASE PauseProxy
  BY <1>7 DEF PauseProxy
<1>8. CASE StartVerifier
  BY <1>8 DEF StartVerifier
<1>9. CASE VerifierEnds
  <2>1. ServerTypes'
    BY <1>9, ServerTypesStep DEF VerifierEnds, Judged, Step, AVerdict
  <2>2. step' \in Step /\ UNCHANGED decisions
    <3>1. \A v \in Written \cup Replaced : [step EXCEPT !.verdict = v] \in Step
      BY DEF Step, AVerdict
    <3> QED BY <1>9, <3>1 DEF VerifierEnds, Judged
  <2>3. pc' \in Label /\ waiting' \in [role : Server, next : {"ask_proxy", "ask_oracle"}] /\ failed' \in BOOLEAN
    BY <1>9 DEF VerifierEnds, Judged, Step, AVerdict
  <2> QED BY <1>9, <2>1, <2>2, <2>3 DEF VerifierEnds
<1>10. CASE VerifierTimesOut
  <2>1. ServerTypes'
    BY <1>10, ServerTypesStep DEF VerifierTimesOut, Judged, Step, AVerdict
  <2>2. step' \in Step /\ UNCHANGED decisions
    BY <1>10 DEF VerifierTimesOut, Judged, Step, AVerdict
  <2>3. pc' \in Label /\ waiting' \in [role : Server, next : {"ask_proxy", "ask_oracle"}] /\ failed' \in BOOLEAN
    BY <1>10 DEF VerifierTimesOut, Judged, Step, AVerdict
  <2> QED BY <1>10, <2>1, <2>2, <2>3 DEF VerifierTimesOut
<1>11. CASE OracleBaseUrl
  <2>1. ServerTypes'
    BY <1>11, ServerTypesStep DEF OracleBaseUrl
  <2>2. pc' \in {"ask_oracle", "start_oracle", "finally", "finish_oracle", "wait"}
    BY <1>11 DEF OracleBaseUrl, ProxyBaseUrl
  <2>3. waiting' \in {waiting, [role |-> "proxy", next |-> "ask_oracle"]} /\ failed' \in BOOLEAN
    BY <1>11 DEF OracleBaseUrl, ProxyBaseUrl
  <2> QED BY <1>11, <2>1, <2>2, <2>3 DEF OracleBaseUrl
<1>12. CASE StartOracle
  BY <1>12 DEF StartOracle
<1>13. CASE AskOracle
  BY <1>13 DEF AskOracle, Step, Answer, ProxyBehindUrl, OracleBehindUrl
<1>14. CASE FinishOracleCall
  <2>1. ServerTypes'
    BY <1>14, ServerTypesStep DEF FinishOracleCall
  <2>2. step' \in Step /\ UNCHANGED decisions
    BY <1>14 DEF FinishOracleCall
  <2>3. pc' \in Label /\ waiting' \in [role : Server, next : {"ask_proxy", "ask_oracle"}] /\ failed' \in BOOLEAN
    BY <1>14 DEF FinishOracleCall
  <2> QED BY <1>14, <2>1, <2>2, <2>3 DEF FinishOracleCall
<1>15. CASE AppendDecision
  <2>1. Action \in {Accept, Fallback}
    BY <1>15 DEF AppendDecision, StepKnown, Chosen, InQueryOracle, Step, AVerdict, Action, DecisionOf
  <2>2. Len(decisions) < Tokens
    BY <1>15 DEF AppendDecision, StepKnown
  <2> QED
    BY <1>15, <2>1, <2>2, DecisionsTyped DEF AppendDecision, Step, NoStep, Answer, NoAnswer, AVerdict
<1>16. CASE FinallyProxy
  <2>1. ServerTypes'
    BY <1>16, ServerTypesStep DEF FinallyProxy
  <2>2. step' \in Step /\ UNCHANGED decisions
    BY <1>16 DEF FinallyProxy
  <2>3. pc' \in Label /\ waiting' \in [role : Server, next : {"ask_proxy", "ask_oracle"}] /\ failed' \in BOOLEAN
    BY <1>16 DEF FinallyProxy
  <2> QED BY <1>16, <2>1, <2>2, <2>3 DEF FinallyProxy
<1>17. CASE FinallyOracle
  <2>1. ServerTypes'
    BY <1>17, ServerTypesStep DEF FinallyOracle
  <2>2. step' \in Step /\ UNCHANGED decisions
    BY <1>17 DEF FinallyOracle
  <2>3. pc' \in Label /\ waiting' \in [role : Server, next : {"ask_proxy", "ask_oracle"}] /\ failed' \in BOOLEAN
    BY <1>17 DEF FinallyOracle
  <2> QED BY <1>17, <2>1, <2>2, <2>3 DEF FinallyOracle
<1>18. CASE WaitInterrupted
  BY <1>18 DEF WaitInterrupted
<1>19. CASE VerifierInterrupted
  BY <1>19 DEF VerifierInterrupted
<1>20. CASE UNCHANGED vars \/ Environment
  BY <1>20 DEF vars, loopVars, Environment, Bind, Dies, ForeignBinds, ForeignLeaves
<1> QED
  BY <1>1, <1>2, <1>3, <1>4, <1>5, <1>6, <1>7, <1>8, <1>9, <1>10, <1>11, <1>12, <1>13, <1>14, <1>15, <1>16, <1>17, <1>18, <1>19, <1>20 DEF Next, Loop, Interrupt
-----------------------------------------------------------------------------
(* Whoever answers in the place of a model is a program that is not the run's.*)
LEMMA WhoAnswers ==
    ASSUME TypeOK, ProcessesKnown, ServersHeld
    PROVE  /\ pc = "ask_proxy" /\ ProxyBehindUrl # "free" => ProxyBehindUrl \in {"proxy", "foreign"}
           /\ pc = "ask_oracle" /\ OracleBehindUrl # "free" => OracleBehindUrl \in Oracles \cup {"foreign"}
<1> USE DEF TypeOK, ProcessesKnown, ServersHeld, Alive, Awaited, Server, Role, ProxyBehindUrl, OracleBehindUrl, Oracles
<1>1. pc = "ask_proxy" => port # "oracle"
  OBVIOUS
<1>2. pc = "ask_oracle" /\ conf.same_model => port # "oracle"
  OBVIOUS
<1>3. pc = "ask_oracle" /\ ~conf.same_model /\ ~conf.oracle_base_url => port # "proxy"
  OBVIOUS
<1> QED BY <1>1, <1>2, <1>3

(* What the step at hand has found stays true of it.                          *)
LEMMA StepKnownStep ==
    ASSUME TypeOK, ProcessesKnown, ServersHeld, StepKnown, [Next]_vars
    PROVE  StepKnown'
<1> USE TokensAssumption, Verdicts DEF StepKnown, Shown, Oracles, Asking, Awaited, Judging, OracleAsked, Chosen, Action, InQueryOracle, TextLength, Goto
<1>1. CASE BeginStep
  BY <1>1, WhoAnswers DEF BeginStep, ProxyBaseUrl, TypeOK, Step, DecisionOf, Raise, NoStep, ProcessesKnown
<1>2. CASE EndLoop
  BY <1>2, WhoAnswers DEF EndLoop, TypeOK, Step, DecisionOf, Raise, NoStep, ProcessesKnown
<1>3. CASE WaitAnswered
  <2>1. pc' = waiting.next /\ UNCHANGED <<conf, waiting, step, decisions, failed>> /\ pc = "wait" /\ ~failed
    BY <1>3 DEF WaitAnswered, ProcessesKnown
  <2>2. CASE waiting.next = "ask_proxy"
    <3>1. Asking
      BY <2>1, <2>2 DEF ServersHeld, TypeOK, Server
    <3> QED BY <2>1, <2>2, <3>1
  <2>3. CASE waiting.next = "ask_oracle"
    BY <2>1, <2>3
  <2> QED BY <2>2, <2>3 DEF TypeOK
<1>4. CASE WaitFails
  BY <1>4, WhoAnswers DEF WaitFails, TypeOK, Step, DecisionOf, Raise, NoStep, ProcessesKnown
<1>5. CASE AskProxy
  <2>1. PICK candidate, gate, verifier \in BOOLEAN :
            /\ step' = [step EXCEPT !.proxy = [by |-> ProxyBehindUrl, at |-> TextLength], !.candidate = candidate,
                                    !.gate = candidate /\ gate, !.verifier_class = verifier]
            /\ pc' = (IF candidate /\ gate THEN IF verifier THEN "verify" ELSE "append" ELSE "oracle")
    BY <1>5 DEF AskProxy
  <2>2. /\ step'.proxy = [by |-> ProxyBehindUrl, at |-> TextLength] /\ step'.candidate = candidate
        /\ step'.gate = (candidate /\ gate) /\ step'.verifier_class = verifier
        /\ step'.verdict = step.verdict /\ step'.oracle = step.oracle
    BY <2>1 DEF TypeOK, Step
  <2>3. ProxyBehindUrl \in {"proxy", "foreign"} /\ step.verdict = NoVerdict /\ step.oracle = NoAnswer
    BY <1>5, WhoAnswers DEF AskProxy
  <2>4. Shown(step.proxy, {"proxy"})'
    BY <1>5, <2>2, <2>3 DEF AskProxy
  <2>5. UNCHANGED <<decisions, failed, conf, waiting>> /\ TextLength < Tokens
    BY <1>5 DEF AskProxy
  <2>6. CASE candidate /\ gate /\ verifier
    BY <2>1, <2>2, <2>3, <2>4, <2>5, <2>6
  <2>7. CASE candidate /\ gate /\ ~verifier
    <3>1. pc' = "append" /\ step'.candidate /\ step'.gate /\ ~step'.verifier_class
      BY <2>1, <2>2, <2>7
    <3>2. Action' = Accept /\ Accept # Fallback
      BY <3>1 DEF DecisionOf, Accept, Fallback
    <3>3. step'.verdict = NoVerdict /\ step'.oracle = NoAnswer
      BY <2>2, <2>3
    <3> HIDE DEF Action
    <3> QED BY <3>1, <3>2, <3>3, <2>4, <2>5
  <2>8. CASE ~(candidate /\ gate)
    <3>1. pc' = "oracle" /\ ~step'.gate
      BY <2>1, <2>2, <2>8
    <3>2. Action' = Fallback
      BY <3>1 DEF DecisionOf
    <3>3. step'.verdict = NoVerdict /\ step'.oracle = NoAnswer /\ ~Judging' /\ ~OracleAsked' /\ ~Asking' /\ pc' # "append"
      BY <2>2, <2>3, <3>1
    <3>4. TextLength' < Tokens
      BY <2>5
    <3> HIDE DEF Action
    <3> QED BY <3>1, <3>2, <3>3, <3>4, <2>4
  <2> QED BY <2>6, <2>7, <2>8
<1>6. CASE AskFails
  BY <1>6, WhoAnswers DEF AskFails, TypeOK, Step, DecisionOf, Raise, NoStep, ProcessesKnown
<1>7. CASE PauseProxy
  BY <1>7, WhoAnswers DEF PauseProxy, TypeOK, Step, DecisionOf, Raise, NoStep, ProcessesKnown
<1>8. CASE StartVerifier
  BY <1>8, WhoAnswers DEF StartVerifier, TypeOK, Step, DecisionOf, Raise, NoStep, ProcessesKnown
<1>9. CASE VerifierEnds
  BY <1>9, WhoAnswers DEF VerifierEnds, Judged, TypeOK, Step, DecisionOf, Raise, NoStep, ProcessesKnown
<1>10. CASE VerifierTimesOut
  BY <1>10, WhoAnswers DEF VerifierTimesOut, Judged, TypeOK, Step, DecisionOf, Raise, NoStep, ProcessesKnown
<1>11. CASE OracleBaseUrl
  BY <1>11, WhoAnswers DEF OracleBaseUrl, ProxyBaseUrl, TypeOK, Step, DecisionOf, Raise, NoStep, ProcessesKnown
<1>12. CASE StartOracle
  BY <1>12, WhoAnswers DEF StartOracle, TypeOK, Step, DecisionOf, Raise, NoStep, ProcessesKnown
<1>13. CASE AskOracle
  BY <1>13, WhoAnswers DEF AskOracle, TypeOK, Step, DecisionOf, Raise, NoStep, ProcessesKnown
<1>14. CASE FinishOracleCall
  BY <1>14, WhoAnswers DEF FinishOracleCall, TypeOK, Step, DecisionOf, Raise, NoStep, ProcessesKnown
<1>15. CASE AppendDecision
  BY <1>15, WhoAnswers DEF AppendDecision, TypeOK, Step, DecisionOf, Raise, NoStep, ProcessesKnown
<1>16. CASE FinallyProxy
  BY <1>16, WhoAnswers DEF FinallyProxy, TypeOK, Step, DecisionOf, Raise, NoStep, ProcessesKnown
<1>17. CASE FinallyOracle
  BY <1>17, WhoAnswers DEF FinallyOracle, TypeOK, Step, DecisionOf, Raise, NoStep, ProcessesKnown
<1>18. CASE WaitInterrupted
  BY <1>18, WhoAnswers DEF WaitInterrupted, TypeOK, Step, DecisionOf, Raise, NoStep, ProcessesKnown
<1>19. CASE VerifierInterrupted
  BY <1>19, WhoAnswers DEF VerifierInterrupted, TypeOK, Step, DecisionOf, Raise, NoStep, ProcessesKnown
<1>20. CASE UNCHANGED vars \/ Environment
  BY <1>20 DEF vars, loopVars, Environment, Bind, Dies, ForeignBinds, ForeignLeaves
<1> QED
  BY <1>1, <1>2, <1>3, <1>4, <1>5, <1>6, <1>7, <1>8, <1>9, <1>10, <1>11, <1>12, <1>13, <1>14, <1>15, <1>16, <1>17, <1>18, <1>19, <1>20 DEF Next, Loop, Interrupt
-----------------------------------------------------------------------------
(* The decisions.  Only AppendDecision adds one, and it adds what the step at *)
(* hand has found.                                                            *)
LEMMA OnlyAppends ==
    ASSUME [Next]_vars, ~AppendDecision
    PROVE  UNCHANGED <<conf, decisions>>
BY DEF Next, Loop, Interrupt, Environment, vars, loopVars, BeginStep, EndLoop, WaitAnswered, WaitFails, AskProxy, AskFails,
       PauseProxy, StartVerifier, VerifierEnds, VerifierTimesOut, OracleBaseUrl, StartOracle, AskOracle, FinishOracleCall,
       FinallyProxy, FinallyOracle, WaitInterrupted, VerifierInterrupted, Bind, Dies, ForeignBinds, ForeignLeaves

LEMMA DecisionReplayed ==
    ASSUME step \in Step, step.gate => step.candidate,
           (step.verdict = NoVerdict) <=> ~(step.gate /\ step.verifier_class)
    PROVE  ReplayedAs(DecisionOf(step))
<1> DEFINE d == DecisionOf(step)
           verdict == IF step.verdict \in Written THEN step.verdict ELSE NoDecision
           r == ReplayRule(step.gate, step.gate /\ step.verifier_class, verdict, "cpp")
<1> SUFFICES ReplayedAs(d)
  OBVIOUS
<1>1. /\ d.verdict = step.verdict /\ d.candidate_eligible = step.candidate /\ d.proxy_gate_accept = step.gate
      /\ d.verifier_needed = (step.gate /\ step.verifier_class)
  BY DEF DecisionOf
<1>2. CASE ~step.candidate
  <2>1. d.action = Fallback
    BY <1>2 DEF DecisionOf
  <2> HIDE DEF d
  <2> QED BY <1>1, <1>2, <2>1 DEF ReplayedAs
<1>3. CASE step.candidate
  <2>1. r.action = d.action /\ (verdict = step.verdict => r.reason = d.reason)
    <3>1. CASE ~step.gate
      BY <1>3, <3>1 DEF DecisionOf, ReplayRule
    <3>2. CASE step.gate /\ ~step.verifier_class
      BY <1>3, <3>2 DEF DecisionOf, ReplayRule
    <3>3. CASE step.gate /\ step.verifier_class
      <4>1. d.action = step.verdict.action /\ d.reason = step.verdict.reason
        BY <1>3, <3>3 DEF DecisionOf
      <4>2. step.verdict \in Written \cup Replaced
        BY <3>3 DEF Step, AVerdict
      <4>3. CASE step.verdict \in Written
        <5>1. verdict = step.verdict /\ verdict # NoDecision
          BY <4>3, Verdicts DEF NoVerdict
        <5> HIDE DEF verdict, d
        <5> QED BY <3>3, <4>1, <5>1 DEF ReplayRule
      <4>4. CASE step.verdict \notin Written
        <5>1. verdict = NoDecision /\ verdict # step.verdict /\ step.verdict.action = Fallback
          BY <4>2, <4>4, Verdicts DEF NoVerdict
        <5> HIDE DEF verdict, d
        <5> QED BY <3>3, <4>1, <5>1 DEF ReplayRule
      <4> QED BY <4>3, <4>4
    <3> QED BY <3>1, <3>2, <3>3 DEF Step
  <2> HIDE DEF d
  <2> QED BY <1>1, <1>3, <2>1 DEF ReplayedAs
<1> QED BY <1>2, <1>3

LEMMA ReplayStep ==
    ASSUME TypeOK, StepKnown, DecidesAsReplay, [Next]_vars
    PROVE  DecidesAsReplay'
<1>1. CASE AppendDecision
  <2> DEFINE d == DecisionOf(step)
  <2>1. d \in ADecision /\ decisions \in Seq(ADecision)
    <3>1. Action \in {Accept, Fallback}
      BY <1>1, Verdicts DEF AppendDecision, StepKnown, Chosen, Step, AVerdict, Action, DecisionOf, TypeOK
    <3> QED BY <3>1, DecisionsTyped DEF TypeOK
  <2>2. ReplayedAs(d)
    BY <1>1, DecisionReplayed DEF AppendDecision, StepKnown, Chosen, TypeOK
  <2>3. decisions' = Append(decisions, d)
    BY <1>1 DEF AppendDecision
  <2> HIDE DEF d
  <2>4. /\ Len(decisions') = Len(decisions) + 1 /\ decisions'[Len(decisions) + 1] = d
        /\ DOMAIN decisions = 1 .. Len(decisions) /\ DOMAIN decisions' = 1 .. Len(decisions')
        /\ \A i \in 1 .. Len(decisions) : decisions'[i] = decisions[i]
    BY <2>1, <2>3, AppendProperties
  <2> QED BY <2>1, <2>2, <2>4, LenProperties DEF DecidesAsReplay
<1>2. CASE ~AppendDecision
  BY <1>2, OnlyAppends DEF DecidesAsReplay
<1> QED BY <1>1, <1>2

-----------------------------------------------------------------------------
(* The invariant.                                                             *)
LEMMA Invariance == Spec => []IInv
<1>1. Init => IInv
  <2> SUFFICES ASSUME Init PROVE IInv
    OBVIOUS
  <2>1. TypeOK
    <3>1. NoAnswer \in Answer /\ NoVerdict \in AVerdict
      BY TokensAssumption DEF Answer, NoAnswer, AVerdict
    <3>2. step \in Step
      BY <3>1 DEF Init, NoStep, Step
    <3>3. decisions \in Seq(ADecision) /\ Len(decisions) <= Tokens
      BY TokensAssumption, EmptySeq DEF Init
    <3>4. procs \in [Role -> {"none", "starting", "ready", "killed"}]
      BY DEF Init
    <3> QED BY <3>2, <3>3, <3>4 DEF Init, TypeOK, Label, Server
  <2>2. ProcessesKnown /\ ServersHeld /\ OneModelAtATime /\ Leftovers
    BY DEF Init, ProcessesKnown, ServersHeld, OneModelAtATime, Leftovers, Running, Alive, Role, Awaited
  <2>3. StepKnown
    BY DEF Init, StepKnown, Judging, Chosen, InQueryOracle, OracleAsked, Asking, Awaited
  <2>4. DecidesAsReplay
    BY DEF Init, DecidesAsReplay
  <2> QED BY <2>1, <2>2, <2>3, <2>4 DEF IInv
<1>2. IInv /\ [Next]_vars => IInv'
  BY ProcessesStep, LeftoversStep, TypesStep, StepKnownStep, ReplayStep DEF IInv
<1> QED BY <1>1, <1>2, PTL DEF Spec

(* Every variable stays in its type, and a server that is held is one that    *)
(* the options ask for.                                                       *)
THEOREM TypeCorrect == Spec => []TypeOK
BY Invariance, PTL DEF IInv

(* EndpointManager and the verifier's process: whatever fails, times out or   *)
(* is interrupted, two models share the memory only where the run was told so.*)
THEOREM OneModelTheorem == Spec => []OneModelAtATime
BY Invariance, PTL DEF IInv

(* endpoints.stop() and the except and finally blocks: unless an interrupt    *)
(* came while a process was awaited, the run leaves none that was not killed. *)
THEOREM NothingLeftTheorem == Spec => []NothingLeft
<1>1. IInv => NothingLeft
  BY DEF IInv, TypeOK, Leftovers, Running, NothingLeft
<1> QED BY <1>1, Invariance, PTL

(* run_live(): a replay of the run's decisions decides as the run did.        *)
THEOREM ReplayTheorem == Spec => []DecidesAsReplay
BY Invariance, PTL DEF IInv

-----------------------------------------------------------------------------
(* The refinement.                                                            *)
Token == [proxy : Answer, oracle : Answer, selected : Answer]

LEMMA TokensTyped ==
    ASSUME NEW d \in ADecision
    PROVE  TokenOf(d) \in Token
BY DEF TokenOf, AsOracle, ADecision, Token, Answer

LEMMA TextGrows ==
    ASSUME decisions \in Seq(ADecision), NEW d \in ADecision, decisions' = Append(decisions, d), UNCHANGED conf
    PROVE  TextSelected' = Append(TextSelected, TokenOf(d)) /\ Len(TextSelected) = Len(decisions)
<1>1. /\ Len(decisions') = Len(decisions) + 1 /\ decisions'[Len(decisions) + 1] = d
      /\ DOMAIN decisions = 1 .. Len(decisions) /\ DOMAIN decisions' = 1 .. Len(decisions')
      /\ \A i \in 1 .. Len(decisions) : decisions'[i] = decisions[i]
      /\ Len(decisions) \in Nat
  BY AppendProperties, LenProperties
<1>2. \A i \in 1 .. Len(decisions) : TokenOf(decisions[i]) \in Token
  BY <1>1, TokensTyped, ElementOfSeq
<1>3. TextSelected \in Seq(Token) /\ Len(TextSelected) = Len(decisions)
  BY <1>1, <1>2, IsASeq DEF TextSelected
<1>4. TextSelected' = [i \in 1 .. Len(decisions) + 1 |-> TokenOf(decisions'[i])]
  BY <1>1 DEF TextSelected, TokenOf, AsOracle
<1> DEFINE longer == Append(TextSelected, TokenOf(d))
<1>5. /\ longer \in Seq(Token) /\ Len(longer) = Len(decisions) + 1 /\ longer[Len(decisions) + 1] = TokenOf(d)
      /\ \A i \in 1 .. Len(decisions) : longer[i] = TextSelected[i]
  BY <1>3, TokensTyped, AppendProperties
<1> HIDE DEF longer
<1>6. longer = [i \in 1 .. Len(decisions) + 1 |-> longer[i]]
  BY <1>5, LenProperties
<1>7. \A i \in 1 .. Len(decisions) + 1 : longer[i] = TokenOf(decisions'[i])
  <2> SUFFICES ASSUME NEW i \in 1 .. Len(decisions) + 1 PROVE longer[i] = TokenOf(decisions'[i])
    OBVIOUS
  <2>1. CASE i = Len(decisions) + 1
    BY <2>1, <1>1, <1>5
  <2>2. CASE i \in 1 .. Len(decisions)
    BY <2>2, <1>1, <1>5 DEF TextSelected
  <2> QED BY <2>1, <2>2, <1>1
<1> QED BY <1>3, <1>4, <1>6, <1>7 DEF longer

LEMMA TextStep ==
    ASSUME IInv, [Next]_vars
    PROVE  [Text!Next]_TextSelected
<1>1. CASE AppendDecision
  <2> DEFINE d == DecisionOf(step)
  <2>1. d \in ADecision
    <3>1. Action \in {Accept, Fallback}
      BY <1>1, Verdicts DEF AppendDecision, IInv, StepKnown, Chosen, Step, AVerdict, Action, DecisionOf, TypeOK
    <3> QED BY <3>1, DecisionsTyped DEF IInv, TypeOK
  <2>2. TextSelected' = Append(TextSelected, TokenOf(d)) /\ Len(TextSelected) = TextLength
    BY <1>1, <2>1, TextGrows DEF AppendDecision, IInv, TypeOK, TextLength
  <2>3. step.proxy \in Text!AnswerOf("proxy")
    BY <1>1, <2>2 DEF AppendDecision, IInv, TypeOK, Step, Answer, StepKnown, Chosen, Shown, Text!AnswerOf
  <2>4. CASE d.action = Fallback
    <3>1. AsOracle(step.oracle) \in Text!AnswerOf("oracle")
      BY <1>1, <2>2, <2>4 DEF AppendDecision, IInv, TypeOK, Step, Answer, StepKnown, Chosen, Shown, Oracles, Action, AsOracle, Text!AnswerOf
    <3>2. TokenOf(d) = [proxy |-> step.proxy, oracle |-> AsOracle(step.oracle), selected |-> AsOracle(step.oracle)]
      BY <2>4 DEF TokenOf, DecisionOf
    <3> QED BY <2>2, <2>3, <3>1, <3>2 DEF Text!Next, Text!FallsBack
  <2>5. CASE d.action # Fallback
    <3>1. step.oracle = NoAnswer /\ AsOracle(NoAnswer) = NoAnswer
      BY <1>1, <2>5 DEF AppendDecision, IInv, StepKnown, Action, AsOracle, NoAnswer
    <3>2. TokenOf(d) = [proxy |-> step.proxy, oracle |-> NoAnswer, selected |-> step.proxy]
      BY <2>5, <3>1 DEF TokenOf, DecisionOf
    <3> QED BY <2>2, <2>3, <3>2 DEF Text!Next, Text!Accepts
  <2> QED BY <2>4, <2>5
<1>2. CASE ~AppendDecision
  BY <1>2, OnlyAppends DEF TextSelected, TokenOf, AsOracle
<1> QED BY <1>1, <1>2

(* The run writes a text: every token was proposed to, and where the oracle's *)
(* stands asked of, all the text before it, and no model's answer is another's.*)
THEOREM TextRefinement == Spec => TextSpec
<1>1. Init => Text!Init
  BY DEF Init, Text!Init, TextSelected
<1>2. IInv /\ [Next]_vars => [Text!Next]_TextSelected
  BY TextStep
<1> QED BY <1>1, <1>2, Invariance, PTL DEF Spec, TextSpec, Text!Spec
================================================================================
