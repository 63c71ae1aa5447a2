------------------------------- MODULE LiveLoop -------------------------------
(* One run of sage_live_loop.py: every token is proposed by a small proxy     *)
(* model, accepted by a gate, in some classes checked by a verifier process,  *)
(* and otherwise asked of the large oracle model.  Models that have no URL of *)
(* their own are served by processes the run starts: one port, and so little  *)
(* memory that only one of them may live at a time.  Starts, requests, waits  *)
(* and kills fail, processes die, the user interrupts, and other programs     *)
(* bind the port whenever it is free.                                         *)
EXTENDS DecisionPolicy

CONSTANTS
    Tokens,             \* --tokens
    ForeignServers      \* may other programs listen on the run's port?

ASSUME TokensAssumption == Tokens \in Nat /\ ForeignServers \in BOOLEAN

VARIABLES
    conf,               \* the options: external URLs, same model twice, pause_proxy_for_verifier
    pc,
    waiting,            \* the server whose /health is awaited, and what comes after it
    proxy_server,       \* EndpointManager: is a ManagedServer held?
    oracle_server,
    step,               \* the step at hand: the proxy's answer, the verdict, the oracle's answer
    decisions,
    failed,             \* an exception is on its way out
    procs,              \* the processes started by the run
    port,               \* who listens on the run's port
    interrupted         \* (history) an interrupt came while a process was awaited

loopVars == <<conf, pc, waiting, proxy_server, oracle_server, step, decisions, failed, interrupted>>
hostVars == <<procs, port>>
vars     == <<loopVars, hostVars>>

Role   == {"proxy", "oracle", "verifier"}
Server == {"proxy", "oracle"}
Alive(p) == procs[p] # "none"

\* What the verifier process writes (patch 0007), or what stands for it when it does not.
Verdict(action, reason, covered) == [action |-> action, reason |-> reason, verifier_covered |-> covered]
Written ==
    {Verdict(Fallback, "proxy_gate_reject", FALSE), Verdict(Accept, "proxy_gate_non_verifier_class", FALSE),
     Verdict(Fallback, "missing_runtime_signal", FALSE), Verdict(Accept, "runtime_verifier_accept", TRUE),
     Verdict(Fallback, "runtime_verifier_reject", TRUE)}
FallbackFor(reason) == Verdict(Fallback, reason, FALSE)
Replaced == {FallbackFor(r) : r \in {"verifier_process_timeout", "verifier_process_failed",
                                     "missing_verifier_decision"}}
NoVerdict == NoDecision

\* An answer: the model that gave it and the text it was asked to continue (its length).
NoAnswer == [by |-> "none", at |-> 0]
NoStep == [proxy |-> NoAnswer, candidate |-> FALSE, gate |-> FALSE, verifier_class |-> FALSE,
           verdict |-> NoVerdict, oracle |-> NoAnswer]
TextLength == Len(decisions)

Init ==
    /\ conf \in [proxy_base_url : BOOLEAN, oracle_base_url : BOOLEAN, same_model : BOOLEAN, pause : BOOLEAN]
    /\ pc = "step"
    /\ waiting = [role |-> "proxy", next |-> "ask_proxy"]
    /\ proxy_server = FALSE
    /\ oracle_server = FALSE
    /\ step = NoStep
    /\ decisions = <<>>
    /\ failed = FALSE
    /\ interrupted = FALSE
    /\ procs = [p \in Role |-> "none"]
    /\ port = "free"

-----------------------------------------------------------------------------
(* Processes.                                                                 *)
Released(p) == IF port = p THEN "free" ELSE port

\* kill() and a wait that sees the process end; a process that is gone already is fine.
Stopped(p) ==
    /\ procs' = [procs EXCEPT ![p] = "none"]
    /\ port' = Released(p)

\* kill(), and wait(timeout=30) gives up: the process is still there.
StopTimesOut(p) ==
    /\ Alive(p)
    /\ procs' = [procs EXCEPT ![p] = "killed"]
    /\ UNCHANGED port

Popen(p) == procs' = [procs EXCEPT ![p] = "starting"] /\ UNCHANGED port

\* A server binds its port, or ends because somebody else has it.
Bind(p) ==
    /\ procs[p] = "starting"
    /\ \/ port = "free" /\ procs' = [procs EXCEPT ![p] = "ready"] /\ port' = p
       \/ port # "free" /\ procs' = [procs EXCEPT ![p] = "none"] /\ UNCHANGED port
    /\ UNCHANGED loopVars

Dies(p) == Alive(p) /\ Stopped(p) /\ UNCHANGED loopVars

ForeignBinds  == ForeignServers /\ port = "free" /\ port' = "foreign" /\ UNCHANGED <<loopVars, procs>>
ForeignLeaves == port = "foreign" /\ port' = "free" /\ UNCHANGED <<loopVars, procs>>

-----------------------------------------------------------------------------
(* EndpointManager                                                            *)
Goto(label) == pc' = label

\* The exception passes the finally block of query_oracle(), when raised inside it.
InQueryOracle ==
    \/ pc \in {"oracle", "start_oracle", "ask_oracle"}
    \/ pc = "wait" /\ waiting.next = "ask_oracle"

Raise == failed' = TRUE /\ Goto(IF InQueryOracle THEN "finish_oracle" ELSE "finally")

\* proxy_base_url(): an external URL, the server that runs, or a new one.
ProxyBaseUrl(next) ==
    IF conf.proxy_base_url \/ proxy_server
    THEN Goto(next) /\ UNCHANGED <<hostVars, waiting>>
    ELSE Popen("proxy") /\ waiting' = [role |-> "proxy", next |-> next] /\ Goto("wait")

\* wait_for_server(): whoever answers on the port is taken for the server.
WaitAnswered ==
    /\ pc = "wait" /\ port # "free"
    /\ proxy_server' = (proxy_server \/ waiting.role = "proxy")
    /\ oracle_server' = (oracle_server \/ waiting.role = "oracle")
    /\ Goto(waiting.next)
    /\ UNCHANGED <<conf, waiting, step, decisions, failed, interrupted, hostVars>>

\* Faulty: the wait goes on for as long as the process lives.
WaitForEver ==
    /\ pc = "wait" /\ ~Alive(waiting.role)
    /\ Raise
    /\ UNCHANGED <<conf, waiting, proxy_server, oracle_server, step, decisions, interrupted, hostVars>>

\* Faulty: the process is left when its start fails.
WaitFailsAndLeaves ==
    /\ pc = "wait"
    /\ Raise
    /\ UNCHANGED <<conf, waiting, proxy_server, oracle_server, step, decisions, interrupted, hostVars>>

\* start() fails or gives up: the process is stopped, and the exception goes on.
WaitFails ==
    /\ pc = "wait"
    /\ Stopped(waiting.role) \/ StopTimesOut(waiting.role)
    /\ Raise
    /\ UNCHANGED <<conf, waiting, proxy_server, oracle_server, step, decisions, interrupted>>

\* KeyboardInterrupt is no Exception: nobody stops the process that was starting.
WaitInterrupted ==
    /\ pc = "wait"
    /\ Raise
    /\ interrupted' = TRUE
    /\ UNCHANGED <<conf, waiting, proxy_server, oracle_server, step, decisions, hostVars>>

\* Faulty: the proxy's server goes on running beside the oracle's.
OracleBesideProxy ==
    /\ pc = "oracle"
    /\ UNCHANGED <<conf, oracle_server, step, decisions, interrupted, proxy_server, failed>>
    /\ \/ /\ conf.oracle_base_url
          /\ Goto("ask_oracle") /\ UNCHANGED <<waiting, hostVars>>
       \/ /\ ~conf.oracle_base_url /\ conf.same_model /\ ProxyBaseUrl("ask_oracle")
       \/ /\ ~conf.oracle_base_url /\ ~conf.same_model
          /\ Goto("start_oracle") /\ UNCHANGED <<waiting, hostVars>>

\* oracle_base_url(): the proxy's server makes room for the oracle's.
OracleBaseUrl ==
    /\ pc = "oracle"
    /\ UNCHANGED <<conf, oracle_server, step, decisions, interrupted>>
    /\ \/ /\ conf.oracle_base_url
          /\ Goto("ask_oracle") /\ UNCHANGED <<waiting, proxy_server, failed, hostVars>>
       \/ /\ ~conf.oracle_base_url /\ conf.same_model
          /\ ProxyBaseUrl("ask_oracle") /\ UNCHANGED <<proxy_server, failed>>
       \/ /\ ~conf.oracle_base_url /\ ~conf.same_model /\ ~proxy_server
          /\ Goto("start_oracle") /\ UNCHANGED <<waiting, proxy_server, failed, hostVars>>
       \/ /\ ~conf.oracle_base_url /\ ~conf.same_model /\ proxy_server
          /\ UNCHANGED waiting
          /\ \/ Stopped("proxy") /\ proxy_server' = FALSE /\ Goto("start_oracle") /\ UNCHANGED failed
             \/ StopTimesOut("proxy") /\ Raise /\ UNCHANGED proxy_server

StartOracle ==
    /\ pc = "start_oracle"
    /\ Popen("oracle")
    /\ waiting' = [role |-> "oracle", next |-> "ask_oracle"]
    /\ Goto("wait")
    /\ UNCHANGED <<conf, proxy_server, oracle_server, step, decisions, failed, interrupted>>

-----------------------------------------------------------------------------
(* run_live()                                                                 *)
BeginStep ==
    /\ pc = "step" /\ TextLength < Tokens
    /\ step' = NoStep
    /\ ProxyBaseUrl("ask_proxy")
    /\ UNCHANGED <<conf, proxy_server, oracle_server, decisions, failed, interrupted>>

EndLoop ==
    /\ pc = "step" /\ TextLength = Tokens
    /\ Goto("finally")
    /\ UNCHANGED <<conf, waiting, proxy_server, oracle_server, step, decisions, failed, interrupted, hostVars>>

\* The model behind a URL: an external one is what it is said to be.
ProxyBehindUrl  == IF conf.proxy_base_url THEN "proxy" ELSE port
OracleBehindUrl == IF conf.oracle_base_url THEN "oracle"
                   ELSE IF conf.same_model THEN ProxyBehindUrl ELSE port

\* Faulty: a token of a class that is no candidate passes the gate like any other.
AskProxyAnyClass ==
    /\ pc = "ask_proxy" /\ ProxyBehindUrl # "free"
    /\ \E candidate, gate, verifier \in BOOLEAN :
          /\ step' = [step EXCEPT !.proxy = [by |-> ProxyBehindUrl, at |-> TextLength],
                                  !.candidate = candidate, !.gate = gate,
                                  !.verifier_class = verifier]
          /\ Goto(IF gate THEN IF verifier THEN "verify" ELSE "append" ELSE "oracle")
    /\ UNCHANGED <<conf, waiting, proxy_server, oracle_server, decisions, failed, interrupted, hostVars>>

\* The proxy proposes a token of some class; class and gate say what happens to it.
AskProxy ==
    /\ pc = "ask_proxy" /\ ProxyBehindUrl # "free"
    /\ \E candidate, gate, verifier \in BOOLEAN :
          /\ step' = [step EXCEPT !.proxy = [by |-> ProxyBehindUrl, at |-> TextLength],
                                  !.candidate = candidate, !.gate = candidate /\ gate,
                                  !.verifier_class = verifier]
          /\ Goto(IF candidate /\ gate THEN IF verifier THEN "verify" ELSE "append" ELSE "oracle")
    /\ UNCHANGED <<conf, waiting, proxy_server, oracle_server, decisions, failed, interrupted, hostVars>>

\* A request is refused, times out or carries no probabilities.
AskFails ==
    /\ pc \in {"ask_proxy", "ask_oracle"}
    /\ Raise
    /\ UNCHANGED <<conf, waiting, proxy_server, oracle_server, step, decisions, interrupted, hostVars>>

\* pause_proxy_for_child_process(), when asked for, then Popen of the verifier.
PauseProxy ==
    /\ pc = "verify" /\ conf.pause /\ ~conf.proxy_base_url /\ proxy_server
    /\ \/ Stopped("proxy") /\ proxy_server' = FALSE /\ UNCHANGED <<pc, failed>>
       \/ StopTimesOut("proxy") /\ Raise /\ UNCHANGED proxy_server
    /\ UNCHANGED <<conf, waiting, oracle_server, step, decisions, interrupted>>

StartVerifier ==
    /\ pc = "verify" /\ ~(conf.pause /\ ~conf.proxy_base_url /\ proxy_server)
    /\ Popen("verifier")
    /\ Goto("wait_child")
    /\ UNCHANGED <<conf, waiting, proxy_server, oracle_server, step, decisions, failed, interrupted>>

Judged(verdict) ==
    /\ step' = [step EXCEPT !.verdict = verdict]
    /\ Goto(IF verdict.action = Fallback THEN "oracle" ELSE "append")

\* The verifier ends: with a decision, with none, or with an error.
VerifierEnds ==
    /\ pc = "wait_child"
    /\ Stopped("verifier")
    /\ \/ \E v \in Written \cup {FallbackFor("missing_verifier_decision"),
                                 FallbackFor("verifier_process_failed")} : Judged(v) /\ UNCHANGED failed
       \/ Raise /\ UNCHANGED step         \* a decision file that cannot be parsed
    /\ UNCHANGED <<conf, waiting, proxy_server, oracle_server, decisions, interrupted>>

\* The verifier takes too long: it is killed, and once it is gone the oracle decides.
VerifierTimesOut ==
    /\ pc = "wait_child"
    /\ \/ Stopped("verifier") /\ Judged(FallbackFor("verifier_process_timeout")) /\ UNCHANGED failed
       \/ StopTimesOut("verifier") /\ Raise /\ UNCHANGED step
    /\ UNCHANGED <<conf, waiting, proxy_server, oracle_server, decisions, interrupted>>

\* Nothing stops the verifier when the wait for it is interrupted.
VerifierInterrupted ==
    /\ pc = "wait_child"
    /\ Raise
    /\ interrupted' = TRUE
    /\ UNCHANGED <<conf, waiting, proxy_server, oracle_server, step, decisions, hostVars>>

AskOracle ==
    /\ pc = "ask_oracle" /\ OracleBehindUrl # "free"
    /\ step' = [step EXCEPT !.oracle = [by |-> OracleBehindUrl, at |-> TextLength]]
    /\ Goto("finish_oracle")
    /\ UNCHANGED <<conf, waiting, proxy_server, oracle_server, decisions, failed, interrupted, hostVars>>

\* Faulty: the oracle's server is kept for the next question.
KeepOracle ==
    /\ pc = "finish_oracle"
    /\ Goto(IF failed THEN "finally" ELSE "append")
    /\ UNCHANGED <<conf, waiting, proxy_server, oracle_server, failed, step, decisions, interrupted, hostVars>>

\* The finally block of query_oracle().
FinishOracleCall ==
    /\ pc = "finish_oracle"
    /\ \/ /\ ~oracle_server
          /\ Goto(IF failed THEN "finally" ELSE "append") /\ UNCHANGED <<oracle_server, failed, hostVars>>
       \/ /\ oracle_server
          /\ \/ Stopped("oracle") /\ oracle_server' = FALSE /\ Goto(IF failed THEN "finally" ELSE "append") /\ UNCHANGED failed
             \/ StopTimesOut("oracle") /\ failed' = TRUE /\ Goto("finally") /\ UNCHANGED oracle_server
    /\ UNCHANGED <<conf, waiting, proxy_server, step, decisions, interrupted>>

\* Which answer extends the text, with which action and for which reason.
DecisionOf(s) ==
    LET action == CASE ~s.gate -> Fallback [] s.gate /\ ~s.verifier_class -> Accept [] OTHER -> s.verdict.action
        reason == CASE ~s.candidate -> "non_candidate_class"
                    [] s.candidate /\ ~s.gate -> "proxy_gate_reject"
                    [] s.gate /\ ~s.verifier_class -> "proxy_gate_non_verifier_class"
                    [] OTHER -> s.verdict.reason
    IN  [proxy |-> s.proxy, oracle |-> s.oracle, verdict |-> s.verdict,
         candidate_eligible |-> s.candidate, proxy_gate_accept |-> s.gate,
         verifier_needed |-> s.gate /\ s.verifier_class, action |-> action, reason |-> reason,
         selected |-> IF action = Fallback THEN s.oracle ELSE s.proxy]

AppendDecision ==
    /\ pc = "append"
    /\ decisions' = Append(decisions, DecisionOf(step))
    /\ step' = NoStep
    /\ Goto("step")
    /\ UNCHANGED <<conf, waiting, proxy_server, oracle_server, failed, interrupted, hostVars>>

\* endpoints.stop(): the oracle's server is not reached when the proxy's cannot be stopped.
FinallyProxy ==
    /\ pc = "finally"
    /\ \/ ~proxy_server /\ Goto("finally_oracle") /\ UNCHANGED <<proxy_server, failed, hostVars>>
       \/ proxy_server /\ Stopped("proxy") /\ proxy_server' = FALSE /\ Goto("finally_oracle") /\ UNCHANGED failed
       \/ proxy_server /\ StopTimesOut("proxy") /\ failed' = TRUE /\ Goto("ended") /\ UNCHANGED proxy_server
    /\ UNCHANGED <<conf, waiting, oracle_server, step, decisions, interrupted>>

FinallyOracle ==
    /\ pc = "finally_oracle"
    /\ \/ ~oracle_server /\ UNCHANGED <<oracle_server, failed, hostVars>>
       \/ oracle_server /\ Stopped("oracle") /\ oracle_server' = FALSE /\ UNCHANGED failed
       \/ oracle_server /\ StopTimesOut("oracle") /\ failed' = TRUE /\ UNCHANGED oracle_server
    /\ Goto("ended")
    /\ UNCHANGED <<conf, waiting, proxy_server, step, decisions, interrupted>>

Loop ==
    \/ BeginStep \/ EndLoop \/ WaitAnswered \/ WaitFails
    \/ AskProxy \/ AskFails \/ PauseProxy \/ StartVerifier \/ VerifierEnds \/ VerifierTimesOut
    \/ OracleBaseUrl \/ StartOracle \/ AskOracle \/ FinishOracleCall
    \/ AppendDecision \/ FinallyProxy \/ FinallyOracle

Environment ==
    \/ \E p \in Server : Bind(p)
    \/ \E p \in Role : Dies(p)
    \/ ForeignBinds \/ ForeignLeaves

Interrupt == WaitInterrupted \/ VerifierInterrupted

Next == Loop \/ Interrupt \/ Environment

Spec == Init /\ [][Next]_vars

\* Every wait and every request of the run has a timeout.
FairSpec == Spec /\ WF_vars(Loop)

-----------------------------------------------------------------------------
Label == {"step", "wait", "ask_proxy", "verify", "wait_child", "oracle", "start_oracle", "ask_oracle",
          "finish_oracle", "append", "finally", "finally_oracle", "ended"}
Answer  == [by : {"none", "proxy", "oracle", "foreign"}, at : 0 .. Tokens]
AVerdict == Written \cup Replaced \cup {NoVerdict}
Step    == [proxy : Answer, candidate : BOOLEAN, gate : BOOLEAN, verifier_class : BOOLEAN, verdict : AVerdict, oracle : Answer]
Reason  == {"non_candidate_class", "proxy_gate_reject", "proxy_gate_non_verifier_class"} \cup {v.reason : v \in AVerdict}
ADecision == [proxy : Answer, oracle : Answer, verdict : AVerdict, candidate_eligible : BOOLEAN, proxy_gate_accept : BOOLEAN,
              verifier_needed : BOOLEAN, action : {Accept, Fallback}, reason : Reason, selected : Answer]

(* Every variable stays in its type; a server that is held is one the options *)
(* ask for, and only servers listen on the port.                              *)
TypeOK ==
    /\ conf \in [proxy_base_url : BOOLEAN, oracle_base_url : BOOLEAN, same_model : BOOLEAN, pause : BOOLEAN]
    /\ pc \in Label
    /\ waiting \in [role : Server, next : {"ask_proxy", "ask_oracle"}]
    /\ proxy_server \in BOOLEAN /\ (proxy_server => ~conf.proxy_base_url)
    /\ oracle_server \in BOOLEAN /\ (oracle_server => ~conf.oracle_base_url /\ ~conf.same_model)
    /\ step \in Step
    /\ decisions \in Seq(ADecision) /\ Len(decisions) <= Tokens
    /\ failed \in BOOLEAN
    /\ interrupted \in BOOLEAN
    /\ procs \in [Role -> {"none", "starting", "ready", "killed"}]
    /\ port \in {"free", "foreign"} \cup Server
    /\ port \in Server => procs[port] \in {"ready", "killed"}

(* Two models are in memory at a time only where the run was told so: the     *)
(* verifier beside a proxy that it was not asked to pause.  Until the run is  *)
(* over, no server is started, and no verifier, before the last one is gone.  *)
OneModelAtATime ==
    /\ ~(Alive("proxy") /\ Alive("oracle"))
    /\ ~(Alive("verifier") /\ Alive("oracle"))
    /\ Alive("verifier") /\ Alive("proxy") => ~conf.pause

(* The run is a text that grows by what is selected (SelectedText): no request *)
(* meant for one model reaches the other's server on the port they share, and *)
(* a token is asked for when all before it, and none after it, is selected.   *)
(* Where proxy and oracle are the same model, one is the other.               *)
AsOracle(a)  == IF conf.same_model /\ a.by = "proxy" THEN [a EXCEPT !.by = "oracle"] ELSE a
TokenOf(d)   == [proxy |-> d.proxy, oracle |-> AsOracle(d.oracle),
                 selected |-> IF d.action = Fallback THEN AsOracle(d.selected) ELSE d.selected]
TextSelected == [i \in DOMAIN decisions |-> TokenOf(decisions[i])]

Text == INSTANCE SelectedText
            WITH Proxy <- "proxy", Oracle <- "oracle", Strangers <- {"foreign"}, text <- TextSelected
TextSpec == Text!Spec

(* A replay of the run's tasks with the verdicts of its verifier decides as   *)
(* the run did, for every token of a candidate class (sage_live_replay_       *)
(* compare.py); other tokens, which a replay may accept, are the oracle's.    *)
ReplayedAs(d) ==
    IF d.candidate_eligible
    THEN LET verdict == IF d.verdict \in Written THEN d.verdict ELSE NoDecision
             r == ReplayRule(d.proxy_gate_accept, d.verifier_needed, verdict, "cpp")
         IN  r.action = d.action /\ (verdict = d.verdict => r.reason = d.reason)
    ELSE d.action = Fallback

DecidesAsReplay == \A i \in DOMAIN decisions : ReplayedAs(decisions[i])

(* However the run ends, no process of it is left but one that was killed and *)
(* is about to go, or one whose start or end was awaited when the user        *)
(* interrupted the run.                                                       *)
NothingLeft ==
    pc = "ended" /\ ~interrupted => \A p \in Role : procs[p] \in {"none", "killed"}

(* Every run ends, whatever fails.                                            *)
RunEnds == <>(pc = "ended")

================================================================================
