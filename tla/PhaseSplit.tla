------------------------------- MODULE PhaseSplit -------------------------------
(***************************************************************************)
(* phase-split-llama.ps1: a run starts a prefill, a decode and perhaps a   *)
(* cold server one after the other, waits until /health answers on the     *)
(* port of each, posts its requests to that port, and stops the server.    *)
(* Several command lines may run the script at the same time, and again.   *)
(*                                                                         *)
(* Lines are those of scripts/phase-split-llama.ps1; the servers, binaries *)
(* of llama.cpp, are external: they bind their port, load the model, and   *)
(* answer /health only then.                                               *)
(***************************************************************************)
EXTENDS Integers, FiniteSets

CONSTANTS
    Runner,       \* command lines that run the script
    PortBase,     \* PortBase[r]: the parameter of that name, 18100 if not given
    MaxRuns,      \* MaxRuns[r], bound: how often each of them runs the script
    None          \* $null, or nobody

Phase == {"prefill", "decode", "cold"}

ASSUME RunnerAssumption ==
    /\ PortBase \in [Runner -> Nat]
    /\ MaxRuns \in [Runner -> Nat]

\* A server process: who started it, in which of its runs, and for which phase.
Server == UNION {[runner : {r}, run : 1 .. MaxRuns[r], phase : Phase] : r \in Runner}

ASSUME NoneAssumption == None \notin Server /\ None \notin Phase

Offset(ph) == CASE ph = "prefill" -> 0 [] ph = "decode" -> 1 [] ph = "cold" -> 2

PortOf(r, ph) == PortBase[r] + Offset(ph)
Port == {PortOf(r, ph) : r \in Runner, ph \in Phase}

\* The ports of different command lines do not overlap.
DisjointPorts ==
    \A q, r \in Runner : \A ph, qh \in Phase : PortOf(q, ph) = PortOf(r, qh) => q = r

VARIABLES
    starting,   \* processes that have not tried to bind their port yet
    listener,   \* who listens on each port
    ready,      \* servers that have loaded the model
    pc,         \* where each script is
    run,        \* how many runs it has begun
    phase,      \* the phase it is in
    cold,       \* -CompareCold
    handle,     \* $prefillServer, $decodeServer or $coldServer: the process it will stop
    left,       \* requests it has still to post in this phase
    abandoned   \* history: servers alive when the wait for them was given up

vars == <<starting, listener, ready, pc, run, phase, cold, handle, left, abandoned>>
serverVars == <<starting, listener, ready>>

Init ==
    /\ starting = {}
    /\ listener = [p \in Port |-> None]
    /\ ready = {}
    /\ pc = [r \in Runner |-> "idle"]
    /\ run = [r \in Runner |-> 0]
    /\ phase = [r \in Runner |-> None]
    /\ cold = [r \in Runner |-> FALSE]
    /\ handle = [r \in Runner |-> None]
    /\ left = [r \in Runner |-> 0]
    /\ abandoned = {}

--------------------------------------------------------------------------------
(* The server processes. *)

Own(r) == [runner |-> r, run |-> run[r], phase |-> phase[r]]
ServerPort(s) == PortOf(s.runner, s.phase)
Listening(s) == listener[ServerPort(s)] = s
Alive(s) == s \in starting \/ Listening(s)

\* A server that finds its port taken exits.
Bind(s) ==
    /\ s \in starting
    /\ starting' = starting \ {s}
    /\ listener' = IF listener[ServerPort(s)] = None
                   THEN [listener EXCEPT ![ServerPort(s)] = s] ELSE listener
    /\ UNCHANGED <<ready, pc, run, phase, cold, handle, left, abandoned>>

Load(s) ==
    /\ Listening(s) /\ s \notin ready
    /\ ready' = ready \cup {s}
    /\ UNCHANGED <<starting, listener, pc, run, phase, cold, handle, left, abandoned>>

\* The processes without s.
Gone(s) ==
    /\ starting' = starting \ {s}
    /\ ready' = ready \ {s}
    /\ listener' = [p \in Port |-> IF listener[p] = s THEN None ELSE listener[p]]

\* Out of memory, a model it cannot read, a fault while it computes.
Dies(s) == Alive(s) /\ Gone(s) /\ UNCHANGED <<pc, run, phase, cold, handle, left, abandoned>>

ServerStep(s) == Bind(s) \/ Load(s)

--------------------------------------------------------------------------------
(* The script. *)

\* Requests of a phase: completion and save, restore and completion, completion.
Posts(ph) == IF ph = "cold" THEN 1 ELSE 2

\* Start-Process, and the wait that follows.
Launch(r, ph, n) ==
    /\ pc' = [pc EXCEPT ![r] = "wait"]
    /\ phase' = [phase EXCEPT ![r] = ph]
    /\ starting' = starting \cup {[runner |-> r, run |-> n, phase |-> ph]}
    /\ UNCHANGED <<listener, ready>>

\* -UseExistingSlot skips the prefill.
Begin(r) ==
    /\ pc[r] = "idle" /\ run[r] < MaxRuns[r]
    /\ run' = [run EXCEPT ![r] = @ + 1]
    /\ \E ph \in {"prefill", "decode"}, compare \in BOOLEAN :
         /\ Launch(r, ph, run[r] + 1)
         /\ cold' = [cold EXCEPT ![r] = compare]
    /\ UNCHANGED <<handle, left, abandoned>>

\* Wait-ServerReady returns as soon as a server answers on the port, whichever it
\* is; only then does the script have the process of Start-LlamaServer.
Ready(r) ==
    /\ pc[r] = "wait"
    /\ listener[PortOf(r, phase[r])] \in ready
    /\ pc' = [pc EXCEPT ![r] = "post"]
    /\ handle' = [handle EXCEPT ![r] = Own(r)]
    /\ left' = [left EXCEPT ![r] = Posts(phase[r])]
    /\ UNCHANGED <<starting, listener, ready, run, phase, cold, abandoned>>

\* Faulty: the variable was reset before the process was stopped.
StoppedNothing(s) == UNCHANGED serverVars

\* Stop-ServerProcess: the process itself is stopped, whoever listens on the port.
Stopped(s) == IF s = None THEN UNCHANGED serverVars ELSE Gone(s)

\* Faulty: no finally block.
FinallyWithoutStop(r) ==
    /\ pc' = [pc EXCEPT ![r] = "idle"]
    /\ phase' = [phase EXCEPT ![r] = None]
    /\ handle' = [handle EXCEPT ![r] = None]
    /\ left' = [left EXCEPT ![r] = 0]
    /\ cold' = [cold EXCEPT ![r] = FALSE]
    /\ UNCHANGED <<run, starting, listener, ready>>

\* The finally block.
Finally(r) ==
    /\ Stopped(handle[r])
    /\ pc' = [pc EXCEPT ![r] = "idle"]
    /\ phase' = [phase EXCEPT ![r] = None]
    /\ handle' = [handle EXCEPT ![r] = None]
    /\ left' = [left EXCEPT ![r] = 0]
    /\ cold' = [cold EXCEPT ![r] = FALSE]
    /\ UNCHANGED run

\* Faulty: waits for ever.
TimeoutNever(r) == FALSE

\* The 180 seconds are over, or the user interrupts the wait: Wait-ServerReady leaves
\* Start-LlamaServer before the script has its process.  The finally block has nothing
\* to stop, and a server that is merely late stays.
Timeout(r) ==
    /\ pc[r] = "wait"
    /\ Finally(r)
    /\ abandoned' = abandoned \cup {s \in {Own(r)} : Alive(s)}

Post(r) ==
    /\ pc[r] = "post" /\ left[r] > 0
    /\ listener[PortOf(r, phase[r])] \in ready
    /\ left' = [left EXCEPT ![r] = @ - 1]
    /\ UNCHANGED <<starting, listener, ready, pc, run, phase, cold, handle, abandoned>>

\* No server, an error status, or no answer in 600 seconds.
PostFails(r) == pc[r] = "post" /\ left[r] > 0 /\ Finally(r) /\ UNCHANGED abandoned

\* What follows a phase, None after the last.
NextPhase(r) == CASE phase[r] = "prefill" -> "decode"
                  [] phase[r] = "decode" -> IF cold[r] THEN "cold" ELSE None
                  [] phase[r] = "cold" -> None

\* The server is stopped and its variable reset; then the next one is started.
Stop(r) ==
    /\ pc[r] = "post" /\ left[r] = 0
    /\ Stopped(handle[r])
    /\ pc' = [pc EXCEPT ![r] = "next"]
    /\ handle' = [handle EXCEPT ![r] = None]
    /\ UNCHANGED <<run, phase, cold, left, abandoned>>

StartNext(r) ==
    /\ pc[r] = "next" /\ NextPhase(r) # None
    /\ Launch(r, NextPhase(r), run[r])
    /\ UNCHANGED <<run, cold, handle, left, abandoned>>

\* Start-Process throws.
StartFails(r) == pc[r] = "next" /\ NextPhase(r) # None /\ Finally(r) /\ UNCHANGED abandoned

\* The result is written, or that fails: the finally block has no server to stop.
Finish(r) == pc[r] = "next" /\ NextPhase(r) = None /\ Finally(r) /\ UNCHANGED abandoned

Script(r) ==
    \/ Ready(r) \/ Timeout(r) \/ Post(r) \/ PostFails(r)
    \/ Stop(r) \/ StartNext(r) \/ StartFails(r) \/ Finish(r)

Next ==
    \/ \E r \in Runner : Begin(r) \/ Script(r)
    \/ \E s \in Server : ServerStep(s) \/ Dies(s)

Spec == Init /\ [][Next]_vars

\* The waits have limits and servers make progress; nobody has to run the script.
Fairness ==
    /\ \A r \in Runner : WF_vars(Script(r))
    /\ \A s \in Server : WF_vars(ServerStep(s))

FairSpec == Spec /\ Fairness

--------------------------------------------------------------------------------
(* Properties *)

\* Types, and what a script has in each of its places.
TypeOK ==
    /\ starting \subseteq Server
    /\ listener \in [Port -> Server \cup {None}]
    /\ ready \subseteq Server
    /\ pc \in [Runner -> {"idle", "wait", "post", "next"}]
    /\ run \in [Runner -> Nat]
    /\ phase \in [Runner -> Phase \cup {None}]
    /\ cold \in [Runner -> BOOLEAN]
    /\ handle \in [Runner -> Server \cup {None}]
    /\ left \in [Runner -> 0 .. 2]
    /\ abandoned \subseteq Server
    /\ \A r \in Runner :
         /\ phase[r] = None <=> pc[r] = "idle"
         /\ run[r] <= MaxRuns[r]
         /\ pc[r] # "idle" => run[r] > 0
         /\ handle[r] = IF pc[r] = "post" THEN Own(r) ELSE None

\* Every request is answered by the server that the run itself has started, with its
\* model, placement and slot directory.  Nobody else listens where it posts, except a
\* server that an earlier run has abandoned on that port.
OwnServerAnswers ==
    \A r \in Runner :
        pc[r] = "post" => listener[PortOf(r, phase[r])] \in {Own(r), None} \cup abandoned

\* A server outlives the run that started it in one case only: it was alive, but not
\* ready, when the wait for it ended (Wait-ServerReady throws before the script has the
\* process to stop).  After any other step that fails, or none, nothing stays; and no
\* run leaves more than one.
NoServerLeft ==
    /\ \A s \in Server :
         Alive(s) => s \in abandoned \/ (s.run = run[s.runner] /\ pc[s.runner] # "idle")
    /\ \A s, t \in abandoned : s.runner = t.runner /\ s.run = t.run => s = t

\* A run never has two servers at a time: it loads the model once.
OneServerAtATime ==
    \A s, t \in Server :
        Alive(s) /\ Alive(t) /\ s.runner = t.runner /\ s.run = t.run => s = t

\* Every run ends, with a result or with an error.
RunEnds == \A r \in Runner : pc[r] # "idle" ~> pc[r] = "idle"
================================================================================
