--------------------------- MODULE PhaseSplitProofs ---------------------------
(* Theorems about PhaseSplit and their proofs. *)
EXTENDS PhaseSplit, TLAPS

LEMMA PortFacts ==
    ASSUME NEW r \in Runner, NEW ph \in Phase
    PROVE  PortOf(r, ph) \in Port
BY DEF Port

LEMMA ServerFacts ==
    ASSUME NEW s \in Server
    PROVE  /\ s.runner \in Runner /\ s.run \in 1 .. MaxRuns[s.runner] /\ s.phase \in Phase
           /\ s.run \in Nat
           /\ s = [runner |-> s.runner, run |-> s.run, phase |-> s.phase]
           /\ ServerPort(s) \in Port
           /\ s # None
<1>1. PICK r \in Runner : s \in [runner : {r}, run : 1 .. MaxRuns[r], phase : Phase]
  BY DEF Server
<1>2. s.runner \in Runner /\ s.run \in 1 .. MaxRuns[s.runner] /\ s.phase \in Phase
  BY <1>1
<1>3. QED
  BY <1>1, <1>2, PortFacts, NoneAssumption DEF ServerPort

LEMMA IsServer ==
    ASSUME NEW r \in Runner, NEW n \in 1 .. MaxRuns[r], NEW ph \in Phase
    PROVE  [runner |-> r, run |-> n, phase |-> ph] \in Server
<1>1. [runner |-> r, run |-> n, phase |-> ph] \in [runner : {r}, run : 1 .. MaxRuns[r], phase : Phase]
  OBVIOUS
<1>2. QED
  BY <1>1 DEF Server

LEMMA OwnFacts ==
    ASSUME TypeOK, NEW r \in Runner, pc[r] # "idle"
    PROVE  /\ phase[r] \in Phase
           /\ Own(r) \in Server
           /\ Own(r).runner = r /\ Own(r).run = run[r] /\ Own(r).phase = phase[r]
<1>1. phase[r] \in Phase /\ run[r] \in 1 .. MaxRuns[r]
  BY RunnerAssumption DEF TypeOK
<1>2. QED
  BY <1>1, IsServer DEF Own

\* Stopping a process keeps the types of the servers' variables.
LEMMA GoneTypes ==
    ASSUME TypeOK, NEW s, Gone(s) \/ Stopped(s)
    PROVE  /\ starting' \subseteq Server
           /\ ready' \subseteq Server
           /\ listener' \in [Port -> Server \cup {None}]
BY DEF Gone, Stopped, serverVars, TypeOK

--------------------------------------------------------------------------------
(* Types. *)

LEMMA TypeInit == Init => TypeOK
BY RunnerAssumption, NoneAssumption DEF Init, TypeOK

LEMMA BeginTypes ==
    ASSUME TypeOK, NEW r \in Runner, Begin(r)
    PROVE  TypeOK'
<1>1. PICK ph \in {"prefill", "decode"}, compare \in BOOLEAN :
         /\ Launch(r, ph, run[r] + 1)
         /\ cold' = [cold EXCEPT ![r] = compare]
  BY DEF Begin
<1>2. ph \in Phase /\ run[r] + 1 \in 1 .. MaxRuns[r] /\ MaxRuns[r] \in Nat
  <2>1. run[r] \in Nat /\ MaxRuns[r] \in Nat /\ run[r] < MaxRuns[r]
    BY RunnerAssumption DEF Begin, TypeOK
  <2>2. QED
    BY <2>1 DEF Phase
<1>3. starting' \subseteq Server
  BY <1>1, <1>2, IsServer DEF Launch, TypeOK
<1>4. run' \in [Runner -> Nat] /\ cold' \in [Runner -> BOOLEAN]
  BY <1>1, <1>2 DEF Begin, TypeOK
<1>5. phase' \in [Runner -> Phase \cup {None}]
  BY <1>1, <1>2 DEF Launch, TypeOK
<1>6. ASSUME NEW q \in Runner
      PROVE  /\ phase'[q] = None <=> pc'[q] = "idle"
             /\ run'[q] <= MaxRuns[q] /\ (pc'[q] # "idle" => run'[q] > 0)
             /\ handle'[q] = IF pc'[q] = "post" THEN Own(q)' ELSE None
  BY <1>1, <1>2, NoneAssumption DEF Begin, Launch, TypeOK, Own
<1>7. QED
  BY <1>1, <1>3, <1>4, <1>5, <1>6 DEF Begin, Launch, TypeOK

LEMMA FinallyTypes ==
    ASSUME TypeOK, NEW r \in Runner, Finally(r), abandoned' \subseteq Server
    PROVE  TypeOK'
<1>1. /\ starting' \subseteq Server
      /\ ready' \subseteq Server
      /\ listener' \in [Port -> Server \cup {None}]
  BY GoneTypes DEF Finally
<1>2. ASSUME NEW q \in Runner
      PROVE  /\ phase'[q] = None <=> pc'[q] = "idle"
             /\ run'[q] <= MaxRuns[q] /\ (pc'[q] # "idle" => run'[q] > 0)
             /\ handle'[q] = IF pc'[q] = "post" THEN Own(q)' ELSE None
  BY DEF Finally, TypeOK, Own
<1>3. QED
  BY <1>1, <1>2 DEF Finally, TypeOK

LEMMA ScriptTypes ==
    ASSUME TypeOK, NEW r \in Runner, Script(r)
    PROVE  TypeOK'
<1>1. CASE Ready(r)
  <2>1. Own(r) \in Server
    BY <1>1, OwnFacts DEF Ready
  <2>2. ASSUME NEW q \in Runner
        PROVE  /\ phase'[q] = None <=> pc'[q] = "idle"
               /\ run'[q] <= MaxRuns[q] /\ (pc'[q] # "idle" => run'[q] > 0)
               /\ handle'[q] = IF pc'[q] = "post" THEN Own(q)' ELSE None
    BY <1>1 DEF Ready, TypeOK, Own
  <2>3. Posts(phase[r]) \in 0 .. 2
    BY DEF Posts
  <2>4. QED
    BY <1>1, <2>1, <2>2, <2>3 DEF Ready, TypeOK
<1>2. CASE Timeout(r) \/ PostFails(r) \/ StartFails(r) \/ Finish(r)
  <2>1. abandoned' \subseteq Server
    BY <1>2, OwnFacts DEF Timeout, PostFails, StartFails, Finish, TypeOK
  <2>2. QED
    BY <1>2, <2>1, FinallyTypes DEF Timeout, PostFails, StartFails, Finish
<1>3. CASE Post(r)
  <2>1. ASSUME NEW q \in Runner
        PROVE  handle'[q] = IF pc'[q] = "post" THEN Own(q)' ELSE None
    BY <1>3 DEF Post, TypeOK, Own
  <2>2. left' \in [Runner -> 0 .. 2]
    BY <1>3 DEF Post, TypeOK
  <2>3. QED
    BY <1>3, <2>1, <2>2 DEF Post, TypeOK
<1>4. CASE Stop(r)
  <2>1. /\ starting' \subseteq Server
        /\ ready' \subseteq Server
        /\ listener' \in [Port -> Server \cup {None}]
    BY <1>4, GoneTypes DEF Stop
  <2>2. ASSUME NEW q \in Runner
        PROVE  /\ phase'[q] = None <=> pc'[q] = "idle"
               /\ run'[q] <= MaxRuns[q] /\ (pc'[q] # "idle" => run'[q] > 0)
               /\ handle'[q] = IF pc'[q] = "post" THEN Own(q)' ELSE None
    BY <1>4 DEF Stop, TypeOK, Own
  <2>3. QED
    BY <1>4, <2>1, <2>2 DEF Stop, TypeOK
<1>5. CASE StartNext(r)
  <2>1. NextPhase(r) \in Phase /\ run[r] \in 1 .. MaxRuns[r]
    <3>1. phase[r] \in Phase /\ run[r] \in 1 .. MaxRuns[r]
      BY <1>5, OwnFacts, RunnerAssumption DEF StartNext, TypeOK
    <3>2. QED
      BY <1>5, <3>1 DEF StartNext, NextPhase, Phase
  <2>2. starting' \subseteq Server
    BY <1>5, <2>1, IsServer DEF StartNext, Launch, TypeOK
  <2>3. ASSUME NEW q \in Runner
        PROVE  /\ phase'[q] = None <=> pc'[q] = "idle"
               /\ run'[q] <= MaxRuns[q] /\ (pc'[q] # "idle" => run'[q] > 0)
               /\ handle'[q] = IF pc'[q] = "post" THEN Own(q)' ELSE None
    BY <1>5, <2>1, NoneAssumption DEF StartNext, Launch, TypeOK, Own
  <2>4. QED
    BY <1>5, <2>1, <2>2, <2>3 DEF StartNext, Launch, TypeOK
<1>6. QED
  BY <1>1, <1>2, <1>3, <1>4, <1>5 DEF Script

LEMMA ServerTypes ==
    ASSUME TypeOK, NEW s \in Server, ServerStep(s) \/ Dies(s)
    PROVE  TypeOK'
<1>1. UNCHANGED <<pc, run, phase, cold, handle, left, abandoned>>
  BY DEF ServerStep, Bind, Load, Dies
<1>2. /\ starting' \subseteq Server
      /\ ready' \subseteq Server
      /\ listener' \in [Port -> Server \cup {None}]
  <2>1. CASE Bind(s)
    BY <2>1 DEF Bind, TypeOK
  <2>2. CASE Load(s)
    BY <2>2 DEF Load, TypeOK
  <2>3. CASE Dies(s)
    BY <2>3, GoneTypes DEF Dies
  <2>4. QED
    BY <2>1, <2>2, <2>3 DEF ServerStep
<1>3. \A q \in Runner : Own(q)' = Own(q)
  BY <1>1 DEF Own
<1>4. QED
  BY <1>1, <1>2, <1>3 DEF TypeOK

LEMMA TypeStep == TypeOK /\ [Next]_vars => TypeOK'
<1> SUFFICES ASSUME TypeOK, [Next]_vars PROVE TypeOK'
  OBVIOUS
<1>1. ASSUME NEW r \in Runner, Begin(r) \/ Script(r) PROVE TypeOK'
  BY <1>1, BeginTypes, ScriptTypes
<1>2. ASSUME NEW s \in Server, ServerStep(s) \/ Dies(s) PROVE TypeOK'
  BY <1>2, ServerTypes
<1>3. CASE UNCHANGED vars
  BY <1>3 DEF vars, TypeOK, Own
<1>4. QED
  BY <1>1, <1>2, <1>3 DEF Next

\* Every reachable state has the right types, and the variable that the finally block
\* stops names the run's own process exactly while the run posts to it.
THEOREM TypeCorrect == Spec => []TypeOK
BY TypeInit, TypeStep, PTL DEF Spec

--------------------------------------------------------------------------------
(* Which servers live. *)

\* The server of the phase that its run is waiting for or posting to.
Wanted(s) == pc[s.runner] \in {"wait", "post"} /\ s = Own(s.runner)

\* A run that has abandoned a server is over, and has abandoned no other.
AbandonedInv ==
    /\ \A s \in abandoned :
         s.run <= run[s.runner] /\ (s.run = run[s.runner] => pc[s.runner] = "idle")
    /\ \A s, t \in abandoned : s.runner = t.runner /\ s.run = t.run => s = t

\* A server listens on its own port only, and one that lives is wanted or abandoned.
ServerInv ==
    /\ \A p \in Port : listener[p] # None => ServerPort(listener[p]) = p
    /\ \A s \in Server : Alive(s) => s \in abandoned \/ Wanted(s)
    /\ AbandonedInv

LEMMA ServerInit == Init => ServerInv
BY ServerFacts DEF Init, ServerInv, AbandonedInv, Alive, Listening

\* What one run does leaves the wanted servers of the others wanted.
LEMMA WantedStays ==
    ASSUME NEW r \in Runner, NEW s \in Server, Wanted(s), s.runner # r,
           \A q \in Runner \ {r} : pc'[q] = pc[q] /\ Own(q)' = Own(q)
    PROVE  Wanted(s)'
<1>1. s.runner \in Runner \ {r}
  BY ServerFacts
<1>2. QED
  BY <1>1 DEF Wanted

\* Only the end of a run, or the beginning of another, disturbs AbandonedInv.
LEMMA AbandonedStays ==
    ASSUME TypeOK, AbandonedInv, abandoned' = abandoned,
           \A q \in Runner : run'[q] \in Nat /\ run[q] <= run'[q]
                             /\ (run'[q] = run[q] /\ pc[q] = "idle" => pc'[q] = "idle")
    PROVE  AbandonedInv'
<1>1. ASSUME NEW s \in abandoned
      PROVE  s.run <= run'[s.runner] /\ (s.run = run'[s.runner] => pc'[s.runner] = "idle")
  <2>1. s.runner \in Runner /\ s.run \in Nat /\ run[s.runner] \in Nat
    BY ServerFacts DEF TypeOK
  <2>2. QED
    BY <2>1 DEF AbandonedInv
<1>2. QED
  BY <1>1 DEF AbandonedInv

\* Stopping s leaves the others as they are.
LEMMA GoneAlive ==
    ASSUME TypeOK, ServerInv, NEW s \in Server, Gone(s)
    PROVE  /\ \A p \in Port : listener'[p] # None => ServerPort(listener'[p]) = p
           /\ \A t \in Server : Alive(t)' => Alive(t) /\ t # s
<1>1. \A p \in Port : listener'[p] \in {listener[p], None} /\ listener'[p] # s
  BY ServerFacts DEF Gone
<1>2. \A t \in Server : ServerPort(t) \in Port /\ t # None
  BY ServerFacts
<1>3. \A t \in Server : Listening(t)' => Listening(t) /\ t # s
  BY <1>1, <1>2 DEF Listening, ServerPort
<1>4. \A t \in Server : t \in starting' => t \in starting /\ t # s
  BY DEF Gone
<1>5. QED
  BY <1>1, <1>3, <1>4 DEF Alive, ServerInv

\* Starting a server when the run wants no other.
LEMMA LaunchAlive ==
    ASSUME TypeOK, ServerInv, NEW r \in Runner, NEW ph \in Phase, NEW n,
           pc[r] \in {"idle", "next"}, Launch(r, ph, n), run'[r] = n, abandoned' = abandoned,
           \A q \in Runner \ {r} : run'[q] = run[q],
           n = (IF pc[r] = "idle" THEN run[r] + 1 ELSE run[r])
    PROVE  ServerInv'
<1>1. pc'[r] = "wait" /\ phase'[r] = ph
  BY DEF Launch, TypeOK
<1>2. \A q \in Runner \ {r} : pc'[q] = pc[q] /\ Own(q)' = Own(q)
  BY DEF Launch, TypeOK, Own
<1>3. \A s \in Server : Alive(s) => s \in abandoned \/ (Wanted(s) /\ s.runner # r)
  BY DEF ServerInv, Wanted
<1>4. \A s \in Server : Alive(s)' => Alive(s) \/ s = [runner |-> r, run |-> n, phase |-> ph]
  BY DEF Launch, Alive, Listening, ServerPort
<1>5. [runner |-> r, run |-> n, phase |-> ph] = Own(r)'
  BY <1>1 DEF Own
<1>6. ASSUME NEW s \in Server, Alive(s)'
      PROVE  s \in abandoned' \/ Wanted(s)'
  <2>1. CASE Alive(s)
    BY <1>2, <1>3, <2>1, WantedStays
  <2>2. CASE s = [runner |-> r, run |-> n, phase |-> ph]
    <3>1. s.runner = r
      BY <2>2
    <3>2. QED
      BY <1>1, <1>5, <2>2, <3>1 DEF Wanted
  <2>3. QED
    BY <1>4, <1>6, <2>1, <2>2
<1>7. AbandonedInv'
  <2>1. ASSUME NEW q \in Runner
        PROVE  run'[q] \in Nat /\ run[q] <= run'[q]
               /\ (run'[q] = run[q] /\ pc[q] = "idle" => pc'[q] = "idle")
    <3>1. run[q] \in Nat
      BY DEF TypeOK
    <3>2. CASE q = r
      BY <3>1, <3>2
    <3>3. CASE q # r
      BY <3>1, <3>3, <1>2
    <3>4. QED
      BY <3>2, <3>3
  <2>2. QED
    BY <2>1, AbandonedStays DEF ServerInv
<1>8. listener' = listener
  BY DEF Launch
<1>9. QED
  BY <1>6, <1>7, <1>8 DEF ServerInv, ServerPort

\* A run that leaves a phase when its own server is stopped, dead already, or abandoned.
LEMMA LeaveAlive ==
    ASSUME TypeOK, ServerInv, NEW r \in Runner, pc[r] # "idle",
           \/ Gone(Own(r))
           \/ UNCHANGED serverVars /\ (Alive(Own(r)) => Own(r) \in abandoned'),
           abandoned \subseteq abandoned', AbandonedInv',
           \A q \in Runner \ {r} : pc'[q] = pc[q] /\ Own(q)' = Own(q)
    PROVE  ServerInv'
<1>1. Own(r) \in Server /\ Own(r).runner = r
  BY OwnFacts
<1>2. /\ \A p \in Port : listener'[p] # None => ServerPort(listener'[p]) = p
      /\ \A t \in Server : Alive(t)' => Alive(t) /\ (t # Own(r) \/ t \in abandoned')
  <2>1. CASE Gone(Own(r))
    BY <1>1, <2>1, GoneAlive
  <2>2. CASE UNCHANGED serverVars /\ (Alive(Own(r)) => Own(r) \in abandoned')
    BY <2>2 DEF serverVars, ServerInv, Alive, Listening, ServerPort
  <2>3. QED
    BY <2>1, <2>2
<1>3. ASSUME NEW s \in Server, Alive(s)'
      PROVE  s \in abandoned' \/ Wanted(s)'
  <2>1. CASE s \in abandoned'
    BY <2>1
  <2>2. CASE s \notin abandoned'
    <3>1. Wanted(s) /\ s # Own(r)
      BY <1>2, <1>3, <2>2 DEF ServerInv
    <3>2. s.runner # r
      BY <3>1 DEF Wanted
    <3>3. QED
      BY <3>1, <3>2, WantedStays
  <2>3. QED
    BY <2>1, <2>2
<1>4. QED
  BY <1>2, <1>3 DEF ServerInv, ServerPort

\* The wait of a run that is given up.
LEMMA TimeoutAbandons ==
    ASSUME TypeOK, ServerInv, NEW r \in Runner, Timeout(r)
    PROVE  AbandonedInv'
<1>1. /\ Own(r) \in Server /\ Own(r).runner = r /\ Own(r).run = run[r] /\ pc[r] = "wait"
      /\ run' = run /\ pc' = [pc EXCEPT ![r] = "idle"] /\ pc'[r] = "idle"
      /\ abandoned' \subseteq abandoned \cup {Own(r)}
  BY OwnFacts DEF Timeout, Finally, TypeOK
<1>2. ASSUME NEW s \in abandoned
      PROVE  /\ s.run <= run[s.runner] /\ (s.run = run[s.runner] => pc'[s.runner] = "idle")
             /\ ~(s.runner = r /\ s.run = run[r])
  <2>1. s.runner \in Runner
    BY ServerFacts DEF TypeOK
  <2>2. QED
    BY <1>1, <2>1 DEF ServerInv, AbandonedInv, TypeOK
<1>3. Own(r).run <= run[r]
  BY <1>1 DEF TypeOK
<1>4. \A s \in abandoned' :
         s.run <= run'[s.runner] /\ (s.run = run'[s.runner] => pc'[s.runner] = "idle")
  BY <1>1, <1>2, <1>3
<1>5. \A s, t \in abandoned' : s.runner = t.runner /\ s.run = t.run => s = t
  BY <1>1, <1>2 DEF ServerInv, AbandonedInv
<1>6. QED
  BY <1>4, <1>5 DEF AbandonedInv

LEMMA ServerScript ==
    ASSUME TypeOK, ServerInv, NEW r \in Runner, Script(r)
    PROVE  ServerInv'
<1>0. ASSUME ~Timeout(r), ~StartNext(r) PROVE AbandonedInv' /\ abandoned' = abandoned
  <2>1. abandoned' = abandoned /\ run' = run
    BY <1>0 DEF Script, Ready, Post, PostFails, Stop, StartFails, Finish, Finally
  <2>2. \A q \in Runner : pc[q] = "idle" => pc'[q] = "idle"
    BY <1>0 DEF Script, Ready, Post, PostFails, Stop, StartFails, Finish, Finally, TypeOK
  <2>3. \A q \in Runner : run'[q] \in Nat /\ run[q] <= run'[q]
    BY <2>1 DEF TypeOK
  <2>4. QED
    BY <2>1, <2>2, <2>3, AbandonedStays DEF ServerInv
<1>1. CASE Ready(r) \/ Post(r)
  <2>1. UNCHANGED <<starting, listener, run, phase, abandoned>>
    BY <1>1 DEF Ready, Post
  <2>2. \A q \in Runner : pc[q] \in {"wait", "post"} => pc'[q] \in {"wait", "post"}
    BY <1>1 DEF Ready, Post, TypeOK
  <2>3. \A s \in Server : Wanted(s) => Wanted(s)'
    BY <2>1, <2>2, ServerFacts DEF Wanted, Own
  <2>4. AbandonedInv'
    <3>1. ~Timeout(r) /\ ~StartNext(r)
      BY <1>1 DEF Ready, Post, Timeout, StartNext, Finally, TypeOK
    <3>2. QED
      BY <3>1, <1>0
  <2>5. QED
    BY <2>1, <2>3, <2>4 DEF ServerInv, Alive, Listening, ServerPort
<1>2. CASE PostFails(r) \/ Stop(r)
  <2>1. pc[r] = "post" /\ Stopped(handle[r])
    BY <1>2 DEF PostFails, Stop, Finally
  <2>2. handle[r] = Own(r) /\ Own(r) \in Server
    BY <2>1, OwnFacts DEF TypeOK
  <2>3. Gone(Own(r))
    BY <2>1, <2>2, NoneAssumption DEF Stopped
  <2>4. \A q \in Runner \ {r} : pc'[q] = pc[q] /\ Own(q)' = Own(q)
    BY <1>2 DEF PostFails, Stop, Finally, TypeOK, Own
  <2>5. AbandonedInv' /\ abandoned' = abandoned
    BY <1>0, <2>1 DEF Timeout, StartNext
  <2>6. QED
    BY <2>1, <2>3, <2>4, <2>5, LeaveAlive
<1>3. CASE Timeout(r) \/ StartFails(r) \/ Finish(r)
  <2>1. pc[r] \in {"wait", "next"} /\ Own(r) \in Server /\ Own(r).runner = r
    BY <1>3, OwnFacts DEF Timeout, StartFails, Finish
  <2>2. handle[r] = None
    BY <2>1 DEF TypeOK
  <2>3. UNCHANGED serverVars
    BY <1>3, <2>2 DEF Timeout, StartFails, Finish, Finally, Stopped
  <2>4. \A q \in Runner \ {r} : pc'[q] = pc[q] /\ Own(q)' = Own(q)
    BY <1>3 DEF Timeout, StartFails, Finish, Finally, TypeOK, Own
  <2>5. CASE Timeout(r)
    <3>1. abandoned \subseteq abandoned' /\ (Alive(Own(r)) => Own(r) \in abandoned')
      BY <2>5 DEF Timeout
    <3>2. QED
      BY <2>1, <2>3, <2>4, <2>5, <3>1, TimeoutAbandons, LeaveAlive
  <2>6. CASE StartFails(r) \/ Finish(r)
    <3>1. ~Timeout(r) /\ ~StartNext(r)
      BY <2>6 DEF StartFails, Finish, Timeout, StartNext, Finally, Launch, TypeOK
    <3>2. AbandonedInv' /\ abandoned' = abandoned
      BY <3>1, <1>0
    <3>3. ~Alive(Own(r)) \/ Own(r) \in abandoned
      BY <2>1, <2>6 DEF StartFails, Finish, ServerInv, Wanted
    <3>4. QED
      BY <2>1, <2>3, <2>4, <3>2, <3>3, LeaveAlive
  <2>7. QED
    BY <1>3, <2>5, <2>6
<1>4. CASE StartNext(r)
  <2>1. NextPhase(r) \in Phase
    BY <1>4, OwnFacts DEF StartNext, NextPhase, Phase
  <2>2. /\ pc[r] = "next" /\ Launch(r, NextPhase(r), run[r])
        /\ run' = run /\ abandoned' = abandoned
    BY <1>4 DEF StartNext
  <2>3. QED
    BY <2>1, <2>2, LaunchAlive
<1>5. QED
  BY <1>1, <1>2, <1>3, <1>4 DEF Script

LEMMA ServerServers ==
    ASSUME TypeOK, ServerInv, NEW s \in Server, ServerStep(s) \/ Dies(s)
    PROVE  ServerInv'
<1>1. UNCHANGED <<pc, run, phase, abandoned>>
  BY DEF ServerStep, Bind, Load, Dies
<1>2. /\ \A p \in Port : listener'[p] # None => ServerPort(listener'[p]) = p
      /\ \A t \in Server : Alive(t)' => Alive(t)
  <2>1. CASE Bind(s)
    <3>1. \A t \in Server : ServerPort(t) \in Port
      BY ServerFacts
    <3>2. \A p \in Port : \/ listener'[p] = listener[p]
                          \/ p = ServerPort(s) /\ listener'[p] = s
      BY <2>1, <3>1 DEF Bind, TypeOK
    <3>3. \A t \in Server : Listening(t)' => Listening(t) \/ t = s
      BY <3>1, <3>2 DEF Listening, ServerPort
    <3>4. QED
      BY <2>1, <3>2, <3>3 DEF Bind, ServerInv, Alive
  <2>2. CASE Load(s)
    BY <2>2 DEF Load, ServerInv, Alive, Listening, ServerPort
  <2>3. CASE Dies(s)
    BY <2>3, GoneAlive DEF Dies
  <2>4. QED
    BY <2>1, <2>2, <2>3 DEF ServerStep
<1>3. \A t \in Server : Wanted(t)' <=> Wanted(t)
  BY <1>1 DEF Own, Wanted
<1>4. AbandonedInv'
  BY <1>1 DEF ServerInv, AbandonedInv
<1>5. QED
  BY <1>1, <1>2, <1>3, <1>4 DEF ServerInv, ServerPort

LEMMA ServerInvStep == TypeOK /\ ServerInv /\ [Next]_vars => ServerInv'
<1> SUFFICES ASSUME TypeOK, ServerInv, [Next]_vars PROVE ServerInv'
  OBVIOUS
<1>1. ASSUME NEW r \in Runner, Begin(r) PROVE ServerInv'
  <2>1. PICK ph \in {"prefill", "decode"} : Launch(r, ph, run[r] + 1)
    BY <1>1 DEF Begin
  <2>2. /\ pc[r] = "idle" /\ run'[r] = run[r] + 1 /\ abandoned' = abandoned
        /\ \A q \in Runner \ {r} : run'[q] = run[q]
    BY <1>1 DEF Begin, TypeOK
  <2>3. QED
    BY <2>1, <2>2, LaunchAlive DEF Phase
<1>2. ASSUME NEW r \in Runner, Script(r) PROVE ServerInv'
  BY <1>2, ServerScript
<1>3. ASSUME NEW s \in Server, ServerStep(s) \/ Dies(s) PROVE ServerInv'
  BY <1>3, ServerServers
<1>4. CASE UNCHANGED vars
  BY <1>4 DEF vars, ServerInv, AbandonedInv, Wanted, Alive, Listening, ServerPort, Own
<1>5. QED
  BY <1>1, <1>2, <1>3, <1>4 DEF Next

LEMMA ServerInvariant == Spec => [](TypeOK /\ ServerInv)
BY ServerInit, TypeInit, TypeStep, ServerInvStep, PTL DEF Spec

\* The servers a run leaves: only a wait that is given up (line 48 of
\* phase-split-llama.ps1 throws before Start-LlamaServer returns its process) leaves one,
\* and one at most; after every other failure, and whoever else uses the ports, the
\* finally block or Stop-ServerProcess before it has stopped what was started.
THEOREM ServersTheorem == Spec => []NoServerLeft
<1>1. TypeOK /\ ServerInv => NoServerLeft
  <2> SUFFICES ASSUME TypeOK, ServerInv PROVE NoServerLeft
    OBVIOUS
  <2>1. ASSUME NEW s \in Server, Alive(s), s \notin abandoned
        PROVE  s.run = run[s.runner] /\ pc[s.runner] # "idle"
    <3>1. Wanted(s)
      BY <2>1 DEF ServerInv
    <3>2. s.runner \in Runner /\ pc[s.runner] # "idle" /\ s = Own(s.runner)
      BY <3>1, ServerFacts DEF Wanted
    <3>3. QED
      BY <3>2, OwnFacts
  <2>2. QED
    BY <2>1 DEF ServerInv, AbandonedInv, NoServerLeft
<1>2. QED
  BY <1>1, ServerInvariant, PTL

\* A run has one server at a time, also when it abandons one: the prefill one has gone
\* when decode's is launched (the phases of phase-split-llama.ps1).
THEOREM OneServerTheorem == Spec => []OneServerAtATime
<1>1. TypeOK /\ ServerInv => OneServerAtATime
  <2> SUFFICES ASSUME TypeOK, ServerInv, NEW s \in Server, NEW t \in Server,
                      Alive(s), Alive(t), s.runner = t.runner, s.run = t.run
               PROVE  s = t
    BY DEF OneServerAtATime
  <2>1. /\ s \in abandoned \/ Wanted(s)
        /\ t \in abandoned \/ Wanted(t)
    BY DEF ServerInv
  <2>2. ASSUME NEW a \in abandoned, NEW w \in Server, Wanted(w),
               a.runner = w.runner, a.run = w.run
        PROVE  FALSE
    <3>1. w.runner \in Runner /\ pc[w.runner] # "idle" /\ w = Own(w.runner)
      BY <2>2, ServerFacts DEF Wanted
    <3>2. w.run = run[w.runner]
      BY <3>1, OwnFacts
    <3>3. QED
      BY <2>2, <3>1, <3>2 DEF ServerInv, AbandonedInv
  <2>3. s \in abandoned /\ t \in abandoned => s = t
    BY DEF ServerInv, AbandonedInv
  <2>4. Wanted(s) /\ Wanted(t) => s = t
    BY DEF Wanted
  <2>5. QED
    BY <2>1, <2>2, <2>3, <2>4
<1>2. QED
  BY <1>1, ServerInvariant, PTL

\* If the command lines use ports of their own, every request is answered by the server
\* that the run has started for it, or by one that an earlier run has abandoned there.
THEOREM OwnServerTheorem ==
    ASSUME DisjointPorts
    PROVE  Spec => []OwnServerAnswers
<1>1. TypeOK /\ ServerInv => OwnServerAnswers
  <2> SUFFICES ASSUME TypeOK, ServerInv, NEW r \in Runner, pc[r] = "post",
                      listener[PortOf(r, phase[r])] # None,
                      listener[PortOf(r, phase[r])] \notin abandoned
               PROVE  listener[PortOf(r, phase[r])] = Own(r)
    BY DEF OwnServerAnswers
  <2> DEFINE s == listener[PortOf(r, phase[r])]
  <2>1. phase[r] \in Phase /\ PortOf(r, phase[r]) \in Port
    BY OwnFacts, PortFacts
  <2>2. s \in Server /\ ServerPort(s) = PortOf(r, phase[r])
    BY <2>1 DEF TypeOK, ServerInv
  <2>3. Alive(s)
    BY <2>2 DEF Alive, Listening
  <2>4. s.runner = r
    BY <2>1, <2>2, ServerFacts DEF ServerPort, DisjointPorts
  <2>5. s = Own(s.runner)
    BY <2>2, <2>3 DEF ServerInv, Wanted
  <2>6. QED
    BY <2>4, <2>5
<1>2. QED
  BY <1>1, ServerInvariant, PTL
================================================================================
