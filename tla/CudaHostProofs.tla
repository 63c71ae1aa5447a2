--------------------------- MODULE CudaHostProofs ---------------------------
(***************************************************************************)
(* For every set of scripts: types are kept, and whatever a script has put *)
(* into the lists and variables of its finally block is released when it   *)
(* ends, at whichever call it failed; nothing is released twice or while   *)
(* work that uses it is queued; every copy and kernel meets the bytes it   *)
(* was queued for; and what is read back is whole.                         *)
(***************************************************************************)
EXTENDS CudaHost, TLAPS

(* A call of the running script is one of its calls. *)
LEMMA CallAssumption ==
    ASSUME script \in DOMAIN Programs, pc \in Nat \ {0}, Running
    PROVE  /\ Op.do \in {"alloc", "take", "free"} => Op.res \in program.resources
           /\ Op.do = "take" => Op.res \in Remembered(program)
           /\ Op.do = "own" => Op.all \subseteq Remembered(program)
<1> DEFINE p == Programs[script]
<1>1. /\ Len(p.body) \in Nat
      /\ {c.res : c \in Calls(p, {"alloc", "take", "free"})} \subseteq p.resources
  BY ProgramAssumption
<1>2. pc \in 1..Len(p.body)
  BY <1>1 DEF Running, program
<1>3. ASSUME NEW names, Op.do \in names  PROVE Op \in Calls(p, names)
  BY <1>2, <1>3 DEF Calls, Op, program
<1>4. Op.do \in {"alloc", "take", "free"} => Op.res \in p.resources
  BY <1>1, <1>3
<1>5. Op.do = "take" => Op.res \in Remembered(p)
  BY <1>3 DEF Remembered
<1>6. Op.do = "own" => Op.all \subseteq Remembered(p)
  BY <1>3 DEF Remembered
<1> QED BY <1>4, <1>5, <1>6 DEF program

(* What the finally block knows of has a place in it.                       *)
Placed == owned \subseteq Remembered(program)

(* The finally block has released the kinds it has gone through.            *)
Progressing ==
    /\ phase \in {"run", "join"} => kind = 1
    /\ phase = "final" =>
        \A r \in live \cap owned : \E k \in kind..Len(program.final) : program.final[k] = r[1]

CInv == TypeOK /\ Placed /\ Progressing /\ NothingForgotten

LEMMA RememberedHasPlace ==
    ASSUME script \in DOMAIN Programs, NEW r \in Remembered(program)
    PROVE  r \in program.resources /\ \E k \in 1..Len(program.final) : program.final[k] = r[1]
BY ProgramAssumption DEF program

(* The main thread leaves the try block, or the program before it, in the   *)
(* same way after a failure, after its last call and after the pool.        *)
LEMMA LeavingKeeps ==
    ASSUME CInv, phase \in {"run", "join"},
           UNCHANGED <<script, pc, inTry, stuck, kind, live, owned>>,
           phase' \in {"join", "final", "done"}, phase' \in {"final", "done"} => ~open',
           phase' = "done" => ~inTry, ok' \in BOOLEAN, open' \in BOOLEAN
    PROVE  CInv'
<1>1. kind = 1 /\ kind' = 1
  BY DEF CInv, Progressing
<1>2. \A r \in live \cap owned : \E k \in 1..Len(program.final) : program.final[k] = r[1]
  BY RememberedHasPlace DEF CInv, TypeOK, Placed
<1>3. TypeOK' /\ Placed'
  BY DEF CInv, TypeOK, Placed, program
<1>4. Progressing'
  BY <1>1, <1>2 DEF Progressing, program
<1>5. NothingForgotten'
  BY DEF NothingForgotten
<1> QED BY <1>3, <1>4, <1>5 DEF CInv

(* A call that succeeds. *)
LEMMA CallKeeps ==
    ASSUME CInv, Running, pc' = pc + 1, UNCHANGED <<script, phase, ok, stuck, kind>>,
           inTry' \in BOOLEAN, open' \in BOOLEAN,
           live' \subseteq program.resources, owned' \subseteq Remembered(program)
    PROVE  CInv'
<1>1. owned' \subseteq program.resources
  BY RememberedHasPlace DEF CInv, TypeOK
<1>2. TypeOK'
  BY <1>1 DEF CInv, TypeOK, Running, program
<1>3. Placed' /\ Progressing' /\ NothingForgotten'
  BY DEF CInv, Placed, Progressing, NothingForgotten, Running, program
<1> QED BY <1>2, <1>3 DEF CInv

LEMMA InitCInv == Init => CInv
<1> SUFFICES ASSUME Init PROVE CInv
  OBVIOUS
<1>1. /\ script \in DOMAIN Programs /\ pc = 1 /\ phase = "run" /\ kind = 1
      /\ inTry = FALSE /\ open = FALSE /\ ok = TRUE /\ stuck = FALSE /\ live = {} /\ owned = {}
  BY DEF Init
<1>2. {inTry, open, ok, stuck} \subseteq BOOLEAN
  BY <1>1
<1>3. TypeOK
  BY <1>1, <1>2 DEF TypeOK
<1>4. Placed /\ Progressing /\ NothingForgotten
  BY <1>1 DEF Placed, Progressing, NothingForgotten
<1> QED BY <1>3, <1>4 DEF CInv

LEMMA NextCInv == CInv /\ [Next]_vars => CInv'
<1> SUFFICES ASSUME CInv, [Next]_vars PROVE CInv'
  OBVIOUS
<1> USE DEF Proceed, At, poolVars
<1>0. /\ script \in DOMAIN Programs /\ pc \in Nat \ {0}
      /\ live \subseteq program.resources /\ owned \subseteq Remembered(program)
      /\ inTry \in BOOLEAN /\ open \in BOOLEAN /\ ok \in BOOLEAN
  BY DEF CInv, TypeOK, Placed
<1>1. CASE Acquire
  <2>1. Running /\ live' \subseteq program.resources /\ owned' \subseteq Remembered(program)
    BY <1>0, <1>1, CallAssumption DEF Acquire
  <2> QED BY <2>1, <1>0, <1>1, CallKeeps DEF Acquire
<1>2. CASE Remember
  <2>1. Running /\ owned' \subseteq Remembered(program)
    BY <1>0, <1>2, CallAssumption DEF Remember
  <2> QED BY <2>1, <1>0, <1>2, CallKeeps DEF Remember
<1>3. CASE ReleaseNow
  BY <1>0, <1>3, CallKeeps DEF ReleaseNow
<1>4. CASE EnterBlock
  <2>1. inTry' \in BOOLEAN /\ open' \in BOOLEAN
    BY <1>4 DEF EnterBlock
  <2> QED BY <2>1, <1>0, <1>4, CallKeeps DEF EnterBlock
<1>5. CASE Fill
  BY <1>0, <1>5, CallKeeps DEF Fill
<1>6. CASE Enqueue
  BY <1>0, <1>6, CallKeeps DEF Enqueue
<1>7. CASE Synchronize
  BY <1>0, <1>7, CallKeeps DEF Synchronize
<1>8. CASE ReadBack
  BY <1>0, <1>8, CallKeeps DEF ReadBack
<1>9. CASE SubmitRead
  BY <1>0, <1>9, CallKeeps DEF SubmitRead
<1>10. CASE AwaitRead
  BY <1>0, <1>10, CallKeeps DEF AwaitRead
<1>11. CASE LeavePool
  BY <1>0, <1>11, CallKeeps DEF LeavePool
<1>12. CASE Fails
  BY <1>0, <1>12, LeavingKeeps DEF Fails, Running, Leaving
<1>13. CASE Joined
  BY <1>0, <1>13, LeavingKeeps DEF Joined
<1>14. CASE Completed
  BY <1>0, <1>14, LeavingKeeps DEF Completed, Leaving
<1>15. CASE Release
  <2>1. live' \subseteq live /\ UNCHANGED <<script, pc, phase, inTry, open, ok, stuck, kind, owned>>
    BY <1>15 DEF Release
  <2>2. phase = "final"
    BY <1>15 DEF Release, Cleaning
  <2>3. TypeOK' /\ Placed' /\ NothingForgotten'
    BY <2>1, <2>2 DEF CInv, TypeOK, Placed, NothingForgotten, program
  <2>4. Progressing'
    BY <2>1, <2>2 DEF CInv, Progressing, program
  <2> QED BY <2>3, <2>4 DEF CInv
<1>16. CASE ReleaseFails
  BY <1>16 DEF ReleaseFails, CInv, TypeOK, Placed, Progressing, NothingForgotten, program, Cleaning
<1>17. CASE NextKind
  <2>1. phase = "final" /\ kind <= Len(program.final) /\ kind' = kind + 1
        /\ UNCHANGED <<script, pc, phase, inTry, open, ok, stuck, live, owned>>
    BY <1>17 DEF NextKind, Cleaning
  <2>2. kind \in Nat \ {0} /\ Len(program.final) \in Nat
    BY ProgramAssumption DEF CInv, TypeOK, program
  <2>3. \A r \in live \cap owned : \E k \in kind'..Len(program.final) : program.final[k] = r[1]
    <3> SUFFICES ASSUME NEW r \in live \cap owned
                 PROVE  \E k \in kind'..Len(program.final) : program.final[k] = r[1]
      OBVIOUS
    <3>1. PICK k \in kind..Len(program.final) : program.final[k] = r[1]
      BY <2>1 DEF CInv, Progressing
    <3>2. r[1] # program.final[kind]
      BY <1>17 DEF NextKind, ToRelease
    <3>3. k # kind /\ k \in kind'..Len(program.final)
      BY <3>1, <3>2, <2>1, <2>2
    <3> QED BY <3>1, <3>3
  <2>4. TypeOK' /\ Placed' /\ NothingForgotten'
    BY <2>1, <2>2 DEF CInv, TypeOK, Placed, NothingForgotten, program
  <2>5. Progressing'
    BY <2>1, <2>3 DEF Progressing, program
  <2> QED BY <2>4, <2>5 DEF CInv
<1>20. CASE MissRecord
  BY <1>0, <1>20, CallKeeps DEF MissRecord
<1>18. CASE Exit
  <2>1. phase = "final" /\ kind > Len(program.final) /\ phase' = "done"
        /\ UNCHANGED <<script, pc, inTry, open, ok, stuck, kind, live, owned>>
    BY <1>18 DEF Exit
  <2>2. kind \in Nat \ {0} /\ Len(program.final) \in Nat
    BY ProgramAssumption DEF CInv, TypeOK, program
  <2>3. live \cap owned = {}
    BY <2>1, <2>2 DEF CInv, Progressing
  <2> QED BY <2>1, <2>3 DEF CInv, TypeOK, Placed, Progressing, NothingForgotten, program
<1>19. CASE Device \/ Reader \/ UNCHANGED vars
  <2>1. UNCHANGED <<script, hostVars>>
    BY <1>19 DEF Device, Reader, Execute, StartRead, EndRead, vars
  <2> QED BY <2>1 DEF hostVars, CInv, TypeOK, Placed, Progressing, NothingForgotten, program
<1> QED
  BY <1>1, <1>2, <1>3, <1>4, <1>5, <1>6, <1>7, <1>8, <1>9, <1>10, <1>11, <1>12, <1>13, <1>14, <1>15,
     <1>16, <1>17, <1>18, <1>19, <1>20 DEF Next, Host, Progress

(* Resources and positions keep their types, and the pool is left before    *)
(* the finally block starts, for any scripts.                               *)
THEOREM TypeCorrect == Spec => []TypeOK
<1>1. CInv => TypeOK
  BY DEF CInv
<1> QED BY <1>1, InitCInv, NextCInv, PTL DEF Spec

(* Whatever script runs and wherever it fails, its finally block releases   *)
(* all that it knows of (sage_oracle_cuda_*.py), unless a release fails.    *)
THEOREM NothingForgottenTheorem == Spec => []NothingForgotten
<1>1. CInv => NothingForgotten
  BY DEF CInv
<1> QED BY <1>1, InitCInv, NextCInv, PTL DEF Spec

-----------------------------------------------------------------------------
(* What exists and what the finally block knows of is told by how far the   *)
(* script has come, and a run without a failure came to its end.            *)
Tracking ==
    /\ pc <= Len(program.body) + 1
    /\ owned = KnownAt(program, pc)
    /\ inTry = TriedAt(program, pc)
    /\ phase \in {"run", "join"} => live = AliveAt(program, pc)
    /\ stuck => ~ok
    /\ ok /\ phase # "run" => inTry /\ live \subseteq owned

LEMMA LengthIsNat == ASSUME script \in DOMAIN Programs PROVE Len(program.body) \in Nat
BY ProgramAssumption DEF program

(* One more call: what exists and is known after it.                        *)
LEMMA AliveNext ==
    ASSUME NEW p, NEW i \in Nat \ {0}
    PROVE  /\ p.body[i].do \in {"alloc", "take"} /\ p.body[i].res \in p.resources
                => AliveAt(p, i + 1) = AliveAt(p, i) \cup {p.body[i].res}
           /\ p.body[i].do = "free" => AliveAt(p, i + 1) = AliveAt(p, i) \ {p.body[i].res}
           /\ p.body[i].do \notin {"alloc", "take", "free"} => AliveAt(p, i + 1) = AliveAt(p, i)
<1> DEFINE Made(j, r) == Has(p, j, {"alloc", "take"}, r)
           Freed(k, r) == Has(p, k, {"free"}, r)
           In(n, r) == \E j \in 1..n : Made(j, r) /\ \A k \in (j + 1)..n : ~Freed(k, r)
<1>1. AliveAt(p, i) = {r \in p.resources : In(i - 1, r)}
  BY DEF AliveAt
<1>2. AliveAt(p, i + 1) = {r \in p.resources : In(i, r)}
  <2>1. (i + 1) - 1 = i
    OBVIOUS
  <2> QED BY <2>1 DEF AliveAt
<1>3. \A r : In(i, r) <=> \/ Made(i, r)
                          \/ In(i - 1, r) /\ ~Freed(i, r)
  <2> SUFFICES ASSUME NEW r PROVE In(i, r) <=> Made(i, r) \/ (In(i - 1, r) /\ ~Freed(i, r))
    OBVIOUS
  <2> HIDE DEF Made, Freed
  <2>1. ASSUME In(i, r), ~Made(i, r) PROVE In(i - 1, r) /\ ~Freed(i, r)
    BY <2>1
  <2>2. ASSUME Made(i, r) PROVE In(i, r)
    <3>1. \A k \in (i + 1)..i : ~Freed(k, r)
      OBVIOUS
    <3> QED BY <2>2, <3>1
  <2>3. ASSUME In(i - 1, r), ~Freed(i, r) PROVE In(i, r)
    <3>1. PICK j \in 1..(i - 1) : Made(j, r) /\ \A k \in (j + 1)..(i - 1) : ~Freed(k, r)
      BY <2>3
    <3>2. \A k \in (j + 1)..i : k \in (j + 1)..(i - 1) \/ k = i
      OBVIOUS
    <3> QED BY <3>1, <3>2, <2>3
  <2> QED BY <2>1, <2>2, <2>3
<1> HIDE DEF In
<1>4. \A r : /\ Made(i, r) <=> p.body[i].do \in {"alloc", "take"} /\ p.body[i].res = r
             /\ Freed(i, r) <=> p.body[i].do = "free" /\ p.body[i].res = r
  BY DEF Has
<1> HIDE DEF Made, Freed
<1> QED BY <1>1, <1>2, <1>3, <1>4

LEMMA KnownNext ==
    ASSUME NEW p, NEW i \in Nat \ {0}
    PROVE  /\ KnownAt(p, i + 1) = KnownAt(p, i) \cup {r \in p.resources : Tells(p.body[i], r)}
           /\ TriedAt(p, i + 1) <=> TriedAt(p, i) \/ p.body[i].do = "try"
<1>1. (i + 1) - 1 = i /\ \A j : j \in 1..i <=> j \in 1..(i - 1) \/ j = i
  OBVIOUS
<1>2. \A r : (\E j \in 1..i : Tells(p.body[j], r))
                <=> (\E j \in 1..(i - 1) : Tells(p.body[j], r)) \/ Tells(p.body[i], r)
  BY <1>1
<1>3. (\E j \in 1..i : p.body[j].do = "try")
                <=> (\E j \in 1..(i - 1) : p.body[j].do = "try") \/ p.body[i].do = "try"
  BY <1>1
<1> QED BY <1>1, <1>2, <1>3 DEF KnownAt, TriedAt

LEMMA TrackedCall ==
    ASSUME TypeOK, Tracking, Running, pc' = pc + 1, UNCHANGED <<script, phase, ok, stuck>>,
           live' = AliveAt(program, pc + 1), owned' = KnownAt(program, pc + 1),
           inTry' = TriedAt(program, pc + 1)
    PROVE  Tracking'
<1>1. pc \in Nat \ {0} /\ pc <= Len(program.body) /\ Len(program.body) \in Nat /\ phase = "run"
  BY LengthIsNat DEF TypeOK, Running
<1>2. pc' <= Len(program.body) + 1 /\ program' = program
  BY <1>1 DEF program
<1> QED BY <1>1, <1>2 DEF Tracking

(* A call that takes, makes or frees nothing.                               *)
LEMMA TrackedWork ==
    ASSUME TypeOK, Tracking, Running, Op.do \notin {"alloc", "take", "free", "own", "try"},
           pc' = pc + 1, UNCHANGED <<script, phase, ok, stuck, live, owned, inTry>>
    PROVE  Tracking'
<1>1. pc \in Nat \ {0} /\ Op = program.body[pc] /\ phase = "run"
  BY DEF TypeOK, Running, Op
<1>2. live' = AliveAt(program, pc + 1)
  BY <1>1, AliveNext DEF Tracking
<1>3. KnownAt(program, pc + 1) = KnownAt(program, pc)
  BY <1>1, KnownNext DEF Tells
<1>4. TriedAt(program, pc + 1) <=> TriedAt(program, pc)
  BY <1>1, KnownNext
<1>5. owned' = KnownAt(program, pc + 1) /\ inTry' = TriedAt(program, pc + 1)
  BY <1>1, <1>3, <1>4 DEF Tracking, TriedAt
<1> QED BY <1>2, <1>5, TrackedCall

(* The main thread stops: after a failure, or at its end, where the script's *)
(* order says that nothing is left that finally does not know of.           *)
LEMMA TrackedEnd ==
    ASSUME TypeOK, Tracking, phase \in {"run", "join"}, phase' # "run",
           UNCHANGED <<script, pc, inTry, stuck, live, owned>>,
           ~ok' \/ (ok' = ok /\ (phase = "join" \/ pc > Len(program.body)))
    PROVE  Tracking'
<1>0. script \in DOMAIN Programs
  BY DEF TypeOK
<1>1. program' = program
  BY DEF program
<1>s. stuck' => ~ok'
  BY DEF Tracking
<1>2. ASSUME ok', phase = "run" PROVE inTry /\ live \subseteq owned
  <2>0. pc > Len(program.body)
    BY <1>2
  <2>1. pc = Len(program.body) + 1
    BY <2>0, <1>0, LengthIsNat DEF Tracking, TypeOK
  <2>2. /\ AliveAt(program, Len(program.body) + 1) \subseteq KnownAt(program, Len(program.body) + 1)
        /\ TriedAt(program, Len(program.body) + 1)
    BY <1>0, OrderAssumption DEF program
  <2> QED BY <1>2, <2>1, <2>2 DEF Tracking
<1>3. ok' => inTry /\ live \subseteq owned
  <2>1. ok' /\ phase # "run" => ok
    OBVIOUS
  <2> QED BY <1>2, <2>1 DEF Tracking
<1>4. inTry' <=> inTry
  OBVIOUS
<1>5. ok' /\ phase' # "run" => inTry' /\ live' \subseteq owned'
  BY <1>3, <1>4
<1>6. phase' \in {"run", "join"} => live' = AliveAt(program, pc)
  BY DEF Tracking
<1>7. pc' <= Len(program.body) + 1 /\ owned' = KnownAt(program, pc) /\ inTry' = TriedAt(program, pc)
  BY DEF Tracking
<1> QED BY <1>1, <1>s, <1>5, <1>6, <1>7 DEF Tracking

LEMMA InitTracking == Init => Tracking
<1> SUFFICES ASSUME Init PROVE Tracking
  OBVIOUS
<1>1. /\ pc = 1 /\ script \in DOMAIN Programs /\ phase = "run"
      /\ owned = {} /\ live = {} /\ inTry = FALSE /\ stuck = FALSE
  BY DEF Init
<1>2. 1 <= Len(program.body) + 1
  BY <1>1, LengthIsNat
<1>3. AliveAt(program, 1) = {} /\ KnownAt(program, 1) = {} /\ TriedAt(program, 1) = FALSE
  BY DEF AliveAt, KnownAt, TriedAt
<1> QED BY <1>1, <1>2, <1>3 DEF Tracking

LEMMA NextTracking == TypeOK /\ Tracking /\ [Next]_vars => Tracking'
<1> SUFFICES ASSUME TypeOK, Tracking, [Next]_vars PROVE Tracking'
  OBVIOUS
<1> USE DEF Proceed, At, poolVars
<1>0. script \in DOMAIN Programs /\ pc \in Nat \ {0} /\ Op = program.body[pc]
  BY DEF TypeOK, Op
<1>w. ASSUME Running, phase = "run" PROVE /\ live = AliveAt(program, pc)
                            /\ owned = KnownAt(program, pc) /\ inTry = TriedAt(program, pc)
  BY <1>w DEF Running, Tracking
<1>1. CASE Acquire
  <2>1. Running /\ phase = "run" /\ Op.do \in {"alloc", "take"} /\ Op.res \in program.resources
    BY <1>0, <1>1, CallAssumption DEF Acquire, Running
  <2>2. live' = AliveAt(program, pc + 1)
    BY <1>0, <1>1, <1>w, <2>1, AliveNext DEF Acquire
  <2>3. owned' = KnownAt(program, pc + 1)
    BY <1>0, <1>1, <1>w, <2>1, KnownNext DEF Acquire, Tells
  <2>4. inTry' = TriedAt(program, pc + 1)
    <3>1. TriedAt(program, pc + 1) <=> TriedAt(program, pc)
      BY <1>0, <2>1, KnownNext
    <3> QED BY <3>1, <1>1, <1>w, <2>1 DEF Acquire, TriedAt
  <2> QED BY <2>1, <2>2, <2>3, <2>4, <1>1, TrackedCall DEF Acquire
<1>2. CASE Remember
  <2>1. Running /\ phase = "run" /\ Op.do = "own" /\ Op.all \subseteq program.resources
    <3>1. Op.all \subseteq Remembered(program)
      BY <1>0, <1>2, CallAssumption DEF Remember
    <3> QED BY <3>1, <1>0, <1>2, RememberedHasPlace DEF Remember, Running
  <2>2. live' = AliveAt(program, pc + 1)
    BY <1>0, <1>2, <1>w, <2>1, AliveNext DEF Remember
  <2>3. owned' = KnownAt(program, pc + 1)
    BY <1>0, <1>2, <1>w, <2>1, KnownNext DEF Remember, Tells
  <2>4. inTry' = TriedAt(program, pc + 1)
    <3>1. TriedAt(program, pc + 1) <=> TriedAt(program, pc)
      BY <1>0, <2>1, KnownNext
    <3> QED BY <3>1, <1>2, <1>w, <2>1 DEF Remember, TriedAt
  <2> QED BY <2>1, <2>2, <2>3, <2>4, <1>2, TrackedCall DEF Remember
<1>3. CASE ReleaseNow
  <2>1. Running /\ phase = "run" /\ Op.do = "free"
    BY <1>3 DEF ReleaseNow, Running
  <2>2. live' = AliveAt(program, pc + 1)
    BY <1>0, <1>3, <1>w, <2>1, AliveNext DEF ReleaseNow
  <2>3. owned' = KnownAt(program, pc + 1)
    BY <1>0, <1>3, <1>w, <2>1, KnownNext DEF ReleaseNow, Tells
  <2>4. inTry' = TriedAt(program, pc + 1)
    <3>1. TriedAt(program, pc + 1) <=> TriedAt(program, pc)
      BY <1>0, <2>1, KnownNext
    <3> QED BY <3>1, <1>3, <1>w, <2>1 DEF ReleaseNow, TriedAt
  <2> QED BY <2>1, <2>2, <2>3, <2>4, <1>3, TrackedCall DEF ReleaseNow
<1>4. CASE EnterBlock
  <2>1. Running /\ phase = "run" /\ Op.do \in {"try", "open", "check"}
    BY <1>4 DEF EnterBlock, Running
  <2>2. live' = AliveAt(program, pc + 1)
    BY <1>0, <1>4, <1>w, <2>1, AliveNext DEF EnterBlock
  <2>3. owned' = KnownAt(program, pc + 1)
    <3>1. \A r : ~Tells(Op, r)
      BY <2>1 DEF Tells
    <3>2. KnownAt(program, pc + 1) = KnownAt(program, pc)
      BY <3>1, <1>0, KnownNext
    <3> QED BY <3>2, <1>4, <1>w, <2>1 DEF EnterBlock
  <2>4. inTry' = TriedAt(program, pc + 1)
    <3>1. TriedAt(program, pc + 1) <=> TriedAt(program, pc) \/ Op.do = "try"
      BY <1>0, KnownNext
    <3> QED BY <3>1, <1>4, <1>w, <2>1 DEF EnterBlock, TriedAt
  <2> QED BY <2>1, <2>2, <2>3, <2>4, <1>4, TrackedCall DEF EnterBlock
<1>5. CASE Fill \/ Enqueue \/ MissRecord \/ Synchronize \/ ReadBack \/ SubmitRead \/ AwaitRead \/ LeavePool
  <2>1. Running /\ Op.do \notin {"alloc", "take", "free", "own", "try"}
    BY <1>5 DEF Fill, Enqueue, MissRecord, Synchronize, ReadBack, SubmitRead, AwaitRead, LeavePool, Asynchronous
  <2>2. pc' = pc + 1 /\ UNCHANGED <<script, phase, ok, stuck, live, owned, inTry>>
    BY <1>5 DEF Fill, Enqueue, MissRecord, Synchronize, ReadBack, SubmitRead, AwaitRead, LeavePool
  <2> QED BY <2>1, <2>2, TrackedWork
<1>6. CASE Fails
  BY <1>6, TrackedEnd DEF Fails, Leaving, Running
<1>7. CASE Joined
  BY <1>7, TrackedEnd DEF Joined
<1>8. CASE Completed
  BY <1>8, TrackedEnd DEF Completed, Leaving
<1>9. CASE Release \/ ReleaseFails \/ NextKind \/ Exit
  <2>1. /\ UNCHANGED <<script, pc, inTry, owned>> /\ live' \subseteq live
        /\ phase \notin {"run", "join"} /\ phase' \notin {"run", "join"}
        /\ UNCHANGED <<ok, stuck>> \/ ~ok'
    BY <1>9 DEF Release, ReleaseFails, NextKind, Exit, Cleaning
  <2> QED BY <2>1 DEF Tracking, program
<1>10. CASE Device \/ Reader \/ UNCHANGED vars
  <2>1. UNCHANGED <<script, hostVars>>
    BY <1>10 DEF Device, Reader, Execute, StartRead, EndRead, vars
  <2> QED BY <2>1 DEF hostVars, Tracking, program
<1> QED
  BY <1>1, <1>2, <1>3, <1>4, <1>5, <1>6, <1>7, <1>8, <1>9, <1>10 DEF Next, Host, Progress

-----------------------------------------------------------------------------
(* What is queued on the streams are calls of the script, on buffers that   *)
(* exist and with a device buffer that the finally block knows of.          *)
Work == Positions(program, Asynchronous)
Safe(j) == LET op == program.body[j] IN
           op.do \in {"copy", "kernel"} => Uses(op) \subseteq live /\ OnDevice(op) \in owned
QueueTyped == queue \in [Of({"stream"}) -> Seq(Work)]
AllSafe == \A s \in Of({"stream"}) : \A i \in 1..Len(queue[s]) : Safe(queue[s][i])

LEMMA InitQueue == Init => QueueTyped /\ AllSafe
<1> SUFFICES ASSUME Init PROVE QueueTyped /\ AllSafe
  OBVIOUS
<1>1. queue = [s \in Of({"stream"}) |-> <<>>]
  BY DEF Init
<1> QED BY <1>1 DEF QueueTyped, AllSafe

LEMMA EnqueueOp ==
    ASSUME TypeOK, Tracking, Enqueue
    PROVE  /\ pc \in Work /\ Safe(pc)
           /\ Op.stream \in Of({"stream"})
<1>1. /\ phase = "run" /\ script \in DOMAIN Programs
      /\ pc \in 1..Len(program.body) /\ Op = program.body[pc] /\ Op.do \in Asynchronous
  BY LengthIsNat DEF Enqueue, At, Running, TypeOK, Op
<1>2. pc \in Work /\ Op \in Calls(program, Asynchronous)
  BY <1>1 DEF Work, Positions, Calls
<1>3. Op.do \in {"copy", "kernel"} => Uses(Op) \subseteq AliveAt(program, pc)
                                      /\ OnDevice(Op) \in KnownAt(program, pc)
  BY <1>1, OrderAssumption DEF program
<1>4. live = AliveAt(program, pc) /\ owned = KnownAt(program, pc)
  BY <1>1 DEF Tracking
<1>5. Op.stream \in program.resources /\ Op.stream[1] = "stream"
  <2>1. NamesKnown(program)
    BY <1>1, SyncAssumption DEF program
  <2> QED BY <2>1, <1>2 DEF NamesKnown
<1>6. Safe(pc)
  BY <1>1, <1>3, <1>4 DEF Safe
<1> QED BY <1>2, <1>5, <1>6 DEF Of

LEMMA EnqueueSafe ==
    ASSUME TypeOK, QueueTyped, AllSafe, Tracking, Enqueue
    PROVE  (QueueTyped /\ AllSafe)'
<1>1. UNCHANGED <<script, live, owned>> /\ queue' = [queue EXCEPT ![Op.stream] = Append(@, pc)]
  BY DEF Enqueue, Proceed
<1>2. pc \in Work /\ Safe(pc)
  BY EnqueueOp
<1>3. Work' = Work /\ Of({"stream"})' = Of({"stream"})
  BY <1>1 DEF Work, Of, program
<1>4. ASSUME NEW s \in Of({"stream"})
      PROVE  /\ queue'[s] \in Seq(Work)
             /\ \A i \in 1..Len(queue'[s]) : Safe(queue'[s][i])
  <2>1. queue[s] \in Seq(Work) /\ \A i \in 1..Len(queue[s]) : Safe(queue[s][i])
    BY DEF QueueTyped, AllSafe
  <2>2. queue'[s] = queue[s] \/ queue'[s] = Append(queue[s], pc)
    BY <1>1 DEF QueueTyped
  <2> HIDE DEF Safe, Work
  <2>3. CASE queue'[s] = Append(queue[s], pc)
    <3>1. /\ queue'[s] \in Seq(Work) /\ Len(queue'[s]) = Len(queue[s]) + 1
          /\ queue'[s][Len(queue[s]) + 1] = pc
          /\ \A i \in 1..Len(queue[s]) : queue'[s][i] = queue[s][i]
      BY <2>1, <2>3, <1>2
    <3>2. Len(queue[s]) \in Nat
      BY <2>1
    <3>3. \A i \in 1..Len(queue'[s]) : i \in 1..Len(queue[s]) \/ i = Len(queue[s]) + 1
      BY <3>1, <3>2
    <3> QED BY <3>1, <3>3, <2>1, <1>2
  <2> QED BY <2>1, <2>2, <2>3
<1>5. queue' \in [Of({"stream"}) -> Seq(Work)]
  <2>1. DOMAIN queue' = Of({"stream"}) /\ queue' = [s \in Of({"stream"}) |-> queue'[s]]
    BY <1>1 DEF QueueTyped
  <2> QED BY <2>1, <1>4
<1>6. AllSafe'
  <2>1. \A j : Safe(j)' <=> Safe(j)
    BY <1>1 DEF Safe, program
  <2> HIDE DEF Safe
  <2> QED BY <1>3, <1>4, <2>1 DEF AllSafe
<1> QED BY <1>3, <1>5, <1>6 DEF QueueTyped

(* A stream works off its queue.                                            *)
LEMMA ExecuteSafe ==
    ASSUME QueueTyped, AllSafe, NEW x \in Of({"stream"}), Execute(x)
    PROVE  (QueueTyped /\ AllSafe)'
<1>1. UNCHANGED <<script, live, owned>> /\ queue[x] # <<>>
      /\ queue' = [queue EXCEPT ![x] = Tail(@)]
  BY DEF Execute, hostVars
<1>2. Work' = Work /\ Of({"stream"})' = Of({"stream"})
  BY <1>1 DEF Work, Of, program
<1>3. ASSUME NEW s \in Of({"stream"})
      PROVE  /\ queue'[s] \in Seq(Work)
             /\ \A i \in 1..Len(queue'[s]) : Safe(queue'[s][i])
  <2>1. queue[s] \in Seq(Work) /\ \A i \in 1..Len(queue[s]) : Safe(queue[s][i])
    BY DEF QueueTyped, AllSafe
  <2>2. CASE s # x
    BY <1>1, <2>1, <2>2 DEF QueueTyped
  <2>3. CASE s = x
    <3>1. queue'[s] = Tail(queue[s]) /\ queue[s] # <<>>
      BY <1>1, <2>3 DEF QueueTyped
    <3>2. /\ queue'[s] \in Seq(Work) /\ Len(queue'[s]) = Len(queue[s]) - 1 /\ Len(queue[s]) \in Nat
          /\ \A i \in 1..Len(queue'[s]) : queue'[s][i] = queue[s][i + 1]
      BY <3>1, <2>1
    <3>3. \A i \in 1..Len(queue'[s]) : i + 1 \in 1..Len(queue[s])
      BY <3>2
    <3> QED BY <3>2, <3>3, <2>1
  <2> QED BY <2>2, <2>3
<1>4. queue' \in [Of({"stream"}) -> Seq(Work)]
  <2>1. DOMAIN queue' = Of({"stream"}) /\ queue' = [s \in Of({"stream"}) |-> queue'[s]]
    BY <1>1 DEF QueueTyped
  <2> QED BY <2>1, <1>3
<1>5. AllSafe'
  BY <1>1, <1>2, <1>3 DEF AllSafe, Safe, program
<1> QED BY <1>1, <1>2, <1>4, <1>5 DEF QueueTyped

(* The queues stay as they are, and what their work uses stays.             *)
LEMMA KeptSafe ==
    ASSUME QueueTyped, AllSafe, UNCHANGED <<script, queue>>, owned \subseteq owned',
           \A s \in Of({"stream"}) : \A i \in 1..Len(queue[s]) :
                LET op == program.body[queue[s][i]] IN
                op.do \in {"copy", "kernel"} => Uses(op) \cap live \subseteq live'
    PROVE  (QueueTyped /\ AllSafe)'
<1>1. Work' = Work /\ Of({"stream"})' = Of({"stream"})
  BY DEF Work, Of, program
<1>2. QueueTyped'
  BY <1>1 DEF QueueTyped
<1>3. AllSafe'
  BY <1>1 DEF AllSafe, Safe, program
<1> QED BY <1>2, <1>3

(* While work is queued the finally block has not come past the device      *)
(* memory, which it frees only when the device is idle, to the pinned one.  *)
LEMMA ReleaseSafe ==
    ASSUME CInv, QueueTyped, AllSafe, Release
    PROVE  (QueueTyped /\ AllSafe)'
<1> DEFINE gone == CHOOSE r \in ToRelease : TRUE
<1>1. /\ UNCHANGED <<script, queue, owned>> /\ live' = live \ {gone}
      /\ gone \in ToRelease /\ phase = "final" /\ kind <= Len(program.final)
      /\ program.final[kind] \in DeviceMemory => Idle
  BY DEF Release, Cleaning
<1>2. /\ script \in DOMAIN Programs /\ kind \in Nat \ {0} /\ Len(program.final) \in Nat
  BY ProgramAssumption DEF CInv, TypeOK, program
<1> HIDE DEF gone
<1>3. ASSUME NEW s \in Of({"stream"}), NEW i \in 1..Len(queue[s]),
             program.body[queue[s][i]].do \in {"copy", "kernel"}
      PROVE  gone \notin Uses(program.body[queue[s][i]])
  <2> DEFINE op == program.body[queue[s][i]]
  <2>1. queue[s] \in Seq(Work) /\ queue[s][i] \in Work
    BY DEF QueueTyped
  <2>2. queue[s] # <<>>
    BY <2>1
  <2>3. program.final[kind] \notin DeviceMemory
    BY <1>1, <2>2 DEF Idle
  <2>4. op \in Launches(program)
    BY <2>1, <1>3 DEF Work, Positions, Launches, Calls
  <2>5. OnDevice(op)[1] \in DeviceMemory /\ \A r \in Uses(op) : r[1] \in DeviceMemory \cup {"host"}
    BY <2>4, <1>2, OrderAssumption DEF program
  <2>6. OnDevice(op) \in owned /\ OnDevice(op) \in Uses(op) /\ OnDevice(op) \in live
    BY <1>3 DEF AllSafe, Safe, OnDevice, Uses
  <2>7. PICK k \in kind..Len(program.final) : program.final[k] = OnDevice(op)[1]
    BY <2>6, <1>1 DEF CInv, Progressing
  <2>8. program.final[kind] # "host"
    <3>1. SUFFICES ASSUME program.final[kind] = "host" PROVE FALSE
      OBVIOUS
    <3>2. k \in 1..Len(program.final) /\ kind \in 1..Len(program.final)
      BY <1>1, <1>2
    <3>3. k < kind
      BY <3>1, <3>2, <2>5, <2>7, <1>2, OrderAssumption DEF program
    <3> QED BY <3>2, <3>3
  <2>9. gone[1] = program.final[kind]
    BY <1>1 DEF ToRelease
  <2> QED BY <2>3, <2>5, <2>8, <2>9
<1> QED BY <1>1, <1>3, KeptSafe

LEMMA NextSafe ==
    CInv /\ Tracking /\ QueueTyped /\ AllSafe /\ [Next]_vars => (QueueTyped /\ AllSafe)'
<1> SUFFICES ASSUME CInv, Tracking, QueueTyped, AllSafe, [Next]_vars PROVE (QueueTyped /\ AllSafe)'
  OBVIOUS
<1> USE DEF Proceed
<1>1. CASE Acquire \/ Remember
  BY <1>1, KeptSafe DEF Acquire, Remember
<1>2. CASE ReleaseNow
  <2>1. UNCHANGED <<script, queue, owned>> /\ \A s \in Of({"stream"}) : queue[s] = <<>>
    BY <1>2 DEF ReleaseNow, Idle
  <2> QED BY <2>1, KeptSafe
<1>3. CASE EnterBlock \/ Fill \/ Synchronize \/ ReadBack \/ SubmitRead \/ AwaitRead \/ LeavePool
           \/ MissRecord \/ Fails \/ Joined \/ Completed \/ ReleaseFails \/ NextKind \/ Exit
  <2>1. UNCHANGED <<script, queue, owned, live>>
    BY <1>3 DEF EnterBlock, Fill, Synchronize, ReadBack, SubmitRead, AwaitRead, LeavePool,
                MissRecord, Fails, Joined, Completed, ReleaseFails, NextKind, Exit
  <2> QED BY <2>1, KeptSafe
<1>4. CASE Enqueue
  BY <1>4, EnqueueSafe DEF CInv
<1>5. CASE Release
  BY <1>5, ReleaseSafe
<1>6. CASE Device
  BY <1>6, ExecuteSafe DEF Device
<1>7. CASE Reader \/ UNCHANGED vars
  <2>1. UNCHANGED <<script, queue, owned, live>>
    BY <1>7 DEF Reader, StartRead, EndRead, vars, hostVars
  <2> QED BY <2>1, KeptSafe
<1> QED BY <1>1, <1>2, <1>3, <1>4, <1>5, <1>6, <1>7 DEF Next, Host, Progress

(* No script releases a buffer twice or under queued work, at whichever of  *)
(* its calls it fails, and when it succeeds all it allocated is released    *)
(* (the finally blocks of sage_oracle_cuda_*.py and sage_kv_tier_smoke.py). *)
THEOREM BuffersTheorem == Spec => []BuffersReleasedOnce
<1>1. CInv => TypeOK /\ NothingForgotten
  BY DEF CInv
<1>2. CInv /\ Tracking /\ AllSafe => BuffersReleasedOnce
  <2> SUFFICES ASSUME CInv, Tracking, AllSafe PROVE BuffersReleasedOnce
    OBVIOUS
  <2>1. script \in DOMAIN Programs /\ pc \in 1..(Len(program.body) + 1)
    BY LengthIsNat DEF CInv, TypeOK, Tracking
  <2>2. KnownAt(program, pc) \subseteq AliveAt(program, pc)
    BY <2>1, OrderAssumption DEF program
  <2>3. NothingReleasedTwice
    BY <2>2 DEF Tracking, NothingReleasedTwice
  <2>4. NoUseAfterRelease
    BY DEF AllSafe, Safe, NoUseAfterRelease
  <2>5. SuccessLeavesNothing
    BY <1>1 DEF Tracking, NothingForgotten, SuccessLeavesNothing
  <2> QED BY <2>3, <2>4, <2>5 DEF BuffersReleasedOnce
<1> QED
  BY <1>1, <1>2, InitCInv, NextCInv, InitTracking, NextTracking, InitQueue, NextSafe, PTL DEF Spec

-----------------------------------------------------------------------------
(* The content of buffers.  The text of a script says which call is over    *)
(* before which other (CudaOrder!Settled); the invariant says that the run  *)
(* keeps to it, and that memory and outputs hold what the calls that are    *)
(* over have left there.                                                    *)

(* A call that is on a stream's queue, and one made that is on none.        *)
Queued(j) == \E s \in Of({"stream"}) : \E i \in 1..Len(queue[s]) : queue[s][i] = j
Past(j) == j < pc /\ ~Queued(j)

(* The queues hold, in the order of the script, the last calls queued.      *)
QueueOrdered ==
    /\ \A s \in Of({"stream"}) : \A i \in 1..Len(queue[s]) :
          /\ queue[s][i] < pc /\ program.body[queue[s][i]].stream = s
          /\ \A l \in 1..Len(queue[s]) : i < l => queue[s][i] < queue[s][l]
    /\ \A j, k \in Work :
          j < k /\ k < pc /\ SameStream(program, j, k) /\ Queued(j) /\ k \notin missed => Queued(k)

(* Only records that nobody looks at are missed, and they are on no queue.  *)
MissedKept ==
    \A k \in missed : k \in Work /\ k < pc /\ program.body[k].do = "record" /\ ~program.body[k].checked /\ ~Queued(k)

(* An event has passed the records of it that were executed.                *)
EventsCount ==
    /\ finished \in [Of({"event"}) -> Nat]
    /\ \A e \in Of({"event"}) : finished[e] < pc
    /\ \A e \in Of({"event"}) : \A j \in Records(program, pc, e) \ missed : Queued(j) <=> finished[e] < j

(* What a wait, a synchronization, a draining call and the result of a read *)
(* waited for has happened.                                                 *)
WaitsMet == \A w \in Positions(program, {"wait"}) : Past(w) =>
                \A m \in SureRecords(program, w, program.body[w].event) : ~Queued(m)
SyncsMet == \A c \in Positions(program, {"sync"}) : c < pc =>
                \A n \in Records(program, c, program.body[c].event) : ~Queued(n)
DrainsMet == \A c \in Positions(program, Draining) : c < pc => \A j : Queued(j) => c < j
AwaitsMet == \A a \in Positions(program, {"await"}) : a < pc => result[program.body[a].stage] = "ok"

(* The pool's reads, waiting and running, are different ones, each of a     *)
(* submit whose stage has no result yet, and there are none once it closed. *)
Task(j) == [to |-> program.body[j].to, stage |-> program.body[j].stage]
Submitted == {j \in Positions(program, {"submit"}) : j < pc}
Unread == {j \in Submitted : result[program.body[j].stage] = "none"}
Pending == reading \cup {waiting[i] : i \in 1..Len(waiting)}
PoolKept ==
    /\ result \in [1..program.stages -> {"none", "ok", "failed"}]
    /\ waiting \in Seq({Task(j) : j \in Positions(program, {"submit"})})
    /\ \A i \in 1..Len(waiting) : /\ waiting[i] \notin reading
                                  /\ \A l \in 1..Len(waiting) : waiting[i] = waiting[l] => i = l
    /\ \A t \in Pending : \E j \in Unread : t = Task(j)
    /\ \A i \in 1..program.stages : result[i] # "none" => \E j \in Submitted : program.body[j].stage = i
    /\ phase = "run" => (open <=> OpenAt(program, pc))
    /\ ~open => PoolIsIdle

(* A call that may have had an effect, and one that has had all of it.      *)
Begun(j) == Past(j) \/ (j = pc /\ program.body[j].do \notin Asynchronous)
Over(j) == Past(j) /\ (program.body[j].do = "submit" => result[program.body[j].stage] = "ok")

(* A buffer holds what the last call that wrote it wrote, unless a later    *)
(* one has begun.                                                           *)
Current(b, w) == Over(w) /\ \A v \in Writes(program, b) : w < v => ~Begun(v)
MemoryFollows ==
    /\ DOMAIN mem = Buffers /\ mem = [b \in Buffers |-> mem[b]]
    /\ \A b \in Buffers : \A w \in Writes(program, b) : Current(b, w) => mem[b] = Written(program.body[w])

(* An output holds the launches executed since it was last zeroed.          *)
Zeroed(o, z) == Past(z) /\ \A y \in Zeros(program, o) : z < y => ~Past(y)
SumsFollow ==
    /\ DOMAIN acc = Outputs /\ acc = [o \in Outputs |-> acc[o]]
    /\ \A o \in Outputs : \A z \in Zeros(program, o) : Zeroed(o, z) =>
          acc[o] = {program.body[k].launch : k \in {j \in Sums(program, o) : z < j /\ Past(j)}}

(* The shapes of a step, to the streams and the main thread.                *)
Quiet == UNCHANGED <<script, pc, queue, finished, missed>>
Called ==
    /\ UNCHANGED <<script, queue, finished, missed>>
    /\ Running /\ pc' = pc + 1 /\ Op.do \notin Asynchronous
    /\ Op.do \in Draining => Idle
    /\ Op.do = "sync" => Reached(Op.event)

LEMMA StepShape ==
    ASSUME [Next]_vars
    PROVE  Quiet \/ Called \/ Enqueue \/ MissRecord \/ \E x \in Of({"stream"}) : Execute(x)
<1> USE DEF Proceed, At, Asynchronous, Draining
<1>1. CASE Acquire \/ Remember \/ EnterBlock \/ SubmitRead \/ AwaitRead \/ LeavePool
  BY <1>1 DEF Acquire, Remember, EnterBlock, SubmitRead, AwaitRead, LeavePool, Called
<1>2. CASE ReleaseNow \/ Fill
  BY <1>2 DEF ReleaseNow, Fill, Called
<1>3. CASE Synchronize
  BY <1>3 DEF Synchronize, Called
<1>4. CASE ReadBack
  BY <1>4 DEF ReadBack, Called
<1>5. CASE Fails \/ Joined \/ Completed \/ Release \/ ReleaseFails \/ NextKind \/ Exit
  BY <1>5 DEF Fails, Joined, Completed, Release, ReleaseFails, NextKind, Exit, Quiet
<1>6. CASE Reader \/ UNCHANGED vars
  BY <1>6 DEF Reader, StartRead, EndRead, vars, hostVars, Quiet
<1>7. CASE Device
  BY <1>7 DEF Device
<1> QED BY <1>1, <1>2, <1>3, <1>4, <1>5, <1>6, <1>7 DEF Next, Host, Progress

LEMMA QueuedCall ==
    ASSUME QueueTyped, QueueOrdered, NEW j, Queued(j)
    PROVE  j \in Work /\ j \in Nat /\ j < pc
<1>1. PICK s \in Of({"stream"}) : \E i \in 1..Len(queue[s]) : queue[s][i] = j
  BY DEF Queued
<1>2. PICK i \in 1..Len(queue[s]) : queue[s][i] = j
  BY <1>1
<1>3. queue[s] \in Seq(Work)
  BY DEF QueueTyped
<1>4. queue[s][i] \in Work
  BY <1>3
<1>5. j < pc
  BY <1>2 DEF QueueOrdered
<1> QED BY <1>2, <1>4, <1>5 DEF Work, Positions

LEMMA UnchangedQueued ==
    ASSUME UNCHANGED <<script, queue>>
    PROVE  \A j : Queued(j)' <=> Queued(j)
BY DEF Queued, Of, program

LEMMA EnqueuedNow ==
    ASSUME TypeOK, Tracking, QueueTyped, Enqueue
    PROVE  /\ pc \in Work /\ Op.stream \in Of({"stream"})
           /\ \A j : Queued(j)' <=> Queued(j) \/ j = pc
<1>1. UNCHANGED script /\ queue' = [queue EXCEPT ![Op.stream] = Append(@, pc)]
  BY DEF Enqueue, Proceed
<1>2. pc \in Work /\ Op.stream \in Of({"stream"})
  BY EnqueueOp
<1> DEFINE x == Op.stream
<1> HIDE DEF x
<1>3. /\ Of({"stream"})' = Of({"stream"}) /\ x \in Of({"stream"})
      /\ queue[x] \in Seq(Work) /\ queue'[x] = Append(queue[x], pc)
      /\ \A s \in Of({"stream"}) : s # x => queue'[s] = queue[s]
  BY <1>1, <1>2 DEF Of, program, QueueTyped, x
<1>4. /\ Len(queue[x]) \in Nat /\ Len(queue'[x]) = Len(queue[x]) + 1 /\ queue'[x][Len(queue[x]) + 1] = pc
      /\ \A i \in 1..Len(queue[x]) : queue'[x][i] = queue[x][i]
  BY <1>3
<1>5. ASSUME NEW j, Queued(j)' PROVE Queued(j) \/ j = pc
  <2>1. PICK s \in Of({"stream"}) : \E i \in 1..Len(queue'[s]) : queue'[s][i] = j
    BY <1>3, <1>5 DEF Queued
  <2>2. CASE s # x
    BY <1>3, <2>1, <2>2 DEF Queued
  <2>3. CASE s = x
    <3>1. PICK i \in 1..Len(queue'[x]) : queue'[x][i] = j
      BY <2>1, <2>3
    <3>2. i = Len(queue[x]) + 1 \/ i \in 1..Len(queue[x])
      BY <1>4
    <3> QED BY <3>1, <3>2, <1>3, <1>4 DEF Queued
  <2> QED BY <2>2, <2>3
<1>6. ASSUME NEW j, Queued(j) PROVE Queued(j)'
  <2>1. PICK s \in Of({"stream"}), i \in Nat : i \in 1..Len(queue[s]) /\ queue[s][i] = j
    BY <1>6 DEF Queued
  <2>2. i \in 1..Len(queue'[s]) /\ queue'[s][i] = j
    BY <1>3, <1>4, <2>1
  <2> QED BY <1>3, <2>2 DEF Queued
<1>7. ASSUME NEW j, j = pc PROVE Queued(j)'
  <2>1. Len(queue[x]) + 1 \in 1..Len(queue'[x])
    BY <1>4
  <2> QED BY <2>1, <1>3, <1>4, <1>7 DEF Queued
<1> QED BY <1>2, <1>5, <1>6, <1>7

LEMMA ExecutedNow ==
    ASSUME QueueTyped, QueueOrdered, NEW x \in Of({"stream"}), Execute(x), NEW h, h = Head(queue[x])
    PROVE  /\ Queued(h) /\ program.body[h].stream = x
           /\ \A j : Queued(j) /\ program.body[j].stream = x => h <= j
           /\ \A j : Queued(j)' <=> Queued(j) /\ j # h
<1>1. UNCHANGED script /\ queue[x] # <<>> /\ queue' = [queue EXCEPT ![x] = Tail(@)]
  BY DEF Execute
<1>2. /\ Of({"stream"})' = Of({"stream"}) /\ queue[x] \in Seq(Work) /\ queue'[x] = Tail(queue[x])
      /\ \A s \in Of({"stream"}) : s # x => queue'[s] = queue[s]
  BY <1>1 DEF Of, program, QueueTyped
<1>3. /\ Len(queue[x]) \in Nat \ {0} /\ h = queue[x][1] /\ Len(queue'[x]) = Len(queue[x]) - 1
      /\ \A i \in 1..(Len(queue[x]) - 1) : queue'[x][i] = queue[x][i + 1]
  <2> DEFINE q == queue[x]
  <2>1. q \in Seq(Work) /\ q # <<>> /\ h = Head(q) /\ queue'[x] = Tail(q)
    BY <1>1, <1>2
  <2> HIDE DEF q, Work
  <2>2. Len(q) \in Nat \ {0} /\ Head(q) = q[1] /\ Len(Tail(q)) = Len(q) - 1
    BY <2>1
  <2>3. \A i \in 1..(Len(q) - 1) : Tail(q)[i] = q[i + 1]
    BY <2>1, <2>2
  <2> QED BY <2>1, <2>2, <2>3 DEF q
<1>4. 1 \in 1..Len(queue[x]) /\ Queued(h) /\ program.body[h].stream = x
  <2>1. 1 \in 1..Len(queue[x])
    BY <1>3
  <2> QED BY <2>1, <1>3 DEF Queued, QueueOrdered
<1>5. \A i \in 1..Len(queue[x]) : 1 < i => h < queue[x][i]
  BY <1>3, <1>4 DEF QueueOrdered
<1>6. ASSUME NEW j, Queued(j), program.body[j].stream = x PROVE h <= j
  <2>1. PICK s \in Of({"stream"}), i \in Nat : i \in 1..Len(queue[s]) /\ queue[s][i] = j
    BY <1>6 DEF Queued
  <2>2. s = x
    BY <2>1, <1>6 DEF QueueOrdered
  <2>3. i = 1 \/ 1 < i
    BY <2>1
  <2>4. h \in Nat /\ j \in Nat
    BY <1>4, <1>6, QueuedCall
  <2>5. i \in 1..Len(queue[x]) /\ queue[x][i] = j
    BY <2>1, <2>2
  <2>6. CASE i = 1
    BY <2>4, <2>5, <2>6, <1>3
  <2>7. CASE 1 < i
    BY <2>4, <2>5, <2>7, <1>5
  <2> QED BY <2>3, <2>6, <2>7
<1>7. ASSUME NEW j, Queued(j)' PROVE Queued(j) /\ j # h
  <2>1. PICK s \in Of({"stream"}) : \E i \in 1..Len(queue'[s]) : queue'[s][i] = j
    BY <1>2, <1>7 DEF Queued
  <2>2. CASE s # x
    <3>1. PICK i \in 1..Len(queue[s]) : queue[s][i] = j
      BY <1>2, <2>1, <2>2
    <3>2. program.body[j].stream = s
      BY <3>1 DEF QueueOrdered
    <3> QED BY <3>1, <3>2, <1>4, <2>2 DEF Queued
  <2>3. CASE s = x
    <3>1. PICK i \in 1..Len(queue'[x]) : queue'[x][i] = j
      BY <2>1, <2>3
    <3>2. i + 1 \in 1..Len(queue[x]) /\ 1 < i + 1 /\ queue[x][i + 1] = j
      BY <1>3, <3>1
    <3>3. Queued(j) /\ h < j
      BY <3>2, <1>5 DEF Queued
    <3>4. h \in Nat
      BY <1>4, QueuedCall
    <3> QED BY <3>3, <3>4
  <2> QED BY <2>2, <2>3
<1>8. ASSUME NEW j, Queued(j), j # h PROVE Queued(j)'
  <2>1. PICK s \in Of({"stream"}), i \in Nat : i \in 1..Len(queue[s]) /\ queue[s][i] = j
    BY <1>8 DEF Queued
  <2>2. CASE s # x
    BY <2>1, <2>2, <1>2 DEF Queued
  <2>3. CASE s = x
    <3>1. i - 1 \in 1..Len(queue'[x]) /\ queue'[x][i - 1] = j
      BY <2>1, <2>3, <1>3, <1>8
    <3> QED BY <3>1, <1>2 DEF Queued
  <2> QED BY <2>2, <2>3
<1> QED BY <1>4, <1>6, <1>7, <1>8

(* Queues stay in the order of the script.                                  *)
QueuesInv == TypeOK /\ Tracking /\ QueueTyped /\ QueueOrdered /\ MissedKept

LEMMA MissedStep ==
    ASSUME QueuesInv, [Next]_vars
    PROVE  MissedKept'
<1>0. pc \in Nat \ {0} /\ Work \subseteq Nat
  BY DEF QueuesInv, TypeOK, Work, Positions
<1>1. ASSUME UNCHANGED script, pc' = pc \/ pc' = pc + 1, NEW k \in missed, Queued(k)' => Queued(k) \/ k = pc
      PROVE  /\ k \in Work' /\ k < pc' /\ program'.body[k].do = "record" /\ ~program'.body[k].checked
             /\ ~Queued(k)'
  BY <1>0, <1>1 DEF QueuesInv, MissedKept, Work, program
<1>2. CASE Quiet \/ Called
  <2>1. UNCHANGED <<script, queue, missed>> /\ (pc' = pc \/ pc' = pc + 1)
    BY <1>2 DEF Quiet, Called
  <2> QED BY <2>1, <1>1, UnchangedQueued DEF MissedKept
<1>3. CASE Enqueue
  <2>1. UNCHANGED <<script, missed>> /\ pc' = pc + 1
    BY <1>3 DEF Enqueue, Proceed
  <2>2. \A j : Queued(j)' <=> Queued(j) \/ j = pc
    BY <1>3, EnqueuedNow DEF QueuesInv
  <2> QED BY <2>1, <2>2, <1>1 DEF MissedKept
<1>4. CASE MissRecord
  <2>1. /\ UNCHANGED <<script, queue>> /\ pc' = pc + 1 /\ missed' = missed \cup {pc}
        /\ Running /\ Op.do = "record" /\ ~Op.checked
    BY <1>4 DEF MissRecord, Proceed, At
  <2>2. pc \in Work
    BY <2>1, <1>0, LengthIsNat DEF QueuesInv, TypeOK, Work, Positions, Asynchronous, Running, Op
  <2>3. ~Queued(pc)
    BY <1>0, QueuedCall DEF QueuesInv
  <2>4. \A j : Queued(j)' <=> Queued(j)
    BY <2>1, UnchangedQueued
  <2>5. /\ pc \in Work' /\ pc < pc' /\ program'.body[pc].do = "record" /\ ~program'.body[pc].checked
        /\ program' = program
    BY <2>1, <2>2, <1>0 DEF Op, program, Work
  <2> QED BY <2>1, <2>3, <2>4, <2>5, <1>1 DEF MissedKept
<1>5. CASE \E x \in Of({"stream"}) : Execute(x)
  <2>1. PICK x \in Of({"stream"}) : Execute(x)
    BY <1>5
  <2>2. \A j : Queued(j)' => Queued(j)
    BY <2>1, ExecutedNow DEF QueuesInv
  <2>3. UNCHANGED <<script, pc, missed>>
    BY <2>1 DEF Execute, hostVars
  <2> QED BY <2>2, <2>3, <1>1 DEF MissedKept
<1> QED BY <1>2, <1>3, <1>4, <1>5, StepShape

LEMMA OrderedStep ==
    ASSUME QueuesInv, [Next]_vars
    PROVE  QueueOrdered'
<1> DEFINE Sorted(s) == \A i \in 1..Len(queue[s]) :
                          /\ queue[s][i] < pc /\ program.body[queue[s][i]].stream = s
                          /\ \A l \in 1..Len(queue[s]) : i < l => queue[s][i] < queue[s][l]
           Suffix(j, k) ==
               j < k /\ k < pc /\ SameStream(program, j, k) /\ Queued(j) /\ k \notin missed => Queued(k)
<1>0. /\ pc \in Nat \ {0}
      /\ \A s \in Of({"stream"}) : queue[s] \in Seq(Work) /\ Sorted(s)
      /\ \A j, k \in Work : Suffix(j, k)
      /\ Work \subseteq Nat
  BY DEF QueuesInv, TypeOK, QueueTyped, QueueOrdered, Work, Positions
<1>w. Work \subseteq Nat
  BY DEF Work, Positions
<1>n. ASSUME NEW s \in Of({"stream"}), NEW i \in 1..Len(queue[s]) PROVE queue[s][i] \in Nat
  <2>1. queue[s] \in Seq(Work)
    BY DEF QueuesInv, QueueTyped
  <2>2. queue[s][i] \in Work
    BY <2>1
  <2> QED BY <2>2, <1>w
<1>q. ASSUME UNCHANGED script, \A s \in Of({"stream"}) : Sorted(s)', \A j, k \in Work : Suffix(j, k)'
      PROVE  QueueOrdered'
  <2>1. Of({"stream"})' = Of({"stream"}) /\ Positions(program, Asynchronous)' = Work
    BY <1>q DEF Of, Work, Positions, program
  <2> QED BY <1>q, <2>1 DEF QueueOrdered, Work
<1>1. CASE /\ UNCHANGED <<script, queue>> /\ missed \subseteq missed'
           /\ pc' = pc \/ (pc' = pc + 1 /\ (pc \notin Work \/ pc \in missed'))
  <2>1. \A s \in Of({"stream"}) : Sorted(s)'
    <3> SUFFICES ASSUME NEW s \in Of({"stream"}), NEW i \in 1..Len(queue[s])
                 PROVE  /\ queue[s][i] < pc' /\ program.body[queue[s][i]].stream = s
                        /\ \A l \in 1..Len(queue[s]) : i < l => queue[s][i] < queue[s][l]
      BY <1>1 DEF program
    <3>1. queue[s] \in Seq(Work) /\ Sorted(s)
      BY <1>0
    <3>2. queue[s][i] \in Nat
      BY <1>n
    <3> QED BY <3>1, <3>2, <1>0, <1>1
  <2>2. \A j, k \in Work : Suffix(j, k)'
    <3> SUFFICES ASSUME NEW j \in Work, NEW k \in Work PROVE Suffix(j, k)'
      OBVIOUS
    <3>1. /\ Queued(j)' <=> Queued(j)
          /\ Queued(k)' <=> Queued(k)
          /\ SameStream(program, j, k)' <=> SameStream(program, j, k)
      BY <1>1, UnchangedQueued DEF SameStream, program
    <3>2. k < pc' /\ k \notin missed' => k < pc /\ k \notin missed
      BY <1>0, <1>1
    <3>3. Suffix(j, k)
      BY <1>0
    <3> QED BY <3>1, <3>2, <3>3
  <2> QED BY <2>1, <2>2, <1>1, <1>q
<1>2. CASE Enqueue
  <2> DEFINE x == Op.stream
  <2>1. /\ UNCHANGED <<script, missed>> /\ queue' = [queue EXCEPT ![x] = Append(@, pc)] /\ pc' = pc + 1
        /\ Op = program.body[pc]
    BY <1>2 DEF Enqueue, Proceed, Op
  <2>2. /\ pc \in Work /\ x \in Of({"stream"})
        /\ \A j : Queued(j)' <=> Queued(j) \/ j = pc
    BY <1>2, EnqueuedNow DEF QueuesInv
  <2>3. ASSUME NEW s \in Of({"stream"}) PROVE Sorted(s)'
    <3>1. queue[s] \in Seq(Work) /\ Sorted(s) /\ Len(queue[s]) \in Nat
      BY <1>0
    <3>2. \A i \in 1..Len(queue[s]) : queue[s][i] \in Nat
      BY <1>n
    <3>3. CASE s # x
      <4>1. queue'[s] = queue[s] /\ program' = program
        BY <3>3, <2>1 DEF QueuesInv, QueueTyped, program
      <4> QED BY <4>1, <3>1, <3>2, <2>1, <1>0
    <3>4. CASE s = x
      <4>1. queue'[s] = Append(queue[s], pc) /\ program' = program
        BY <3>4, <2>1, <2>2 DEF QueuesInv, QueueTyped, program
      <4>2. /\ Len(queue'[s]) = Len(queue[s]) + 1 /\ queue'[s][Len(queue[s]) + 1] = pc
            /\ \A i \in 1..Len(queue[s]) : queue'[s][i] = queue[s][i]
        BY <4>1, <3>1
      <4> SUFFICES ASSUME NEW i \in 1..Len(queue'[s])
                   PROVE  /\ queue'[s][i] < pc + 1 /\ program.body[queue'[s][i]].stream = s
                          /\ \A l \in 1..Len(queue'[s]) : i < l => queue'[s][i] < queue'[s][l]
        BY <4>1, <2>1
      <4>3. CASE i = Len(queue[s]) + 1
        <5>1. queue'[s][i] = pc /\ program.body[pc].stream = s /\ pc < pc + 1
          BY <4>2, <4>3, <3>4, <2>1, <1>0
        <5>2. \A l \in 1..Len(queue'[s]) : ~(i < l)
          BY <4>2, <4>3, <3>1
        <5> QED BY <5>1, <5>2
      <4>4. CASE i \in 1..Len(queue[s])
        <5>1. queue'[s][i] = queue[s][i] /\ queue[s][i] < pc /\ program.body[queue[s][i]].stream = s
              /\ queue[s][i] \in Nat
          BY <4>4, <4>2, <3>1, <3>2
        <5>2. ASSUME NEW l \in 1..Len(queue'[s]), i < l PROVE queue[s][i] < queue'[s][l]
          <6>1. l = Len(queue[s]) + 1 \/ l \in 1..Len(queue[s])
            BY <4>2, <3>1
          <6> QED BY <6>1, <5>1, <5>2, <4>2, <4>4, <3>1
        <5> QED BY <5>1, <5>2, <1>0
      <4> QED BY <4>3, <4>4, <4>2, <3>1
    <3> QED BY <3>3, <3>4
  <2>4. ASSUME NEW j \in Work, NEW k \in Work PROVE Suffix(j, k)'
    <3>1. SameStream(program, j, k)' <=> SameStream(program, j, k)
      BY <2>1 DEF SameStream, program
    <3>2. /\ j \in Nat /\ k \in Nat /\ pc \in Nat /\ pc' = pc + 1 /\ missed' = missed
          /\ (k < pc' => k < pc \/ k = pc)
      <4>1. j \in Nat /\ k \in Nat /\ pc \in Nat
        BY <1>0
      <4>2. pc' = pc + 1 /\ missed' = missed
        BY <2>1
      <4> QED BY <4>1, <4>2
    <3>3. Suffix(j, k)
      BY <1>0
    <3>4. Queued(j)' <=> Queued(j) \/ j = pc
      BY <2>2
    <3>5. Queued(k)' <=> Queued(k) \/ k = pc
      BY <2>2
    <3> QED BY <3>1, <3>2, <3>3, <3>4, <3>5
  <2> QED BY <2>1, <2>3, <2>4, <1>q
<1>3. CASE \E x \in Of({"stream"}) : Execute(x)
  <2>0. PICK x \in Of({"stream"}) : Execute(x)
    BY <1>3
  <2>1. UNCHANGED <<script, pc, missed>> /\ queue[x] # <<>> /\ queue' = [queue EXCEPT ![x] = Tail(@)]
    BY <2>0 DEF Execute, hostVars
  <2> DEFINE h == Head(queue[x])
  <2>2. /\ Queued(h) /\ program.body[h].stream = x
        /\ \A j : Queued(j) /\ program.body[j].stream = x => h <= j
        /\ \A j : Queued(j)' <=> Queued(j) /\ j # h
    BY <2>0, ExecutedNow DEF QueuesInv
  <2>3. ASSUME NEW s \in Of({"stream"}) PROVE Sorted(s)'
    <3>1. queue[s] \in Seq(Work) /\ Sorted(s) /\ Len(queue[s]) \in Nat
      BY <1>0
    <3>3. CASE s # x
      <4>1. queue'[s] = queue[s] /\ program' = program /\ pc' = pc
        BY <3>3, <2>1 DEF QueuesInv, QueueTyped, program
      <4> QED BY <4>1, <3>1
    <3>4. CASE s = x
      <4>1. queue'[s] = Tail(queue[s]) /\ program' = program /\ pc' = pc /\ queue[s] # <<>>
        BY <3>4, <2>1 DEF QueuesInv, QueueTyped, program
      <4>2. /\ Len(queue'[s]) = Len(queue[s]) - 1
            /\ \A i \in 1..Len(queue'[s]) : queue'[s][i] = queue[s][i + 1] /\ i + 1 \in 1..Len(queue[s])
        BY <4>1, <3>1
      <4> SUFFICES ASSUME NEW i \in 1..Len(queue'[s])
                   PROVE  /\ queue'[s][i] < pc /\ program.body[queue'[s][i]].stream = s
                          /\ \A l \in 1..Len(queue'[s]) : i < l => queue'[s][i] < queue'[s][l]
        BY <4>1
      <4>3. queue'[s][i] = queue[s][i + 1] /\ i + 1 \in 1..Len(queue[s])
        BY <4>2
      <4>4. \A l \in 1..Len(queue'[s]) : i < l =>
               queue'[s][l] = queue[s][l + 1] /\ l + 1 \in 1..Len(queue[s]) /\ i + 1 < l + 1
        BY <4>2
      <4> QED BY <4>3, <4>4, <3>1
    <3> QED BY <3>3, <3>4
  <2>4. ASSUME NEW j \in Work, NEW k \in Work PROVE Suffix(j, k)'
    <3>1. SameStream(program, j, k)' <=> SameStream(program, j, k)
      BY <2>1 DEF SameStream, program
    <3>2. Suffix(j, k) /\ j \in Nat /\ k \in Nat /\ h \in Nat
      BY <1>0, <2>2, QueuedCall DEF QueuesInv
    <3> SUFFICES ASSUME j < k, k < pc', SameStream(program, j, k), Queued(j)', k \notin missed' PROVE Queued(k)'
      BY <3>1
    <3>3. Queued(j) /\ j # h /\ Queued(k)
      BY <3>2, <2>1, <2>2
    <3>4. k # h
      <4>1. SUFFICES ASSUME k = h PROVE FALSE
        OBVIOUS
      <4>2. program.body[j].stream = x
        BY <4>1, <2>2 DEF SameStream
      <4>3. h <= j
        BY <4>2, <3>3, <2>2
      <4> QED BY <4>1, <4>3, <3>2
    <3> QED BY <3>3, <3>4, <2>2
  <2> QED BY <2>1, <2>3, <2>4, <1>q
<1>4. Quiet => UNCHANGED <<script, queue, missed>> /\ pc' = pc
  BY DEF Quiet
<1>5. Called => UNCHANGED <<script, queue, missed>> /\ pc' = pc + 1 /\ pc \notin Work
  BY DEF Called, Op, Work, Positions
<1>6. MissRecord => UNCHANGED <<script, queue>> /\ pc' = pc + 1 /\ missed' = missed \cup {pc}
  BY DEF MissRecord, Proceed
<1> QED BY <1>1, <1>2, <1>3, <1>4, <1>5, <1>6, StepShape

LEMMA IdleQueuesNothing == ASSUME Idle, NEW j PROVE ~Queued(j)
<1>1. \A s \in Of({"stream"}) : queue[s] = <<>>
  BY DEF Idle
<1>2. \A s \in Of({"stream"}) : Len(queue[s]) = 0
  BY <1>1
<1> QED BY <1>2 DEF Queued

LEMMA ScriptRules ==
    ASSUME TypeOK
    PROVE  /\ NamesKnown(program) /\ DataOrder(program) /\ SumOrder(program)
           /\ TimeOrder(program) /\ PoolOrder(program)
BY SyncAssumption DEF TypeOK, program

(* What was executed stays executed.                                        *)
LEMMA PastStays ==
    ASSUME QueuesInv, [Next]_vars
    PROVE  /\ script' = script /\ pc \in Nat \ {0} /\ (pc' = pc \/ pc' = pc + 1)
           /\ \A j \in Nat : Past(j) => Past(j)'
<1>0. pc \in Nat \ {0}
  BY DEF QueuesInv, TypeOK
<1>1. CASE Quiet \/ Called \/ MissRecord
  <2>1. UNCHANGED <<script, queue>> /\ (pc' = pc \/ pc' = pc + 1)
    BY <1>1 DEF Quiet, Called, MissRecord, Proceed
  <2> QED BY <2>1, <1>0, UnchangedQueued DEF Past
<1>2. CASE Enqueue
  <2>1. script' = script /\ pc' = pc + 1
    BY <1>2 DEF Enqueue, Proceed
  <2>2. \A j : Queued(j)' <=> Queued(j) \/ j = pc
    BY <1>2, EnqueuedNow DEF QueuesInv
  <2> QED BY <2>1, <2>2, <1>0 DEF Past
<1>3. CASE \E x \in Of({"stream"}) : Execute(x)
  <2>1. PICK x \in Of({"stream"}) : Execute(x)
    BY <1>3
  <2>2. \A j : Queued(j)' => Queued(j)
    BY <2>1, ExecutedNow DEF QueuesInv
  <2>3. script' = script /\ pc' = pc
    BY <2>1 DEF Execute, hostVars
  <2> QED BY <2>2, <2>3, <1>0 DEF Past
<1> QED BY <1>1, <1>2, <1>3, StepShape

EventsInv == QueuesInv /\ EventsCount /\ WaitsMet /\ SyncsMet /\ DrainsMet

LEMMA EventsStep ==
    ASSUME EventsInv, [Next]_vars
    PROVE  EventsCount'
<1> DEFINE E == Of({"event"})
           R(e) == Records(program, pc, e) \ missed
<1>0. /\ QueuesInv /\ TypeOK /\ pc \in Nat \ {0} /\ (pc' = pc \/ pc' = pc + 1)
      /\ E' = E /\ program' = program /\ script' = script
      /\ finished \in [E -> Nat] /\ \A e \in E : finished[e] < pc
      /\ \A e \in E : \A j \in R(e) : Queued(j) <=> finished[e] < j
  BY PastStays DEF EventsInv, QueuesInv, EventsCount, Of, program
<1>r. \A e : R(e) \subseteq Nat /\ \A j \in R(e) : j < pc /\ j \in Work /\ program.body[j].do = "record"
                                                  /\ program.body[j].event = e
  <2> SUFFICES ASSUME NEW e, NEW j \in R(e)
               PROVE  /\ j \in Nat /\ j < pc /\ j \in Work
                      /\ program.body[j].do = "record" /\ program.body[j].event = e
    OBVIOUS
  <2>1. j \in 1..(pc - 1) /\ program.body[j].do = "record" /\ program.body[j].event = e
    BY DEF Records
  <2>2. pc <= Len(program.body) + 1 /\ Len(program.body) \in Nat
    BY <1>0, LengthIsNat DEF QueuesInv, Tracking, TypeOK
  <2>3. j \in 1..Len(program.body)
    BY <2>1, <2>2, <1>0
  <2> QED BY <2>1, <2>3, <1>0 DEF Work, Positions, Asynchronous
<1>1. CASE Quiet
  <2>1. pc' = pc /\ finished' = finished /\ missed' = missed /\ \A j : Queued(j)' <=> Queued(j)
    BY <1>1, UnchangedQueued DEF Quiet
  <2> QED BY <2>1, <1>0 DEF EventsCount
<1>2. CASE Called
  <2>1. pc' = pc + 1 /\ finished' = finished /\ missed' = missed /\ \A j : Queued(j)' <=> Queued(j)
    BY <1>2, UnchangedQueued DEF Called
  <2>2. \A e : R(e)' = R(e)
    <3>1. program.body[pc].do # "record"
      BY <1>2 DEF Called, Op, Asynchronous
    <3> QED BY <3>1, <2>1, <1>0 DEF Records
  <2> HIDE DEF R
  <2> QED BY <2>1, <2>2, <1>0 DEF EventsCount, R
<1>5. CASE MissRecord
  <2>1. pc' = pc + 1 /\ finished' = finished /\ missed' = missed \cup {pc} /\ UNCHANGED <<script, queue>>
    BY <1>5 DEF MissRecord, Proceed
  <2>2. \A j : Queued(j)' <=> Queued(j)
    BY <2>1, UnchangedQueued
  <2>3. \A e : R(e)' \subseteq R(e)
    BY <2>1, <1>0 DEF Records
  <2> HIDE DEF R
  <2> QED BY <2>1, <2>2, <2>3, <1>0 DEF EventsCount, R
<1>3. CASE Enqueue
  <2>1. pc' = pc + 1 /\ finished' = finished /\ missed' = missed
    BY <1>3 DEF Enqueue, Proceed
  <2>2. \A j : Queued(j)' <=> Queued(j) \/ j = pc
    BY <1>0, <1>3, EnqueuedNow DEF QueuesInv
  <2>3. \A e : \A j \in R(e)' : j \in R(e) \/ j = pc
    BY <2>1, <1>0 DEF Records
  <2>4. ASSUME NEW e \in E, NEW j \in R(e)' PROVE Queued(j)' <=> finished[e] < j
    <3>1. CASE j = pc
      BY <3>1, <2>2, <1>0
    <3>2. CASE j \in R(e)
      <4>1. j # pc
        BY <3>2, <1>r, <1>0
      <4> QED BY <4>1, <3>2, <2>2, <1>0
    <3> QED BY <3>1, <3>2, <2>3
  <2> QED BY <2>1, <2>4, <1>0 DEF EventsCount
<1>4. CASE \E x \in Of({"stream"}) : Execute(x)
  <2>0. PICK x \in Of({"stream"}) : Execute(x)
    BY <1>4
  <2> DEFINE h == Head(queue[x])
  <2>1. /\ Queued(h) /\ program.body[h].stream = x
        /\ \A j : Queued(j) /\ program.body[j].stream = x => h <= j
        /\ \A j : Queued(j)' <=> Queued(j) /\ j # h
    BY <2>0, <1>0, ExecutedNow DEF QueuesInv
  <2>2. /\ pc' = pc /\ missed' = missed
        /\ finished' = IF program.body[h].do = "record"
                       THEN [finished EXCEPT ![program.body[h].event] = h] ELSE finished
    BY <2>0 DEF Execute, hostVars
  <2> HIDE DEF h
  <2>3. h \in Work /\ h \in Nat /\ h < pc
    BY <2>1, <1>0, QueuedCall DEF QueuesInv
  <2>4. CASE program.body[h].do # "record"
    <3>1. \A e : \A j \in R(e) : j # h
      BY <2>4, <1>r
    <3> QED BY <3>1, <2>1, <2>2, <2>4, <1>0 DEF EventsCount
  <2>5. CASE program.body[h].do = "record"
    <3> DEFINE e0 == program.body[h].event
    <3>1. h \in R(e0) /\ e0 \in E
      <4>1. h \in 1..(pc - 1)
        BY <2>3, <1>0 DEF Work, Positions
      <4>2. program.body[h] \in Calls(program, {"record", "wait", "sync"})
        BY <2>3, <2>5 DEF Calls, Work, Positions
      <4>3. NamesKnown(program)
        BY <1>0, ScriptRules
      <4>4. h \notin missed
        BY <2>1, <1>0 DEF QueuesInv, MissedKept
      <4> QED BY <4>1, <4>2, <4>3, <4>4, <2>5 DEF Records, NamesKnown, Of
    <3> HIDE DEF e0
    <3>2. finished' \in [E -> Nat] /\ finished'[e0] = h /\ \A e \in E : e # e0 => finished'[e] = finished[e]
      BY <2>2, <2>3, <2>5, <3>1, <1>0 DEF e0
    <3>3. ASSUME NEW e \in E PROVE finished'[e] < pc
      BY <3>2, <2>3, <1>0
    <3>4. ASSUME NEW e \in E, NEW j \in R(e) PROVE Queued(j)' <=> finished'[e] < j
      <4>1. j \in Work /\ j \in Nat /\ j < pc /\ program.body[j].do = "record" /\ program.body[j].event = e
        BY <1>r
      <4>2. CASE e # e0
        <5>1. j # h
          BY <4>1, <4>2, <3>1, <1>r
        <5> QED BY <5>1, <4>2, <3>2, <2>1, <1>0
      <4>3. CASE e = e0
        <5>1. j \in Positions(program, {"record"}) /\ h \in Positions(program, {"record"})
          BY <4>1, <2>3, <2>5 DEF Work, Positions
        <5>2. program.body[h].event = program.body[j].event
          BY <4>1, <4>3 DEF e0
        <5>3. SameStream(program, h, j)
          BY <5>1, <5>2, <1>0, ScriptRules DEF TimeOrder
        <5>4. program.body[j].stream = x
          BY <5>3, <2>1 DEF SameStream
        <5>5. Queued(j) => h <= j
          BY <5>4, <2>1
        <5>6. h < j => Queued(j)
          BY <5>3, <4>1, <2>1, <2>3, <1>0 DEF QueuesInv, QueueOrdered, Work
        <5> QED BY <5>5, <5>6, <4>1, <4>3, <3>2, <2>1, <2>3
      <4> QED BY <4>2, <4>3
    <3>5. \A e : R(e)' = R(e)
      BY <2>2, <1>0
    <3> HIDE DEF R
    <3> QED BY <3>2, <3>3, <3>4, <3>5, <2>2, <1>0 DEF EventsCount, R
  <2> QED BY <2>4, <2>5
<1> QED BY <1>1, <1>2, <1>3, <1>4, <1>5, StepShape

(* Waits, synchronizations and draining calls keep what they waited for.    *)
LEMMA MetStep ==
    ASSUME EventsInv, [Next]_vars
    PROVE  WaitsMet' /\ SyncsMet' /\ DrainsMet'
<1>0. /\ QueuesInv /\ TypeOK /\ pc \in Nat \ {0} /\ (pc' = pc \/ pc' = pc + 1)
      /\ program' = program /\ script' = script
      /\ \A j \in Nat : Past(j) => Past(j)'
  BY PastStays DEF EventsInv, QueuesInv, program
<1>p. \A names : Positions(program, names) \subseteq Nat
  BY DEF Positions
<1>r. \A i \in Nat : \A e : \A m \in Records(program, i, e) : m \in Nat /\ m < i
  BY DEF Records
<1>m. \A j \in missed : j \in Nat /\ Past(j)
  BY <1>0 DEF QueuesInv, MissedKept, Past, Work, Positions
<1>f. ASSUME NEW e \in Of({"event"}), NEW j \in Records(program, pc, e) \ missed, j <= finished[e]
      PROVE  Past(j)
  <2>1. Queued(j) <=> finished[e] < j
    BY DEF EventsInv, EventsCount
  <2>2. finished[e] \in Nat /\ j \in Nat /\ j < pc
    BY <1>0, <1>r DEF EventsInv, EventsCount
  <2> QED BY <2>1, <2>2, <1>f DEF Past
<1>e. ASSUME NEW j \in Positions(program, {"record", "wait", "sync"})
      PROVE  program.body[j].event \in Of({"event"})
  <2>1. program.body[j] \in Calls(program, {"record", "wait", "sync"})
    BY DEF Calls, Positions
  <2>2. NamesKnown(program)
    BY <1>0, ScriptRules
  <2> QED BY <2>1, <2>2 DEF NamesKnown, Of
<1>1. WaitsMet'
  <2> SUFFICES ASSUME NEW w \in Positions(program, {"wait"}), Past(w)',
                      NEW m \in SureRecords(program, w, program.body[w].event)
               PROVE  Past(m)'
    BY <1>0 DEF WaitsMet, Past
  <2>0. w \in Nat /\ m \in Nat /\ m < w /\ m \notin missed
    BY <1>p, <1>r, <1>0 DEF SureRecords, QueuesInv, MissedKept
  <2>1. CASE Past(w)
    <3>1. ~Queued(m) /\ m < pc
      BY <2>0, <2>1, <1>0 DEF EventsInv, WaitsMet, Past
    <3> QED BY <3>1, <2>0, <1>0 DEF Past
  <2>2. CASE ~Past(w)
    <3>1. w \in Work /\ (w = pc => Op.do = "wait")
      BY DEF Work, Positions, Asynchronous, Op
    <3>2. ~Quiet /\ ~Called /\ ~MissRecord
      <4>1. ASSUME Quiet \/ Called \/ MissRecord PROVE FALSE
        <5>1. Queued(w)' <=> Queued(w)
          BY <4>1, UnchangedQueued DEF Quiet, Called, MissRecord, Proceed
        <5>2. w < pc
          BY <4>1, <3>1, <2>0, <1>0 DEF Quiet, Called, MissRecord, Proceed, At, Past, Asynchronous
        <5> QED BY <5>1, <5>2, <2>2 DEF Past
      <4> QED BY <4>1
    <3>3. ~Enqueue
      <4>1. ASSUME Enqueue PROVE FALSE
        <5>1. (Queued(w)' <=> Queued(w) \/ w = pc) /\ pc' = pc + 1
          BY <4>1, <1>0, EnqueuedNow DEF QueuesInv, Enqueue, Proceed
        <5> QED BY <5>1, <2>0, <2>2, <1>0 DEF Past
      <4> QED BY <4>1
    <3>4. PICK x \in Of({"stream"}) : Execute(x)
      BY <3>2, <3>3, StepShape
    <3> DEFINE h == Head(queue[x])
    <3>5. /\ Queued(w)' <=> Queued(w) /\ w # h
          /\ pc' = pc
      BY <3>4, <1>0, ExecutedNow DEF QueuesInv, Execute, hostVars
    <3>6. w = h /\ w < pc
      BY <3>5, <2>2 DEF Past
    <3>7. Passed(program.body[w].event, w)
      BY <3>4, <3>6 DEF Execute, Positions
    <3>8. m <= finished[program.body[w].event] /\ m \in Records(program, pc, program.body[w].event) \ missed
      BY <3>6, <3>7, <2>0, <1>0 DEF Passed, Records, SureRecords
    <3>9. w \in Positions(program, {"record", "wait", "sync"})
      BY DEF Positions
    <3> QED BY <3>8, <3>9, <1>e, <1>f, <2>0, <1>0
  <2> QED BY <2>1, <2>2
<1>2. SyncsMet'
  <2> SUFFICES ASSUME NEW c \in Positions(program, {"sync"}), c < pc',
                      NEW m \in Records(program, c, program.body[c].event)
               PROVE  Past(m)'
    BY <1>0 DEF SyncsMet, Past
  <2>0. c \in Nat /\ m \in Nat /\ m < c
    BY <1>p, <1>r
  <2>1. CASE c < pc
    <3>1. ~Queued(m) /\ m < pc
      BY <2>0, <2>1, <1>0 DEF EventsInv, SyncsMet
    <3> QED BY <3>1, <2>0, <1>0 DEF Past
  <2>2. CASE ~(c < pc)
    <3>1. c = pc /\ pc' = pc + 1 /\ Op.do = "sync"
      <4>1. c = pc /\ pc' = pc + 1
        BY <2>0, <2>2, <1>0
      <4> QED BY <4>1 DEF Positions, Op
    <3>2. pc' # pc
      BY <3>1, <1>0
    <3>3. Called
      BY <3>1, <3>2, StepShape DEF Quiet, Enqueue, MissRecord, At, Asynchronous, Execute, hostVars
    <3>4. Passed(program.body[c].event, c)
      BY <3>1, <3>3 DEF Called, Reached, Op
    <3>5. ASSUME m \notin missed
          PROVE  m <= finished[program.body[c].event] /\ m \in Records(program, pc, program.body[c].event) \ missed
      BY <3>1, <3>4, <3>5 DEF Passed
    <3>6. c \in Positions(program, {"record", "wait", "sync"})
      BY DEF Positions
    <3> QED BY <3>5, <3>6, <1>e, <1>f, <1>m, <2>0, <1>0
  <2> QED BY <2>1, <2>2
<1>3. DrainsMet'
  <2> SUFFICES ASSUME NEW c \in Positions(program, Draining), c < pc', NEW j, Queued(j)'
               PROVE  c < j
    BY <1>0 DEF DrainsMet
  <2>0. c \in Nat
    BY <1>p
  <2>1. CASE c < pc
    <3>1. CASE Quiet \/ Called \/ MissRecord
      BY <3>1, <2>1, UnchangedQueued DEF Quiet, Called, MissRecord, Proceed, EventsInv, DrainsMet
    <3>2. CASE Enqueue
      <4>1. Queued(j) \/ j = pc
        BY <3>2, <1>0, EnqueuedNow DEF QueuesInv
      <4> QED BY <4>1, <2>1 DEF EventsInv, DrainsMet
    <3>3. CASE \E x \in Of({"stream"}) : Execute(x)
      <4>1. Queued(j)
        BY <3>3, <1>0, ExecutedNow DEF QueuesInv
      <4> QED BY <4>1, <2>1 DEF EventsInv, DrainsMet
    <3> QED BY <3>1, <3>2, <3>3, StepShape
  <2>2. CASE ~(c < pc)
    <3>1. c = pc /\ pc' = pc + 1 /\ Op.do \in Draining
      <4>1. c = pc /\ pc' = pc + 1
        BY <2>0, <2>2, <1>0
      <4> QED BY <4>1 DEF Positions, Op
    <3>2. pc' # pc
      BY <3>1, <1>0
    <3>3. Called
      BY <3>1, <3>2, StepShape DEF Quiet, Enqueue, MissRecord, At, Asynchronous, Draining, Execute, hostVars
    <3>4. Idle /\ Queued(j)
      BY <3>1, <3>3, UnchangedQueued DEF Called
    <3> QED BY <3>4, IdleQueuesNothing
  <2> QED BY <2>1, <2>2
<1> QED BY <1>1, <1>2, <1>3

-----------------------------------------------------------------------------
(* What the text of a script puts in order happens in that order.           *)
Ripe(k) == k < pc /\ \A i \in Work : i < k /\ SameStream(program, i, k) => ~Queued(i)

LEMMA PastIsRipe == ASSUME EventsInv, NEW k \in Work, Past(k), k \notin missed PROVE Ripe(k)
<1>1. \A j \in Work : j < k /\ k < pc /\ SameStream(program, j, k) /\ Queued(j) => Queued(k)
  BY DEF EventsInv, QueuesInv, QueueOrdered, Work
<1> QED BY <1>1 DEF Past, Ripe

LEMMA HeadIsRipe ==
    ASSUME EventsInv, NEW x \in Of({"stream"}), Execute(x), NEW h, h = Head(queue[x])
    PROVE  Ripe(h) /\ h \in Work
<1>1. /\ Queued(h) /\ program.body[h].stream = x
      /\ \A j : Queued(j) /\ program.body[j].stream = x => h <= j
  BY ExecutedNow DEF EventsInv, QueuesInv
<1>2. h \in Work /\ h \in Nat /\ h < pc
  BY <1>1, QueuedCall DEF EventsInv, QueuesInv
<1>3. \A i \in Work : i \in Nat
  BY DEF Work, Positions
<1> QED BY <1>1, <1>2, <1>3 DEF Ripe, SameStream

LEMMA StreamOrderHolds ==
    ASSUME EventsInv, NEW j \in Work, NEW k \in Work, StreamOrder(program, j, k), Ripe(k)
    PROVE  ~Queued(j)
<1>1. CASE j < k /\ SameStream(program, j, k)
  BY <1>1 DEF Ripe
<1>2. CASE \E w \in Positions(program, {"wait"}) : w < k /\ SameStream(program, w, k)
              /\ \E m \in SureRecords(program, w, program.body[w].event) : j <= m /\ SameStream(program, j, m)
  <2>1. PICK w \in Positions(program, {"wait"}) : w < k /\ SameStream(program, w, k)
              /\ \E m \in SureRecords(program, w, program.body[w].event) : j <= m /\ SameStream(program, j, m)
    BY <1>2
  <2>2. PICK m \in SureRecords(program, w, program.body[w].event) : j <= m /\ SameStream(program, j, m)
    BY <2>1
  <2>3. /\ w \in Work /\ w \in Nat /\ k \in Nat /\ pc \in Nat /\ j \in Nat /\ k < pc
        /\ m \in Nat /\ m < w /\ m \in 1..(w - 1) /\ program.body[m].do = "record"
        /\ w \in 1..Len(program.body)
    BY DEF Work, Positions, Asynchronous, SureRecords, Records, EventsInv, QueuesInv, TypeOK, Ripe
  <2>4. Past(w)
    BY <2>1, <2>3 DEF Ripe, Past
  <2>5. ~Queued(m)
    BY <2>2, <2>4 DEF EventsInv, WaitsMet
  <2>6. m \in Work
    <3>1. Len(program.body) \in Nat
      BY LengthIsNat DEF EventsInv, QueuesInv, TypeOK
    <3> QED BY <3>1, <2>3 DEF Work, Positions, Asynchronous
  <2>7. Past(m)
    BY <2>1, <2>3, <2>5 DEF Past
  <2>8. Ripe(m)
    <3>1. m \notin missed
      BY DEF SureRecords, EventsInv, QueuesInv, MissedKept
    <3> QED BY <3>1, <2>6, <2>7, PastIsRipe
  <2> QED BY <2>2, <2>3, <2>5, <2>8 DEF Ripe
<1> QED BY <1>1, <1>2 DEF StreamOrder

LEMMA HostOrderHolds ==
    ASSUME EventsInv, NEW j \in Work, NEW k \in Nat, k <= pc, HostOrder(program, j, k)
    PROVE  ~Queued(j)
<1>0. pc \in Nat /\ j \in Nat /\ Len(program.body) \in Nat
  BY LengthIsNat DEF EventsInv, QueuesInv, TypeOK, Work, Positions
<1>1. CASE \E c \in Positions(program, Draining) : j < c /\ c < k
  <2>1. PICK c \in Positions(program, Draining) : j < c /\ c < k
    BY <1>1
  <2>2. c \in Nat /\ c < pc
    BY <2>1, <1>0 DEF Positions
  <2>3. Queued(j) => c < j
    BY <2>2 DEF EventsInv, DrainsMet
  <2> QED BY <2>1, <2>2, <2>3, <1>0
<1>2. CASE \E c \in Positions(program, {"sync"}) : c < k /\ j \in Records(program, c, program.body[c].event)
  <2>1. PICK c \in Positions(program, {"sync"}) : c < k /\ j \in Records(program, c, program.body[c].event)
    BY <1>2
  <2>2. c \in Nat /\ c < pc
    BY <2>1, <1>0 DEF Positions
  <2> QED BY <2>1, <2>2 DEF EventsInv, SyncsMet
<1>3. CASE \E c \in Positions(program, {"sync"}) : c < k
              /\ \E n \in SureRecords(program, c, program.body[c].event) : StreamOrder(program, j, n)
  <2>1. PICK c \in Positions(program, {"sync"}) : c < k
              /\ \E n \in SureRecords(program, c, program.body[c].event) : StreamOrder(program, j, n)
    BY <1>3
  <2>2. PICK n \in SureRecords(program, c, program.body[c].event) : StreamOrder(program, j, n)
    BY <2>1
  <2>3. c \in Nat /\ c < pc /\ c \in 1..Len(program.body)
    BY <2>1, <1>0 DEF Positions
  <2>4. n \in Records(program, c, program.body[c].event) /\ ~Queued(n)
    BY <2>3 DEF EventsInv, SyncsMet, SureRecords
  <2>5. n \in Nat /\ n < pc /\ n \in Work /\ n \notin missed
    BY <2>3, <2>4, <1>0 DEF SureRecords, Records, Work, Positions, Asynchronous, EventsInv, QueuesInv, MissedKept
  <2>6. Ripe(n)
    BY <2>4, <2>5, PastIsRipe DEF Past
  <2> QED BY <2>2, <2>5, <2>6, StreamOrderHolds
<1> QED BY <1>1, <1>2, <1>3 DEF HostOrder

LEMMA SettledIsOver ==
    ASSUME EventsInv, AwaitsMet, NEW j \in 1..Len(program.body), NEW k \in 1..Len(program.body),
           Settled(program, j, k), k <= pc, program.body[k].do \in Asynchronous => Ripe(k)
    PROVE  Over(j)
<1>0. /\ pc \in Nat /\ Len(program.body) \in Nat /\ j \in Nat /\ k \in Nat /\ j < k /\ j < pc
  BY LengthIsNat DEF EventsInv, QueuesInv, TypeOK, Settled
<1>1. ~Queued(j)
  <2>1. CASE program.body[j].do \notin Asynchronous
    <3>1. j \notin Work
      BY <2>1 DEF Work, Positions
    <3> QED BY <3>1, QueuedCall DEF EventsInv, QueuesInv
  <2>2. CASE program.body[j].do \in Asynchronous
    <3>1. j \in Work /\ (program.body[k].do \in Asynchronous => k \in Work)
      BY <2>2 DEF Work, Positions
    <3>2. CASE HostOrder(program, j, k)
      BY <3>1, <3>2, <1>0, HostOrderHolds
    <3>3. CASE program.body[k].do \in Asynchronous /\ StreamOrder(program, j, k)
      BY <3>1, <3>3, StreamOrderHolds
    <3> QED BY <2>2, <3>2, <3>3 DEF Settled
  <2> QED BY <2>1, <2>2
<1>2. ASSUME program.body[j].do = "submit" PROVE result[program.body[j].stage] = "ok"
  <2>1. PICK a \in Positions(program, {"await"}) :
           j < a /\ a < k /\ program.body[a].stage = program.body[j].stage
    BY <1>2 DEF Settled
  <2>2. a \in Nat /\ a < pc
    BY <2>1, <1>0 DEF Positions
  <2> QED BY <2>1, <2>2 DEF AwaitsMet
<1> QED BY <1>0, <1>1, <1>2 DEF Over, Past

-----------------------------------------------------------------------------
(* The pool's reads are of the stages submitted and not yet read.           *)
PoolInv == TypeOK /\ Tracking /\ AwaitsMet /\ PoolKept

LEMMA OpenNext ==
    ASSUME NEW p, NEW i \in 1..Len(p.body), Len(p.body) \in Nat
    PROVE  OpenAt(p, i + 1) <=> (OpenAt(p, i) \/ p.body[i].do = "open") /\ p.body[i].do # "close"
<1> DEFINE Os == Positions(p, {"open"})
           Cs == Positions(p, {"close"})
<1>1. /\ Os \subseteq Nat /\ Cs \subseteq Nat /\ Os \cap Cs = {} /\ i \in Nat
      /\ i \in Os <=> p.body[i].do = "open"
      /\ i \in Cs <=> p.body[i].do = "close"
  BY DEF Positions
<1>2. /\ OpenAt(p, i) <=> \E o \in Os : o < i /\ \A c \in Cs : c < o \/ i <= c
      /\ OpenAt(p, i + 1) <=> \E o \in Os : o < i + 1 /\ \A c \in Cs : c < o \/ i + 1 <= c
  BY DEF OpenAt
<1> HIDE DEF Os, Cs
<1>3. ASSUME OpenAt(p, i + 1) PROVE (OpenAt(p, i) \/ i \in Os) /\ i \notin Cs
  <2>1. PICK o \in Os : o < i + 1 /\ \A c \in Cs : c < o \/ i + 1 <= c
    BY <1>2, <1>3
  <2>2. i \notin Cs
    BY <2>1, <1>1
  <2>3. ASSUME o < i PROVE OpenAt(p, i)
    <3>1. ASSUME NEW c \in Cs PROVE c < o \/ i <= c
      <4>1. c \in Nat /\ i \in Nat
        BY <1>1
      <4>2. c < o \/ i + 1 <= c
        BY <2>1
      <4> QED BY <4>1, <4>2
    <3> QED BY <3>1, <2>3, <1>2
  <2>4. o = i \/ o < i
    BY <2>1, <1>1
  <2> QED BY <2>2, <2>3, <2>4
<1>4. ASSUME OpenAt(p, i), i \notin Cs PROVE OpenAt(p, i + 1)
  <2>1. PICK o \in Os : o < i /\ \A c \in Cs : c < o \/ i <= c
    BY <1>2, <1>4
  <2>2. o < i + 1 /\ \A c \in Cs : c < o \/ i + 1 <= c
    BY <2>1, <1>1, <1>4
  <2> QED BY <2>2, <1>2
<1>5. ASSUME i \in Os PROVE OpenAt(p, i + 1)
  <2>1. i < i + 1 /\ \A c \in Cs : c < i \/ i + 1 <= c
    BY <1>1, <1>5
  <2> QED BY <2>1, <1>2, <1>5
<1> QED BY <1>1, <1>3, <1>4, <1>5

LEMMA PoolNames ==
    ASSUME TypeOK, NEW j \in Positions(program, {"submit", "await"})
    PROVE  program.body[j].stage \in 1..program.stages
<1>1. program.body[j] \in Calls(program, {"submit", "await"})
  BY DEF Calls, Positions
<1>2. NamesKnown(program)
  BY ScriptRules
<1> QED BY <1>1, <1>2 DEF NamesKnown

(* Different reads are of different stages. *)
LEMMA OneReadPerStage ==
    ASSUME TypeOK, NEW i \in Positions(program, {"submit"}), NEW j \in Positions(program, {"submit"}),
           program.body[i].stage = program.body[j].stage
    PROVE  i = j
BY ScriptRules DEF PoolOrder

(* The pool's threads and the queue of reads stay as they are. *)
LEMMA PoolUntouched ==
    ASSUME PoolInv, UNCHANGED <<script, poolVars>>, pc' = pc \/ pc' = pc + 1,
           phase' = "run" => (open' <=> OpenAt(program, pc')), ~open' => PoolIsIdle
    PROVE  PoolKept'
<1>1. program' = program /\ pc \in Nat /\ UNCHANGED <<waiting, reading, result>>
  BY DEF PoolInv, TypeOK, program, poolVars
<1>2. Submitted \subseteq Submitted'
  BY <1>1 DEF Submitted, Positions
<1>3. Unread \subseteq Unread' /\ Pending' = Pending /\ \A j : Task(j)' = Task(j)
  BY <1>1, <1>2 DEF Unread, Pending, Task
<1>4. \A t \in Pending' : \E j \in Unread' : t = Task(j)'
  BY <1>3 DEF PoolInv, PoolKept
<1>5. \A i \in 1..program.stages : result[i] # "none" => \E j \in Submitted' : program.body[j].stage = i
  BY <1>2 DEF PoolInv, PoolKept
<1>6. {Task(j) : j \in Positions(program, {"submit"})}' = {Task(j) : j \in Positions(program, {"submit"})}
  BY <1>1 DEF Task
<1>7. PoolIsIdle' <=> PoolIsIdle
  BY <1>1 DEF PoolIsIdle
<1> QED BY <1>1, <1>4, <1>5, <1>6, <1>7 DEF PoolInv, PoolKept

(* A call of the main thread that has not to do with the pool.              *)
LEMMA PoolCall ==
    ASSUME PoolInv, Running, Op.do \notin {"open", "close"}, pc' = pc + 1,
           UNCHANGED <<script, poolVars, phase, open>>
    PROVE  PoolKept'
<1>1. pc \in 1..Len(program.body) /\ Len(program.body) \in Nat /\ phase = "run"
  BY LengthIsNat DEF PoolInv, TypeOK, Running
<1>2. OpenAt(program, pc + 1) <=> OpenAt(program, pc)
  BY <1>1, OpenNext DEF Op
<1>3. (open <=> OpenAt(program, pc)) /\ (~open => PoolIsIdle)
  BY <1>1 DEF PoolInv, PoolKept
<1>4. open' <=> open
  OBVIOUS
<1> QED BY <1>1, <1>2, <1>3, <1>4, PoolUntouched

LEMMA SubmitKeeps ==
    ASSUME PoolInv, SubmitRead
    PROVE  PoolKept'
<1>1. /\ Running /\ Op.do = "submit" /\ pc' = pc + 1 /\ UNCHANGED <<script, phase, open, reading, result>>
      /\ waiting' = Append(waiting, Task(pc)) /\ Op = program.body[pc]
  BY DEF SubmitRead, At, Proceed, Task, Op
<1>2. pc \in 1..Len(program.body) /\ Len(program.body) \in Nat /\ phase = "run" /\ pc \in Nat
  BY <1>1, LengthIsNat DEF PoolInv, TypeOK, Running
<1> DEFINE Tasks == {Task(j) : j \in Positions(program, {"submit"})}
<1>3. pc \in Positions(program, {"submit"}) /\ pc \in Positions(program, {"submit", "await"})
  BY <1>1, <1>2 DEF Positions
<1>4. /\ program' = program /\ waiting \in Seq(Tasks) /\ Task(pc) \in Tasks /\ Tasks' = Tasks
      /\ \A j : Task(j)' = Task(j)
  BY <1>1, <1>3 DEF PoolInv, PoolKept, program, Task
<1>5. Submitted' = Submitted \cup {pc} /\ pc \notin Submitted
  BY <1>1, <1>2, <1>3, <1>4 DEF Submitted, Positions
<1>6. \A j \in Submitted : program.body[j].stage # Op.stage
  <2>1. SUFFICES ASSUME NEW j \in Submitted, program.body[j].stage = program.body[pc].stage PROVE FALSE
    BY <1>1
  <2>2. j = pc
    BY <2>1, <1>3, OneReadPerStage DEF Submitted, PoolInv
  <2> QED BY <2>2, <1>5
<1>7. result[Op.stage] = "none"
  <2>1. Op.stage \in 1..program.stages
    BY <1>1, <1>3, PoolNames DEF PoolInv
  <2> QED BY <2>1, <1>6 DEF PoolInv, PoolKept
<1>8. Unread' = Unread \cup {pc} /\ \A j \in Unread : program.body[j].stage # Op.stage
  BY <1>1, <1>4, <1>5, <1>6, <1>7 DEF Unread
<1>9. Task(pc) \notin Pending
  <2>1. SUFFICES ASSUME Task(pc) \in Pending PROVE FALSE
    OBVIOUS
  <2>2. PICK j \in Unread : Task(pc) = Task(j)
    BY <2>1 DEF PoolInv, PoolKept
  <2>3. Task(pc).stage = program.body[pc].stage /\ Task(j).stage = program.body[j].stage
    BY DEF Task
  <2> QED BY <2>2, <2>3, <1>1, <1>8
<1> DEFINE n == Len(waiting)
<1>10. /\ n \in Nat /\ waiting' \in Seq(Tasks) /\ Len(waiting') = n + 1 /\ waiting'[n + 1] = Task(pc)
       /\ \A i \in 1..n : waiting'[i] = waiting[i]
  <2> HIDE DEF Tasks
  <2> QED BY <1>1, <1>4
<1>11. \A i \in 1..Len(waiting') : i = n + 1 \/ i \in 1..n
  BY <1>10
<1>12. /\ Task(pc) \notin reading /\ \A i \in 1..n : waiting[i] # Task(pc)
  BY <1>9 DEF Pending
<1>13. \A i \in 1..Len(waiting') : /\ waiting'[i] \notin reading
                                   /\ \A l \in 1..Len(waiting') : waiting'[i] = waiting'[l] => i = l
  <2>1. \A i \in 1..n : /\ waiting[i] \notin reading /\ \A l \in 1..n : waiting[i] = waiting[l] => i = l
    BY DEF PoolInv, PoolKept
  <2> QED BY <2>1, <1>10, <1>11, <1>12
<1>14. ASSUME NEW t \in Pending' PROVE \E j \in Unread' : t = Task(j)
  <2>1. t \in Pending \/ t = Task(pc)
    BY <1>1, <1>10, <1>11, <1>14 DEF Pending
  <2>2. t \in Pending => \E j \in Unread : t = Task(j)
    BY DEF PoolInv, PoolKept
  <2> QED BY <2>1, <2>2, <1>8
<1>15. \A i \in 1..program.stages : result[i] # "none" => \E j \in Submitted' : program.body[j].stage = i
  BY <1>5 DEF PoolInv, PoolKept
<1>16. (open <=> OpenAt(program, pc)) /\ (OpenAt(program, pc + 1) <=> OpenAt(program, pc)) /\ OpenAt(program, pc)
  <2>1. open <=> OpenAt(program, pc)
    BY <1>2 DEF PoolInv, PoolKept
  <2>2. OpenAt(program, pc + 1) <=> OpenAt(program, pc)
    BY <1>1, <1>2, OpenNext
  <2>3. PoolOrder(program) /\ pc \in Positions(program, {"submit"})
    BY ScriptRules, <1>3 DEF PoolInv
  <2> QED BY <2>1, <2>2, <2>3, <1>3 DEF PoolOrder
<1>17. open' <=> open
  BY <1>1
<1>18. (open <=> OpenAt(program, pc))' /\ open'
  <2>1. OpenAt(program, pc)' <=> OpenAt(program, pc + 1)
    BY <1>1, <1>4
  <2> QED BY <2>1, <1>16, <1>17
<1>19. result' \in [1..program.stages -> {"none", "ok", "failed"}]
  BY <1>1 DEF PoolInv, PoolKept
<1>20. \A t \in Pending' : \E j \in Unread' : t = Task(j)'
  BY <1>4, <1>14
<1> HIDE DEF n
<1> QED BY <1>1, <1>4, <1>10, <1>13, <1>15, <1>18, <1>19, <1>20 DEF PoolKept

LEMMA StartKeeps ==
    ASSUME PoolInv, StartRead
    PROVE  PoolKept'
<1> DEFINE t == Head(waiting)
           Tasks == {Task(j) : j \in Positions(program, {"submit"})}
<1>1. /\ UNCHANGED <<script, pc, phase, open, result>> /\ waiting # <<>>
      /\ waiting' = Tail(waiting) /\ reading' = reading \cup {t}
  BY DEF StartRead, hostVars
<1>2. program' = program /\ waiting \in Seq(Tasks) /\ Tasks' = Tasks /\ \A j : Task(j)' = Task(j)
  BY <1>1 DEF PoolInv, PoolKept, program, Task
<1> DEFINE n == Len(waiting)
<1>3. n \in Nat \ {0} /\ t = waiting[1] /\ waiting' \in Seq(Tasks) /\ Len(waiting') = n - 1
  <2> HIDE DEF Tasks
  <2> QED BY <1>1, <1>2
<1>4. \A i \in 1..(n - 1) : waiting'[i] = waiting[i + 1]
  <2> HIDE DEF Tasks
  <2> QED BY <1>1, <1>2
<1>5. \A i \in 1..(n - 1) : i + 1 \in 1..n /\ i + 1 # 1
  BY <1>3
<1>6. \A i \in 1..n : /\ waiting[i] \notin reading /\ \A l \in 1..n : waiting[i] = waiting[l] => i = l
  BY DEF PoolInv, PoolKept
<1>7. 1 \in 1..n
  BY <1>3
<1> HIDE DEF n, t, Tasks
<1>8. ASSUME NEW i \in 1..Len(waiting')
      PROVE  /\ waiting'[i] \notin reading'
             /\ \A l \in 1..Len(waiting') : waiting'[i] = waiting'[l] => i = l
  <2>1. waiting'[i] = waiting[i + 1] /\ i + 1 \in 1..n /\ i + 1 # 1
    BY <1>3, <1>4, <1>5
  <2>2. waiting'[i] # t /\ waiting'[i] \notin reading
    BY <2>1, <1>3, <1>6, <1>7
  <2>3. ASSUME NEW l \in 1..Len(waiting'), waiting'[i] = waiting'[l] PROVE i = l
    <3>1. waiting'[l] = waiting[l + 1] /\ l + 1 \in 1..n
      BY <1>3, <1>4, <1>5
    <3>2. i + 1 = l + 1
      BY <2>1, <2>3, <3>1, <1>6
    <3> QED BY <3>2
  <2> QED BY <2>2, <2>3, <1>1
<1>9. Pending' \subseteq Pending
  <2> SUFFICES ASSUME NEW y \in Pending' PROVE y \in Pending
    OBVIOUS
  <2>1. y \in reading \/ y = t \/ \E i \in 1..Len(waiting') : y = waiting'[i]
    BY <1>1 DEF Pending
  <2>2. ASSUME NEW i \in 1..Len(waiting') PROVE \E l \in 1..n : waiting'[i] = waiting[l]
    BY <1>3, <1>4, <1>5
  <2> QED BY <2>1, <2>2, <1>3, <1>7 DEF Pending, n
<1>10. \A y \in Pending' : \E j \in Unread' : y = Task(j)'
  <2>1. Unread' = Unread
    BY <1>1, <1>2 DEF Unread, Submitted
  <2> QED BY <2>1, <1>2, <1>9 DEF PoolInv, PoolKept
<1>11. \A i \in 1..program.stages : result'[i] # "none" => \E j \in Submitted' : program.body[j].stage = i
  <2>1. Submitted' = Submitted
    BY <1>1, <1>2 DEF Submitted
  <2> QED BY <2>1, <1>1 DEF PoolInv, PoolKept
<1>12. open /\ open'
  <2>1. open
    BY <1>1 DEF PoolInv, PoolKept, PoolIsIdle
  <2> QED BY <2>1, <1>1
<1>13. (phase = "run" => (open <=> OpenAt(program, pc)))'
  <2>1. phase = "run" => (open <=> OpenAt(program, pc))
    BY DEF PoolInv, PoolKept
  <2>2. (open' <=> open) /\ (OpenAt(program, pc)' <=> OpenAt(program, pc)) /\ (phase' = phase)
    BY <1>1, <1>2
  <2> QED BY <2>1, <2>2
<1>14. result' \in [1..program.stages -> {"none", "ok", "failed"}]
  BY <1>1 DEF PoolInv, PoolKept
<1>15. waiting' \in Seq({Task(j) : j \in Positions(program, {"submit"})})'
  BY <1>2, <1>3 DEF Tasks
<1> QED BY <1>2, <1>8, <1>10, <1>11, <1>12, <1>13, <1>14, <1>15 DEF PoolKept

(* A read that ends is of a stage that no other read waits for.             *)
LEMMA EndKeeps ==
    ASSUME PoolInv, NEW t \in reading, EndRead(t)
    PROVE  PoolKept'
<1>1. /\ UNCHANGED <<script, pc, phase, open, waiting>> /\ reading' = reading \ {t}
      /\ result' = [result EXCEPT ![t.stage] = "ok"] \/ result' = [result EXCEPT ![t.stage] = "failed"]
  BY DEF EndRead, hostVars
<1>2. program' = program /\ \A j : Task(j)' = Task(j)
  BY <1>1 DEF program, Task
<1>3. PICK v \in Unread : t = Task(v)
  BY DEF PoolInv, PoolKept, Pending
<1>4. /\ v \in Positions(program, {"submit"}) /\ v \in Submitted /\ t.stage = program.body[v].stage
      /\ t.stage \in 1..program.stages
  <2>1. v \in Positions(program, {"submit"}) /\ v \in Submitted
    BY DEF Unread, Submitted
  <2>2. v \in Positions(program, {"submit", "await"})
    BY <2>1 DEF Positions
  <2>3. t.stage = program.body[v].stage
    BY <1>3 DEF Task
  <2> QED BY <2>1, <2>2, <2>3, PoolNames DEF PoolInv
<1>5. /\ result' \in [1..program.stages -> {"none", "ok", "failed"}]
      /\ \A i \in 1..program.stages : i # t.stage => result'[i] = result[i]
  BY <1>1 DEF PoolInv, PoolKept
<1>6. ASSUME NEW y \in Pending' PROVE \E j \in Unread' : y = Task(j)'
  <2>1. y \in Pending /\ y # t
    BY <1>1, <1>6 DEF Pending, PoolInv, PoolKept
  <2>2. PICK j \in Unread : y = Task(j)
    BY <2>1 DEF PoolInv, PoolKept
  <2>3. j \in Positions(program, {"submit"}) /\ j \in Submitted /\ program.body[j].stage \in 1..program.stages
    <3>1. j \in Positions(program, {"submit"}) /\ j \in Submitted
      BY DEF Unread, Submitted
    <3>2. j \in Positions(program, {"submit", "await"})
      BY <3>1 DEF Positions
    <3> QED BY <3>1, <3>2, PoolNames DEF PoolInv
  <2>4. program.body[j].stage # t.stage
    BY <2>1, <2>2, <2>3, <1>3, <1>4, OneReadPerStage DEF PoolInv
  <2>5. result'[program.body[j].stage] = "none"
    BY <2>3, <2>4, <1>5 DEF Unread
  <2>6. j \in Unread'
    BY <2>3, <2>5, <1>1, <1>2 DEF Unread, Submitted
  <2> QED BY <2>2, <2>6, <1>2
<1>7. ASSUME NEW i \in 1..program.stages, result'[i] # "none"
      PROVE  \E j \in Submitted' : program.body[j].stage = i
  <2>1. Submitted' = Submitted
    BY <1>1, <1>2 DEF Submitted
  <2>2. CASE i = t.stage
    BY <2>1, <2>2, <1>4
  <2>3. CASE i # t.stage
    BY <2>1, <2>3, <1>5, <1>7 DEF PoolInv, PoolKept
  <2> QED BY <2>2, <2>3
<1>8. waiting' \in Seq({Task(j) : j \in Positions(program, {"submit"})})'
  BY <1>1, <1>2 DEF PoolInv, PoolKept, Task
<1>9. \A i \in 1..Len(waiting') : /\ waiting'[i] \notin reading'
                                  /\ \A l \in 1..Len(waiting') : waiting'[i] = waiting'[l] => i = l
  BY <1>1 DEF PoolInv, PoolKept
<1>10. open
  BY DEF PoolInv, PoolKept, PoolIsIdle
<1>11. open' <=> open
  BY <1>1
<1>12. (phase = "run" => (open <=> OpenAt(program, pc)))'
  <2>1. phase = "run" => (open <=> OpenAt(program, pc))
    BY DEF PoolInv, PoolKept
  <2>2. (open' <=> open) /\ (OpenAt(program, pc)' <=> OpenAt(program, pc)) /\ (phase' = phase)
    BY <1>1, <1>2
  <2> QED BY <2>1, <2>2
<1> QED BY <1>2, <1>5, <1>6, <1>7, <1>8, <1>9, <1>10, <1>11, <1>12 DEF PoolKept

LEMMA PoolStep ==
    ASSUME PoolInv, [Next]_vars
    PROVE  PoolKept'
<1> USE DEF Proceed, At, poolVars
<1>0. TypeOK /\ pc \in Nat /\ (phase = "run" => (open <=> OpenAt(program, pc))) /\ (~open => PoolIsIdle)
  BY DEF PoolInv, PoolKept, TypeOK
<1>1. CASE Acquire \/ Remember \/ ReleaseNow \/ Fill \/ Enqueue \/ Synchronize \/ ReadBack \/ AwaitRead
           \/ MissRecord
  <2>1. Running /\ Op.do \notin {"open", "close"}
    BY <1>1 DEF Acquire, Remember, ReleaseNow, Fill, Enqueue, Synchronize, ReadBack, AwaitRead, MissRecord, Asynchronous
  <2>2. pc' = pc + 1 /\ UNCHANGED <<script, poolVars, phase, open>>
    BY <1>1 DEF Acquire, Remember, ReleaseNow, Fill, Enqueue, Synchronize, ReadBack, AwaitRead, MissRecord
  <2> QED BY <2>1, <2>2, PoolCall
<1>2. CASE EnterBlock \/ LeavePool
  <2>1. /\ Running /\ phase = "run" /\ pc' = pc + 1 /\ UNCHANGED <<script, poolVars, phase>>
        /\ pc \in 1..Len(program.body) /\ Len(program.body) \in Nat
    BY <1>0, <1>2, LengthIsNat DEF EnterBlock, LeavePool, Running, TypeOK
  <2>2. OpenAt(program, pc + 1) <=> (OpenAt(program, pc) \/ Op.do = "open") /\ Op.do # "close"
    BY <2>1, OpenNext DEF Op
  <2>3. CASE EnterBlock
    <3>1. (open' <=> (open \/ Op.do = "open")) /\ Op.do # "close"
      BY <2>3 DEF EnterBlock
    <3> QED BY <3>1, <2>1, <2>2, <1>0, PoolUntouched
  <2>4. CASE LeavePool
    <3>1. ~open' /\ PoolIsIdle /\ Op.do = "close"
      BY <2>4 DEF LeavePool
    <3> QED BY <3>1, <2>1, <2>2, <1>0, PoolUntouched
  <2> QED BY <1>2, <2>3, <2>4
<1>3. CASE SubmitRead
  BY <1>3, SubmitKeeps
<1>4. CASE Fails \/ Completed
  <2>1. phase' # "run" /\ UNCHANGED <<script, pc, open, poolVars>>
    BY <1>4 DEF Fails, Completed, Leaving
  <2>2. open' <=> open
    BY <2>1
  <2> QED BY <2>1, <2>2, <1>0, PoolUntouched
<1>5. CASE Joined
  <2>1. phase' # "run" /\ UNCHANGED <<script, pc, poolVars>> /\ PoolIsIdle
    BY <1>5 DEF Joined
  <2> QED BY <2>1, PoolUntouched
<1>6. CASE Release \/ ReleaseFails \/ NextKind \/ Exit
  <2>1. phase' # "run" /\ UNCHANGED <<script, pc, open, poolVars>>
    BY <1>6 DEF Release, ReleaseFails, NextKind, Exit, Cleaning
  <2>2. open' <=> open
    BY <2>1
  <2> QED BY <2>1, <2>2, <1>0, PoolUntouched
<1>7. CASE Device \/ UNCHANGED vars
  <2>1. UNCHANGED <<script, pc, phase, open, poolVars>>
    BY <1>7 DEF Device, Execute, hostVars, vars
  <2>2. (open' <=> open) /\ (phase' = phase) /\ (OpenAt(program, pc') <=> OpenAt(program, pc))
    BY <2>1
  <2>3. phase' = "run" => (open' <=> OpenAt(program, pc'))
    BY <2>2, <1>0
  <2>4. ~open' => PoolIsIdle
    BY <2>2, <1>0
  <2> QED BY <2>1, <2>3, <2>4, PoolUntouched
<1>8. CASE StartRead
  BY <1>8, StartKeeps
<1>9. CASE \E t \in reading : EndRead(t)
  BY <1>9, EndKeeps
<1> QED
  BY <1>1, <1>2, <1>3, <1>4, <1>5, <1>6, <1>7, <1>8, <1>9 DEF Next, Host, Progress, Reader

LEMMA AwaitsStep ==
    ASSUME PoolInv, [Next]_vars
    PROVE  AwaitsMet'
<1> SUFFICES ASSUME NEW a \in Positions(program, {"await"})', a < pc'
             PROVE  result'[program'.body[a].stage] = "ok"
  BY DEF AwaitsMet
<1> USE DEF Proceed, At, poolVars
<1>0. script' = script
  BY DEF Next, Host, Progress, MissRecord, Acquire, Remember, ReleaseNow, EnterBlock, Fill, Enqueue, Synchronize, ReadBack, SubmitRead,
     AwaitRead, LeavePool, Fails, Joined, Completed, Release, ReleaseFails, NextKind, Exit,
     Device, Execute, Reader, StartRead, EndRead, vars
<1>1. program' = program /\ a \in Positions(program, {"await"}) /\ a \in Nat /\ pc \in Nat
  BY <1>0 DEF program, Positions, PoolInv, TypeOK
<1>2. CASE a < pc
  <2>1. result[program.body[a].stage] = "ok"
    BY <1>1, <1>2 DEF PoolInv, AwaitsMet
  <2>2. CASE \E t \in reading : EndRead(t)
    <3>1. PICK t \in reading : EndRead(t)
      BY <2>2
    <3>2. result' = [result EXCEPT ![t.stage] = "ok"] \/ result' = [result EXCEPT ![t.stage] = "failed"]
      BY <3>1 DEF EndRead
    <3>3. PICK v \in Unread : t = Task(v)
      BY <3>1 DEF PoolInv, PoolKept, Pending
    <3>4. result[t.stage] = "none"
      BY <3>3 DEF Unread, Task
    <3>5. a \in Positions(program, {"submit", "await"})
      BY <1>1 DEF Positions
    <3>6. program.body[a].stage \in 1..program.stages
      BY <3>5, PoolNames DEF PoolInv
    <3> QED BY <2>1, <3>2, <3>4, <3>6, <1>1 DEF PoolInv, PoolKept
  <2>3. CASE ~(\E t \in reading : EndRead(t))
    <3>1. result' = result
      BY <2>3 DEF Next, Host, Progress, MissRecord, Acquire, Remember, ReleaseNow, EnterBlock, Fill, Enqueue, Synchronize, ReadBack,
         SubmitRead, AwaitRead, LeavePool, Fails, Joined, Completed, Release, ReleaseFails, NextKind, Exit,
         Device, Execute, Reader, StartRead, vars
    <3> QED BY <3>1, <2>1, <1>1
  <2> QED BY <2>2, <2>3
<1>3. CASE ~(a < pc)
  <2>1. pc' # pc
    BY <1>1, <1>3
  <2>2. Host /\ UNCHANGED result /\ Running /\ pc' = pc + 1 /\ (Op.do = "await" => result[Op.stage] = "ok")
    BY <2>1 DEF Next, Host, Progress, MissRecord, Acquire, Remember, ReleaseNow, EnterBlock, Fill, Enqueue, Synchronize, ReadBack,
       SubmitRead, AwaitRead, LeavePool, Fails, Joined, Completed, Release, ReleaseFails, NextKind, Exit,
       Device, Execute, Reader, StartRead, EndRead, vars, hostVars, Asynchronous
  <2>3. a = pc
    BY <2>2, <1>1, <1>3
  <2>4. Op.do = "await" /\ Op = program.body[a]
    BY <2>3, <1>1 DEF Positions, Op
  <2> QED BY <2>2, <2>4, <1>1
<1> QED BY <1>2, <1>3

-----------------------------------------------------------------------------
(* Memory holds what the last of the calls that write it wrote.             *)
CallsInv == EventsInv /\ PoolInv
Writers == Positions(program, {"read", "upload", "copy", "submit"})

LEMMA BegunIsOver ==
    ASSUME CallsInv, NEW j \in 1..Len(program.body), NEW k \in 1..Len(program.body),
           Settled(program, j, k), Begun(k), program.body[k].do # "record"
    PROVE  Over(j)
<1>1. EventsInv /\ AwaitsMet /\ pc \in Nat /\ k \in Nat
  BY LengthIsNat DEF CallsInv, PoolInv, TypeOK
<1>2. k <= pc
  BY <1>1 DEF Begun, Past
<1>3. ASSUME program.body[k].do \in Asynchronous PROVE Ripe(k)
  <2>1. k \in Work /\ Past(k) /\ k \notin missed
    BY <1>1, <1>3 DEF Work, Positions, Begun, EventsInv, QueuesInv, MissedKept
  <2> QED BY <1>1, <2>1, PastIsRipe
<1> QED BY <1>1, <1>2, <1>3, SettledIsOver

LEMMA BegunStays ==
    ASSUME CallsInv, [Next]_vars, NEW v \in Nat, Begun(v)
    PROVE  Begun(v)'
<1>0. QueuesInv /\ TypeOK /\ QueueTyped /\ QueueOrdered /\ pc \in Nat /\ (pc' = pc \/ pc' = pc + 1)
      /\ program' = program
  BY PastStays DEF CallsInv, EventsInv, QueuesInv, program
<1>1. CASE Past(v)
  BY <1>0, <1>1, PastStays DEF Begun
<1>2. CASE v = pc /\ program.body[v].do \notin Asynchronous
  <2>1. CASE pc' = pc
    BY <1>0, <1>2, <2>1 DEF Begun
  <2>2. CASE pc' = pc + 1
    <3>1. Called
      BY <1>0, <1>2, <2>2, StepShape DEF Quiet, Enqueue, MissRecord, Asynchronous, At, Op, Execute, hostVars
    <3>2. ~Queued(v)
      BY <1>0, <1>2, QueuedCall
    <3>3. ~Queued(v)'
      BY <3>1, <3>2, UnchangedQueued DEF Called
    <3> QED BY <3>3, <1>0, <1>2, <2>2 DEF Begun, Past
  <2> QED BY <2>1, <2>2, <1>0
<1> QED BY <1>1, <1>2 DEF Begun

LEMMA WriterNames ==
    ASSUME TypeOK, NEW w \in Writers
    PROVE  program.body[w].to \in Buffers /\ w \in 1..Len(program.body) /\ w \in Nat
<1>1. program.body[w] \in Calls(program, {"read", "upload", "copy", "submit"}) /\ w \in Nat
      /\ w \in 1..Len(program.body)
  BY DEF Calls, Positions, Writers
<1>2. NamesKnown(program)
  BY ScriptRules
<1> QED BY <1>1, <1>2 DEF NamesKnown, Buffers, Of

(* What a call is to read is there when it reads. *)
LEMMA RightBytes ==
    ASSUME CallsInv, MemoryFollows, NEW k \in Positions(program, {"copy", "kernel", "fetchData"}), k <= pc,
           program.body[k].do \in Asynchronous => Ripe(k), ~Over(k)
    PROVE  mem[program.body[k].from] = program.body[k].stage
<1> DEFINE b == program.body[k].from
<1>0. EventsInv /\ AwaitsMet /\ TypeOK /\ k \in 1..Len(program.body)
  BY DEF CallsInv, PoolInv, Positions
<1>1. PICK w \in Writes(program, b) : /\ Written(program.body[w]) = program.body[k].stage
                                      /\ Settled(program, w, k)
                                      /\ \A v \in Writes(program, b) : v <= w \/ Settled(program, k, v)
  <2>1. DataOrder(program)
    BY <1>0, ScriptRules
  <2> QED BY <2>1 DEF DataOrder
<1>2. \A v \in Writes(program, b) : /\ v \in Writers /\ v \in Nat /\ v \in 1..Len(program.body)
                                     /\ program.body[v].to = b /\ program.body[v].do # "record"
  BY DEF Writes, Writers, Positions
<1>3. b \in Buffers
  BY <1>0, <1>2, WriterNames
<1>4. Over(w)
  BY <1>0, <1>1, <1>2, SettledIsOver
<1>5. ASSUME NEW v \in Writes(program, b), w < v PROVE ~Begun(v)
  <2>1. Settled(program, k, v)
    BY <1>1, <1>2, <1>5
  <2> QED BY <2>1, <1>0, <1>2, BegunIsOver
<1>6. Current(b, w)
  BY <1>4, <1>5 DEF Current
<1> QED BY <1>1, <1>3, <1>6 DEF MemoryFollows

LEMMA NewlyOver ==
    ASSUME CallsInv, [Next]_vars, NEW w \in Writers, Over(w)', ~Over(w)
    PROVE  \/ w = pc /\ pc' = pc + 1 /\ program.body[w].do \in {"read", "upload"}
           \/ program.body[w].do = "copy" /\ Queued(w) /\ ~Queued(w)'
           \/ program.body[w].do = "submit" /\ result[program.body[w].stage] # "ok"
                /\ result'[program.body[w].stage] = "ok"
<1>0. /\ QueuesInv /\ TypeOK /\ Tracking /\ QueueTyped /\ QueueOrdered /\ pc \in Nat /\ w \in Nat
      /\ (pc' = pc \/ pc' = pc + 1) /\ program' = program
  BY PastStays, WriterNames DEF CallsInv, EventsInv, QueuesInv, program
<1>1. w < pc' /\ ~Queued(w)' /\ (program.body[w].do = "submit" => result'[program.body[w].stage] = "ok")
  BY <1>0 DEF Over, Past
<1>2. CASE w < pc
  <2>1. CASE Queued(w)
    <3>1. w \in Work
      BY <1>0, <2>1, QueuedCall
    <3>2. program.body[w].do = "copy"
      BY <3>1 DEF Work, Writers, Positions, Asynchronous
    <3> QED BY <3>2, <2>1, <1>1
  <2>2. CASE ~Queued(w)
    BY <1>1, <1>2, <2>2 DEF Over, Past
  <2> QED BY <2>1, <2>2
<1>3. CASE ~(w < pc)
  <2>1. w = pc /\ pc' = pc + 1 /\ pc' # pc
    BY <1>0, <1>1, <1>3
  <2>2. CASE program.body[w].do = "copy"
    <3>1. Enqueue
      BY <2>1, <2>2, StepShape DEF Quiet, Called, MissRecord, At, Op, Asynchronous, Execute, hostVars
    <3>2. Queued(w)'
      BY <3>1, <2>1, <1>0, EnqueuedNow
    <3> QED BY <3>2, <1>1
  <2>3. CASE program.body[w].do = "submit"
    <3>1. result[program.body[w].stage] # "ok"
      <4>1. w \in Positions(program, {"submit"}) /\ w \in Positions(program, {"submit", "await"})
        BY <2>3 DEF Positions, Writers
      <4>2. program.body[w].stage \in 1..program.stages
        BY <4>1, <1>0, PoolNames
      <4>3. ASSUME NEW j \in Submitted, program.body[j].stage = program.body[w].stage PROVE FALSE
        <5>1. j = w
          BY <4>1, <4>3, <1>0, OneReadPerStage DEF Submitted
        <5> QED BY <5>1, <1>3 DEF Submitted
      <4> QED BY <4>2, <4>3 DEF CallsInv, PoolInv, PoolKept
    <3> QED BY <3>1, <2>3, <1>1
  <2>4. program.body[w].do \in {"read", "upload", "copy", "submit"}
    BY DEF Writers, Positions
  <2> QED BY <2>1, <2>2, <2>3, <2>4
<1> QED BY <1>2, <1>3

(* A step that writes nothing and completes no call that does. *)
LEMMA MemoryKept ==
    ASSUME CallsInv, MemoryFollows, [Next]_vars, mem' = mem,
           \A w \in Writers : Over(w)' => Over(w)
    PROVE  MemoryFollows'
<1>0. program' = program /\ script' = script /\ Buffers' = Buffers /\ TypeOK
  BY PastStays DEF CallsInv, EventsInv, QueuesInv, program, Buffers, Of
<1>1. ASSUME NEW b \in Buffers, NEW w \in Writes(program, b), Current(b, w)'
      PROVE  mem[b] = Written(program.body[w])
  <2>1. \A v \in Writes(program, b) : v \in Writers /\ v \in Nat
    BY DEF Writes, Writers, Positions
  <2>2. Over(w)
    BY <1>1, <2>1 DEF Current
  <2>3. \A v \in Writes(program, b) : w < v => ~Begun(v)
    BY <1>0, <1>1, <2>1, BegunStays DEF Current
  <2> QED BY <2>2, <2>3 DEF Current, MemoryFollows
<1>2. DOMAIN mem = Buffers /\ mem = [b \in Buffers |-> mem[b]]
  BY DEF MemoryFollows
<1> QED BY <1>0, <1>1, <1>2 DEF MemoryFollows

(* A step of one call that writes. *)
LEMMA MemoryWritten ==
    ASSUME CallsInv, MemoryFollows, [Next]_vars, NEW W \in Writers, NEW x,
           mem' = [mem EXCEPT ![program.body[W].to] = x],
           Begun(W)', ~Over(W), Over(W)' => x = Written(program.body[W]),
           \A w \in Writers : w # W /\ Over(w)' => Over(w)
    PROVE  MemoryFollows'
<1>0. program' = program /\ script' = script /\ Buffers' = Buffers /\ TypeOK
  BY PastStays DEF CallsInv, EventsInv, QueuesInv, program, Buffers, Of
<1> DEFINE b0 == program.body[W].to
<1>1. b0 \in Buffers /\ W \in Nat /\ W \in Writes(program, b0)
  BY <1>0, WriterNames DEF Writes, Writers
<1>2. /\ DOMAIN mem = Buffers /\ mem = [b \in Buffers |-> mem[b]]
      /\ DOMAIN mem' = Buffers /\ mem' = [b \in Buffers |-> mem'[b]]
      /\ mem'[b0] = x /\ \A b \in Buffers : b # b0 => mem'[b] = mem[b]
  BY <1>1 DEF MemoryFollows
<1>3. ASSUME NEW b \in Buffers, NEW w \in Writes(program, b), Current(b, w)'
      PROVE  mem'[b] = Written(program.body[w])
  <2>1. \A v \in Writes(program, b) : v \in Writers /\ v \in Nat /\ program.body[v].to = b
                                       /\ v \in 1..Len(program.body) /\ program.body[v].do # "record"
    BY DEF Writes, Writers, Positions
  <2>2. Over(w)' /\ \A v \in Writes(program, b) : w < v => ~Begun(v)'
    BY <1>0, <1>3 DEF Current
  <2>3. \A v \in Writes(program, b) : w < v => ~Begun(v)
    BY <2>1, <2>2, BegunStays
  <2>4. CASE w = W
    BY <2>1, <2>2, <2>4, <1>2
  <2>5. CASE w # W
    <3>1. Over(w)
      BY <2>1, <2>2, <2>5
    <3>2. b # b0
      <4>1. SUFFICES ASSUME b = b0 PROVE FALSE
        OBVIOUS
      <4>2. ~(w < W)
        BY <4>1, <1>1, <2>2
      <4>3. W < w
        BY <4>2, <2>1, <2>5, <1>1
      <4>4. Settled(program, W, w)
        <5>1. DataOrder(program) /\ b0 \in program.resources
          BY <1>0, <1>1, ScriptRules DEF Buffers, Of
        <5> QED BY <5>1, <4>1, <4>3, <1>1 DEF DataOrder
      <4>5. Begun(w)
        BY <3>1 DEF Over, Begun
      <4> QED BY <4>1, <4>4, <4>5, <1>1, <2>1, BegunIsOver
    <3>3. Current(b, w)
      BY <3>1, <2>3 DEF Current
    <3> QED BY <3>2, <3>3, <1>2 DEF MemoryFollows
  <2> QED BY <2>4, <2>5
<1> QED BY <1>0, <1>2, <1>3 DEF MemoryFollows

(* The main thread's own steps. *)
LEMMA HostMemory ==
    ASSUME CallsInv, MemoryFollows, [Next]_vars, Host
    PROVE  MemoryFollows'
<1> USE DEF Proceed, At, poolVars
<1>0. /\ TypeOK /\ Tracking /\ QueueTyped /\ QueueOrdered /\ pc \in Nat /\ program' = program
      /\ Op = program.body[pc]
  BY PastStays DEF CallsInv, EventsInv, QueuesInv, TypeOK, Op, program
<1>1. UNCHANGED result /\ \A j : Queued(j) => Queued(j)'
  <2>1. UNCHANGED result
    BY DEF Host, Progress, MissRecord, Acquire, Remember, ReleaseNow, EnterBlock, Fill, Enqueue, Synchronize, ReadBack, SubmitRead,
       AwaitRead, LeavePool, Fails, Joined, Completed, Release, ReleaseFails, NextKind, Exit
  <2>2. CASE Enqueue
    BY <1>0, <2>1, <2>2, EnqueuedNow
  <2>3. CASE ~Enqueue
    <3>1. UNCHANGED <<script, queue>>
      BY <2>3 DEF Host, Progress, MissRecord, Acquire, Remember, ReleaseNow, EnterBlock, Fill, Synchronize, ReadBack, SubmitRead,
         AwaitRead, LeavePool, Fails, Joined, Completed, Release, ReleaseFails, NextKind, Exit
    <3> QED BY <2>1, <3>1, UnchangedQueued
  <2> QED BY <2>2, <2>3
<1>2. \A w \in Writers : Over(w)' /\ ~Over(w) => w = pc /\ pc' = pc + 1 /\ Op.do \in {"read", "upload"}
  BY <1>0, <1>1, NewlyOver
<1>3. CASE Fill
  <2>1. /\ Running /\ pc' = pc + 1 /\ Op.do \in {"read", "upload"}
        /\ mem' = [mem EXCEPT ![Op.to] = Written(Op)]
    BY <1>3 DEF Fill, Written
  <2>2. pc \in Writers /\ pc \in 1..Len(program.body)
    BY <1>0, <2>1, LengthIsNat DEF Writers, Positions, TypeOK, Running
  <2>3. pc \notin Work /\ ~Queued(pc)
    <3>1. pc \notin Work
      BY <1>0, <2>1 DEF Work, Positions, Asynchronous
    <3> QED BY <3>1, <1>0, QueuedCall
  <2>4. ~Over(pc)
    BY <1>0 DEF Over, Past
  <2>5. ASSUME NEW j, j = pc PROVE Begun(j)'
    <3>1. UNCHANGED <<script, queue>>
      BY <1>3 DEF Fill
    <3>2. ~Queued(j)'
      BY <2>3, <2>5, <3>1, UnchangedQueued
    <3> QED BY <3>2, <2>1, <2>5, <1>0 DEF Begun, Past
  <2> DEFINE W == pc
  <2>6. PICK j \in Nat : j = pc
    BY <1>0
  <2>7. /\ j \in Writers /\ ~Over(j) /\ Begun(j)' /\ mem' = [mem EXCEPT ![program.body[j].to] = Written(program.body[j])]
        /\ \A w \in Writers : w # j /\ Over(w)' => Over(w)
    BY <1>0, <1>2, <2>1, <2>2, <2>4, <2>5, <2>6
  <2> QED BY <2>7, MemoryWritten
<1>4. CASE Fails /\ Op.do = "read"
  <2>1. /\ Running /\ pc' = pc /\ mem' = [mem EXCEPT ![Op.to] = 0]
    BY <1>4 DEF Fails
  <2>2. pc \in Writers
    BY <1>0, <1>4, <2>1, LengthIsNat DEF Writers, Positions, TypeOK, Running
  <2>3. PICK j \in Nat : j = pc
    BY <1>0
  <2>4. ~Over(j) /\ ~Over(j)' /\ Begun(j)'
    BY <1>0, <1>4, <2>1, <2>3 DEF Over, Past, Begun, Asynchronous
  <2>5. \A w \in Writers : w # j /\ Over(w)' => Over(w)
    BY <1>2, <2>3
  <2> QED BY <1>0, <2>1, <2>2, <2>3, <2>4, <2>5, MemoryWritten
<1>5. CASE ~Fill /\ ~(Fails /\ Op.do = "read")
  <2>1. mem' = mem
    BY <1>5 DEF Host, Progress, MissRecord, Acquire, Remember, ReleaseNow, EnterBlock, Enqueue, Synchronize, ReadBack, SubmitRead,
         AwaitRead, LeavePool, Fails, Joined, Completed, Release, ReleaseFails, NextKind, Exit
  <2>2. ~(pc' = pc + 1 /\ Op.do \in {"read", "upload"})
    <3>1. CASE Fails \/ Joined \/ Completed \/ Release \/ ReleaseFails \/ NextKind \/ Exit
      <4>1. pc' = pc
        BY <3>1 DEF Fails, Joined, Completed, Release, ReleaseFails, NextKind, Exit
      <4> QED BY <4>1, <1>0
    <3>2. CASE Acquire \/ Remember \/ ReleaseNow \/ EnterBlock \/ Enqueue
      BY <3>2 DEF Acquire, Remember, ReleaseNow, EnterBlock, Enqueue, Asynchronous
    <3>3. CASE Synchronize \/ ReadBack \/ SubmitRead \/ AwaitRead \/ LeavePool \/ MissRecord
      BY <3>3 DEF Synchronize, ReadBack, SubmitRead, AwaitRead, LeavePool, MissRecord
    <3> QED BY <3>1, <3>2, <3>3, <1>5 DEF Host, Progress
  <2> QED BY <2>1, <2>2, <1>2, MemoryKept
<1> QED BY <1>3, <1>4, <1>5

(* A stream meets the bytes it was queued for, and copies those.            *)
LEMMA DeviceMeets ==
    ASSUME CallsInv, MemoryFollows, [Next]_vars, NEW x \in Of({"stream"}), Execute(x)
    PROVE  MemoryFollows' /\ stale' = stale
<1>h. PICK h : h = Head(queue[x])
  OBVIOUS
<1>0. QueuesInv /\ EventsInv /\ QueueTyped /\ QueueOrdered /\ pc \in Nat
  BY DEF CallsInv, EventsInv, QueuesInv, TypeOK
<1>1. Queued(h) /\ \A j : Queued(j)' <=> Queued(j) /\ j # h
  BY <1>0, <1>h, ExecutedNow DEF QueuesInv
<1>2. Ripe(h) /\ h \in Work /\ h \in Nat /\ h < pc /\ ~Over(h)
  BY <1>0, <1>1, <1>h, HeadIsRipe, QueuedCall DEF QueuesInv, Over, Past
<1>3. /\ UNCHANGED <<pc, result, script>>
      /\ mem' = IF program.body[h].do = "copy"
                THEN [mem EXCEPT ![program.body[h].to] = mem[program.body[h].from]] ELSE mem
      /\ stale' = stale \cup (IF program.body[h].do \in {"copy", "kernel"}
                                 /\ mem[program.body[h].from] # program.body[h].stage THEN {h} ELSE {})
  BY <1>h DEF Execute, hostVars, poolVars
<1>4. ASSUME program.body[h].do \in {"copy", "kernel"}
      PROVE  mem[program.body[h].from] = program.body[h].stage
  <2>1. h \in Positions(program, {"copy", "kernel", "fetchData"}) /\ h <= pc
    BY <1>2, <1>4, <1>0 DEF Work, Positions
  <2> QED BY <2>1, <1>2, RightBytes
<1>5. stale' = stale
  BY <1>3, <1>4
<1>6. \A w \in Writers : Over(w)' /\ ~Over(w) => w = h
  BY <1>0, <1>1, <1>3, NewlyOver
<1>7. CASE program.body[h].do = "copy"
  <2>1. h \in Writers
    BY <1>2, <1>7 DEF Work, Positions, Writers
  <2>2. Begun(h)'
    BY <1>1, <1>2, <1>3 DEF Begun, Past
  <2>3. mem[program.body[h].from] = Written(program.body[h])
    BY <1>4, <1>7 DEF Written
  <2>4. \A w \in Writers : w # h /\ Over(w)' => Over(w)
    BY <1>6
  <2>5. MemoryFollows'
    BY <1>2, <1>3, <1>7, <2>1, <2>2, <2>3, <2>4, MemoryWritten
  <2> QED BY <2>5, <1>5
<1>8. CASE program.body[h].do # "copy"
  <2>1. h \notin Writers
    BY <1>2, <1>8 DEF Work, Positions, Writers, Asynchronous
  <2> QED BY <2>1, <1>3, <1>5, <1>6, <1>8, MemoryKept
<1> QED BY <1>7, <1>8

LEMMA ReaderMemory ==
    ASSUME CallsInv, MemoryFollows, [Next]_vars, Reader
    PROVE  MemoryFollows'
<1>0. /\ UNCHANGED <<pc, queue, script>> /\ PoolInv /\ PoolKept /\ TypeOK /\ pc \in Nat
      /\ QueueTyped /\ QueueOrdered /\ program' = program
  BY DEF Reader, StartRead, EndRead, hostVars, CallsInv, EventsInv, QueuesInv, PoolInv, TypeOK, program
<1>1. \A j : Queued(j)' <=> Queued(j)
  BY <1>0, UnchangedQueued
<1>2. \A w \in Writers : Over(w)' /\ ~Over(w) =>
          program.body[w].do = "submit" /\ result[program.body[w].stage] # "ok"
             /\ result'[program.body[w].stage] = "ok"
  BY <1>0, <1>1, NewlyOver
<1>3. ASSUME NEW t \in Pending
      PROVE  \E v \in Writers : /\ program.body[v].do = "submit" /\ t = Task(v) /\ v \in Unread
                                /\ v \in Nat /\ v < pc /\ ~Over(v) /\ Begun(v)'
  <2>1. PICK v \in Unread : t = Task(v)
    BY <1>0 DEF PoolKept
  <2>2. v \in Positions(program, {"submit"}) /\ v < pc /\ result[program.body[v].stage] = "none"
    BY DEF Unread, Submitted
  <2>3. v \in Writers /\ program.body[v].do = "submit" /\ v \in Nat /\ v \notin Work
    BY <2>2 DEF Writers, Positions, Work, Asynchronous
  <2>4. ~Queued(v)
    BY <2>3, <1>0, QueuedCall
  <2>5. ~Over(v) /\ Begun(v)'
    BY <2>2, <2>3, <2>4, <1>0, <1>1 DEF Over, Begun, Past
  <2> QED BY <2>1, <2>2, <2>3, <2>5
<1>4. CASE StartRead
  <2>1. result' = result /\ waiting # <<>> /\ mem' = [mem EXCEPT ![Head(waiting).to] = 0]
    BY <1>4 DEF StartRead
  <2>2. Head(waiting) \in Pending
    <3>1. PICK T : waiting \in Seq(T)
      BY <1>0 DEF PoolKept
    <3>2. Head(waiting) = waiting[1] /\ 1 \in 1..Len(waiting)
      BY <2>1, <3>1
    <3> QED BY <3>2 DEF Pending
  <2>3. PICK v \in Writers : /\ program.body[v].do = "submit" /\ Head(waiting) = Task(v) /\ v \in Unread
                             /\ v \in Nat /\ v < pc /\ ~Over(v) /\ Begun(v)'
    BY <2>2, <1>3
  <2>4. mem' = [mem EXCEPT ![program.body[v].to] = 0]
    <3>1. Head(waiting).to = program.body[v].to
      BY <2>3 DEF Task
    <3> QED BY <2>1, <3>1
  <2>5. \A w \in Writers : Over(w)' => Over(w)
    BY <1>2, <2>1
  <2> QED BY <2>3, <2>4, <2>5, MemoryWritten
<1>5. CASE \E t \in reading : EndRead(t)
  <2>1. PICK t \in reading : EndRead(t)
    BY <1>5
  <2>2. t \in Pending
    BY DEF Pending
  <2>3. PICK v \in Writers : /\ program.body[v].do = "submit" /\ t = Task(v) /\ v \in Unread
                             /\ v \in Nat /\ v < pc /\ ~Over(v) /\ Begun(v)'
    BY <2>2, <1>3
  <2>4. t.to = program.body[v].to /\ t.stage = program.body[v].stage
    BY <2>3 DEF Task
  <2>5. \A w \in Writers : Over(w)' /\ ~Over(w) => program.body[w].do = "submit"
            /\ program.body[w].stage \in 1..program.stages
    <3> SUFFICES ASSUME NEW w \in Writers, program.body[w].do = "submit"
                 PROVE  program.body[w].stage \in 1..program.stages
      BY <1>2
    <3>1. w \in Positions(program, {"submit", "await"})
      BY DEF Writers, Positions
    <3> QED BY <3>1, <1>0, PoolNames
  <2>6. CASE mem' = [mem EXCEPT ![t.to] = t.stage] /\ result' = [result EXCEPT ![t.stage] = "ok"]
    <3>1. ASSUME NEW w \in Writers, w # v, Over(w)', ~Over(w) PROVE FALSE
      <4>1. program.body[w].do = "submit" /\ program.body[w].stage = t.stage
        BY <1>2, <2>5, <2>6, <3>1, <1>0 DEF PoolKept
      <4>2. w \in Positions(program, {"submit"}) /\ v \in Positions(program, {"submit"})
        BY <4>1, <2>3 DEF Writers, Positions
      <4> QED BY <4>1, <4>2, <2>4, <3>1, <1>0, OneReadPerStage
    <3>2. mem' = [mem EXCEPT ![program.body[v].to] = Written(program.body[v])]
      BY <2>3, <2>4, <2>6 DEF Written
    <3> QED BY <2>3, <3>1, <3>2, MemoryWritten
  <2>7. CASE mem' = mem /\ result' = [result EXCEPT ![t.stage] = "failed"]
    <3>1. \A w \in Writers : Over(w)' => Over(w)
      BY <1>2, <2>5, <2>7, <1>0 DEF PoolKept
    <3> QED BY <3>1, <2>7, MemoryKept
  <2> QED BY <2>1, <2>6, <2>7 DEF EndRead
<1> QED BY <1>4, <1>5 DEF Reader

LEMMA MemoryStep ==
    ASSUME CallsInv, MemoryFollows, [Next]_vars
    PROVE  MemoryFollows' /\ stale' = stale
<1>1. CASE Host
  <2>1. stale' = stale
    BY <1>1 DEF Host, Progress, MissRecord, Acquire, Remember, ReleaseNow, EnterBlock, Fill, Enqueue, Synchronize, ReadBack, SubmitRead,
       AwaitRead, LeavePool, Fails, Joined, Completed, Release, ReleaseFails, NextKind, Exit
  <2> QED BY <1>1, <2>1, HostMemory
<1>2. CASE Device
  BY <1>2, DeviceMeets DEF Device
<1>3. CASE Reader
  <2>1. stale' = stale
    BY <1>3 DEF Reader, StartRead, EndRead
  <2> QED BY <1>3, <2>1, ReaderMemory
<1>4. CASE UNCHANGED vars
  <2>1. UNCHANGED <<script, pc, queue, mem, result, stale>>
    BY <1>4 DEF vars, hostVars, poolVars
  <2>2. \A j : Queued(j)' <=> Queued(j)
    BY <2>1, UnchangedQueued
  <2>3. \A w \in Writers : Over(w)' => Over(w)
    BY <2>1, <2>2 DEF Over, Past, program
  <2> QED BY <2>1, <2>3, MemoryKept
<1> QED BY <1>1, <1>2, <1>3, <1>4 DEF Next

(* The pool fills only buffers that exist and that no queued copy reads.    *)
LEMMA RefillsWait == ASSUME CallsInv PROVE RefillWaits
<1>0. /\ TypeOK /\ Tracking /\ PoolKept /\ AwaitsMet /\ QueueTyped /\ QueueOrdered
      /\ pc \in Nat /\ Len(program.body) \in Nat /\ pc <= Len(program.body) + 1
  BY LengthIsNat DEF CallsInv, PoolInv, EventsInv, QueuesInv, TypeOK, Tracking
<1> SUFFICES ASSUME NEW t \in reading
             PROVE  /\ t.to \in live
                    /\ \A s \in Of({"stream"}) : \A i \in 1..Len(queue[s]) :
                          program.body[queue[s][i]].do = "copy" => program.body[queue[s][i]].from # t.to
  BY DEF RefillWaits
<1>1. PICK v \in Unread : t = Task(v)
  BY <1>0 DEF PoolKept, Pending
<1>2. /\ v \in Positions(program, {"submit"}) /\ v < pc /\ result[program.body[v].stage] = "none"
      /\ t.to = program.body[v].to /\ v \in 1..Len(program.body) /\ v \in Nat
      /\ program.body[v].do = "submit"
  BY <1>1 DEF Unread, Submitted, Task, Positions
<1>3. t.to \in live
  <2>1. open
    BY <1>0 DEF PoolKept, PoolIsIdle
  <2>2. phase \in {"run", "join"}
    BY <2>1, <1>0 DEF TypeOK
  <2>3. live = AliveAt(program, pc)
    BY <2>2, <1>0 DEF Tracking
  <2>4. t.to \in AliveAt(program, v) /\ \A c \in Calls(program, {"free"}) : c.res # t.to
    <3>1. PoolOrder(program)
      BY <1>0, ScriptRules
    <3> QED BY <3>1, <1>2 DEF PoolOrder
  <2>5. PICK j \in 1..(v - 1) : Has(program, j, {"alloc", "take"}, t.to)
    BY <2>4 DEF AliveAt
  <2>6. ASSUME NEW k \in (j + 1)..(pc - 1), Has(program, k, {"free"}, t.to) PROVE FALSE
    <3>1. k \in 1..Len(program.body)
      BY <1>0
    <3>2. program.body[k] \in Calls(program, {"free"}) /\ program.body[k].res = t.to
      BY <3>1, <2>6 DEF Calls, Has
    <3> QED BY <3>2, <2>4
  <2>7. j \in 1..(pc - 1) /\ t.to \in program.resources
    BY <2>4, <1>0, <1>2 DEF AliveAt
  <2> QED BY <2>3, <2>5, <2>6, <2>7 DEF AliveAt
<1>4. ASSUME NEW s \in Of({"stream"}), NEW i \in 1..Len(queue[s]), program.body[queue[s][i]].do = "copy",
             program.body[queue[s][i]].from = t.to
      PROVE  FALSE
  <2> DEFINE k == queue[s][i]
  <2>1. Queued(k) /\ k \in Work /\ k \in Nat /\ k < pc
    <3>1. Queued(k)
      BY DEF Queued
    <3> QED BY <3>1, <1>0, QueuedCall
  <2> HIDE DEF k
  <2>2. k \in Positions(program, {"copy", "kernel", "fetchData"}) /\ k \in 1..Len(program.body)
    BY <2>1, <1>4 DEF k, Work, Positions
  <2>3. PICK w \in Writes(program, t.to) : Settled(program, w, k)
            /\ \A u \in Writes(program, t.to) : u <= w \/ Settled(program, k, u)
    <3>1. DataOrder(program)
      BY <1>0, ScriptRules
    <3> QED BY <3>1, <2>2, <1>4 DEF DataOrder, k
  <2>4. v \in Writes(program, t.to) /\ w \in Nat /\ w \in 1..Len(program.body)
    BY <1>2 DEF Writes, Positions
  <2>5. ~Settled(program, k, v)
    <3>1. SUFFICES ASSUME Settled(program, k, v) PROVE FALSE
      OBVIOUS
    <3>2. Begun(v)
      <4>1. v \notin Work
        BY <1>2 DEF Work, Positions, Asynchronous
      <4> QED BY <4>1, <1>0, <1>2, QueuedCall DEF Begun, Past
    <3> QED BY <3>1, <3>2, <1>2, <2>1, <2>2, BegunIsOver DEF Over, Past
  <2>6. v <= w /\ w < k
    BY <2>3, <2>4, <2>5 DEF Settled
  <2>7. \E a \in Positions(program, {"await"}) : a < k /\ program.body[a].stage = program.body[v].stage
    <3>1. CASE v = w
      BY <3>1, <2>3, <1>2 DEF Settled
    <3>2. CASE v < w
      <4>1. Settled(program, v, w)
        <5>1. DataOrder(program) /\ t.to \in program.resources
          <6>1. v \in Writers
            BY <1>2 DEF Positions, Writers
          <6> QED BY <6>1, <1>0, <1>2, ScriptRules, WriterNames DEF Buffers, Of
        <5> QED BY <5>1, <3>2, <2>4 DEF DataOrder
      <4>2. PICK a \in Positions(program, {"await"}) : a < w /\ program.body[a].stage = program.body[v].stage
        BY <4>1, <1>2 DEF Settled
      <4>3. a < k
        BY <4>2, <2>1, <2>4, <2>6 DEF Positions
      <4> QED BY <4>2, <4>3
    <3> QED BY <3>1, <3>2, <2>4, <2>6, <1>2
  <2>8. PICK a \in Positions(program, {"await"}) : a < k /\ program.body[a].stage = program.body[v].stage
    BY <2>7
  <2>9. a < pc
    BY <2>1, <2>8, <1>0 DEF Positions
  <2>10. result[program.body[v].stage] = "ok"
    BY <2>8, <2>9, <1>0 DEF AwaitsMet
  <2> QED BY <2>10, <1>2
<1> QED BY <1>3, <1>4

-----------------------------------------------------------------------------
(* Outputs hold the sums of the launches since they were zeroed.            *)
LEMMA NewlyPast ==
    ASSUME CallsInv, [Next]_vars, NEW k \in Work, Past(k)', ~Past(k), program.body[k].do # "record"
    PROVE  Queued(k) /\ ~Queued(k)'
<1>0. /\ QueuesInv /\ TypeOK /\ Tracking /\ QueueTyped /\ pc \in Nat /\ k \in Nat
      /\ (pc' = pc \/ pc' = pc + 1) /\ program' = program
      /\ program.body[k].do \in Asynchronous
  BY PastStays DEF CallsInv, EventsInv, QueuesInv, program, Work, Positions
<1>1. k < pc' /\ ~Queued(k)'
  BY DEF Past
<1>2. CASE k < pc
  BY <1>1, <1>2 DEF Past
<1>3. CASE ~(k < pc)
  <2>1. k = pc /\ pc' = pc + 1 /\ pc' # pc
    BY <1>0, <1>1, <1>3
  <2>2. Enqueue
    BY <1>0, <2>1, StepShape DEF Quiet, Called, MissRecord, At, Op, Execute, hostVars
  <2>3. Queued(k)'
    BY <2>1, <2>2, <1>0, EnqueuedNow
  <2> QED BY <2>3, <1>1
<1> QED BY <1>2, <1>3

LEMMA SumNames ==
    ASSUME TypeOK, NEW o
    PROVE  /\ Zeros(program, o) \subseteq Work /\ Sums(program, o) \subseteq Work
           /\ \A j \in Zeros(program, o) \cup Sums(program, o) :
                 j \in Nat /\ j \in 1..Len(program.body) /\ program.body[j].do # "record"
           /\ \A z \in Zeros(program, o) : program.body[z].do = "zero" /\ program.body[z].out = o
                                            /\ o \in Outputs /\ o \in program.resources
           /\ \A k \in Sums(program, o) : program.body[k].do = "kernel" /\ o \in program.body[k].outs
<1>1. ASSUME NEW z \in Zeros(program, o) PROVE o \in Outputs /\ o \in program.resources
  <2>1. program.body[z] \in Calls(program, {"zero", "fetch"}) /\ program.body[z].out = o
    BY DEF Zeros, Positions, Calls
  <2>2. NamesKnown(program)
    BY ScriptRules
  <2> QED BY <2>1, <2>2 DEF NamesKnown, Outputs, Of
<1> QED BY <1>1 DEF Zeros, Sums, Work, Positions, Asynchronous

(* Nothing is zeroed, or added, out of order with a call that zeroes.       *)
LEMMA ZeroOrder ==
    ASSUME CallsInv, NEW o, NEW z \in Zeros(program, o), NEW k \in Zeros(program, o) \cup Sums(program, o),
           z # k
    PROVE  /\ Past(k) /\ ~Past(z) => k < z
           /\ Past(z) /\ ~Past(k) => z < k
<1>0. /\ TypeOK /\ z \in 1..Len(program.body) /\ k \in 1..Len(program.body) /\ o \in program.resources
      /\ program.body[z].do # "record" /\ program.body[k].do # "record"
  BY SumNames DEF CallsInv, PoolInv
<1>1. Settled(program, z, k) \/ Settled(program, k, z)
  <2>1. SumOrder(program)
    BY <1>0, ScriptRules
  <2> QED BY <2>1, <1>0 DEF SumOrder
<1>2. Settled(program, z, k) /\ Past(k) => Past(z)
  BY <1>0, BegunIsOver DEF Begun, Over
<1>3. Settled(program, k, z) /\ Past(z) => Past(k)
  BY <1>0, BegunIsOver DEF Begun, Over
<1> QED BY <1>1, <1>2, <1>3 DEF Settled

LEMMA SumsStep ==
    ASSUME CallsInv, SumsFollow, [Next]_vars
    PROVE  SumsFollow'
<1>0. /\ TypeOK /\ QueuesInv /\ program' = program /\ script' = script /\ Outputs' = Outputs
      /\ \A k \in Work : k \in Nat /\ (Past(k) => Past(k)')
      /\ DOMAIN acc = Outputs /\ acc = [o \in Outputs |-> acc[o]]
  BY PastStays DEF CallsInv, EventsInv, QueuesInv, program, Outputs, Of, Work, Positions, SumsFollow
<1> DEFINE Added(o, z) == {program.body[k].launch : k \in {j \in Sums(program, o) : z < j /\ Past(j)}}
<1>1. ASSUME NEW o \in Outputs, NEW z \in Zeros(program, o), Zeroed(o, z) PROVE acc[o] = Added(o, z)
  BY <1>1 DEF SumsFollow
<1>2. ASSUME acc' = acc, \A o \in Outputs : \A k \in Zeros(program, o) \cup Sums(program, o) : Past(k)' => Past(k)
      PROVE  SumsFollow'
  <2>1. ASSUME NEW o \in Outputs, NEW z \in Zeros(program, o), Zeroed(o, z)'
        PROVE  acc[o] = Added(o, z)'
    <3>1. \A k \in Zeros(program, o) \cup Sums(program, o) : Past(k)' <=> Past(k)
      BY <1>0, <1>2, SumNames
    <3>2. Zeroed(o, z)
      BY <3>1, <2>1, <1>0 DEF Zeroed
    <3>3. Added(o, z)' = Added(o, z)
      BY <3>1, <1>0
    <3> QED BY <3>2, <3>3, <1>1
  <2> QED BY <2>1, <1>0, <1>2 DEF SumsFollow
<1>3. CASE ~Device
  <2>1. acc' = acc
    BY <1>3 DEF Next, Host, Progress, MissRecord, Acquire, Remember, ReleaseNow, EnterBlock, Fill, Enqueue, Synchronize, ReadBack, SubmitRead,
       AwaitRead, LeavePool, Fails, Joined, Completed, Release, ReleaseFails, NextKind, Exit,
       Reader, StartRead, EndRead, vars
  <2>2. \A j : Queued(j) => Queued(j)'
    <3>1. CASE Enqueue
      BY <3>1, <1>0, EnqueuedNow DEF QueuesInv
    <3>2. CASE ~Enqueue
      BY <3>2, <1>3, StepShape, UnchangedQueued DEF Quiet, Called, MissRecord, Proceed, Device
    <3> QED BY <3>1, <3>2
  <2>3. \A k \in Work : program.body[k].do # "record" => (Past(k)' => Past(k))
    BY <2>2, NewlyPast
  <2>4. \A o \in Outputs : \A k \in Zeros(program, o) \cup Sums(program, o) : Past(k)' => Past(k)
    BY <2>3, <1>0, SumNames
  <2> QED BY <2>1, <2>4, <1>2
<1>4. CASE Device
  <2>0. PICK x \in Of({"stream"}) : Execute(x)
    BY <1>4 DEF Device
  <2>h. PICK h : h = Head(queue[x])
    OBVIOUS
  <2>1. /\ h \in Work /\ h \in Nat /\ Queued(h) /\ ~Past(h) /\ Past(h)'
        /\ \A j : Queued(j)' <=> Queued(j) /\ j # h
    <3>1. Queued(h) /\ \A j : Queued(j)' <=> Queued(j) /\ j # h
      BY <2>0, <2>h, <1>0, ExecutedNow DEF QueuesInv
    <3>2. h \in Work /\ h \in Nat /\ h < pc
      BY <3>1, <1>0, QueuedCall DEF QueuesInv
    <3>3. pc' = pc
      BY <2>0 DEF Execute, hostVars
    <3> QED BY <3>1, <3>2, <3>3 DEF Past
  <2>2. \A k \in Work : program.body[k].do # "record" => (Past(k)' <=> Past(k) \/ k = h)
    BY <2>1, <1>0, NewlyPast
  <2>3. acc' = CASE program.body[h].do = "kernel" -> [o \in Outputs |->
                       IF o \in program.body[h].outs THEN acc[o] \cup {program.body[h].launch} ELSE acc[o]]
                 [] program.body[h].do = "zero" -> [acc EXCEPT ![program.body[h].out] = {}]
                 [] OTHER -> acc
    BY <2>0, <2>h DEF Execute
  <2>4. CASE program.body[h].do = "kernel"
    <3>1. acc' = [o \in Outputs |->
                    IF o \in program.body[h].outs THEN acc[o] \cup {program.body[h].launch} ELSE acc[o]]
      BY <2>3, <2>4
    <3>2. ASSUME NEW o \in Outputs, NEW z \in Zeros(program, o), Zeroed(o, z)'
          PROVE  acc'[o] = Added(o, z)'
      <4>1. \A y \in Zeros(program, o) : y # h /\ (Past(y)' <=> Past(y))
        BY <2>2, <2>4, <1>0, SumNames
      <4>2. Zeroed(o, z) /\ Past(z)
        BY <4>1, <3>2, <1>0 DEF Zeroed
      <4>3. acc[o] = Added(o, z)
        BY <4>2, <1>1
      <4>4. \A k \in Sums(program, o) : Past(k)' <=> Past(k) \/ k = h
        BY <2>2, <1>0, SumNames
      <4>5. CASE o \in program.body[h].outs
        <5>1. h \in Sums(program, o)
          BY <2>1, <2>4, <4>5 DEF Sums, Work, Positions
        <5>2. z < h
          BY <5>1, <4>1, <4>2, <2>1, ZeroOrder
        <5>3. Added(o, z)' = Added(o, z) \cup {program.body[h].launch}
          BY <4>4, <5>1, <5>2, <1>0
        <5> QED BY <5>3, <4>3, <4>5, <3>1
      <4>6. CASE o \notin program.body[h].outs
        <5>1. h \notin Sums(program, o)
          BY <4>6, <1>0, SumNames
        <5>2. Added(o, z)' = Added(o, z)
          BY <4>4, <5>1, <1>0
        <5> QED BY <5>2, <4>3, <4>6, <3>1
      <4> QED BY <4>5, <4>6
    <3>3. DOMAIN acc' = Outputs /\ acc' = [o \in Outputs |-> acc'[o]]
      BY <3>1
    <3> QED BY <3>2, <3>3, <1>0 DEF SumsFollow
  <2>5. CASE program.body[h].do = "zero"
    <3> DEFINE o0 == program.body[h].out
    <3>1. acc' = [acc EXCEPT ![o0] = {}]
      BY <2>3, <2>5
    <3>2. h \in Zeros(program, o0) /\ o0 \in Outputs
      <4>1. h \in Zeros(program, o0)
        BY <2>1, <2>5 DEF Zeros, Work, Positions
      <4> QED BY <4>1, <1>0, SumNames
    <3>3. ASSUME NEW o \in Outputs, NEW z \in Zeros(program, o), Zeroed(o, z)'
          PROVE  acc'[o] = Added(o, z)'
      <4>1. \A y \in Zeros(program, o) \cup Sums(program, o) : Past(y)' <=> Past(y) \/ y = h
        BY <2>2, <1>0, SumNames
      <4>2. CASE o # o0
        <5>1. h \notin Zeros(program, o) /\ h \notin Sums(program, o)
          BY <4>2, <2>5, <1>0, SumNames
        <5>2. Zeroed(o, z)
          BY <5>1, <4>1, <3>3, <1>0 DEF Zeroed
        <5>3. Added(o, z)' = Added(o, z)
          BY <5>1, <4>1, <1>0
        <5> QED BY <5>2, <5>3, <4>2, <3>1, <1>0, <1>1
      <4>3. CASE o = o0
        <5>0. Past(z)' /\ ~(z < h)
          BY <4>3, <3>2, <3>3, <2>1, <1>0 DEF Zeroed
        <5>1. z = h
          <6>1. SUFFICES ASSUME z # h PROVE FALSE
            OBVIOUS
          <6>2. Past(z)
            BY <5>0, <6>1, <4>1
          <6>3. z < h
            BY <6>1, <6>2, <4>3, <3>2, <2>1, ZeroOrder
          <6> QED BY <6>3, <5>0
        <5>2. \A k \in Sums(program, o) : k # h /\ (h < k => ~Past(k))
          <6> SUFFICES ASSUME NEW k \in Sums(program, o) PROVE k # h /\ (h < k => ~Past(k))
            OBVIOUS
          <6>1. k # h /\ k \in Nat
            BY <2>5, <1>0, SumNames
          <6>2. Past(k) => k < h
            BY <6>1, <4>3, <3>2, <2>1, ZeroOrder
          <6> QED BY <6>1, <6>2, <2>1
        <5>3. Added(o, z)' = {}
          BY <5>1, <5>2, <4>1, <1>0
        <5> QED BY <5>3, <4>3, <3>1, <3>2, <1>0
      <4> QED BY <4>2, <4>3
    <3>4. DOMAIN acc' = Outputs /\ acc' = [o \in Outputs |-> acc'[o]]
      BY <3>1, <1>0
    <3> QED BY <3>3, <3>4, <1>0 DEF SumsFollow
  <2>6. CASE program.body[h].do \notin {"kernel", "zero"}
    <3>1. acc' = acc
      BY <2>3, <2>6
    <3>2. \A o : \A k \in Zeros(program, o) \cup Sums(program, o) : k # h /\ k \in Work
      BY <2>6, <1>0, SumNames
    <3>3. \A o \in Outputs : \A k \in Zeros(program, o) \cup Sums(program, o) : Past(k)' => Past(k)
      BY <3>2, <2>2, <1>0, SumNames
    <3> QED BY <3>1, <3>3, <1>2
  <2> QED BY <2>4, <2>5, <2>6
<1> QED BY <1>3, <1>4

LEMMA ReadBackWhole ==
    ASSUME CallsInv, MemoryFollows, SumsFollow, ReadBack
    PROVE  partial' = partial
<1>0. /\ TypeOK /\ Running /\ Idle /\ pc \in Nat /\ Op = program.body[pc] /\ pc \in 1..Len(program.body)
  BY LengthIsNat DEF CallsInv, PoolInv, ReadBack, At, Op, TypeOK, Running
<1>p. \A k \in Nat : Past(k) <=> k < pc
  BY <1>0, IdleQueuesNothing DEF Past
<1>1. CASE Op.do = "fetchData"
  <2>1. pc \in Positions(program, {"copy", "kernel", "fetchData"}) /\ Op.do \notin Asynchronous /\ ~Over(pc)
    BY <1>0, <1>1 DEF Positions, Asynchronous, Over, Past
  <2>2. mem[Op.from] = Op.stage
    BY <2>1, <1>0, RightBytes
  <2> QED BY <2>2, <1>1 DEF ReadBack, At
<1>2. CASE Op.do = "fetch"
  <2> DEFINE o == Op.out
  <2>1. pc \in Positions(program, {"fetch"}) /\ Op \in Calls(program, {"zero", "fetch"})
    BY <1>0, <1>2 DEF Positions, Calls
  <2>2. o \in Outputs
    BY <2>1, <1>0, ScriptRules DEF NamesKnown, Outputs, Of
  <2>3. PICK z \in Zeros(program, o) :
             /\ z < pc /\ \A y \in Zeros(program, o) : y <= z \/ pc < y
             /\ Op.expect = {program.body[k].launch : k \in {j \in Sums(program, o) : z < j /\ j < pc}}
    <3>1. SumOrder(program)
      BY <1>0, ScriptRules
    <3> QED BY <3>1, <2>1, <1>0 DEF SumOrder
  <2>4. /\ \A j \in Zeros(program, o) \cup Sums(program, o) : j \in Nat
    BY <1>0, SumNames
  <2>5. Zeroed(o, z)
    <3>1. ASSUME NEW y \in Zeros(program, o), z < y PROVE ~Past(y)
      <4>1. pc < y
        BY <2>3, <2>4, <3>1
      <4> QED BY <4>1, <2>4, <1>0, <1>p
    <3> QED BY <3>1, <2>3, <2>4, <1>p DEF Zeroed
  <2>6. acc[o] = {program.body[k].launch : k \in {j \in Sums(program, o) : z < j /\ Past(j)}}
    BY <2>2, <2>5 DEF SumsFollow
  <2>7. {j \in Sums(program, o) : z < j /\ Past(j)} = {j \in Sums(program, o) : z < j /\ j < pc}
    BY <2>4, <1>p
  <2>8. acc[o] = Op.expect
    BY <2>3, <2>6, <2>7
  <2> QED BY <2>8, <1>2 DEF ReadBack, At
<1> QED BY <1>1, <1>2 DEF ReadBack, At

LEMMA TimesComplete == ASSUME EventsInv PROVE TimesAreComplete
<1> SUFFICES ASSUME At({"elapsed"}), NEW e \in Op.events, NEW j \in Records(program, pc, e) \ missed
             PROVE  j <= finished[e]
  BY DEF TimesAreComplete, Reached, Passed
<1>0. /\ TypeOK /\ pc \in Nat /\ Op = program.body[pc] /\ pc \in 1..Len(program.body) /\ Op.do = "elapsed"
      /\ pc \in Positions(program, {"elapsed"}) /\ Op \in Calls(program, {"elapsed"})
  BY LengthIsNat DEF EventsInv, QueuesInv, At, Op, TypeOK, Running, Positions, Calls
<1>1. HostOrder(program, j, pc)
  BY <1>0, ScriptRules DEF TimeOrder
<1>2. e \in Of({"event"})
  BY <1>0, ScriptRules DEF NamesKnown, Of
<1>3. j \in Work /\ j \in Nat
  BY <1>0 DEF Records, Work, Positions, Asynchronous
<1>4. ~Queued(j)
  BY <1>0, <1>1, <1>3, HostOrderHolds
<1>5. ~(finished[e] < j) /\ finished[e] \in Nat
  BY <1>2, <1>4 DEF EventsInv, EventsCount
<1> QED BY <1>3, <1>5

ContentInv ==
    /\ CInv /\ Tracking /\ QueueTyped /\ AllSafe /\ QueueOrdered /\ MissedKept /\ EventsCount
    /\ WaitsMet /\ SyncsMet /\ DrainsMet /\ AwaitsMet /\ PoolKept
    /\ MemoryFollows /\ SumsFollow /\ stale = {} /\ partial = {}

LEMMA InitContent == Init => ContentInv
<1> SUFFICES ASSUME Init PROVE ContentInv
  OBVIOUS
<1>1. /\ script \in DOMAIN Programs /\ pc = 1 /\ phase = "run" /\ open = FALSE
      /\ queue = [s \in Of({"stream"}) |-> <<>>]
      /\ finished = [e \in Of({"event"}) |-> 0] /\ missed = {}
      /\ mem = [b \in Buffers |-> 0] /\ acc = [o \in Outputs |-> {0}]
      /\ waiting = <<>> /\ reading = {} /\ result = [i \in 1..program.stages |-> "none"]
      /\ stale = {} /\ partial = {}
  BY DEF Init
<1>2. \A j : ~Queued(j)
  <2>1. Idle
    BY <1>1 DEF Idle
  <2> QED BY <2>1, IdleQueuesNothing
<1>3. \A names : \A j \in Positions(program, names) : j \in Nat /\ ~(j < 1)
  BY DEF Positions
<1>4. QueueOrdered
  BY <1>1, <1>3 DEF QueueOrdered, Work
<1>5. EventsCount /\ MissedKept
  BY <1>1 DEF EventsCount, Records, MissedKept
<1>6. WaitsMet /\ SyncsMet /\ DrainsMet /\ AwaitsMet
  BY <1>1, <1>2, <1>3 DEF WaitsMet, SyncsMet, DrainsMet, AwaitsMet, Past
<1>7. PoolKept
  <2>1. ~OpenAt(program, 1)
    BY <1>3 DEF OpenAt
  <2>2. Pending = {} /\ PoolIsIdle /\ waiting \in Seq({Task(j) : j \in Positions(program, {"submit"})})
        /\ Len(waiting) = 0
    BY <1>1 DEF Pending, PoolIsIdle
  <2> QED BY <1>1, <2>1, <2>2 DEF PoolKept
<1>8. MemoryFollows
  <2>1. \A b \in Buffers : \A w \in Writes(program, b) : ~Over(w)
    BY <1>1, <1>3 DEF Writes, Over, Past
  <2> QED BY <1>1, <2>1 DEF MemoryFollows, Current
<1>9. SumsFollow
  <2>1. \A o \in Outputs : \A z \in Zeros(program, o) : ~Past(z)
    BY <1>1, <1>3 DEF Zeros, Past
  <2> QED BY <1>1, <2>1 DEF SumsFollow, Zeroed
<1> QED BY <1>1, <1>4, <1>5, <1>6, <1>7, <1>8, <1>9, InitCInv, InitTracking, InitQueue DEF ContentInv

LEMMA NextContent == ContentInv /\ [Next]_vars => ContentInv'
<1> SUFFICES ASSUME ContentInv, [Next]_vars PROVE ContentInv'
  OBVIOUS
<1>1. TypeOK /\ QueuesInv /\ EventsInv /\ PoolInv /\ CallsInv
  BY DEF ContentInv, CInv, QueuesInv, EventsInv, PoolInv, CallsInv
<1>2. CInv' /\ Tracking' /\ QueueTyped' /\ AllSafe'
  BY <1>1, NextCInv, NextTracking, NextSafe DEF ContentInv
<1>3. QueueOrdered' /\ MissedKept' /\ EventsCount' /\ WaitsMet' /\ SyncsMet' /\ DrainsMet'
  BY <1>1, OrderedStep, MissedStep, EventsStep, MetStep
<1>4. AwaitsMet' /\ PoolKept'
  BY <1>1, AwaitsStep, PoolStep
<1>5. MemoryFollows' /\ stale' = stale /\ SumsFollow'
  BY <1>1, MemoryStep, SumsStep DEF ContentInv
<1>6. partial' = partial
  <2>1. CASE ReadBack
    BY <1>1, <2>1, ReadBackWhole DEF ContentInv
  <2>2. CASE ~ReadBack
    BY <2>2 DEF Next, Host, Progress, MissRecord, Acquire, Remember, ReleaseNow, EnterBlock, Fill, Enqueue, Synchronize, SubmitRead,
       AwaitRead, LeavePool, Fails, Joined, Completed, Release, ReleaseFails, NextKind, Exit,
       Device, Execute, Reader, StartRead, EndRead, vars
  <2> QED BY <2>1, <2>2
<1> QED BY <1>2, <1>3, <1>4, <1>5, <1>6 DEF ContentInv

LEMMA AlwaysContent == Spec => []ContentInv
BY InitContent, NextContent, PTL DEF Spec

(* No copy and no kernel ever meets other bytes than those it was queued    *)
(* for, and the pool refills no buffer too early, for every script that     *)
(* keeps the rules of CudaOrder, at any speed of its streams and threads.   *)
THEOREM DataTheorem == Spec => []DataIsCurrent
<1>1. ContentInv => DataIsCurrent
  <2>1. ContentInv => CallsInv
    BY DEF ContentInv, CInv, CallsInv, EventsInv, QueuesInv, PoolInv
  <2> QED BY <2>1, RefillsWait DEF ContentInv, DataIsCurrent
<1> QED BY <1>1, AlwaysContent, PTL

(* Whatever such a script reads back is the sum of all that it launched for *)
(* it, each once, whichever records of events fail without being noticed,   *)
(* and the times it takes are of records that the device has passed.        *)
THEOREM TotalsTheorem == Spec => []TotalsAreWhole
<1>1. ContentInv => TotalsAreWhole
  <2>1. ContentInv => EventsInv
    BY DEF ContentInv, CInv, EventsInv, QueuesInv
  <2> QED BY <2>1, TimesComplete DEF ContentInv, TotalsAreWhole
<1> QED BY <1>1, AlwaysContent, PTL
=============================================================================
