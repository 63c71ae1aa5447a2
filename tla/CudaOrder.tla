------------------------------ MODULE CudaOrder -----------------------------
(***************************************************************************)
(* The order of the calls in a CUDA script, as its text shows it: what     *)
(* exists and what the finally block knows of at each call, which queued   *)
(* call is over before which other one, and the rules that the ten scripts *)
(* (module CudaScripts) keep.                                              *)
(***************************************************************************)
EXTENDS Integers, Sequences, FiniteSets

CONSTANT Programs   \* function from names of scripts to records: resources, stages,
                    \* workers, body, final

(* A script only remembers resources of kinds its finally block goes through. *)
Calls(p, names) == {p.body[i] : i \in {j \in 1..Len(p.body) : p.body[j].do \in names}}
Remembered(p) == UNION ({{c.res} : c \in Calls(p, {"take"})} \cup {c.all : c \in Calls(p, {"own"})})
ASSUME ProgramAssumption ==
    \A s \in DOMAIN Programs : LET p == Programs[s] IN
        /\ Len(p.body) \in Nat /\ Len(p.final) \in Nat
        /\ {c.res : c \in Calls(p, {"alloc", "take", "free"})} \subseteq p.resources
        /\ \A r \in Remembered(p) : r \in p.resources /\ \E k \in 1..Len(p.final) : p.final[k] = r[1]

DeviceMemory == {"dev", "act", "out", "row"}
Launches(p) == Calls(p, {"copy", "kernel"})
Uses(c) == {c.from} \cup (IF c.do = "copy" THEN {c.to} ELSE c.outs)
OnDevice(c) == IF c.do = "copy" THEN c.to ELSE c.from

(* What exists, and what the finally block knows of, before the i-th call   *)
(* of a run in which none has failed.                                       *)
Has(p, j, names, r) == p.body[j].do \in names /\ p.body[j].res = r
AliveAt(p, i) ==
    {r \in p.resources : \E j \in 1..(i - 1) :
        /\ Has(p, j, {"alloc", "take"}, r)
        /\ \A k \in (j + 1)..(i - 1) : ~Has(p, k, {"free"}, r)}
Tells(c, r) == \/ c.do = "take" /\ c.res = r
               \/ c.do = "own" /\ r \in c.all
KnownAt(p, i) == {r \in p.resources : \E j \in 1..(i - 1) : Tells(p.body[j], r)}
TriedAt(p, i) == \E j \in 1..(i - 1) : p.body[j].do = "try"

(* How the scripts are written: what finally knows of exists, and at the    *)
(* end of the try block it knows of all there is; work is queued on buffers *)
(* that exist and with a device buffer that finally knows of; and the       *)
(* finally block frees device memory before it frees pinned memory.         *)
ASSUME OrderAssumption ==
    \A s \in DOMAIN Programs : LET p == Programs[s] IN
        /\ \A i \in 1..(Len(p.body) + 1) : KnownAt(p, i) \subseteq AliveAt(p, i)
        /\ AliveAt(p, Len(p.body) + 1) \subseteq KnownAt(p, Len(p.body) + 1)
        /\ TriedAt(p, Len(p.body) + 1)
        /\ \A i \in 1..Len(p.body) : p.body[i].do \in {"copy", "kernel"} =>
              Uses(p.body[i]) \subseteq AliveAt(p, i) /\ OnDevice(p.body[i]) \in KnownAt(p, i)
        /\ \A c \in Launches(p) : /\ OnDevice(c)[1] \in DeviceMemory
                                  /\ \A r \in Uses(c) : r[1] \in DeviceMemory \cup {"host"}
        /\ \A j, k \in 1..Len(p.final) : p.final[j] \in DeviceMemory /\ p.final[k] = "host" => j < k

(* What is queued, what waits for all that is queued, and where in a script *)
(* a kind of call is.                                                       *)
Asynchronous == {"copy", "kernel", "zero", "record", "wait"}
Draining == {"free", "upload", "syncDevice", "fetch", "fetchData"}
Positions(p, names) == {i \in 1..Len(p.body) : p.body[i].do \in names}
SameStream(p, j, k) == p.body[j].stream = p.body[k].stream

(* The records of an event before the i-th call: a wait is for them.  Only  *)
(* those whose return code is looked at have been made for sure.            *)
Records(p, i, e) == {j \in 1..(i - 1) : p.body[j].do = "record" /\ p.body[j].event = e}
SureRecords(p, i, e) == {j \in Records(p, i, e) : p.body[j].checked}

(* Queued call j is executed before queued call k, and before the main      *)
(* thread makes call k.                                                     *)
StreamOrder(p, j, k) ==
    \/ j < k /\ SameStream(p, j, k)
    \/ \E w \in Positions(p, {"wait"}) : w < k /\ SameStream(p, w, k)
          /\ \E m \in SureRecords(p, w, p.body[w].event) : j <= m /\ SameStream(p, j, m)
HostOrder(p, j, k) ==
    \/ \E c \in Positions(p, Draining) : j < c /\ c < k
    \/ \E c \in Positions(p, {"sync"}) : c < k
          /\ \/ j \in Records(p, c, p.body[c].event)
             \/ \E n \in SureRecords(p, c, p.body[c].event) : StreamOrder(p, j, n)

(* What call j does is done when what call k does begins. *)
Settled(p, j, k) ==
    /\ j < k
    /\ p.body[j].do \in Asynchronous =>
          HostOrder(p, j, k) \/ (p.body[k].do \in Asynchronous /\ StreamOrder(p, j, k))
    /\ p.body[j].do = "submit" =>
          \E a \in Positions(p, {"await"}) : j < a /\ a < k /\ p.body[a].stage = p.body[j].stage

Writes(p, b) == {j \in Positions(p, {"read", "upload", "copy", "submit"}) : p.body[j].to = b}
Written(c) == IF c.do = "upload" THEN 1 ELSE c.stage
Sums(p, o) == {j \in Positions(p, {"kernel"}) : o \in p.body[j].outs}
Zeros(p, o) == {j \in Positions(p, {"zero"}) : p.body[j].out = o}

(* Whoever reads a buffer finds the bytes of its stage: they are written    *)
(* before, and no later ones are until it has read them.                    *)
DataOrder(p) ==
    /\ \A b \in p.resources : \A v, w \in Writes(p, b) : v < w => Settled(p, v, w)
    /\ \A k \in Positions(p, {"copy", "kernel", "fetchData"}) : LET ws == Writes(p, p.body[k].from) IN
          \E w \in ws : /\ Written(p.body[w]) = p.body[k].stage /\ Settled(p, w, k)
                        /\ \A v \in ws : v <= w \/ Settled(p, k, v)

(* Sums start from zero and are read when all that belong to them are in. *)
SumOrder(p) ==
    /\ \A o \in p.resources : \A z \in Zeros(p, o), k \in Zeros(p, o) \cup Sums(p, o) :
          z = k \/ Settled(p, z, k) \/ Settled(p, k, z)
    /\ \A f \in Positions(p, {"fetch"}) : LET o == p.body[f].out IN
          \E z \in Zeros(p, o) :
             /\ z < f /\ \A y \in Zeros(p, o) : y <= z \/ f < y
             /\ p.body[f].expect = {p.body[k].launch : k \in {j \in Sums(p, o) : z < j /\ j < f}}

(* Times are taken of events that are over; one event is of one stream.     *)
TimeOrder(p) ==
    /\ \A j, k \in Positions(p, {"record"}) : p.body[j].event = p.body[k].event => SameStream(p, j, k)
    /\ \A k \in Positions(p, {"elapsed"}) : \A e \in p.body[k].events :
          \A j \in Records(p, k, e) : HostOrder(p, j, k)

(* The pool gets each stage once, while it is open, for a buffer that the   *)
(* try block does not free.                                                 *)
OpenAt(p, i) == \E o \in Positions(p, {"open"}) : o < i
                   /\ \A c \in Positions(p, {"close"}) : c < o \/ i <= c
PoolOrder(p) ==
    \A j \in Positions(p, {"submit"}) :
        /\ p.body[j].to \in AliveAt(p, j) /\ OpenAt(p, j)
        /\ \A c \in Calls(p, {"free"}) : c.res # p.body[j].to
        /\ \A k \in Positions(p, {"submit"}) : p.body[k].stage = p.body[j].stage => j = k

(* The calls name streams, events and buffers of the script.                *)
NamesKnown(p) ==
    /\ \A c \in Calls(p, Asynchronous) : c.stream \in p.resources /\ c.stream[1] = "stream"
    /\ \A c \in Calls(p, {"record", "wait", "sync"}) : c.event \in p.resources /\ c.event[1] = "event"
    /\ \A c \in Calls(p, {"elapsed"}) : \A e \in c.events : e \in p.resources /\ e[1] = "event"
    /\ \A c \in Calls(p, {"read", "upload", "copy", "submit"}) :
          c.to \in p.resources /\ c.to[1] \in {"host", "dev", "act"}
    /\ \A c \in Calls(p, {"zero", "fetch"}) : c.out \in p.resources /\ c.out[1] \in {"out", "row"}
    /\ \A c \in Calls(p, {"submit", "await"}) : c.stage \in 1..p.stages

ASSUME SyncAssumption ==
    \A s \in DOMAIN Programs : LET p == Programs[s] IN
        NamesKnown(p) /\ DataOrder(p) /\ SumOrder(p) /\ TimeOrder(p) /\ PoolOrder(p)
=============================================================================
