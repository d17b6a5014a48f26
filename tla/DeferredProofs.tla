-------------------------- MODULE DeferredProofs --------------------------
(***************************************************************************)
(* Proofs about DeferredSession: the counters of admission control are     *)
(* exact, no task waits in a cancelled lane, and a packet stays tracked    *)
(* without a task only by the race of a removal; for any number of         *)
(* workers, ingress goroutines, sessions, lanes and tasks. Last, that      *)
(* channels and counters stay within their capacities.                     *)
(***************************************************************************)
EXTENDS DeferredSession, FiniteSetTheorems, WellFoundedInduction, TLAPS

-----------------------------------------------------------------------------
(* Queues.                                                                 *)

Once(q) == \A i, j \in DOMAIN q : q[i] = q[j] => i = j

LEMMA AppendedQueue ==
  ASSUME NEW T, NEW q \in Seq(T), NEW t \in T
  PROVE  /\ Append(q, t) \in Seq(T) /\ Len(Append(q, t)) = Len(q) + 1 /\ Len(q) \in Nat
         /\ Range(Append(q, t)) = Range(q) \cup {t}
         /\ Once(q) /\ t \notin Range(q) => Once(Append(q, t))
  <1>1. /\ Append(q, t) \in Seq(T) /\ Len(Append(q, t)) = Len(q) + 1 /\ Len(q) \in Nat
        /\ DOMAIN q = 1 .. Len(q) /\ DOMAIN Append(q, t) = 1 .. Len(q) + 1
        /\ \A i \in 1 .. Len(q) : Append(q, t)[i] = q[i]
        /\ Append(q, t)[Len(q) + 1] = t
    OBVIOUS
  <1>2. Range(Append(q, t)) = Range(q) \cup {t}
    <2>1. \A x : x \in Range(Append(q, t)) => x \in Range(q) \cup {t}
      BY <1>1 DEF Range
    <2>2. \A x \in Range(q) : x \in Range(Append(q, t))
      BY <1>1 DEF Range
    <2>3. t \in Range(Append(q, t))
      BY <1>1 DEF Range
    <2> QED BY <2>1, <2>2, <2>3
  <1>3. Once(q) /\ t \notin Range(q) => Once(Append(q, t))
    BY <1>1 DEF Once, Range
  <1> QED BY <1>1, <1>2, <1>3

LEMMA ShorterQueue ==
  ASSUME NEW T, NEW q \in Seq(T), q # << >>
  PROVE  /\ Tail(q) \in Seq(T) /\ Head(q) \in T /\ Len(q) = Len(Tail(q)) + 1
         /\ Len(Tail(q)) \in Nat
         /\ Range(q) = Range(Tail(q)) \cup {Head(q)}
         /\ Once(q) => Once(Tail(q)) /\ Head(q) \notin Range(Tail(q))
  <1>1. /\ Tail(q) \in Seq(T) /\ Head(q) \in T /\ Len(q) = Len(Tail(q)) + 1
        /\ Len(Tail(q)) \in Nat /\ Head(q) = q[1]
        /\ DOMAIN q = 1 .. Len(Tail(q)) + 1 /\ DOMAIN Tail(q) = 1 .. Len(Tail(q))
        /\ \A i \in 1 .. Len(Tail(q)) : Tail(q)[i] = q[i + 1]
    OBVIOUS
  <1>2. Range(q) = Range(Tail(q)) \cup {Head(q)}
    <2>1. ASSUME NEW x \in Range(q) PROVE x \in Range(Tail(q)) \cup {Head(q)}
      <3>1. PICK i \in DOMAIN q : q[i] = x
        BY DEF Range
      <3>2. CASE i = 1
        BY <1>1, <3>1, <3>2
      <3>3. CASE i # 1
        <4>1. i - 1 \in DOMAIN Tail(q) /\ Tail(q)[i - 1] = q[i]
          BY <1>1, <3>3
        <4> QED BY <3>1, <4>1 DEF Range
      <3> QED BY <3>2, <3>3
    <2>2. \A x \in Range(Tail(q)) : x \in Range(q)
      BY <1>1 DEF Range
    <2>3. Head(q) \in Range(q)
      BY <1>1 DEF Range
    <2> QED BY <2>1, <2>2, <2>3
  <1>3. Once(q) => Once(Tail(q)) /\ Head(q) \notin Range(Tail(q))
    BY <1>1 DEF Once, Range
  <1> QED BY <1>1, <1>2, <1>3

LEMMA EmptyQueue ==
  << >> \in Seq(Packets) /\ Len(<< >>) = 0 /\ Range(<< >>) = {} /\ Once(<< >>)
  BY DEF Range, Once

-----------------------------------------------------------------------------
(* The worker of a new task is a worker: LeastLoaded finds one.            *)

LEMMA LeastExists ==
  ASSUME NEW S, S # {}, NEW f \in [S -> Nat]
  PROVE  \E x \in S : \A y \in S : f[x] <= f[y]
  <1> DEFINE T == {f[x] : x \in S}
             R == {ss \in Nat \X Nat : ss[1] < ss[2]}
  <1>1. T \subseteq Nat /\ T # {}
    OBVIOUS
  <1>2. IsWellFoundedOn(R, Nat)
    BY NatLessThanWellFounded DEF OpToRel
  <1>3. \A n, m \in Nat : n < m => <<n, m>> \in R
    OBVIOUS
  <1>4. PICK m \in T : \A n \in T : ~ (<<n, m>> \in R)
    <2> HIDE DEF T, R
    <2> QED BY <1>1, <1>2, WFMin
  <1>5. ASSUME NEW n \in T PROVE m <= n
    <2> HIDE DEF T, R
    <2>1. n \in Nat /\ m \in Nat /\ ~ (n < m)
      BY <1>1, <1>3, <1>4
    <2> QED BY <2>1
  <1> QED BY <1>5

-----------------------------------------------------------------------------
(* What is needed of the types.  A worker's count is at least zero because *)
(* it is exact.                                                            *)

TaskT == [packet : Packets, n : Nat \ {0}]
Shape == [pc : WorkerPCs, task : TaskT \cup {NoTask}, ctxErr : BOOLEAN]
Removal == [by : Ingress \cup Workers, drop : SUBSET Lanes, at : Workers, kept : Seq(TaskT)]

Typed ==
  /\ jobs \in [Workers -> Seq(TaskT)]
  /\ pending \in [Workers -> Int]
  /\ laneWorker \in [Lanes -> Workers \cup {NoWorker}]
  /\ running \in [Lanes -> Workers \cup {NoWorker}]
  /\ nextWorker \in Workers
  /\ worker \in [Workers -> Shape]
  /\ \A w \in Workers : Busy(w) => worker[w].task \in TaskT
  /\ ingress \in [Ingress -> IngressOps]
  /\ accepted \in Nat
  /\ ~MutexFree =>
       /\ compaction \in Removal
       /\ \/ compaction.by \in Ingress /\ ingress[compaction.by] = Locked
          \/ compaction.by \in Workers /\ worker[compaction.by].pc = "locked"

Runs(w) == IF Busy(w) /\ worker[w].pc # "unpended" THEN 1 ELSE 0
WorkersAreCounted == \A w \in Workers : pending[w] = Len(jobs[w]) + Len(Kept(w)) + Runs(w)

LEMMA LaneOfTask ==
  ASSUME NEW t \in TaskT
  PROVE  TaskLane(t) \in Lanes /\ t.packet \in Packets /\ TaskLane(t)[1] \in Sessions
  BY DEF TaskT, TaskLane, Packets, Lanes

LEMMA LaneHeld ==
  ASSUME Typed, NEW w \in Workers, Busy(w)
  PROVE  LaneOf(w) \in Lanes /\ worker[w].task \in TaskT /\ worker[w].task.packet \in Packets
  BY LaneOfTask DEF Typed, LaneOf

LEMMA OpsAreShaped ==
  ASSUME Typed, NEW i \in Ingress
  PROVE  /\ ingress[i].op = "dispatch" =>
              ingress[i].packet \in Packets /\ ingress[i] = Dispatching(ingress[i].packet)
         /\ ingress[i].op = "giveUp" =>
              ingress[i].packet \in Packets /\ ingress[i] = GivingUp(ingress[i].packet)
         /\ ingress[i].op = "remove" => ingress[i].lanes \subseteq Lanes
         /\ ingress[i] = Idle => ingress[i].op = "idle"
         /\ ingress[i] = Locked => ingress[i].op = "locked"
  <1>1. ingress[i] \in IngressOps
    BY DEF Typed
  <1> QED BY <1>1 DEF IngressOps, Idle, Locked, Dispatching, GivingUp, Removing, LanesOf

LEMMA WorkerGoes ==
  ASSUME worker \in [Workers -> Shape], NEW w \in Workers, NEW pc \in WorkerPCs, Goto(w, pc)
  PROVE  /\ worker' \in [Workers -> Shape]
         /\ worker'[w].pc = pc /\ worker'[w].task = worker[w].task
         /\ \A v \in Workers \ {w} : worker'[v] = worker[v]
  <1>1. \A s \in Shape : [s EXCEPT !.pc = pc] \in Shape /\ [s EXCEPT !.pc = pc].task = s.task
                         /\ [s EXCEPT !.pc = pc].pc = pc
    BY DEF Shape
  <1> QED BY <1>1 DEF Goto

LEMMA WorkersCancelled ==
  ASSUME worker \in [Workers -> Shape], NEW hit,
         worker' = [w \in Workers |->
                     IF w \in hit THEN [worker[w] EXCEPT !.ctxErr = TRUE] ELSE worker[w]]
  PROVE  /\ worker' \in [Workers -> Shape]
         /\ \A v \in Workers : worker'[v].pc = worker[v].pc /\ worker'[v].task = worker[v].task
  <1>1. \A s \in Shape : LET r == [s EXCEPT !.ctxErr = TRUE]
                         IN r \in Shape /\ r.task = s.task /\ r.pc = s.pc
    BY DEF Shape
  <1> QED BY <1>1

LEMMA CountsAreNat ==
  ASSUME Typed, NEW w \in Workers
  PROVE  /\ jobs[w] \in Seq(TaskT) /\ Kept(w) \in Seq(TaskT)
         /\ Len(jobs[w]) \in Nat /\ Len(Kept(w)) \in Nat /\ Runs(w) \in Nat
  <1>1. jobs[w] \in Seq(TaskT)
    BY DEF Typed
  <1>2. Kept(w) \in Seq(TaskT)
    BY DEF Kept, Typed, Removal
  <1>3. \A q \in Seq(TaskT) : Len(q) \in Nat
    OBVIOUS
  <1>4. Runs(w) \in Nat
    BY DEF Runs
  <1> QED BY <1>1, <1>2, <1>3, <1>4

LEMMA CountsStayNat ==
  ASSUME Typed', NEW w \in Workers
  PROVE  Len(jobs'[w]) \in Nat /\ Len(Kept(w)') \in Nat /\ Runs(w)' \in Nat
  <1>1. jobs'[w] \in Seq(TaskT)
    BY DEF Typed
  <1>2. Kept(w)' \in Seq(TaskT)
    BY DEF Kept, Typed, Removal
  <1>3. \A q \in Seq(TaskT) : Len(q) \in Nat
    OBVIOUS
  <1>4. Runs(w)' \in Nat
    BY DEF Runs
  <1> QED BY <1>1, <1>2, <1>3, <1>4

LEMMA RemovalCancels ==
  ASSUME Typed, NEW i \in Ingress, RemoveLanes(i)
  PROVE  /\ worker' \in [Workers -> Shape]
         /\ \A v \in Workers : worker'[v].pc = worker[v].pc /\ worker'[v].task = worker[v].task
  <1> DEFINE hit == {running[l] : l \in ingress[i].lanes} \ {NoWorker}
  <1>1. worker' = [w \in Workers |->
                    IF w \in hit THEN [worker[w] EXCEPT !.ctxErr = TRUE] ELSE worker[w]]
    BY DEF RemoveLanes
  <1>2. worker \in [Workers -> Shape]
    BY DEF Typed
  <1> HIDE DEF hit
  <1> QED BY <1>1, <1>2, WorkersCancelled

LEMMA PendingIsNat ==
  ASSUME Typed, WorkersAreCounted
  PROVE  pending \in [Workers -> Nat]
  <1>3. \A w \in Workers : Len(jobs[w]) \in Nat /\ Len(Kept(w)) \in Nat
    BY CountsAreNat
  <1>4. \A w \in Workers : pending[w] \in Nat
    <2> SUFFICES ASSUME NEW w \in Workers PROVE pending[w] \in Nat
      OBVIOUS
    <2> DEFINE a == Len(jobs[w])
               b == Len(Kept(w))
               c == Runs(w)
    <2>1. a \in Nat /\ b \in Nat /\ c \in Nat
      BY <1>3 DEF Runs
    <2>2. pending[w] = a + b + c
      BY DEF WorkersAreCounted
    <2> HIDE DEF a, b, c
    <2> QED BY <2>1, <2>2
  <1> QED BY <1>4 DEF Typed

LEMMA RemainderIsSmall ==
  ASSUME NEW a \in Nat, NEW n \in Nat \ {0}
  PROVE  a % n \in 0 .. n - 1
  OBVIOUS

LEMMA AfterIsWorker ==
  ASSUME NEW w \in Workers
  PROVE  After(w) \in Workers
  <1>1. w \in Nat /\ NumWorkers \in Nat \ {0}
    BY PoolAssumption DEF Workers
  <1>2. w % NumWorkers \in 0 .. NumWorkers - 1
    BY <1>1, RemainderIsSmall
  <1> QED BY <1>1, <1>2 DEF After, Workers

LEMMA TargetIsWorker ==
  ASSUME Typed, WorkersAreCounted, NEW l \in Lanes
  PROVE  Target(l) \in Workers
  <1> DEFINE least == {w \in Workers : \A v \in Workers : pending[w] <= pending[v]}
             after(w) == (w + NumWorkers - nextWorker) % NumWorkers
  <1>1. Workers # {} /\ Workers \subseteq Nat /\ NumWorkers \in Nat \ {0}
        /\ nextWorker \in Workers
    <2>1. nextWorker \in Workers
      BY DEF Typed
    <2> QED BY <2>1, PoolAssumption DEF Workers
  <1>2. least # {}
    BY <1>1, PendingIsNat, LeastExists
  <1>3. \A w \in least : after(w) \in Nat
    <2>1. ASSUME NEW w \in least PROVE after(w) \in Nat
      <3>1. w + NumWorkers - nextWorker \in Nat
        BY <1>1 DEF Workers
      <3> QED BY <1>1, <3>1, RemainderIsSmall
    <2> QED BY <2>1
  <1>4. \E w \in least : \A v \in least : after(w) <= after(v)
    <2> DEFINE f == [w \in least |-> after(w)]
    <2>1. f \in [least -> Nat]
      BY <1>3
    <2> HIDE DEF f
    <2>2. \E w \in least : \A v \in least : f[w] <= f[v]
      <3> HIDE DEF least
      <3> QED BY <1>2, <2>1, LeastExists
    <2>3. \A w \in least : f[w] = after(w)
      BY DEF f
    <2> HIDE DEF least, after
    <2> QED BY <2>2, <2>3
  <1>5. LeastLoaded = CHOOSE w \in least : \A v \in least : after(w) <= after(v)
    BY DEF LeastLoaded
  <1>6. LeastLoaded \in least
    <2> HIDE DEF least, after
    <2> QED BY <1>4, <1>5
  <1> QED BY <1>6 DEF Target, Typed

-----------------------------------------------------------------------------
(* Types and counts are kept.                                              *)

LEMMA TypedAtFirst == Init => Typed /\ WorkersAreCounted
  <1> SUFFICES ASSUME Init PROVE Typed /\ WorkersAreCounted
    OBVIOUS
  <1>1. 1 \in Workers /\ << >> \in Seq(TaskT) /\ Len(<< >>) = 0
    BY PoolAssumption DEF Workers
  <1>2. [pc |-> "idle", task |-> NoTask, ctxErr |-> FALSE] \in Shape
    BY DEF Shape, WorkerPCs
  <1>3. Idle \in IngressOps
    BY DEF IngressOps
  <1>4. Typed
    BY <1>1, <1>2, <1>3 DEF Typed, Init, Busy, MutexFree
  <1>5. WorkersAreCounted
    BY <1>1 DEF WorkersAreCounted, Init, Runs, Busy, MutexFree, Kept
  <1> QED BY <1>4, <1>5

LEMMA CountFrame ==
  ASSUME WorkersAreCounted, UNCHANGED <<jobs, pending, compaction>>,
         \A w \in Workers : (worker'[w].pc \in {"idle", "unpended"})
                            <=> (worker[w].pc \in {"idle", "unpended"})
  PROVE  WorkersAreCounted'
  <1>1. \A w \in Workers : Runs(w)' = Runs(w) /\ Kept(w)' = Kept(w)
    BY DEF Runs, Kept, MutexFree, Busy
  <1> QED BY <1>1 DEF WorkersAreCounted

(* A step that touches the queue of one worker.                            *)
LEMMA SumMoves ==
  ASSUME NEW x \in Nat, NEW y \in Nat, NEW z \in Nat, NEW n \in Int, n = x + y + z,
         NEW x1 \in Nat, NEW y1 \in Nat, NEW z1 \in Nat, NEW n1 \in Int,
         n1 - n = (x1 - x) + (y1 - y) + (z1 - z)
  PROVE  n1 = x1 + y1 + z1
  OBVIOUS

LEMMA CountOfOne ==
  ASSUME WorkersAreCounted, NEW w \in Workers,
         \A v \in Workers \ {w} : /\ jobs'[v] = jobs[v] /\ pending'[v] = pending[v]
                                  /\ Kept(v)' = Kept(v) /\ Runs(v)' = Runs(v),
         Typed, Typed',
         pending'[w] - pending[w] = (Len(jobs'[w]) - Len(jobs[w]))
                                    + (Len(Kept(w)') - Len(Kept(w))) + (Runs(w)' - Runs(w))
  PROVE  WorkersAreCounted'
  <1>1. \A v \in Workers \ {w} :
          pending'[v] = Len(jobs'[v]) + Len(Kept(v)') + Runs(v)'
    BY DEF WorkersAreCounted
  <1>2. pending[w] = Len(jobs[w]) + Len(Kept(w)) + Runs(w)
    BY DEF WorkersAreCounted
  <1>3. pending'[w] = Len(jobs'[w]) + Len(Kept(w)') + Runs(w)'
    <2>1. /\ Len(jobs[w]) \in Nat /\ Len(Kept(w)) \in Nat /\ Runs(w) \in Nat
          /\ Len(jobs'[w]) \in Nat /\ Len(Kept(w)') \in Nat /\ Runs(w)' \in Nat
      BY CountsAreNat, CountsStayNat
    <2>2. pending[w] \in Int /\ pending'[w] \in Int
      BY DEF Typed
    <2>3. PICK x \in Nat, y \in Nat, z \in Nat :
            x = Len(jobs[w]) /\ y = Len(Kept(w)) /\ z = Runs(w)
      BY <2>1
    <2>4. PICK x1 \in Nat, y1 \in Nat, z1 \in Nat :
            x1 = Len(jobs'[w]) /\ y1 = Len(Kept(w)') /\ z1 = Runs(w)'
      BY <2>1
    <2>5. PICK n \in Int, n1 \in Int : n = pending[w] /\ n1 = pending'[w]
      BY <2>2
    <2>6. n = x + y + z
      BY <1>2, <2>3, <2>5
    <2>7. n1 - n = (x1 - x) + (y1 - y) + (z1 - z)
      BY <2>3, <2>4, <2>5
    <2>8. n1 = x1 + y1 + z1
      BY <2>6, <2>7
    <2> QED BY <2>4, <2>5, <2>8
  <1> QED BY <1>1, <1>3 DEF WorkersAreCounted

LEMMA OpsExist ==
  /\ Idle \in IngressOps /\ Locked \in IngressOps /\ Idle # Locked
  /\ \A p \in Packets : Dispatching(p) \in IngressOps /\ GivingUp(p) \in IngressOps
  /\ \A l \in Lanes : Removing({l}, FALSE) \in IngressOps
  /\ \A s \in Sessions : Removing(LanesOf(s), TRUE) \in IngressOps
  <1>1. Idle \in IngressOps /\ Locked \in IngressOps
    BY DEF IngressOps
  <1>2. Idle.op = "idle" /\ Locked.op = "locked"
    BY DEF Idle, Locked
  <1>3. \A p \in Packets : Dispatching(p) \in IngressOps /\ GivingUp(p) \in IngressOps
    BY DEF IngressOps
  <1>4. \A l \in Lanes : Removing({l}, FALSE) \in IngressOps
    BY DEF IngressOps
  <1>5. \A s \in Sessions : Removing(LanesOf(s), TRUE) \in IngressOps
    BY DEF IngressOps
  <1> QED BY <1>1, <1>2, <1>3, <1>4, <1>5

LEMMA IngressTyped ==
  ASSUME Typed, WorkersAreCounted, NEW i \in Ingress, IngressNext(i)
  PROVE  Typed' /\ WorkersAreCounted'
  <1>1. ASSUME NEW p \in Packets, BeginDispatch(i, p) PROVE Typed' /\ WorkersAreCounted'
    <2>1. Dispatching(p) \in IngressOps /\ ingress[i] # Locked
      BY <1>1, OpsExist DEF BeginDispatch
    <2>2. WorkersAreCounted'
      BY <1>1, CountFrame DEF BeginDispatch, pool
    <2> QED BY <1>1, <2>1, <2>2 DEF BeginDispatch, pool, Typed, Busy, MutexFree
  <1>2. ASSUME Enqueue(i) PROVE Typed' /\ WorkersAreCounted'
    <2> DEFINE p == ingress[i].packet
               t == [packet |-> p, n |-> accepted + 1]
    <2>1. p \in Packets /\ p.lane \in Lanes /\ ingress[i] = Dispatching(p)
      BY <1>2, OpsAreShaped DEF Enqueue, EnqueueMarked, Packets
    <2>0. PICK w \in Workers : w = Target(p.lane)
      BY <2>1, TargetIsWorker
    <2>2. w \in Workers /\ t \in TaskT /\ After(w) \in Workers
      <3>1. t \in TaskT
        BY <2>1, SMTT(30) DEF Typed, TaskT
      <3> QED BY <2>0, <3>1, AfterIsWorker
    <2>3. Idle \in IngressOps /\ GivingUp(p) \in IngressOps /\ MutexFree
      BY <1>2, <2>1 DEF IngressOps, Enqueue, EnqueueMarked
    <2>4. nextWorker' \in Workers /\ UNCHANGED <<running, worker, compaction>>
      BY <1>2, <2>0, <2>2 DEF Enqueue, EnqueueMarked, Typed
    <2>5. CASE accepted' = accepted
      <3>1. /\ UNCHANGED <<jobs, pending, laneWorker, accepted>>
            /\ ingress' = [ingress EXCEPT ![i] = GivingUp(p)]
        BY <1>2, <2>5 DEF Enqueue, EnqueueMarked, Typed
      <3>2. WorkersAreCounted'
        BY <3>1, <2>4, CountFrame
      <3> QED BY <3>1, <3>2, <2>3, <2>4 DEF Typed, Busy, MutexFree
    <2>6. CASE accepted' # accepted
      <3>1. /\ accepted' = accepted + 1
            /\ jobs' = [jobs EXCEPT ![w] = Append(@, t)]
            /\ pending' = [pending EXCEPT ![w] = @ + 1]
            /\ laneWorker' = [laneWorker EXCEPT ![p.lane] = w]
            /\ ingress' = [ingress EXCEPT ![i] = Idle]
        BY <1>2, <2>0, <2>6, ZenonT(60) DEF Enqueue, EnqueueMarked
      <3> HIDE DEF p, t
      <3>2. jobs[w] \in Seq(TaskT)
        BY <2>2 DEF Typed
      <3>3. Append(jobs[w], t) \in Seq(TaskT) /\ Len(Append(jobs[w], t)) = Len(jobs[w]) + 1
            /\ Len(jobs[w]) \in Nat
        BY <2>2, <3>2, AppendedQueue
      <3>4. Typed'
        BY <3>1, <3>3, <2>1, <2>2, <2>3, <2>4 DEF Typed, Busy, MutexFree
      <3>5. WorkersAreCounted'
        <4>1. \A v \in Workers : Kept(v) = << >> /\ Kept(v)' = Kept(v)
          BY <2>3, <2>4 DEF Kept, MutexFree
        <4>2. jobs \in [Workers -> Seq(TaskT)] /\ pending \in [Workers -> Int]
          BY DEF Typed
        <4>3. \A v \in Workers \ {w} : jobs'[v] = jobs[v] /\ pending'[v] = pending[v]
          BY <3>1, <4>2
        <4>4. Len(jobs'[w]) = Len(jobs[w]) + 1 /\ pending'[w] = pending[w] + 1
          BY <3>1, <3>3, <4>2, <2>2
        <4>6. \A v \in Workers : Runs(v)' = Runs(v)
          BY <2>4 DEF Runs, Busy
        <4>7. /\ Len(jobs[w]) \in Nat /\ Len(Kept(w)) \in Nat /\ Runs(w) \in Nat
              /\ pending[w] \in Int
          BY <2>2, <4>2, CountsAreNat
        <4>8. Len(Kept(w)') = Len(Kept(w)) /\ Runs(w)' = Runs(w)
          BY <2>2, <4>1, <4>6
        <4>9. pending'[w] - pending[w] = (Len(jobs'[w]) - Len(jobs[w]))
                                    + (Len(Kept(w)') - Len(Kept(w))) + (Runs(w)' - Runs(w))
          BY <4>4, <4>7, <4>8
        <4> QED BY <2>2, <3>4, <4>1, <4>3, <4>6, <4>9, CountOfOne
      <3> QED BY <3>4, <3>5
    <2> QED BY <2>5, <2>6, SMTT(30)
  <1>3. ASSUME GiveUp(i) PROVE Typed' /\ WorkersAreCounted'
    <2>1. Idle \in IngressOps /\ ingress[i] # Locked
      BY <1>3, OpsExist, OpsAreShaped DEF GiveUp
    <2>2. WorkersAreCounted'
      BY <1>3, CountFrame DEF GiveUp, pool
    <2> QED BY <1>3, <2>1, <2>2 DEF GiveUp, pool, Typed, Busy, MutexFree
  <1>4. ASSUME RemoveLanes(i) PROVE Typed' /\ WorkersAreCounted'
    <2> DEFINE D == ingress[i].lanes
    <2>1. D \subseteq Lanes /\ Locked \in IngressOps /\ MutexFree
      BY <1>4, OpsAreShaped DEF RemoveLanes, IngressOps
    <2>2. worker' \in [Workers -> Shape]
          /\ \A v \in Workers : worker'[v].pc = worker[v].pc /\ worker'[v].task = worker[v].task
      BY <1>4, RemovalCancels
    <2>3. running' \in [Lanes -> Workers \cup {NoWorker}]
          /\ laneWorker' \in [Lanes -> Workers \cup {NoWorker}]
      BY <1>4 DEF RemoveLanes, Typed
    <2>4. compaction' = Compacting(i, D) /\ compaction' \in Removal
          /\ compaction'.by = i /\ compaction'.kept = << >>
      BY <1>4, <2>1, PoolAssumption DEF RemoveLanes, Compacting, Removal, Workers
    <2>5. ingress' = [ingress EXCEPT ![i] = Locked]
      BY <1>4 DEF RemoveLanes
    <2>6. UNCHANGED <<jobs, pending, nextWorker, accepted>>
      BY <1>4 DEF RemoveLanes
    <2> HIDE DEF D
    <2>7. Typed'
      BY <2>1, <2>2, <2>3, <2>4, <2>5, <2>6 DEF Typed, Busy
    <2>8. \A v \in Workers : Kept(v) = << >> /\ Kept(v)' = << >>
      BY <2>1, <2>4 DEF Kept
    <2>9. WorkersAreCounted'
      BY <2>2, <2>6, <2>8 DEF WorkersAreCounted, Runs, Busy
    <2> QED BY <2>7, <2>9
  <1>5. ASSUME NEW l \in Clearable, ClearStream(i, l) PROVE Typed' /\ WorkersAreCounted'
    <2>1. Removing({l}, FALSE) \in IngressOps /\ ingress[i] # Locked
      BY <1>5, OpsExist, PoolAssumption DEF ClearStream, Lanes
    <2>2. WorkersAreCounted'
      BY <1>5, CountFrame DEF ClearStream, pool
    <2> QED BY <1>5, <2>1, <2>2 DEF ClearStream, pool, Typed, Busy, MutexFree
  <1>6. ASSUME NEW s \in Sessions, ClearSession(i, s) PROVE Typed' /\ WorkersAreCounted'
    <2>1. Removing(LanesOf(s), TRUE) \in IngressOps /\ ingress[i] # Locked
      BY <1>6, OpsExist DEF ClearSession
    <2>2. WorkersAreCounted'
      BY <1>6, CountFrame DEF ClearSession, pool
    <2> QED BY <1>6, <2>1, <2>2 DEF ClearSession, pool, Typed, Busy, MutexFree
  <1> QED BY <1>1, <1>2, <1>3, <1>4, <1>5, <1>6 DEF IngressNext

LEMMA NoneKept ==
  MutexFree => \A v \in Workers : Kept(v) = << >>
  BY DEF Kept

LEMMA EmptyLength ==
  ASSUME NEW q, q = << >>
  PROVE  Len(q) = 0
  OBVIOUS

LEMMA RunsOnlyByPC ==
  ASSUME \A v \in Workers : worker'[v].pc = worker[v].pc
  PROVE  \A v \in Workers : Runs(v)' = Runs(v)
  BY DEF Runs, Busy

LEMMA CompactTakeTyped ==
  ASSUME Typed, WorkersAreCounted, CompactTake
  PROVE  Typed' /\ WorkersAreCounted'
  <1>1. ~MutexFree /\ compaction \in Removal /\ jobs[compaction.at] # << >>
    BY DEF CompactTake, Typed
  <1>2. PICK c \in Workers : c = compaction.at
    BY <1>1 DEF Removal
  <1>3. PICK t \in TaskT : t = Head(jobs[c])
    BY <1>1, <1>2, CountsAreNat, ShorterQueue
  <1>4. /\ jobs[c] \in Seq(TaskT) /\ Tail(jobs[c]) \in Seq(TaskT)
        /\ Len(Tail(jobs[c])) \in Nat /\ Len(jobs[c]) = Len(Tail(jobs[c])) + 1
    BY <1>1, <1>2, CountsAreNat, ShorterQueue
  <1>5. jobs' = [jobs EXCEPT ![c] = Tail(@)] /\ UNCHANGED <<running, nextWorker, worker,
                                                            ingress, accepted>>
    BY <1>2 DEF CompactTake
  <1>6. /\ jobs' \in [Workers -> Seq(TaskT)] /\ Len(jobs'[c]) = Len(jobs[c]) - 1
        /\ \A v \in Workers \ {c} : jobs'[v] = jobs[v]
    BY <1>4, <1>5 DEF Typed
  <1>7. \A v \in Workers : Runs(v)' = Runs(v)
    BY <1>5, RunsOnlyByPC
  <1>8. /\ Len(jobs[c]) \in Nat /\ Len(Kept(c)) \in Nat /\ Runs(c) \in Nat
        /\ pending[c] \in Int /\ pending \in [Workers -> Int]
    BY CountsAreNat DEF Typed
  <1>9. CASE compaction' = compaction
    <2>1. /\ pending' = [pending EXCEPT ![c] = @ - 1]
          /\ laneWorker' = [laneWorker EXCEPT ![TaskLane(t)] = NoWorker]
      <3>1. compaction' # [compaction EXCEPT !.kept = Append(@, t)]
        <4>1. compaction.kept \in Seq(TaskT)
          BY <1>1 DEF Removal
        <4>2. Append(compaction.kept, t) # compaction.kept
          BY <4>1, AppendedQueue
        <4>3. [compaction EXCEPT !.kept = Append(@, t)].kept = Append(compaction.kept, t)
          BY <1>1 DEF Removal
        <4> QED BY <1>9, <4>2, <4>3
      <3> QED BY <1>2, <1>3, <3>1 DEF CompactTake, DropTask
    <2>2. /\ pending' \in [Workers -> Int] /\ pending'[c] = pending[c] - 1
          /\ \A v \in Workers \ {c} : pending'[v] = pending[v]
      BY <1>8, <2>1
    <2>3. laneWorker' \in [Lanes -> Workers \cup {NoWorker}]
      BY <2>1 DEF Typed
    <2>4. Typed'
      BY <1>5, <1>6, <1>9, <2>2, <2>3 DEF Typed, Busy, MutexFree
    <2>5. \A v \in Workers : Kept(v)' = Kept(v)
      BY <1>9 DEF Kept, MutexFree
    <2>6. pending'[c] - pending[c] = (Len(jobs'[c]) - Len(jobs[c]))
                                     + (Len(Kept(c)') - Len(Kept(c))) + (Runs(c)' - Runs(c))
      <3>1. Kept(c)' = Kept(c) /\ Runs(c)' = Runs(c)
        BY <1>7, <2>5
      <3> QED BY <1>6, <1>8, <2>2, <3>1
    <2> QED BY <1>6, <1>7, <2>2, <2>4, <2>5, <2>6, CountOfOne
  <1>10. CASE compaction' # compaction
    <2>1. /\ compaction' = [compaction EXCEPT !.kept = Append(@, t)]
          /\ UNCHANGED <<pending, laneWorker>>
      BY <1>2, <1>3, <1>10 DEF CompactTake
    <2>2. compaction.kept \in Seq(TaskT) /\ Append(compaction.kept, t) \in Seq(TaskT)
          /\ Len(Append(compaction.kept, t)) = Len(compaction.kept) + 1
      BY <1>1, AppendedQueue DEF Removal
    <2>3. /\ compaction' \in Removal /\ compaction'.kept = Append(compaction.kept, t)
          /\ compaction'.by = compaction.by /\ compaction'.at = compaction.at
      BY <1>1, <2>1, <2>2 DEF Removal
    <2>4. Typed'
      BY <1>1, <1>5, <1>6, <2>1, <2>3 DEF Typed, Busy
    <2>5. (~MutexFree)'
      BY <1>1, <2>1 DEF MutexFree, Free, Removal
    <2>6. \A v \in Workers \ {c} : Kept(v)' = Kept(v)
      BY <1>2, <2>3 DEF Kept
    <2>7. Kept(c) = compaction.kept /\ Kept(c)' = Append(compaction.kept, t)
      BY <1>1, <1>2, <2>3, <2>5 DEF Kept
    <2>8. pending'[c] - pending[c] = (Len(jobs'[c]) - Len(jobs[c]))
                                     + (Len(Kept(c)') - Len(Kept(c))) + (Runs(c)' - Runs(c))
      <3>1. Len(Kept(c)') = Len(Kept(c)) + 1 /\ Runs(c)' = Runs(c) /\ pending'[c] = pending[c]
        BY <1>7, <2>1, <2>2, <2>7
      <3> QED BY <1>6, <1>8, <3>1
    <2> QED BY <1>6, <1>7, <2>1, <2>4, <2>6, <2>8, CountOfOne
  <1> QED BY <1>9, <1>10

LEMMA CompactPutBackTyped ==
  ASSUME Typed, WorkersAreCounted, CompactPutBack
  PROVE  Typed' /\ WorkersAreCounted'
  <1>1. ~MutexFree /\ compaction \in Removal /\ jobs[compaction.at] = << >>
    BY DEF CompactPutBack, Typed
  <1>2. PICK c \in Workers : c = compaction.at
    BY <1>1 DEF Removal
  <1>3. /\ jobs' = [jobs EXCEPT ![c] = compaction.kept] /\ compaction.kept \in Seq(TaskT)
        /\ UNCHANGED <<pending, laneWorker, running, nextWorker, accepted>>
    BY <1>1, <1>2 DEF CompactPutBack, Removal
  <1>4. /\ jobs' \in [Workers -> Seq(TaskT)] /\ jobs'[c] = compaction.kept
        /\ \A v \in Workers \ {c} : jobs'[v] = jobs[v]
    BY <1>3 DEF Typed
  <1>5. \A v \in Workers : Kept(v) = IF v = c THEN compaction.kept ELSE << >>
    BY <1>1, <1>2 DEF Kept
  <1>6. \A v \in Workers : Kept(v)' = << >>
    <2>1. CASE compaction' = Free
      BY <2>1 DEF Kept, MutexFree
    <2>2. CASE compaction' = [compaction EXCEPT !.at = @ + 1, !.kept = <<>>]
      <3>1. compaction'.kept = << >>
        BY <1>1, <2>2 DEF Removal
      <3> QED BY <3>1 DEF Kept
    <2> QED BY <2>1, <2>2 DEF CompactPutBack
  <1>7. /\ worker' \in [Workers -> Shape]
        /\ \A v \in Workers : /\ worker'[v].task = worker[v].task
                              /\ \/ worker'[v].pc = worker[v].pc
                                 \/ worker'[v].pc = "ending" /\ worker[v].pc = "locked"
    <2>1. worker \in [Workers -> Shape] /\ "ending" \in WorkerPCs
      BY DEF Typed, WorkerPCs
    <2>2. CASE worker' = worker
      BY <2>1, <2>2
    <2>3. CASE worker' # worker
      <3>1. PICK b \in Workers : b = compaction.by /\ Goto(b, "ending")
        BY <2>3 DEF CompactPutBack
      <3>2. worker[b].pc = "locked"
        BY <1>1, <3>1, NamesAssumption DEF Typed
      <3> QED BY <2>1, <3>1, <3>2, WorkerGoes
    <2> QED BY <2>2, <2>3
  <1>8. \A v \in Workers : Runs(v)' = Runs(v)
    BY <1>7 DEF Runs, Busy
  <1>9. ingress' \in [Ingress -> IngressOps]
    BY OpsExist DEF CompactPutBack, Typed
  <1>10. (~MutexFree)' => /\ compaction' \in Removal
                          /\ compaction'.by = compaction.by
                          /\ UNCHANGED <<ingress, worker>>
    <2>1. CASE compaction' = Free
      BY <2>1 DEF MutexFree
    <2>2. CASE compaction.at < NumWorkers
      <3>1. /\ compaction' = [compaction EXCEPT !.at = @ + 1, !.kept = <<>>]
            /\ UNCHANGED <<ingress, worker>>
        <4>1. compaction.at # NumWorkers
          BY <1>2, <2>2, PoolAssumption DEF Workers
        <4> QED BY <4>1 DEF CompactPutBack
      <3>2. compaction.at + 1 \in Workers /\ << >> \in Seq(TaskT)
        BY <1>2, <2>2, PoolAssumption DEF Workers
      <3> QED BY <1>1, <3>1, <3>2 DEF Removal
    <2> QED BY <2>1, <2>2 DEF CompactPutBack
  <1>11. Typed'
    BY <1>1, <1>3, <1>4, <1>7, <1>9, <1>10 DEF Typed, Busy
  <1>12. pending'[c] - pending[c] = (Len(jobs'[c]) - Len(jobs[c]))
                                    + (Len(Kept(c)') - Len(Kept(c))) + (Runs(c)' - Runs(c))
    <2>1. Len(jobs[c]) = 0
      BY <1>1, <1>2, EmptyLength
    <2>2. Len(Kept(c)') = 0
      BY <1>6, EmptyLength
    <2>3. jobs'[c] = Kept(c) /\ Runs(c)' = Runs(c) /\ pending'[c] = pending[c]
      BY <1>3, <1>4, <1>5, <1>8
    <2>4. Len(Kept(c)) \in Nat /\ Runs(c) \in Nat /\ pending[c] \in Int
      BY CountsAreNat DEF Typed
    <2> QED BY <2>1, <2>2, <2>3, <2>4
  <1> QED BY <1>3, <1>4, <1>5, <1>6, <1>8, <1>11, <1>12, CountOfOne

LEMMA CountSame ==
  ASSUME WorkersAreCounted, UNCHANGED <<jobs, pending>>,
         \A w \in Workers : Kept(w)' = Kept(w),
         \A w \in Workers : (worker'[w].pc \in {"idle", "unpended"})
                            <=> (worker[w].pc \in {"idle", "unpended"})
  PROVE  WorkersAreCounted'
  <1>1. \A w \in Workers : Runs(w)' = Runs(w)
    BY DEF Runs, Busy
  <1> QED BY <1>1 DEF WorkersAreCounted

(* A worker's step that touches no queue and no count.                     *)
LEMMA WorkerFrame ==
  ASSUME Typed, WorkersAreCounted, NEW w \in Workers,
         UNCHANGED <<jobs, pending, nextWorker, ingress, accepted, compaction>>,
         laneWorker' \in [Lanes -> Workers \cup {NoWorker}],
         running' \in [Lanes -> Workers \cup {NoWorker}],
         worker' \in [Workers -> Shape],
         \A v \in Workers \ {w} : worker'[v] = worker[v],
         worker'[w].task = worker[w].task,
         worker[w].pc \notin {"idle", "unpended", "locked"},
         worker'[w].pc \notin {"idle", "unpended"}
  PROVE  Typed' /\ WorkersAreCounted'
  <1>1. \A v \in Workers : Busy(v)' = Busy(v)
    BY DEF Busy
  <1>2. \A v \in Workers : Kept(v)' = Kept(v)
    BY DEF Kept, MutexFree
  <1>3. WorkersAreCounted'
    BY <1>2, CountSame
  <1>4. MutexFree' = MutexFree
    BY DEF MutexFree
  <1>5. ~MutexFree => \/ compaction.by \in Ingress /\ ingress'[compaction.by] = Locked
                      \/ compaction.by \in Workers /\ worker'[compaction.by].pc = "locked"
    BY DEF Typed
  <1>6. \A v \in Workers : Busy(v)' => worker'[v].task \in TaskT
    BY <1>1 DEF Typed
  <1> QED BY <1>3, <1>4, <1>5, <1>6 DEF Typed

LEMMA IdleShape ==
  [pc |-> "idle", task |-> NoTask, ctxErr |-> FALSE] \in Shape
  BY DEF Shape, WorkerPCs

LEMMA Received ==
  ASSUME Typed, NEW w \in Workers, Receive(w)
  PROVE  /\ ~Busy(w) /\ jobs[w] # << >> /\ Head(jobs[w]) \in TaskT
         /\ jobs' \in [Workers -> Seq(TaskT)] /\ jobs'[w] = Tail(jobs[w])
         /\ Len(jobs[w]) = Len(jobs'[w]) + 1 /\ Len(jobs'[w]) \in Nat
         /\ worker' \in [Workers -> Shape]
         /\ worker'[w].pc = "held" /\ worker'[w].task = Head(jobs[w])
         /\ \A v \in Workers \ {w} : worker'[v] = worker[v] /\ jobs'[v] = jobs[v]
  <1>1. jobs[w] \in Seq(TaskT) /\ jobs[w] # << >> /\ worker[w].pc = "idle"
    BY DEF Typed, Receive
  <1>2. /\ Tail(jobs[w]) \in Seq(TaskT) /\ Head(jobs[w]) \in TaskT
        /\ Len(jobs[w]) = Len(Tail(jobs[w])) + 1 /\ Len(Tail(jobs[w])) \in Nat
    BY <1>1, ShorterQueue
  <1>3. \A t \in TaskT : [pc |-> "held", task |-> t, ctxErr |-> FALSE] \in Shape
    BY DEF Shape, WorkerPCs
  <1> QED BY <1>1, <1>2, <1>3 DEF Receive, Typed, Busy

LEMMA LaneFinished ==
  ASSUME Typed, NEW w \in Workers, FinishLane(w)
  PROVE  /\ Busy(w) /\ worker[w].pc = "unpended" /\ MutexFree
         /\ worker' \in [Workers -> Shape] /\ worker'[w].pc = "idle"
         /\ \A v \in Workers \ {w} : /\ worker'[v].pc = worker[v].pc
                                     /\ worker'[v].task = worker[v].task
  <1> DEFINE hit == running[LaneOf(w)]
             idle == [worker EXCEPT ![w] = [pc |-> "idle", task |-> NoTask, ctxErr |-> FALSE]]
  <1>1. worker[w].pc = "unpended" /\ MutexFree
    BY DEF FinishLane
  <1>2. worker \in [Workers -> Shape]
    BY DEF Typed
  <1>3. idle \in [Workers -> Shape] /\ idle[w].pc = "idle"
        /\ \A v \in Workers \ {w} : idle[v] = worker[v]
    BY <1>2, IdleShape
  <1>4. worker' = IF hit \in Workers \ {w} THEN [idle EXCEPT ![hit].ctxErr = TRUE] ELSE idle
    BY DEF FinishLane
  <1>5. \A s \in Shape : LET r == [s EXCEPT !.ctxErr = TRUE]
                         IN r \in Shape /\ r.task = s.task /\ r.pc = s.pc
    BY DEF Shape
  <1> HIDE DEF idle, hit
  <1> QED BY <1>1, <1>3, <1>4, <1>5 DEF Busy

LEMMA WorkerTyped ==
  ASSUME Typed, WorkersAreCounted, NEW w \in Workers, WorkerNext(w)
  PROVE  Typed' /\ WorkersAreCounted'
  <1>0. worker \in [Workers -> Shape]
    BY DEF Typed
  <1>1. CASE Receive(w)
    <2>1. UNCHANGED <<pending, laneWorker, running, nextWorker, ingress, compaction, accepted>>
      BY <1>1 DEF Receive
    <2>2. Typed'
      BY ZenonT(60), <1>1, <2>1, Received DEF Typed, Busy, MutexFree
    <2>3. \A v \in Workers : Kept(v)' = Kept(v)
      BY <2>1 DEF Kept, MutexFree
    <2>4. Runs(w) = 0 /\ Runs(w)' = 1 /\ \A v \in Workers \ {w} : Runs(v)' = Runs(v)
      BY <1>1, Received DEF Runs, Busy
    <2>5. pending'[w] - pending[w] = (Len(jobs'[w]) - Len(jobs[w]))
                                     + (Len(Kept(w)') - Len(Kept(w))) + (Runs(w)' - Runs(w))
      <3>1. /\ Len(jobs[w]) = Len(jobs'[w]) + 1 /\ Len(jobs'[w]) \in Nat
            /\ Len(Kept(w)') = Len(Kept(w)) /\ pending'[w] = pending[w]
        BY <1>1, <2>1, <2>3, Received
      <3>2. Len(Kept(w)) \in Nat /\ pending[w] \in Int
        BY CountsAreNat DEF Typed
      <3> QED BY <2>4, <3>1, <3>2
    <2> QED BY <1>1, <2>1, <2>2, <2>3, <2>4, <2>5, Received, CountOfOne
  <1>2. CASE BeginTask(w)
    <2> DEFINE dead == LaneOf(w) \in cancelled
    <2>1. worker[w].pc = "held" /\ LaneOf(w) \in Lanes
      BY <1>2, LaneHeld DEF BeginTask, Busy
    <2>2. \A s \in Shape, d \in BOOLEAN : LET r == [s EXCEPT !.pc = "begun", !.ctxErr = d]
                           IN r \in Shape /\ r.task = s.task /\ r.pc = "begun"
      BY DEF Shape, WorkerPCs
    <2>7. dead \in BOOLEAN
      OBVIOUS
    <2>3. worker' = [worker EXCEPT ![w] = [worker[w] EXCEPT !.pc = "begun", !.ctxErr = dead]]
      BY <1>2 DEF BeginTask
    <2>4. /\ worker' \in [Workers -> Shape] /\ worker'[w].pc = "begun"
          /\ worker'[w].task = worker[w].task
          /\ \A v \in Workers \ {w} : worker'[v] = worker[v]
      <3> HIDE DEF dead
      <3> QED BY <1>0, <2>2, <2>3, <2>7
    <2>5. /\ running' \in [Lanes -> Workers \cup {NoWorker}]
          /\ UNCHANGED <<jobs, pending, laneWorker, nextWorker, ingress, compaction, accepted>>
      BY <1>2, <2>1 DEF BeginTask, Typed
    <2>6. laneWorker' \in [Lanes -> Workers \cup {NoWorker}]
      BY <2>5 DEF Typed
    <2>8. worker[w].pc \notin {"idle", "unpended", "locked"}
          /\ worker'[w].pc \notin {"idle", "unpended"}
      BY <2>1, <2>4
    <2> HIDE DEF dead
    <2> QED BY <2>4, <2>5, <2>6, <2>8, WorkerFrame
  <1>3. CASE StartHandler(w) \/ Return(w) \/ FinalizeStream(w)
    <2>1. PICK pc \in {"handling", "returned", "finalizing"} : Goto(w, pc)
      BY <1>3 DEF StartHandler, Return, FinalizeStream
    <2>2. pc \in WorkerPCs
      BY DEF WorkerPCs
    <2>3. worker[w].pc \notin {"idle", "unpended", "locked"}
      BY <1>3 DEF StartHandler, Return, FinalizeStream
    <2>4. UNCHANGED <<jobs, pending, laneWorker, running, nextWorker, ingress, compaction, accepted>>
      BY <1>3 DEF StartHandler, Return, FinalizeStream, pool
    <2>5. /\ laneWorker' \in [Lanes -> Workers \cup {NoWorker}]
          /\ running' \in [Lanes -> Workers \cup {NoWorker}]
      BY <2>4 DEF Typed
    <2>6. /\ worker' \in [Workers -> Shape] /\ worker'[w].pc = pc
          /\ worker'[w].task = worker[w].task
          /\ \A v \in Workers \ {w} : worker'[v] = worker[v]
      BY <1>0, <2>1, <2>2, WorkerGoes
    <2> QED BY <2>3, <2>4, <2>5, <2>6, WorkerFrame
  <1>4. CASE FinalizeLane(w)
    <2>1. worker[w].pc = "finalizing" /\ Goto(w, "locked") /\ "locked" \in WorkerPCs
          /\ MutexFree /\ compaction' = Compacting(w, {LaneOf(w)})
      BY <1>4 DEF FinalizeLane, WorkerPCs
    <2>2. /\ worker' \in [Workers -> Shape] /\ worker'[w].pc = "locked"
          /\ worker'[w].task = worker[w].task
          /\ \A v \in Workers \ {w} : worker'[v] = worker[v]
      BY <1>0, <2>1, WorkerGoes
    <2>3. /\ laneWorker' \in [Lanes -> Workers \cup {NoWorker}]
          /\ running' \in [Lanes -> Workers \cup {NoWorker}]
          /\ UNCHANGED <<jobs, pending, nextWorker, ingress, accepted>>
      BY <1>4 DEF FinalizeLane, Typed
    <2>4. compaction' \in Removal /\ compaction'.by = w /\ compaction'.kept = << >>
      <3>1. LaneOf(w) \in Lanes
        BY <2>1, LaneHeld DEF Busy
      <3> QED BY <2>1, <3>1, PoolAssumption DEF Compacting, Removal, Workers
    <2>5. \A v \in Workers : Kept(v) = << >> /\ Kept(v)' = << >>
      BY <2>1, <2>4 DEF Kept
    <2>6. WorkersAreCounted'
      BY <2>1, <2>2, <2>3, <2>5, CountSame
    <2>7. \A v \in Workers : Busy(v)' => worker'[v].task \in TaskT
      BY <2>1, <2>2 DEF Typed, Busy
    <2> QED BY <2>2, <2>3, <2>4, <2>6, <2>7 DEF Typed
  <1>5. CASE Unpend(w)
    <2>1. worker[w].pc = "returned" /\ Goto(w, "unpended") /\ "unpended" \in WorkerPCs
      BY <1>5 DEF Unpend, WorkerPCs
    <2>2. /\ worker' \in [Workers -> Shape] /\ worker'[w].pc = "unpended"
          /\ worker'[w].task = worker[w].task
          /\ \A v \in Workers \ {w} : worker'[v] = worker[v]
      BY <1>0, <2>1, WorkerGoes
    <2>3. /\ pending' = [pending EXCEPT ![w] = @ - 1]
          /\ UNCHANGED <<jobs, laneWorker, running, nextWorker, ingress, compaction, accepted>>
      BY <1>5 DEF Unpend
    <2>4. pending \in [Workers -> Int]
      BY DEF Typed
    <2>5. /\ pending' \in [Workers -> Int] /\ pending'[w] = pending[w] - 1
          /\ \A v \in Workers \ {w} : pending'[v] = pending[v]
      BY <2>3, <2>4
    <2>6. Typed'
      BY <2>1, <2>2, <2>3, <2>5 DEF Typed, Busy, MutexFree
    <2>7. \A v \in Workers : Kept(v)' = Kept(v)
      BY <2>3 DEF Kept, MutexFree
    <2>8. Runs(w) = 1 /\ Runs(w)' = 0 /\ \A v \in Workers \ {w} : Runs(v)' = Runs(v)
      BY <2>1, <2>2 DEF Runs, Busy
    <2>9. pending'[w] - pending[w] = (Len(jobs'[w]) - Len(jobs[w]))
                                     + (Len(Kept(w)') - Len(Kept(w))) + (Runs(w)' - Runs(w))
      <3>1. Len(jobs'[w]) = Len(jobs[w]) /\ Len(Kept(w)') = Len(Kept(w))
        BY <2>3, <2>7
      <3>2. Len(jobs[w]) \in Nat /\ Len(Kept(w)) \in Nat /\ pending[w] \in Int
        BY <2>4, CountsAreNat
      <3> QED BY <2>5, <2>8, <3>1, <3>2
    <2> QED BY <2>3, <2>5, <2>6, <2>7, <2>8, <2>9, CountOfOne
  <1>6. CASE FinishLane(w)
    <2>1. /\ UNCHANGED <<jobs, pending, nextWorker, ingress, compaction, accepted>>
          /\ laneWorker' \in [Lanes -> Workers \cup {NoWorker}]
          /\ running' \in [Lanes -> Workers \cup {NoWorker}]
      BY <1>6 DEF FinishLane, Typed
    <2>2. Typed'
      BY <1>6, <2>1, LaneFinished DEF Typed, Busy, MutexFree
    <2>3. \A v \in Workers : Kept(v)' = Kept(v)
      BY <2>1 DEF Kept, MutexFree
    <2>4. \A v \in Workers : (worker'[v].pc \in {"idle", "unpended"})
                             <=> (worker[v].pc \in {"idle", "unpended"})
      BY <1>6, LaneFinished
    <2> QED BY <2>1, <2>2, <2>3, <2>4, CountSame
  <1> QED BY <1>1, <1>2, <1>3, <1>4, <1>5, <1>6 DEF WorkerNext

LEMMA TypedStep ==
  ASSUME Typed, WorkersAreCounted, [Next]_vars
  PROVE  Typed' /\ WorkersAreCounted'
  <1>1. CASE UNCHANGED vars
    BY <1>1, CountFrame DEF vars, pool, Typed, Busy, MutexFree
  <1>2. CASE Next
    BY <1>2, IngressTyped, CompactTakeTyped, CompactPutBackTyped, WorkerTyped
    DEF Next, CompactNext
  <1> QED BY <1>1, <1>2

-----------------------------------------------------------------------------
(* Cancelled lanes are swept.  A removal that has come to worker at has    *)
(* swept the workers before it, and the lanes marked cancelled that still  *)
(* have tasks are those it removes.                                        *)

Swept ==
  /\ \A w \in Workers : MutexFree \/ w < compaction.at =>
       \A t \in Range(jobs[w]) : TaskLane(t) \notin cancelled
  /\ ~MutexFree =>
       /\ \A t \in Range(compaction.kept) : TaskLane(t) \notin cancelled
       /\ \A w \in Workers : \A t \in Range(jobs[w]) :
            TaskLane(t) \in cancelled => TaskLane(t) \in compaction.drop

LEMMA SweptAtFirst == Init => Swept
  BY EmptyQueue DEF Init, Swept, MutexFree

LEMMA SweptFrame ==
  ASSUME Swept, UNCHANGED compaction, cancelled' \subseteq cancelled,
         \A w \in Workers : Range(jobs'[w]) \subseteq Range(jobs[w])
  PROVE  Swept'
  BY DEF Swept, MutexFree

LEMMA SweepStarts ==
  ASSUME Swept, Typed, MutexFree, UNCHANGED jobs, NEW who, NEW D,
         compaction' = Compacting(who, D), cancelled' \subseteq cancelled \cup D
  PROVE  Swept'
  <1>1. compaction'.at = 1 /\ compaction'.kept = << >> /\ compaction'.drop = D
    BY DEF Compacting
  <1>2. Range(<< >>) = {}
    BY EmptyQueue
  <1>3. \A w \in Workers : ~ (w < 1)
    BY PoolAssumption DEF Workers
  <1>4. (~MutexFree)'
    BY <1>1 DEF MutexFree, Free, Compacting
  <1>5. \A w \in Workers : \A t \in Range(jobs[w]) : TaskLane(t) \notin cancelled
    BY DEF Swept
  <1> QED BY <1>1, <1>2, <1>3, <1>4, <1>5 DEF Swept

(* What Enqueue does to the queues: a task of its packet, or nothing.      *)
LEMMA Enqueued ==
  ASSUME Typed, WorkersAreCounted, NEW i \in Ingress, EnqueueMarked(i)
  PROVE  LET p == ingress[i].packet
             t == [packet |-> p, n |-> accepted + 1]
         IN  /\ p \in Packets /\ t \in TaskT
             /\ MutexFree /\ UNCHANGED <<running, worker, compaction, deferredInflight, raced>>
             /\ ingress[i] = Dispatching(p)
             /\ \/ /\ UNCHANGED <<jobs, accepted, sessionPending>>
                   /\ ingress' = [ingress EXCEPT ![i] = GivingUp(p)]
                \/ /\ accepted' = accepted + 1
                   /\ sessionPending' = [sessionPending EXCEPT ![p.lane[1]] = @ + 1]
                   /\ ingress' = [ingress EXCEPT ![i] = Idle]
                   /\ \E w \in Workers :
                        /\ jobs' = [jobs EXCEPT ![w] = Append(@, t)]
                        /\ jobs'[w] = Append(jobs[w], t)
                        /\ \A v \in Workers \ {w} : jobs'[v] = jobs[v]
                        /\ Range(jobs'[w]) = Range(jobs[w]) \cup {t}
  <1> DEFINE p == ingress[i].packet
             t == [packet |-> p, n |-> accepted + 1]
  <1>1. p \in Packets /\ p.lane \in Lanes /\ ingress[i] = Dispatching(p)
    BY OpsAreShaped DEF EnqueueMarked, Packets
  <1>2. t \in TaskT
    BY <1>1, SMTT(30) DEF Typed, TaskT
  <1>3. PICK w \in Workers : w = Target(p.lane)
    BY <1>1, TargetIsWorker
  <1>4. MutexFree /\ UNCHANGED <<running, worker, compaction, deferredInflight, raced>>
    BY SMTT(30) DEF EnqueueMarked
  <1>5. \/ /\ UNCHANGED <<jobs, accepted, sessionPending>>
           /\ ingress' = [ingress EXCEPT ![i] = GivingUp(p)]
        \/ /\ accepted' = accepted + 1
           /\ sessionPending' = [sessionPending EXCEPT ![p.lane[1]] = @ + 1]
           /\ ingress' = [ingress EXCEPT ![i] = Idle]
           /\ jobs' = [jobs EXCEPT ![w] = Append(@, t)]
    BY <1>3, ZenonT(60) DEF EnqueueMarked
  <1>6. ASSUME jobs' = [jobs EXCEPT ![w] = Append(@, t)]
        PROVE  /\ jobs'[w] = Append(jobs[w], t)
               /\ \A v \in Workers \ {w} : jobs'[v] = jobs[v]
               /\ Range(jobs'[w]) = Range(jobs[w]) \cup {t}
    <2> HIDE DEF p, t
    <2>1. jobs[w] \in Seq(TaskT)
      BY DEF Typed
    <2>2. jobs'[w] = Append(jobs[w], t) /\ \A v \in Workers \ {w} : jobs'[v] = jobs[v]
      BY <1>6 DEF Typed
    <2>3. Range(Append(jobs[w], t)) = Range(jobs[w]) \cup {t}
      BY <1>2, <2>1, AppendedQueue, SMTT(30)
    <2> QED BY <2>2, <2>3
  <1> HIDE DEF p, t
  <1>7. CASE jobs' = [jobs EXCEPT ![w] = Append(@, t)]
    BY <1>1, <1>2, <1>4, <1>5, <1>6, <1>7 DEF p, t
  <1>8. CASE ~ (jobs' = [jobs EXCEPT ![w] = Append(@, t)])
    BY <1>1, <1>2, <1>4, <1>5, <1>8 DEF p, t
  <1> QED BY <1>7, <1>8, SMTT(30)

LEMMA Taken ==
  ASSUME Typed, CompactTake
  PROVE  \E c \in Workers, t \in TaskT :
           /\ ~MutexFree /\ compaction \in Removal /\ c = compaction.at
           /\ jobs[c] \in Seq(TaskT) /\ jobs[c] # << >>
           /\ t = Head(jobs[c]) /\ jobs'[c] = Tail(jobs[c])
           /\ Range(jobs[c]) = Range(jobs'[c]) \cup {t}
           /\ Once(jobs[c]) => Once(jobs'[c]) /\ t \notin Range(jobs'[c])
           /\ \A v \in Workers \ {c} : jobs'[v] = jobs[v]
           /\ UNCHANGED <<cancelled, deferredInflight, raced, worker, ingress, accepted>>
           /\ \/ /\ TaskLane(t) \in compaction.drop \cup cancelled
                 /\ UNCHANGED compaction /\ Release(TaskLane(t)[1])
              \/ /\ TaskLane(t) \notin compaction.drop \cup cancelled
                 /\ compaction' \in Removal
                 /\ compaction'.by = compaction.by /\ compaction'.at = c /\ (~MutexFree)'
                 /\ compaction'.drop = compaction.drop
                 /\ compaction.kept \in Seq(TaskT)
                 /\ compaction'.kept = Append(compaction.kept, t)
                 /\ Range(compaction'.kept) = Range(compaction.kept) \cup {t}
                 /\ UNCHANGED sessionPending
  <1>1. ~MutexFree /\ compaction \in Removal /\ jobs[compaction.at] # << >>
    BY DEF CompactTake, Typed
  <1>2. PICK c \in Workers : c = compaction.at
    BY <1>1 DEF Removal
  <1>3. PICK t \in TaskT : t = Head(jobs[c])
    BY <1>1, <1>2, CountsAreNat, ShorterQueue
  <1>4. /\ jobs[c] \in Seq(TaskT) /\ jobs[c] # << >>
        /\ Range(jobs[c]) = Range(Tail(jobs[c])) \cup {t}
        /\ Once(jobs[c]) => Once(Tail(jobs[c])) /\ t \notin Range(Tail(jobs[c]))
    BY <1>1, <1>2, <1>3, CountsAreNat, ShorterQueue
  <1>5. /\ jobs' = [jobs EXCEPT ![c] = Tail(@)]
        /\ UNCHANGED <<cancelled, deferredInflight, raced, worker, ingress, accepted>>
    BY <1>2 DEF CompactTake
  <1>6. jobs'[c] = Tail(jobs[c]) /\ \A v \in Workers \ {c} : jobs'[v] = jobs[v]
    BY <1>5 DEF Typed
  <1>7. CASE TaskLane(t) \in compaction.drop \cup cancelled
    <2>1. UNCHANGED compaction /\ Release(TaskLane(t)[1])
      BY <1>2, <1>3, <1>7 DEF CompactTake, DropTask
    <2> QED BY <1>1, <1>2, <1>3, <1>4, <1>5, <1>6, <1>7, <2>1
  <1>8. CASE TaskLane(t) \notin compaction.drop \cup cancelled
    <2>1. compaction' = [compaction EXCEPT !.kept = Append(@, t)] /\ UNCHANGED sessionPending
      BY <1>2, <1>3, <1>8 DEF CompactTake
    <2>2. compaction.kept \in Seq(TaskT) /\ Append(compaction.kept, t) \in Seq(TaskT)
          /\ Range(Append(compaction.kept, t)) = Range(compaction.kept) \cup {t}
      BY <1>1, AppendedQueue DEF Removal
    <2>3. /\ compaction' \in Removal /\ compaction'.kept = Append(compaction.kept, t)
          /\ compaction'.by = compaction.by /\ compaction'.at = compaction.at
          /\ compaction'.drop = compaction.drop
      BY <1>1, <2>1, <2>2 DEF Removal
    <2>4. (~MutexFree)'
      BY <1>1, <2>1 DEF MutexFree, Free, Removal
    <2> QED BY ZenonT(60), <1>1, <1>2, <1>3, <1>4, <1>5, <1>6, <1>8, <2>1, <2>2, <2>3, <2>4
  <1> QED BY <1>7, <1>8

LEMMA PutBack ==
  ASSUME Typed, CompactPutBack
  PROVE  \E c \in Workers :
           /\ ~MutexFree /\ compaction \in Removal /\ c = compaction.at
           /\ Range(jobs[c]) = {} /\ jobs'[c] = compaction.kept
           /\ \A v \in Workers \ {c} : jobs'[v] = jobs[v]
           /\ UNCHANGED <<cancelled, deferredInflight, raced, accepted, sessionPending>>
           /\ \A v \in Workers : /\ worker'[v].task = worker[v].task
                                 /\ \/ worker'[v].pc = worker[v].pc
                                    \/ worker'[v].pc = "ending" /\ worker[v].pc = "locked"
           /\ \A i \in Ingress : \/ ingress'[i] = ingress[i]
                                 \/ ingress[i] = Locked /\ ingress'[i] = Idle
           /\ \/ compaction' = Free /\ c = NumWorkers
              \/ /\ compaction' \in Removal /\ (~MutexFree)'
                 /\ compaction'.at = c + 1 /\ compaction'.kept = << >>
                 /\ compaction'.drop = compaction.drop
  <1>1. ~MutexFree /\ compaction \in Removal /\ jobs[compaction.at] = << >>
    BY DEF CompactPutBack, Typed
  <1>2. PICK c \in Workers : c = compaction.at
    BY <1>1 DEF Removal
  <1>3. /\ Range(jobs[c]) = {} /\ jobs' = [jobs EXCEPT ![c] = compaction.kept]
        /\ UNCHANGED <<cancelled, deferredInflight, raced, accepted, sessionPending>>
    BY <1>1, <1>2, EmptyQueue DEF CompactPutBack
  <1>4. jobs'[c] = compaction.kept /\ \A v \in Workers \ {c} : jobs'[v] = jobs[v]
    BY <1>3 DEF Typed
  <1>5. \A v \in Workers : /\ worker'[v].task = worker[v].task
                           /\ \/ worker'[v].pc = worker[v].pc
                              \/ worker'[v].pc = "ending" /\ worker[v].pc = "locked"
    <2>1. worker \in [Workers -> Shape] /\ "ending" \in WorkerPCs
      BY DEF Typed, WorkerPCs
    <2>2. CASE worker' = worker
      BY <2>2
    <2>3. CASE worker' # worker
      <3>1. PICK b \in Workers : b = compaction.by /\ Goto(b, "ending")
        BY <2>3 DEF CompactPutBack
      <3>2. worker[b].pc = "locked"
        BY <1>1, <3>1, NamesAssumption DEF Typed
      <3> QED BY <2>1, <3>1, <3>2, WorkerGoes
    <2> QED BY <2>2, <2>3
  <1>6. \A i \in Ingress : \/ ingress'[i] = ingress[i]
                           \/ ingress[i] = Locked /\ ingress'[i] = Idle
    <2>1. CASE ingress' = ingress
      BY <2>1
    <2>2. CASE ingress' # ingress
      <3>1. PICK b \in Ingress : b = compaction.by /\ ingress' = [ingress EXCEPT ![b] = Idle]
        BY <2>2 DEF CompactPutBack
      <3>2. ingress[b] = Locked
        BY <1>1, <3>1, NamesAssumption DEF Typed
      <3> QED BY <3>1, <3>2 DEF Typed
    <2> QED BY <2>1, <2>2
  <1>7. CASE compaction.at = NumWorkers
    <2>1. compaction' = Free
      BY <1>2, <1>7, PoolAssumption DEF CompactPutBack, Workers
    <2> QED BY <1>1, <1>2, <1>3, <1>4, <1>5, <1>6, <1>7, <2>1
  <1>8. CASE compaction.at # NumWorkers
    <2>1. compaction' = [compaction EXCEPT !.at = @ + 1, !.kept = <<>>]
          /\ compaction.at < NumWorkers
      BY <1>8 DEF CompactPutBack
    <2>2. compaction.at + 1 \in Workers /\ << >> \in Seq(TaskT)
      BY <1>2, <2>1, PoolAssumption DEF Workers
    <2>3. /\ compaction' \in Removal /\ compaction'.at = compaction.at + 1
          /\ compaction'.kept = << >> /\ compaction'.drop = compaction.drop
      BY <1>1, <2>1, <2>2 DEF Removal
    <2>4. (~MutexFree)'
      BY <1>1, <2>1 DEF MutexFree, Free, Removal
    <2> QED BY <1>1, <1>2, <1>3, <1>4, <1>5, <1>6, <2>3, <2>4
  <1> QED BY <1>7, <1>8

LEMMA SweptStep ==
  ASSUME Typed, WorkersAreCounted, Swept, Next
  PROVE  Swept'
  <1>1. ASSUME NEW i \in Ingress, IngressNext(i) PROVE Swept'
    <2>1. CASE Enqueue(i)
      <3> DEFINE p == ingress[i].packet
                 t == [packet |-> p, n |-> accepted + 1]
      <3>1. EnqueueMarked(i) /\ cancelled' = cancelled \ {p.lane}
        BY <2>1 DEF Enqueue
      <3>2. MutexFree /\ MutexFree' /\ TaskLane(t) = p.lane
        BY <3>1, Enqueued DEF TaskLane, MutexFree
      <3>3. \A w \in Workers : \A u \in Range(jobs'[w]) : u \in Range(jobs[w]) \/ u = t
        <4>1. CASE UNCHANGED jobs
          BY <4>1
        <4>2. CASE ~UNCHANGED jobs
          <5>1. PICK v \in Workers : /\ \A w \in Workers \ {v} : jobs'[w] = jobs[w]
                                    /\ Range(jobs'[v]) = Range(jobs[v]) \cup {t}
            BY <3>1, <4>2, Enqueued
          <5> HIDE DEF t
          <5> QED BY <5>1
        <4> QED BY <4>1, <4>2
      <3>4. \A w \in Workers : \A u \in Range(jobs[w]) : TaskLane(u) \notin cancelled
        BY <3>2 DEF Swept
      <3> HIDE DEF p, t
      <3> QED BY <3>1, <3>2, <3>3, <3>4 DEF Swept
    <2>2. CASE RemoveLanes(i)
      <3>1. /\ MutexFree /\ UNCHANGED jobs /\ compaction' = Compacting(i, ingress[i].lanes)
            /\ cancelled' \subseteq cancelled \cup ingress[i].lanes
        BY <2>2 DEF RemoveLanes
      <3> QED BY <3>1, SweepStarts
    <2>3. CASE ~Enqueue(i) /\ ~RemoveLanes(i)
      <3>1. UNCHANGED <<jobs, cancelled, compaction>>
        BY <1>1, <2>3
        DEF IngressNext, BeginDispatch, GiveUp, ClearStream, ClearSession, pool
      <3> QED BY <3>1, SweptFrame
    <2> QED BY <2>1, <2>2, <2>3
  <1>2. CASE CompactTake
    <2>1. PICK c \in Workers, t \in TaskT :
           /\ ~MutexFree /\ c = compaction.at
           /\ Range(jobs[c]) = Range(jobs'[c]) \cup {t}
           /\ \A v \in Workers \ {c} : jobs'[v] = jobs[v]
           /\ UNCHANGED cancelled
           /\ \/ UNCHANGED compaction
              \/ /\ TaskLane(t) \notin compaction.drop \cup cancelled
                 /\ compaction'.at = c /\ (~MutexFree)' /\ compaction'.drop = compaction.drop
                 /\ Range(compaction'.kept) = Range(compaction.kept) \cup {t}
      BY <1>2, Taken
    <2>2. \A v \in Workers : Range(jobs'[v]) \subseteq Range(jobs[v])
      BY <2>1
    <2>3. CASE UNCHANGED compaction
      BY <2>1, <2>2, <2>3, SweptFrame
    <2>4. CASE ~UNCHANGED compaction
      BY <2>1, <2>2, <2>4 DEF Swept
    <2> QED BY <2>3, <2>4
  <1>3. CASE CompactPutBack
    <2>1. PICK c \in Workers :
           /\ ~MutexFree /\ c = compaction.at /\ jobs'[c] = compaction.kept
           /\ \A v \in Workers \ {c} : jobs'[v] = jobs[v]
           /\ UNCHANGED cancelled
           /\ \/ compaction' = Free /\ c = NumWorkers
              \/ /\ (~MutexFree)' /\ compaction'.at = c + 1 /\ compaction'.kept = << >>
                 /\ compaction'.drop = compaction.drop
      BY <1>3, PutBack
    <2>2. \A v \in Workers : v < c + 1 => v = c \/ v < c
      BY DEF Workers
    <2>3. \A v \in Workers : v < c + 1 => \A t \in Range(jobs'[v]) : TaskLane(t) \notin cancelled
      BY <2>1, <2>2 DEF Swept
    <2>4. CASE compaction' = Free /\ c = NumWorkers
      <3>1. \A v \in Workers : v < c + 1
        BY <2>4, PoolAssumption DEF Workers
      <3> QED BY <2>1, <2>3, <2>4, <3>1 DEF Swept, MutexFree
    <2>5. CASE (~MutexFree)' /\ compaction'.at = c + 1 /\ compaction'.kept = << >>
               /\ compaction'.drop = compaction.drop
      BY <2>1, <2>3, <2>5, EmptyQueue DEF Swept
    <2> QED BY <2>1, <2>4, <2>5
  <1>4. ASSUME NEW w \in Workers, WorkerNext(w) PROVE Swept'
    <2>1. CASE Receive(w)
      <3>1. \A v \in Workers : Range(jobs'[v]) \subseteq Range(jobs[v])
        <4>1. jobs[w] \in Seq(TaskT) /\ jobs[w] # << >> /\ jobs'[w] = Tail(jobs[w])
              /\ \A v \in Workers \ {w} : jobs'[v] = jobs[v]
          BY <2>1, Received, CountsAreNat
        <4> QED BY <4>1, ShorterQueue
      <3>2. UNCHANGED <<cancelled, compaction>>
        BY <2>1 DEF Receive
      <3> QED BY <3>1, <3>2, SweptFrame
    <2>2. CASE FinalizeLane(w)
      <3>1. /\ MutexFree /\ UNCHANGED jobs /\ compaction' = Compacting(w, {LaneOf(w)})
            /\ cancelled' \subseteq cancelled \cup {LaneOf(w)}
        BY <2>2 DEF FinalizeLane
      <3> QED BY <3>1, SweepStarts
    <2>3. CASE ~Receive(w) /\ ~FinalizeLane(w)
      <3>1. UNCHANGED <<jobs, compaction>> /\ cancelled' \subseteq cancelled
        BY <1>4, <2>3
        DEF WorkerNext, BeginTask, StartHandler, Return, FinalizeStream, Unpend, FinishLane, pool
      <3> QED BY <3>1, SweptFrame
    <2> QED BY <2>1, <2>2, <2>3
  <1> QED BY <1>1, <1>2, <1>3, <1>4 DEF Next, CompactNext

-----------------------------------------------------------------------------
(* Marks.  A tracked packet that is no part of the race is not in a lane   *)
(* that is being removed, and is dispatched, queued or worked on.          *)

Untied == deferredInflight \ raced

Bearing == {"held", "begun", "handling", "finalizing", "locked", "ending"}

Dispatched(p) == \E i \in Ingress : ingress[i] \in {Dispatching(p), GivingUp(p)}
Waiting(p) == \E w \in Workers : \E t \in Range(jobs[w]) \cup Range(Kept(w)) : t.packet = p
WorkedOn(p) == \E w \in Workers : worker[w].pc \in Bearing /\ worker[w].task.packet = p
Carried(p) == Dispatched(p) \/ Waiting(p) \/ WorkedOn(p)

Taking(l) == \/ \E i \in Ingress : ingress[i].op = "remove" /\ l \in ingress[i].lanes
             \/ \E w \in Workers : worker[w].pc = "finalizing" /\ LaneOf(w) = l
             \/ ~MutexFree /\ l \in compaction.drop

Marks == \A p \in Untied : ~Taking(p.lane) /\ Carried(p)

LEMMA TakingIsRemoving == \A l : l \in BeingRemoved <=> Taking(l)
  <1> DEFINE A == UNION {ingress[i].lanes : i \in {j \in Ingress : ingress[j].op = "remove"}}
             B == {LaneOf(w) : w \in {v \in Workers : worker[v].pc = "finalizing"}}
             C == IF MutexFree THEN {} ELSE compaction.drop
  <1>1. BeingRemoved = A \cup B \cup C
    BY DEF BeingRemoved
  <1>2. \A l : l \in A <=> \E i \in Ingress : ingress[i].op = "remove" /\ l \in ingress[i].lanes
    OBVIOUS
  <1>3. \A l : l \in B <=> \E w \in Workers : worker[w].pc = "finalizing" /\ LaneOf(w) = l
    OBVIOUS
  <1>4. \A l : l \in C <=> ~MutexFree /\ l \in compaction.drop
    OBVIOUS
  <1> HIDE DEF A, B, C
  <1> QED BY <1>1, <1>2, <1>3, <1>4 DEF Taking

LEMMA OpNames ==
  /\ Idle.op = "idle" /\ Locked.op = "locked"
  /\ \A p : Dispatching(p).op = "dispatch" /\ Dispatching(p).packet = p
  /\ \A p : GivingUp(p).op = "giveUp" /\ GivingUp(p).packet = p
  /\ \A D, b : Removing(D, b).op = "remove" /\ Removing(D, b).lanes = D
  BY DEF Idle, Locked, Dispatching, GivingUp, Removing

LEMMA MarksFrame ==
  ASSUME Marks, Untied' \subseteq Untied,
         \A p \in Untied' : Taking(p.lane)' => Taking(p.lane),
         \A p \in Untied' : Carried(p) => Carried(p)'
  PROVE  Marks'
  BY DEF Marks

LEMMA MarksAtFirst == Init => Marks
  BY DEF Init, Marks, Untied

(* An ingress goroutine's own step: the pool and the workers stay.         *)
LEMMA IngressMarks ==
  ASSUME Typed, WorkersAreCounted, Marks, NEW i \in Ingress, IngressNext(i)
  PROVE  Marks'
  <1>0. DOMAIN ingress = Ingress
    BY DEF Typed
  <1>1. ASSUME NEW p \in Packets, BeginDispatch(i, p) PROVE Marks'
    <2>1. /\ ingress[i] = Idle /\ ingress' = [ingress EXCEPT ![i] = Dispatching(p)]
          /\ UNCHANGED <<jobs, worker, compaction>>
      BY <1>1 DEF BeginDispatch, pool
    <2>2. \A q \in Untied' : q \in Untied \/ (q = p /\ p.lane \notin BeingRemoved)
      BY <1>1 DEF BeginDispatch, Untied
    <2>3. \A l : Taking(l)' => Taking(l)
      BY <1>0, <2>1, OpNames DEF Taking, LaneOf, MutexFree
    <2>4. \A q : Carried(q) => Carried(q)'
      BY <1>0, <2>1, OpNames DEF Carried, Dispatched, Waiting, WorkedOn, Kept, MutexFree
    <2>5. Carried(p)'
      BY <1>0, <2>1 DEF Carried, Dispatched
    <2> QED BY <2>2, <2>3, <2>4, <2>5, TakingIsRemoving DEF Marks
  <1>2. CASE Enqueue(i)
    <2> DEFINE p == ingress[i].packet
               t == [packet |-> p, n |-> accepted + 1]
    <2>1. EnqueueMarked(i)
      BY <1>2 DEF Enqueue
    <2>2. /\ MutexFree /\ UNCHANGED <<worker, compaction, deferredInflight, raced>>
          /\ ingress[i] = Dispatching(p)
      BY <2>1, Enqueued
    <2>3. \/ UNCHANGED jobs /\ ingress' = [ingress EXCEPT ![i] = GivingUp(p)]
          \/ /\ ingress' = [ingress EXCEPT ![i] = Idle]
             /\ \E w \in Workers : /\ \A v \in Workers \ {w} : jobs'[v] = jobs[v]
                                   /\ Range(jobs'[w]) = Range(jobs[w]) \cup {t}
      BY <2>1, Enqueued
    <2>4. t.packet = p
      OBVIOUS
    <2> HIDE DEF p, t
    <2>5. \A j \in Ingress \ {i} : ingress'[j] = ingress[j]
      BY <1>0, <2>3
    <2>6. ingress'[i].op # "remove"
      BY <1>0, <2>3, OpNames
    <2>7. \A l : Taking(l)' => Taking(l)
      BY <2>2, <2>5, <2>6 DEF Taking, LaneOf, MutexFree
    <2>8. \A v \in Workers : Kept(v)' = Kept(v)
      BY <2>2 DEF Kept, MutexFree
    <2>9. \A v \in Workers : Range(jobs[v]) \subseteq Range(jobs'[v])
      BY <2>3
    <2>10. \A q : Waiting(q) => Waiting(q)'
      BY <2>8, <2>9 DEF Waiting
    <2>11. \A q : WorkedOn(q) => WorkedOn(q)'
      BY <2>2 DEF WorkedOn
    <2>12. \A q : Dispatched(q) => Dispatched(q)' \/ Waiting(q)'
      <3>1. SUFFICES ASSUME NEW q, Dispatched(q) PROVE Dispatched(q)' \/ Waiting(q)'
        OBVIOUS
      <3>2. PICK j \in Ingress : ingress[j] \in {Dispatching(q), GivingUp(q)}
        BY <3>1 DEF Dispatched
      <3>3. CASE j # i
        BY <2>5, <3>2, <3>3 DEF Dispatched
      <3>4. CASE j = i
        <4>1. q = p
          BY <2>2, <3>2, <3>4, OpNames
        <4>2. CASE ingress' = [ingress EXCEPT ![i] = GivingUp(p)]
          BY <1>0, <4>1, <4>2 DEF Dispatched
        <4>3. CASE \E w \in Workers : Range(jobs'[w]) = Range(jobs[w]) \cup {t}
          BY <2>4, <4>1, <4>3 DEF Waiting
        <4> QED BY <2>3, <4>2, <4>3
      <3> QED BY <3>3, <3>4
    <2>13. Untied' = Untied
      BY <2>2 DEF Untied
    <2> QED BY <2>7, <2>10, <2>11, <2>12, <2>13, MarksFrame DEF Carried
  <1>3. CASE GiveUp(i)
    <2> DEFINE p == ingress[i].packet
    <2>1. /\ ingress[i] = GivingUp(p) /\ ingress' = [ingress EXCEPT ![i] = Idle]
          /\ UNCHANGED <<jobs, worker, compaction>>
      BY <1>3, OpsAreShaped DEF GiveUp, pool
    <2>2. Untied' = Untied \ {p}
      BY <1>3 DEF GiveUp, UntrackPacket, Untied
    <2> HIDE DEF p
    <2>3. \A l : Taking(l)' => Taking(l)
      BY <1>0, <2>1, OpNames DEF Taking, LaneOf, MutexFree
    <2>4. \A q : q # p /\ Dispatched(q) => Dispatched(q)'
      BY <1>0, <2>1, OpNames DEF Dispatched
    <2>5. \A q : (Waiting(q) => Waiting(q)') /\ (WorkedOn(q) => WorkedOn(q)')
      BY <2>1 DEF Waiting, WorkedOn, Kept, MutexFree
    <2> QED BY <2>2, <2>3, <2>4, <2>5, MarksFrame DEF Carried
  <1>4. CASE RemoveLanes(i)
    <2>1. /\ MutexFree /\ ingress[i].op = "remove"
          /\ ingress' = [ingress EXCEPT ![i] = Locked]
          /\ compaction' = Compacting(i, ingress[i].lanes)
          /\ UNCHANGED <<jobs, deferredInflight, raced>>
      BY <1>4 DEF RemoveLanes
    <2>2. \A v \in Workers : worker'[v].pc = worker[v].pc /\ worker'[v].task = worker[v].task
      BY <1>4, RemovalCancels
    <2>3. compaction'.drop = ingress[i].lanes /\ compaction'.kept = << >>
      BY <2>1 DEF Compacting
    <2>4. \A l : Taking(l)' => Taking(l)
      BY <1>0, <2>1, <2>2, <2>3, OpNames DEF Taking, LaneOf, TaskLane
    <2>5. \A v \in Workers : Kept(v)' = Kept(v)
      BY <2>1, <2>3 DEF Kept
    <2>6. \A q : Waiting(q) => Waiting(q)'
      BY <2>1, <2>5 DEF Waiting
    <2>7. \A q : WorkedOn(q) => WorkedOn(q)'
      BY <2>2 DEF WorkedOn
    <2>8. \A q : Dispatched(q) => Dispatched(q)'
      BY <1>0, <2>1, OpNames DEF Dispatched
    <2>9. Untied' = Untied
      BY <2>1 DEF Untied
    <2> QED BY <2>4, <2>6, <2>7, <2>8, <2>9, MarksFrame DEF Carried
  <1>5. ASSUME NEW D, NEW whole, ingress[i] = Idle, Untrack(D),
               ingress' = [ingress EXCEPT ![i] = Removing(D, whole)],
               UNCHANGED <<pool, worker, compaction, accepted>>
        PROVE  Marks'
    <2>1. UNCHANGED <<jobs, worker, compaction>>
      BY <1>5 DEF pool
    <2>2. \A p \in Untied' : p \in Untied /\ p.lane \notin D
      BY <1>5 DEF Untrack, Untied
    <2>3. \A l : Taking(l)' => Taking(l) \/ l \in D
      BY <1>0, <1>5, <2>1, OpNames DEF Taking, LaneOf, MutexFree
    <2>4. \A q : Carried(q) => Carried(q)'
      BY <1>0, <1>5, <2>1, OpNames DEF Carried, Dispatched, Waiting, WorkedOn, Kept, MutexFree
    <2> QED BY <2>2, <2>3, <2>4, MarksFrame
  <1>6. ASSUME NEW l \in Clearable, ClearStream(i, l) PROVE Marks'
    BY <1>5, <1>6 DEF ClearStream
  <1>7. ASSUME NEW s \in Sessions, ClearSession(i, s) PROVE Marks'
    BY <1>5, <1>7 DEF ClearSession
  <1> QED BY <1>1, <1>2, <1>3, <1>4, <1>6, <1>7 DEF IngressNext

LEMMA CompactMarks ==
  ASSUME Typed, WorkersAreCounted, Swept, Marks, CompactTake \/ CompactPutBack
  PROVE  Marks'
  <1>1. CASE CompactTake
    <2>1. PICK c \in Workers, t \in TaskT :
           /\ ~MutexFree /\ c = compaction.at
           /\ Range(jobs[c]) = Range(jobs'[c]) \cup {t}
           /\ \A v \in Workers \ {c} : jobs'[v] = jobs[v]
           /\ UNCHANGED <<deferredInflight, raced, worker, ingress>>
           /\ \/ TaskLane(t) \in compaction.drop \cup cancelled /\ UNCHANGED compaction
              \/ /\ compaction'.at = c /\ (~MutexFree)' /\ compaction'.drop = compaction.drop
                 /\ Range(compaction'.kept) = Range(compaction.kept) \cup {t}
      BY <1>1, Taken
    <2>2. Untied' = Untied
      BY <2>1 DEF Untied
    <2>3. \A l : Taking(l)' => Taking(l)
      BY <2>1 DEF Taking, LaneOf
    <2>4. \A q : (Dispatched(q) => Dispatched(q)') /\ (WorkedOn(q) => WorkedOn(q)')
      BY <2>1 DEF Dispatched, WorkedOn
    <2>5. CASE TaskLane(t) \in compaction.drop \cup cancelled /\ UNCHANGED compaction
      <3>1. TaskLane(t) \in compaction.drop
        BY <2>1, <2>5 DEF Swept
      <3>2. t.packet \notin Untied
        BY <2>1, <3>1 DEF Marks, Taking, TaskLane
      <3>3. \A v \in Workers : Kept(v)' = Kept(v)
        BY <2>5 DEF Kept, MutexFree
      <3>4. \A q : q # t.packet /\ Waiting(q) => Waiting(q)'
        BY <2>1, <3>3 DEF Waiting
      <3> QED BY <2>2, <2>3, <2>4, <3>2, <3>4, MarksFrame DEF Carried
    <2>6. CASE /\ compaction'.at = c /\ (~MutexFree)' /\ compaction'.drop = compaction.drop
               /\ Range(compaction'.kept) = Range(compaction.kept) \cup {t}
      <3>1. \A v \in Workers \ {c} : Kept(v) = Kept(v)' /\ jobs'[v] = jobs[v]
        BY <2>1, <2>6 DEF Kept
      <3>2. Range(Kept(c)') = Range(Kept(c)) \cup {t}
        BY <2>1, <2>6 DEF Kept
      <3>3. \A v \in Workers :
              Range(jobs[v]) \cup Range(Kept(v)) \subseteq Range(jobs'[v]) \cup Range(Kept(v)')
        BY <2>1, <3>1, <3>2
      <3>4. \A q : Waiting(q) => Waiting(q)'
        BY <3>3 DEF Waiting
      <3> QED BY <2>2, <2>3, <2>4, <3>4, MarksFrame DEF Carried
    <2> QED BY <2>1, <2>5, <2>6
  <1>2. CASE CompactPutBack
    <2>1. PICK c \in Workers :
           /\ ~MutexFree /\ c = compaction.at
           /\ Range(jobs[c]) = {} /\ jobs'[c] = compaction.kept
           /\ \A v \in Workers \ {c} : jobs'[v] = jobs[v]
           /\ UNCHANGED <<deferredInflight, raced>>
           /\ \A v \in Workers : /\ worker'[v].task = worker[v].task
                                 /\ \/ worker'[v].pc = worker[v].pc
                                    \/ worker'[v].pc = "ending" /\ worker[v].pc = "locked"
           /\ \A i \in Ingress : \/ ingress'[i] = ingress[i]
                                 \/ ingress[i] = Locked /\ ingress'[i] = Idle
           /\ \/ compaction' = Free /\ c = NumWorkers
              \/ (~MutexFree)' /\ compaction'.drop = compaction.drop
      BY <1>2, PutBack
    <2>2. Untied' = Untied
      BY <2>1 DEF Untied
    <2>3. \A l : Taking(l)' => Taking(l)
      <3>1. \A i \in Ingress : ingress'[i].op = "remove" => ingress'[i] = ingress[i]
        BY <2>1, OpNames
      <3>2. \A v \in Workers : worker'[v].pc = "finalizing" => worker[v].pc = "finalizing"
        BY <2>1
      <3>3. \A v \in Workers : LaneOf(v)' = LaneOf(v)
        BY <2>1 DEF LaneOf
      <3>4. \A l : (~MutexFree /\ l \in compaction.drop)' => ~MutexFree /\ l \in compaction.drop
        BY <2>1 DEF MutexFree
      <3> QED BY <3>1, <3>2, <3>3, <3>4 DEF Taking
    <2>4. \A q : Dispatched(q) => Dispatched(q)'
      BY <2>1, OpNames DEF Dispatched
    <2>5. \A q : WorkedOn(q) => WorkedOn(q)'
      BY <2>1 DEF WorkedOn, Bearing
    <2>6. \A q : Waiting(q) => Waiting(q)'
      <3>1. \A v \in Workers : Range(jobs[v]) \cup Range(Kept(v)) \subseteq Range(jobs'[v])
        BY <2>1, EmptyQueue DEF Kept
      <3> QED BY <3>1 DEF Waiting
    <2> QED BY <2>2, <2>3, <2>4, <2>5, <2>6, MarksFrame DEF Carried
  <1> QED BY <1>1, <1>2

(* A worker goes on with its task.                                         *)
LEMMA WorkerGoesOn ==
  ASSUME Typed, Marks, NEW w \in Workers, NEW pc \in WorkerPCs,
         UNCHANGED <<jobs, ingress>>, \A v \in Workers : Kept(v)' = Kept(v),
         \A v \in Workers \ {w} : worker'[v].pc = worker[v].pc /\ worker'[v].task = worker[v].task,
         worker'[w].pc = pc, Untied' \subseteq Untied,
         \A q \in Untied' : worker[w].pc \in Bearing /\ worker[w].task.packet = q
                            => pc \in Bearing /\ worker'[w].task = worker[w].task,
         \A q \in Untied' : Taking(q.lane)' => Taking(q.lane)
  PROVE  Marks'
  <1>1. \A q \in Untied' : WorkedOn(q) => WorkedOn(q)'
    BY DEF WorkedOn
  <1>2. \A q : (Dispatched(q) => Dispatched(q)') /\ (Waiting(q) => Waiting(q)')
    BY DEF Dispatched, Waiting
  <1> QED BY <1>1, <1>2, MarksFrame DEF Carried

LEMMA WorkerMarks ==
  ASSUME Typed, WorkersAreCounted, Marks, NEW w \in Workers, WorkerNext(w)
  PROVE  Marks'
  <1>0. worker \in [Workers -> Shape]
    BY DEF Typed
  <1>1. CASE Receive(w)
    <2>1. /\ jobs[w] \in Seq(TaskT) /\ jobs[w] # << >> /\ jobs'[w] = Tail(jobs[w]) /\ ~Busy(w)
          /\ worker'[w].pc = "held" /\ worker'[w].task = Head(jobs[w])
          /\ \A v \in Workers \ {w} : worker'[v] = worker[v] /\ jobs'[v] = jobs[v]
      BY <1>1, Received, CountsAreNat
    <2>2. Range(jobs[w]) = Range(jobs'[w]) \cup {worker'[w].task}
      BY <2>1, ShorterQueue
    <2>3. UNCHANGED <<deferredInflight, raced, ingress, compaction>>
      BY <1>1 DEF Receive
    <2>4. \A l : Taking(l)' => Taking(l)
      BY <2>1, <2>3 DEF Taking, LaneOf, MutexFree
    <2>5. \A v \in Workers : Kept(v)' = Kept(v)
      BY <2>3 DEF Kept, MutexFree
    <2>6. \A q : Waiting(q) => Waiting(q)' \/ WorkedOn(q)'
      <3>1. \A v \in Workers : \A t \in Range(jobs[v]) \cup Range(Kept(v)) :
              \/ t \in Range(jobs'[v]) \cup Range(Kept(v)')
              \/ v = w /\ t = worker'[w].task
        BY <2>1, <2>2, <2>5
      <3> QED BY <2>1, <3>1 DEF Waiting, WorkedOn, Bearing
    <2>7. \A q : (Dispatched(q) => Dispatched(q)') /\ (WorkedOn(q) => WorkedOn(q)')
      BY <2>1, <2>3 DEF Dispatched, WorkedOn, Busy, Bearing
    <2>8. Untied' = Untied
      BY <2>3 DEF Untied
    <2> QED BY <2>4, <2>6, <2>7, <2>8, MarksFrame DEF Carried
  <1>2. CASE BeginTask(w)
    <2> DEFINE dead == LaneOf(w) \in cancelled
    <2>1. \A d : \A s \in Shape : LET r == [s EXCEPT !.pc = "begun", !.ctxErr = d]
                              IN r.task = s.task /\ r.pc = "begun"
      BY DEF Shape
    <2>2. worker' = [worker EXCEPT ![w] = [worker[w] EXCEPT !.pc = "begun", !.ctxErr = dead]]
      BY <1>2 DEF BeginTask
    <2>3. /\ worker'[w].pc = "begun" /\ worker'[w].task = worker[w].task
          /\ \A v \in Workers \ {w} : worker'[v] = worker[v]
      <3> HIDE DEF dead
      <3> QED BY <1>0, <2>1, <2>2
    <2>4. UNCHANGED <<jobs, ingress, compaction, deferredInflight, raced>>
      BY <1>2 DEF BeginTask
    <2>5. \A v \in Workers : Kept(v)' = Kept(v)
      BY <2>4 DEF Kept, MutexFree
    <2>6. Untied' = Untied /\ \A l : Taking(l)' => Taking(l)
      BY <2>3, <2>4 DEF Untied, Taking, LaneOf, MutexFree
    <2>7. "begun" \in WorkerPCs /\ "begun" \in Bearing
      BY DEF WorkerPCs, Bearing
    <2> QED BY <2>3, <2>4, <2>5, <2>6, <2>7, WorkerGoesOn
  <1>3. ASSUME NEW pc \in WorkerPCs, Goto(w, pc)
        PROVE  /\ worker'[w].pc = pc /\ worker'[w].task = worker[w].task
               /\ \A v \in Workers \ {w} : worker'[v] = worker[v]
    BY <1>0, <1>3, WorkerGoes
  <1>4. CASE StartHandler(w)
    <2>1. Goto(w, "handling") /\ "handling" \in WorkerPCs /\ "handling" \in Bearing
      BY <1>4 DEF StartHandler, WorkerPCs, Bearing
    <2>2. UNCHANGED <<jobs, ingress, compaction, deferredInflight, raced>>
      BY <1>4 DEF StartHandler, pool
    <2>3. \A v \in Workers : Kept(v)' = Kept(v)
      BY <2>2 DEF Kept, MutexFree
    <2>4. Untied' = Untied /\ \A l : Taking(l)' => Taking(l)
      BY <1>3, <2>1, <2>2 DEF Untied, Taking, LaneOf, MutexFree
    <2> QED BY <1>3, <2>1, <2>2, <2>3, <2>4, WorkerGoesOn
  <1>5. CASE Return(w)
    <2>1. Goto(w, "returned") /\ "returned" \in WorkerPCs
      BY <1>5 DEF Return, WorkerPCs
    <2>2. UNCHANGED <<jobs, ingress, compaction>>
      BY <1>5 DEF Return, pool
    <2>3. \A v \in Workers : Kept(v)' = Kept(v)
      BY <2>2 DEF Kept, MutexFree
    <2>4. Untied' = Untied \ {worker[w].task.packet}
      BY <1>5 DEF Return, UntrackPacket, Untied
    <2>5. \A l : Taking(l)' => Taking(l)
      BY <1>3, <2>1, <2>2 DEF Taking, LaneOf, MutexFree
    <2> QED BY <1>3, <2>1, <2>2, <2>3, <2>4, <2>5, WorkerGoesOn
  <1>6. CASE FinalizeStream(w)
    <2>1. Goto(w, "finalizing") /\ "finalizing" \in WorkerPCs /\ "finalizing" \in Bearing
      BY <1>6 DEF FinalizeStream, WorkerPCs, Bearing
    <2>2. UNCHANGED <<jobs, ingress, compaction>>
      BY <1>6 DEF FinalizeStream, pool
    <2>3. \A v \in Workers : Kept(v)' = Kept(v)
      BY <2>2 DEF Kept, MutexFree
    <2>4. \A q \in Untied' : q \in Untied /\ q.lane # LaneOf(w)
      BY <1>6 DEF FinalizeStream, Untrack, Untied
    <2>5. \A v \in Workers : LaneOf(v)' = LaneOf(v)
      BY <1>3, <2>1 DEF LaneOf
    <2>6. \A l : Taking(l)' => Taking(l) \/ l = LaneOf(w)
      BY <1>3, <2>1, <2>2, <2>5 DEF Taking, MutexFree
    <2> QED BY <1>3, <2>1, <2>2, <2>3, <2>4, <2>6, WorkerGoesOn
  <1>7. CASE FinalizeLane(w)
    <2>1. /\ worker[w].pc = "finalizing" /\ Goto(w, "locked") /\ "locked" \in WorkerPCs
          /\ "locked" \in Bearing /\ MutexFree /\ compaction' = Compacting(w, {LaneOf(w)})
      BY <1>7 DEF FinalizeLane, WorkerPCs, Bearing
    <2>2. UNCHANGED <<jobs, ingress, deferredInflight, raced>>
      BY <1>7 DEF FinalizeLane
    <2>3. compaction'.drop = {LaneOf(w)} /\ compaction'.kept = << >>
      BY <2>1 DEF Compacting
    <2>4. \A v \in Workers : Kept(v)' = Kept(v)
      BY <2>1, <2>3 DEF Kept
    <2>5. \A v \in Workers : LaneOf(v)' = LaneOf(v)
      BY <1>3, <2>1 DEF LaneOf
    <2>6. Untied' = Untied /\ \A l : Taking(l)' => Taking(l)
      BY <1>3, <2>1, <2>2, <2>3, <2>5 DEF Untied, Taking
    <2> QED BY <1>3, <2>1, <2>2, <2>4, <2>6, WorkerGoesOn
  <1>8. CASE Unpend(w)
    <2>1. worker[w].pc = "returned" /\ Goto(w, "unpended") /\ "unpended" \in WorkerPCs
      BY <1>8 DEF Unpend, WorkerPCs
    <2>2. UNCHANGED <<jobs, ingress, compaction, deferredInflight, raced>>
      BY <1>8 DEF Unpend
    <2>3. \A v \in Workers : Kept(v)' = Kept(v)
      BY <2>2 DEF Kept, MutexFree
    <2>4. Untied' = Untied /\ \A l : Taking(l)' => Taking(l)
      BY <1>3, <2>1, <2>2 DEF Untied, Taking, LaneOf, MutexFree
    <2>5. worker[w].pc \notin Bearing
      BY <2>1 DEF Bearing
    <2> QED BY <1>3, <2>1, <2>2, <2>3, <2>4, <2>5, WorkerGoesOn
  <1>9. CASE FinishLane(w)
    <2>1. /\ worker[w].pc = "unpended" /\ worker'[w].pc = "idle"
          /\ \A v \in Workers \ {w} : /\ worker'[v].pc = worker[v].pc
                                      /\ worker'[v].task = worker[v].task
      BY <1>9, LaneFinished
    <2>2. UNCHANGED <<jobs, ingress, compaction, deferredInflight, raced>>
      BY <1>9 DEF FinishLane
    <2>3. \A v \in Workers : Kept(v)' = Kept(v)
      BY <2>2 DEF Kept, MutexFree
    <2>4. \A v \in Workers \ {w} : LaneOf(v)' = LaneOf(v)
      BY <2>1 DEF LaneOf
    <2>5. Untied' = Untied /\ \A l : Taking(l)' => Taking(l)
      BY <2>1, <2>2, <2>4 DEF Untied, Taking, MutexFree
    <2>6. worker[w].pc \notin Bearing /\ "idle" \in WorkerPCs
      BY <2>1 DEF Bearing, WorkerPCs
    <2> QED BY <2>1, <2>2, <2>3, <2>5, <2>6, WorkerGoesOn
  <1> QED BY <1>1, <1>2, <1>4, <1>5, <1>6, <1>7, <1>8, <1>9 DEF WorkerNext

-----------------------------------------------------------------------------
(* Tasks are in one place each: a queue, the kept tasks of a removal, or   *)
(* the hands of a worker; and they are numbered from those accepted.       *)

At(w) == Range(jobs[w]) \cup Range(Kept(w))

QueueIsSound(w) ==
  /\ Once(jobs[w]) /\ Once(Kept(w))
  /\ \A t \in Range(jobs[w]) : t \notin Range(Kept(w))

Apart ==
  /\ \A w \in Workers : QueueIsSound(w)
  /\ \A v, w \in Workers : v # w => \A t \in At(v) : t \notin At(w)
  /\ \A v, w \in Workers : Busy(w) => worker[w].task \notin At(v)
  /\ \A v, w \in Workers : v # w /\ Busy(v) /\ Busy(w) => worker[v].task # worker[w].task
  /\ \A w \in Workers : \A t \in At(w) : t.n <= accepted
  /\ \A w \in Workers : Busy(w) => worker[w].task.n <= accepted

LEMMA ApartAtFirst == Init => Apart
  BY EmptyQueue DEF Init, Apart, QueueIsSound, At, Kept, MutexFree, Busy

LEMMA ApartShrinks ==
  ASSUME Apart, UNCHANGED accepted,
         \A w \in Workers : QueueIsSound(w)' /\ At(w)' \subseteq At(w),
         \A w \in Workers : Busy(w)' => Busy(w) /\ worker'[w].task = worker[w].task
  PROVE  Apart'
  BY DEF Apart

LEMMA ApartSame ==
  ASSUME Apart, UNCHANGED <<accepted, jobs>>, \A w \in Workers : Kept(w)' = Kept(w),
         \A w \in Workers : Busy(w)' => Busy(w) /\ worker'[w].task = worker[w].task
  PROVE  Apart'
  <1>1. \A w \in Workers : QueueIsSound(w)' /\ At(w)' \subseteq At(w)
    BY DEF Apart, QueueIsSound, At
  <1> QED BY <1>1, ApartShrinks

LEMMA TasksAreTyped ==
  ASSUME Typed, NEW w \in Workers, NEW t \in At(w)
  PROVE  t \in TaskT
  <1>1. jobs[w] \in Seq(TaskT) /\ Kept(w) \in Seq(TaskT)
    BY CountsAreNat
  <1>2. \A q \in Seq(TaskT) : Range(q) \subseteq TaskT
    BY DEF Range
  <1> QED BY <1>1, <1>2 DEF At

LEMMA EnqueueApart ==
  ASSUME Typed, WorkersAreCounted, Apart, NEW i \in Ingress, Enqueue(i)
  PROVE  Apart'
  <1> DEFINE p == ingress[i].packet
  <1>1. EnqueueMarked(i)
    BY DEF Enqueue
  <1>2. MutexFree /\ UNCHANGED <<worker, compaction>>
    BY <1>1, Enqueued
  <1>3. \A v \in Workers : Kept(v)' = Kept(v) /\ Busy(v)' = Busy(v)
    BY <1>2 DEF Kept, MutexFree, Busy
  <1>4. CASE UNCHANGED <<jobs, accepted>>
    BY <1>2, <1>3, <1>4, ApartSame
  <1>5. CASE ~UNCHANGED <<jobs, accepted>>
    <2>1. PICK t \in TaskT : t = [packet |-> p, n |-> accepted + 1]
      BY <1>1, Enqueued
    <2>2. t.n = accepted + 1 /\ accepted \in Nat /\ accepted' = accepted + 1
      BY <1>1, <1>5, <2>1, Enqueued DEF Typed
    <2>3. PICK w \in Workers :
            /\ jobs'[w] = Append(jobs[w], t)
            /\ \A v \in Workers \ {w} : jobs'[v] = jobs[v]
            /\ Range(jobs'[w]) = Range(jobs[w]) \cup {t}
      BY <1>1, <1>5, <2>1, Enqueued
    <2>4. \A v \in Workers : t \notin At(v) /\ (Busy(v) => worker[v].task # t)
      BY <2>2 DEF Apart
    <2>5. At(w)' = At(w) \cup {t} /\ \A v \in Workers \ {w} : At(v)' = At(v)
      BY <1>3, <2>3 DEF At
    <2>6. \A v \in Workers : QueueIsSound(v)'
      <3>1. jobs[w] \in Seq(TaskT)
        BY DEF Typed
      <3>2. Once(jobs'[w])
        BY <2>3, <2>4, <3>1, AppendedQueue DEF Apart, QueueIsSound, At
      <3>3. \A v \in Workers : QueueIsSound(v) /\ Kept(v)' = Kept(v)
        BY <1>3 DEF Apart
      <3>4. QueueIsSound(w)'
        <4>1. t \notin Range(Kept(w))
          BY <2>4 DEF At
        <4> QED BY <2>3, <3>2, <3>3, <4>1 DEF QueueIsSound
      <3>5. ASSUME NEW v \in Workers \ {w} PROVE QueueIsSound(v)'
        BY <2>3, <3>3 DEF QueueIsSound
      <3> QED BY <3>4, <3>5
    <2>7. \A n \in Nat : n <= accepted => n <= accepted'
      BY <2>2
    <2>8. \A v \in Workers : \A u \in At(v) : u.n <= accepted'
      <3>1. \A v \in Workers : \A u \in At(v) : u.n \in Nat
        BY TasksAreTyped DEF TaskT
      <3> QED BY <2>7, <3>1 DEF Apart
    <2>9. \A v \in Workers : Busy(v) => worker[v].task.n <= accepted'
      <3>1. \A v \in Workers : Busy(v) => worker[v].task.n \in Nat
        BY DEF Typed, TaskT
      <3> QED BY <2>7, <3>1 DEF Apart
    <2>10. t.n <= accepted'
      BY <2>2
    <2> QED BY <1>2, <1>3, <2>4, <2>5, <2>6, <2>8, <2>9, <2>10 DEF Apart
  <1> QED BY <1>4, <1>5

LEMMA CompactApart ==
  ASSUME Typed, WorkersAreCounted, Apart, CompactTake \/ CompactPutBack
  PROVE  Apart'
  <1>1. CASE CompactTake
    <2>1. PICK c \in Workers, t \in TaskT :
           /\ ~MutexFree /\ c = compaction.at
           /\ Range(jobs[c]) = Range(jobs'[c]) \cup {t}
           /\ Once(jobs[c]) => Once(jobs'[c]) /\ t \notin Range(jobs'[c])
           /\ \A v \in Workers \ {c} : jobs'[v] = jobs[v]
           /\ UNCHANGED <<worker, accepted>>
           /\ \/ UNCHANGED compaction
              \/ /\ compaction'.at = c /\ (~MutexFree)' /\ compaction.kept \in Seq(TaskT)
                 /\ compaction'.kept = Append(compaction.kept, t)
                 /\ Range(compaction'.kept) = Range(compaction.kept) \cup {t}
      BY <1>1, Taken
    <2>2. \A v \in Workers : Busy(v)' = Busy(v) /\ worker'[v].task = worker[v].task
      BY <2>1 DEF Busy
    <2>3. CASE UNCHANGED compaction
      <3>1. \A v \in Workers : Kept(v)' = Kept(v)
        BY <2>3 DEF Kept, MutexFree
      <3>2. \A v \in Workers : QueueIsSound(v)' /\ At(v)' \subseteq At(v)
        BY <2>1, <3>1 DEF Apart, QueueIsSound, At
      <3> QED BY <2>1, <2>2, <3>2, ApartShrinks
    <2>4. CASE ~UNCHANGED compaction
      <3>1. \A v \in Workers \ {c} : Kept(v)' = Kept(v)
        BY <2>1, <2>4 DEF Kept
      <3>2. /\ Kept(c) \in Seq(TaskT) /\ Kept(c)' = Append(Kept(c), t)
            /\ Range(Kept(c)') = Range(Kept(c)) \cup {t}
        BY <2>1, <2>4 DEF Kept
      <3>3. t \notin Range(Kept(c)) /\ t \notin Range(jobs'[c])
        BY <2>1 DEF Apart, QueueIsSound
      <3>4. Once(Kept(c)')
        BY <3>2, <3>3, AppendedQueue DEF Apart, QueueIsSound
      <3>5. \A v \in Workers : QueueIsSound(v)' /\ At(v)' \subseteq At(v)
        <4>1. \A v \in Workers : QueueIsSound(v)
          BY DEF Apart
        <4>2. QueueIsSound(c)' /\ At(c)' \subseteq At(c)
          BY <2>1, <3>2, <3>3, <3>4, <4>1 DEF QueueIsSound, At
        <4>3. ASSUME NEW v \in Workers \ {c} PROVE QueueIsSound(v)' /\ At(v)' \subseteq At(v)
          BY <2>1, <3>1, <4>1 DEF QueueIsSound, At
        <4> QED BY <4>2, <4>3
      <3> QED BY <2>1, <2>2, <3>5, ApartShrinks
    <2> QED BY <2>3, <2>4
  <1>2. CASE CompactPutBack
    <2>1. PICK c \in Workers :
           /\ ~MutexFree /\ c = compaction.at
           /\ jobs'[c] = compaction.kept
           /\ \A v \in Workers \ {c} : jobs'[v] = jobs[v]
           /\ UNCHANGED accepted
           /\ \A v \in Workers : /\ worker'[v].task = worker[v].task
                                 /\ \/ worker'[v].pc = worker[v].pc
                                    \/ worker'[v].pc = "ending" /\ worker[v].pc = "locked"
           /\ \/ compaction' = Free
              \/ (~MutexFree)' /\ compaction'.kept = << >>
      BY <1>2, PutBack
    <2>2. \A v \in Workers : Busy(v)' => Busy(v) /\ worker'[v].task = worker[v].task
      BY <2>1 DEF Busy
    <2>3. \A v \in Workers : Kept(v)' = << >>
      BY <2>1 DEF Kept, MutexFree
    <2>4. jobs'[c] = Kept(c)
      BY <2>1 DEF Kept
    <2>5. ASSUME NEW v \in Workers PROVE QueueIsSound(v)' /\ At(v)' \subseteq At(v)
      <3>1. QueueIsSound(v) /\ Kept(v)' = << >> /\ Range(<< >>) = {} /\ Once(<< >>)
        BY <2>3, EmptyQueue DEF Apart
      <3>2. jobs'[v] = jobs[v] \/ jobs'[v] = Kept(v)
        BY <2>1, <2>4
      <3> QED BY <3>1, <3>2 DEF QueueIsSound, At
    <2> QED BY <2>1, <2>2, <2>5, ApartShrinks
  <1> QED BY <1>1, <1>2

LEMMA ReceiveApart ==
  ASSUME Typed, WorkersAreCounted, Apart, NEW w \in Workers, Receive(w)
  PROVE  Apart'
  <1>1. /\ jobs[w] \in Seq(TaskT) /\ jobs[w] # << >> /\ jobs'[w] = Tail(jobs[w]) /\ ~Busy(w)
        /\ worker'[w].pc = "held" /\ worker'[w].task = Head(jobs[w])
        /\ \A v \in Workers \ {w} : worker'[v] = worker[v] /\ jobs'[v] = jobs[v]
    BY Received, CountsAreNat
  <1>2. UNCHANGED <<compaction, accepted>>
    BY DEF Receive
  <1>3. \A v \in Workers : Kept(v)' = Kept(v)
    BY <1>2 DEF Kept, MutexFree
  <1>4. PICK t \in TaskT : t = Head(jobs[w])
    BY <1>1, ShorterQueue
  <1>5. /\ Range(jobs[w]) = Range(jobs'[w]) \cup {t}
        /\ Once(jobs'[w]) /\ t \notin Range(jobs'[w])
    BY <1>1, <1>4, ShorterQueue DEF Apart, QueueIsSound
  <1>6. t \in At(w) /\ t \notin At(w)' /\ At(w)' \subseteq At(w)
    BY <1>3, <1>5 DEF Apart, QueueIsSound, At
  <1>7. \A v \in Workers \ {w} : At(v)' = At(v) /\ t \notin At(v)'
    BY <1>1, <1>3, <1>6 DEF Apart, At
  <1>8. \A v \in Workers : QueueIsSound(v)'
    BY <1>1, <1>3, <1>5 DEF Apart, QueueIsSound
  <1>9. \A v \in Workers \ {w} : /\ Busy(v)' = Busy(v) /\ worker'[v].task = worker[v].task
                                 /\ Busy(v) => worker[v].task # t
    BY <1>1, <1>6 DEF Busy, Apart
  <1> QED BY <1>1, <1>2, <1>4, <1>6, <1>7, <1>8, <1>9 DEF Apart

(* Of a worker's steps only Receive touches a queue.                       *)
LEMMA WorkerKeepsPlaces ==
  ASSUME Typed, NEW w \in Workers, WorkerNext(w), ~Receive(w)
  PROVE  /\ UNCHANGED <<jobs, accepted>>
         /\ \A v \in Workers : Kept(v)' = Kept(v)
         /\ \A v \in Workers : Busy(v)' => Busy(v) /\ worker'[v].task = worker[v].task
         /\ ~FinishLane(w) => /\ UNCHANGED sessionPending
                              /\ \A v \in Workers : Busy(v)' = Busy(v)
  <1>0. worker \in [Workers -> Shape]
    BY DEF Typed
  <1>1. UNCHANGED <<jobs, accepted>>
    BY DEF WorkerNext, BeginTask, StartHandler, Return, FinalizeStream, FinalizeLane, Unpend,
           FinishLane, pool
  <1>2. \A v \in Workers : Kept(v)' = Kept(v)
    <2>1. CASE FinalizeLane(w)
      <3>1. MutexFree /\ compaction' = Compacting(w, {LaneOf(w)})
        BY <2>1 DEF FinalizeLane
      <3>2. compaction'.kept = << >>
        BY <3>1 DEF Compacting
      <3> QED BY <3>1, <3>2 DEF Kept
    <2>2. CASE ~FinalizeLane(w)
      <3>1. UNCHANGED compaction
        BY <2>2 DEF WorkerNext, BeginTask, StartHandler, Return, FinalizeStream, Unpend, FinishLane
      <3> QED BY <3>1 DEF Kept, MutexFree
    <2> QED BY <2>1, <2>2
  <1>3. CASE FinishLane(w)
    BY <1>1, <1>2, <1>3, LaneFinished DEF Busy
  <1>4. CASE BeginTask(w)
    <2> DEFINE dead == LaneOf(w) \in cancelled
    <2>1. \A d : \A s \in Shape : LET r == [s EXCEPT !.pc = "begun", !.ctxErr = d]
                                 IN r.task = s.task /\ r.pc = "begun"
      BY DEF Shape
    <2>2. worker' = [worker EXCEPT ![w] = [worker[w] EXCEPT !.pc = "begun", !.ctxErr = dead]]
          /\ worker[w].pc = "held" /\ UNCHANGED sessionPending
      BY <1>4 DEF BeginTask
    <2>3. /\ worker'[w].pc = "begun" /\ worker'[w].task = worker[w].task
          /\ \A v \in Workers \ {w} : worker'[v] = worker[v]
      <3> HIDE DEF dead
      <3> QED BY <1>0, <2>1, <2>2
    <2> QED BY <1>1, <1>2, <2>2, <2>3 DEF Busy
  <1>5. CASE ~FinishLane(w) /\ ~BeginTask(w)
    <2>1. \E pc \in WorkerPCs \ {"idle"} : Goto(w, pc)
      BY <1>5 DEF WorkerNext, StartHandler, Return, FinalizeStream, FinalizeLane, Unpend, WorkerPCs
    <2>2. worker[w].pc # "idle" /\ UNCHANGED sessionPending
      BY <1>5 DEF WorkerNext, StartHandler, Return, FinalizeStream, FinalizeLane, Unpend, pool
    <2>3. PICK pc \in WorkerPCs \ {"idle"} : Goto(w, pc)
      BY <2>1
    <2>4. /\ worker'[w].pc = pc /\ worker'[w].task = worker[w].task
          /\ \A v \in Workers \ {w} : worker'[v] = worker[v]
      BY <1>0, <2>3, WorkerGoes
    <2> QED BY <1>1, <1>2, <2>2, <2>4 DEF Busy
  <1> QED BY <1>3, <1>4, <1>5

LEMMA ApartStep ==
  ASSUME Typed, WorkersAreCounted, Apart, Next
  PROVE  Apart'
  <1>1. ASSUME NEW i \in Ingress, IngressNext(i) PROVE Apart'
    <2>1. CASE Enqueue(i)
      BY <2>1, EnqueueApart
    <2>2. CASE RemoveLanes(i)
      <3>1. /\ MutexFree /\ compaction' = Compacting(i, ingress[i].lanes)
            /\ UNCHANGED <<jobs, accepted>>
        BY <2>2 DEF RemoveLanes
      <3>2. \A v \in Workers : worker'[v].pc = worker[v].pc /\ worker'[v].task = worker[v].task
        BY <2>2, RemovalCancels
      <3>3. compaction'.kept = << >>
        BY <3>1 DEF Compacting
      <3>4. \A v \in Workers : Kept(v)' = Kept(v)
        BY <3>1, <3>3 DEF Kept
      <3> QED BY <3>1, <3>2, <3>4, ApartSame DEF Busy
    <2>3. CASE ~Enqueue(i) /\ ~RemoveLanes(i)
      <3>1. UNCHANGED <<jobs, worker, compaction, accepted>>
        BY <1>1, <2>3
        DEF IngressNext, BeginDispatch, GiveUp, ClearStream, ClearSession, pool
      <3>2. \A v \in Workers : Kept(v)' = Kept(v) /\ (Busy(v)' => Busy(v))
        BY <3>1 DEF Kept, MutexFree, Busy
      <3> QED BY <3>1, <3>2, ApartSame
    <2> QED BY <2>1, <2>2, <2>3
  <1>2. CASE CompactNext
    BY <1>2, CompactApart DEF CompactNext
  <1>3. ASSUME NEW w \in Workers, WorkerNext(w) PROVE Apart'
    <2>1. CASE Receive(w)
      BY <2>1, ReceiveApart
    <2>2. CASE ~Receive(w)
      BY <1>3, <2>2, WorkerKeepsPlaces, ApartSame
    <2> QED BY <2>1, <2>2
  <1> QED BY <1>1, <1>2, <1>3 DEF Next

-----------------------------------------------------------------------------
(* Sessions are counted.                                                   *)

Live == Queued \cup Held
Of(L, s) == {t \in L : TaskLane(t)[1] = s}

SessionsAreCounted ==
  /\ IsFiniteSet(Live)
  /\ sessionPending \in [Sessions -> Nat]
  /\ \A s \in Sessions : sessionPending[s] = Cardinality(Of(Live, s))

LEMMA LiveMeans ==
  \A t : t \in Live <=> \/ \E w \in Workers : t \in At(w)
                        \/ \E w \in Workers : Busy(w) /\ worker[w].task = t
  <1>1. \A t : t \in Queued <=> \E w \in Workers : t \in At(w)
    BY DEF Queued, At
  <1>2. \A t : t \in Held <=> \E w \in Workers : Busy(w) /\ worker[w].task = t
    BY DEF Held
  <1> QED BY <1>1, <1>2 DEF Live

LEMMA LiveMeansNext ==
  \A t : t \in Live' <=> \/ \E w \in Workers : t \in At(w)'
                         \/ \E w \in Workers : Busy(w)' /\ worker'[w].task = t
  <1>1. \A t : t \in Queued' <=> \E w \in Workers : t \in At(w)'
    BY DEF Queued, At
  <1>2. \A t : t \in Held' <=> \E w \in Workers : Busy(w)' /\ worker'[w].task = t
    BY DEF Held
  <1> QED BY <1>1, <1>2 DEF Live

LEMMA OneMore ==
  ASSUME NEW L, IsFiniteSet(L), NEW t, t \notin L, NEW s
  PROVE  /\ IsFiniteSet(L \cup {t}) /\ Cardinality(Of(L, s)) \in Nat
         /\ Cardinality(Of(L \cup {t}, s)) =
              IF TaskLane(t)[1] = s THEN Cardinality(Of(L, s)) + 1 ELSE Cardinality(Of(L, s))
  <1>1. IsFiniteSet(L \cup {t})
    BY FS_AddElement
  <1>2. IsFiniteSet(Of(L, s)) /\ Cardinality(Of(L, s)) \in Nat
    <2>1. Of(L, s) \subseteq L
      BY DEF Of
    <2> QED BY <2>1, FS_Subset, FS_CardinalityType
  <1>3. CASE TaskLane(t)[1] = s
    <2>1. Of(L \cup {t}, s) = Of(L, s) \cup {t} /\ t \notin Of(L, s)
      BY <1>3 DEF Of
    <2> QED BY <1>1, <1>2, <1>3, <2>1, FS_AddElement
  <1>4. CASE TaskLane(t)[1] # s
    <2>1. Of(L \cup {t}, s) = Of(L, s)
      BY <1>4 DEF Of
    <2> QED BY <1>1, <1>2, <1>4, <2>1
  <1> QED BY <1>3, <1>4

LEMMA CountsGrow ==
  ASSUME SessionsAreCounted, NEW t, t \notin Live, TaskLane(t)[1] \in Sessions,
         Live' = Live \cup {t},
         sessionPending' = [sessionPending EXCEPT ![TaskLane(t)[1]] = @ + 1]
  PROVE  SessionsAreCounted'
  <1>1. IsFiniteSet(Live')
    BY FS_AddElement DEF SessionsAreCounted
  <1>2. ASSUME NEW s \in Sessions PROVE sessionPending'[s] = Cardinality(Of(Live', s))
                                        /\ sessionPending'[s] \in Nat
    <2>1. /\ Cardinality(Of(Live, s)) \in Nat
          /\ Cardinality(Of(Live', s)) =
              IF TaskLane(t)[1] = s THEN Cardinality(Of(Live, s)) + 1 ELSE Cardinality(Of(Live, s))
      BY OneMore DEF SessionsAreCounted
    <2>2. sessionPending'[s] =
            IF TaskLane(t)[1] = s THEN sessionPending[s] + 1 ELSE sessionPending[s]
      BY DEF SessionsAreCounted
    <2>3. sessionPending[s] = Cardinality(Of(Live, s))
      BY DEF SessionsAreCounted
    <2> QED BY <2>1, <2>2, <2>3
  <1>3. sessionPending' \in [Sessions -> Nat]
    BY <1>2 DEF SessionsAreCounted
  <1> QED BY <1>1, <1>2, <1>3 DEF SessionsAreCounted, Of

LEMMA CountsFall ==
  ASSUME SessionsAreCounted, NEW t, t \in Live, TaskLane(t)[1] \in Sessions,
         Live' = Live \ {t}, Release(TaskLane(t)[1])
  PROVE  SessionsAreCounted'
  <1>1. IsFiniteSet(Live') /\ t \notin Live' /\ Live = Live' \cup {t}
    BY FS_RemoveElement DEF SessionsAreCounted
  <1>2. ASSUME NEW s \in Sessions PROVE sessionPending'[s] = Cardinality(Of(Live', s))
                                        /\ sessionPending'[s] \in Nat
    <2>1. /\ Cardinality(Of(Live', s)) \in Nat
          /\ Cardinality(Of(Live, s)) =
              IF TaskLane(t)[1] = s THEN Cardinality(Of(Live', s)) + 1 ELSE Cardinality(Of(Live', s))
      <3> DEFINE M == Live \ {t}
      <3>1. IsFiniteSet(M) /\ t \notin M /\ Live = M \cup {t} /\ Live' = M
        BY <1>1
      <3> HIDE DEF M
      <3>2. /\ Cardinality(Of(M, s)) \in Nat
            /\ Cardinality(Of(M \cup {t}, s)) =
                 IF TaskLane(t)[1] = s THEN Cardinality(Of(M, s)) + 1 ELSE Cardinality(Of(M, s))
        BY ZenonT(60), <3>1, OneMore
      <3> QED BY <3>1, <3>2
    <2>2. sessionPending'[s] =
            IF TaskLane(t)[1] = s
            THEN IF sessionPending[s] > 1 THEN sessionPending[s] - 1 ELSE 0
            ELSE sessionPending[s]
      BY DEF SessionsAreCounted, Release
    <2>3. sessionPending[s] = Cardinality(Of(Live, s))
      BY DEF SessionsAreCounted
    <2> QED BY <2>1, <2>2, <2>3
  <1>3. sessionPending' \in [Sessions -> Nat]
    BY <1>2 DEF SessionsAreCounted, Release
  <1> QED BY <1>1, <1>2, <1>3 DEF SessionsAreCounted, Of

LEMMA CountsStay ==
  ASSUME SessionsAreCounted, UNCHANGED sessionPending,
         \A t : t \in Live' <=> t \in Live
  PROVE  SessionsAreCounted'
  <1>1. Live' = Live
    OBVIOUS
  <1>2. \A s : Of(Live', s) = Of(Live, s)
    BY <1>1
  <1> QED BY <1>1, <1>2 DEF SessionsAreCounted, Of

LEMMA CountsAtFirst == Init => SessionsAreCounted
  <1> SUFFICES ASSUME Init PROVE SessionsAreCounted
    OBVIOUS
  <1>1. \A w \in Workers : At(w) = {} /\ ~Busy(w)
    BY EmptyQueue DEF Init, At, Kept, MutexFree, Busy
  <1>2. Live = {}
    BY <1>1, LiveMeans
  <1>3. \A s \in Sessions : Of(Live, s) = {}
    BY <1>2 DEF Of
  <1> QED BY <1>2, <1>3, FS_EmptySet DEF SessionsAreCounted, Init

LEMMA IngressCounts ==
  ASSUME Typed, WorkersAreCounted, Apart, SessionsAreCounted, NEW i \in Ingress, IngressNext(i)
  PROVE  SessionsAreCounted'
  <1>1. CASE Enqueue(i)
    <2> DEFINE p == ingress[i].packet
    <2>1. EnqueueMarked(i)
      BY <1>1 DEF Enqueue
    <2>2. MutexFree /\ UNCHANGED <<worker, compaction>>
      BY <2>1, Enqueued
    <2>3. \A v \in Workers : Kept(v)' = Kept(v) /\ Busy(v)' = Busy(v)
      BY <2>2 DEF Kept, MutexFree, Busy
    <2>4. CASE UNCHANGED <<jobs, sessionPending>>
      <3>1. \A v \in Workers : At(v)' = At(v)
        BY <2>3, <2>4 DEF At
      <3> QED BY <2>2, <2>3, <2>4, <3>1, LiveMeans, LiveMeansNext, CountsStay
    <2>5. CASE ~UNCHANGED <<jobs, sessionPending>>
      <3>1. PICK t \in TaskT : t = [packet |-> p, n |-> accepted + 1]
        BY <2>1, Enqueued
      <3>2. t.n = accepted + 1 /\ accepted \in Nat /\ TaskLane(t) = p.lane
        BY <3>1 DEF Typed, TaskLane
      <3>3. PICK w \in Workers : /\ \A v \in Workers \ {w} : jobs'[v] = jobs[v]
                                 /\ Range(jobs'[w]) = Range(jobs[w]) \cup {t}
        BY <2>1, <2>5, <3>1, Enqueued
      <3>4. sessionPending' = [sessionPending EXCEPT ![TaskLane(t)[1]] = @ + 1]
        BY <2>1, <2>5, <3>2, Enqueued
      <3> HIDE DEF p
      <3>5. At(w)' = At(w) \cup {t} /\ \A v \in Workers \ {w} : At(v)' = At(v)
        BY <2>3, <3>3 DEF At
      <3>6. \A v \in Workers : t \notin At(v) /\ (Busy(v) => worker[v].task # t)
        BY <3>2 DEF Apart
      <3>7. t \notin Live
        BY <3>6, LiveMeans
      <3>8. \A u : u \in Live' <=> u \in Live \/ u = t
        BY <2>2, <2>3, <3>5, LiveMeans, LiveMeansNext
      <3>9. Live' = Live \cup {t}
        BY <3>8
      <3>10. TaskLane(t)[1] \in Sessions
        BY LaneOfTask
      <3> QED BY <3>4, <3>7, <3>9, <3>10, CountsGrow
    <2> QED BY <2>4, <2>5
  <1>2. CASE ~Enqueue(i)
    <2>1. UNCHANGED <<jobs, sessionPending>>
      BY <1>2 DEF IngressNext, BeginDispatch, GiveUp, ClearStream, ClearSession, RemoveLanes, pool
    <2>2. \A v \in Workers : /\ worker'[v].pc = worker[v].pc /\ worker'[v].task = worker[v].task
                             /\ Kept(v)' = Kept(v)
      <3>1. CASE RemoveLanes(i)
        <4>1. MutexFree /\ compaction' = Compacting(i, ingress[i].lanes)
          BY <3>1 DEF RemoveLanes
        <4>3. compaction'.kept = << >>
          BY <4>1 DEF Compacting
        <4>4. \A v \in Workers : Kept(v)' = Kept(v)
          BY <4>1, <4>3 DEF Kept
        <4> QED BY <3>1, <4>4, RemovalCancels
      <3>2. CASE ~RemoveLanes(i)
        <4>1. UNCHANGED <<worker, compaction>>
          BY <1>2, <3>2 DEF IngressNext, BeginDispatch, GiveUp, ClearStream, ClearSession
        <4> QED BY <4>1 DEF Kept, MutexFree
      <3> QED BY <3>1, <3>2
    <2>3. \A v \in Workers : At(v)' = At(v) /\ Busy(v)' = Busy(v)
      BY <2>1, <2>2 DEF At, Busy
    <2> QED BY <2>1, <2>2, <2>3, LiveMeans, LiveMeansNext, CountsStay
  <1> QED BY <1>1, <1>2

LEMMA CompactCounts ==
  ASSUME Typed, WorkersAreCounted, Apart, SessionsAreCounted, CompactTake \/ CompactPutBack
  PROVE  SessionsAreCounted'
  <1>1. CASE CompactTake
    <2>1. PICK c \in Workers, t \in TaskT :
           /\ ~MutexFree /\ c = compaction.at
           /\ Range(jobs[c]) = Range(jobs'[c]) \cup {t}
           /\ Once(jobs[c]) => Once(jobs'[c]) /\ t \notin Range(jobs'[c])
           /\ \A v \in Workers \ {c} : jobs'[v] = jobs[v]
           /\ UNCHANGED worker
           /\ \/ UNCHANGED compaction /\ Release(TaskLane(t)[1])
              \/ /\ compaction'.at = c /\ (~MutexFree)'
                 /\ Range(compaction'.kept) = Range(compaction.kept) \cup {t}
                 /\ UNCHANGED sessionPending
      BY <1>1, Taken
    <2>2. \A v \in Workers : Busy(v)' = Busy(v)
      BY <2>1 DEF Busy
    <2>3. CASE UNCHANGED compaction /\ Release(TaskLane(t)[1])
      <3>1. \A v \in Workers : Kept(v)' = Kept(v)
        BY <2>3 DEF Kept, MutexFree
      <3>2. t \in At(c) /\ At(c) = At(c)' \cup {t} /\ t \notin At(c)'
        BY <2>1, <3>1 DEF At, Apart, QueueIsSound
      <3>3. \A v \in Workers \ {c} : At(v)' = At(v) /\ t \notin At(v)
        BY <2>1, <3>1, <3>2 DEF At, Apart
      <3>4. \A v \in Workers : Busy(v) => worker[v].task # t
        BY <3>2 DEF Apart
      <3>5. t \in Live
        BY <3>2, LiveMeans
      <3>6. \A u : u \in Live' <=> u \in Live /\ u # t
        BY <2>1, <2>2, <3>2, <3>3, <3>4, LiveMeans, LiveMeansNext
      <3>7. Live' = Live \ {t}
        BY <3>6
      <3>8. TaskLane(t)[1] \in Sessions
        BY LaneOfTask
      <3> QED BY <2>3, <3>5, <3>7, <3>8, CountsFall
    <2>4. CASE /\ compaction'.at = c /\ (~MutexFree)'
               /\ Range(compaction'.kept) = Range(compaction.kept) \cup {t}
               /\ UNCHANGED sessionPending
      <3>1. \A v \in Workers \ {c} : Kept(v)' = Kept(v)
        BY <2>1, <2>4 DEF Kept
      <3>2. Range(Kept(c)') = Range(Kept(c)) \cup {t}
        BY <2>1, <2>4 DEF Kept
      <3>3. At(c)' = At(c) /\ \A v \in Workers \ {c} : At(v)' = At(v)
        BY <2>1, <3>1, <3>2 DEF At
      <3> QED BY <2>1, <2>2, <2>4, <3>3, LiveMeans, LiveMeansNext, CountsStay
    <2> QED BY <2>1, <2>3, <2>4
  <1>2. CASE CompactPutBack
    <2>1. PICK c \in Workers :
           /\ ~MutexFree /\ c = compaction.at
           /\ Range(jobs[c]) = {} /\ jobs'[c] = compaction.kept
           /\ \A v \in Workers \ {c} : jobs'[v] = jobs[v]
           /\ UNCHANGED sessionPending
           /\ \A v \in Workers : /\ worker'[v].task = worker[v].task
                                 /\ \/ worker'[v].pc = worker[v].pc
                                    \/ worker'[v].pc = "ending" /\ worker[v].pc = "locked"
           /\ \/ compaction' = Free
              \/ (~MutexFree)' /\ compaction'.kept = << >>
      BY <1>2, PutBack
    <2>2. \A v \in Workers : Busy(v)' = Busy(v)
      BY <2>1 DEF Busy
    <2>3. \A v \in Workers : Kept(v)' = << >>
      BY <2>1 DEF Kept, MutexFree
    <2>4. jobs'[c] = Kept(c) /\ \A v \in Workers \ {c} : Kept(v) = << >>
      BY <2>1 DEF Kept
    <2>5. At(c)' = At(c)
      BY <2>1, <2>3, <2>4, EmptyQueue DEF At
    <2>6. \A v \in Workers \ {c} : At(v)' = At(v)
      BY <2>1, <2>3, <2>4 DEF At
    <2> QED BY <2>1, <2>2, <2>5, <2>6, LiveMeans, LiveMeansNext, CountsStay
  <1> QED BY <1>1, <1>2

LEMMA WorkerCounts ==
  ASSUME Typed, WorkersAreCounted, Apart, SessionsAreCounted, NEW w \in Workers, WorkerNext(w)
  PROVE  SessionsAreCounted'
  <1>1. CASE Receive(w)
    <2>1. /\ jobs[w] \in Seq(TaskT) /\ jobs[w] # << >> /\ jobs'[w] = Tail(jobs[w]) /\ ~Busy(w)
          /\ worker'[w].pc = "held" /\ worker'[w].task = Head(jobs[w])
          /\ \A v \in Workers \ {w} : worker'[v] = worker[v] /\ jobs'[v] = jobs[v]
      BY <1>1, Received, CountsAreNat
    <2>2. PICK t : t = Head(jobs[w]) /\ Range(jobs[w]) = Range(jobs'[w]) \cup {t}
      BY <2>1, ShorterQueue
    <2>3. UNCHANGED <<compaction, sessionPending>>
      BY <1>1 DEF Receive
    <2>4. \A v \in Workers : Kept(v)' = Kept(v)
      BY <2>3 DEF Kept, MutexFree
    <2>5. At(w) = At(w)' \cup {t} /\ \A v \in Workers \ {w} : At(v)' = At(v)
      BY <2>1, <2>2, <2>4 DEF At
    <2>6. /\ Busy(w)' /\ worker'[w].task = t
          /\ \A v \in Workers \ {w} : Busy(v)' = Busy(v) /\ worker'[v].task = worker[v].task
      BY <2>1, <2>2 DEF Busy
    <2>7. \A u : u \in Live' <=> u \in Live
      BY <2>1, <2>5, <2>6, LiveMeans, LiveMeansNext
    <2> QED BY <2>3, <2>7, CountsStay
  <1>2. CASE FinishLane(w)
    <2>1. ~Receive(w) /\ Busy(w) /\ ~Busy(w)'
      BY <1>2, LaneFinished DEF Receive, Busy
    <2>2. /\ UNCHANGED jobs /\ \A v \in Workers : Kept(v)' = Kept(v)
          /\ \A v \in Workers : Busy(v)' => Busy(v) /\ worker'[v].task = worker[v].task
      BY <2>1, WorkerKeepsPlaces
    <2>3. \A v \in Workers \ {w} : Busy(v)' = Busy(v) /\ worker'[v].task = worker[v].task
      BY <1>2, LaneFinished DEF Busy
    <2>4. PICK t \in TaskT : t = worker[w].task
      BY <2>1, LaneHeld
    <2>5. \A v \in Workers : At(v)' = At(v) /\ t \notin At(v)
      BY <2>1, <2>2, <2>4 DEF At, Apart
    <2>6. \A v \in Workers \ {w} : Busy(v) => worker[v].task # t
      BY <2>1, <2>4 DEF Apart
    <2>7. t \in Live
      BY <2>1, <2>4, LiveMeans
    <2>8. \A u : u \in Live' <=> u \in Live /\ u # t
      BY <2>1, <2>3, <2>4, <2>5, <2>6, LiveMeans, LiveMeansNext
    <2>9. Live' = Live \ {t}
      BY <2>8
    <2>10. TaskLane(t)[1] \in Sessions /\ Release(TaskLane(t)[1])
      BY <1>2, <2>4, LaneOfTask DEF FinishLane, LaneOf
    <2> QED BY <2>7, <2>9, <2>10, CountsFall
  <1>3. CASE ~Receive(w) /\ ~FinishLane(w)
    <2>1. /\ UNCHANGED <<jobs, sessionPending>>
          /\ \A v \in Workers : /\ Kept(v)' = Kept(v) /\ Busy(v)' = Busy(v)
                                /\ Busy(v)' => worker'[v].task = worker[v].task
      BY <1>3, WorkerKeepsPlaces
    <2>2. \A v \in Workers : At(v)' = At(v)
      BY <2>1 DEF At
    <2>3. \A u : u \in Live' <=> u \in Live
      BY <2>1, <2>2, LiveMeans, LiveMeansNext
    <2> QED BY <2>1, <2>3, CountsStay
  <1> QED BY <1>1, <1>2, <1>3

-----------------------------------------------------------------------------
PoolInv ==
  /\ Typed /\ WorkersAreCounted
  /\ Swept
  /\ Marks
  /\ Apart /\ SessionsAreCounted

LEMMA PoolInvariant == Spec => []PoolInv
  <1>1. Init => PoolInv
    BY TypedAtFirst, SweptAtFirst, MarksAtFirst, ApartAtFirst, CountsAtFirst DEF PoolInv
  <1>2. PoolInv /\ [Next]_vars => PoolInv'
    <2> SUFFICES ASSUME PoolInv, [Next]_vars PROVE PoolInv'
      OBVIOUS
    <2>1. Typed' /\ WorkersAreCounted'
      BY TypedStep DEF PoolInv
    <2>2. CASE Next
      <3>1. Swept'
        BY <2>2, SweptStep DEF PoolInv
      <3>2. Marks'
        BY <2>2, IngressMarks, CompactMarks, WorkerMarks DEF PoolInv, Next, CompactNext
      <3>3. Apart'
        BY <2>2, ApartStep DEF PoolInv
      <3>4. SessionsAreCounted'
        BY <2>2, IngressCounts, CompactCounts, WorkerCounts DEF PoolInv, Next, CompactNext
      <3> QED BY <2>1, <3>1, <3>2, <3>3, <3>4 DEF PoolInv
    <2>3. CASE UNCHANGED vars
      <3>1. UNCHANGED <<jobs, cancelled, sessionPending, deferredInflight, worker, ingress,
                        compaction, accepted, raced>>
        BY <2>3 DEF vars, pool
      <3>2. \A v \in Workers : /\ Kept(v)' = Kept(v) /\ Busy(v)' = Busy(v)
                               /\ At(v)' = At(v) /\ LaneOf(v)' = LaneOf(v)
        BY <3>1 DEF Kept, MutexFree, Busy, At, LaneOf
      <3>3. Swept'
        BY <3>1, SweptFrame DEF PoolInv
      <3>4. Marks'
        <4>1. Untied' = Untied /\ \A l : Taking(l)' => Taking(l)
          BY <3>1, <3>2 DEF Untied, Taking, MutexFree
        <4>2. \A q : Carried(q) => Carried(q)'
          BY <3>1, <3>2 DEF Carried, Dispatched, Waiting, WorkedOn
        <4> QED BY <4>1, <4>2, MarksFrame DEF PoolInv
      <3>5. Apart'
        BY <3>1, <3>2, ApartSame DEF PoolInv
      <3>6. SessionsAreCounted'
        BY <3>1, <3>2, LiveMeans, LiveMeansNext, CountsStay DEF PoolInv
      <3> QED BY <2>1, <3>3, <3>4, <3>5, <3>6 DEF PoolInv
    <2> QED BY <2>2, <2>3
  <1> QED BY <1>1, <1>2, PTL DEF Spec

(* The counters of admission control (canAcceptSessionLocked) and of the     *)
(* choice of a worker are exact, however removals, finalizations and         *)
(* concurrent receives from the channels interleave.                         *)
THEOREM CountersAreExact == Spec => []PendingIsExact
  <1>1. PoolInv => PendingIsExact
    BY DEF PoolInv, PendingIsExact, WorkersAreCounted, Runs, SessionsAreCounted, Live, Of
  <1> QED BY <1>1, PoolInvariant, PTL

(* Outside a removal no accepted task waits in a cancelled lane, where       *)
(* beginTaskContext would give it a dead context: RemoveLane, RemoveSession  *)
(* and FinalizeLane sweep every channel before they release the mutex.       *)
THEOREM CancelledAreSwept == Spec => []CancelledLanesNotQueued
  <1>1. PoolInv => CancelledLanesNotQueued
    BY DEF PoolInv, CancelledLanesNotQueued, Swept
  <1> QED BY <1>1, PoolInvariant, PTL

(* A packet that deferredInflight tracks is being dispatched or has a task,  *)
(* unless it was dispatched between the two halves of a removal.             *)
THEOREM TrackedHaveTasks == Spec => []MarkLeaksOnlyInRace
  <1>1. PoolInv => MarkLeaksOnlyInRace
    <2> SUFFICES ASSUME PoolInv, NEW p \in deferredInflight \ raced
                 PROVE  \/ \E i \in Ingress : ingress[i] \in {Dispatching(p), GivingUp(p)}
                        \/ \E t \in Queued \cup Held : t.packet = p
      BY DEF MarkLeaksOnlyInRace
    <2>1. Carried(p)
      BY DEF PoolInv, Marks, Untied
    <2>2. CASE Dispatched(p)
      BY <2>2 DEF Dispatched
    <2>3. CASE Waiting(p)
      <3>1. PICK w \in Workers : \E t \in At(w) : t.packet = p
        BY <2>3 DEF Waiting, At
      <3> QED BY <3>1, LiveMeans DEF Live
    <2>4. CASE WorkedOn(p)
      <3>1. PICK w \in Workers : Busy(w) /\ worker[w].task.packet = p
        BY <2>4 DEF WorkedOn, Bearing, Busy
      <3> QED BY <3>1, LiveMeans DEF Live
    <2> QED BY <2>1, <2>2, <2>3, <2>4 DEF Carried
  <1> QED BY <1>1, PoolInvariant, PTL
-----------------------------------------------------------------------------
(* The bounds that make the types tight: a removal puts back no more than  *)
(* it took out of a channel, admission control keeps its cap, and the      *)
(* tasks being dispatched are within the bound on tasks.                   *)

Dispatchers == {j \in Ingress : ingress[j].op = "dispatch"}

QueuesAreBounded == \A w \in Workers : Len(jobs[w]) + Len(Kept(w)) <= QueueLimit
SessionsAreCapped == \A s \in Sessions : sessionPending[s] <= SessionCap
SetsAreTyped ==
  cancelled \subseteq Lanes /\ deferredInflight \subseteq Packets /\ raced \subseteq Packets
TasksAreBounded ==
  IsFiniteSet(Dispatchers) /\ accepted + Cardinality(Dispatchers) <= MaxTasks
IdleHoldNothing == \A w \in Workers : ~Busy(w) => worker[w].task = NoTask

(* Nothing but Enqueue makes a worker's queue longer: by the exact counts, *)
(* a queue is what is pending less what runs.                              *)
LEMMA QueuesDoNotGrow ==
  ASSUME Typed, WorkersAreCounted, Typed', WorkersAreCounted', QueuesAreBounded,
         \A w \in Workers : pending'[w] - Runs(w)' <= pending[w] - Runs(w)
  PROVE  QueuesAreBounded'
  <1> SUFFICES ASSUME NEW w \in Workers
               PROVE  Len(jobs'[w]) + Len(Kept(w)') <= QueueLimit
    BY DEF QueuesAreBounded
  <1>1. /\ Len(jobs[w]) \in Nat /\ Len(Kept(w)) \in Nat /\ Runs(w) \in Nat
        /\ Len(jobs'[w]) \in Nat /\ Len(Kept(w)') \in Nat /\ Runs(w)' \in Nat
        /\ pending[w] \in Int /\ pending'[w] \in Int
    BY CountsAreNat, CountsStayNat DEF Typed
  <1>2. /\ pending[w] = Len(jobs[w]) + Len(Kept(w)) + Runs(w)
        /\ pending'[w] = Len(jobs'[w]) + Len(Kept(w)') + Runs(w)'
    BY DEF WorkersAreCounted
  <1>3. Len(jobs[w]) + Len(Kept(w)) <= QueueLimit /\ QueueLimit \in Nat
    BY PoolAssumption DEF QueuesAreBounded
  <1> DEFINE a == Len(jobs[w]) b == Len(Kept(w)) c == Runs(w)
             a1 == Len(jobs'[w]) b1 == Len(Kept(w)') c1 == Runs(w)'
  <1>4. /\ a \in Nat /\ b \in Nat /\ c \in Nat /\ a1 \in Nat /\ b1 \in Nat /\ c1 \in Nat
        /\ pending[w] = a + b + c /\ pending'[w] = a1 + b1 + c1
        /\ pending'[w] - c1 <= pending[w] - c /\ a + b <= QueueLimit /\ QueueLimit \in Nat
    BY <1>1, <1>2, <1>3
  <1> HIDE DEF a, b, c, a1, b1, c1
  <1>5. a1 + b1 <= QueueLimit
    <2>1. pending[w] - c = a + b /\ pending'[w] - c1 = a1 + b1
      BY <1>4
    <2>2. a1 + b1 <= a + b
      BY <1>4, <2>1
    <2> QED BY <1>4, <2>2
  <1> QED BY <1>5 DEF a1, b1

LEMMA EnqueueBounds ==
  ASSUME Typed, WorkersAreCounted, QueuesAreBounded, SessionsAreCapped, SessionsAreCounted,
         NEW i \in Ingress, EnqueueMarked(i)
  PROVE  QueuesAreBounded' /\ SessionsAreCapped'
  <1> DEFINE p == ingress[i].packet
             t == [packet |-> p, n |-> accepted + 1]
  <1>1. p \in Packets /\ p.lane \in Lanes /\ t \in TaskT /\ MutexFree /\ UNCHANGED compaction
    BY Enqueued DEF Packets
  <1>2. PICK w \in Workers : w = Target(p.lane)
    BY <1>1, TargetIsWorker, SMTT(30)
  <1>3. \/ UNCHANGED <<jobs, sessionPending>>
        \/ /\ jobs' = [jobs EXCEPT ![w] = Append(@, t)] /\ Len(jobs[w]) < QueueLimit
           /\ sessionPending' = [sessionPending EXCEPT ![p.lane[1]] = @ + 1]
           /\ sessionPending[p.lane[1]] < SessionCap
    BY <1>2 DEF EnqueueMarked, HasRoom
  <1>4. \A v \in Workers : Kept(v) = << >> /\ Kept(v)' = << >>
    BY <1>1 DEF Kept, MutexFree
  <1>5. p.lane[1] \in Sessions
    BY <1>1 DEF Lanes
  <1>6. jobs \in [Workers -> Seq(TaskT)] /\ sessionPending \in [Sessions -> Nat]
    BY DEF Typed, SessionsAreCounted
  <1>7. QueueLimit \in Nat /\ SessionCap \in Nat
    BY PoolAssumption
  <1> HIDE DEF p, t
  <1>8. CASE UNCHANGED <<jobs, sessionPending>>
    BY <1>4, <1>8 DEF QueuesAreBounded, SessionsAreCapped
  <1>9. CASE ~UNCHANGED <<jobs, sessionPending>>
    <2>1. Append(jobs[w], t) \in Seq(TaskT) /\ Len(Append(jobs[w], t)) = Len(jobs[w]) + 1
          /\ Len(jobs[w]) \in Nat
      BY <1>1, <1>6, AppendedQueue
    <2>2. jobs'[w] = Append(jobs[w], t) /\ \A v \in Workers \ {w} : jobs'[v] = jobs[v]
      BY <1>3, <1>6, <1>9
    <2>3. Len(jobs'[w]) + Len(Kept(w)') <= QueueLimit
      <3>1. Len(Kept(w)') = 0
        BY <1>4, EmptyLength
      <3> QED BY <1>3, <1>7, <1>9, <2>1, <2>2, <3>1
    <2>4. \A s \in Sessions : sessionPending'[s] <= SessionCap
      BY <1>3, <1>5, <1>6, <1>7, <1>9 DEF SessionsAreCapped
    <2> QED BY <1>4, <2>2, <2>3, <2>4 DEF QueuesAreBounded, SessionsAreCapped
  <1> QED BY <1>8, <1>9

LEMMA ReleaseKeepsCap ==
  ASSUME SessionsAreCapped, SessionsAreCounted, NEW s \in Sessions, Release(s)
  PROVE  SessionsAreCapped'
  BY PoolAssumption DEF SessionsAreCapped, SessionsAreCounted, Release

LEMMA QueuesStayBounded ==
  ASSUME Typed, WorkersAreCounted, Apart, SessionsAreCounted, QueuesAreBounded,
         SessionsAreCapped, Next
  PROVE  QueuesAreBounded' /\ SessionsAreCapped'
  <1>0. Typed' /\ WorkersAreCounted'
    BY TypedStep
  <1>1. ASSUME NEW i \in Ingress, IngressNext(i) PROVE QueuesAreBounded' /\ SessionsAreCapped'
    <2>1. CASE Enqueue(i)
      BY <2>1, EnqueueBounds DEF Enqueue
    <2>2. CASE ~Enqueue(i)
      <3>1. UNCHANGED <<pending, sessionPending>>
        BY <1>1, <2>2
        DEF IngressNext, BeginDispatch, GiveUp, ClearStream, ClearSession, RemoveLanes, pool
      <3>2. \A v \in Workers : worker'[v].pc = worker[v].pc
        <4>1. CASE RemoveLanes(i)
          BY <4>1, RemovalCancels
        <4>2. CASE ~RemoveLanes(i)
          BY <1>1, <2>2, <4>2 DEF IngressNext, BeginDispatch, GiveUp, ClearStream, ClearSession
        <4> QED BY <4>1, <4>2
      <3>3. \A v \in Workers : Runs(v)' = Runs(v) /\ Runs(v) \in Nat /\ pending[v] \in Int
        BY <3>2, RunsOnlyByPC, CountsAreNat DEF Typed
      <3>4. \A v \in Workers : pending'[v] - Runs(v)' <= pending[v] - Runs(v)
        BY <3>1, <3>3
      <3>5. SessionsAreCapped'
        BY <3>1 DEF SessionsAreCapped
      <3> QED BY <1>0, <3>4, <3>5, QueuesDoNotGrow
    <2> QED BY <2>1, <2>2
  <1>2. ASSUME CompactNext PROVE QueuesAreBounded' /\ SessionsAreCapped'
    <2>1. \A v \in Workers : Runs(v)' = Runs(v) /\ Runs(v) \in Nat /\ pending[v] \in Int
      <3>1. CASE CompactTake
        <4>1. \A v \in Workers : worker'[v].pc = worker[v].pc
          BY <3>1 DEF CompactTake
        <4> QED BY <4>1, RunsOnlyByPC, CountsAreNat DEF Typed
      <3>2. CASE CompactPutBack
        <4>1. \A v \in Workers : \/ worker'[v].pc = worker[v].pc
                                 \/ worker'[v].pc = "ending" /\ worker[v].pc = "locked"
          BY <3>2, PutBack
        <4> QED BY <4>1, CountsAreNat DEF Runs, Busy, Typed
      <3> QED BY <1>2, <3>1, <3>2 DEF CompactNext
    <2>2. \/ UNCHANGED <<pending, sessionPending>>
          \/ \E c \in Workers, t \in TaskT : DropTask(t, c)
      <3>1. CASE CompactTake
        <4>1. ~MutexFree /\ compaction \in Removal /\ jobs[compaction.at] # << >>
          BY <3>1 DEF CompactTake, Typed
        <4>2. PICK c \in Workers : c = compaction.at
          BY <4>1 DEF Removal
        <4>3. PICK t \in TaskT : t = Head(jobs[c])
          BY <4>1, <4>2, CountsAreNat, ShorterQueue
        <4>4. DropTask(t, c) \/ UNCHANGED <<pending, sessionPending>>
          BY <3>1, <4>2, <4>3 DEF CompactTake
        <4> QED BY <4>4
      <3>2. CASE CompactPutBack
        BY <3>2 DEF CompactPutBack
      <3> QED BY <1>2, <3>1, <3>2 DEF CompactNext
    <2>3. CASE UNCHANGED <<pending, sessionPending>>
      <3>1. \A v \in Workers : pending'[v] - Runs(v)' <= pending[v] - Runs(v)
        BY <2>1, <2>3
      <3>2. SessionsAreCapped'
        BY <2>3 DEF SessionsAreCapped
      <3> QED BY <1>0, <3>1, <3>2, QueuesDoNotGrow
    <2>4. ASSUME NEW c \in Workers, NEW t \in TaskT, DropTask(t, c)
          PROVE  QueuesAreBounded' /\ SessionsAreCapped'
      <3>1. pending' = [pending EXCEPT ![c] = @ - 1] /\ pending \in [Workers -> Int]
        BY <2>4 DEF DropTask, Typed
      <3>2. \A v \in Workers : pending'[v] <= pending[v] /\ pending'[v] \in Int
        BY <3>1
      <3>3. \A v \in Workers : pending'[v] - Runs(v)' <= pending[v] - Runs(v)
        BY <2>1, <3>2
      <3>4. SessionsAreCapped'
        BY <2>4, LaneOfTask, ReleaseKeepsCap DEF DropTask
      <3> QED BY <1>0, <3>3, <3>4, QueuesDoNotGrow
    <2> QED BY <2>2, <2>3, <2>4
  <1>3. ASSUME NEW w \in Workers, WorkerNext(w) PROVE QueuesAreBounded' /\ SessionsAreCapped'
    <2>1. CASE Receive(w)
      <3>1. UNCHANGED <<pending, sessionPending>>
        BY <2>1 DEF Receive
      <3>2. Runs(w) = 0 /\ Runs(w)' = 1 /\ \A v \in Workers \ {w} : Runs(v)' = Runs(v)
        BY <2>1, Received DEF Runs, Busy
      <3>3. \A v \in Workers : Runs(v) \in Nat /\ pending[v] \in Int
        BY CountsAreNat DEF Typed
      <3>4. \A v \in Workers : pending'[v] - Runs(v)' <= pending[v] - Runs(v)
        BY <3>1, <3>2, <3>3
      <3>5. SessionsAreCapped'
        BY <3>1 DEF SessionsAreCapped
      <3> QED BY <1>0, <3>4, <3>5, QueuesDoNotGrow
    <2>2. CASE ~Receive(w)
      <3>1. UNCHANGED jobs /\ \A v \in Workers : Kept(v)' = Kept(v)
        BY <1>3, <2>2, WorkerKeepsPlaces
      <3>2. QueuesAreBounded'
        BY <3>1 DEF QueuesAreBounded
      <3>3. CASE FinishLane(w)
        <4>1. LaneOf(w)[1] \in Sessions
          BY <3>3, LaneFinished, LaneHeld DEF Lanes
        <4> QED BY <3>2, <3>3, <4>1, ReleaseKeepsCap DEF FinishLane
      <3>4. CASE ~FinishLane(w)
        <4>1. UNCHANGED sessionPending
          BY <1>3, <2>2, <3>4, WorkerKeepsPlaces
        <4> QED BY <3>2, <4>1 DEF SessionsAreCapped
      <3> QED BY <3>3, <3>4
    <2> QED BY <2>1, <2>2
  <1> QED BY <1>1, <1>2, <1>3 DEF Next
LEMMA SetsStayTyped ==
  ASSUME Typed, SetsAreTyped, Next
  PROVE  SetsAreTyped'
  <1>1. ASSUME NEW i \in Ingress, IngressNext(i) PROVE SetsAreTyped'
    <2>1. CASE \E p \in Packets : BeginDispatch(i, p)
      BY <2>1, SMTT(30) DEF BeginDispatch, pool, SetsAreTyped
    <2>2. CASE Enqueue(i) \/ GiveUp(i)
      BY <2>2 DEF Enqueue, EnqueueMarked, GiveUp, UntrackPacket, pool, SetsAreTyped
    <2>3. CASE RemoveLanes(i)
      <3>1. ingress[i].lanes \subseteq Lanes
        BY <2>3, OpsAreShaped DEF RemoveLanes
      <3> QED BY <2>3, <3>1 DEF RemoveLanes, SetsAreTyped
    <2>4. CASE \/ \E l \in Clearable : ClearStream(i, l)
               \/ \E s \in Sessions : ClearSession(i, s)
      BY <2>4 DEF ClearStream, ClearSession, Untrack, pool, SetsAreTyped
    <2> QED BY <1>1, <2>1, <2>2, <2>3, <2>4 DEF IngressNext
  <1>2. ASSUME CompactNext PROVE SetsAreTyped'
    BY <1>2 DEF CompactNext, CompactTake, CompactPutBack, SetsAreTyped
  <1>3. ASSUME NEW w \in Workers, WorkerNext(w) PROVE SetsAreTyped'
    <2>1. Busy(w) => LaneOf(w) \in Lanes
      BY LaneHeld
    <2>2. CASE FinalizeLane(w)
      BY <2>1, <2>2 DEF FinalizeLane, Busy, SetsAreTyped
    <2>3. CASE ~FinalizeLane(w)
      BY <1>3, <2>3
      DEF WorkerNext, Receive, BeginTask, StartHandler, Return, FinalizeStream, Unpend,
          FinishLane, UntrackPacket, Untrack, pool, SetsAreTyped
    <2> QED BY <2>2, <2>3
  <1> QED BY <1>1, <1>2, <1>3 DEF Next

(* BeginDispatch makes room for the task that Enqueue accepts.             *)
LEMMA TasksStayBounded ==
  ASSUME Typed, WorkersAreCounted, TasksAreBounded, Next
  PROVE  TasksAreBounded'
  <1>0. /\ IsFiniteSet(Dispatchers) /\ Cardinality(Dispatchers) \in Nat /\ accepted \in Nat
        /\ accepted + Cardinality(Dispatchers) <= MaxTasks /\ MaxTasks \in Nat
        /\ ingress \in [Ingress -> IngressOps]
    BY FS_CardinalityType, PoolAssumption DEF TasksAreBounded, Typed
  <1>1. ASSUME accepted' = accepted, Dispatchers' \subseteq Dispatchers PROVE TasksAreBounded'
    <2>1. IsFiniteSet(Dispatchers') /\ Cardinality(Dispatchers') <= Cardinality(Dispatchers)
          /\ Cardinality(Dispatchers') \in Nat
      BY <1>0, <1>1, FS_Subset, FS_CardinalityType
    <2> QED BY <1>0, <1>1, <2>1 DEF TasksAreBounded
  <1>2. ASSUME NEW i \in Ingress, NEW op, op.op # "dispatch",
               ingress' = [ingress EXCEPT ![i] = op]
        PROVE  Dispatchers' = Dispatchers \ {i}
    BY <1>0, <1>2 DEF Dispatchers
  <1>3. /\ Idle.op # "dispatch" /\ Locked.op # "dispatch"
        /\ \A D, b : Removing(D, b).op # "dispatch"
        /\ \A p : GivingUp(p).op # "dispatch" /\ Dispatching(p).op = "dispatch"
    BY DEF Idle, Locked, Removing, GivingUp, Dispatching
  <1>4. ASSUME NEW i \in Ingress, IngressNext(i) PROVE TasksAreBounded'
    <2>1. ASSUME NEW p \in Packets, BeginDispatch(i, p) PROVE TasksAreBounded'
      <3>1. /\ ingress' = [ingress EXCEPT ![i] = Dispatching(p)] /\ ingress[i] = Idle
            /\ accepted' = accepted /\ accepted + Cardinality(Dispatchers) < MaxTasks
        BY <2>1 DEF BeginDispatch, Dispatchers
      <3>2. Dispatchers' = Dispatchers \cup {i} /\ i \notin Dispatchers
        BY <1>0, <1>3, <3>1 DEF Dispatchers
      <3>3. IsFiniteSet(Dispatchers') /\ Cardinality(Dispatchers') = Cardinality(Dispatchers) + 1
        BY <1>0, <3>2, FS_AddElement
      <3> QED BY <1>0, <3>1, <3>3 DEF TasksAreBounded
    <2>2. CASE Enqueue(i)
      <3>1. /\ ingress[i].op = "dispatch"
            /\ \/ accepted' = accepted /\ ingress' = [ingress EXCEPT ![i] = GivingUp(ingress[i].packet)]
               \/ accepted' = accepted + 1 /\ ingress' = [ingress EXCEPT ![i] = Idle]
        BY <2>2 DEF Enqueue, EnqueueMarked
      <3>2. i \in Dispatchers /\ Dispatchers' = Dispatchers \ {i}
        BY <1>2, <1>3, <3>1 DEF Dispatchers
      <3>3. IsFiniteSet(Dispatchers') /\ Cardinality(Dispatchers') = Cardinality(Dispatchers) - 1
        BY <1>0, <3>2, FS_RemoveElement
      <3> QED BY <1>0, <3>1, <3>3, SMTT(30) DEF TasksAreBounded
    <2>3. CASE GiveUp(i) \/ RemoveLanes(i)
      <3>1. accepted' = accepted /\ \E op \in {Idle, Locked} : ingress' = [ingress EXCEPT ![i] = op]
        BY <2>3 DEF GiveUp, RemoveLanes
      <3>2. Dispatchers' = Dispatchers \ {i}
        BY <1>2, <1>3, <3>1
      <3> QED BY <1>1, <3>1, <3>2
    <2>4. CASE \/ \E l \in Clearable : ClearStream(i, l)
               \/ \E s \in Sessions : ClearSession(i, s)
      <3>1. PICK D, b : accepted' = accepted /\ ingress' = [ingress EXCEPT ![i] = Removing(D, b)]
        BY <2>4 DEF ClearStream, ClearSession
      <3>2. Dispatchers' = Dispatchers \ {i}
        BY <1>2, <1>3, <3>1
      <3> QED BY <1>1, <3>1, <3>2
    <2> QED BY <1>4, <2>1, <2>2, <2>3, <2>4 DEF IngressNext
  <1>5. ASSUME CompactNext PROVE TasksAreBounded'
    <2>1. accepted' = accepted
      BY <1>5 DEF CompactNext, CompactTake, CompactPutBack
    <2>2. CASE UNCHANGED ingress
      BY <1>1, <2>1, <2>2 DEF Dispatchers
    <2>3. CASE ~UNCHANGED ingress
      <3>1. PICK i \in Ingress : ingress' = [ingress EXCEPT ![i] = Idle]
        BY <1>5, <2>3 DEF CompactNext, CompactTake, CompactPutBack
      <3>2. Dispatchers' = Dispatchers \ {i}
        BY <1>2, <1>3, <3>1
      <3> QED BY <1>1, <2>1, <3>2
    <2> QED BY <2>2, <2>3
  <1>6. ASSUME NEW w \in Workers, WorkerNext(w) PROVE TasksAreBounded'
    <2>1. accepted' = accepted /\ ingress' = ingress
      BY <1>6 DEF WorkerNext, Receive, BeginTask, StartHandler, Return, FinalizeStream,
                  FinalizeLane, Unpend, FinishLane
    <2> QED BY <1>1, <2>1 DEF Dispatchers
  <1> QED BY <1>4, <1>5, <1>6 DEF Next

LEMMA IdleStayEmpty ==
  ASSUME Typed, WorkersAreCounted, IdleHoldNothing, Next
  PROVE  IdleHoldNothing'
  <1>1. ASSUME \A v \in Workers : Busy(v)' = Busy(v) /\ worker'[v].task = worker[v].task
        PROVE  IdleHoldNothing'
    BY <1>1 DEF IdleHoldNothing
  <1>2. ASSUME NEW i \in Ingress, IngressNext(i) PROVE IdleHoldNothing'
    <2>1. \A v \in Workers : worker'[v].pc = worker[v].pc /\ worker'[v].task = worker[v].task
      <3>1. CASE RemoveLanes(i)
        BY <3>1, RemovalCancels
      <3>2. CASE ~RemoveLanes(i)
        BY <1>2, <3>2 DEF IngressNext, BeginDispatch, Enqueue, EnqueueMarked, GiveUp,
                          ClearStream, ClearSession
      <3> QED BY <3>1, <3>2, SMTT(30)
    <2> QED BY <1>1, <2>1 DEF Busy
  <1>3. ASSUME CompactNext PROVE IdleHoldNothing'
    <2>1. CASE CompactTake
      BY <1>1, <2>1 DEF CompactTake, Busy
    <2>2. CASE CompactPutBack
      <3>1. \A v \in Workers : /\ worker'[v].task = worker[v].task
                               /\ \/ worker'[v].pc = worker[v].pc
                                  \/ worker'[v].pc = "ending" /\ worker[v].pc = "locked"
        BY <2>2, PutBack
      <3> QED BY <1>1, <3>1 DEF Busy
    <2> QED BY <1>3, <2>1, <2>2 DEF CompactNext
  <1>4. ASSUME NEW w \in Workers, WorkerNext(w) PROVE IdleHoldNothing'
    <2>1. CASE Receive(w)
      BY <2>1, Received DEF IdleHoldNothing, Busy
    <2>2. CASE FinishLane(w)
      <3>1. /\ ~Busy(w)' /\ worker[w].pc = "unpended"
            /\ \A v \in Workers \ {w} : worker'[v].pc = worker[v].pc /\ worker'[v].task = worker[v].task
        BY <2>2, LaneFinished DEF Busy
      <3>2. worker'[w].task = NoTask
        <4> DEFINE idle == [worker EXCEPT ![w] = [pc |-> "idle", task |-> NoTask, ctxErr |-> FALSE]]
                   hit == running[LaneOf(w)]
        <4>1. worker' = IF hit \in Workers \ {w} THEN [idle EXCEPT ![hit].ctxErr = TRUE] ELSE idle
          BY <2>2 DEF FinishLane
        <4>2. DOMAIN worker = Workers
          BY DEF Typed
        <4>3. idle[w].task = NoTask /\ DOMAIN idle = Workers
          BY <4>2
        <4> HIDE DEF idle, hit
        <4> QED BY <4>1, <4>3
      <3> QED BY <3>1, <3>2 DEF IdleHoldNothing, Busy
    <2>3. CASE ~Receive(w) /\ ~FinishLane(w)
      <3>1. \A v \in Workers : Busy(v)' = Busy(v)
        BY <1>4, <2>3, WorkerKeepsPlaces
      <3>2. \A v \in Workers : Busy(v)' => worker'[v].task = worker[v].task
        BY <1>4, <2>3, WorkerKeepsPlaces
      <3>3. Busy(w) /\ \A v \in Workers \ {w} : worker'[v] = worker[v]
        <4>1. worker \in [Workers -> Shape]
          BY DEF Typed
        <4> QED BY <1>4, <2>3, <4>1 DEF WorkerNext, BeginTask, StartHandler, Return,
                   FinalizeStream, FinalizeLane, Unpend, Busy, Goto
      <3>4. \A v \in Workers : worker'[v].task = worker[v].task
        BY <3>1, <3>2, <3>3
      <3> QED BY <1>1, <3>1, <3>4
    <2> QED BY <2>1, <2>2, <2>3
  <1> QED BY <1>2, <1>3, <1>4 DEF Next
PoolBounds ==
  QueuesAreBounded /\ SessionsAreCapped /\ SetsAreTyped /\ TasksAreBounded /\ IdleHoldNothing

LEMMA BoundsAtFirst == Init => PoolBounds
  <1> SUFFICES ASSUME Init PROVE PoolBounds
    OBVIOUS
  <1>1. QueuesAreBounded
    <2>1. \A w \in Workers : jobs[w] = << >> /\ Kept(w) = << >>
      BY DEF Init, Kept, MutexFree
    <2>2. QueueLimit \in Nat /\ Len(<< >>) = 0
      BY PoolAssumption
    <2> QED BY <2>1, <2>2 DEF QueuesAreBounded
  <1>2. SessionsAreCapped
    BY PoolAssumption DEF Init, SessionsAreCapped
  <1>3. SetsAreTyped
    BY DEF Init, SetsAreTyped
  <1>4. TasksAreBounded
    <2>1. Dispatchers = {}
      BY DEF Init, Dispatchers, Idle
    <2> QED BY <2>1, FS_EmptySet, PoolAssumption DEF Init, TasksAreBounded
  <1>5. IdleHoldNothing
    BY DEF Init, IdleHoldNothing
  <1> QED BY <1>1, <1>2, <1>3, <1>4, <1>5 DEF PoolBounds

LEMMA BoundsKept == PoolInv /\ PoolBounds /\ [Next]_vars => PoolBounds'
  <1> SUFFICES ASSUME PoolInv, PoolBounds, [Next]_vars PROVE PoolBounds'
    OBVIOUS
  <1>1. CASE Next
    BY <1>1, QueuesStayBounded, SetsStayTyped, TasksStayBounded, IdleStayEmpty
    DEF PoolInv, PoolBounds
  <1>2. CASE UNCHANGED vars
    BY <1>2 DEF vars, pool, PoolBounds, QueuesAreBounded, SessionsAreCapped, SetsAreTyped,
                TasksAreBounded, IdleHoldNothing, Kept, MutexFree, Dispatchers, Busy
  <1> QED BY <1>1, <1>2

LEMMA BoundedQueue ==
  ASSUME NEW T, NEW q \in Seq(T), NEW S, Range(q) \subseteq S, NEW n \in Nat, Len(q) <= n
  PROVE  q \in BoundedSeq(S, n)
  <1>1. Len(q) \in Nat /\ DOMAIN q = 1 .. Len(q) /\ q = [i \in 1 .. Len(q) |-> q[i]]
    OBVIOUS
  <1>2. \A i \in 1 .. Len(q) : q[i] \in S
    BY <1>1 DEF Range
  <1>3. q \in [1 .. Len(q) -> S]
    BY <1>1, <1>2
  <1>4. Len(q) \in 0 .. n
    BY <1>1
  <1> QED BY <1>3, <1>4 DEF BoundedSeq, SeqOf

(* The types: the channels and the counters stay within their capacities   *)
(* (deferredSessionWorker.jobs, deriveDeferredSessionPendingCap), a         *)
(* removal that puts tasks back never overfills a channel, and no counter  *)
(* ever falls below zero, whatever the interleaving.                       *)
THEOREM PoolTypes == Spec => []TypeOK
  <1>1. Init => PoolBounds
    BY BoundsAtFirst
  <1>2. PoolInv /\ PoolBounds /\ [Next]_vars => PoolBounds'
    BY BoundsKept
  <1>3. PoolInv /\ PoolBounds => TypeOK
    <2> SUFFICES ASSUME PoolInv, PoolBounds PROVE TypeOK
      OBVIOUS
    <2>1. Typed /\ WorkersAreCounted /\ Apart /\ SessionsAreCounted
      BY DEF PoolInv
    <2>2. /\ accepted \in 0 .. MaxTasks /\ QueueLimit \in Nat /\ SessionCap \in Nat
      <3>1. /\ Cardinality(Dispatchers) \in Nat /\ accepted \in Nat /\ MaxTasks \in Nat
            /\ accepted + Cardinality(Dispatchers) <= MaxTasks
        BY <2>1, FS_CardinalityType, PoolAssumption DEF PoolBounds, TasksAreBounded, Typed
      <3> QED BY <3>1, PoolAssumption
    <2>3. \A t \in TaskT : t.n <= accepted => t \in Tasks
      <3> SUFFICES ASSUME NEW t \in TaskT, t.n <= accepted PROVE t \in Tasks
        OBVIOUS
      <3>1. t.n \in Nat \ {0} /\ accepted \in 0 .. MaxTasks /\ MaxTasks \in Nat
        BY <2>2, PoolAssumption DEF TaskT
      <3>2. t.n \in 1 .. MaxTasks
        BY <3>1
      <3>3. t = [packet |-> t.packet, n |-> t.n] /\ t.packet \in Packets
        BY DEF TaskT
      <3> QED BY <3>2, <3>3 DEF Tasks
    <2>4. ASSUME NEW w \in Workers
          PROVE  /\ jobs[w] \in BoundedSeq(Tasks, QueueLimit)
                 /\ Kept(w) \in BoundedSeq(Tasks, QueueLimit)
                 /\ pending[w] \in 0 .. QueueLimit + 1
      <3>1. /\ jobs[w] \in Seq(TaskT) /\ Kept(w) \in Seq(TaskT)
            /\ Len(jobs[w]) \in Nat /\ Len(Kept(w)) \in Nat
        BY <2>1, CountsAreNat
      <3>2. Len(jobs[w]) + Len(Kept(w)) <= QueueLimit
        BY DEF PoolBounds, QueuesAreBounded
      <3>3. Len(jobs[w]) <= QueueLimit /\ Len(Kept(w)) <= QueueLimit
        BY <2>2, <3>1, <3>2
      <3>4. Range(jobs[w]) \subseteq Tasks /\ Range(Kept(w)) \subseteq Tasks
        <4>1. Range(jobs[w]) \subseteq TaskT /\ Range(Kept(w)) \subseteq TaskT
          BY <3>1 DEF Range
        <4>2. \A t \in At(w) : t.n <= accepted
          BY <2>1 DEF Apart
        <4> QED BY <2>3, <4>1, <4>2 DEF At
      <3>5. jobs[w] \in BoundedSeq(Tasks, QueueLimit) /\ Kept(w) \in BoundedSeq(Tasks, QueueLimit)
        BY <2>2, <3>1, <3>3, <3>4, BoundedQueue
      <3>6. pending[w] = Len(jobs[w]) + Len(Kept(w)) + Runs(w)
        BY <2>1 DEF WorkersAreCounted
      <3>7. Runs(w) \in 0 .. 1
        BY DEF Runs
      <3>8. pending[w] \in 0 .. QueueLimit + 1
        BY <2>2, <3>1, <3>2, <3>6, <3>7
      <3> QED BY <3>5, <3>8
    <2>5. /\ jobs \in [Workers -> BoundedSeq(Tasks, QueueLimit)]
          /\ pending \in [Workers -> 0 .. QueueLimit + 1]
      BY <2>1, <2>4 DEF Typed
    <2>6. sessionPending \in [Sessions -> 0 .. SessionCap]
      BY <2>1, <2>2 DEF SessionsAreCounted, PoolBounds, SessionsAreCapped
    <2>7. worker \in [Workers -> [pc : WorkerPCs, task : Tasks \cup {NoTask}, ctxErr : BOOLEAN]]
      <3>1. \A w \in Workers : worker[w].task \in Tasks \cup {NoTask}
        <4>1. \A w \in Workers : Busy(w) => worker[w].task \in TaskT /\ worker[w].task.n <= accepted
          BY <2>1 DEF Typed, Apart
        <4> QED BY <2>3, <4>1 DEF PoolBounds, IdleHoldNothing
      <3>2. worker \in [Workers -> Shape]
        BY <2>1 DEF Typed
      <3> QED BY <3>1, <3>2 DEF Shape
    <2>8. \/ compaction = Free
          \/ /\ compaction.by \in Ingress \cup Workers
             /\ compaction.drop \subseteq Lanes
             /\ compaction.at \in Workers
             /\ compaction.kept \in BoundedSeq(Tasks, QueueLimit)
      <3>1. CASE MutexFree
        BY <3>1 DEF MutexFree
      <3>2. CASE ~MutexFree
        <4>1. compaction \in Removal
          BY <2>1, <3>2 DEF Typed
        <4>2. compaction.kept = Kept(compaction.at) /\ compaction.at \in Workers
          BY <3>2, <4>1 DEF Kept, Removal
        <4> QED BY <2>4, <4>1, <4>2 DEF Removal
      <3> QED BY <3>1, <3>2
    <2> QED BY <2>1, <2>2, <2>5, <2>6, <2>7, <2>8 DEF TypeOK, Typed, PoolBounds, SetsAreTyped
  <1> QED BY <1>1, <1>2, <1>3, PoolInvariant, PTL DEF Spec
=============================================================================
