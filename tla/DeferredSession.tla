---------------------------- MODULE DeferredSession ----------------------------
(***************************************************************************)
(* The server's deferred session runtime: the pool of workers that runs    *)
(* stream set-up (STREAM_SYN, SOCKS5_SYN fragments) off the ingress path   *)
(* (udpserver/deferred_session.go), and the tracker of packets in flight   *)
(* that dispatch and removal share with it (server_postsession.go).        *)
(*                                                                         *)
(* A lane is a (session, stream) pair; a task is one accepted packet of a  *)
(* lane.  Ingress goroutines dispatch packets and clear lanes (RST, close, *)
(* an answer found at once) and sessions; workers receive tasks from their *)
(* channel without the processor's mutex and take it only to begin and to  *)
(* finish a task.  compactQueuesLocked runs under the mutex but channels   *)
(* are shared with the workers, so it is a sequence of steps here.         *)
(***************************************************************************)
EXTENDS Naturals, FiniteSets, SequencesExt

CONSTANTS
    Ingress,      \* request goroutines of the server
    NumWorkers,   \* workers of the pool
    QueueLimit,   \* capacity of a worker's channel
    SessionCap,   \* deriveDeferredSessionPendingCap
    Sessions, Streams,
    Frags,        \* packets that one lane can have in flight (SYN fragments)
    Clearable,    \* lanes that an RST, a close or a clean-up may remove
    MaxTasks      \* bound: tasks accepted in a behaviour

ASSUME PoolAssumption ==
    /\ NumWorkers \in Nat \ {0} /\ QueueLimit \in Nat \ {0}
    /\ SessionCap \in 1 .. NumWorkers * QueueLimit
    /\ Clearable \subseteq Sessions \X Streams
    /\ MaxTasks \in Nat

Workers == 1 .. NumWorkers
ASSUME NamesAssumption == Ingress \cap Workers = {}

NoWorker == 0
Lanes == Sessions \X Streams
LanesOf(s) == {l \in Lanes : l[1] = s}
Packets == [lane : Lanes, frag : Frags]
Tasks == [packet : Packets, n : 1 .. MaxTasks]
NoTask == [n |-> 0]
Free == [by |-> NoWorker]

VARIABLES
    jobs,             \* the workers' channels
    pending,          \* deferredSessionWorker.pending
    laneWorker,       \* lane -> worker its next task goes to, or NoWorker
    cancelled,        \* lanes marked cancelled
    running,          \* lane -> worker whose context its CancelFunc cancels
    sessionPending,   \* session -> accepted tasks not finished
    nextWorker,
    deferredInflight, \* Server.deferredInflight: packets tracked as pending
    worker,           \* [pc, task, ctxErr] of each worker goroutine
    ingress,          \* what each ingress goroutine is in the middle of
    compaction,       \* the removal that holds the mutex, or Free
    accepted,         \* tasks accepted so far (numbers them; history)
    raced             \* packets tracked between the two halves of a removal (history)

pool == <<jobs, pending, laneWorker, cancelled, running, sessionPending, nextWorker>>
vars == <<pool, deferredInflight, worker, ingress, compaction, accepted, raced>>

Idle == [op |-> "idle"]
Dispatching(p) == [op |-> "dispatch", packet |-> p]
GivingUp(p) == [op |-> "giveUp", packet |-> p]
Removing(D, whole) == [op |-> "remove", lanes |-> D, session |-> whole]
Locked == [op |-> "locked"]
IngressOps ==
    {Idle, Locked} \cup {Dispatching(p) : p \in Packets} \cup {GivingUp(p) : p \in Packets}
    \cup {Removing({l}, FALSE) : l \in Lanes} \cup {Removing(LanesOf(s), TRUE) : s \in Sessions}

WorkerPCs == {"idle", "held", "begun", "handling", "finalizing", "locked",
              "ending", "returned", "unpended"}

TypeOK ==
    /\ jobs \in [Workers -> BoundedSeq(Tasks, QueueLimit)]
    /\ pending \in [Workers -> 0 .. QueueLimit + 1]
    /\ laneWorker \in [Lanes -> Workers \cup {NoWorker}]
    /\ cancelled \subseteq Lanes
    /\ running \in [Lanes -> Workers \cup {NoWorker}]
    /\ sessionPending \in [Sessions -> 0 .. SessionCap]
    /\ nextWorker \in Workers
    /\ deferredInflight \subseteq Packets
    /\ worker \in [Workers -> [pc : WorkerPCs, task : Tasks \cup {NoTask}, ctxErr : BOOLEAN]]
    /\ ingress \in [Ingress -> IngressOps]
    /\ \/ compaction = Free
       \/ /\ compaction.by \in Ingress \cup Workers
          /\ compaction.drop \subseteq Lanes
          /\ compaction.at \in Workers
          /\ compaction.kept \in BoundedSeq(Tasks, QueueLimit)
    /\ accepted \in 0 .. MaxTasks
    /\ raced \subseteq Packets

Init ==
    /\ jobs = [w \in Workers |-> <<>>]
    /\ pending = [w \in Workers |-> 0]
    /\ laneWorker = [l \in Lanes |-> NoWorker]
    /\ cancelled = {}
    /\ running = [l \in Lanes |-> NoWorker]
    /\ sessionPending = [s \in Sessions |-> 0]
    /\ nextWorker = 1
    /\ deferredInflight = {}
    /\ worker = [w \in Workers |-> [pc |-> "idle", task |-> NoTask, ctxErr |-> FALSE]]
    /\ ingress = [i \in Ingress |-> Idle]
    /\ compaction = Free
    /\ accepted = 0
    /\ raced = {}

MutexFree == compaction = Free
Untrack(D) ==
    /\ deferredInflight' = {p \in deferredInflight : p.lane \notin D}
    /\ raced' = {p \in raced : p.lane \notin D}
UntrackPacket(p) == deferredInflight' = deferredInflight \ {p} /\ raced' = raced \ {p}
TaskLane(t) == t.packet.lane
LaneOf(w) == TaskLane(worker[w].task)
Goto(w, pc) == worker' = [worker EXCEPT ![w].pc = pc]

-----------------------------------------------------------------------------
(* Ingress: dispatchDeferredSessionPacketTracked. *)

(* Lanes whose packets are untracked and whose tasks are about to be dropped. *)
BeingRemoved ==
    (UNION {ingress[i].lanes : i \in {j \in Ingress : ingress[j].op = "remove"}})
    \cup {LaneOf(w) : w \in {v \in Workers : worker[v].pc = "finalizing"}}
    \cup (IF MutexFree THEN {} ELSE compaction.drop)

(* tryBeginDeferredPacket succeeds; a packet already tracked is only         *)
(* acknowledged again, which changes nothing here.                           *)
BeginDispatch(i, p) ==
    /\ ingress[i] = Idle
    /\ accepted + Cardinality({j \in Ingress : ingress[j].op = "dispatch"}) < MaxTasks
    /\ p \notin deferredInflight
    /\ deferredInflight' = deferredInflight \cup {p}
    /\ raced' = IF p.lane \in BeingRemoved THEN raced \cup {p} ELSE raced
    /\ ingress' = [ingress EXCEPT ![i] = Dispatching(p)]
    /\ UNCHANGED <<pool, worker, compaction, accepted>>

(* The first worker, in rotation from nextWorker, with the fewest pending.   *)
LeastLoaded ==
    LET least == {w \in Workers : \A v \in Workers : pending[w] <= pending[v]}
        after(w) == (w + NumWorkers - nextWorker) % NumWorkers
    IN  CHOOSE w \in least : \A v \in least : after(w) <= after(v)

After(w) == (w % NumWorkers) + 1

Target(lane) == IF laneWorker[lane] # NoWorker THEN laneWorker[lane] ELSE LeastLoaded

(* Mutant: no admission control. *)
HasRoomAlways(s) == TRUE

(* canAcceptSessionLocked *)
HasRoom(s) == sessionPending[s] < SessionCap

EnqueueMarked(i) ==
    /\ MutexFree
    /\ ingress[i].op = "dispatch"
    /\ LET p == ingress[i].packet
           w == Target(p.lane)
           s == p.lane[1]
           room == HasRoom(s)
           sends == room /\ Len(jobs[w]) < QueueLimit
       IN  /\ nextWorker' = IF room /\ laneWorker[p.lane] = NoWorker THEN After(w)
                                                                    ELSE nextWorker
           /\ \/ /\ sends
                 /\ accepted' = accepted + 1
                 /\ jobs' = [jobs EXCEPT ![w] = Append(@, [packet |-> p, n |-> accepted + 1])]
                 /\ pending' = [pending EXCEPT ![w] = @ + 1]
                 /\ sessionPending' = [sessionPending EXCEPT ![s] = @ + 1]
                 /\ laneWorker' = [laneWorker EXCEPT ![p.lane] = w]
                 /\ ingress' = [ingress EXCEPT ![i] = Idle]
              \/ /\ ~sends
                 /\ ingress' = [ingress EXCEPT ![i] = GivingUp(p)]
                 /\ UNCHANGED <<jobs, pending, sessionPending, laneWorker, accepted>>
    /\ UNCHANGED <<running, deferredInflight, worker, compaction, raced>>

(* Mutant: the lane's cancelled mark survives a new task. *)
EnqueueKeepsMark(i) == EnqueueMarked(i) /\ UNCHANGED cancelled

(* The lane's cancelled mark goes first, whether or not the task is accepted. *)
Enqueue(i) ==
    /\ EnqueueMarked(i)
    /\ cancelled' = cancelled \ {ingress[i].packet.lane}

(* Mutant: a refused packet stays tracked. *)
GiveUpTracked(i) ==
    /\ ingress[i].op = "giveUp"
    /\ ingress' = [ingress EXCEPT ![i] = Idle]
    /\ UNCHANGED <<pool, deferredInflight, raced, worker, compaction, accepted>>

(* The caller of a refused Enqueue untracks the packet. *)
GiveUp(i) ==
    /\ ingress[i].op = "giveUp"
    /\ UntrackPacket(ingress[i].packet)
    /\ ingress' = [ingress EXCEPT ![i] = Idle]
    /\ UNCHANGED <<pool, worker, compaction, accepted>>

-----------------------------------------------------------------------------
(* Removal: untrack the packets, then remove their tasks under the mutex. *)

(* clearDeferredPacketsForStream: RST, CLOSE_READ, CLOSE_WRITE, clean-up.    *)
ClearStream(i, lane) ==
    /\ ingress[i] = Idle
    /\ Untrack({lane})
    /\ ingress' = [ingress EXCEPT ![i] = Removing({lane}, FALSE)]
    /\ UNCHANGED <<pool, worker, compaction, accepted>>

(* clearDeferredPacketsForSession, then cleanupDeferredSessionState.         *)
ClearSession(i, s) ==
    /\ ingress[i] = Idle
    /\ Untrack(LanesOf(s))
    /\ ingress' = [ingress EXCEPT ![i] = Removing(LanesOf(s), TRUE)]
    /\ UNCHANGED <<pool, worker, compaction, accepted>>

Compacting(who, D) == [by |-> who, drop |-> D, at |-> 1, kept |-> <<>>]

(* RemoveLane and RemoveSession up to the compaction: cancel what runs, mark *)
(* the lanes.  RemoveSession marks only lanes that have a worker.            *)
RemoveLanes(i) ==
    /\ MutexFree
    /\ ingress[i].op = "remove"
    /\ LET D == ingress[i].lanes
           hit == {running[l] : l \in D} \ {NoWorker}
       IN  /\ worker' = [w \in Workers |->
                            IF w \in hit THEN [worker[w] EXCEPT !.ctxErr = TRUE] ELSE worker[w]]
           /\ running' = [l \in Lanes |-> IF l \in D THEN NoWorker ELSE running[l]]
           /\ cancelled' = cancelled \cup
                  {l \in D : ingress[i].session => laneWorker[l] # NoWorker}
           /\ laneWorker' = [l \in Lanes |-> IF l \in D THEN NoWorker ELSE laneWorker[l]]
           /\ compaction' = Compacting(i, D)
    /\ ingress' = [ingress EXCEPT ![i] = Locked]
    /\ UNCHANGED <<jobs, pending, sessionPending, nextWorker, deferredInflight,
                   accepted, raced>>

(* decrementSessionPendingLocked *)
Release(s) == sessionPending' = [sessionPending EXCEPT ![s] = IF @ > 1 THEN @ - 1 ELSE 0]

(* Mutant: the task of a lane that has no worker is not counted down. *)
DropTaskUnmapped(t, c) ==
    /\ pending' = [pending EXCEPT ![c] = @ - 1]
    /\ laneWorker' = [laneWorker EXCEPT ![TaskLane(t)] = NoWorker]
    /\ IF laneWorker[TaskLane(t)] # NoWorker THEN Release(TaskLane(t)[1])
                                             ELSE UNCHANGED sessionPending

DropTask(t, c) ==
    /\ pending' = [pending EXCEPT ![c] = @ - 1]
    /\ laneWorker' = [laneWorker EXCEPT ![TaskLane(t)] = NoWorker]
    /\ Release(TaskLane(t)[1])

(* compactWorkerLocked takes the head of the channel and drops or keeps it.  *)
CompactTake ==
    /\ ~MutexFree
    /\ LET c == compaction.at
           t == Head(jobs[c])
           drop == TaskLane(t) \in compaction.drop \cup cancelled
       IN  /\ jobs[c] # <<>>
           /\ jobs' = [jobs EXCEPT ![c] = Tail(@)]
           /\ \/ /\ drop
                 /\ DropTask(t, c)
                 /\ UNCHANGED compaction
              \/ /\ ~drop
                 /\ compaction' = [compaction EXCEPT !.kept = Append(@, t)]
                 /\ UNCHANGED <<pending, laneWorker, sessionPending>>
    /\ UNCHANGED <<cancelled, running, nextWorker, deferredInflight, worker, ingress,
                   accepted, raced>>

(* Put back what was kept; after the last worker release the mutex.          *)
CompactPutBack ==
    /\ ~MutexFree
    /\ jobs[compaction.at] = <<>>
    /\ jobs' = [jobs EXCEPT ![compaction.at] = compaction.kept]
    /\ \/ /\ compaction.at < NumWorkers
          /\ compaction' = [compaction EXCEPT !.at = @ + 1, !.kept = <<>>]
          /\ UNCHANGED <<ingress, worker>>
       \/ /\ compaction.at = NumWorkers
          /\ compaction' = Free
          /\ \/ /\ compaction.by \in Ingress
                /\ ingress' = [ingress EXCEPT ![compaction.by] = Idle]
                /\ UNCHANGED worker
             \/ /\ compaction.by \in Workers
                /\ Goto(compaction.by, "ending")
                /\ UNCHANGED ingress
    /\ UNCHANGED <<pending, laneWorker, cancelled, running, sessionPending, nextWorker,
                   deferredInflight, accepted, raced>>

-----------------------------------------------------------------------------
(* runDeferredWorker. *)

(* The receive from the channel takes no lock. *)
Receive(w) ==
    /\ worker[w].pc = "idle" /\ jobs[w] # <<>>
    /\ jobs' = [jobs EXCEPT ![w] = Tail(@)]
    /\ worker' = [worker EXCEPT ![w] = [pc |-> "held", task |-> Head(jobs[w]), ctxErr |-> FALSE]]
    /\ UNCHANGED <<pending, laneWorker, cancelled, running, sessionPending, nextWorker,
                   deferredInflight, ingress, compaction, accepted, raced>>

(* beginTaskContext: a cancelled lane's task gets a dead context and no entry. *)
BeginTask(w) ==
    /\ MutexFree
    /\ worker[w].pc = "held"
    /\ LET dead == LaneOf(w) \in cancelled
       IN  /\ worker' = [worker EXCEPT ![w].pc = "begun", ![w].ctxErr = dead]
           /\ running' = IF dead THEN running ELSE [running EXCEPT ![LaneOf(w)] = w]
    /\ UNCHANGED <<jobs, pending, laneWorker, cancelled, sessionPending, nextWorker,
                   deferredInflight, ingress, compaction, accepted, raced>>

(* The checks of wrappedRun that decide whether the handler is called; the   *)
(* third, shouldExecuteDeferredPacket, may fail at any time.                 *)
MayHandle(w) == ~worker[w].ctxErr /\ worker[w].task.packet \in deferredInflight

StartHandler(w) ==
    /\ worker[w].pc = "begun"
    /\ MayHandle(w)
    /\ Goto(w, "handling")
    /\ UNCHANGED <<pool, deferredInflight, ingress, compaction, accepted, raced>>

(* The handler ends without a verdict for the stream (cancelled, stale,      *)
(* fragments missing), after one ("ending"), or is not called ("begun").     *)
(* finishDeferredPacket is deferred by wrappedRun and always runs.           *)
Return(w) ==
    /\ worker[w].pc \in {"begun", "handling", "ending"}
    /\ UntrackPacket(worker[w].task.packet)
    /\ Goto(w, "returned")
    /\ UNCHANGED <<pool, ingress, compaction, accepted>>

(* The handler has answered CONNECTED or a failure: finalizeDeferredPackets- *)
(* ForStream untracks the stream's packets ...                               *)
FinalizeStream(w) ==
    /\ worker[w].pc = "handling"
    /\ Untrack({LaneOf(w)})
    /\ Goto(w, "finalizing")
    /\ UNCHANGED <<pool, ingress, compaction, accepted>>

(* ... and FinalizeLane drops the lane's queued tasks; nothing is cancelled. *)
FinalizeLane(w) ==
    /\ MutexFree
    /\ worker[w].pc = "finalizing"
    /\ laneWorker' = [laneWorker EXCEPT ![LaneOf(w)] = NoWorker]
    /\ cancelled' = cancelled \cup {LaneOf(w)}
    /\ compaction' = Compacting(w, {LaneOf(w)})
    /\ Goto(w, "locked")
    /\ UNCHANGED <<jobs, pending, running, sessionPending, nextWorker, deferredInflight,
                   ingress, accepted, raced>>

(* worker.pending.Add(-1) is atomic and takes no lock. *)
Unpend(w) ==
    /\ worker[w].pc = "returned"
    /\ pending' = [pending EXCEPT ![w] = @ - 1]
    /\ Goto(w, "unpended")
    /\ UNCHANGED <<jobs, laneWorker, cancelled, running, sessionPending, nextWorker,
                   deferredInflight, ingress, compaction, accepted, raced>>

(* finishLane drops the lane's worker if it is this one, and the lane's       *)
(* CancelFunc whoever registered it: the context it cancels may be another    *)
(* worker's.                                                                  *)
FinishLane(w) ==
    /\ MutexFree
    /\ worker[w].pc = "unpended"
    /\ LET l == LaneOf(w)
           hit == running[l]
           idle == [worker EXCEPT ![w] = [pc |-> "idle", task |-> NoTask, ctxErr |-> FALSE]]
       IN  /\ laneWorker' = IF laneWorker[l] = w THEN [laneWorker EXCEPT ![l] = NoWorker]
                                                 ELSE laneWorker
           /\ worker' = IF hit \in Workers \ {w} THEN [idle EXCEPT ![hit].ctxErr = TRUE]
                                                 ELSE idle
           /\ running' = [running EXCEPT ![l] = NoWorker]
           /\ cancelled' = cancelled \ {l}
           /\ Release(l[1])
    /\ UNCHANGED <<jobs, pending, nextWorker, deferredInflight, ingress, compaction,
                   accepted, raced>>

-----------------------------------------------------------------------------
IngressNext(i) ==
    \/ \E p \in Packets : BeginDispatch(i, p)
    \/ Enqueue(i) \/ GiveUp(i) \/ RemoveLanes(i)
    \/ \E l \in Clearable : ClearStream(i, l)
    \/ \E s \in {r \in Sessions : LanesOf(r) \subseteq Clearable} : ClearSession(i, s)

CompactNext == CompactTake \/ CompactPutBack

WorkerNext(w) ==
    \/ Receive(w) \/ BeginTask(w) \/ StartHandler(w) \/ Return(w)
    \/ FinalizeStream(w) \/ FinalizeLane(w) \/ Unpend(w) \/ FinishLane(w)

Next == (\E i \in Ingress : IngressNext(i)) \/ CompactNext \/ (\E w \in Workers : WorkerNext(w))

Spec == Init /\ [][Next]_vars

-----------------------------------------------------------------------------
Busy(w) == worker[w].pc # "idle"
Kept(w) == IF ~MutexFree /\ compaction.at = w THEN compaction.kept ELSE <<>>
Queued == UNION {Range(jobs[w]) \cup Range(Kept(w)) : w \in Workers}
Held == {worker[w].task : w \in {v \in Workers : Busy(v)}}

(* The counters that admission control and the choice of a worker rely on    *)
(* count exactly the tasks queued or held, whatever removals, finalizations  *)
(* and concurrent receives did; so no session ever exceeds its cap.          *)
PendingIsExact ==
    /\ \A s \in Sessions :
        sessionPending[s] = Cardinality({t \in Queued \cup Held : TaskLane(t)[1] = s})
    /\ \A w \in Workers :
        pending[w] = Len(jobs[w]) + Len(Kept(w))
                     + (IF Busy(w) /\ worker[w].pc # "unpended" THEN 1 ELSE 0)

(* Outside a removal no task waits in the queue of a lane marked cancelled:  *)
(* such a task would be accepted and acknowledged, and then never run.       *)
CancelledLanesNotQueued ==
    MutexFree => \A w \in Workers : \A t \in Range(jobs[w]) : TaskLane(t) \notin cancelled

(* A tracked packet is being dispatched or has a task queued or held: else    *)
(* its retransmissions would be acknowledged as pending for ever and nothing  *)
(* would run them.  One race escapes: a packet dispatched after a removal     *)
(* untracked its lane and before it dropped the lane's tasks.                 *)
MarkLeaksOnlyInRace ==
    \A p \in deferredInflight \ raced :
        \/ \E i \in Ingress : ingress[i] \in {Dispatching(p), GivingUp(p)}
        \/ \E t \in Queued \cup Held : t.packet = p

=============================================================================
