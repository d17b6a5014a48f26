----------------------------- MODULE DNSProofs -----------------------------
(***************************************************************************)
(* Proofs about DNSPath: no query has two tasks, and no entry of the       *)
(* inflight table is left without a leader unless a lookup panicked; for   *)
(* any set of queries, any number of fragments, upstreams and faults.      *)
(***************************************************************************)
EXTENDS DNSPath, FiniteSetTheorems, TLAPS

-----------------------------------------------------------------------------
(* The invariant.                                                          *)

Numbers == Queries \cup {Old}
Fragments(frags) == [got : SUBSET frags, done : BOOLEAN]

TypedParts ==
  /\ DOMAIN worker = {"at", "for", "value", "left", "hedged"}
  /\ worker.for \in Numbers /\ tasks \in Seq(Numbers)
  /\ parts \in [Queries -> Fragments(UpFrags)]
  /\ DOMAIN answer = Queries

(* Two places in the queue are of two queries, neither the worker's.       *)
QueuedApart ==
  \A i, j \in DOMAIN tasks : tasks[i] = tasks[j] /\ tasks[i] # Old => i = j

WorkedOnIsNotQueued == \A i \in DOMAIN tasks : tasks[i] # Old => tasks[i] # worker.for

(* A query that has a task was completed and is not answered yet; so a     *)
(* copy of a fragment makes no other task of it, and its number is not     *)
(* used again before.                                                      *)
WorkIsOnComplete ==
  \A q \in Queries : Working(q) => parts[q].done /\ answer[q] = None

AnsweredIsComplete == \A q \in Queries : answer[q] # None => parts[q].done

TaskInv ==
  TypedParts /\ QueuedApart /\ WorkedOnIsNotQueued /\ WorkIsOnComplete /\ AnsweredIsComplete

-----------------------------------------------------------------------------
(* Helpers.                                                                *)

LEMMA CollectedKeeps ==
  ASSUME NEW all, NEW store \in Fragments(all), NEW frag \in all
  PROVE  /\ Collected(store, frag, all) \in Fragments(all)
         /\ store.done => Collected(store, frag, all).done
         /\ Completes(store, frag, all) => Collected(store, frag, all).done
  BY DEF Collected, Completes, Fragments

LEMMA EmptyIsNotDone == Empty \in Fragments(UpFrags) /\ ~Empty.done
  BY DEF Empty, Fragments

LEMMA WaitingIsOnOld ==
  DOMAIN Waiting = {"at", "for", "value", "left", "hedged"} /\ Waiting.for = Old /\ Old \in Numbers
  BY DEF Waiting, Numbers

(* The invariant speaks of the query the worker is at, not of its step.    *)
WorkerStaysAt == worker'.for = worker.for /\ DOMAIN worker' = DOMAIN worker

LEMMA WorkerStepKeeps ==
  ASSUME TaskInv, WorkerStaysAt, UNCHANGED <<tasks, parts, answer>>
  PROVE  TaskInv'
  BY DEF TaskInv, WorkerStaysAt, TypedParts, QueuedApart, WorkedOnIsNotQueued,
         WorkIsOnComplete, AnsweredIsComplete, Working

LEMMA WorkerLeavesKeeps ==
  ASSUME TaskInv, worker' = Waiting, UNCHANGED <<tasks, parts, answer>>
  PROVE  TaskInv'
  BY WaitingIsOnOld, OldAssumption
  DEF TaskInv, TypedParts, QueuedApart, WorkedOnIsNotQueued, WorkIsOnComplete,
      AnsweredIsComplete, Working, Numbers

-----------------------------------------------------------------------------
(* The steps that concern tasks.                                           *)

LEMMA DeliverQueryKeeps ==
  ASSUME TaskInv, NEW q \in Queries, NEW f \in UpFrags, DeliverQuery(q, f)
  PROVE  TaskInv'
  <1> USE DEF TaskInv
  <1>1. /\ parts' = [parts EXCEPT ![q] = Collected(parts[q], f, UpFrags)]
        /\ parts' \in [Queries -> Fragments(UpFrags)]
        /\ \A p \in Queries : parts[p].done => parts'[p].done
        /\ Completes(parts[q], f, UpFrags) => parts'[q].done
        /\ UNCHANGED <<worker, answer>>
    BY CollectedKeeps DEF DeliverQuery, TypedParts, serverVars
  <1>2. CASE UNCHANGED tasks
    BY <1>1, <1>2 DEF TypedParts, QueuedApart, WorkedOnIsNotQueued, WorkIsOnComplete,
                      AnsweredIsComplete, Working
  <1>3. CASE tasks' = Append(tasks, q) /\ Completes(parts[q], f, UpFrags)
    <2>1. ~Working(q) /\ answer[q] = None
      BY <1>3 DEF WorkIsOnComplete, AnsweredIsComplete, Completes
    <2>2. /\ tasks' \in Seq(Numbers) /\ DOMAIN tasks' = DOMAIN tasks \cup {Len(tasks) + 1}
          /\ tasks'[Len(tasks) + 1] = q /\ \A i \in DOMAIN tasks : tasks'[i] = tasks[i]
      BY <1>3 DEF TypedParts, Numbers
    <2>3. TypedParts'
      BY <1>1, <2>2 DEF TypedParts
    <2>4. QueuedApart' /\ WorkedOnIsNotQueued'
      BY <1>1, <2>1, <2>2 DEF QueuedApart, WorkedOnIsNotQueued, Working
    <2>5. \A p \in Queries : Working(p)' => p = q \/ Working(p)
      BY <1>1, <2>2 DEF Working
    <2> QED BY <1>1, <1>3, <2>1, <2>3, <2>4, <2>5 DEF WorkIsOnComplete, AnsweredIsComplete
  <1> QED BY <1>2, <1>3 DEF DeliverQuery

LEMMA StartTaskKeeps ==
  ASSUME TaskInv, StartTask
  PROVE  TaskInv'
  <1> USE DEF TaskInv
  <1>1. /\ UNCHANGED <<parts, answer>> /\ tasks # << >> /\ tasks' = Tail(tasks)
    BY DEF StartTask, pathVars
  <1>2. /\ tasks' \in Seq(Numbers) /\ Head(tasks) \in Numbers /\ Head(tasks) = tasks[1]
        /\ 1 \in DOMAIN tasks
        /\ \A i \in DOMAIN tasks' : i + 1 \in DOMAIN tasks /\ tasks'[i] = tasks[i + 1] /\ i \in Nat \ {0}
    BY <1>1 DEF TypedParts
  <1>3. /\ DOMAIN worker' = {"at", "for", "value", "left", "hedged"}
        /\ worker'.for = Head(tasks) \/ (Head(tasks) = Old /\ worker'.for = worker.for)
    BY WaitingIsOnOld DEF StartTask, TypedParts, Waiting
  <1>4. TypedParts'
    BY <1>1, <1>2, <1>3 DEF TypedParts
  <1>5. QueuedApart'
    BY <1>2 DEF QueuedApart
  <1>6. WorkedOnIsNotQueued'
    BY <1>2, <1>3 DEF QueuedApart, WorkedOnIsNotQueued
  <1>7. \A p \in Queries : Working(p)' => Working(p)
    BY <1>2, <1>3 DEF Working
  <1> QED BY <1>1, <1>4, <1>5, <1>6, <1>7 DEF WorkIsOnComplete, AnsweredIsComplete

LEMMA ReplyKeeps ==
  ASSUME TaskInv, Reply
  PROVE  TaskInv'
  <1> USE DEF TaskInv
  <1>1. worker' = Waiting /\ UNCHANGED <<parts, tasks>>
    BY DEF Reply
  <1>2. CASE UNCHANGED answer
    BY <1>1, <1>2, WorkerLeavesKeeps
  <1>3. CASE worker.for # Old /\ answer' = [answer EXCEPT ![worker.for] = worker.value]
    <2>1. TypedParts'
      BY <1>1, <1>3, WaitingIsOnOld DEF TypedParts
    <2>2. QueuedApart' /\ WorkedOnIsNotQueued'
      BY <1>1, WaitingIsOnOld DEF QueuedApart, WorkedOnIsNotQueued
    <2>3. \A p \in Queries : Working(p)' => Working(p) /\ p # worker.for
      BY <1>1, WaitingIsOnOld, OldAssumption DEF Working, WorkedOnIsNotQueued
    <2>4. \A p \in Queries : p # worker.for => answer'[p] = answer[p]
      BY <1>3 DEF TypedParts
    <2>5. \A p \in Queries : p = worker.for => parts[p].done
      BY DEF WorkIsOnComplete, Working
    <2> QED BY <1>1, <2>1, <2>2, <2>3, <2>4, <2>5 DEF WorkIsOnComplete, AnsweredIsComplete
  <1> QED BY <1>2, <1>3 DEF Reply

LEMMA RetireKeeps ==
  ASSUME TaskInv, NEW q \in Queries, Retire(q)
  PROVE  TaskInv'
  <1> USE DEF TaskInv
  <1>1. /\ parts' = [parts EXCEPT ![q] = Empty] /\ answer' = [answer EXCEPT ![q] = None]
        /\ UNCHANGED <<tasks, worker>>
    BY DEF Retire, serverVars
  <1>2. ~Working(q)
    BY DEF Retire, Over, WorkIsOnComplete
  <1>3. TypedParts' /\ QueuedApart' /\ WorkedOnIsNotQueued'
    BY <1>1, EmptyIsNotDone DEF TypedParts, QueuedApart, WorkedOnIsNotQueued
  <1>4. /\ \A p \in Queries : Working(p)' => Working(p) /\ p # q
        /\ \A p \in Queries : p # q => parts'[p] = parts[p] /\ answer'[p] = answer[p]
        /\ answer'[q] = None
    BY <1>1, <1>2 DEF Working, TypedParts
  <1> QED BY <1>3, <1>4 DEF WorkIsOnComplete, AnsweredIsComplete

LEMMA SessionLostKeeps ==
  ASSUME TaskInv, SessionLost
  PROVE  TaskInv'
  <1> USE DEF TaskInv
  <1>1. /\ parts' = [p \in Queries |-> Empty] /\ answer' = [p \in Queries |-> None]
        /\ tasks' = [i \in DOMAIN tasks |-> Old] /\ worker' = [worker EXCEPT !.for = Old]
    BY DEF SessionLost
  <1>2. tasks' \in Seq(Numbers) /\ \A i \in DOMAIN tasks' : tasks'[i] = Old
    BY <1>1 DEF TypedParts, Numbers
  <1>3. DOMAIN worker' = DOMAIN worker /\ worker'.for = Old
    BY <1>1 DEF TypedParts
  <1>4. TypedParts'
    BY <1>1, <1>2, <1>3, EmptyIsNotDone, WaitingIsOnOld DEF TypedParts
  <1>5. \A p \in Queries : ~Working(p)'
    BY <1>2, <1>3, OldAssumption DEF Working
  <1> QED BY <1>1, <1>2, <1>4, <1>5
          DEF QueuedApart, WorkedOnIsNotQueued, WorkIsOnComplete, AnsweredIsComplete

-----------------------------------------------------------------------------
(* Every step.                                                             *)

LEMMA StepKeepsTasks == TaskInv /\ [Next]_vars => TaskInv'
  <1> SUFFICES ASSUME TaskInv, [Next]_vars PROVE TaskInv'
    OBVIOUS
  <1>1. CASE UNCHANGED <<worker, tasks, parts, answer>>
    BY <1>1, WorkerStepKeeps DEF WorkerStaysAt
  <1>2. CASE Ask \/ Dispatch \/ PendingTimeout \/ Forgotten
    BY <1>1, <1>2 DEF Ask, Dispatch, PendingTimeout, Forgotten, pathVars, serverVars
  <1>3. CASE Deliver
    BY <1>3, DeliverQueryKeeps DEF Deliver
  <1>4. CASE Arrive
    BY <1>1, <1>4 DEF Arrive, DeliverAnswer, serverVars
  <1>5. CASE \E q \in Queries : GiveUp(q) \/ Retire(q)
    BY <1>1, <1>5, RetireKeeps DEF GiveUp, serverVars
  <1>6. CASE \E value \in Answers : Resolve(value)
    <2>1. WorkerStaysAt /\ UNCHANGED <<tasks, parts, answer>>
      BY <1>6 DEF Resolve, WorkerStaysAt, pathVars, TaskInv, TypedParts
    <2> QED BY <2>1, WorkerStepKeeps
  <1>7. CASE Look
    <2>1. CASE UNCHANGED <<tasks, parts, answer>> /\ WorkerStaysAt
      BY <2>1, WorkerStepKeeps
    <2>2. CASE UpstreamFails
      BY <1>6, <2>1, <2>2 DEF UpstreamFails, WorkerStaysAt, pathVars, TaskInv, TypedParts, Answers
    <2>3. CASE HedgeTimer
      BY <2>1, <2>3 DEF HedgeTimer, WorkerStaysAt, pathVars, TaskInv, TypedParts
    <2> QED BY <1>6, <1>7, <2>2, <2>3 DEF Look, UpstreamAnswers, Deadline, Answers
  <1>8. CASE WaitTimesOut
    <2>1. WorkerStaysAt /\ UNCHANGED <<tasks, parts, answer>>
      BY <1>8 DEF WaitTimesOut, WorkerStaysAt, pathVars, TaskInv, TypedParts
    <2> QED BY <2>1, WorkerStepKeeps
  <1>9. CASE Work
    BY <1>8, <1>9, StartTaskKeeps, ReplyKeeps DEF Work
  <1>10. CASE LookupPanics
    BY <1>10, WorkerLeavesKeeps DEF LookupPanics, pathVars
  <1>11. CASE EntryExpires \/ ServerForgets \/ SessionUp
    BY <1>1, <1>11 DEF EntryExpires, ServerForgets, SessionUp, pathVars, serverVars
  <1>12. CASE Restart \/ Crash
    BY <1>12, SessionLostKeeps DEF Restart, Crash
  <1>13. CASE UNCHANGED vars
    BY <1>1, <1>13 DEF vars, pathVars, serverVars
  <1> QED BY <1>2, <1>3, <1>4, <1>5, <1>7, <1>9, <1>10, <1>11, <1>12, <1>13 DEF Next

LEMMA TasksStart == Init => TaskInv
  <1> SUFFICES ASSUME Init PROVE TaskInv
    OBVIOUS
  <1>1. DOMAIN tasks = {} /\ tasks \in Seq(Numbers) /\ worker.for = Old
    BY WaitingIsOnOld DEF Init
  <1>2. \A q \in Queries : ~Working(q) /\ answer[q] = None
    BY <1>1, OldAssumption DEF Init, Working
  <1> QED BY <1>1, <1>2, EmptyIsNotDone, WaitingIsOnOld
          DEF Init, TaskInv, TypedParts, QueuedApart, WorkedOnIsNotQueued, WorkIsOnComplete,
              AnsweredIsComplete

-----------------------------------------------------------------------------
(* Places in the queue that are all one place.                             *)
LEMMA FewPlaces ==
  ASSUME NEW S, \A i, j \in S : i = j
  PROVE  Cardinality(S) \in {0, 1} /\ (S = {} => Cardinality(S) = 0)
  <1>1. CASE S = {}
    BY <1>1, FS_EmptySet
  <1>2. CASE S # {}
    <2>1. PICK x : S = {x}
      BY <1>2
    <2> QED BY <1>2, <2>1, FS_Singleton
  <1> QED BY <1>1, <1>2

LEMMA TasksAreOne == TaskInv => OneTaskPerQuery
  <1> SUFFICES ASSUME TaskInv, NEW q \in Queries
               PROVE  Cardinality({i \in DOMAIN tasks : tasks[i] = q})
                        + (IF worker.for = q THEN 1 ELSE 0) <= 1
    BY DEF OneTaskPerQuery
  <1> DEFINE S == {i \in DOMAIN tasks : tasks[i] = q}
  <1>1. \A i, j \in S : i = j
    BY OldAssumption DEF TaskInv, QueuedApart
  <1>2. worker.for = q => S = {}
    BY OldAssumption DEF TaskInv, WorkedOnIsNotQueued
  <1>3. Cardinality(S) \in {0, 1} /\ (S = {} => Cardinality(S) = 0)
    BY <1>1, FewPlaces
  <1> QED BY <1>2, <1>3

(* A query is looked up once, however often its fragments are sent again   *)
(* and whatever the sessions do: processDeferredDNSQuery of the server     *)
(* after Collect.                                                          *)
THEOREM QueryHasOneTask == Spec => []OneTaskPerQuery
  BY TasksStart, StepKeepsTasks, TasksAreOne, PTL DEF Spec

-----------------------------------------------------------------------------
LeaderInv ==
  /\ DOMAIN worker = {"at", "for", "value", "left", "hedged"}
  /\ EntryHasLeader

LEMMA WaitingForWhom ==
  ASSUME NEW at, NEW q, NEW value, NEW left
  PROVE  LET w == [Waiting EXCEPT !.for = q, !.at = at, !.value = value, !.left = left]
         IN  DOMAIN w = {"at", "for", "value", "left", "hedged"} /\ w.at = at
  BY DEF Waiting

LEMMA StepKeepsLeader == LeaderInv /\ [Next]_vars => LeaderInv'
  <1> SUFFICES ASSUME LeaderInv, [Next]_vars PROVE LeaderInv'
    OBVIOUS
  <1> USE DEF LeaderInv, EntryHasLeader
  <1>1. CASE UNCHANGED <<worker, entry, orphaned>>
    BY <1>1
  <1>2. CASE \E value \in Answers : Resolve(value)
    BY <1>2 DEF Resolve
  <1>3. CASE UpstreamFails \/ HedgeTimer
    BY <1>2, <1>3 DEF UpstreamFails, HedgeTimer, Answers
  <1>4. CASE StartTask
    <2>1. /\ DOMAIN worker' = {"at", "for", "value", "left", "hedged"}
          /\ worker'.at = "lookup" \/ (entry' => entry)
      <3>1. CASE UNCHANGED <<worker, entry>>
        BY <3>1
      <3>2. CASE ~UNCHANGED <<worker, entry>>
        <4> DEFINE at == IF known THEN "reply" ELSE IF entry THEN "waiting" ELSE "lookup"
        <4>1. DOMAIN worker' = {"at", "for", "value", "left", "hedged"} /\ worker'.at = at
          BY <1>4, <3>2, WaitingForWhom DEF StartTask
        <4>2. entry' => entry \/ ~known
          BY <1>4, <3>2 DEF StartTask
        <4>3. at = "lookup" \/ known \/ entry
          OBVIOUS
        <4> HIDE DEF at
        <4> QED BY <4>1, <4>2, <4>3
      <3> QED BY <3>1, <3>2
    <2>2. worker.at = "idle" /\ orphaned' = orphaned
      BY <1>4 DEF StartTask
    <2> QED BY <2>1, <2>2
  <1>5. CASE WaitTimesOut
    BY <1>5 DEF WaitTimesOut
  <1>6. CASE Reply
    BY <1>6, WaitingIsOnOld DEF Reply
  <1>7. CASE LookupPanics
    BY <1>7, WaitingIsOnOld DEF LookupPanics
  <1>8. CASE EntryExpires \/ ServerForgets
    <2>1. worker' = worker /\ (entry' => entry /\ orphaned' = orphaned)
      BY <1>8 DEF EntryExpires, ServerForgets
    <2> QED BY <2>1
  <1>9. CASE Restart \/ Crash
    BY <1>9 DEF Restart, Crash, SessionLost
  <1>10. CASE Look \/ Work
    BY <1>2, <1>3, <1>4, <1>5, <1>6, <1>10 DEF Look, Work, UpstreamAnswers, Deadline, Answers
  <1>11. CASE \/ Ask \/ Dispatch \/ PendingTimeout \/ Forgotten \/ Deliver \/ Arrive \/ SessionUp
              \/ \E q \in Queries : GiveUp(q) \/ Retire(q)
              \/ UNCHANGED vars
    BY <1>1, <1>11 DEF Ask, Dispatch, PendingTimeout, Forgotten, Deliver, DeliverQuery, Arrive,
                       DeliverAnswer, SessionUp, GiveUp, Retire, vars, serverVars
  <1> QED BY <1>7, <1>8, <1>9, <1>10, <1>11 DEF Next

(* An entry of the inflight table that no lookup is under way for is what  *)
(* a lookup that panicked has left: no other end of a lookup, and no other *)
(* fault, lets the queries for its name wait in vain.                      *)
THEOREM EntriesAreLed == Spec => []EntryHasLeader
  <1>1. Init => LeaderInv
    <2> SUFFICES ASSUME Init PROVE LeaderInv
      OBVIOUS
    <2>1. ~entry /\ worker = Waiting
      BY DEF Init
    <2> QED BY <2>1, WaitingIsOnOld DEF LeaderInv, EntryHasLeader
  <1>2. LeaderInv => EntryHasLeader
    BY DEF LeaderInv
  <1> QED BY <1>1, <1>2, StepKeepsLeader, PTL DEF Spec

=============================================================================
