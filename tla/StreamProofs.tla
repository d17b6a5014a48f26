---------------------------- MODULE StreamProofs ----------------------------
(***************************************************************************)
(* Proofs about the set-up of a stream: no upstream connection is without  *)
(* an owner, and a success that is told is true, for any number of tasks,  *)
(* streams, dials, fragments and packets on the way.                       *)
(***************************************************************************)
EXTENDS StreamSetup, TLAPS

Stages == {"live", "reset", "closed", "deleted", "gone"}
Steps == {"idle", "start", "create", "dial", "dialled", "attach", "attached"}
Stream == [stage : Stages, connected : BOOLEAN, conn : Nat]
Copies == {"SYN1", "SYN2"}
Task == [at : Steps, syn : Copies, on : Nat, live : BOOLEAN, alone : BOOLEAN, conn : Nat]
Lane == [queue : Seq(Copies), cancelled : BOOLEAN, running : Tasks \cup {Nil}]

-----------------------------------------------------------------------------
(* The invariant of the server's side.                                     *)

ServerTypeOK ==
  /\ session \in {"open", "closing", "closed"}
  /\ streams \in Seq(Stream)
  /\ current \in 0..Len(streams)
  /\ lane \in Lane
  /\ tasks \in [Tasks -> Task]
  /\ dials \in Nat
  /\ open \subseteq 1..dials

(* A task has a connection from its dial on, and a stream for it; once it  *)
(* is attached the stream has it, until the clean-up that closes it.       *)
TasksAreSound ==
  \A t \in Tasks :
    /\ tasks[t].conn <= dials
    /\ tasks[t].at \in {"idle", "start", "create", "dial"} => tasks[t].conn = Nil
    /\ tasks[t].at \in {"dial", "dialled", "attach", "attached"} => tasks[t].on \in DOMAIN streams
    /\ tasks[t].at = "attached" =>
         streams[tasks[t].on].conn = tasks[t].conn \/ tasks[t].conn \notin open

CleanedUpHasNone ==
  \A i \in DOMAIN streams : streams[i].stage \in {"deleted", "gone"} => streams[i].conn = Nil

ServerInv == ServerTypeOK /\ TasksAreSound /\ CleanedUpHasNone /\ EveryConnectionHasOwner

(* What a step does to the tasks' part in it: those in ended are idle,     *)
(* and the others are where they were.                                     *)
OnlyEnds(ended) ==
  /\ tasks' \in [Tasks -> Task]
  /\ \A u \in Tasks \ ended :
       tasks'[u].at = tasks[u].at /\ tasks'[u].on = tasks[u].on /\ tasks'[u].conn = tasks[u].conn
  /\ \A u \in ended : tasks'[u] = Idle

-----------------------------------------------------------------------------
(* The helpers of the lane.                                                *)

LEMMA IdleIsTask == Idle \in Task
  BY DEF Idle, Task, Steps, Copies, Nil

LEMMA LaneEmptied == lane \in Lane => Emptied \in Lane
  <1>1. << >> \in Seq(Copies)
    OBVIOUS
  <1> QED BY <1>1 DEF Emptied, Lane

LEMMA CancelKeeps ==
  ASSUME NEW ts \in [Tasks -> Task], lane \in Lane
  PROVE  /\ Cancelled(ts) \in [Tasks -> Task]
         /\ \A u \in Tasks : /\ Cancelled(ts)[u].at = ts[u].at /\ Cancelled(ts)[u].on = ts[u].on
                             /\ Cancelled(ts)[u].conn = ts[u].conn
  BY ZenonT(60) DEF Cancelled, Lane, Task, Nil

LEMMA DetachKeeps ==
  ASSUME tasks \in [Tasks -> Task]
  PROVE  /\ Detached \in [Tasks -> Task]
         /\ \A u \in Tasks : /\ Detached[u].at = tasks[u].at /\ Detached[u].on = tasks[u].on
                             /\ Detached[u].conn = tasks[u].conn
  BY DEF Detached, Task

LEMMA ClearLaneKeeps ==
  ASSUME ServerTypeOK, ClearLane
  PROVE  lane' \in Lane /\ OnlyEnds({})
  <1>1. lane' \in Lane
    BY LaneEmptied DEF ServerTypeOK, ClearLane, Lane, Nil
  <1>2. OnlyEnds({})
    BY DetachKeeps, CancelKeeps DEF ServerTypeOK, ClearLane, OnlyEnds
  <1> QED BY <1>1, <1>2

LEMMA FinishedKeeps ==
  ASSUME ServerTypeOK, NEW t \in Tasks, NEW before \in Lane, NEW ts \in [Tasks -> Task],
         \A u \in Tasks : ts[u].at = tasks[u].at /\ ts[u].on = tasks[u].on /\ ts[u].conn = tasks[u].conn,
         Finished(t, before, ts)
  PROVE  lane' \in Lane /\ OnlyEnds({t})
  <1>1. lane' \in Lane
    BY DEF Finished, Lane, Nil
  <1>2. OnlyEnds({t})
    BY CancelKeeps, IdleIsTask DEF ServerTypeOK, Finished, OnlyEnds
  <1> QED BY <1>1, <1>2

LEMMA EndKeeps ==
  ASSUME ServerTypeOK, NEW t \in Tasks, EndTask(t)
  PROVE  lane' \in Lane /\ OnlyEnds({t})
  BY FinishedKeeps DEF ServerTypeOK, EndTask

LEMMA FinalizeKeeps ==
  ASSUME ServerTypeOK, NEW t \in Tasks, FinalizeAndEnd(t)
  PROVE  lane' \in Lane /\ OnlyEnds({t})
  BY FinishedKeeps, DetachKeeps, LaneEmptied DEF ServerTypeOK, FinalizeAndEnd

-----------------------------------------------------------------------------
(* What becomes of the ownership when streams keep their connections.      *)

Alive == {"live", "reset", "closed"}

StreamsKeep ==
  /\ streams' \in Seq(Stream)
  /\ DOMAIN streams \subseteq DOMAIN streams'
  /\ \A i \in DOMAIN streams : /\ streams'[i].conn = streams[i].conn
                               /\ streams[i].stage \in Alive <=> streams'[i].stage \in Alive
  /\ \A i \in DOMAIN streams' \ DOMAIN streams : streams'[i].conn = Nil

Sound == TasksAreSound /\ CleanedUpHasNone /\ EveryConnectionHasOwner

LEMMA StreamFields ==
  ASSUME NEW ss \in Seq(Stream), NEW i \in DOMAIN ss
  PROVE  /\ ss[i] \in Stream /\ ss[i].stage \in Stages /\ ss[i].conn \in Nat
         /\ ss[i].stage \in Alive <=> ss[i].stage \notin {"deleted", "gone"}
  <1>1. ss[i] \in Stream
    OBVIOUS
  <1> QED BY <1>1 DEF Stream, Stages, Alive

LEMMA SetStage ==
  ASSUME NEW ss \in Seq(Stream), NEW i \in DOMAIN ss, NEW stage \in Stages
  PROVE  /\ [ss EXCEPT ![i].stage = stage] \in Seq(Stream)
         /\ Len([ss EXCEPT ![i].stage = stage]) = Len(ss)
  <1>1. [ss[i] EXCEPT !.stage = stage] \in Stream
    BY StreamFields DEF Stream
  <1>2. [ss EXCEPT ![i].stage = stage] = [ss EXCEPT ![i] = [ss[i] EXCEPT !.stage = stage]]
    OBVIOUS
  <1> QED BY <1>1, <1>2

LEMMA StreamsStay ==
  ASSUME ServerTypeOK, UNCHANGED streams
  PROVE  StreamsKeep
  BY DEF ServerTypeOK, StreamsKeep

(* One stream is in another stage, on the same side of the clean-up.       *)
LEMMA StageKeeps ==
  ASSUME ServerTypeOK, NEW i \in DOMAIN streams, NEW stage \in Stages,
         streams[i].stage \in Alive <=> stage \in Alive,
         streams' = [streams EXCEPT ![i].stage = stage]
  PROVE  StreamsKeep /\ Len(streams') = Len(streams)
  <1>1. streams' \in Seq(Stream) /\ Len(streams') = Len(streams)
    BY SetStage DEF ServerTypeOK
  <1>2. DOMAIN streams' = DOMAIN streams
    OBVIOUS
  <1>3. ASSUME NEW k \in DOMAIN streams
        PROVE  /\ streams'[k].conn = streams[k].conn
               /\ streams[k].stage \in Alive <=> streams'[k].stage \in Alive
    <2>1. streams[k] \in Stream
      BY StreamFields DEF ServerTypeOK
    <2> QED BY <2>1 DEF Stream
  <1> QED BY <1>1, <1>2, <1>3 DEF StreamsKeep

LEMMA CreateKeeps ==
  ASSUME ServerTypeOK, CreateStream
  PROVE  /\ StreamsKeep
         /\ current' = Len(streams') /\ current' \in Nat /\ current' \in DOMAIN streams'
         /\ current' \notin DOMAIN streams
         /\ streams'[current'] = NewStream
  <1>1. NewStream \in Stream
    BY DEF NewStream, Stream, Stages, Nil
  <1> QED BY <1>1 DEF ServerTypeOK, CreateStream, StreamsKeep, NewStream

LEMMA CleanedUpKept ==
  ASSUME ServerTypeOK, CleanedUpHasNone, StreamsKeep
  PROVE  CleanedUpHasNone'
  <1> SUFFICES ASSUME NEW i \in DOMAIN streams', streams'[i].stage \in {"deleted", "gone"}
               PROVE  streams'[i].conn = Nil
    BY DEF CleanedUpHasNone
  <1>1. CASE i \notin DOMAIN streams
    BY <1>1 DEF StreamsKeep
  <1>2. CASE i \in DOMAIN streams
    <2>1. streams[i].stage \notin Alive
      BY <1>2 DEF StreamsKeep, Alive
    <2>2. streams[i].stage \in {"deleted", "gone"}
      BY <1>2, <2>1, StreamFields DEF ServerTypeOK
    <2> QED BY <1>2, <2>2 DEF StreamsKeep, CleanedUpHasNone
  <1> QED BY <1>1, <1>2

LEMMA EndingIsSound ==
  ASSUME ServerInv, StreamsKeep, dials' = dials, open' \subseteq open,
         NEW ended \in SUBSET Tasks, OnlyEnds(ended),
         \A u \in ended : tasks[u].conn \in open' =>
           \E i \in DOMAIN streams : streams[i].conn = tasks[u].conn /\ streams[i].stage \in Alive
  PROVE  Sound'
  <1>1. TasksAreSound'
    BY DEF ServerInv, ServerTypeOK, TasksAreSound, OnlyEnds, StreamsKeep, Idle, Nil, Task
  <1>2. CleanedUpHasNone'
    BY CleanedUpKept DEF ServerInv
  <1>3. ASSUME NEW c \in open'
        PROVE  \/ \E t \in Tasks : tasks'[t].conn = c
               \/ \E i \in DOMAIN streams' : streams'[i].conn = c /\ streams'[i].stage \in Alive
    <2>1. CASE \E i \in DOMAIN streams : streams[i].conn = c /\ streams[i].stage \in Alive
      BY <2>1 DEF StreamsKeep
    <2>2. CASE \E t \in Tasks : tasks[t].conn = c
      BY <2>1, <2>2, <1>3 DEF OnlyEnds
    <2> QED BY <2>1, <2>2 DEF ServerInv, EveryConnectionHasOwner, Alive
  <1>4. EveryConnectionHasOwner'
    BY <1>3 DEF EveryConnectionHasOwner, Alive
  <1> QED BY <1>1, <1>2, <1>4 DEF Sound

LEMMA StayingIsSound ==
  ASSUME ServerInv, StreamsKeep, dials' = dials, open' = open, OnlyEnds({})
  PROVE  Sound'
  BY EndingIsSound

LEMMA UnchangedTasksEndNone ==
  ASSUME ServerTypeOK, UNCHANGED tasks
  PROVE  OnlyEnds({})
  BY DEF ServerTypeOK, OnlyEnds

(* A task takes a step on the way to its connection.                       *)
LEMMA MovingIsSound ==
  ASSUME ServerInv, StreamsKeep, dials' = dials, open' = open,
         NEW t \in Tasks, tasks' \in [Tasks -> Task],
         \A u \in Tasks \ {t} : tasks'[u] = tasks[u],
         tasks'[t].conn = tasks[t].conn, tasks'[t].at # "attached",
         tasks'[t].at \in {"idle", "start", "create", "dial"} => tasks[t].conn = Nil,
         tasks'[t].at \in {"dial", "dialled", "attach"} => tasks'[t].on \in DOMAIN streams'
  PROVE  Sound'
  <1>1. TasksAreSound'
    BY DEF ServerInv, ServerTypeOK, TasksAreSound, StreamsKeep
  <1>2. CleanedUpHasNone'
    BY CleanedUpKept DEF ServerInv
  <1>3. EveryConnectionHasOwner'
    BY DEF ServerInv, EveryConnectionHasOwner, StreamsKeep, Alive
  <1> QED BY <1>1, <1>2, <1>3 DEF Sound

-----------------------------------------------------------------------------
(* The server's steps keep its invariant: packets first.                   *)

Kept == UNCHANGED <<session, streams, current, open, dials>>

LEMMA NothingMoves ==
  ASSUME ServerInv, Kept, lane' \in Lane, OnlyEnds({})
  PROVE  ServerInv'
  <1>1. Sound'
    BY StayingIsSound, StreamsStay DEF ServerInv, Kept
  <1>2. ServerTypeOK'
    BY DEF ServerInv, ServerTypeOK, Kept, OnlyEnds
  <1> QED BY <1>1, <1>2 DEF Sound, ServerInv

LEMMA SynsAreCopies == Syns \subseteq Copies
  BY DEF Syns, Copies

LEMMA SynAgainKeeps ==
  ASSUME ServerInv, NEW p \in ToServer, SynAgain(p)
  PROVE  ServerInv'
  BY NothingMoves, ClearLaneKeeps DEF ServerInv, SynAgain, ClearArtifacts, Kept

LEMMA DispatchSynKeeps ==
  ASSUME ServerInv, NEW p \in ToServer, DispatchSyn(p)
  PROVE  ServerInv'
  <1>1. p \in Copies
    BY SynsAreCopies DEF DispatchSyn
  <1>2. lane.queue \in Seq(Copies)
    BY DEF ServerInv, ServerTypeOK, Lane
  <1>3. Append(lane.queue, p) \in Seq(Copies)
    BY <1>1, <1>2
  <1>4. lane' \in Lane
    BY <1>3 DEF ServerInv, ServerTypeOK, DispatchSyn, Lane
  <1>5. OnlyEnds({})
    BY UnchangedTasksEndNone DEF ServerInv, DispatchSyn
  <1> QED BY <1>4, <1>5, NothingMoves DEF DispatchSyn, Kept

LEMMA AckSynKeeps ==
  ASSUME ServerInv, NEW p \in ToServer, AckSyn(p)
  PROVE  ServerInv'
  <1>1. CASE UNCHANGED <<streams, current>>
    <2>1. OnlyEnds({}) /\ lane' \in Lane
      BY UnchangedTasksEndNone DEF ServerInv, ServerTypeOK, AckSyn, laneVars
    <2> QED BY <1>1, <2>1, NothingMoves DEF AckSyn, Kept
  <1>2. CASE CreateStream
    <2>1. OnlyEnds({})
      BY UnchangedTasksEndNone DEF ServerInv, AckSyn, laneVars
    <2>2. Sound'
      BY <1>2, <2>1, CreateKeeps, StayingIsSound DEF ServerInv, AckSyn
    <2>3. ServerTypeOK'
      BY <1>2, CreateKeeps DEF ServerInv, ServerTypeOK, AckSyn, laneVars, StreamsKeep
    <2> QED BY <2>2, <2>3 DEF Sound, ServerInv
  <1> QED BY <1>1, <1>2 DEF AckSyn

LEMMA ReceiveResetKeeps ==
  ASSUME ServerInv, ReceiveReset
  PROVE  ServerInv'
  <1>1. CASE UNCHANGED streams
    <2>1. lane' \in Lane /\ OnlyEnds({})
      BY ClearLaneKeeps, UnchangedTasksEndNone
      DEF ServerInv, ServerTypeOK, ReceiveReset, laneVars
    <2> QED BY <1>1, <2>1, NothingMoves DEF ReceiveReset, Kept
  <1>2. CASE ~UNCHANGED streams
    <2>1. /\ current # Nil /\ ~Over(current) /\ ClearLane
          /\ streams' = [streams EXCEPT ![current].stage = "closed"]
      BY <1>2 DEF ReceiveReset
    <2>2. current \in DOMAIN streams
      BY <2>1 DEF ServerInv, ServerTypeOK, Nil
    <2>3. StreamsKeep /\ Len(streams') = Len(streams)
      BY <2>1, <2>2, StageKeeps, StreamFields DEF ServerInv, ServerTypeOK, Over, Alive, Stages
    <2>4. lane' \in Lane /\ OnlyEnds({})
      BY <2>1, ClearLaneKeeps DEF ServerInv
    <2>5. Sound'
      BY <2>3, <2>4, StayingIsSound DEF ReceiveReset
    <2>6. ServerTypeOK'
      BY <2>3, <2>4 DEF ServerInv, ServerTypeOK, ReceiveReset, StreamsKeep, OnlyEnds
    <2> QED BY <2>5, <2>6 DEF Sound, ServerInv
  <1> QED BY <1>1, <1>2

-----------------------------------------------------------------------------
(* A task.                                                                 *)

(* One that ends and has no connection, or closes it, or hands it on.      *)
LEMMA EndingKeeps ==
  ASSUME ServerInv, NEW t \in Tasks, UNCHANGED <<session, streams, current, dials>>,
         open' \subseteq open, lane' \in Lane, OnlyEnds({t}),
         tasks[t].conn \in open' =>
           \E i \in DOMAIN streams : streams[i].conn = tasks[t].conn /\ streams[i].stage \in Alive
  PROVE  ServerInv'
  <1>1. Sound'
    BY EndingIsSound, StreamsStay DEF ServerInv
  <1>2. ServerTypeOK'
    BY DEF ServerInv, ServerTypeOK, OnlyEnds
  <1> QED BY <1>1, <1>2 DEF Sound, ServerInv

LEMMA NotDialledHasNone ==
  ASSUME ServerInv, NEW t \in Tasks, tasks[t].at \in {"idle", "start", "create", "dial"}
  PROVE  tasks[t].conn = Nil /\ tasks[t].conn \notin open
  BY DEF ServerInv, ServerTypeOK, TasksAreSound, Nil

LEMMA StartTaskKeeps ==
  ASSUME ServerInv, NEW t \in Tasks, StartTask(t)
  PROVE  ServerInv'
  <1>1. lane.queue \in Seq(Copies) /\ lane.queue # << >>
    BY DEF ServerInv, ServerTypeOK, Lane, StartTask
  <1>2. Tail(lane.queue) \in Seq(Copies) /\ Head(lane.queue) \in Copies
    BY <1>1
  <1>3. lane' \in Lane
    BY <1>2 DEF ServerInv, ServerTypeOK, Lane, StartTask
  <1>4. [Idle EXCEPT !.at = "start", !.syn = Head(lane.queue),
                     !.live = ~lane.cancelled, !.alone = TRUE] \in Task
    BY <1>2 DEF ServerInv, ServerTypeOK, Lane, Idle, Task, Steps, Nil
  <1>5. /\ tasks' \in [Tasks -> Task] /\ \A u \in Tasks \ {t} : tasks'[u] = tasks[u]
        /\ tasks'[t].conn = Nil /\ tasks'[t].at = "start"
    BY <1>4 DEF ServerInv, ServerTypeOK, StartTask, Idle
  <1>6. tasks[t].conn = Nil
    BY NotDialledHasNone DEF StartTask
  <1>7. Sound'
    BY <1>5, <1>6, MovingIsSound, StreamsStay DEF ServerInv, StartTask
  <1>8. ServerTypeOK'
    BY <1>3, <1>5 DEF ServerInv, ServerTypeOK, StartTask
  <1> QED BY <1>7, <1>8 DEF Sound, ServerInv

LEMMA BeginKeeps ==
  ASSUME ServerInv, NEW t \in Tasks, Begin(t)
  PROVE  ServerInv'
  <1>1. tasks[t].at = "start" /\ UNCHANGED <<session, streams, current, open, dials>>
    BY DEF Begin
  <1>2. CASE tasks' = [tasks EXCEPT ![t].at = "create"] /\ UNCHANGED lane
    <2>1. /\ tasks' \in [Tasks -> Task] /\ \A u \in Tasks \ {t} : tasks'[u] = tasks[u]
          /\ tasks'[t].conn = tasks[t].conn /\ tasks'[t].at = "create"
      BY ZenonT(60), <1>2 DEF ServerInv, ServerTypeOK, Task, Steps
    <2>2. Sound'
      BY <1>1, <2>1, NotDialledHasNone, MovingIsSound, StreamsStay DEF ServerInv
    <2>3. ServerTypeOK'
      BY <1>1, <1>2, <2>1 DEF ServerInv, ServerTypeOK
    <2> QED BY <2>2, <2>3 DEF Sound, ServerInv
  <1>3. CASE Finished(t, lane, tasks)
    BY <1>1, <1>3, FinishedKeeps, EndingKeeps, NotDialledHasNone DEF ServerInv, ServerTypeOK
  <1> QED BY <1>2, <1>3 DEF Begin

LEMMA GivesUpKeeps ==
  ASSUME ServerInv, NEW t \in Tasks, GivesUp(t)
  PROVE  ServerInv'
  BY EndKeeps, EndingKeeps, NotDialledHasNone DEF ServerInv, GivesUp

LEMMA NoStreamKeeps ==
  ASSUME ServerInv, NEW t \in Tasks, NoStream(t)
  PROVE  ServerInv'
  BY EndKeeps, FinalizeKeeps, EndingKeeps, NotDialledHasNone DEF ServerInv, NoStream

LEMMA DialFailsKeeps ==
  ASSUME ServerInv, NEW t \in Tasks, DialFails(t)
  PROVE  ServerInv'
  BY EndKeeps, FinalizeKeeps, EndingKeeps, NotDialledHasNone DEF ServerInv, DialFails

LEMMA HasStreamKeeps ==
  ASSUME ServerInv, NEW t \in Tasks, HasStream(t)
  PROVE  ServerInv'
  <1>1. /\ tasks[t].at = "create" /\ UNCHANGED <<session, open, dials>>
        /\ tasks[t].conn = Nil /\ tasks[t].conn \notin open
    BY NotDialledHasNone DEF HasStream
  <1>2. StreamsKeep /\ current' \in 0..Len(streams') /\ current' \in DOMAIN streams'
    <2>1. CASE current # Nil /\ UNCHANGED <<streams, current>>
      BY <2>1, StreamsStay DEF ServerInv, ServerTypeOK, Nil
    <2>2. CASE CreateStream
      BY <2>2, CreateKeeps DEF ServerInv, StreamsKeep
    <2> QED BY <2>1, <2>2 DEF HasStream
  <1>3. CASE OnlyEnds({t}) /\ lane' \in Lane
    <2>1. Sound'
      BY <1>1, <1>2, <1>3, EndingIsSound
    <2>2. ServerTypeOK'
      BY <1>1, <1>2, <1>3 DEF ServerInv, ServerTypeOK, StreamsKeep, OnlyEnds
    <2> QED BY <2>1, <2>2 DEF Sound, ServerInv
  <1>4. CASE tasks' = [tasks EXCEPT ![t].at = "dial", ![t].on = current'] /\ UNCHANGED lane
    <2>1. current' \in Nat
      BY <1>2 DEF StreamsKeep
    <2>2. /\ tasks' \in [Tasks -> Task] /\ \A u \in Tasks \ {t} : tasks'[u] = tasks[u]
          /\ tasks'[t].conn = tasks[t].conn /\ tasks'[t].at = "dial" /\ tasks'[t].on = current'
      BY ZenonT(60), <1>4, <2>1 DEF ServerInv, ServerTypeOK, Task, Steps
    <2>3. Sound'
      BY <1>1, <1>2, <2>2, MovingIsSound
    <2>4. ServerTypeOK'
      BY <1>1, <1>2, <1>4, <2>2 DEF ServerInv, ServerTypeOK, StreamsKeep
    <2> QED BY <2>3, <2>4 DEF Sound, ServerInv
  <1> QED BY <1>3, <1>4, EndKeeps, FinalizeKeeps DEF ServerInv, HasStream

LEMMA DialSucceedsKeeps ==
  ASSUME ServerInv, NEW t \in Tasks, DialSucceeds(t)
  PROVE  ServerInv'
  <1>1. /\ tasks[t].at = "dial" /\ UNCHANGED <<session, streams, current, lane>>
        /\ dials \in Nat /\ dials' = dials + 1 /\ open' = open \cup {dials + 1}
    BY DEF DialSucceeds, ServerInv, ServerTypeOK
  <1>2. /\ tasks' \in [Tasks -> Task] /\ \A u \in Tasks \ {t} : tasks'[u] = tasks[u]
        /\ tasks'[t].conn = dials + 1 /\ tasks'[t].at = "dialled" /\ tasks'[t].on = tasks[t].on
    <2>1. tasks[t] \in Task /\ dials + 1 \in Nat
      BY <1>1 DEF ServerInv, ServerTypeOK
    <2>2. tasks' = [tasks EXCEPT ![t] = [tasks[t] EXCEPT !.at = "dialled", !.conn = dials + 1]]
      BY <2>1 DEF DialSucceeds, ServerInv, ServerTypeOK
    <2>3. [tasks[t] EXCEPT !.at = "dialled", !.conn = dials + 1] \in Task
      BY <2>1 DEF Task, Steps
    <2>4. /\ [tasks[t] EXCEPT !.at = "dialled", !.conn = dials + 1].conn = dials + 1
          /\ [tasks[t] EXCEPT !.at = "dialled", !.conn = dials + 1].at = "dialled"
          /\ [tasks[t] EXCEPT !.at = "dialled", !.conn = dials + 1].on = tasks[t].on
      BY <2>1 DEF Task
    <2> QED BY <2>2, <2>3, <2>4 DEF ServerInv, ServerTypeOK
  <1>3. TasksAreSound'
    <2>1. ASSUME NEW u \in Tasks \ {t}
          PROVE  tasks[u].conn \in Nat /\ tasks[u].conn <= dials /\ dials + 1 # tasks[u].conn
      <3>1. tasks[u] \in Task
        BY DEF ServerInv, ServerTypeOK
      <3> QED BY <1>1, <3>1 DEF ServerInv, TasksAreSound, Task
    <2>2. ASSUME NEW u \in Tasks \ {t}
          PROVE  tasks[u].conn <= dials' /\ (tasks[u].conn \notin open => tasks[u].conn \notin open')
      BY <1>1, <2>1
    <2> QED BY <1>1, <1>2, <2>2 DEF ServerInv, TasksAreSound
  <1>4. CleanedUpHasNone'
    BY <1>1 DEF ServerInv, CleanedUpHasNone
  <1>5. EveryConnectionHasOwner'
    BY <1>1, <1>2, NotDialledHasNone DEF ServerInv, EveryConnectionHasOwner
  <1>6. ServerTypeOK'
    BY <1>1, <1>2 DEF ServerInv, ServerTypeOK
  <1> QED BY <1>3, <1>4, <1>5, <1>6 DEF ServerInv

LEMMA CheckCancelledKeeps ==
  ASSUME ServerInv, NEW t \in Tasks, CheckCancelled(t)
  PROVE  ServerInv'
  <1>1. tasks[t].at = "dialled" /\ UNCHANGED <<session, streams, current, dials>>
    BY DEF CheckCancelled
  <1>2. CASE tasks' = [tasks EXCEPT ![t].at = "attach"] /\ UNCHANGED <<lane, open>>
    <2>1. /\ tasks' \in [Tasks -> Task] /\ \A u \in Tasks \ {t} : tasks'[u] = tasks[u]
          /\ tasks'[t].conn = tasks[t].conn /\ tasks'[t].at = "attach" /\ tasks'[t].on = tasks[t].on
      BY <1>2 DEF ServerInv, ServerTypeOK, Task, Steps
    <2>2. tasks[t].on \in DOMAIN streams
      BY <1>1 DEF ServerInv, TasksAreSound
    <2>3. Sound'
      BY <1>1, <1>2, <2>1, <2>2, MovingIsSound, StreamsStay DEF ServerInv
    <2>4. ServerTypeOK'
      BY <1>1, <1>2, <2>1 DEF ServerInv, ServerTypeOK
    <2> QED BY <2>3, <2>4 DEF Sound, ServerInv
  <1>3. CASE EndTask(t) /\ open' = open \ {tasks[t].conn}
    BY <1>1, <1>3, EndKeeps, EndingKeeps DEF ServerInv
  <1> QED BY <1>2, <1>3 DEF CheckCancelled

LEMMA ConnGiven ==
  ASSUME NEW stream \in Stream, NEW c \in Nat
  PROVE  /\ [stream EXCEPT !.connected = TRUE, !.conn = c] \in Stream
         /\ [stream EXCEPT !.connected = TRUE, !.conn = c].stage = stream.stage
         /\ [stream EXCEPT !.connected = TRUE, !.conn = c].conn = c
  BY DEF Stream

(* The connection goes from the task to its stream.                        *)
LEMMA AttachKeeps ==
  ASSUME ServerInv, NEW t \in Tasks, Attach(t)
  PROVE  ServerInv'
  <1> DEFINE i == tasks[t].on
             c == tasks[t].conn
  <1>1. /\ tasks[t].at = "attach" /\ i \in DOMAIN streams /\ c \in Nat /\ c <= dials
        /\ UNCHANGED <<session, current, dials>>
    BY DEF Attach, ServerInv, ServerTypeOK, TasksAreSound, Task
  <1>2. CASE /\ Attaches(i) /\ UNCHANGED <<lane, open>>
             /\ streams' = [streams EXCEPT ![i].connected = TRUE, ![i].conn = c]
             /\ tasks' = [tasks EXCEPT ![t].at = "attached"]
    <2>1. /\ streams[i] \in Stream /\ streams[i].stage \in Stages
          /\ [streams[i] EXCEPT !.connected = TRUE, !.conn = c] \in Stream
          /\ [streams[i] EXCEPT !.connected = TRUE, !.conn = c].stage = streams[i].stage
          /\ [streams[i] EXCEPT !.connected = TRUE, !.conn = c].conn = c
      BY <1>1, StreamFields, ConnGiven DEF ServerInv, ServerTypeOK
    <2>2. streams' = [streams EXCEPT ![i] = [streams[i] EXCEPT !.connected = TRUE, !.conn = c]]
      BY <1>1, <1>2
    <2>3. /\ streams' \in Seq(Stream) /\ Len(streams') = Len(streams)
          /\ DOMAIN streams' = DOMAIN streams
      BY <1>1, <2>1, <2>2 DEF ServerInv, ServerTypeOK
    <2>4. \A k \in DOMAIN streams \ {i} : streams'[k] = streams[k]
      BY <2>2
    <2>5. /\ streams[i].stage \in Alive /\ streams[i].conn = Nil
          /\ streams'[i].stage = streams[i].stage /\ streams'[i].conn = c
      BY <1>1, <1>2, <2>1, <2>2 DEF Attaches, Over, Stages, Alive
    <2>6. /\ tasks' \in [Tasks -> Task] /\ \A u \in Tasks \ {t} : tasks'[u] = tasks[u]
          /\ tasks'[t].conn = c /\ tasks'[t].at = "attached" /\ tasks'[t].on = i
      BY <1>2 DEF ServerInv, ServerTypeOK, Task, Steps
    <2>7. ASSUME NEW u \in Tasks \ {t}, tasks[u].at = "attached", tasks[u].conn \in open
          PROVE  tasks[u].on # i /\ streams'[tasks[u].on].conn = tasks[u].conn
      <3>1. tasks[u].on \in DOMAIN streams /\ streams[tasks[u].on].conn = tasks[u].conn
        BY <2>7 DEF ServerInv, TasksAreSound
      <3>2. tasks[u].conn # Nil
        BY <2>7 DEF ServerInv, ServerTypeOK, Nil
      <3> QED BY <2>4, <2>5, <3>1, <3>2
    <2>8. TasksAreSound'
      BY <1>1, <1>2, <2>3, <2>5, <2>6, <2>7 DEF ServerInv, TasksAreSound
    <2>9. CleanedUpHasNone'
      BY <2>3, <2>4, <2>5 DEF ServerInv, CleanedUpHasNone, Alive
    <2>10. EveryConnectionHasOwner'
      <3>1. ASSUME NEW k \in open
            PROVE  \/ \E u \in Tasks : tasks'[u].conn = k
                   \/ \E j \in DOMAIN streams' : streams'[j].conn = k /\ streams'[j].stage \in Alive
        <4>1. CASE \E u \in Tasks : tasks[u].conn = k
          BY <2>6, <4>1
        <4>2. CASE \E j \in DOMAIN streams : streams[j].conn = k /\ streams[j].stage \in Alive
          <5>1. k # Nil
            BY DEF ServerInv, ServerTypeOK, Nil
          <5> QED BY <2>3, <2>4, <2>5, <4>2, <5>1
        <4> QED BY <4>1, <4>2 DEF ServerInv, EveryConnectionHasOwner, Alive
      <3> QED BY <1>2, <3>1 DEF EveryConnectionHasOwner, Alive
    <2>11. ServerTypeOK'
      BY <1>1, <1>2, <2>3, <2>6 DEF ServerInv, ServerTypeOK
    <2> QED BY <2>8, <2>9, <2>10, <2>11 DEF ServerInv
  <1>3. CASE open' = open \ {c} /\ FinalizeAndEnd(t) /\ UNCHANGED streams
    BY <1>1, <1>3, FinalizeKeeps, EndingKeeps DEF ServerInv
  <1> QED BY <1>2, <1>3 DEF Attach

LEMMA AnnounceKeeps ==
  ASSUME ServerInv, NEW t \in Tasks, Announce(t)
  PROVE  ServerInv'
  <1>1. /\ tasks[t].at = "attached" /\ UNCHANGED <<session, streams, current, dials>>
        /\ open' = open \/ open' = open \ {tasks[t].conn}
        /\ FinalizeAndEnd(t)
    BY DEF Announce
  <1>2. ASSUME tasks[t].conn \in open
        PROVE  \E i \in DOMAIN streams : streams[i].conn = tasks[t].conn /\ streams[i].stage \in Alive
    <2>1. /\ tasks[t].on \in DOMAIN streams /\ tasks[t].conn # Nil
          /\ streams[tasks[t].on].conn = tasks[t].conn
      BY <1>1, <1>2 DEF ServerInv, ServerTypeOK, TasksAreSound, Nil
    <2>2. streams[tasks[t].on].stage \in Alive
      BY <2>1, StreamFields DEF ServerInv, ServerTypeOK, CleanedUpHasNone
    <2> QED BY <2>1, <2>2
  <1> QED BY <1>1, <1>2, FinalizeKeeps, EndingKeeps DEF ServerInv

-----------------------------------------------------------------------------
(* The end of a stream, and of the session.                                *)

LEMMA ServerClosesKeeps ==
  ASSUME ServerInv, NEW i \in DOMAIN streams, ServerCloses(i) \/ ServerResets(i)
  PROVE  ServerInv'
  <1>1. PICK stage \in {"closed", "reset"} : streams' = [streams EXCEPT ![i].stage = stage]
    BY DEF ServerCloses, ServerResets
  <1>2. StreamsKeep /\ Len(streams') = Len(streams)
    BY <1>1, StageKeeps DEF ServerInv, ServerCloses, ServerResets, Alive, Stages
  <1>3. OnlyEnds({}) /\ UNCHANGED <<session, current, lane, open, dials>>
    BY UnchangedTasksEndNone DEF ServerInv, ServerCloses, ServerResets, laneVars
  <1>4. Sound'
    BY <1>2, <1>3, StayingIsSound
  <1>5. ServerTypeOK'
    BY <1>2, <1>3 DEF ServerInv, ServerTypeOK, StreamsKeep, OnlyEnds
  <1> QED BY <1>4, <1>5 DEF Sound, ServerInv

LEMMA CleanUpKeeps ==
  ASSUME ServerInv, NEW i \in DOMAIN streams, CleanUp(i)
  PROVE  ServerInv'
  <1> DEFINE cleaned == [stage |-> "deleted", connected |-> FALSE, conn |-> Nil]
  <1>1. /\ streams' = [streams EXCEPT ![i] = cleaned] /\ open' = open \ {streams[i].conn}
        /\ current' \in {Nil, current} /\ UNCHANGED <<session, lane, tasks, dials>>
    BY DEF CleanUp, laneVars
  <1>2. cleaned \in Stream
    BY DEF Stream, Stages, Nil
  <1>3. /\ streams' \in Seq(Stream) /\ Len(streams') = Len(streams) /\ streams'[i] = cleaned
        /\ DOMAIN streams' = DOMAIN streams /\ \A k \in DOMAIN streams \ {i} : streams'[k] = streams[k]
    BY <1>1, <1>2 DEF ServerInv, ServerTypeOK
  <1>4. TasksAreSound'
    <2>1. ASSUME NEW u \in Tasks, tasks[u].at = "attached", tasks[u].conn \in open'
          PROVE  streams'[tasks[u].on].conn = tasks[u].conn
      <3>1. tasks[u].on \in DOMAIN streams /\ streams[tasks[u].on].conn = tasks[u].conn
        BY <1>1, <2>1 DEF ServerInv, TasksAreSound
      <3>2. tasks[u].on # i
        BY <1>1, <2>1, <3>1
      <3> QED BY <1>3, <3>1, <3>2
    <2> QED BY <1>1, <1>3, <2>1 DEF ServerInv, TasksAreSound
  <1>5. CleanedUpHasNone'
    BY <1>3 DEF ServerInv, CleanedUpHasNone
  <1>6. EveryConnectionHasOwner'
    BY <1>1, <1>3 DEF ServerInv, EveryConnectionHasOwner
  <1>7. ServerTypeOK'
    BY <1>1, <1>3 DEF ServerInv, ServerTypeOK, Nil
  <1> QED BY <1>4, <1>5, <1>6, <1>7 DEF ServerInv

LEMMA NoteStreamClosedKeeps ==
  ASSUME ServerInv, NEW i \in DOMAIN streams, NoteStreamClosed(i)
  PROVE  ServerInv'
  <1>1. /\ streams' = [streams EXCEPT ![i].stage = "gone"] /\ streams[i].stage = "deleted"
        /\ ClearLane /\ UNCHANGED <<session, current, open, dials>>
    BY DEF NoteStreamClosed, ClearArtifacts
  <1>2. StreamsKeep /\ Len(streams') = Len(streams)
    BY <1>1, StageKeeps DEF ServerInv, Alive, Stages
  <1>3. lane' \in Lane /\ OnlyEnds({})
    BY <1>1, ClearLaneKeeps DEF ServerInv
  <1>4. Sound'
    BY <1>1, <1>2, <1>3, StayingIsSound
  <1>5. ServerTypeOK'
    BY <1>1, <1>2, <1>3 DEF ServerInv, ServerTypeOK, StreamsKeep, OnlyEnds
  <1> QED BY <1>4, <1>5 DEF Sound, ServerInv

LEMMA CloseSessionKeeps ==
  ASSUME ServerInv, CloseSession
  PROVE  ServerInv'
  <1>1. /\ UNCHANGED <<current, lane, tasks, open, dials>> /\ session' = "closing"
        /\ DOMAIN streams' = DOMAIN streams
    BY DEF CloseSession
  <1>2. ASSUME NEW k \in DOMAIN streams
        PROVE  /\ streams'[k] \in Stream /\ streams'[k].conn = streams[k].conn
               /\ streams[k].stage \in Alive <=> streams'[k].stage \in Alive
    <2>1. streams[k] \in Stream /\ streams[k].stage \in Stages
      BY StreamFields DEF ServerInv, ServerTypeOK
    <2>2. CASE k = current /\ ~Over(k)
      <3>1. streams'[k] = [streams[k] EXCEPT !.stage = "closed"] /\ streams[k].stage \in Alive
        BY <2>1, <2>2 DEF CloseSession, Over, Alive, Stages
      <3> QED BY <2>1, <3>1 DEF Stream, Stages, Alive
    <2>3. CASE ~(k = current /\ ~Over(k))
      BY <2>1, <2>3 DEF CloseSession
    <2> QED BY <2>2, <2>3
  <1>3. streams' \in Seq(Stream) /\ Len(streams') = Len(streams)
    <2>1. DOMAIN streams = 1..Len(streams) /\ Len(streams) \in Nat
      BY DEF ServerInv, ServerTypeOK
    <2>2. streams' = [k \in 1..Len(streams) |-> streams'[k]]
      BY <2>1 DEF CloseSession
    <2>3. streams' \in [1..Len(streams) -> Stream]
      BY <1>2, <2>1, <2>2
    <2> QED BY <2>1, <2>3
  <1>4. StreamsKeep
    BY <1>1, <1>2, <1>3 DEF StreamsKeep
  <1>5. OnlyEnds({})
    BY <1>1, UnchangedTasksEndNone DEF ServerInv
  <1>6. Sound'
    BY <1>1, <1>4, <1>5, StayingIsSound
  <1>7. ServerTypeOK'
    BY <1>1, <1>3 DEF ServerInv, ServerTypeOK
  <1> QED BY <1>6, <1>7 DEF Sound, ServerInv

LEMMA ForgetSessionKeeps ==
  ASSUME ServerInv, ForgetSession
  PROVE  ServerInv'
  <1>1. /\ session' = "closed" /\ current' = Nil /\ ClearLane
        /\ UNCHANGED <<streams, open, dials>>
    BY DEF ForgetSession
  <1>2. lane' \in Lane /\ OnlyEnds({})
    BY <1>1, ClearLaneKeeps DEF ServerInv
  <1>3. Sound'
    BY <1>1, <1>2, StayingIsSound, StreamsStay DEF ServerInv
  <1>4. ServerTypeOK'
    BY <1>1, <1>2 DEF ServerInv, ServerTypeOK, OnlyEnds, Nil
  <1> QED BY <1>3, <1>4 DEF Sound, ServerInv

LEMMA OtherStepsKeep ==
  ASSUME ServerInv, UNCHANGED serverVars \/ ReceiveData \/ PruneMark \/ PurgeFragments
                      \/ \E p \in ToServer : RefuseSyn(p)
  PROVE  ServerInv'
  <1>1. UNCHANGED <<session, streams, current, lane, tasks, open, dials>>
    BY DEF serverVars, laneVars, ReceiveData, PruneMark, PurgeFragments, RefuseSyn
  <1>2. OnlyEnds({}) /\ lane' \in Lane
    BY <1>1, UnchangedTasksEndNone DEF ServerInv, ServerTypeOK
  <1> QED BY <1>1, <1>2, NothingMoves DEF Kept

LEMMA WorksKeeps ==
  ASSUME ServerInv, NEW t \in Tasks, Works(t)
  PROVE  ServerInv'
  BY BeginKeeps, GivesUpKeeps, NoStreamKeeps, HasStreamKeeps, DialFailsKeeps, DialSucceedsKeeps,
     CheckCancelledKeeps, AttachKeeps, AnnounceKeeps DEF Works

(* Every step of the server, whatever the client sends.                    *)
LEMMA ServerStepKeeps ==
  ASSUME ServerInv, ServerStep
  PROVE  ServerInv'
  <1>1. CASE \E p \in ToServer : RefuseSyn(p) \/ SynAgain(p) \/ DispatchSyn(p) \/ AckSyn(p)
    BY <1>1, OtherStepsKeep, SynAgainKeeps, DispatchSynKeeps, AckSynKeeps
  <1>2. CASE ReceiveReset \/ ReceiveData \/ PruneMark \/ PurgeFragments
    BY <1>2, ReceiveResetKeeps, OtherStepsKeep
  <1>3. CASE \E t \in Tasks : StartTask(t) \/ Works(t)
    BY <1>3, StartTaskKeeps, WorksKeeps
  <1>4. CASE \E i \in DOMAIN streams : ServerCloses(i) \/ ServerResets(i) \/ Finishes(i)
    BY <1>4, ServerClosesKeeps, CleanUpKeeps, NoteStreamClosedKeeps DEF Finishes
  <1>5. CASE CloseSession \/ ForgetSession
    BY <1>5, CloseSessionKeeps, ForgetSessionKeeps
  <1> QED BY <1>1, <1>2, <1>3, <1>4, <1>5 DEF ServerStep

LEMMA ServerStarts == ServerInit => ServerInv
  <1> SUFFICES ASSUME ServerInit PROVE ServerInv
    OBVIOUS
  <1>1. ServerTypeOK
    <2>1. << >> \in Seq(Stream) /\ << >> \in Seq(Copies) /\ Len(<< >>) = 0
      OBVIOUS
    <2>2. tasks \in [Tasks -> Task]
      BY IdleIsTask DEF ServerInit
    <2>3. lane \in Lane
      BY <2>1 DEF ServerInit, Lane, Nil
    <2>4. /\ session = "open" /\ streams = << >> /\ current = 0 /\ dials = 0 /\ open = {}
      BY DEF ServerInit, Nil
    <2> QED BY <2>1, <2>2, <2>3, <2>4 DEF ServerTypeOK
  <1>2. DOMAIN streams = {}
    BY DEF ServerInit
  <1>3. Sound
    BY <1>2 DEF ServerInit, Sound, TasksAreSound, CleanedUpHasNone, EveryConnectionHasOwner, Idle, Nil
  <1> QED BY <1>1, <1>3 DEF Sound, ServerInv

(* An open upstream connection is in the hands of a task or of a stream    *)
(* whose clean-up is still to come, whatever steps the two ends, the dials *)
(* and the path take (attachUpstreamConn, cleanupResources and the checks  *)
(* around the attachment).                                                 *)
THEOREM ConnectionsOwned == Spec => []EveryConnectionHasOwner
  <1>1. Init => ServerInv
    BY ServerStarts DEF Init
  <1>2. ServerInv /\ [Next]_vars => ServerInv'
    BY ServerStepKeeps, OtherStepsKeep DEF Next, vars
  <1>3. ServerInv => EveryConnectionHasOwner
    BY DEF ServerInv
  <1> QED BY <1>1, <1>2, <1>3, PTL DEF Spec

-----------------------------------------------------------------------------
(* The invariant behind SuccessIsTrue, the server's half: nothing says     *)
(* CONNECTED before a stream was given a connection.                       *)

Knows ==
  /\ "CONNECTED" \in wire => attached
  /\ \A i \in DOMAIN streams : streams[i].connected => attached
  /\ \A t \in Tasks : tasks[t].at = "attached" => attached

(* A step that gives no stream a connection.                               *)
NoNews ==
  /\ UNCHANGED attached
  /\ \A i \in DOMAIN streams' :
       streams'[i].connected => i \in DOMAIN streams /\ streams[i].connected
  /\ \A t \in Tasks : tasks'[t].at = "attached" => tasks[t].at = "attached"

LEMMA NoNewsKeeps ==
  ASSUME Knows, NoNews, "CONNECTED" \in wire' => "CONNECTED" \in wire \/ attached
  PROVE  Knows'
  BY DEF Knows, NoNews

LEMMA SentBrings ==
  ASSUME NEW packets, NEW p, p \in Sent(packets)
  PROVE  p \in wire \/ p \in packets
  BY DEF Sent

LEMMA EndIsNoNews ==
  ASSUME NEW ended, OnlyEnds(ended), UNCHANGED <<attached, streams>>
  PROVE  NoNews
  <1>1. ASSUME NEW t \in Tasks, tasks'[t].at = "attached"
        PROVE  tasks[t].at = "attached"
    BY <1>1 DEF OnlyEnds, Idle
  <1> QED BY <1>1 DEF NoNews

LEMMA SetStageIsNoNews ==
  ASSUME ServerTypeOK, NEW i \in DOMAIN streams, NEW stage \in Stages,
         streams' = [streams EXCEPT ![i].stage = stage], UNCHANGED attached, OnlyEnds({})
  PROVE  NoNews
  <1>1. ASSUME NEW k \in DOMAIN streams', streams'[k].connected
        PROVE  k \in DOMAIN streams /\ streams[k].connected
    <2>1. k \in DOMAIN streams
      OBVIOUS
    <2>2. streams[k] \in Stream
      BY <2>1, StreamFields DEF ServerTypeOK
    <2> QED BY <1>1, <2>1, <2>2 DEF Stream
  <1> QED BY <1>1 DEF NoNews, OnlyEnds

LEMMA CreateIsNoNews ==
  ASSUME ServerTypeOK, CreateStream, UNCHANGED attached,
         \A t \in Tasks : tasks'[t].at = "attached" => tasks[t].at = "attached"
  PROVE  NoNews
  <1>1. ASSUME NEW k \in DOMAIN streams', streams'[k].connected
        PROVE  k \in DOMAIN streams /\ streams[k].connected
    <2>1. CASE k = Len(streams) + 1
      <3>1. streams'[k] = NewStream
        BY <2>1 DEF ServerTypeOK, CreateStream
      <3> QED BY <1>1, <3>1 DEF NewStream
    <2>2. CASE k # Len(streams) + 1
      <3>1. k \in DOMAIN streams /\ streams'[k] = streams[k]
        BY <2>2 DEF ServerTypeOK, CreateStream
      <3> QED BY <1>1, <3>1
    <2> QED BY <2>1, <2>2
  <1> QED BY <1>1 DEF NoNews

LEMMA AnswersWithoutNews ==
  ASSUME NEW i, NEW p, AnswerOn(i, p), p # "CONNECTED", "CONNECTED" \in wire'
  PROVE  "CONNECTED" \in wire
  BY SentBrings DEF AnswerOn

LEMMA PacketsBringNoNews ==
  ASSUME ServerInv, Knows, NEW p \in ToServer,
         RefuseSyn(p) \/ SynAgain(p) \/ DispatchSyn(p) \/ AckSyn(p)
  PROVE  Knows'
  <1>1. CASE RefuseSyn(p)
    BY <1>1, SentBrings DEF Knows, RefuseSyn, serverVars, laneVars
  <1>2. CASE SynAgain(p)
    <2>1. OnlyEnds({}) /\ UNCHANGED <<streams, current, attached>>
      BY <1>2, ClearLaneKeeps DEF ServerInv, SynAgain, ClearArtifacts
    <2>2. NoNews
      BY <2>1, EndIsNoNews
    <2>3. CASE blocked
      BY <1>2, <2>2, <2>3, AnswersWithoutNews, NoNewsKeeps DEF SynAgain
    <2>4. CASE ~blocked
      <3>1. current \in DOMAIN streams /\ streams[current].connected
        BY <1>2, <2>4 DEF SynAgain, Settled, ServerInv, ServerTypeOK, Nil
      <3>2. attached
        BY <3>1 DEF Knows
      <3> QED BY <2>2, <3>2, NoNewsKeeps
    <2> QED BY <2>3, <2>4
  <1>3. CASE DispatchSyn(p)
    BY <1>3 DEF Knows, DispatchSyn
  <1>4. CASE AckSyn(p)
    <2>1. CASE UNCHANGED streams
      BY <1>4, <2>1 DEF Knows, AckSyn, laneVars
    <2>2. CASE CreateStream
      BY <1>4, <2>2, CreateIsNoNews, NoNewsKeeps DEF ServerInv, AckSyn, laneVars
    <2> QED BY <1>4, <2>1, <2>2 DEF AckSyn
  <1> QED BY <1>1, <1>2, <1>3, <1>4

LEMMA ResetBringsNoNews ==
  ASSUME ServerInv, Knows, ReceiveReset \/ ReceiveData
  PROVE  Knows'
  <1>1. CASE ReceiveData
    BY <1>1, SentBrings DEF Knows, ReceiveData, serverVars, laneVars
  <1>2. CASE ReceiveReset
    <2>1. OnlyEnds({})
      BY <1>2, ClearLaneKeeps, UnchangedTasksEndNone DEF ServerInv, ReceiveReset, laneVars
    <2>2. CASE UNCHANGED streams
      BY <1>2, <2>1, <2>2, EndIsNoNews, NoNewsKeeps, SentBrings DEF ReceiveReset
    <2>3. CASE current # Nil /\ streams' = [streams EXCEPT ![current].stage = "closed"]
      <3>1. current \in DOMAIN streams
        BY <2>3 DEF ServerInv, ServerTypeOK, Nil
      <3>2. NoNews
        BY <1>2, <2>1, <2>3, <3>1, SetStageIsNoNews DEF ServerInv, ReceiveReset, Stages
      <3> QED BY <1>2, <3>2, NoNewsKeeps, SentBrings DEF ReceiveReset
    <2> QED BY <1>2, <2>2, <2>3 DEF ReceiveReset
  <1> QED BY <1>1, <1>2

(* A task that takes its first steps, or gives up, says at most FAIL.      *)
LEMMA EarlyWorkBringsNoNews ==
  ASSUME ServerInv, Knows, NEW t \in Tasks,
         \/ StartTask(t) \/ Begin(t) \/ GivesUp(t) \/ NoStream(t) \/ DialFails(t)
         \/ DialSucceeds(t) \/ CheckCancelled(t)
  PROVE  Knows'
  <1>1. UNCHANGED <<attached, streams>>
    BY DEF StartTask, Begin, GivesUp, NoStream, DialFails, DialSucceeds, CheckCancelled
  <1>2. "CONNECTED" \in wire' => "CONNECTED" \in wire
    <2>1. CASE NoStream(t)
      BY <2>1, SentBrings DEF NoStream
    <2>2. CASE DialFails(t)
      BY <2>2, AnswersWithoutNews DEF DialFails
    <2>3. CASE ~NoStream(t) /\ ~DialFails(t)
      BY <2>3 DEF StartTask, Begin, GivesUp, DialSucceeds, CheckCancelled
    <2> QED BY <2>1, <2>2, <2>3
  <1>3. \A u \in Tasks : tasks'[u].at = "attached" => tasks[u].at = "attached"
    <2>1. CASE OnlyEnds({t})
      BY <1>1, <2>1, EndIsNoNews DEF NoNews
    <2>2. CASE StartTask(t)
      BY <2>2 DEF StartTask, Idle, ServerInv, ServerTypeOK
    <2>3. CASE tasks' = [tasks EXCEPT ![t].at = "create"] \/ tasks' = [tasks EXCEPT ![t].at = "attach"]
      BY <2>3 DEF ServerInv, ServerTypeOK, Task
    <2>4. CASE DialSucceeds(t)
      BY <2>4 DEF DialSucceeds, ServerInv, ServerTypeOK, Task
    <2>5. ASSUME Finished(t, lane, tasks) PROVE OnlyEnds({t})
      BY <2>5, FinishedKeeps DEF ServerInv, ServerTypeOK
    <2> QED BY <2>1, <2>2, <2>3, <2>4, <2>5, EndKeeps, FinalizeKeeps
            DEF ServerInv, Begin, GivesUp, NoStream, DialFails, CheckCancelled
  <1> QED BY <1>1, <1>2, <1>3, NoNewsKeeps DEF NoNews

LEMMA HasStreamBringsNoNews ==
  ASSUME ServerInv, Knows, NEW t \in Tasks, HasStream(t)
  PROVE  Knows'
  <1>1. \A u \in Tasks : tasks'[u].at = "attached" => tasks[u].at = "attached"
    <2>1. CASE EndTask(t) \/ FinalizeAndEnd(t)
      <3>1. OnlyEnds({t})
        BY <2>1, EndKeeps, FinalizeKeeps DEF ServerInv
      <3> QED BY <3>1 DEF OnlyEnds, Idle
    <2>2. CASE tasks' = [tasks EXCEPT ![t].at = "dial", ![t].on = current']
      BY <2>2 DEF ServerInv, ServerTypeOK, Task
    <2> QED BY <2>1, <2>2 DEF HasStream
  <1>2. NoNews
    <2>1. CASE CreateStream
      BY <1>1, <2>1, CreateIsNoNews DEF ServerInv, HasStream
    <2>2. CASE UNCHANGED streams
      BY <1>1, <2>2 DEF NoNews, HasStream
    <2> QED BY <2>1, <2>2 DEF HasStream
  <1>3. current' \in DOMAIN streams'
    <2>1. CASE CreateStream
      BY <2>1, CreateKeeps DEF ServerInv
    <2>2. CASE current # Nil /\ UNCHANGED <<streams, current>>
      BY <2>2 DEF ServerInv, ServerTypeOK, Nil
    <2> QED BY <2>1, <2>2 DEF HasStream
  <1>4. CASE streams'[current'].connected
    BY <1>2, <1>3, <1>4, NoNewsKeeps DEF NoNews, Knows
  <1>5. CASE ~streams'[current'].connected
    <2>1. "CONNECTED" \in wire' => "CONNECTED" \in wire
      BY <1>5, AnswersWithoutNews DEF HasStream
    <2> QED BY <1>2, <2>1, NoNewsKeeps
  <1> QED BY <1>4, <1>5

LEMMA AttachmentIsNews ==
  ASSUME ServerInv, Knows, NEW t \in Tasks, Attach(t) \/ Announce(t)
  PROVE  Knows'
  <1>1. CASE Announce(t)
    <2>1. attached /\ UNCHANGED attached
      BY <1>1 DEF Announce, Knows
    <2> QED BY <2>1 DEF Knows
  <1>2. CASE Attach(t) /\ attached'
    BY <1>2 DEF Knows
  <1>3. CASE Attach(t) /\ ~attached'
    <2>1. OnlyEnds({t}) /\ UNCHANGED <<wire, attached, streams>>
      BY <1>3, FinalizeKeeps DEF ServerInv, Attach
    <2> QED BY <2>1, EndIsNoNews, NoNewsKeeps
  <1> QED BY <1>1, <1>2, <1>3

LEMMA EndsBringNoNews ==
  ASSUME ServerInv, Knows, NEW i \in DOMAIN streams,
         ServerCloses(i) \/ ServerResets(i) \/ Finishes(i)
  PROVE  Knows'
  <1>1. UNCHANGED attached
    BY DEF ServerCloses, ServerResets, Finishes, CleanUp, NoteStreamClosed
  <1>2. "CONNECTED" \in wire' => "CONNECTED" \in wire
    <2>1. CASE ServerResets(i)
      BY <2>1, AnswersWithoutNews DEF ServerResets
    <2> QED BY <2>1 DEF ServerCloses, Finishes, CleanUp, NoteStreamClosed
  <1>3. OnlyEnds({})
    BY UnchangedTasksEndNone, ClearLaneKeeps
    DEF ServerInv, ServerCloses, ServerResets, Finishes, CleanUp, NoteStreamClosed, ClearArtifacts,
        laneVars
  <1>4. NoNews
    <2>1. CASE ServerCloses(i) \/ ServerResets(i) \/ NoteStreamClosed(i)
      <3>1. PICK stage \in Stages : streams' = [streams EXCEPT ![i].stage = stage]
        BY <2>1 DEF ServerCloses, ServerResets, NoteStreamClosed, Stages
      <3> QED BY <1>1, <1>3, <3>1, SetStageIsNoNews DEF ServerInv
    <2>2. CASE CleanUp(i)
      <3>1. streams' = [streams EXCEPT ![i] = [stage |-> "deleted", connected |-> FALSE, conn |-> Nil]]
        BY <2>2 DEF CleanUp
      <3>2. ASSUME NEW k \in DOMAIN streams', streams'[k].connected
            PROVE  k \in DOMAIN streams /\ streams[k].connected
        BY <3>1, <3>2
      <3> QED BY <1>1, <1>3, <3>2 DEF NoNews, OnlyEnds
    <2> QED BY <2>1, <2>2 DEF Finishes
  <1> QED BY <1>2, <1>4, NoNewsKeeps

LEMMA SessionEndBringsNoNews ==
  ASSUME ServerInv, Knows, PruneMark \/ PurgeFragments \/ CloseSession \/ ForgetSession
  PROVE  Knows'
  <1>1. CASE PruneMark \/ PurgeFragments
    BY <1>1 DEF Knows, PruneMark, PurgeFragments, laneVars
  <1>2. CASE ForgetSession
    <2>1. OnlyEnds({})
      BY <1>2, ClearLaneKeeps DEF ServerInv, ForgetSession
    <2> QED BY <1>2, <2>1, EndIsNoNews, NoNewsKeeps DEF ForgetSession
  <1>3. CASE CloseSession
    <2>1. ASSUME NEW k \in DOMAIN streams', streams'[k].connected
          PROVE  k \in DOMAIN streams /\ streams[k].connected
      <3>1. k \in DOMAIN streams
        BY <1>3 DEF CloseSession
      <3>2. streams[k] \in Stream
        BY <3>1, StreamFields DEF ServerInv, ServerTypeOK
      <3>3. streams'[k] = streams[k] \/ streams'[k] = [streams[k] EXCEPT !.stage = "closed"]
        BY <1>3, <3>1 DEF CloseSession
      <3> QED BY <2>1, <3>1, <3>2, <3>3 DEF Stream
    <2>2. NoNews
      BY <1>3, <2>1 DEF NoNews, CloseSession
    <2> QED BY <1>3, <2>2, NoNewsKeeps DEF CloseSession
  <1> QED BY <1>1, <1>2, <1>3

LEMMA ServerStepKnows ==
  ASSUME ServerInv, Knows, ServerStep
  PROVE  Knows'
  BY PacketsBringNoNews, ResetBringsNoNews, EarlyWorkBringsNoNews, HasStreamBringsNoNews,
     AttachmentIsNews, EndsBringNoNews, SessionEndBringsNoNews DEF ServerStep, Works

-----------------------------------------------------------------------------
(* The client's half: a local connection that was told something has a     *)
(* stream that takes no success any more, or none at all.                  *)

Statuses == {"idle", "connecting", "cancelled", "active", "failed"} \cup Ended
Told == {"active", "failed"} \cup Ended

Tellings ==
  /\ replies \in Seq({"ok", "fail"})
  /\ status \in Statuses
  /\ replies # << >> => status \in Told \/ (status = "idle" /\ app = "closed")
  /\ listed => status # "idle"
  /\ protocol = "TCP" => status # "failed"
  /\ SuccessIsTrue

LEMMA TellIsTrue ==
  ASSUME NEW told \in Seq({"ok", "fail"}), NEW reply \in {"ok", "fail"}, NEW truth,
         reply = "ok" => told = << >> /\ truth,
         \A n \in DOMAIN told : told[n] = "ok" => n = 1 /\ truth
  PROVE  /\ Append(told, reply) \in Seq({"ok", "fail"})
         /\ \A n \in DOMAIN Append(told, reply) : Append(told, reply)[n] = "ok" => n = 1 /\ truth
  <1>1. Append(told, reply) \in Seq({"ok", "fail"})
    OBVIOUS
  <1>2. ASSUME NEW n \in DOMAIN Append(told, reply), Append(told, reply)[n] = "ok"
        PROVE  n = 1 /\ truth
    <2>1. CASE n \in DOMAIN told
      BY <1>2, <2>1
    <2>2. CASE n \notin DOMAIN told
      <3>1. n = Len(told) + 1 /\ Append(told, reply)[n] = reply
        BY <2>2
      <3> QED BY <1>2, <3>1
    <2> QED BY <2>1, <2>2
  <1> QED BY <1>1, <1>2

(* The next status for a step that tells nothing.                          *)
LEMMA SilentKeeps ==
  ASSUME Tellings, UNCHANGED <<replies, protocol, attached>>, status' \in Statuses,
         \/ UNCHANGED <<status, app>>
         \/ status' \in Told
         \/ replies = << >>
         \/ status = "idle" /\ status' = "idle" /\ app' = "closed",
         listed' => status' # "idle",
         protocol = "TCP" /\ status' = "failed" => status = "failed"
  PROVE  Tellings'
  BY DEF Tellings, SuccessIsTrue

(* And for one that tells something: only a stream that is connecting may  *)
(* be told of success.                                                     *)
LEMMA TellingKeeps ==
  ASSUME Tellings, NEW reply \in {"ok", "fail"}, Tells(reply), UNCHANGED <<protocol, attached>>,
         reply = "ok" => status = "connecting" /\ attached,
         status' \in Told /\ (protocol = "TCP" => status' # "failed")
  PROVE  Tellings'
  <1>1. reply = "ok" => replies = << >>
    BY DEF Tellings, Told, Ended
  <1>2. replies' \in Seq({"ok", "fail"}) /\ SuccessIsTrue'
    BY <1>1, TellIsTrue DEF Tellings, SuccessIsTrue, Tells
  <1>3. status' \in Statuses /\ status' # "idle"
    BY DEF Statuses, Told, Ended
  <1> QED BY <1>2, <1>3 DEF Tellings

LEMMA SocksResultKeeps ==
  ASSUME Tellings, listed, NEW reply \in {"ok", "fail"}, NEW next \in {"active", "failed"},
         NEW closes \in BOOLEAN, SocksResult(reply, next, closes),
         UNCHANGED <<protocol, attached, listed>>, protocol # "TCP",
         reply = "ok" => status = "connecting" /\ attached
  PROVE  Tellings'
  <1>1. CASE Tells(reply) /\ status' = next
    BY <1>1, TellingKeeps DEF Told
  <1>2. CASE UNCHANGED <<status, app, replies>>
    BY <1>2, SilentKeeps DEF Tellings
  <1>3. CASE PendingLocalClose /\ UNCHANGED replies
    <2>1. CASE status = "connecting"
      <3>1. status' = "cancelled" /\ replies = << >>
        BY <1>3, <2>1 DEF PendingLocalClose, Tellings, Told, Ended
      <3> QED BY <1>3, <3>1, SilentKeeps DEF Statuses
    <2>2. CASE status # "connecting"
      BY <1>3, <2>2, SilentKeeps DEF PendingLocalClose, Tellings
    <2> QED BY <2>1, <2>2
  <1> QED BY <1>1, <1>2, <1>3 DEF SocksResult

LEMMA ClientStepTells ==
  ASSUME Knows, Tellings, ClientStep, UNCHANGED attached
  PROVE  Tellings'
  <1>0. UNCHANGED protocol
    BY DEF ClientStep, setup, Connect, Refuse, AppGoes, MissingStream, SocksConnected, SocksFailure,
           StreamConnected, StreamConnectFail, ResetReceived, ResetAcked, SendData, ClientCloses,
           ClientResets, Unlist, CleanUpClient, ShowClosing, Forget
  <1>1. CASE Connect
    <2>1. replies = << >>
      BY <1>1 DEF Connect, Tellings, Told, Ended
    <2> QED BY <1>0, <1>1, <2>1, SilentKeeps DEF Connect, Statuses
  <1>2. CASE Refuse
    <2>1. replies = << >> /\ ~listed
      BY <1>2 DEF Refuse, Tellings, Told, Ended
    <2>2. CASE UNCHANGED replies
      BY <1>0, <1>2, <2>1, <2>2, SilentKeeps DEF Refuse, Tellings
    <2>3. CASE Tells("fail")
      <3>1. replies' \in Seq({"ok", "fail"}) /\ SuccessIsTrue'
        BY <2>3, TellIsTrue DEF Tellings, SuccessIsTrue, Tells
      <3> QED BY <1>0, <1>2, <2>1, <3>1 DEF Refuse, Tellings
    <2> QED BY <1>2, <2>2, <2>3 DEF Refuse
  <1>3. CASE AppGoes
    <2>1. replies # << >> => status \in Told
      BY <1>3 DEF AppGoes, Tellings
    <2> QED BY <1>0, <1>3, <2>1 DEF AppGoes, Tellings, SuccessIsTrue
  <1>4. CASE \E p \in ToClient : MissingStream(p)
    BY <1>0, <1>4, SilentKeeps DEF MissingStream, Tellings
  <1>5. CASE SocksConnected
    <2>1. CASE UNCHANGED <<status, app, replies>>
      BY <1>0, <1>5, <2>1, SilentKeeps DEF SocksConnected, Tellings
    <2>2. CASE status # "cancelled" /\ SocksResult("ok", "active", FALSE)
      <3>1. status = "connecting" /\ attached
        BY <1>5, <2>2 DEF SocksConnected, Tellings, Statuses, Knows
      <3> QED BY <1>0, <1>5, <2>2, <3>1, SocksResultKeeps DEF SocksConnected
    <2> QED BY <1>5, <2>1, <2>2 DEF SocksConnected
  <1>6. CASE SocksFailure
    <2>1. CASE UNCHANGED <<status, app, replies>>
      BY <1>0, <1>6, <2>1, SilentKeeps DEF SocksFailure, Tellings
    <2>2. CASE SocksResult("fail", "failed", TRUE)
      BY <1>0, <1>6, <2>2, SocksResultKeeps DEF SocksFailure
    <2> QED BY <1>6, <2>1, <2>2 DEF SocksFailure
  <1>7. CASE StreamConnected
    <2>1. CASE UNCHANGED <<status, replies>>
      BY <1>0, <1>7, <2>1, SilentKeeps DEF StreamConnected, Tellings
    <2>2. CASE Allowed /\ Tells("ok") /\ status' = "active"
      <3>1. status = "connecting" /\ attached
        BY <1>7, <2>2 DEF StreamConnected, Allowed, Tellings, Statuses, Knows
      <3> QED BY <1>0, <2>2, <3>1, TellingKeeps DEF Told
    <2> QED BY <1>7, <2>1, <2>2 DEF StreamConnected
  <1>8. CASE StreamConnectFail
    <2>1. CASE UNCHANGED <<status, app, replies>>
      BY <1>0, <1>8, <2>1, SilentKeeps DEF StreamConnectFail, Tellings
    <2>2. CASE Tells("fail") /\ status' = "timewait"
      BY <1>0, <2>2, TellingKeeps DEF Told, Ended
    <2> QED BY <1>8, <2>1, <2>2 DEF StreamConnectFail
  <1>9. CASE ResetReceived \/ ResetAcked \/ ShowClosing
    <2>1. /\ listed /\ UNCHANGED replies /\ status \in Statuses
          /\ \/ status' = status /\ app' \in {app, "closed"}
             \/ status' \in {"timewait", "closing"}
      BY <1>9 DEF ResetReceived, ResetAcked, ShowClosing, Terminal, ArqCloses, Tellings
    <2>2. CASE status' = status
      BY <1>0, <2>1, <2>2 DEF Tellings, SuccessIsTrue
    <2>3. CASE status' \in {"timewait", "closing"}
      BY <1>0, <2>1, <2>3, SilentKeeps DEF Told, Ended, Statuses
    <2> QED BY <2>1, <2>2, <2>3
  <1>10. CASE ClientCloses \/ ClientResets \/ Forget \/ SendData
    <2>1. UNCHANGED <<replies, status, listed>> /\ app' \in {app, "closed"}
      BY <1>10 DEF ClientCloses, ClientResets, Forget, SendData, ArqCloses, clientVars
    <2> QED BY <1>0, <2>1 DEF Tellings, SuccessIsTrue
  <1>11. CASE Unlist
    BY <1>0, <1>11, SilentKeeps DEF Unlist, Tellings
  <1>12. CASE CleanUpClient
    BY <1>0, <1>12, SilentKeeps DEF CleanUpClient, Told, Ended, Statuses
  <1> QED BY <1>1, <1>2, <1>3, <1>4, <1>5, <1>6, <1>7, <1>8, <1>9, <1>10, <1>11, <1>12 DEF ClientStep

(* No step of the client makes a CONNECTED.                                *)
LEMMA ClientMakesNone ==
  ASSUME ClientStep, "CONNECTED" \in wire'
  PROVE  "CONNECTED" \in wire
  <1>1. \A packets \in {Syns, {"RST"}, {"DATA"}} :
          wire' = Sent(packets) => "CONNECTED" \in wire
    BY SentBrings DEF Syns
  <1> QED BY <1>1 DEF ClientStep, Connect, Refuse, AppGoes, MissingStream, SocksConnected,
       SocksFailure, SocksResult, PendingLocalClose, CloseWithReset, StreamConnected,
       StreamConnectFail, ResetReceived, ResetAcked, SendData, ClientCloses, ClientResets, Unlist,
       CleanUpClient, ShowClosing, Forget

Inv == ServerInv /\ Knows /\ Tellings

LEMMA ServerKeepsSetup ==
  ASSUME ServerStep
  PROVE  UNCHANGED protocol
  BY ZenonT(60)
     DEF ServerStep, setup, RefuseSyn, SynAgain, DispatchSyn, AckSyn, ReceiveReset, ReceiveData,
         StartTask, Works, Begin, GivesUp, NoStream, HasStream, DialFails, DialSucceeds,
         CheckCancelled, Attach, Announce, ServerCloses, ServerResets, Finishes, CleanUp,
         NoteStreamClosed, PruneMark, PurgeFragments, CloseSession, ForgetSession

LEMMA AttachedStays ==
  ASSUME ServerStep, attached
  PROVE  attached'
  BY DEF ServerStep, RefuseSyn, SynAgain, DispatchSyn, AckSyn, ReceiveReset, ReceiveData,
         StartTask, Works, Begin, GivesUp, NoStream, HasStream, DialFails, DialSucceeds,
         CheckCancelled, Attach, Announce, ServerCloses, ServerResets, Finishes, CleanUp,
         NoteStreamClosed, PruneMark, PurgeFragments, CloseSession, ForgetSession, serverVars

(* A local connection is told of success at most once, before anything     *)
(* else, and only if a stream was given an upstream connection             *)
(* (HandleSocksConnected, handleStreamConnected).                          *)
THEOREM SuccessNotInvented == Spec => []SuccessIsTrue
  <1>1. Init => Inv
    <2> SUFFICES ASSUME Init PROVE Knows /\ Tellings
      BY ServerStarts DEF Init, Inv
    <2>1. DOMAIN streams = {} /\ replies = << >> /\ replies \in Seq({"ok", "fail"})
      BY DEF Init, ServerInit, ClientInit
    <2>2. Knows
      BY <2>1 DEF Init, ServerInit, Knows, Idle
    <2>3. Tellings
      BY <2>1 DEF Init, ClientInit, Tellings, SuccessIsTrue, Statuses
    <2> QED BY <2>2, <2>3
  <1>2. Inv /\ [Next]_vars => Inv'
    <2> SUFFICES ASSUME Inv, [Next]_vars PROVE Inv'
      OBVIOUS
    <2>1. CASE ClientStep /\ UNCHANGED serverVars
      <3>1. ServerInv' /\ UNCHANGED <<streams, tasks, attached>>
        BY <2>1, OtherStepsKeep DEF Inv, serverVars, laneVars
      <3>2. Knows'
        BY <2>1, <3>1, ClientMakesNone DEF Inv, Knows
      <3>3. Tellings'
        BY <2>1, <3>1, ClientStepTells DEF Inv
      <3> QED BY <3>1, <3>2, <3>3 DEF Inv
    <2>2. CASE ServerStep /\ UNCHANGED clientVars
      <3>1. ServerInv' /\ Knows'
        BY <2>2, ServerStepKeeps, ServerStepKnows DEF Inv
      <3>2. Tellings'
        BY <2>2, ServerKeepsSetup, AttachedStays DEF Inv, Tellings, SuccessIsTrue, clientVars
      <3> QED BY <3>1, <3>2 DEF Inv
    <2>3. CASE \/ UNCHANGED vars
               \/ \E direction \in {ToServer, ToClient} :
                    Silence(direction) /\ UNCHANGED <<clientVars, serverVars>>
      <3>1. /\ UNCHANGED <<serverVars, clientVars, protocol>> /\ wire' \subseteq wire
        BY <2>3 DEF vars, Silence, setup
      <3>2. ServerInv'
        BY <3>1, OtherStepsKeep DEF Inv
      <3>3. Knows' /\ Tellings'
        BY <3>1 DEF Inv, Knows, Tellings, SuccessIsTrue, serverVars, laneVars, clientVars
      <3> QED BY <3>2, <3>3 DEF Inv
    <2> QED BY <2>1, <2>2, <2>3 DEF Next
  <1>3. Inv => SuccessIsTrue
    BY DEF Inv, Tellings
  <1> QED BY <1>1, <1>2, <1>3, PTL DEF Spec

=============================================================================
