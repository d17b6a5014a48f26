---------------------------- MODULE ServerStream ----------------------------
(***************************************************************************)
(* The server's side of one stream ID from its SYN on: the ingress         *)
(* handlers (udpserver/server_postsession.go), the tasks that dial         *)
(* (server_deferred.go), the stream (stream_server.go) and its entry in    *)
(* the session (session.go).                                               *)
(*                                                                         *)
(* All of a stream's tasks have one lane of the deferred session runtime.  *)
(* DeferredSession models that runtime; here is what it means to a lane:   *)
(* its tasks run one by one, except that a task may start beside one the   *)
(* lane was removed or finalized under, and a cancellation reaches the     *)
(* task whose CancelFunc the lane holds.                                   *)
(***************************************************************************)
EXTENDS StreamWire

CONSTANTS
  Tasks,          \* tasks of the lane that can run at a time
  SessionMayEnd,  \* TRUE or FALSE
  MaxStreams,     \* streams made under the ID, times the fragments, and
  MaxDials        \* connections opened: bounds

ASSUME ServerAssumption ==
  SessionMayEnd \in BOOLEAN /\ MaxStreams \in Nat \ {0} /\ MaxDials \in Nat \ {0}

VARIABLES
  session,     \* "open", "closing", "closed"
  streams,     \* every stream made under the ID, oldest first
  current,     \* index of the one in the session's table, 0 if none is
  mark,        \* the ID is in RecentlyClosed
  acking,      \* SYN copies whose handler has still to acknowledge them
  inflight,    \* deferredInflight, keys of this stream
  lane,        \* [queue, cancelled, running] in the deferred session runtime
  tasks,       \* task -> what it does
  fragments,   \* the fragment store's entry for the SYN
  open,        \* upstream connections that are open
  dials,       \* connections made so far
  attached     \* a stream was given a connection (history)

laneVars == <<inflight, lane, tasks, fragments>>
serverVars == <<session, streams, current, mark, acking, laneVars, open, dials, attached>>

Nil == 0
NoFragments == [have |-> {}, done |-> FALSE]
Idle == [at |-> "idle", syn |-> "SYN1", on |-> Nil, live |-> FALSE, alone |-> FALSE, conn |-> Nil]
NewStream == [stage |-> "live", connected |-> FALSE, conn |-> Nil]

(* A stream's ARQ is open while it is live or resetting; the stages of its  *)
(* finalization follow.                                                    *)
Over(i) == streams[i].stage \in {"closed", "deleted", "gone"}

ServerInit ==
  /\ session = "open"
  /\ streams = << >> /\ current = Nil /\ mark = FALSE
  /\ acking = {} /\ inflight = {}
  /\ lane = [queue |-> << >>, cancelled |-> FALSE, running |-> Nil]
  /\ tasks = [t \in Tasks |-> Idle]
  /\ fragments = NoFragments
  /\ open = {} /\ dials = 0 /\ attached = FALSE

-----------------------------------------------------------------------------
(* The lane.                                                               *)

Detached == [t \in Tasks |-> [tasks[t] EXCEPT !.alone = FALSE]]
Emptied == [lane EXCEPT !.queue = << >>, !.cancelled = TRUE]

(* The lane's CancelFunc is called.                                        *)
Cancelled(ts) ==
  IF lane.running = Nil THEN ts ELSE [ts EXCEPT ![lane.running].live = FALSE]


(* clearDeferredPacketsForStream: the marks go, and RemoveLane.            *)
ClearLane ==
  /\ inflight' = {}
  /\ lane' = [Emptied EXCEPT !.running = Nil]
  /\ tasks' = Cancelled(Detached)

(* cleanupStreamArtifacts.                                                 *)
ClearArtifacts == ClearLane /\ fragments' = NoFragments

(* finishDeferredPacket and finishLane, at the end of task t: whatever     *)
(* CancelFunc the lane holds is called. before is the lane it finds.       *)
Finished(t, before, ts) ==
  /\ lane' = [before EXCEPT !.running = Nil, !.cancelled = FALSE]
  /\ tasks' = [Cancelled(ts) EXCEPT ![t] = Idle]

EndTask(t) ==
  /\ Finished(t, lane, tasks)
  /\ inflight' = inflight \ {tasks[t].syn}
  /\ UNCHANGED fragments

(* finalizeDeferredConnectStream or finalizeStreamArtifacts, the last      *)
(* thing a task does that has settled the stream; then it ends.            *)
FinalizeAndEnd(t) ==
  /\ Finished(t, Emptied, Detached)
  /\ inflight' = {}
  /\ fragments' = NoFragments

-----------------------------------------------------------------------------
(* Packets that arrive.                                                    *)

ShouldExecute ==
  /\ session = "open"
  /\ ~mark
  /\ current # Nil => streams[current].stage = "live"

(* SendControlPacketWithTTL on stream i: nothing of a stream that is closed *)
(* or not in the table is ever taken from its queue.                       *)
AnswerOn(i, p) ==
  wire' = IF i = current' /\ streams'[i].stage \in {"live", "reset"} THEN Sent({p}) ELSE wire

RoomForStream == Len(streams) * total < MaxStreams

(* getOrCreateStream with none in the table. Making one clears the mark.   *)
CreateStream ==
  /\ RoomForStream
  /\ streams' = Append(streams, NewStream)
  /\ current' = Len(streams) + 1
  /\ mark' = FALSE

(* A SYN copy for an ID that was closed a moment ago.                      *)
RefuseSyn(p) ==
  /\ p \in wire \cap Syns /\ session = "open"
  /\ current = Nil /\ mark
  /\ wire' = Sent({"ORPHAN_RST"})
  /\ UNCHANGED <<setup, serverVars>>

(* A later copy for a stream that has its connection, or whose target is  *)
(* blocked, is answered at once; a target in several fragments is not      *)
(* known before it is assembled (tryHandleImmediateConnected...SYN,        *)
(* tryHandleImmediateRejectedSOCKS5Syn). The copy is acknowledged later.   *)
Settled == current # Nil /\ total = 1 /\ (blocked \/ streams[current].connected)

SynAgain(p) ==
  /\ p \in (wire \cap Syns) \ acking /\ session = "open"
  /\ acking' = acking \cup {p}
  /\ UNCHANGED <<setup, session, streams, current, mark, open, dials, attached>>
  /\ Settled
  /\ AnswerOn(current, IF blocked THEN "FAIL" ELSE "CONNECTED")
  /\ ClearArtifacts

(* Else it becomes a task, unless a copy is one already or the runtime is  *)
(* full; in the latter case it is not acknowledged.                        *)
DispatchSyn(p) ==
  /\ p \in (wire \cap Syns) \ acking /\ session = "open"
  /\ ~(current = Nil /\ mark) /\ ~Settled
  /\ IF p \in inflight THEN UNCHANGED <<inflight, lane>>
     ELSE /\ inflight' = inflight \cup {p}
          /\ lane' = [lane EXCEPT !.queue = Append(@, p), !.cancelled = FALSE]
  /\ acking' = acking \cup {p}
  /\ UNCHANGED <<setup, wire, session, streams, current, mark, tasks, fragments, open, dials, attached>>

(* queueImmediateControlAck, later: it creates the stream if the table has *)
(* none, and room.                                                         *)
AckSyn(p) ==
  /\ p \in acking
  /\ acking' = acking \ {p}
  /\ \/ /\ current # Nil \/ session # "open" \/ ~RoomForStream
        /\ UNCHANGED <<streams, current, mark>>
     \/ current = Nil /\ session = "open" /\ CreateStream
  /\ UNCHANGED <<setup, wire, session, laneVars, open, dials, attached>>

ReceiveReset ==
  /\ "RST" \in wire /\ session = "open"
  /\ wire' = Sent({"RST_ACK"})
  /\ IF current = Nil THEN UNCHANGED <<streams, laneVars>>
     ELSE /\ ClearLane
          /\ IF Over(current) THEN UNCHANGED <<streams, fragments>>
             ELSE /\ streams' = [streams EXCEPT ![current].stage = "closed"]
                  /\ fragments' = NoFragments
  /\ UNCHANGED <<setup, session, current, mark, acking, open, dials, attached>>

(* Data for a stream that is not there any more.                           *)
ReceiveData ==
  /\ "DATA" \in wire /\ session = "open"
  /\ current # Nil => streams[current].stage # "live"
  /\ wire' = Sent({"ORPHAN_RST"})
  /\ UNCHANGED <<setup, serverVars>>

-----------------------------------------------------------------------------
(* The task: processDeferredStreamSyn, processDeferredSOCKS5Syn.           *)

(* A worker takes the lane's next SYN.                                     *)
StartTask(t) ==
  /\ lane.queue # << >>
  /\ tasks[t].at = "idle" /\ \A u \in Tasks : ~tasks[u].alone
  /\ lane' = [lane EXCEPT !.queue = Tail(@), !.running = IF lane.cancelled THEN @ ELSE t]
  /\ tasks' = [tasks EXCEPT ![t] =
                 [Idle EXCEPT !.at = "start", !.syn = Head(lane.queue),
                              !.live = ~lane.cancelled, !.alone = TRUE]]
  /\ UNCHANGED <<setup, wire, session, streams, current, mark, acking, inflight,
                 fragments, open, dials, attached>>

(* The checks of wrappedRun and of the task itself, and the fragments.     *)
Begin(t) ==
  /\ tasks[t].at = "start"
  /\ LET have == fragments.have \cup {tasks[t].syn}
         goes == tasks[t].live /\ tasks[t].syn \in inflight /\ ShouldExecute
     IN \/ /\ goes /\ ~fragments.done /\ have = Syns
           /\ fragments' = IF protocol = "TCP" THEN fragments ELSE [have |-> {}, done |-> TRUE]
           /\ tasks' = [tasks EXCEPT ![t].at = "create"]
           /\ UNCHANGED <<inflight, lane>>
        \/ /\ goes => fragments.done \/ have # Syns
           /\ Finished(t, lane, tasks)
           /\ inflight' = inflight \ {tasks[t].syn}
           /\ fragments' = IF goes /\ ~fragments.done THEN [fragments EXCEPT !.have = have] ELSE fragments
  /\ UNCHANGED <<setup, wire, session, streams, current, mark, acking, open, dials, attached>>

(* For a SOCKS5 target that is assembled the check is repeated.            *)
GivesUp(t) ==
  /\ tasks[t].at = "create" /\ protocol = "SOCKS5"
  /\ ~ShouldExecute
  /\ EndTask(t)
  /\ UNCHANGED <<setup, wire, session, streams, current, mark, acking, open, dials, attached>>

(* getOrCreateStream has no room, or the session is closed.                *)
NoStream(t) ==
  /\ tasks[t].at = "create"
  /\ current = Nil \/ session # "open"
  /\ wire' = IF session = "open" THEN Sent({"ORPHAN_RST"}) ELSE wire
  /\ IF protocol = "TCP" THEN EndTask(t) ELSE FinalizeAndEnd(t)
  /\ UNCHANGED <<setup, session, streams, current, mark, acking, open, dials, attached>>

(* Else the task has its stream, which it may have brought back. It is     *)
(* connected already; or the target is refused; or it is dialled.          *)
HasStream(t) ==
  /\ tasks[t].at = "create" /\ session = "open"
  /\ UNCHANGED <<setup, session, acking, open, dials, attached>>
  /\ IF current # Nil THEN UNCHANGED <<streams, current, mark>> ELSE CreateStream
  /\ LET i == current' IN
       \/ /\ streams'[i].connected
          /\ AnswerOn(i, "CONNECTED") /\ FinalizeAndEnd(t)
       \/ /\ blocked /\ ShouldExecute'
          /\ AnswerOn(i, "FAIL") /\ FinalizeAndEnd(t)
       \/ /\ ~blocked /\ ~streams'[i].connected /\ ShouldExecute'
          /\ tasks' = [tasks EXCEPT ![t].at = "dial", ![t].on = i]
          /\ UNCHANGED <<wire, inflight, lane, fragments>>
       \/ /\ ~streams'[i].connected /\ ~ShouldExecute'
          /\ EndTask(t) /\ UNCHANGED wire

(* A cancelled dial, or one for a stream that is over, ends in silence.    *)
DialFails(t) ==
  /\ tasks[t].at = "dial"
  /\ UNCHANGED <<setup, session, streams, current, mark, acking, open, dials, attached>>
  /\ IF tasks[t].live /\ ShouldExecute
     THEN AnswerOn(tasks[t].on, "FAIL") /\ FinalizeAndEnd(t)
     ELSE EndTask(t) /\ UNCHANGED wire

(* A connection that comes after the context has ended is closed by the    *)
(* dial itself.                                                            *)
DialSucceeds(t) ==
  /\ tasks[t].at = "dial" /\ dials < MaxDials
  /\ dials' = dials + 1 /\ open' = open \cup {dials + 1}
  /\ tasks' = [tasks EXCEPT ![t].at = "dialled", ![t].conn = dials + 1]
  /\ UNCHANGED <<setup, wire, session, streams, current, mark, acking, inflight, lane, fragments, attached>>

CheckCancelled(t) ==
  /\ tasks[t].at = "dialled"
  /\ IF tasks[t].live
     THEN tasks' = [tasks EXCEPT ![t].at = "attach"] /\ UNCHANGED <<inflight, lane, fragments, open>>
     ELSE EndTask(t) /\ open' = open \ {tasks[t].conn}
  /\ UNCHANGED <<setup, wire, session, streams, current, mark, acking, dials, attached>>

(* Mutant: attachUpstreamConn asks only whether there is one.              *)
AttachesToAny(i) == ~streams[i].connected

(* attachUpstreamConn; a stream that is only resetting still takes it.     *)
Attaches(i) == ~Over(i) /\ ~streams[i].connected /\ streams[i].conn = Nil

Attach(t) ==
  /\ tasks[t].at = "attach"
  /\ LET i == tasks[t].on IN
       IF session = "open" /\ Attaches(i)
       THEN /\ streams' = [streams EXCEPT ![i].connected = TRUE, ![i].conn = tasks[t].conn]
            /\ tasks' = [tasks EXCEPT ![t].at = "attached"]
            /\ attached' = TRUE
            /\ UNCHANGED <<inflight, lane, fragments, open>>
       ELSE /\ open' = open \ {tasks[t].conn}
            /\ FinalizeAndEnd(t) /\ UNCHANGED <<streams, attached>>
  /\ UNCHANGED <<setup, wire, session, current, mark, acking, dials>>

(* Once more before the client is told. If the stream is over its          *)
(* connection is closed, and the stream stays Connected.                   *)
Announce(t) ==
  /\ tasks[t].at = "attached"
  /\ UNCHANGED <<setup, session, streams, current, mark, acking, dials, attached>>
  /\ IF ShouldExecute
     THEN AnswerOn(tasks[t].on, "CONNECTED") /\ UNCHANGED open
     ELSE open' = open \ {tasks[t].conn} /\ UNCHANGED wire
  /\ FinalizeAndEnd(t)

-----------------------------------------------------------------------------
(* The end of a stream.                                                    *)

(* Its ARQ closes by itself: inactivity, retries used up, a handshake done. *)
ServerCloses(i) ==
  /\ streams[i].stage \in {"live", "reset"}
  /\ streams' = [streams EXCEPT ![i].stage = "closed"]
  /\ UNCHANGED <<setup, wire, session, current, mark, acking, laneVars, open, dials, attached>>

(* Or it resets the stream, and waits for the acknowledgement.             *)
ServerResets(i) ==
  /\ streams[i].stage = "live" /\ session = "open"
  /\ UNCHANGED <<setup, session, current, mark, acking, laneVars, open, dials, attached>>
  /\ streams' = [streams EXCEPT ![i].stage = "reset"]
  /\ AnswerOn(i, "ORPHAN_RST")

(* finalizeAfterARQClose: cleanupResources, and removeStream, which takes  *)
(* the table's mutex twice and does nothing once the session is closed.    *)
CleanUp(i) ==
  /\ streams[i].stage = "closed"
  /\ open' = open \ {streams[i].conn}
  /\ streams' = [streams EXCEPT ![i] = [stage |-> "deleted", connected |-> FALSE, conn |-> Nil]]
  /\ current' = IF session = "open" THEN Nil ELSE current
  /\ UNCHANGED <<setup, wire, session, mark, acking, laneVars, dials, attached>>

(* Its second half, noteStreamClosed, and the session's streamCleanup.     *)
NoteStreamClosed(i) ==
  /\ streams[i].stage = "deleted"
  /\ mark' = (session = "open" \/ mark)
  /\ streams' = [streams EXCEPT ![i].stage = "gone"]
  /\ ClearArtifacts
  /\ UNCHANGED <<setup, wire, session, current, acking, open, dials, attached>>

(* The mark outlives every packet of the stream: ten minutes against the   *)
(* seconds a control packet is repeated.                                   *)
PruneMark ==
  /\ mark /\ wire \cap ToServer = {} /\ acking = {}
  /\ mark' = FALSE
  /\ UNCHANGED <<setup, wire, session, streams, current, acking, laneVars, open, dials, attached>>

(* The store forgets fragments and assemblies that are old.                *)
PurgeFragments ==
  /\ fragments # NoFragments
  /\ fragments' = NoFragments
  /\ UNCHANGED <<setup, wire, session, streams, current, mark, acking, inflight, lane, tasks,
                 open, dials, attached>>

(* The session ends: closeAllStreams closes the stream it finds, empties   *)
(* the table, and the runtime forgets the lane.                            *)
CloseSession ==
  /\ SessionMayEnd /\ session = "open"
  /\ session' = "closing"
  /\ inflight' = {} /\ fragments' = NoFragments
  /\ streams' = [i \in DOMAIN streams |->
                   IF i = current /\ ~Over(i) THEN [streams[i] EXCEPT !.stage = "closed"] ELSE streams[i]]
  /\ UNCHANGED <<setup, wire, current, mark, acking, lane, tasks, open, dials, attached>>

ForgetSession ==
  /\ session = "closing"
  /\ current # Nil => streams[current].stage = "gone"
  /\ session' = "closed" /\ current' = Nil
  /\ ClearLane
  /\ UNCHANGED <<setup, wire, streams, mark, acking, fragments, open, dials, attached>>

-----------------------------------------------------------------------------
Finishes(i) == CleanUp(i) \/ NoteStreamClosed(i)

Works(t) ==
  \/ Begin(t) \/ GivesUp(t) \/ NoStream(t) \/ HasStream(t)
  \/ DialFails(t) \/ DialSucceeds(t)
  \/ CheckCancelled(t) \/ Attach(t) \/ Announce(t)

ServerStep ==
  \/ \E p \in ToServer : RefuseSyn(p) \/ SynAgain(p) \/ DispatchSyn(p) \/ AckSyn(p)
  \/ ReceiveReset \/ ReceiveData
  \/ \E t \in Tasks : StartTask(t) \/ Works(t)
  \/ \E i \in DOMAIN streams : ServerCloses(i) \/ ServerResets(i) \/ Finishes(i)
  \/ PruneMark \/ PurgeFragments \/ CloseSession \/ ForgetSession

(* An open upstream connection is in the hands of a task, or it is that of *)
(* a stream whose clean-up is still to come: however resets, duplicated    *)
(* SYNs, cancellations and the end of the session meet a dial, none is     *)
(* left over (attachUpstreamConn, cleanupResources and the checks before   *)
(* and after the attachment).                                              *)
EveryConnectionHasOwner ==
  \A c \in open :
    \/ \E t \in Tasks : tasks[t].conn = c
    \/ \E i \in DOMAIN streams :
         streams[i].conn = c /\ streams[i].stage \in {"live", "reset", "closed"}

=============================================================================
