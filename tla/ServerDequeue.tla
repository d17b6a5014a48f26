--------------------------- MODULE ServerDequeue ---------------------------
(***************************************************************************)
(* How the server answers a client's polls (udpserver/server_session.go):  *)
(* a session's streams and its queue of orphans, for streams that are gone, *)
(* take turns from RRStreamID on, and control packets without a payload of *)
(* all of them are packed into one answer. Several ingress workers answer  *)
(* polls of one session at a time; each reads the turn and the streams,    *)
(* pops from queue after queue, and sets the turn when it has a packet.    *)
(*                                                                         *)
(* A stream's ID is used once, as 65535 others come first; until it opens  *)
(* a stream is like one that has nothing to send.                          *)
(***************************************************************************)
EXTENDS LevelQueue

CONSTANTS
  LastStream,          \* stream IDs are 1..LastStream
  StreamPackets,       \* stream -> types it sends
  OrphanPackets,       \* types sent for streams that are gone
  PollWorkers,         \* ingress workers
  MaxPackedBlocks,
  BlockDuplication     \* PacketBlockControlDuplication

ASSUME PacketsAssumption ==
  /\ \A s \in 1..LastStream : StreamPackets[s] \subseteq DOMAIN LevelOf
  /\ {"data", "resend"} \cap OrphanPackets = {}
ASSUME DequeueAssumption ==
  /\ LastStream \in Nat \ {0} /\ IsFiniteSet(PollWorkers)
  /\ MaxPackedBlocks \in Nat /\ BlockDuplication \in Nat \ {0}

VARIABLES
  queues,    \* ID -> its transmit queue
  status,    \* stream -> "open", "closed" when its ARQ is, "gone"
  turn,      \* RRStreamID
  copies,    \* LastPackedControlBlockRemaining
  polls,     \* worker -> the poll it answers
  passed     \* ID -> answers given to others since it has had a packet

dequeueVars == <<queues, status, turn, copies, polls, passed>>

Orphan == -1
Streams == 1..LastStream
Ids == {Orphan} \cup Streams
NoPoll == [at |-> "idle", turn |-> 0, left |-> << >>, id |-> 0, packet |-> "none"]
Waits(id) == queues[id].size > 0
Lives(id) == IF id = Orphan THEN TRUE ELSE status[id] = "open"

DequeueTypeOK ==
  /\ \A id \in Ids : queues[id].census \subseteq (IF id = Orphan THEN OrphanPackets ELSE StreamPackets[id])
  /\ status \in [Streams -> {"open", "closed", "gone"}]
  /\ turn \in 0..(LastStream + 1) /\ copies \in 0..BlockDuplication
  /\ \A w \in PollWorkers : polls[w].at \in {"idle", "read", "scan", "found"}
  /\ passed \in [Ids -> Nat]

DequeueInit ==
  /\ queues = [id \in Ids |-> NewQueue]
  /\ status = [s \in Streams |-> "open"]
  /\ turn = 0 /\ copies = 0
  /\ polls = [w \in PollWorkers |-> NoPoll]
  /\ passed = [id \in Ids |-> 0]

-----------------------------------------------------------------------------
(* What else happens to the session.                                       *)

(* The stream's ARQ closes; it stays in the table for a while.             *)
Closes(s) ==
  /\ status[s] = "open"
  /\ status' = [status EXCEPT ![s] = "closed"]
  /\ passed' = [passed EXCEPT ![s] = 0]
  /\ UNCHANGED <<queues, turn, copies, polls>>

(* removeStream.                                                           *)
Removed(s) ==
  /\ status[s] = "closed"
  /\ status' = [status EXCEPT ![s] = "gone"]
  /\ UNCHANGED <<queues, turn, copies, polls, passed>>

Sends(s, packet) ==
  /\ status[s] = "open"
  /\ queues' = [queues EXCEPT ![s] = PushTXPacket(@, packet)]
  /\ UNCHANGED <<status, turn, copies, polls, passed>>

(* enqueueOrphanReset.                                                     *)
SendsOrphan(packet) ==
  /\ queues' = [queues EXCEPT ![Orphan] = Push(@, 0, packet)]
  /\ UNCHANGED <<status, turn, copies, polls, passed>>

(* An acknowledgement takes the data out of the queue.                     *)
Acknowledged(s) ==
  /\ \E packet \in {"data", "resend"} : Has(queues[s], packet)
  /\ queues' = [queues EXCEPT ![s] = RemoveQueuedData(@)]
  /\ passed' = [passed EXCEPT ![s] = IF queues'[s].size = 0 THEN 0 ELSE @]
  /\ UNCHANGED <<status, turn, copies, polls>>

-----------------------------------------------------------------------------
(* An answer goes out with packets of the IDs in served: whoever still     *)
(* waits is passed over.                                                   *)
Serves(served, after) ==
  passed' = [id \in Ids |->
    IF id \in served \/ after[id].size = 0 \/ ~Lives(id) THEN 0
    ELSE passed[id] + 1]

(* Mutant: the copies are not counted down.                                *)
RepeatForEver(w) ==
  /\ polls[w].at = "idle" /\ copies > 0
  /\ Serves({}, queues)
  /\ UNCHANGED <<queues, status, turn, copies, polls>>

(* dequeueDuplicatedPackedControlBlock: the last packed answer once more.  *)
Repeat(w) ==
  /\ polls[w].at = "idle" /\ copies > 0
  /\ copies' = copies - 1
  /\ Serves({}, queues)
  /\ UNCHANGED <<queues, status, turn, polls>>

(* Otherwise the turn is read under the session's mutex, and later the     *)
(* streams under theirs.                                                   *)
ReadTurn(w) ==
  /\ polls[w].at = "idle" /\ copies = 0
  /\ polls' = [polls EXCEPT ![w] = [NoPoll EXCEPT !.at = "read", !.turn = turn]]
  /\ UNCHANGED <<queues, status, turn, copies, passed>>

(* The candidates, beginning with the first that is not before the turn.   *)
FromTheTurn(candidates, from) ==
  LET before == {id \in Ids : id < from}
  IN  Drop(candidates, before) \o Drop(candidates, Ids \ before)

(* activeStreamSnapshot, in the order of the IDs.                          *)
Snapshot(w) ==
  /\ polls[w].at = "read"
  /\ LET absent == {s \in Streams : status[s] = "gone"} \cup {id \in {Orphan} : ~Waits(id)}
         ids == [i \in 1..(LastStream + 1) |-> IF i = 1 THEN Orphan ELSE i - 1]
         candidates == Drop(ids, absent)
     IN  polls' = [polls EXCEPT ![w].at = "scan",
                     ![w].left = FromTheTurn(candidates, polls[w].turn)]
  /\ UNCHANGED <<queues, status, turn, copies, passed>>

Scanning(w) == polls[w].at = "scan" /\ polls[w].left # << >>
Candidate(w) == Head(polls[w].left)
Onward(w) == polls' = [polls EXCEPT ![w].left = Tail(@)]

Skip(w) ==
  /\ Scanning(w) /\ ~Waits(Candidate(w))
  /\ Onward(w)
  /\ UNCHANGED <<queues, status, turn, copies, passed>>

(* A closed stream's packets are dropped and it is no candidate any more.  *)
DropClosed(w) ==
  /\ Scanning(w) /\ Waits(Candidate(w))
  /\ ~Lives(Candidate(w))
  /\ queues' = [queues EXCEPT ![Candidate(w)] = NewQueue]
  /\ status' = [status EXCEPT ![Candidate(w)] = "gone"]
  /\ Onward(w)
  /\ UNCHANGED <<turn, copies, passed>>

(* The first packet of the candidate. Data that the peer has acknowledged  *)
(* meanwhile is not sent, and the stream has had its turn.                 *)
PopNext(w) ==
  /\ Scanning(w) /\ Waits(Candidate(w))
  /\ Lives(Candidate(w))
  /\ LET id == Candidate(w)
         packet == First(queues[id])
     IN  /\ queues' = [queues EXCEPT ![id] = Pop(@)]
         /\ passed' = [passed EXCEPT ![id] = 0]
         /\ \/ polls' = [polls EXCEPT ![w].at = "found", ![w].id = id, ![w].packet = packet]
            \/ packet \in {"data", "resend"} /\ Onward(w)
  /\ UNCHANGED <<status, turn, copies>>

(* Nobody has a packet: the client gets a PONG.                            *)
Pong(w) ==
  /\ polls[w].at = "scan" /\ polls[w].left = << >>
  /\ polls' = [polls EXCEPT ![w] = NoPoll]
  /\ UNCHANGED <<queues, status, turn, copies, passed>>

(* packControlBlocks: whose packets are taken next, [id, packet]. The own  *)
(* ID first, then the orphans and the streams that follow it in turn, or   *)
(* all of them when the own stream is gone meanwhile.                      *)
ToPack(id) ==
  LET active(s) == status[s] \in {"open", "closed"} /\ s # id
      ids == [s \in 1..LastStream |-> s]
      gone == IF id = Orphan THEN FALSE ELSE status[id] = "gone"
      order == (IF gone THEN << >> ELSE <<id>>)
                 \o (IF id = Orphan THEN << >> ELSE <<Orphan>>)
                 \o SelectSeq(IF gone THEN ids ELSE FromTheTurn(ids, id + 1), active)
      blocks(other) ==
        LET found == Found(queues[other], PackedLevels, Packable)
        IN  [i \in DOMAIN found |-> [id |-> other, packet |-> found[i]]]
  IN  FlattenSeq([i \in DOMAIN order |-> blocks(order[i])])

(* Packed blocks are taken in the session's mutex, as is the new turn. An  *)
(* answer with several blocks is kept to be repeated.                      *)
Answer(w) ==
  /\ polls[w].at = "found"
  /\ turn' = polls[w].id + 1
  /\ polls' = [polls EXCEPT ![w] = NoPoll]
  /\ IF polls[w].packet \in Packable /\ MaxPackedBlocks > 1
       THEN LET found == ToPack(polls[w].id)
                packed == SubSeq(found, 1, IF Len(found) < MaxPackedBlocks THEN Len(found)
                                           ELSE MaxPackedBlocks - 1)
                from(id) == {b.packet : b \in {c \in ToSet(packed) : c.id = id}}
            IN  /\ queues' = [id \in Ids |-> RemoveAll(queues[id], from(id))]
                /\ copies' = IF packed # << >> /\ BlockDuplication > 1 THEN BlockDuplication - 1 ELSE 0
                /\ Serves({polls[w].id} \cup {b.id : b \in ToSet(packed)}, queues')
       ELSE UNCHANGED <<queues, copies>> /\ Serves({polls[w].id}, queues)
  /\ UNCHANGED status

-----------------------------------------------------------------------------
Poll(w) ==
  \/ Repeat(w) \/ ReadTurn(w) \/ Snapshot(w)
  \/ Skip(w) \/ DropClosed(w) \/ PopNext(w) \/ Pong(w) \/ Answer(w)

DequeueNext ==
  \/ \E s \in Streams :
       Closes(s) \/ Removed(s) \/ Acknowledged(s) \/ \E p \in StreamPackets[s] : Sends(s, p)
  \/ \E p \in OrphanPackets : SendsOrphan(p)
  \/ \E w \in PollWorkers : Poll(w)

DequeueSpec == DequeueInit /\ [][DequeueNext]_dequeueVars

-----------------------------------------------------------------------------
(* Properties.                                                             *)

(* Push, Pop, PopAnyIf, RemoveByKey and Clear keep every queue's census,   *)
(* bits and size in step with its items, so that no packet is refused or   *)
(* counted for ever; a number's data and its retransmission are never both *)
(* queued (PushTXPacket of both ends).                                     *)
QueuesAreCounted ==
  \A id \in Ids :
    /\ QueueIsCounted(queues[id])
    /\ ~({"data", "resend"} \subseteq queues[id].census)

(* How many workers are how many places before an ID in the round.         *)
Places == 0..LastStream
Counts(f) == [d \in Places |-> Cardinality({w \in PollWorkers : f[w] = d})]
Spread == {Counts(f) : f \in [PollWorkers -> Places]}

(* Whoever has a packet is passed over a bounded number of times, although *)
(* the others' queues are refilled at once and workers that read the turn  *)
(* long ago set it back: an answer brings its worker nearer, and the others *)
(* go on from there, so that no spread of the workers comes back. Each     *)
(* answer may go out with all of its copies (dequeueSessionResponse).      *)
MaxPassed == BlockDuplication * Cardinality(Spread)
BoundedBypass == \A id \in Ids : passed[id] < MaxPassed

=============================================================================
