------------------------------ MODULE ARQClose ------------------------------
(***************************************************************************)
(* How the two ARQs of one stream end it (internal/arq/arq.go, with the    *)
(* packet handlers of client.go and server_postsession.go): half closes    *)
(* (CLOSE_READ: I will send no more; CLOSE_WRITE: I can take no more),     *)
(* resets, the drain before a terminal packet, acknowledgements, control   *)
(* retransmission, the timeouts, and finalizeClose.                        *)
(*                                                                         *)
(* ARQData shows that the data plane is a reliable ordered stream, so a    *)
(* direction's data is a count of chunks here: arrival, reorder buffer and *)
(* DATA_ACK are one step, in order.  A control packet is transmitted any   *)
(* time while controlSndBuf holds it; finalizeClose, which clears the TX   *)
(* queues, therefore also revokes what was queued and never sent.  A sent  *)
(* packet can arrive at any later time, again and again, or never: loss is *)
(* a packet that never arrives, and fairness (below) promises an arrival   *)
(* only for what its sender still retransmits.                             *)
(***************************************************************************)
EXTENDS Integers, FiniteSets

CONSTANTS MaxData,   \* bound: chunks each application sends before its EOF
          FaultSets  \* what may go wrong: each behaviour draws one of these

FaultKinds == {"read", "write", "grace", "idle", "expiry"}

ASSUME CloseAssumption == MaxData \in Nat /\ FaultSets \subseteq SUBSET FaultKinds

VARIABLES end,       \* the state of each end's ARQ
          net,       \* the packets that were ever sent
          faults     \* the faults of this behaviour; never changes

vars == <<end, net, faults>>

Ends    == {"client", "server"}
Peer(e) == IF e = "client" THEN "server" ELSE "client"

Terminal == {"CLOSE_READ", "CLOSE_WRITE", "RST"}
AckOf    == [CLOSE_READ |-> "CLOSE_READ_ACK", CLOSE_WRITE |-> "CLOSE_WRITE_ACK",
             RST |-> "RST_ACK"]
Acks     == {AckOf[k] : k \in Terminal}
Packet   == [to : Ends, kind : Terminal \cup Acks, chunk : {0}]
              \cup [to : Ends, kind : {"DATA", "DATA_ACK"}, chunk : 0 .. MaxData]

Pkt(to, kind) == [to |-> to, kind |-> kind, chunk |-> 0]
DataPkt(to, kind, c) == [to |-> to, kind |-> kind, chunk |-> c]

EndState ==
    [client : BOOLEAN,
     read : 0 .. MaxData,                 \* chunks read from the local conn
     sndBuf : SUBSET (0 .. MaxData - 1),  \* of those, unacknowledged
     rcvd : 0 .. MaxData,                 \* chunks of the peer accepted
     rcvBuf : 0 .. MaxData,               \* of those, not yet with the writer
     writing : 0 .. MaxData,              \* chunks in a local write
     written : 0 .. MaxData,              \* chunks the application has
     reader : {"loop", "read", "done"},
     writer : {"idle", "write", "empty", "done"},
     flushSignal : BOOLEAN,
     closeReadSent : BOOLEAN, closeReadReceived : BOOLEAN, closeReadAcked : BOOLEAN,
     closeWriteSent : BOOLEAN, closeWriteReceived : BOOLEAN, closeWriteAcked : BOOLEAN,
     rstSent : BOOLEAN, rstReceived : BOOLEAN,
     localWriterBroken : BOOLEAN,
     localWriteClosed : BOOLEAN,
     fin : BOOLEAN,                       \* the application was shown an EOF
     writeFailed : BOOLEAN,               \* history: a local write failed
     stopLocalRead : BOOLEAN,
     closed : BOOLEAN,
     waitingAckFor : Terminal \cup {"none"},
     deferredPacket : Terminal \cup {"none"},
     controlSndBuf : SUBSET Terminal]

TypeOK == end \in [Ends -> EndState] /\ net \subseteq Packet /\ faults \in FaultSets

\* SetIOReady(true) on both ends: the stream is connected.
Fresh(c) ==
    [client |-> c, read |-> 0, sndBuf |-> {}, rcvd |-> 0, rcvBuf |-> 0,
     writing |-> 0, written |-> 0, reader |-> "loop", writer |-> "idle",
     flushSignal |-> TRUE, closeReadSent |-> FALSE, closeReadReceived |-> FALSE,
     closeReadAcked |-> FALSE, closeWriteSent |-> FALSE,
     closeWriteReceived |-> FALSE, closeWriteAcked |-> FALSE, rstSent |-> FALSE,
     rstReceived |-> FALSE, localWriterBroken |-> FALSE, localWriteClosed |-> FALSE,
     fin |-> FALSE, writeFailed |-> FALSE, stopLocalRead |-> FALSE, closed |-> FALSE,
     waitingAckFor |-> "none", deferredPacket |-> "none", controlSndBuf |-> {}]

Init == end = [e \in Ends |-> Fresh(e = "client")] /\ net = {} /\ faults \in FaultSets

-----------------------------------------------------------------------------
(* The methods of one ARQ, as functions of its state s. *)

Resetting(s) == s.rstSent \/ s.rstReceived

FinalizeClose(s) ==
    IF s.closed THEN s
    ELSE [s EXCEPT !.closed = TRUE, !.deferredPacket = "none",
                   !.waitingAckFor = "none", !.sndBuf = {}, !.rcvBuf = 0,
                   !.controlSndBuf = {}]

TryFinalizeClientLocalDisconnect(s) ==
    IF /\ s.client /\ s.localWriterBroken /\ s.closeWriteAcked
       /\ s.closeReadSent /\ s.closeReadAcked
       /\ s.sndBuf = {} /\ s.rcvBuf = 0 /\ s.writing = 0
       /\ s.waitingAckFor = "none" /\ s.deferredPacket = "none"
    THEN FinalizeClose(s) ELSE s

\* Mutant: the reorder buffer is not looked at.
DrainUnchecked(s)   == s.writing = 0

ReceiveDrained(s)   == s.rcvBuf = 0 \/ s.localWriterBroken
WriteSideSettled(s) ==
    IF s.localWriterBroken THEN s.closeWriteAcked \/ s.closeWriteReceived
                           ELSE s.closeWriteSent => s.closeWriteAcked

TryFinalizeRemoteEOF(s) ==
    IF /\ s.closeReadReceived
       /\ ReceiveDrained(s)
       /\ s.writing = 0 \/ s.localWriterBroken
       /\ s.closeReadAcked \/ (s.closeReadSent /\ s.waitingAckFor # "CLOSE_READ")
       /\ WriteSideSettled(s)
    THEN FinalizeClose(s) ELSE TryFinalizeClientLocalDisconnect(s)

\* emitTerminalPacketWithTTL: what it does before it looks at the packet.
Terminating(s) == [s EXCEPT !.stopLocalRead = TRUE, !.deferredPacket = "none"]

EmitCloseRead(s) ==
    IF s.closed THEN s
    ELSE IF Resetting(s) \/ s.closeReadSent THEN Terminating(s)
    ELSE [TryFinalizeRemoteEOF([Terminating(s) EXCEPT
              !.closeReadSent = TRUE, !.waitingAckFor = "CLOSE_READ"])
          EXCEPT !.controlSndBuf = @ \cup {"CLOSE_READ"}]

EmitCloseWrite(s) ==
    IF s.closed THEN s
    ELSE IF Resetting(s) \/ s.closeWriteSent THEN Terminating(s)
    ELSE [Terminating(s) EXCEPT
              !.closeWriteSent = TRUE, !.waitingAckFor = "CLOSE_WRITE",
              !.localWriterBroken = TRUE, !.localWriteClosed = TRUE, !.rcvBuf = 0,
              !.controlSndBuf = @ \cup {"CLOSE_WRITE"}]

EmitRST(s) ==
    IF s.closed THEN s
    ELSE IF Resetting(s) THEN Terminating(s)
    ELSE [Terminating(s) EXCEPT
              !.rstSent = TRUE, !.waitingAckFor = "RST", !.sndBuf = {}, !.rcvBuf = 0,
              !.controlSndBuf = {"RST"}]

\* Close(SendRST) without AfterDrain.
Reset(s) ==
    IF s.closed \/ Resetting(s) \/ s.deferredPacket = "RST" THEN s ELSE EmitRST(s)

\* Mutant: the deferred packet goes out although data is still unacknowledged.
SettleAtOnce(s) ==
    IF s.closed \/ s.deferredPacket = "none" THEN s
    ELSE LET t == [s EXCEPT !.deferredPacket = "none"]
         IN  IF s.deferredPacket = "RST" THEN Reset(t) ELSE EmitCloseRead(t)

\* settleTerminalDrain, unless the drain deadline has passed (DrainTimeout).
Settle(s) ==
    IF s.closed \/ s.deferredPacket = "none" \/ s.sndBuf # {} THEN s
    ELSE LET t == [s EXCEPT !.deferredPacket = "none"]
         IN  IF s.deferredPacket = "RST" THEN Reset(t) ELSE EmitCloseRead(t)

\* deferTerminalPacket.
Defer(s, kind) ==
    IF s.closed THEN s
    ELSE Settle([s EXCEPT !.stopLocalRead = TRUE, !.deferredPacket = kind])

\* Close(SendRST, AfterDrain).
ResetAfterDrain(s) ==
    IF s.closed \/ Resetting(s) \/ s.deferredPacket = "RST" THEN s
    ELSE IF s.sndBuf # {} THEN Defer([s EXCEPT !.deferredPacket = "none"], "RST")
    ELSE EmitRST(s)

MaybeInitiateClientCloseRead(s) ==
    IF /\ s.client /\ s.localWriterBroken /\ ~ s.closed /\ ~ Resetting(s)
       /\ ~ s.closeReadSent /\ ~ s.closeReadReceived
    THEN IF s.sndBuf # {} \/ s.writing # 0 THEN Defer(s, "CLOSE_READ")
                                           ELSE EmitCloseRead(s)
    ELSE s

MarkCloseReadReceived(s) ==
    TryFinalizeRemoteEOF([s EXCEPT !.closeReadReceived = TRUE, !.flushSignal = TRUE])

MarkCloseWriteReceived(s) ==
    TryFinalizeRemoteEOF(Settle([s EXCEPT !.closeWriteReceived = TRUE,
                                          !.stopLocalRead = TRUE, !.sndBuf = {}]))

\* MarkRstReceived and Close(Force).
PeerReset(s) == FinalizeClose([s EXCEPT !.rstReceived = TRUE])

\* ReceiveControlAck for the acknowledgement of a terminal packet.
ReceiveControlAck(s, kind) ==
    LET t == [s EXCEPT !.controlSndBuf = @ \ {kind},
                       !.waitingAckFor = IF @ = kind THEN "none" ELSE @]
    IN  CASE kind \notin s.controlSndBuf /\ s.waitingAckFor # kind -> s
          [] OTHER ->
             CASE kind = "CLOSE_READ" ->
                    TryFinalizeRemoteEOF([t EXCEPT !.closeReadAcked = TRUE])
               [] kind = "CLOSE_WRITE" ->
                    TryFinalizeRemoteEOF(MaybeInitiateClientCloseRead(
                        [t EXCEPT !.closeWriteAcked = TRUE, !.localWriterBroken = TRUE,
                                  !.localWriteClosed = TRUE]))
               [] kind = "RST" -> FinalizeClose(s)

\* Mutant: the acknowledgement that drains the buffer does not settle.
AckUnsettled(s, c) ==
    IF c \notin s.sndBuf THEN s
    ELSE LET t == [s EXCEPT !.sndBuf = @ \ {c}]
         IN  IF s.closeReadReceived THEN TryFinalizeRemoteEOF(t) ELSE t

\* ReceiveAck.
ReceiveDataAck(s, c) ==
    IF c \notin s.sndBuf THEN s
    ELSE LET t == [s EXCEPT !.sndBuf = @ \ {c}]
         IN  Settle(IF s.closeReadReceived THEN TryFinalizeRemoteEOF(t) ELSE t)

\* ReceiveData and processReceivedDataBatch.
Accepts(s)   == ~ s.closed /\ ~ Resetting(s) /\ ~ s.localWriterBroken

\* Mutant: a chunk that was taken before is taken again.
TakeTwice(s, c) ==
    IF s.closed \/ Resetting(s) THEN s
    ELSE IF s.localWriterBroken
         THEN IF s.closeWriteSent THEN s ELSE EmitCloseWrite(s)
    ELSE [s EXCEPT !.rcvd = @ + 1, !.rcvBuf = @ + 1, !.flushSignal = TRUE]

TakeData(s, c) ==
    IF s.closed \/ Resetting(s) THEN s
    ELSE IF s.localWriterBroken
         THEN IF s.closeWriteSent THEN s ELSE EmitCloseWrite(s)
    ELSE IF c = s.rcvd
         THEN [s EXCEPT !.rcvd = @ + 1, !.rcvBuf = @ + 1, !.flushSignal = TRUE]
         ELSE [s EXCEPT !.flushSignal = TRUE]

isGracefulCloseInProgress(s) ==
    \/ s.closed \/ s.deferredPacket = "CLOSE_READ" \/ s.closeReadSent
    \/ s.closeReadReceived \/ s.closeWriteSent \/ s.closeWriteReceived

-----------------------------------------------------------------------------
(* The ioLoop. *)

\* The state of e becomes s; nothing is sent.
Becomes(e, s) == end' = [end EXCEPT ![e] = s] /\ UNCHANGED <<net, faults>>

\* Top of the loop: stop, or go into a Read that nothing interrupts any more.
ReadStart(e) ==
    /\ end[e].reader = "loop"
    /\ Becomes(e, [end[e] EXCEPT !.reader =
                       IF end[e].stopLocalRead \/ end[e].closed THEN "done" ELSE "read"])

\* The Read returned a chunk, whatever happened to the stream meanwhile.
WithChunk(s) == [s EXCEPT !.read = @ + 1, !.sndBuf = @ \cup {s.read}]

ReadChunk(e) ==
    /\ end[e].reader = "read" /\ end[e].read < MaxData
    /\ Becomes(e, [WithChunk(end[e]) EXCEPT !.reader = "loop"])

\* The application closed its side, or finalizeClose closed the connection.
ReadEOF(e) ==
    /\ end[e].reader = "read"
    /\ Becomes(e, Defer([end[e] EXCEPT !.reader = "done"], "CLOSE_READ"))

\* A failing Read may still return data; it then drains before the reset.
ReadError(e) ==
    /\ "read" \in faults /\ end[e].reader = "read"
    /\ \E class \in {"closed", "other"}, more \in BOOLEAN :
         /\ more => end[e].read < MaxData
         /\ LET s == [IF more THEN WithChunk(end[e]) ELSE end[e]
                      EXCEPT !.reader = "done"]
            IN  Becomes(e, IF class = "closed" /\ isGracefulCloseInProgress(s) THEN s
                           ELSE IF more THEN ResetAfterDrain(s) ELSE Reset(s))

-----------------------------------------------------------------------------
(* The writeLoop. *)

\* Take all that is in order, or find nothing and let go of the lock.
WriterTake(e) ==
    LET s == end[e] IN
    /\ s.writer = "idle" /\ ~ s.closed /\ (s.rcvBuf > 0 \/ s.flushSignal)
    /\ Becomes(e, IF s.rcvBuf > 0
                  THEN [s EXCEPT !.writer = "write", !.writing = s.rcvBuf, !.rcvBuf = 0]
                  ELSE [s EXCEPT !.writer = "empty", !.flushSignal = FALSE])

\* Mutant: the end's own CLOSE_READ is taken for the peer's.
WriterEmptyOwnEOF(e) ==
    LET s   == end[e]
        eof == s.closeReadSent /\ ~ s.localWriteClosed /\ ~ s.closed
    IN
    /\ s.writer = "empty"
    /\ Becomes(e, TryFinalizeRemoteEOF(
                      [s EXCEPT !.writer = "idle", !.fin = @ \/ eof,
                                !.localWriteClosed = @ \/ eof]))

\* Nothing to write: after the peer's CLOSE_READ the application sees EOF.
WriterEmpty(e) ==
    LET s   == end[e]
        eof == s.closeReadReceived /\ ~ s.localWriteClosed /\ ~ s.closed
    IN
    /\ s.writer = "empty"
    /\ Becomes(e, TryFinalizeRemoteEOF(
                      [s EXCEPT !.writer = "idle", !.fin = @ \/ eof,
                                !.localWriteClosed = @ \/ eof]))

\* The write went through, which it cannot after CloseWrite or Close.
WriterDone(e) ==
    LET s == end[e] IN
    /\ s.writer = "write" /\ ~ s.fin /\ ~ s.closed
    /\ Becomes(e, TryFinalizeRemoteEOF(
                      [s EXCEPT !.writer = "idle", !.written = @ + s.writing,
                                !.writing = 0, !.flushSignal = TRUE]))

\* The write failed: markLocalWriterBroken and Close(SendCloseWrite).
WriterFail(e) ==
    LET s == end[e] IN
    /\ s.writer = "write" /\ ("write" \in faults \/ s.fin \/ s.closed)
    /\ Becomes(e, EmitCloseWrite(
                      [s EXCEPT !.writer = "done", !.writing = 0, !.rcvBuf = 0,
                                !.localWriterBroken = TRUE, !.writeFailed = TRUE]))

-----------------------------------------------------------------------------
(* Packets.  A stream whose ARQ is closed is no longer in the stream table:  *)
(* control packets for it are acknowledged and data is answered by a reset,   *)
(* both from the orphan queue.                                                *)

\* The dispatcher sends, or sends again, what the ARQ keeps for retransmission.
Transmit(e, kind) ==
    /\ kind \in end[e].controlSndBuf
    /\ net' = net \cup {Pkt(Peer(e), kind)} /\ UNCHANGED <<end, faults>>

TransmitData(e, c) ==
    /\ c \in end[e].sndBuf
    /\ net' = net \cup {DataPkt(Peer(e), "DATA", c)} /\ UNCHANGED <<end, faults>>

ReceiveData(p) ==
    LET e == p.to
        s == end[e] IN
    /\ p \in net /\ p.kind = "DATA" /\ p.chunk <= s.rcvd
    /\ end' = [end EXCEPT ![e] = TakeData(s, p.chunk)]
    /\ net' = net \cup (IF s.closed THEN {Pkt(Peer(e), "RST")}
                        ELSE IF Accepts(s) THEN {DataPkt(Peer(e), "DATA_ACK", p.chunk)}
                        ELSE {})
    /\ UNCHANGED faults

ReceiveAck(p) ==
    /\ p \in net /\ p.kind = "DATA_ACK"
    /\ Becomes(p.to, ReceiveDataAck(end[p.to], p.chunk))

\* preprocessInboundPacket acknowledges, then the handler runs.
ReceiveTerminal(p) ==
    LET s == end[p.to] IN
    /\ p \in net /\ p.kind \in Terminal
    /\ net' = net \cup {Pkt(Peer(p.to), AckOf[p.kind])}
    /\ UNCHANGED faults
    /\ end' = [end EXCEPT ![p.to] =
                 CASE s.closed -> s
                   [] OTHER -> CASE p.kind = "CLOSE_READ"  -> MarkCloseReadReceived(s)
                                 [] p.kind = "CLOSE_WRITE" -> MarkCloseWriteReceived(s)
                                 [] p.kind = "RST"         -> PeerReset(s)]

ReceiveTerminalAck(p) ==
    /\ p \in net /\ ~ end[p.to].closed
    /\ \E k \in Terminal :
         p.kind = AckOf[k] /\ Becomes(p.to, ReceiveControlAck(end[p.to], k))

-----------------------------------------------------------------------------
(* checkRetransmits: the timers.  While a terminal packet is deferred, only   *)
(* the drain deadline is looked at.                                           *)

Ticks(e) == ~ end[e].closed /\ end[e].deferredPacket = "none"

DrainTimeout(e) ==
    /\ "expiry" \in faults /\ end[e].deferredPacket # "none"
    /\ Becomes(e, Reset([end[e] EXCEPT !.deferredPacket = "none"]))

AckWaitTimeout(e) ==
    /\ "expiry" \in faults /\ Ticks(e) /\ end[e].waitingAckFor # "none"
    /\ Becomes(e, IF end[e].waitingAckFor = "RST" THEN FinalizeClose(end[e])
                                                  ELSE Reset(end[e]))

\* Two seconds after its EOF, or after its CLOSE_READ was acknowledged, the
\* client gives up the other direction too.
CloseWriteAfterEOF(e) ==
    LET s == end[e] IN
    /\ "grace" \in faults /\ Ticks(e) /\ s.client /\ ~ Resetting(s)
    /\ s.closeReadSent /\ s.closeReadAcked
    /\ ~ s.closeWriteSent /\ ~ s.closeWriteAcked /\ ~ s.closeWriteReceived
    /\ Becomes(e, EmitCloseWrite(s))

\* No progress, or a data packet was retried for too long.
InactivityTimeout(e) ==
    /\ "idle" \in faults /\ Ticks(e)
    /\ Becomes(e, Reset(end[e]))

ControlExpired(e) ==
    /\ "expiry" \in faults /\ ~ end[e].closed
    /\ \E k \in end[e].controlSndBuf :
         LET s == [end[e] EXCEPT !.controlSndBuf = @ \ {k}]
         IN  Becomes(e, IF k = "RST" THEN FinalizeClose(s) ELSE Reset(s))

-----------------------------------------------------------------------------
Local(e) ==
    \/ ReadStart(e) \/ ReadChunk(e) \/ ReadEOF(e) \/ ReadError(e)
    \/ WriterTake(e) \/ WriterEmpty(e) \/ WriterDone(e) \/ WriterFail(e)
    \/ \E k \in Terminal : Transmit(e, k)
    \/ \E c \in 0 .. MaxData - 1 : TransmitData(e, c)
    \/ DrainTimeout(e) \/ AckWaitTimeout(e) \/ CloseWriteAfterEOF(e)
    \/ InactivityTimeout(e) \/ ControlExpired(e)

Arrive(p) ==
    \/ ReceiveData(p) \/ ReceiveAck(p) \/ ReceiveTerminal(p) \/ ReceiveTerminalAck(p)

Next ==
    \/ \E e \in Ends : Local(e)
    \/ \E p \in net : Arrive(p)

Spec == Init /\ [][Next]_vars

\* What a sender keeps and retransmits gets through, and so does the answer,
\* which every arriving copy repeats.  A packet its sender forgot is not owed.
ArrivesWhileKept ==
    \A e \in Ends :
        /\ \A k \in Terminal :
             /\ WF_vars(k \in end[e].controlSndBuf /\ ReceiveTerminal(Pkt(Peer(e), k)))
             /\ WF_vars(k \in end[e].controlSndBuf /\ ReceiveTerminalAck(Pkt(e, AckOf[k])))
        /\ \A c \in 0 .. MaxData - 1 :
             /\ WF_vars(c \in end[e].sndBuf /\ ReceiveData(DataPkt(Peer(e), "DATA", c)))
             /\ WF_vars(c \in end[e].sndBuf /\ ReceiveAck(DataPkt(e, "DATA_ACK", c)))

\* The loops run, the dispatcher transmits, and each application ends its stream.
LoopsRun ==
    \A e \in Ends :
        /\ WF_vars(ReadStart(e)) /\ WF_vars(ReadEOF(e))
        /\ WF_vars(WriterTake(e)) /\ WF_vars(WriterEmpty(e)) /\ WF_vars(WriterDone(e))
        /\ WF_vars(end[e].fin /\ WriterFail(e))
        /\ \A k \in Terminal : WF_vars(Transmit(e, k))
        /\ \A c \in 0 .. MaxData - 1 : WF_vars(TransmitData(e, c))

FairSpec == Spec /\ ArrivesWhileKept /\ LoopsRun

-----------------------------------------------------------------------------
(* Properties. *)

\* emitTerminalPacketWithTTL and tryFinalizeRemoteEOF: an end that closes without
\* a reset, when neither end lost its local writer, has handed its application
\* everything the peer's ioLoop ever read.  (A client whose writer broke closes
\* its reading side while a Read may still return a chunk.)
CleanCloseDeliversAll ==
    \A e \in Ends :
        LET s    == end[e]
            peer == end[Peer(e)] IN
        s.closed /\ ~ Resetting(s) /\ ~ s.localWriterBroken /\ ~ peer.localWriterBroken
            => s.written = peer.read

\* settleTerminalDrain, stopLocalRead: CLOSE_READ is an end's last word, nothing
\* it read is unacknowledged by then and nothing is read afterwards.  An end whose
\* own writer broke may send it inside a Read: that Read's chunk, and no second
\* one, still follows.
CloseReadIsLast ==
    \A e \in Ends :
        LET s == end[e] IN
        s.closeReadSent => \/ s.sndBuf = {}
                           \/ s.localWriterBroken /\ s.sndBuf = {s.read - 1}

\* writeLoop, halfCloseLocalWriter: when an application is shown EOF, every chunk
\* its peer read has arrived and the peer reads no more; of a peer whose writer
\* broke, one Read may still be under way.  Unless the stream is being reset, all
\* that arrived has been written, but for the chunks that came between the lock
\* under which the writer found the buffer empty and the one under which it looked
\* at closeReadReceived and pendingInbound, not at rcvBuf: those are lost.
FinAfterLastChunk ==
    [][\A e \in Ends :
         LET s    == end[e]
             peer == end[Peer(e)] IN
         ~ s.fin /\ end'[e].fin =>
             /\ \/ s.rcvd = peer.read /\ peer.reader = "done"
                \/ peer.localWriterBroken /\ peer.read <= s.rcvd + 1
             /\ Resetting(s) \/ s.written + s.rcvBuf = s.rcvd]_vars

\* Two ends whose applications both finish close the stream between themselves,
\* unless a write fails: no timer of checkRetransmits is needed, and neither end
\* forgets a packet the other still waits for.
BothEndsClose ==
    <>(\/ \A e \in Ends : end[e].closed
       \/ \E e \in Ends : end[e].localWriterBroken)
=============================================================================
