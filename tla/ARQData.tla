------------------------------- MODULE ARQData -------------------------------
(***************************************************************************)
(* The data plane of one direction of a stream (internal/arq/arq.go): the  *)
(* sender's ioLoop, retransmit loop and dispatcher, an unreliable DNS path *)
(* (packets are lost, duplicated and reordered), and the receiver's        *)
(* ReceiveData, rxLoop and writeLoop.                                      *)
(*                                                                         *)
(* A chunk is named by its position in the stream, 0, 1, 2...; the code    *)
(* sees only its 16-bit sequence number Sn(i).  Packets carry the name     *)
(* because it stands for their payload; every test and every map access    *)
(* of the code is on Sn.  SeqMod = 2 * Half stands for 65536.              *)
(***************************************************************************)
EXTENDS Integers, Sequences, FiniteSets

CONSTANTS Half,      \* half of the sequence space (32768 in the code)
          Window,    \* windowSize
          Limit,     \* limit: unacknowledged chunks before ioLoop waits
          RxCap,     \* capacity of rxChan
          NackGap,   \* dataNackMaxGap
          MaxSend    \* bound: chunks the application offers

SeqMod == 2 * Half

ASSUME ParamAssumption ==
    /\ Half \in Nat \ {0} /\ Window \in Nat \ {0} /\ Limit \in Nat \ {0}
    /\ RxCap \in Nat \ {0} /\ NackGap \in Nat /\ MaxSend \in Nat
    /\ Window + Limit < Half          \* at most 6000 + 4800 < 32768
    /\ NackGap <= Window

VARIABLES
    sent,        \* number of chunks read from the local connection
    sndBuf,      \* sndBuf: sequence number -> [chunk, dispatched]
    txq,         \* data packets in the stream's TX queue
    inHand,      \* packet popped by the dispatcher, not yet noted and sent
    rtxJobs,     \* retransmit jobs collected by checkRetransmits
    rtxPushed,   \* chunk just pushed by checkRetransmits, not yet flagged
    net,         \* chunks in flight
    back,        \* DATA_ACK and DATA_NACK queued or in flight
    rxChan,      \* rxChan: chunks received, not yet processed
    rcvBuf,      \* rcvBuf: sequence number -> chunk
    delivered    \* chunks written to the remote application, in order

sndVars == <<sent, sndBuf, txq, inHand, rtxJobs, rtxPushed>>
rcvVars == <<rxChan, rcvBuf, delivered>>
vars    == <<sent, sndBuf, txq, inHand, rtxJobs, rtxPushed, net, back,
             rxChan, rcvBuf, delivered>>

None   == -1
Chunks == 0 .. MaxSend - 1
SeqNum == 0 .. SeqMod - 1
Sn(i)  == i % SeqMod

sndNxt == Sn(sent)
rcvN   == Len(delivered)          \* chunks the receiver has consumed
rcvNxt == Sn(rcvN)

TxPacket   == [kind : {"DATA", "RESEND"}, chunk : Chunks]
BackPacket == [kind : {"ACK", "NACK"}, chunk : Nat]
SndItem    == [chunk : Chunks, dispatched : BOOLEAN]

Ack(i)  == [kind |-> "ACK", chunk |-> i]
Nack(i) == [kind |-> "NACK", chunk |-> i]

Tracked(sn) == sn \in DOMAIN sndBuf
Buffered(sn) == sn \in DOMAIN rcvBuf

\* map[sn] = v and delete(map, sn)
With(f, sn, v) == [s \in DOMAIN f \cup {sn} |-> IF s = sn THEN v ELSE f[s]]
Without(f, S)  == [s \in DOMAIN f \ S |-> f[s]]

TypeOK ==
    /\ sent \in 0 .. MaxSend
    /\ DOMAIN sndBuf \subseteq SeqNum /\ sndBuf \in [DOMAIN sndBuf -> SndItem]
    /\ txq \subseteq TxPacket
    /\ inHand \in Chunks \cup {None}
    /\ rtxJobs \subseteq TxPacket
    /\ rtxPushed \in Chunks \cup {None}
    /\ net \subseteq Chunks
    /\ back \subseteq BackPacket
    /\ rxChan \in Seq(Chunks) /\ Len(rxChan) <= RxCap
    /\ DOMAIN rcvBuf \subseteq SeqNum /\ rcvBuf \in [DOMAIN rcvBuf -> Chunks]
    /\ delivered \in Seq(Chunks)

Init ==
    /\ sent = 0 /\ sndBuf = <<>> /\ txq = {} /\ inHand = None
    /\ rtxJobs = {} /\ rtxPushed = None /\ net = {} /\ back = {}
    /\ rxChan = <<>> /\ rcvBuf = <<>> /\ delivered = <<>>

-----------------------------------------------------------------------------
(* The TX queue: PushTXPacket's rule that one sequence number is queued as *)
(* DATA or as RESEND, never as both, and RemoveQueuedData.                 *)

Queued(kinds, sn) == \E p \in txq : p.kind \in kinds /\ Sn(p.chunk) = sn

Accepts(kind, i) ==
    IF kind = "DATA" THEN ~ Queued({"DATA", "RESEND"}, Sn(i))
                     ELSE ~ Queued({"RESEND"}, Sn(i))

\* Mutant: RESEND is added beside a DATA that is still queued.
PushedBeside(kind, i) ==
    IF ~ Accepts(kind, i) THEN txq ELSE txq \cup {[kind |-> kind, chunk |-> i]}

\* A RESEND that is accepted replaces the DATA of its sequence number.
Pushed(kind, i) ==
    IF ~ Accepts(kind, i) THEN txq
    ELSE {p \in txq : Sn(p.chunk) # Sn(i)} \cup {[kind |-> kind, chunk |-> i]}

RemoveQueuedData(sn) == {p \in txq : Sn(p.chunk) # sn}

-----------------------------------------------------------------------------
(* The sender. *)

\* Every copy of a chunk that some thread, queue or packet still holds.
Copies ==
    {sndBuf[s].chunk : s \in DOMAIN sndBuf} \cup {p.chunk : p \in txq \cup rtxJobs}
      \cup {p.chunk : p \in {q \in back : q.kind = "ACK"}}
      \cup ({inHand, rtxPushed} \ {None}) \cup net
      \cup {rxChan[k] : k \in 1 .. Len(rxChan)}

\* Environment assumption: no copy of a chunk outlives half of the sequence
\* space (the code bounds a chunk's life by DataPacketTTL and maxDataRetries,
\* and the path by the DNS timeouts, all in seconds).
LifetimeBound == \A c \in Copies : sent - c < Half

\* ioLoop: a Read returned a chunk; waitWindowNotFull has let it through.
ReadLocal ==
    /\ sent < MaxSend
    /\ Cardinality(DOMAIN sndBuf) < Limit
    /\ LifetimeBound
    /\ sndBuf' = With(sndBuf, sndNxt,
                      [chunk |-> sent, dispatched |-> ~ Accepts("DATA", sent)])
    /\ txq' = Pushed("DATA", sent)
    /\ sent' = sent + 1
    /\ UNCHANGED <<inHand, rtxJobs, rtxPushed, net, back, rcvVars>>

\* The dispatcher takes a packet out of the TX queue...
Pop ==
    /\ inHand = None
    /\ \E p \in txq : txq' = txq \ {p} /\ inHand' = p.chunk
    /\ UNCHANGED <<sent, sndBuf, rtxJobs, rtxPushed, net, back, rcvVars>>

\* ... and then, without the queue's lock, NoteTXPacketDequeued and the send,
\* which a chunk that was acknowledged in the meantime is spared.
NoteAndSend ==
    /\ inHand # None
    /\ IF Tracked(Sn(inHand))
       THEN /\ sndBuf' = [sndBuf EXCEPT ![Sn(inHand)].dispatched = TRUE]
            /\ net' = net \cup {inHand}
       ELSE UNCHANGED <<sndBuf, net>>
    /\ inHand' = None
    /\ UNCHANGED <<sent, txq, rtxJobs, rtxPushed, back, rcvVars>>

\* retransmitPriorityKinds: the oldest tenth of the window goes as RESEND.
FrontBudget(n) ==
    LET tenth == Window \div 10
        b == IF tenth < 1 THEN 1 ELSE IF tenth > 64 THEN 64 ELSE tenth
    IN  IF b > n THEN n ELSE b

RetransmitKind(c, T) ==
    IF Cardinality({d \in T : d < c}) < FrontBudget(Cardinality(T))
    THEN "RESEND" ELSE "DATA"

\* Mutant: a chunk is due for retransmission only before it was ever sent.
RtxCollectUndispatched(T) ==
    /\ rtxJobs = {} /\ rtxPushed = None /\ T # {}
    /\ \A c \in T : /\ Tracked(Sn(c)) /\ sndBuf[Sn(c)].chunk = c
                    /\ ~ sndBuf[Sn(c)].dispatched
    /\ rtxJobs' = {[kind |-> RetransmitKind(c, T), chunk |-> c] : c \in T}
    /\ UNCHANGED <<sent, sndBuf, txq, inHand, rtxPushed, net, back, rcvVars>>

\* checkRetransmits, under the read lock: the chunks whose RTO has elapsed
\* since they were dispatched.  T is whatever set the clock makes due.
RtxCollect(T) ==
    /\ rtxJobs = {} /\ rtxPushed = None /\ T # {}
    /\ \A c \in T : /\ Tracked(Sn(c)) /\ sndBuf[Sn(c)].chunk = c
                    /\ sndBuf[Sn(c)].dispatched
    /\ rtxJobs' = {[kind |-> RetransmitKind(c, T), chunk |-> c] : c \in T}
    /\ UNCHANGED <<sent, sndBuf, txq, inHand, rtxPushed, net, back, rcvVars>>

\* checkRetransmits, no lock held: enqueue one job, skip it when rejected...
RtxPush ==
    /\ rtxPushed = None
    /\ \E j \in rtxJobs :
        /\ rtxJobs' = rtxJobs \ {j}
        /\ txq' = Pushed(j.kind, j.chunk)
        /\ rtxPushed' = IF Accepts(j.kind, j.chunk) THEN j.chunk ELSE None
    /\ UNCHANGED <<sent, sndBuf, inHand, net, back, rcvVars>>

\* ... and then take the lock to mark the chunk as waiting in the queue.
RtxFlag ==
    /\ rtxPushed # None
    /\ sndBuf' = IF Tracked(Sn(rtxPushed))
                 THEN [sndBuf EXCEPT ![Sn(rtxPushed)].dispatched = FALSE]
                 ELSE sndBuf
    /\ rtxPushed' = None
    /\ UNCHANGED <<sent, txq, inHand, rtxJobs, net, back, rcvVars>>

\* ReceiveAck: forget the chunk and what the queue still holds of it.
ReceiveAck(p) ==
    /\ p \in back /\ p.kind = "ACK"
    /\ Tracked(Sn(p.chunk))
    /\ sndBuf' = Without(sndBuf, {Sn(p.chunk)})
    /\ txq' = RemoveQueuedData(Sn(p.chunk))
    /\ UNCHANGED <<sent, inHand, rtxJobs, rtxPushed, net, back, rcvVars>>

\* HandleDataNack, when the repeat interval lets it through.
HandleDataNack(p) ==
    /\ p \in back /\ p.kind = "NACK"
    /\ Tracked(Sn(p.chunk))
    /\ txq' = Pushed("RESEND", sndBuf[Sn(p.chunk)].chunk)
    /\ UNCHANGED <<sent, sndBuf, inHand, rtxJobs, rtxPushed, net, back, rcvVars>>

-----------------------------------------------------------------------------
(* The path: a packet in the set can be received any number of times. *)

LoseData(c) == c \in net /\ net' = net \ {c} /\ UNCHANGED <<back, sndVars, rcvVars>>
LoseBack(p) == p \in back /\ back' = back \ {p} /\ UNCHANGED <<net, sndVars, rcvVars>>

-----------------------------------------------------------------------------
(* The receiver. *)

\* Mutant: the channel grows without bound.
ReceiveDataUnbounded(c) ==
    /\ c \in net
    /\ rxChan' = Append(rxChan, c)
    /\ UNCHANGED <<sndVars, net, back, rcvBuf, delivered>>

\* ReceiveData: a non-blocking send on rxChan, the packet is dropped when full.
ReceiveData(c) ==
    /\ c \in net
    /\ Len(rxChan) < RxCap
    /\ rxChan' = Append(rxChan, c)
    /\ UNCHANGED <<sndVars, net, back, rcvBuf, delivered>>

\* Mutant: the distance is taken without wrapping it to 16 bits.
DiffPlain(sn) == sn - rcvNxt

\* diff := sn - a.rcvNxt, in uint16.
Diff(sn) == (sn - rcvNxt) % SeqMod

\* Mutant: old is decided by comparing the numbers, not their distance.
VerdictByOrder(sn) ==
    IF sn < rcvNxt THEN "old"
    ELSE IF Diff(sn) > Window THEN "beyond"
    ELSE IF Buffered(sn) THEN "dup"
    ELSE IF Cardinality(DOMAIN rcvBuf) >= Window /\ sn # rcvNxt THEN "full"
    ELSE "new"

\* What processReceivedDataBatch does with a sequence number.
Verdict(sn) ==
    IF Diff(sn) >= Half THEN "old"
    ELSE IF Diff(sn) > Window THEN "beyond"
    ELSE IF Buffered(sn) THEN "dup"
    ELSE IF Cardinality(DOMAIN rcvBuf) >= Window /\ sn # rcvNxt THEN "full"
    ELSE "new"

\* maybeSendDataNacks: the gaps below sn; when the span exceeds the configured
\* gap, the first few of them and the one nearest the frontier.
SampleCount == IF (NackGap + 19) \div 20 < 1 THEN 1 ELSE (NackGap + 19) \div 20

NackCandidates(sn) ==
    LET gap(k)   == ~ Buffered(Sn(rcvN + k))
        holes    == {k \in 0 .. Diff(sn) - 1 : gap(k)}
        first    == {k \in holes : Cardinality({h \in holes : h < k}) < SampleCount}
        frontier == {k \in 0 .. NackGap - 1 :
                        gap(k) /\ \A h \in k + 1 .. NackGap - 1 : ~ gap(h)}
    IN  IF NackGap = 0 \/ Diff(sn) = 0 \/ Diff(sn) >= Half THEN {}
        ELSE IF Diff(sn) <= NackGap THEN holes ELSE first \cup frontier

\* rxLoop and processReceivedDataBatch on one packet.  A batch is its packets
\* in a row with rcvNxt fixed; taking them singly only adds interleavings.
\* Which candidates are NACKed now is up to the NACK timers.
RxProcess ==
    /\ rxChan # <<>>
    /\ rxChan' = Tail(rxChan)
    /\ LET c == Head(rxChan)
           verdict == Verdict(Sn(c))
       IN  /\ rcvBuf' = IF verdict = "new" THEN With(rcvBuf, Sn(c), c) ELSE rcvBuf
           /\ IF verdict \in {"old", "dup", "new"}
              THEN \E N \in SUBSET NackCandidates(Sn(c)) :
                      back' = back \cup {Ack(c)} \cup {Nack(rcvN + k) : k \in N}
              ELSE back' = back
    /\ UNCHANGED <<sndVars, net, delivered>>

\* Mutant: the writer takes what is buffered without waiting for rcvNxt.
FlushAny ==
    /\ \E sn \in DOMAIN rcvBuf :
        /\ delivered' = Append(delivered, rcvBuf[sn])
        /\ rcvBuf' = Without(rcvBuf, {sn})
    /\ UNCHANGED <<sndVars, net, back, rxChan>>

\* writeLoop: take every contiguous chunk from rcvNxt on and write them out.
Flush ==
    /\ Buffered(rcvNxt)
    /\ \E n \in 1 .. SeqMod :
        /\ \A k \in 0 .. n - 1 : Buffered(Sn(rcvN + k))
        /\ ~ Buffered(Sn(rcvN + n))
        /\ delivered' = delivered \o [k \in 1 .. n |-> rcvBuf[Sn(rcvN + k - 1)]]
        /\ rcvBuf' = Without(rcvBuf, {Sn(rcvN + k) : k \in 0 .. n - 1})
    /\ UNCHANGED <<sndVars, net, back, rxChan>>

-----------------------------------------------------------------------------
Next ==
    \/ ReadLocal \/ Pop \/ NoteAndSend
    \/ \E T \in SUBSET Chunks : RtxCollect(T)
    \/ RtxPush \/ RtxFlag
    \/ \E p \in back : ReceiveAck(p)
    \/ \E p \in back : HandleDataNack(p)
    \/ \E c \in net : LoseData(c)
    \/ \E p \in back : LoseBack(p)
    \/ \E c \in net : ReceiveData(c)
    \/ RxProcess \/ Flush

Spec == Init /\ [][Next]_vars

-----------------------------------------------------------------------------
(* Properties. *)

\* The chunks written to the application are 0, 1, 2... with no gap, repeat or
\* swap, although sequence numbers wrap and copies arrive in any order.
InOrderExactlyOnce ==
    /\ rcvN <= sent
    /\ \A k \in 1 .. rcvN : delivered[k] = k - 1

\* A chunk is forgotten by the sender only once the receiver holds it: acking
\* by sequence number never releases a chunk that is still missing.
ReleasedOnlyIfHeld ==
    \A i \in 0 .. sent - 1 :
        \/ Tracked(Sn(i)) /\ sndBuf[Sn(i)].chunk = i
        \/ i < rcvN
        \/ Buffered(Sn(i)) /\ rcvBuf[Sn(i)] = i

\* Selective acks let the sender run ahead of the receiver, but never by more
\* than the two windows together, which the half-range test of Diff relies on.
SpreadBounded == sent <= rcvN + Window + Limit + 1

\* One sequence number waits in the TX queue at most once, as DATA or RESEND.
QueuedOnce ==
    \A p, q \in txq : Sn(p.chunk) = Sn(q.chunk) => p = q

\* A chunk nobody will send again: unacknowledged, in no queue or hand, and
\* marked as still waiting in the queue, so checkRetransmits skips it.
Stranded(i) ==
    /\ Tracked(Sn(i)) /\ sndBuf[Sn(i)].chunk = i /\ ~ sndBuf[Sn(i)].dispatched
    /\ ~ Queued({"DATA", "RESEND"}, Sn(i))
    /\ i # inHand /\ i # rtxPushed

-----------------------------------------------------------------------------
(* Liveness: each thread keeps running, a path that is used again and again   *)
(* gets a packet through, and no packet stays on the path for ever.           *)

Fairness ==
    /\ WF_vars(ReadLocal) /\ WF_vars(Pop) /\ WF_vars(NoteAndSend)
    /\ WF_vars(RtxPush) /\ WF_vars(RtxFlag)
    /\ WF_vars(RxProcess) /\ WF_vars(Flush)
    /\ \A i \in Chunks :
        /\ SF_vars(\E T \in SUBSET Chunks : i \in T /\ RtxCollect(T))
        /\ SF_vars(ReceiveData(i))
        /\ WF_vars(LoseData(i))
        /\ SF_vars(ReceiveAck(Ack(i)))

FairSpec == Spec /\ Fairness

AllDelivered == rcvN = MaxSend

\* On a path that keeps getting packets through, every chunk the application
\* offers reaches the other end, whatever is lost, duplicated or reordered.
EventuallyDelivered == <>AllDelivered

\* The same, except that the sender may end up with a stranded chunk: losing
\* the race of RtxFlag with the dispatcher is the only way a stream stalls.
DeliveredOrStranded ==
    <>(AllDelivered \/ \E i \in Chunks : Stranded(i))
-----------------------------------------------------------------------------
Stream == INSTANCE ReliableStream WITH accepted <- sent, output <- delivered

\* The two ARQs and the path between them behave as one reliable, ordered
\* stream of chunks ("ARQ reorder / deliver to app", README.MD section 6.2).
ImplementsStream == Stream!Spec
=============================================================================
