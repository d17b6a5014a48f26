---------------------------- MODULE CloseProofs ----------------------------
(***************************************************************************)
(* Proofs about ARQClose: an end's CLOSE_READ is its last word, the EOF an *)
(* application sees follows the arrival of the last chunk, and an end that *)
(* closes cleanly has given its application everything the other end read; *)
(* for any amount of data and any faults. Last, the types of both ends and *)
(* of their packets.                                                       *)
(***************************************************************************)
EXTENDS ARQClose, TLAPS

-----------------------------------------------------------------------------
(* The invariant of one end.                                               *)

EndShape ==
    [client : BOOLEAN, read : Nat, sndBuf : SUBSET Nat, rcvd : Nat, rcvBuf : Nat,
     writing : Nat, written : Nat,
     reader : {"loop", "read", "done"}, writer : {"idle", "write", "empty", "done"},
     flushSignal : BOOLEAN, closeReadSent : BOOLEAN, closeReadReceived : BOOLEAN,
     closeReadAcked : BOOLEAN, closeWriteSent : BOOLEAN, closeWriteReceived : BOOLEAN,
     closeWriteAcked : BOOLEAN, rstSent : BOOLEAN, rstReceived : BOOLEAN,
     localWriterBroken : BOOLEAN, localWriteClosed : BOOLEAN, fin : BOOLEAN,
     writeFailed : BOOLEAN, stopLocalRead : BOOLEAN, closed : BOOLEAN,
     waitingAckFor : Terminal \cup {"none"}, deferredPacket : Terminal \cup {"none"},
     controlSndBuf : SUBSET Terminal]

(* What is said of the reading side: CLOSE_READ is sent, or put off, when  *)
(* there is nothing more to read, or nobody to write to; then a Read that  *)
(* is under way is the last.                                               *)
ReaderSound(s) ==
    /\ \A c \in s.sndBuf : c < s.read
    /\ s.closeReadSent =>
          /\ s.stopLocalRead
          /\ s.sndBuf = {} \/ (s.reader # "read" /\ s.sndBuf = {s.read - 1})
          /\ s.localWriterBroken \/ (s.sndBuf = {} /\ s.reader = "done")
    /\ s.deferredPacket \notin {"none", "RST"} => s.localWriterBroken \/ s.reader = "done"

(* What was received is written, being written or buffered, or given up.   *)
WriterSound(s) ==
    /\ s.writer # "write" => s.writing = 0
    /\ s.written + s.writing + s.rcvBuf <= s.rcvd
    /\ ~ s.localWriterBroken /\ ~ Resetting(s) => s.written + s.writing + s.rcvBuf = s.rcvd
    /\ s.localWriteClosed => s.fin \/ s.localWriterBroken
    /\ s.localWriterBroken =>
          s.localWriteClosed \/ s.closed \/ Resetting(s) \/ s.writer = "done"
    /\ s.closeWriteSent => s.localWriteClosed
    /\ s.fin => s.closeReadReceived

(* What is kept for retransmission was sent first.                         *)
ControlSound(s) ==
    /\ "RST" \in s.controlSndBuf \/ s.waitingAckFor = "RST" => s.rstSent
    /\ "CLOSE_READ" \in s.controlSndBuf => s.closeReadSent
    /\ "CLOSE_WRITE" \in s.controlSndBuf => s.closeWriteSent

ClosedSound(s) ==
    s.closed /\ ~ Resetting(s) /\ ~ s.localWriterBroken
        => s.closeReadReceived /\ s.written = s.rcvd

Sound(s) == ReaderSound(s) /\ WriterSound(s) /\ ControlSound(s) /\ ClosedSound(s)

-----------------------------------------------------------------------------
(* What a method of the ARQ does to its end: it moves no data, gives up    *)
(* what is unacknowledged only when it ends, and sends CLOSE_READ only     *)
(* when nothing is.                                                        *)

Ended(s) == s.closed \/ Resetting(s)

Evolves(s, t) ==
    /\ t \in EndShape /\ Sound(t)
    /\ t.read = s.read /\ t.rcvd = s.rcvd /\ t.reader = s.reader /\ t.fin = s.fin
    /\ t.closeReadReceived = s.closeReadReceived
    /\ s.closeReadSent => t.closeReadSent
    /\ s.closeWriteSent => t.closeWriteSent
    /\ s.localWriterBroken => t.localWriterBroken
    /\ s.localWriteClosed => t.localWriteClosed
    /\ Ended(s) => Ended(t)
    /\ t.sndBuf = s.sndBuf \/ Ended(t)
    /\ t.closeReadSent => s.closeReadSent \/ (s.sndBuf = {} /\ ~ Ended(s))

LEMMA EvolvesTwice ==
    ASSUME NEW s, NEW t, NEW u, Evolves(s, t), Evolves(t, u)
    PROVE  Evolves(s, u)
  BY DEF Evolves

LEMMA StaysSame ==
    ASSUME NEW s \in EndShape, Sound(s)
    PROVE  Evolves(s, s)
  BY DEF Evolves

-----------------------------------------------------------------------------
(* The methods.  Each lemma speaks of the state t that a method makes of s. *)

LEMMA ClosingEvolves ==
    ASSUME NEW s \in EndShape, Sound(s), NEW t,
           \/ Resetting(s) \/ s.localWriterBroken
           \/ s.closeReadReceived /\ s.written = s.rcvd,
           t = [s EXCEPT !.closed = TRUE, !.deferredPacket = "none",
                         !.waitingAckFor = "none", !.sndBuf = {}, !.rcvBuf = 0,
                         !.controlSndBuf = {}]
    PROVE  Evolves(s, t)
  <1>1. t \in EndShape /\ t.closed
    BY ZenonT(60) DEF EndShape, Terminal
  <1>2. ReaderSound(t)
    BY DEF EndShape, Sound, ReaderSound
  <1>3. WriterSound(t)
    <2>1. /\ t.written = s.written /\ t.writing = s.writing /\ t.rcvBuf = 0
          /\ t.rcvd = s.rcvd /\ t.writer = s.writer
          /\ t.localWriterBroken = s.localWriterBroken /\ Resetting(t) = Resetting(s)
          /\ t.localWriteClosed = s.localWriteClosed /\ t.fin = s.fin
          /\ t.closeWriteSent = s.closeWriteSent
      BY DEF EndShape, Resetting
    <2>2. /\ s.written \in Nat /\ s.writing \in Nat /\ s.rcvBuf \in Nat /\ s.rcvd \in Nat
      BY DEF EndShape
    <2> QED BY <2>1, <2>2 DEF Sound, WriterSound
  <1>4. ControlSound(t)
    BY DEF EndShape, Sound, ControlSound
  <1>5. ClosedSound(t)
    BY DEF EndShape, Sound, ClosedSound, Resetting
  <1>6. /\ t.read = s.read /\ t.rcvd = s.rcvd /\ t.reader = s.reader /\ t.fin = s.fin
        /\ t.closeReadReceived = s.closeReadReceived /\ t.closeReadSent = s.closeReadSent
        /\ t.closeWriteSent = s.closeWriteSent /\ t.localWriterBroken = s.localWriterBroken
        /\ t.localWriteClosed = s.localWriteClosed
    BY DEF EndShape
  <1> QED BY <1>1, <1>2, <1>3, <1>4, <1>5, <1>6 DEF Sound, Evolves, Ended

LEMMA FinalizeCloseEvolves ==
    ASSUME NEW s \in EndShape, Sound(s),
           \/ s.closed \/ Resetting(s) \/ s.localWriterBroken
           \/ s.closeReadReceived /\ s.written = s.rcvd
    PROVE  Evolves(s, FinalizeClose(s))
  BY ClosingEvolves, StaysSame DEF FinalizeClose

LEMMA TryFinalizeEvolves ==
    ASSUME NEW s \in EndShape, Sound(s)
    PROVE  Evolves(s, TryFinalizeRemoteEOF(s))
  <1>1. ~ s.localWriterBroken /\ ~ Resetting(s) /\ s.rcvBuf = 0 /\ s.writing = 0
            => s.written = s.rcvd
    BY DEF EndShape, Sound, WriterSound
  <1>2. Evolves(s, TryFinalizeClientLocalDisconnect(s))
    BY FinalizeCloseEvolves, StaysSame DEF TryFinalizeClientLocalDisconnect
  <1> QED BY <1>1, <1>2, FinalizeCloseEvolves DEF TryFinalizeRemoteEOF, ReceiveDrained

LEMMA TerminatingEvolves ==
    ASSUME NEW s \in EndShape, Sound(s)
    PROVE  Evolves(s, Terminating(s)) /\ Terminating(s).deferredPacket = "none"
  <1>1. \A t : t = [s EXCEPT !.stopLocalRead = TRUE, !.deferredPacket = "none"]
                 => Evolves(s, t) /\ t.deferredPacket = "none"
    <2> SUFFICES ASSUME NEW t, t = [s EXCEPT !.stopLocalRead = TRUE, !.deferredPacket = "none"]
                 PROVE  Evolves(s, t) /\ t.deferredPacket = "none"
      OBVIOUS
    <2>1. t \in EndShape /\ t.deferredPacket = "none"
      BY ZenonT(60) DEF EndShape, Terminal
    <2>2. ReaderSound(t)
      BY DEF EndShape, Sound, ReaderSound
    <2>3. WriterSound(t)
      BY DEF EndShape, Sound, WriterSound, Resetting
    <2>4. ControlSound(t)
      BY DEF EndShape, Sound, ControlSound
    <2>5. ClosedSound(t)
      BY DEF EndShape, Sound, ClosedSound, Resetting
    <2> QED BY <2>1, <2>2, <2>3, <2>4, <2>5 DEF Sound, Evolves, Ended, Resetting, EndShape
  <1> QED BY <1>1 DEF Terminating

(* The end has nothing more to send.                                       *)
Finished(s) == s.sndBuf = {} /\ (s.localWriterBroken \/ s.reader = "done")

LEMMA AnnouncingEvolves ==
    ASSUME NEW s \in EndShape, Sound(s), ~ Ended(s), Finished(s), s.stopLocalRead, NEW t,
           t = [s EXCEPT !.closeReadSent = TRUE, !.waitingAckFor = "CLOSE_READ"]
    PROVE  Evolves(s, t) /\ t.closeReadSent
  <1>1. t \in EndShape /\ t.closeReadSent
    BY ZenonT(60) DEF EndShape, Terminal
  <1>2. ReaderSound(t)
    BY DEF EndShape, Sound, ReaderSound, Finished
  <1>3. WriterSound(t)
    BY DEF EndShape, Sound, WriterSound, Resetting
  <1>4. ControlSound(t)
    BY DEF EndShape, Sound, ControlSound
  <1>5. ClosedSound(t)
    BY DEF EndShape, Sound, ClosedSound, Resetting
  <1> QED BY <1>1, <1>2, <1>3, <1>4, <1>5
          DEF Sound, Evolves, Ended, Resetting, EndShape, Finished

LEMMA KeepingEvolves ==
    ASSUME NEW s \in EndShape, Sound(s), s.closeReadSent, NEW t,
           t = [s EXCEPT !.controlSndBuf = @ \cup {"CLOSE_READ"}]
    PROVE  Evolves(s, t)
  <1>1. t \in EndShape
    BY DEF EndShape, Terminal
  <1>2. ReaderSound(t)
    BY DEF EndShape, Sound, ReaderSound
  <1>3. WriterSound(t)
    BY DEF EndShape, Sound, WriterSound, Resetting
  <1>4. ControlSound(t)
    BY DEF EndShape, Sound, ControlSound
  <1>5. ClosedSound(t)
    BY DEF EndShape, Sound, ClosedSound, Resetting
  <1> QED BY <1>1, <1>2, <1>3, <1>4, <1>5 DEF Sound, Evolves, Ended, Resetting, EndShape

LEMMA EmitCloseReadEvolves ==
    ASSUME NEW s \in EndShape, Sound(s), Finished(s)
    PROVE  Evolves(s, EmitCloseRead(s))
  <1>1. CASE s.closed \/ Resetting(s) \/ s.closeReadSent
    BY <1>1, StaysSame, TerminatingEvolves DEF EmitCloseRead
  <1>2. CASE ~ (s.closed \/ Resetting(s) \/ s.closeReadSent)
    <2> DEFINE u == Terminating(s)
               v == [u EXCEPT !.closeReadSent = TRUE, !.waitingAckFor = "CLOSE_READ"]
               w == TryFinalizeRemoteEOF(v)
               x == [w EXCEPT !.controlSndBuf = @ \cup {"CLOSE_READ"}]
    <2>1. Evolves(s, u)
      BY TerminatingEvolves
    <2>2. ~ Ended(u) /\ Finished(u) /\ u.stopLocalRead
      BY <1>2 DEF Terminating, Ended, Resetting, Finished, EndShape
    <2>3. Evolves(u, v) /\ v.closeReadSent
      BY <2>1, <2>2, AnnouncingEvolves DEF Evolves
    <2>4. Evolves(v, w)
      BY <2>3, TryFinalizeEvolves DEF Evolves
    <2>5. Evolves(w, x)
      BY <2>3, <2>4, KeepingEvolves DEF Evolves
    <2>6. EmitCloseRead(s) = x
      BY <1>2 DEF EmitCloseRead
    <2> HIDE DEF u, v, w, x
    <2> QED BY <2>1, <2>3, <2>4, <2>5, <2>6, EvolvesTwice
  <1> QED BY <1>1, <1>2

LEMMA ResettingEvolves ==
    ASSUME NEW s \in EndShape, Sound(s), NEW t,
           t = [s EXCEPT !.rstSent = TRUE, !.waitingAckFor = "RST", !.sndBuf = {},
                         !.rcvBuf = 0, !.controlSndBuf = {"RST"}]
    PROVE  Evolves(s, t)
  <1>1. t \in EndShape /\ Resetting(t) /\ t.rstSent
    BY ZenonT(60) DEF EndShape, Terminal, Resetting
  <1>2. ReaderSound(t)
    BY DEF EndShape, Sound, ReaderSound
  <1>3. WriterSound(t)
    BY <1>1 DEF EndShape, Sound, WriterSound
  <1>4. ControlSound(t)
    BY <1>1 DEF EndShape, Sound, ControlSound
  <1>5. ClosedSound(t)
    BY <1>1 DEF Sound, ClosedSound
  <1> QED BY <1>1, <1>2, <1>3, <1>4, <1>5 DEF Sound, Evolves, Ended, EndShape

LEMMA EmitRSTEvolves ==
    ASSUME NEW s \in EndShape, Sound(s)
    PROVE  Evolves(s, EmitRST(s))
  <1> DEFINE u == Terminating(s)
             t == [u EXCEPT !.rstSent = TRUE, !.waitingAckFor = "RST", !.sndBuf = {},
                            !.rcvBuf = 0, !.controlSndBuf = {"RST"}]
  <1>1. Evolves(s, u)
    BY TerminatingEvolves
  <1>2. u \in EndShape /\ Sound(u)
    BY <1>1 DEF Evolves
  <1>3. EmitRST(s) \in {s, u, t}
    BY DEF EmitRST
  <1> HIDE DEF u
  <1>4. Evolves(u, t)
    BY <1>2, ResettingEvolves
  <1> HIDE DEF t
  <1> QED BY <1>1, <1>3, <1>4, EvolvesTwice, StaysSame

LEMMA ResetEvolves ==
    ASSUME NEW s \in EndShape, Sound(s)
    PROVE  Evolves(s, Reset(s))
  BY EmitRSTEvolves, StaysSame DEF Reset

(* The end stops writing: CLOSE_WRITE.                                     *)
LEMMA RefusingEvolves ==
    ASSUME NEW s \in EndShape, Sound(s), NEW t,
           t = [s EXCEPT !.closeWriteSent = TRUE, !.waitingAckFor = "CLOSE_WRITE",
                         !.localWriterBroken = TRUE, !.localWriteClosed = TRUE, !.rcvBuf = 0,
                         !.controlSndBuf = @ \cup {"CLOSE_WRITE"}]
    PROVE  Evolves(s, t)
  <1>1. t \in EndShape /\ t.localWriterBroken /\ t.localWriteClosed /\ t.closeWriteSent
    BY ZenonT(60) DEF EndShape, Terminal
  <1>2. ReaderSound(t)
    <2>1. t.sndBuf = s.sndBuf /\ t.read = s.read
      BY DEF EndShape
    <2> QED BY <1>1, <2>1 DEF Sound, ReaderSound
  <1>3. WriterSound(t)
    BY <1>1 DEF EndShape, Sound, WriterSound
  <1>4. ControlSound(t)
    BY DEF EndShape, Sound, ControlSound
  <1>5. ClosedSound(t)
    BY <1>1 DEF ClosedSound
  <1> QED BY <1>1, <1>2, <1>3, <1>4, <1>5 DEF Sound, Evolves, Ended, Resetting, EndShape

LEMMA EmitCloseWriteEvolves ==
    ASSUME NEW s \in EndShape, Sound(s)
    PROVE  Evolves(s, EmitCloseWrite(s))
  <1> DEFINE u == Terminating(s)
             t == [u EXCEPT !.closeWriteSent = TRUE, !.waitingAckFor = "CLOSE_WRITE",
                            !.localWriterBroken = TRUE, !.localWriteClosed = TRUE,
                            !.rcvBuf = 0, !.controlSndBuf = @ \cup {"CLOSE_WRITE"}]
  <1>1. Evolves(s, u)
    BY TerminatingEvolves
  <1>2. u \in EndShape /\ Sound(u)
    BY <1>1 DEF Evolves
  <1>3. EmitCloseWrite(s) \in {s, u, t}
    BY DEF EmitCloseWrite
  <1> HIDE DEF u
  <1>4. Evolves(u, t)
    BY <1>2, RefusingEvolves
  <1> HIDE DEF t
  <1> QED BY <1>1, <1>3, <1>4, EvolvesTwice, StaysSame

-----------------------------------------------------------------------------
(* The drain.                                                              *)

(* A terminal packet is put off, or no longer.                             *)
LEMMA PuttingOffEvolves ==
    ASSUME NEW s \in EndShape, Sound(s), NEW kind \in Terminal,
           kind # "RST" => s.localWriterBroken \/ s.reader = "done",
           NEW t, t = [s EXCEPT !.stopLocalRead = TRUE, !.deferredPacket = kind]
    PROVE  Evolves(s, t)
  <1>1. t \in EndShape
    BY ZenonT(60) DEF EndShape
  <1>2. ReaderSound(t)
    BY DEF EndShape, Sound, ReaderSound
  <1>3. WriterSound(t)
    BY DEF EndShape, Sound, WriterSound, Resetting
  <1>4. ControlSound(t)
    BY DEF EndShape, Sound, ControlSound
  <1>5. ClosedSound(t)
    BY DEF EndShape, Sound, ClosedSound, Resetting
  <1> QED BY <1>1, <1>2, <1>3, <1>4, <1>5 DEF Sound, Evolves, Ended, Resetting, EndShape

LEMMA NoLongerEvolves ==
    ASSUME NEW s \in EndShape, Sound(s), NEW t, t = [s EXCEPT !.deferredPacket = "none"]
    PROVE  Evolves(s, t) /\ t.sndBuf = s.sndBuf
  <1>1. t \in EndShape
    BY DEF EndShape, Terminal
  <1>2. ReaderSound(t)
    BY DEF EndShape, Sound, ReaderSound
  <1>3. WriterSound(t)
    BY DEF EndShape, Sound, WriterSound, Resetting
  <1>4. ControlSound(t)
    BY DEF EndShape, Sound, ControlSound
  <1>5. ClosedSound(t)
    BY DEF EndShape, Sound, ClosedSound, Resetting
  <1> QED BY <1>1, <1>2, <1>3, <1>4, <1>5 DEF Sound, Evolves, Ended, Resetting, EndShape

LEMMA SettleEvolves ==
    ASSUME NEW s \in EndShape, Sound(s)
    PROVE  Evolves(s, Settle(s))
  <1>1. CASE s.closed \/ s.deferredPacket = "none" \/ s.sndBuf # {}
    BY <1>1, StaysSame DEF Settle
  <1>2. CASE ~ (s.closed \/ s.deferredPacket = "none" \/ s.sndBuf # {})
    <2> DEFINE t == [s EXCEPT !.deferredPacket = "none"]
    <2>1. Evolves(s, t) /\ t.sndBuf = {}
      BY <1>2, NoLongerEvolves
    <2>2. s.deferredPacket # "RST" => Finished(t)
      BY <1>2, <2>1 DEF Sound, ReaderSound, Evolves, Finished
    <2>3. Settle(s) = IF s.deferredPacket = "RST" THEN Reset(t) ELSE EmitCloseRead(t)
      BY <1>2 DEF Settle
    <2> HIDE DEF t
    <2>4. t \in EndShape /\ Sound(t)
      BY <2>1 DEF Evolves
    <2> QED BY <2>1, <2>2, <2>3, <2>4, ResetEvolves, EmitCloseReadEvolves, EvolvesTwice
  <1> QED BY <1>1, <1>2

LEMMA DeferEvolves ==
    ASSUME NEW s \in EndShape, Sound(s), NEW kind \in Terminal,
           kind # "RST" => s.localWriterBroken \/ s.reader = "done"
    PROVE  Evolves(s, Defer(s, kind))
  <1> DEFINE t == [s EXCEPT !.stopLocalRead = TRUE, !.deferredPacket = kind]
  <1>1. Evolves(s, t)
    BY PuttingOffEvolves
  <1>2. t \in EndShape /\ Sound(t)
    BY <1>1 DEF Evolves
  <1>3. Defer(s, kind) \in {s, Settle(t)}
    BY DEF Defer
  <1> HIDE DEF t
  <1> QED BY <1>1, <1>2, <1>3, SettleEvolves, EvolvesTwice, StaysSame

LEMMA ResetAfterDrainEvolves ==
    ASSUME NEW s \in EndShape, Sound(s)
    PROVE  Evolves(s, ResetAfterDrain(s))
  <1> DEFINE t == [s EXCEPT !.deferredPacket = "none"]
  <1>1. Evolves(s, t)
    BY NoLongerEvolves
  <1>2. t \in EndShape /\ Sound(t)
    BY <1>1 DEF Evolves
  <1>3. ResetAfterDrain(s) \in {s, Defer(t, "RST"), EmitRST(s)}
    BY DEF ResetAfterDrain
  <1> HIDE DEF t
  <1>4. Evolves(t, Defer(t, "RST"))
    BY <1>2, DeferEvolves DEF Terminal
  <1> QED BY <1>1, <1>3, <1>4, EmitRSTEvolves, EvolvesTwice, StaysSame

LEMMA MaybeInitiateEvolves ==
    ASSUME NEW s \in EndShape, Sound(s)
    PROVE  Evolves(s, MaybeInitiateClientCloseRead(s))
  BY DeferEvolves, EmitCloseReadEvolves, StaysSame
  DEF MaybeInitiateClientCloseRead, Finished, Terminal

-----------------------------------------------------------------------------
(* Acknowledgements and resets.                                            *)

(* Nothing that the invariant speaks of changes, but for what is kept for  *)
(* retransmission or waited for and is not any more.                       *)
Alike(s, t) ==
    /\ t.read = s.read /\ t.sndBuf = s.sndBuf /\ t.reader = s.reader
    /\ t.rcvd = s.rcvd /\ t.rcvBuf = s.rcvBuf /\ t.writing = s.writing
    /\ t.written = s.written /\ t.writer = s.writer /\ t.fin = s.fin
    /\ t.closeReadSent = s.closeReadSent /\ t.closeReadReceived = s.closeReadReceived
    /\ t.closeWriteSent = s.closeWriteSent /\ t.localWriterBroken = s.localWriterBroken
    /\ t.localWriteClosed = s.localWriteClosed /\ t.closed = s.closed
    /\ t.rstSent = s.rstSent /\ t.rstReceived = s.rstReceived
    /\ t.deferredPacket = s.deferredPacket /\ t.stopLocalRead = s.stopLocalRead
    /\ t.controlSndBuf \subseteq s.controlSndBuf
    /\ t.waitingAckFor \in {s.waitingAckFor, "none"}

LEMMA AlikeEvolves ==
    ASSUME NEW s \in EndShape, Sound(s), NEW t \in EndShape, Alike(s, t)
    PROVE  Evolves(s, t)
  <1>1. ReaderSound(t) /\ WriterSound(t)
    BY DEF Alike, Sound, ReaderSound, WriterSound, Resetting
  <1>2. ControlSound(t) /\ ClosedSound(t)
    BY DEF Alike, Sound, ControlSound, ClosedSound, Resetting
  <1> QED BY <1>1, <1>2 DEF Alike, Sound, Evolves, Ended, Resetting

LEMMA ForgettingEvolves ==
    ASSUME NEW s \in EndShape, Sound(s), NEW kind, NEW t,
           t = [s EXCEPT !.controlSndBuf = @ \ {kind}]
    PROVE  Evolves(s, t) /\ (s.rstSent => Resetting(t))
  <1>1. t \in EndShape /\ Alike(s, t)
    BY DEF EndShape, Alike
  <1> QED BY <1>1, AlikeEvolves DEF Alike, Resetting

LEMMA AckedEvolves ==
    ASSUME NEW s \in EndShape, Sound(s), NEW kind, NEW t,
           t = [s EXCEPT !.controlSndBuf = @ \ {kind},
                         !.waitingAckFor = IF @ = kind THEN "none" ELSE @]
    PROVE  Evolves(s, t)
  <1>1. t \in EndShape /\ Alike(s, t)
    BY ZenonT(60) DEF EndShape, Alike
  <1> QED BY <1>1, AlikeEvolves

LEMMA ReadAckedEvolves ==
    ASSUME NEW s \in EndShape, Sound(s), NEW t, t = [s EXCEPT !.closeReadAcked = TRUE]
    PROVE  Evolves(s, t)
  <1>1. t \in EndShape /\ Alike(s, t)
    BY ZenonT(60) DEF EndShape, Alike
  <1> QED BY <1>1, AlikeEvolves

LEMMA WriteAckedEvolves ==
    ASSUME NEW s \in EndShape, Sound(s), NEW t,
           t = [s EXCEPT !.closeWriteAcked = TRUE, !.localWriterBroken = TRUE,
                         !.localWriteClosed = TRUE]
    PROVE  Evolves(s, t)
  <1>1. t \in EndShape /\ t.localWriterBroken /\ t.localWriteClosed
    BY ZenonT(60) DEF EndShape
  <1>2. ReaderSound(t)
    <2>1. t.sndBuf = s.sndBuf /\ t.read = s.read
      BY DEF EndShape
    <2> QED BY <1>1, <2>1 DEF Sound, ReaderSound
  <1>3. WriterSound(t)
    BY <1>1 DEF EndShape, Sound, WriterSound
  <1>4. ControlSound(t)
    BY DEF EndShape, Sound, ControlSound
  <1>5. ClosedSound(t)
    BY <1>1 DEF ClosedSound
  <1> QED BY <1>1, <1>2, <1>3, <1>4, <1>5 DEF Sound, Evolves, Ended, Resetting, EndShape

LEMMA ReceiveControlAckEvolves ==
    ASSUME NEW s \in EndShape, Sound(s), NEW kind \in Terminal
    PROVE  Evolves(s, ReceiveControlAck(s, kind))
  <1> DEFINE t == [s EXCEPT !.controlSndBuf = @ \ {kind},
                            !.waitingAckFor = IF @ = kind THEN "none" ELSE @]
             r == [t EXCEPT !.closeReadAcked = TRUE]
             w == [t EXCEPT !.closeWriteAcked = TRUE, !.localWriterBroken = TRUE,
                            !.localWriteClosed = TRUE]
  <1>1. Evolves(s, t)
    BY AckedEvolves
  <1>2. Evolves(s, r) /\ Evolves(s, w)
    <2>1. t \in EndShape /\ Sound(t)
      BY <1>1 DEF Evolves
    <2> HIDE DEF t
    <2>2. Evolves(t, r) /\ Evolves(t, w)
      BY <2>1, ReadAckedEvolves, WriteAckedEvolves
    <2> HIDE DEF r, w
    <2> QED BY <1>1, <2>2, EvolvesTwice
  <1>3. \/ ReceiveControlAck(s, kind) = s
        \/ kind = "CLOSE_READ" /\ ReceiveControlAck(s, kind) = TryFinalizeRemoteEOF(r)
        \/ /\ kind = "CLOSE_WRITE"
           /\ ReceiveControlAck(s, kind) =
                TryFinalizeRemoteEOF(MaybeInitiateClientCloseRead(w))
        \/ /\ "RST" \in s.controlSndBuf \/ s.waitingAckFor = "RST"
           /\ ReceiveControlAck(s, kind) = FinalizeClose(s)
    BY DEF ReceiveControlAck, Terminal
  <1> HIDE DEF t, r, w
  <1>4. Evolves(s, TryFinalizeRemoteEOF(r))
    BY <1>2, TryFinalizeEvolves, EvolvesTwice DEF Evolves
  <1>5. Evolves(s, MaybeInitiateClientCloseRead(w))
    BY <1>2, MaybeInitiateEvolves, EvolvesTwice DEF Evolves
  <1>6. Evolves(s, TryFinalizeRemoteEOF(MaybeInitiateClientCloseRead(w)))
    BY <1>5, TryFinalizeEvolves, EvolvesTwice DEF Evolves
  <1>7. "RST" \in s.controlSndBuf \/ s.waitingAckFor = "RST" => Evolves(s, FinalizeClose(s))
    BY FinalizeCloseEvolves DEF Sound, ControlSound, Resetting
  <1> QED BY <1>3, <1>4, <1>6, <1>7, StaysSame

LEMMA PeerResetEvolves ==
    ASSUME NEW s \in EndShape, Sound(s)
    PROVE  Evolves(s, PeerReset(s))
  <1> DEFINE t == [s EXCEPT !.rstReceived = TRUE]
  <1>1. t \in EndShape /\ Resetting(t)
    BY DEF EndShape, Resetting
  <1>2. ReaderSound(t)
    BY DEF EndShape, Sound, ReaderSound
  <1>3. WriterSound(t)
    BY <1>1 DEF EndShape, Sound, WriterSound
  <1>4. ControlSound(t)
    BY DEF EndShape, Sound, ControlSound
  <1>5. ClosedSound(t)
    BY <1>1 DEF ClosedSound
  <1>6. Evolves(s, t)
    BY ZenonT(60), <1>1, <1>2, <1>3, <1>4, <1>5 DEF Sound, Evolves, Ended, EndShape
  <1>7. PeerReset(s) = FinalizeClose(t)
    BY DEF PeerReset
  <1> HIDE DEF t
  <1>8. Evolves(t, FinalizeClose(t))
    BY <1>1, <1>6, FinalizeCloseEvolves DEF Evolves
  <1> QED BY <1>6, <1>7, <1>8, EvolvesTwice

-----------------------------------------------------------------------------
(* The two ends of one direction: a reads from its application and sends,  *)
(* b receives and writes.                                                  *)

(* b refuses data, and its application will see no EOF.                    *)
Refuses(b) == b.localWriteClosed /\ ~ b.fin

Link(a, b) ==
    /\ b.rcvd <= a.read
    /\ b.closeReadReceived => a.closeReadSent
    /\ ~ Ended(a) /\ ~ a.closeReadSent
         => \A c \in 0 .. a.read - 1 : c \in a.sndBuf \/ c < b.rcvd \/ Refuses(b)
    /\ a.closeReadSent => \/ b.rcvd = a.read \/ Refuses(b)
                          \/ a.localWriterBroken /\ a.reader # "read" /\ a.read = b.rcvd + 1

(* The writer found nothing to write, and is about to show its application *)
(* the end of the stream.                                                  *)
Shows(s) ==
    s.writer = "empty" /\ s.closeReadReceived /\ ~ s.localWriteClosed /\ ~ s.closed

Grows(s, t) ==
    /\ s.read <= t.read /\ s.rcvd <= t.rcvd
    /\ t.read = s.read \/ t.read <= MaxData
    /\ t.fin => s.fin \/ Shows(s)
    /\ s.closeReadSent => t.closeReadSent
    /\ s.closeWriteSent => t.closeWriteSent

(* Beside its peer b, an end goes from s to t.                             *)
Moves(s, t, b) ==
    t \in EndShape /\ Sound(t) /\ Link(t, b) /\ Link(b, t) /\ Grows(s, t)

Meets(s, b) ==
    /\ s \in EndShape /\ Sound(s) /\ b \in EndShape /\ Sound(b)
    /\ Link(s, b) /\ Link(b, s)

LEMMA SenderEvolves ==
    ASSUME NEW a \in EndShape, NEW b \in EndShape, NEW t, Link(a, b), Evolves(a, t)
    PROVE  Link(t, b)
  <1>1. /\ a.read \in Nat /\ b.rcvd \in Nat /\ t.read = a.read /\ t.reader = a.reader
        /\ a.closeReadSent => t.closeReadSent
        /\ a.localWriterBroken => t.localWriterBroken
        /\ Ended(a) => Ended(t)
    BY DEF EndShape, Evolves
  <1>2. b.rcvd <= t.read /\ (b.closeReadReceived => t.closeReadSent)
    BY <1>1 DEF Link
  <1>3. ~ Ended(t) /\ ~ t.closeReadSent
           => \A c \in 0 .. t.read - 1 : c \in t.sndBuf \/ c < b.rcvd \/ Refuses(b)
    BY <1>1 DEF Link, Evolves
  <1>4. t.closeReadSent =>
           \/ b.rcvd = t.read \/ Refuses(b)
           \/ t.localWriterBroken /\ t.reader # "read" /\ t.read = b.rcvd + 1
    <2>1. CASE a.closeReadSent
      BY <1>1, <2>1 DEF Link
    <2>2. CASE t.closeReadSent /\ ~ a.closeReadSent
      <3>1. a.sndBuf = {} /\ ~ Ended(a)
        BY <2>2 DEF Evolves
      <3>2. \A c \in 0 .. a.read - 1 : c < b.rcvd \/ Refuses(b)
        BY <2>2, <3>1 DEF Link
      <3>3. CASE a.read = 0
        BY <1>1, <1>2, <3>3
      <3>4. CASE a.read # 0
        <4>1. a.read - 1 \in 0 .. a.read - 1
          BY <1>1, <3>4
        <4> QED BY <1>1, <1>2, <3>2, <4>1
      <3> QED BY <3>3, <3>4
    <2> QED BY <2>1, <2>2
  <1> QED BY <1>2, <1>3, <1>4 DEF Link

LEMMA ReceiverEvolves ==
    ASSUME NEW a, NEW b, NEW t, Link(a, b), Evolves(b, t)
    PROVE  Link(a, t)
  BY DEF Link, Evolves, Refuses

LEMMA MovesThenEvolves ==
    ASSUME NEW s, NEW b \in EndShape, NEW t, NEW u, Moves(s, t, b), Evolves(t, u)
    PROVE  Moves(s, u, b)
  <1>1. Link(u, b) /\ Link(b, u)
    BY SenderEvolves, ReceiverEvolves DEF Moves
  <1>2. Grows(s, u)
    BY DEF Moves, Grows, Evolves
  <1> QED BY <1>1, <1>2 DEF Moves, Evolves

LEMMA StaysInPlace ==
    ASSUME NEW s, NEW b, Meets(s, b)
    PROVE  Moves(s, s, b)
  BY DEF Meets, Moves, Grows, EndShape

LEMMA EvolvingMoves ==
    ASSUME NEW s, NEW b, NEW t, Meets(s, b), Evolves(s, t)
    PROVE  Moves(s, t, b)
  BY StaysInPlace, MovesThenEvolves DEF Meets

-----------------------------------------------------------------------------
(* Steps of the reader.                                                    *)

LEMMA ReaderMoves ==
    ASSUME NEW s, NEW b, Meets(s, b), s.reader # "done", NEW r \in {"loop", "read", "done"},
           r = "read" => ~ s.closeReadSent, NEW t, t = [s EXCEPT !.reader = r]
    PROVE  Moves(s, t, b) /\ t.reader = r
  <1> USE DEF Meets
  <1>1. t \in EndShape /\ t.reader = r
    BY DEF EndShape
  <1>2. ReaderSound(t)
    BY DEF EndShape, Sound, ReaderSound
  <1>3. WriterSound(t)
    BY DEF EndShape, Sound, WriterSound, Resetting
  <1>4. ControlSound(t)
    BY DEF EndShape, Sound, ControlSound
  <1>5. ClosedSound(t)
    BY DEF EndShape, Sound, ClosedSound, Resetting
  <1>6. /\ t.read = s.read /\ t.rcvd = s.rcvd /\ t.sndBuf = s.sndBuf /\ t.fin = s.fin
        /\ t.closeReadSent = s.closeReadSent /\ t.closeReadReceived = s.closeReadReceived
        /\ t.localWriterBroken = s.localWriterBroken /\ t.closeWriteSent = s.closeWriteSent
        /\ t.localWriteClosed = s.localWriteClosed /\ Ended(t) = Ended(s)
        /\ s.read \in Nat /\ s.rcvd \in Nat
    BY DEF EndShape, Ended, Resetting
  <1>7. Link(t, b) /\ Link(b, t)
    BY <1>1, <1>6 DEF Link, Refuses
  <1> QED BY <1>1, <1>2, <1>3, <1>4, <1>5, <1>6, <1>7 DEF Moves, Sound, Grows

(* The Read returned a chunk, and the reader goes to r.                    *)
LEMMA ChunkMoves ==
    ASSUME NEW s, NEW b, Meets(s, b), s.reader = "read", s.read < MaxData,
           NEW r \in {"loop", "done"}, NEW t, t = [WithChunk(s) EXCEPT !.reader = r]
    PROVE  Moves(s, t, b) /\ t.reader = r
  <1> USE DEF Meets
  <1>0. t = [s EXCEPT !.read = s.read + 1, !.sndBuf = s.sndBuf \cup {s.read}, !.reader = r]
    BY DEF WithChunk, EndShape
  <1>1. t \in EndShape
    <2> DEFINE n == s.read + 1
               B == s.sndBuf \cup {s.read}
    <2>1. n \in Nat /\ B \in SUBSET Nat
      BY DEF EndShape
    <2>2. t = [s EXCEPT !.read = n, !.sndBuf = B, !.reader = r]
      BY <1>0
    <2> HIDE DEF n, B
    <2> QED BY ZenonT(60), <2>1, <2>2 DEF EndShape
  <1>2. /\ t.read = s.read + 1 /\ t.rcvd = s.rcvd /\ t.sndBuf = s.sndBuf \cup {s.read}
        /\ t.fin = s.fin /\ t.reader = r /\ t.stopLocalRead = s.stopLocalRead
        /\ t.closeReadSent = s.closeReadSent /\ t.closeReadReceived = s.closeReadReceived
        /\ t.localWriterBroken = s.localWriterBroken /\ t.closeWriteSent = s.closeWriteSent
        /\ t.localWriteClosed = s.localWriteClosed /\ Ended(t) = Ended(s)
        /\ t.deferredPacket = s.deferredPacket /\ t.closed = s.closed
        /\ Resetting(t) = Resetting(s) /\ t.writer = s.writer /\ t.writing = s.writing
        /\ t.written = s.written /\ t.rcvBuf = s.rcvBuf
        /\ s.read \in Nat /\ s.rcvd \in Nat /\ b.rcvd \in Nat /\ MaxData \in Nat
    BY ZenonT(60), <1>0, CloseAssumption DEF EndShape, Ended, Resetting
  <1>3. s.closeReadSent => s.localWriterBroken /\ s.sndBuf = {} /\ s.stopLocalRead
    BY DEF Sound, ReaderSound
  <1>4. ReaderSound(t)
    <2>1. \A c \in t.sndBuf : c < t.read
      BY <1>2 DEF EndShape, Sound, ReaderSound
    <2>2. s.closeReadSent => t.sndBuf = {t.read - 1}
      BY <1>2, <1>3
    <2>3. t.deferredPacket \notin {"none", "RST"} => t.localWriterBroken
      BY <1>2 DEF Sound, ReaderSound
    <2> QED BY <1>2, <1>3, <2>1, <2>2, <2>3 DEF ReaderSound
  <1>5. WriterSound(t)
    BY <1>2 DEF Sound, WriterSound
  <1>6. ControlSound(t)
    BY <1>0 DEF EndShape, Sound, ControlSound
  <1>7. ClosedSound(t)
    BY <1>2 DEF Sound, ClosedSound
  <1>8. Link(b, t)
    BY <1>2 DEF Link, Refuses
  <1>9. \A c \in 0 .. t.read - 1 : c = s.read \/ c \in 0 .. s.read - 1
    BY <1>2
  <1>10. s.closeReadSent => b.rcvd = s.read \/ Refuses(b)
    BY DEF Link
  <1>11. Link(t, b)
    BY <1>2, <1>3, <1>9, <1>10 DEF Link
  <1> QED BY <1>1, <1>2, <1>4, <1>5, <1>6, <1>7, <1>8, <1>11 DEF Moves, Sound, Grows

-----------------------------------------------------------------------------
(* Steps that the peer's packets make.                                     *)

LEMMA AckMoves ==
    ASSUME NEW s, NEW b, Meets(s, b), NEW c, c < b.rcvd, NEW t,
           t = [s EXCEPT !.sndBuf = @ \ {c}]
    PROVE  Moves(s, t, b)
  <1> USE DEF Meets
  <1>1. t \in EndShape
    BY DEF EndShape
  <1>2. ReaderSound(t)
    BY DEF EndShape, Sound, ReaderSound
  <1>3. WriterSound(t)
    BY DEF EndShape, Sound, WriterSound, Resetting
  <1>4. ControlSound(t)
    BY DEF EndShape, Sound, ControlSound
  <1>5. ClosedSound(t)
    BY DEF EndShape, Sound, ClosedSound, Resetting
  <1>6. /\ t.read = s.read /\ t.rcvd = s.rcvd /\ t.sndBuf = s.sndBuf \ {c}
        /\ t.fin = s.fin /\ t.reader = s.reader
        /\ t.closeReadSent = s.closeReadSent /\ t.closeReadReceived = s.closeReadReceived
        /\ t.localWriterBroken = s.localWriterBroken /\ t.closeWriteSent = s.closeWriteSent
        /\ t.localWriteClosed = s.localWriteClosed /\ Ended(t) = Ended(s)
        /\ s.read \in Nat /\ s.rcvd \in Nat
    BY DEF EndShape, Ended, Resetting
  <1>7. Link(t, b) /\ Link(b, t)
    BY <1>6 DEF Link, Refuses
  <1> QED BY <1>1, <1>2, <1>3, <1>4, <1>5, <1>6, <1>7 DEF Moves, Sound, Grows

LEMMA ReceiveDataAckMoves ==
    ASSUME NEW s, NEW b, Meets(s, b), NEW c, c < b.rcvd
    PROVE  Moves(s, ReceiveDataAck(s, c), b)
  <1> DEFINE t == [s EXCEPT !.sndBuf = @ \ {c}]
  <1>1. Moves(s, t, b)
    BY AckMoves
  <1>2. ReceiveDataAck(s, c) \in {s, Settle(t), Settle(TryFinalizeRemoteEOF(t))}
    BY DEF ReceiveDataAck
  <1> HIDE DEF t
  <1>3. Evolves(t, Settle(t))
    BY <1>1, SettleEvolves DEF Moves
  <1>4. Evolves(t, TryFinalizeRemoteEOF(t))
    BY <1>1, TryFinalizeEvolves DEF Moves
  <1>5. Evolves(t, Settle(TryFinalizeRemoteEOF(t)))
    BY <1>4, SettleEvolves, EvolvesTwice DEF Evolves
  <1> QED BY <1>1, <1>2, <1>3, <1>5, MovesThenEvolves, StaysInPlace DEF Meets

(* The peer takes no more: what is unacknowledged is dropped.              *)
LEMMA RefusedMoves ==
    ASSUME NEW s, NEW b, Meets(s, b), b.closeWriteSent, NEW t,
           t = [s EXCEPT !.closeWriteReceived = TRUE, !.stopLocalRead = TRUE, !.sndBuf = {}]
    PROVE  Moves(s, t, b)
  <1> USE DEF Meets
  <1>1. t \in EndShape
    BY ZenonT(60) DEF EndShape
  <1>2. ReaderSound(t)
    BY DEF EndShape, Sound, ReaderSound
  <1>3. WriterSound(t)
    BY DEF EndShape, Sound, WriterSound, Resetting
  <1>4. ControlSound(t)
    BY DEF EndShape, Sound, ControlSound
  <1>5. ClosedSound(t)
    BY DEF EndShape, Sound, ClosedSound, Resetting
  <1>6. /\ t.read = s.read /\ t.rcvd = s.rcvd /\ t.sndBuf = {}
        /\ t.fin = s.fin /\ t.reader = s.reader
        /\ t.closeReadSent = s.closeReadSent /\ t.closeReadReceived = s.closeReadReceived
        /\ t.localWriterBroken = s.localWriterBroken /\ t.closeWriteSent = s.closeWriteSent
        /\ t.localWriteClosed = s.localWriteClosed /\ Ended(t) = Ended(s)
        /\ s.read \in Nat /\ s.rcvd \in Nat /\ b.rcvd \in Nat
    BY DEF EndShape, Ended, Resetting
  <1>7. Link(b, t)
    BY <1>6 DEF Link, Refuses
  <1>8. Refuses(b) \/ s.closeReadSent
    BY DEF Sound, WriterSound, Refuses, Link
  <1>9. Link(t, b)
    BY <1>6, <1>8 DEF Link
  <1> QED BY <1>1, <1>2, <1>3, <1>4, <1>5, <1>6, <1>7, <1>9 DEF Moves, Sound, Grows

LEMMA MarkCloseWriteReceivedMoves ==
    ASSUME NEW s, NEW b, Meets(s, b), b.closeWriteSent
    PROVE  Moves(s, MarkCloseWriteReceived(s), b)
  <1> DEFINE t == [s EXCEPT !.closeWriteReceived = TRUE, !.stopLocalRead = TRUE, !.sndBuf = {}]
  <1>1. Moves(s, t, b)
    BY RefusedMoves
  <1>2. MarkCloseWriteReceived(s) = TryFinalizeRemoteEOF(Settle(t))
    BY DEF MarkCloseWriteReceived
  <1> HIDE DEF t
  <1>3. Evolves(t, Settle(t))
    BY <1>1, SettleEvolves DEF Moves
  <1>4. Evolves(t, TryFinalizeRemoteEOF(Settle(t)))
    BY <1>3, TryFinalizeEvolves, EvolvesTwice DEF Evolves
  <1> QED BY <1>1, <1>2, <1>4, MovesThenEvolves DEF Meets

(* The peer sends no more.                                                 *)
LEMMA EndOfPeerMoves ==
    ASSUME NEW s, NEW b, Meets(s, b), b.closeReadSent, NEW t,
           t = [s EXCEPT !.closeReadReceived = TRUE, !.flushSignal = TRUE]
    PROVE  Moves(s, t, b)
  <1> USE DEF Meets
  <1>1. t \in EndShape /\ t.closeReadReceived
    BY ZenonT(60) DEF EndShape
  <1>2. ReaderSound(t)
    BY DEF EndShape, Sound, ReaderSound
  <1>3. WriterSound(t)
    BY DEF EndShape, Sound, WriterSound, Resetting
  <1>4. ControlSound(t)
    BY DEF EndShape, Sound, ControlSound
  <1>5. ClosedSound(t)
    BY DEF EndShape, Sound, ClosedSound, Resetting
  <1>6. /\ t.read = s.read /\ t.rcvd = s.rcvd /\ t.sndBuf = s.sndBuf
        /\ t.fin = s.fin /\ t.reader = s.reader
        /\ t.closeReadSent = s.closeReadSent
        /\ t.localWriterBroken = s.localWriterBroken /\ t.closeWriteSent = s.closeWriteSent
        /\ t.localWriteClosed = s.localWriteClosed /\ Ended(t) = Ended(s)
        /\ s.read \in Nat /\ s.rcvd \in Nat
    BY DEF EndShape, Ended, Resetting
  <1>7. Link(t, b) /\ Link(b, t)
    BY <1>6 DEF Link, Refuses
  <1> QED BY <1>1, <1>2, <1>3, <1>4, <1>5, <1>6, <1>7 DEF Moves, Sound, Grows

LEMMA MarkCloseReadReceivedMoves ==
    ASSUME NEW s, NEW b, Meets(s, b), b.closeReadSent
    PROVE  Moves(s, MarkCloseReadReceived(s), b)
  <1> DEFINE t == [s EXCEPT !.closeReadReceived = TRUE, !.flushSignal = TRUE]
  <1>1. Moves(s, t, b)
    BY EndOfPeerMoves
  <1>2. MarkCloseReadReceived(s) = TryFinalizeRemoteEOF(t)
    BY DEF MarkCloseReadReceived
  <1> HIDE DEF t
  <1> QED BY <1>1, <1>2, TryFinalizeEvolves, MovesThenEvolves DEF Meets, Moves

LEMMA TakenMoves ==
    ASSUME NEW s, NEW b, Meets(s, b), ~ Ended(s), ~ s.localWriterBroken,
           s.rcvd < b.read, NEW t,
           t = [s EXCEPT !.rcvd = @ + 1, !.rcvBuf = @ + 1, !.flushSignal = TRUE]
    PROVE  Moves(s, t, b)
  <1> USE DEF Meets
  <1>0. /\ s.rcvd \in Nat /\ s.rcvBuf \in Nat /\ s.read \in Nat
        /\ s.written \in Nat /\ s.writing \in Nat /\ b.read \in Nat /\ b.rcvd \in Nat
    BY DEF EndShape
  <1>1. t \in EndShape
    <2>1. \A m, n \in Nat :
            [s EXCEPT !.rcvd = m, !.rcvBuf = n, !.flushSignal = TRUE] \in EndShape
      BY ZenonT(60) DEF EndShape
    <2>2. s.rcvd + 1 \in Nat /\ s.rcvBuf + 1 \in Nat
      BY <1>0
    <2> QED BY <2>1, <2>2
  <1>2. ReaderSound(t)
    BY DEF EndShape, Sound, ReaderSound
  <1>3. /\ t.read = s.read /\ t.rcvd = s.rcvd + 1 /\ t.sndBuf = s.sndBuf
        /\ t.rcvBuf = s.rcvBuf + 1 /\ t.writing = s.writing /\ t.written = s.written
        /\ t.fin = s.fin /\ t.reader = s.reader /\ t.writer = s.writer
        /\ t.closeReadSent = s.closeReadSent /\ t.closeReadReceived = s.closeReadReceived
        /\ t.localWriterBroken = s.localWriterBroken /\ t.closeWriteSent = s.closeWriteSent
        /\ t.localWriteClosed = s.localWriteClosed /\ Resetting(t) = Resetting(s)
        /\ t.closed = s.closed
    BY DEF EndShape, Resetting
  <1>4. WriterSound(t)
    BY <1>0, <1>3 DEF Sound, WriterSound
  <1>5. ControlSound(t)
    BY DEF EndShape, Sound, ControlSound
  <1>6. ClosedSound(t)
    BY <1>3 DEF ClosedSound, Ended
  <1>7. Link(t, b)
    BY <1>3 DEF Link, Ended
  <1>8. ~ Refuses(s)
    BY DEF Sound, WriterSound, Refuses
  <1>9. Link(b, t)
    BY <1>0, <1>3, <1>8 DEF Link, Ended
  <1> QED BY <1>0, <1>1, <1>2, <1>3, <1>4, <1>5, <1>6, <1>7, <1>9 DEF Moves, Sound, Grows

LEMMA TakeDataMoves ==
    ASSUME NEW s, NEW b, Meets(s, b), NEW c, c < b.read
    PROVE  Moves(s, TakeData(s, c), b)
  <1> DEFINE t == [s EXCEPT !.rcvd = @ + 1, !.rcvBuf = @ + 1, !.flushSignal = TRUE]
             f == [s EXCEPT !.flushSignal = TRUE]
  <1>1. \/ TakeData(s, c) \in {s, EmitCloseWrite(s), f}
        \/ /\ ~ Ended(s) /\ ~ s.localWriterBroken /\ c = s.rcvd
           /\ TakeData(s, c) = t
    BY DEF TakeData, Ended
  <1>2. f \in EndShape /\ Alike(s, f)
    BY ZenonT(60) DEF Meets, EndShape, Alike
  <1>3. ~ Ended(s) /\ ~ s.localWriterBroken /\ s.rcvd < b.read => Moves(s, t, b)
    BY TakenMoves
  <1> HIDE DEF t, f
  <1> QED BY <1>1, <1>2, <1>3, AlikeEvolves, EmitCloseWriteEvolves, EvolvingMoves,
             StaysInPlace DEF Meets

-----------------------------------------------------------------------------
(* Steps of the writer.                                                    *)

(* What only the writer changes; the rest is as before.                    *)
WriterOnly(s, t) ==
    /\ t.read = s.read /\ t.sndBuf = s.sndBuf /\ t.reader = s.reader
    /\ t.rcvd = s.rcvd /\ t.closeReadSent = s.closeReadSent
    /\ t.closeReadReceived = s.closeReadReceived /\ t.closeWriteSent = s.closeWriteSent
    /\ t.closed = s.closed /\ t.rstSent = s.rstSent /\ t.rstReceived = s.rstReceived
    /\ t.deferredPacket = s.deferredPacket /\ t.controlSndBuf = s.controlSndBuf
    /\ t.waitingAckFor = s.waitingAckFor /\ t.stopLocalRead = s.stopLocalRead
    /\ s.localWriterBroken => t.localWriterBroken

LEMMA WriterOnlyMoves ==
    ASSUME NEW s, NEW b, Meets(s, b), NEW t \in EndShape, WriterOnly(s, t),
           WriterSound(t), ClosedSound(t), Refuses(s) => Refuses(t),
           t.fin => s.fin \/ Shows(s)
    PROVE  Moves(s, t, b)
  <1> USE DEF Meets
  <1>1. s.read \in Nat /\ s.rcvd \in Nat
    BY DEF EndShape
  <1>2. ReaderSound(t) /\ ControlSound(t)
    BY DEF WriterOnly, Sound, ReaderSound, ControlSound
  <1>3. Link(t, b)
    BY DEF WriterOnly, Link, Ended, Resetting
  <1>4. Link(b, t)
    BY DEF WriterOnly, Link
  <1> QED BY <1>1, <1>2, <1>3, <1>4 DEF WriterOnly, Moves, Sound, Grows

LEMMA TakeMoves ==
    ASSUME NEW s, NEW b, Meets(s, b), s.writer = "idle", ~ s.closed, NEW t,
           \/ t = [s EXCEPT !.writer = "write", !.writing = s.rcvBuf, !.rcvBuf = 0]
           \/ t = [s EXCEPT !.writer = "empty", !.flushSignal = FALSE]
    PROVE  Moves(s, t, b)
  <1>0. /\ s \in EndShape /\ s.written \in Nat /\ s.writing = 0 /\ s.rcvBuf \in Nat
        /\ s.rcvd \in Nat
    BY DEF Meets, EndShape, Sound, WriterSound
  <1>1. /\ t \in EndShape /\ WriterOnly(s, t)
        /\ t.written = s.written /\ t.localWriterBroken = s.localWriterBroken
        /\ t.fin = s.fin /\ t.localWriteClosed = s.localWriteClosed
    <2>1. CASE t = [s EXCEPT !.writer = "write", !.writing = s.rcvBuf, !.rcvBuf = 0]
      <3>1. t \in EndShape
        BY ZenonT(60), <1>0, <2>1 DEF EndShape
      <3>2. WriterOnly(s, t)
        BY <1>0, <2>1 DEF EndShape, WriterOnly
      <3> QED BY <1>0, <2>1, <3>1, <3>2 DEF EndShape
    <2>2. CASE t = [s EXCEPT !.writer = "empty", !.flushSignal = FALSE]
      <3>1. t \in EndShape
        BY ZenonT(60), <1>0, <2>2 DEF EndShape
      <3>2. WriterOnly(s, t)
        BY <1>0, <2>2 DEF EndShape, WriterOnly
      <3> QED BY <1>0, <2>2, <3>1, <3>2 DEF EndShape
    <2> QED BY <2>1, <2>2
  <1>2. \/ t.writing = s.rcvBuf /\ t.rcvBuf = 0 /\ t.writer = "write"
        \/ t.writing = 0 /\ t.rcvBuf = s.rcvBuf
    BY ZenonT(60), <1>0 DEF EndShape
  <1>3. WriterSound(t)
    BY <1>0, <1>1, <1>2 DEF Meets, Sound, WriterSound, WriterOnly, Resetting
  <1>4. ClosedSound(t)
    BY <1>1 DEF ClosedSound, WriterOnly
  <1> QED BY <1>1, <1>2, <1>3, <1>4, WriterOnlyMoves DEF Refuses

(* The writer finds nothing to write, and may show the end of the stream.  *)
LEMMA ShowingEndMoves ==
    ASSUME NEW s, NEW b, Meets(s, b), s.writer = "empty", NEW eof \in BOOLEAN,
           eof => s.closeReadReceived /\ ~ s.localWriteClosed /\ ~ s.closed, NEW t,
           t = [s EXCEPT !.writer = "idle", !.fin = @ \/ eof,
                         !.localWriteClosed = @ \/ eof]
    PROVE  Moves(s, t, b)
  <1>0. s \in EndShape /\ Sound(s) /\ s.writing = 0
    BY DEF Meets, Sound, WriterSound
  <1>1. ASSUME NEW f \in BOOLEAN, NEW l \in BOOLEAN, NEW u,
               u = [s EXCEPT !.writer = "idle", !.fin = f, !.localWriteClosed = l]
        PROVE  /\ u \in EndShape /\ WriterOnly(s, u) /\ u.fin = f /\ u.localWriteClosed = l
               /\ u.writer = "idle" /\ u.written = s.written /\ u.writing = s.writing
               /\ u.rcvBuf = s.rcvBuf /\ u.localWriterBroken = s.localWriterBroken
    <2>1. u \in EndShape
      BY ZenonT(60), <1>0, <1>1 DEF EndShape
    <2>2. WriterOnly(s, u)
      BY <1>0, <1>1 DEF EndShape, WriterOnly
    <2> QED BY <1>0, <1>1, <2>1, <2>2 DEF EndShape
  <1>2. PICK f \in BOOLEAN, l \in BOOLEAN :
          /\ f <=> s.fin \/ eof
          /\ l <=> s.localWriteClosed \/ eof
          /\ t = [s EXCEPT !.writer = "idle", !.fin = f, !.localWriteClosed = l]
    OBVIOUS
  <1>3. /\ t \in EndShape /\ WriterOnly(s, t)
        /\ t.fin <=> s.fin \/ eof
        /\ t.localWriteClosed <=> s.localWriteClosed \/ eof
        /\ t.written = s.written /\ t.writing = s.writing /\ t.rcvBuf = s.rcvBuf
        /\ t.localWriterBroken = s.localWriterBroken
    BY ZenonT(60), <1>1, <1>2
  <1>4. WriterSound(t)
    BY <1>0, <1>3 DEF Sound, WriterSound, WriterOnly, Resetting
  <1>5. ClosedSound(t)
    BY <1>0, <1>3 DEF Sound, ClosedSound, WriterOnly, Resetting
  <1>6. Refuses(s) => Refuses(t)
    BY <1>3 DEF Refuses
  <1>7. t.fin => s.fin \/ Shows(s)
    BY <1>3 DEF Shows
  <1> QED BY <1>3, <1>4, <1>5, <1>6, <1>7, WriterOnlyMoves

LEMMA WrittenMoves ==
    ASSUME NEW s, NEW b, Meets(s, b), s.writer = "write", ~ s.closed, NEW t,
           t = [s EXCEPT !.writer = "idle", !.written = @ + s.writing, !.writing = 0,
                         !.flushSignal = TRUE]
    PROVE  Moves(s, t, b)
  <1>0. /\ s \in EndShape /\ s.written \in Nat /\ s.writing \in Nat /\ s.rcvBuf \in Nat
        /\ s.rcvd \in Nat /\ s.written + s.writing \in Nat
    BY DEF Meets, EndShape
  <1>1. \A n \in Nat :
          LET u == [s EXCEPT !.writer = "idle", !.written = n, !.writing = 0,
                             !.flushSignal = TRUE]
          IN  /\ u \in EndShape /\ WriterOnly(s, u) /\ u.fin = s.fin
              /\ u.writer = "idle" /\ u.written = n /\ u.writing = 0
              /\ u.rcvBuf = s.rcvBuf /\ u.localWriterBroken = s.localWriterBroken
              /\ u.localWriteClosed = s.localWriteClosed
    BY ZenonT(60), <1>0 DEF EndShape, WriterOnly
  <1>2. /\ t \in EndShape /\ WriterOnly(s, t) /\ t.fin = s.fin
        /\ t.writer = "idle" /\ t.written = s.written + s.writing /\ t.writing = 0
        /\ t.rcvBuf = s.rcvBuf /\ t.localWriterBroken = s.localWriterBroken
        /\ t.localWriteClosed = s.localWriteClosed
    BY <1>0, <1>1
  <1>3. WriterSound(t)
    BY <1>0, <1>2 DEF Meets, Sound, WriterSound, WriterOnly, Resetting
  <1>4. ClosedSound(t)
    BY <1>2 DEF ClosedSound, WriterOnly
  <1> QED BY <1>2, <1>3, <1>4, WriterOnlyMoves DEF Refuses

LEMMA WriteFailsMoves ==
    ASSUME NEW s, NEW b, Meets(s, b), NEW t,
           t = [s EXCEPT !.writer = "done", !.writing = 0, !.rcvBuf = 0,
                         !.localWriterBroken = TRUE, !.writeFailed = TRUE]
    PROVE  Moves(s, t, b)
  <1>0. s \in EndShape /\ Sound(s)
    BY DEF Meets
  <1>1. t \in EndShape /\ WriterOnly(s, t)
    BY ZenonT(60), <1>0 DEF EndShape, WriterOnly
  <1>2. /\ t.localWriterBroken /\ t.fin = s.fin /\ t.writing = 0 /\ t.writer = "done"
        /\ t.localWriteClosed = s.localWriteClosed
        /\ t.written = s.written /\ t.rcvBuf = 0
        /\ s.written \in Nat /\ s.writing \in Nat /\ s.rcvBuf \in Nat /\ s.rcvd \in Nat
    BY <1>0 DEF EndShape
  <1>3. WriterSound(t) /\ ClosedSound(t)
    BY <1>0, <1>1, <1>2 DEF Sound, WriterSound, ClosedSound, WriterOnly
  <1> QED BY <1>1, <1>2, <1>3, WriterOnlyMoves DEF Refuses

-----------------------------------------------------------------------------
(* The invariant of both ends and of what is on its way.                   *)

(* What the sender b of a packet has done before.                          *)
Truthful(p, b) ==
    /\ p.kind = "CLOSE_READ" => b.closeReadSent
    /\ p.kind = "CLOSE_WRITE" => b.closeWriteSent
    /\ p.kind = "DATA" => p.chunk < b.read
    /\ p.kind = "DATA_ACK" => p.chunk < b.rcvd
    /\ p.chunk \in Nat

CloseInv ==
    /\ end \in [Ends -> EndShape]
    /\ \A e \in Ends : Sound(end[e]) /\ end[e].read <= MaxData
    /\ \A e \in Ends : Link(end[e], end[Peer(e)])
    /\ \A p \in net : p.to \in Ends /\ Truthful(p, end[Peer(p.to)])

(* What a step does: the invariant holds again, and only a writer that is  *)
(* about to shows the end of the stream.                                   *)
Keeps == CloseInv' /\ \A e \in Ends : end'[e].fin => end[e].fin \/ Shows(end[e])

LEMMA PeerOfPeer ==
    ASSUME NEW e \in Ends
    PROVE  /\ Peer(e) \in Ends /\ Peer(Peer(e)) = e /\ Peer(e) # e
           /\ \A f \in Ends : f = e \/ f = Peer(e)
  BY DEF Ends, Peer

LEMMA EndsMeet ==
    ASSUME CloseInv, NEW e \in Ends
    PROVE  Meets(end[e], end[Peer(e)])
  BY PeerOfPeer DEF CloseInv, Meets

LEMMA StaysTruthful ==
    ASSUME NEW s \in EndShape, NEW t \in EndShape, Grows(s, t), NEW p, Truthful(p, s)
    PROVE  Truthful(p, t)
  BY DEF Truthful, Grows, EndShape

(* A step of one end, which may send packets.                              *)
LEMMA StepKeeps ==
    ASSUME CloseInv, NEW e \in Ends, NEW t, Moves(end[e], t, end[Peer(e)]),
           end' = [end EXCEPT ![e] = t],
           NEW sent, net' = net \cup sent,
           \A p \in sent : p.to = Peer(e) /\ Truthful(p, t)
    PROVE  Keeps
  <1>1. /\ end' \in [Ends -> EndShape] /\ end'[e] = t /\ end'[Peer(e)] = end[Peer(e)]
    BY PeerOfPeer DEF CloseInv, Moves
  <1>2. \A f \in Ends : Sound(end'[f]) /\ end'[f].read <= MaxData
    BY <1>1, PeerOfPeer DEF CloseInv, Moves, Grows
  <1>3. \A f \in Ends : Link(end'[f], end'[Peer(f)])
    BY <1>1, PeerOfPeer DEF Moves
  <1>4. ASSUME NEW p \in net' PROVE p.to \in Ends /\ Truthful(p, end'[Peer(p.to)])
    <2>1. CASE p \in sent
      BY <1>1, <2>1, PeerOfPeer
    <2>2. CASE p \in net /\ p.to = e
      BY <1>1, <2>2 DEF CloseInv
    <2>3. CASE p \in net /\ p.to = Peer(e)
      <3>1. Truthful(p, end[e])
        BY <2>3, PeerOfPeer DEF CloseInv
      <3>2. Truthful(p, t)
        BY <3>1, StaysTruthful DEF CloseInv, Moves
      <3> QED BY <1>1, <2>3, <3>2, PeerOfPeer
    <2> QED BY <2>1, <2>2, <2>3, PeerOfPeer DEF CloseInv
  <1>5. \A f \in Ends : end'[f].fin => end[f].fin \/ Shows(end[f])
    BY <1>1, PeerOfPeer DEF Moves, Grows
  <1> QED BY <1>1, <1>2, <1>3, <1>4, <1>5 DEF CloseInv, Keeps

LEMMA BecomesKeeps ==
    ASSUME CloseInv, NEW e \in Ends, NEW t, Moves(end[e], t, end[Peer(e)]), Becomes(e, t)
    PROVE  Keeps
  <1> DEFINE sent == {}
  <1>1. end' = [end EXCEPT ![e] = t] /\ net' = net \cup sent
    BY DEF Becomes
  <1>2. \A p \in sent : p.to = Peer(e) /\ Truthful(p, t)
    OBVIOUS
  <1> HIDE DEF sent
  <1> QED BY <1>1, <1>2, StepKeeps

LEMMA EvolvesKeeps ==
    ASSUME CloseInv, NEW e \in Ends, NEW t, Evolves(end[e], t), Becomes(e, t)
    PROVE  Keeps
  BY EndsMeet, EvolvingMoves, BecomesKeeps

-----------------------------------------------------------------------------
(* The steps.                                                              *)

LEMMA ReadStartKeeps ==
    ASSUME CloseInv, NEW e \in Ends, ReadStart(e)
    PROVE  Keeps
  <1> DEFINE r == IF end[e].stopLocalRead \/ end[e].closed THEN "done" ELSE "read"
             t == [end[e] EXCEPT !.reader = r]
  <1>1. Becomes(e, t) /\ end[e].reader # "done" /\ r \in {"loop", "read", "done"}
    BY DEF ReadStart
  <1>2. r = "read" => ~ end[e].closeReadSent
    <2>1. ReaderSound(end[e])
      BY DEF CloseInv, Sound
    <2>2. r = "read" => ~ end[e].stopLocalRead
      OBVIOUS
    <2> HIDE DEF r
    <2> QED BY <2>1, <2>2 DEF ReaderSound
  <1> HIDE DEF r
  <1>3. Moves(end[e], t, end[Peer(e)])
    BY <1>1, <1>2, EndsMeet, ReaderMoves
  <1> QED BY <1>1, <1>3, BecomesKeeps

(* The read returned a chunk or not, and the reader goes to r.             *)
LEMMA ReadMoves ==
    ASSUME NEW s, NEW b, Meets(s, b), s.reader = "read", NEW r \in {"loop", "done"},
           NEW u \in {s, WithChunk(s)}, u # s => s.read < MaxData, NEW t,
           t = [u EXCEPT !.reader = r]
    PROVE  Moves(s, t, b) /\ t.reader = r
  <1>1. CASE u = s
    BY <1>1, ReaderMoves
  <1>2. CASE u # s
    <2>1. u = WithChunk(s) /\ s.read < MaxData
      BY <1>2
    <2> QED BY <2>1, ChunkMoves
  <1> QED BY <1>1, <1>2

LEMMA ReadChunkKeeps ==
    ASSUME CloseInv, NEW e \in Ends, ReadChunk(e)
    PROVE  Keeps
  <1> DEFINE t == [WithChunk(end[e]) EXCEPT !.reader = "loop"]
  <1>1. Becomes(e, t) /\ end[e].reader = "read" /\ end[e].read < MaxData
    BY DEF ReadChunk
  <1>2. Moves(end[e], t, end[Peer(e)])
    BY <1>1, EndsMeet, ReadMoves
  <1> QED BY <1>1, <1>2, BecomesKeeps

LEMMA ReadEOFKeeps ==
    ASSUME CloseInv, NEW e \in Ends, ReadEOF(e)
    PROVE  Keeps
  <1> DEFINE t == [end[e] EXCEPT !.reader = "done"]
  <1>1. Becomes(e, Defer(t, "CLOSE_READ")) /\ end[e].reader = "read"
    BY DEF ReadEOF
  <1>2. Moves(end[e], t, end[Peer(e)]) /\ t.reader = "done"
    BY <1>1, EndsMeet, ReadMoves
  <1> HIDE DEF t
  <1>3. Evolves(t, Defer(t, "CLOSE_READ"))
    BY <1>2, DeferEvolves DEF Moves, Terminal
  <1>4. Moves(end[e], Defer(t, "CLOSE_READ"), end[Peer(e)])
    BY <1>2, <1>3, EndsMeet, MovesThenEvolves DEF Meets
  <1> QED BY <1>1, <1>4, BecomesKeeps

LEMMA ReadErrorKeeps ==
    ASSUME CloseInv, NEW e \in Ends, ReadError(e)
    PROVE  Keeps
  <1>1. PICK class \in {"closed", "other"}, more \in BOOLEAN :
          /\ more => end[e].read < MaxData
          /\ LET s == [IF more THEN WithChunk(end[e]) ELSE end[e] EXCEPT !.reader = "done"]
             IN  Becomes(e, IF class = "closed" /\ isGracefulCloseInProgress(s) THEN s
                            ELSE IF more THEN ResetAfterDrain(s) ELSE Reset(s))
    BY DEF ReadError
  <1> DEFINE u == IF more THEN WithChunk(end[e]) ELSE end[e]
             t == [u EXCEPT !.reader = "done"]
  <1>2. Becomes(e, t) \/ Becomes(e, ResetAfterDrain(t)) \/ Becomes(e, Reset(t))
    BY <1>1
  <1>3. Moves(end[e], t, end[Peer(e)])
    <2>1. /\ u \in {end[e], WithChunk(end[e])} /\ end[e].reader = "read"
          /\ u # end[e] => end[e].read < MaxData
      BY <1>1 DEF ReadError
    <2> HIDE DEF u
    <2> QED BY <2>1, EndsMeet, ReadMoves
  <1> HIDE DEF t
  <1>4. /\ Moves(end[e], ResetAfterDrain(t), end[Peer(e)])
        /\ Moves(end[e], Reset(t), end[Peer(e)])
    <2>1. Evolves(t, ResetAfterDrain(t)) /\ Evolves(t, Reset(t))
      BY <1>3, ResetAfterDrainEvolves, ResetEvolves DEF Moves
    <2> QED BY <1>3, <2>1, EndsMeet, MovesThenEvolves DEF Meets
  <1> QED BY <1>2, <1>3, <1>4, BecomesKeeps

LEMMA WriterTakeKeeps ==
    ASSUME CloseInv, NEW e \in Ends, WriterTake(e)
    PROVE  Keeps
  <1> DEFINE s == end[e]
             w == [s EXCEPT !.writer = "write", !.writing = s.rcvBuf, !.rcvBuf = 0]
             f == [s EXCEPT !.writer = "empty", !.flushSignal = FALSE]
  <1>1. s.writer = "idle" /\ ~ s.closed /\ (Becomes(e, w) \/ Becomes(e, f))
    BY SMTT(30) DEF WriterTake
  <1>2. Moves(s, w, end[Peer(e)]) /\ Moves(s, f, end[Peer(e)])
    BY <1>1, EndsMeet, TakeMoves
  <1> QED BY <1>1, <1>2, BecomesKeeps

LEMMA TryFinalizeMoves ==
    ASSUME NEW s, NEW b, Meets(s, b), NEW t, Moves(s, t, b)
    PROVE  Moves(s, TryFinalizeRemoteEOF(t), b)
  BY TryFinalizeEvolves, MovesThenEvolves DEF Meets, Moves

LEMMA WriterEmptyKeeps ==
    ASSUME CloseInv, NEW e \in Ends, WriterEmpty(e)
    PROVE  Keeps
  <1> DEFINE s == end[e]
             eof == s.closeReadReceived /\ ~ s.localWriteClosed /\ ~ s.closed
             t == [s EXCEPT !.writer = "idle", !.fin = @ \/ eof,
                            !.localWriteClosed = @ \/ eof]
  <1>1. s.writer = "empty" /\ Becomes(e, TryFinalizeRemoteEOF(t))
    BY DEF WriterEmpty
  <1>2. Moves(s, t, end[Peer(e)])
    <2>1. /\ eof \in BOOLEAN
          /\ eof => s.closeReadReceived /\ ~ s.localWriteClosed /\ ~ s.closed
      OBVIOUS
    <2> HIDE DEF eof
    <2> QED BY <1>1, <2>1, EndsMeet, ShowingEndMoves
  <1> HIDE DEF t
  <1> QED BY <1>1, <1>2, EndsMeet, TryFinalizeMoves, BecomesKeeps

LEMMA WriterDoneKeeps ==
    ASSUME CloseInv, NEW e \in Ends, WriterDone(e)
    PROVE  Keeps
  <1> DEFINE s == end[e]
             t == [s EXCEPT !.writer = "idle", !.written = @ + s.writing, !.writing = 0,
                            !.flushSignal = TRUE]
  <1>1. s.writer = "write" /\ ~ s.closed /\ Becomes(e, TryFinalizeRemoteEOF(t))
    BY DEF WriterDone
  <1>2. Moves(s, t, end[Peer(e)])
    BY <1>1, EndsMeet, WrittenMoves
  <1> HIDE DEF t
  <1> QED BY <1>1, <1>2, EndsMeet, TryFinalizeMoves, BecomesKeeps

LEMMA WriterFailKeeps ==
    ASSUME CloseInv, NEW e \in Ends, WriterFail(e)
    PROVE  Keeps
  <1> DEFINE t == [end[e] EXCEPT !.writer = "done", !.writing = 0, !.rcvBuf = 0,
                                 !.localWriterBroken = TRUE, !.writeFailed = TRUE]
  <1>1. Becomes(e, EmitCloseWrite(t))
    BY DEF WriterFail
  <1>2. Moves(end[e], t, end[Peer(e)])
    BY EndsMeet, WriteFailsMoves
  <1> HIDE DEF t
  <1>3. Moves(end[e], EmitCloseWrite(t), end[Peer(e)])
    BY <1>2, EmitCloseWriteEvolves, EndsMeet, MovesThenEvolves DEF Meets, Moves
  <1> QED BY <1>1, <1>3, BecomesKeeps

LEMMA ReceiveDataKeeps ==
    ASSUME CloseInv, NEW p \in net, ReceiveData(p)
    PROVE  Keeps
  <1> DEFINE e == p.to
             s == end[e]
             t == TakeData(s, p.chunk)
             sent == IF s.closed THEN {Pkt(Peer(e), "RST")}
                     ELSE IF Accepts(s) THEN {DataPkt(Peer(e), "DATA_ACK", p.chunk)} ELSE {}
  <1>1. /\ e \in Ends /\ p.chunk \in Nat /\ p.chunk < end[Peer(e)].read
        /\ p.chunk <= s.rcvd
    BY DEF CloseInv, Truthful, ReceiveData
  <1>2. end' = [end EXCEPT ![e] = t] /\ net' = net \cup sent
    BY DEF ReceiveData
  <1>3. Moves(s, t, end[Peer(e)])
    BY <1>1, EndsMeet, TakeDataMoves
  <1>4. Accepts(s) => p.chunk < t.rcvd
    <2>1. s \in EndShape
      BY <1>1 DEF CloseInv
    <2>2. s.rcvd \in Nat
      BY <2>1 DEF EndShape
    <2>3. CASE Accepts(s) /\ p.chunk = s.rcvd
      <3>1. t = [s EXCEPT !.rcvd = @ + 1, !.rcvBuf = @ + 1, !.flushSignal = TRUE]
        BY <2>3 DEF TakeData, Accepts
      <3>2. t.rcvd = s.rcvd + 1
        BY <2>1, <3>1 DEF EndShape
      <3> QED BY <1>1, <2>2, <2>3, <3>2
    <2>4. CASE Accepts(s) /\ p.chunk # s.rcvd
      <3>1. t = [s EXCEPT !.flushSignal = TRUE]
        BY <2>4 DEF TakeData, Accepts
      <3>2. t.rcvd = s.rcvd
        BY <2>1, <3>1 DEF EndShape
      <3> QED BY <1>1, <2>2, <2>4, <3>2
    <2> QED BY <2>3, <2>4
  <1>5. \A q \in sent : q.to = Peer(e) /\ Truthful(q, t)
    BY <1>1, <1>4 DEF Pkt, DataPkt, Truthful
  <1> HIDE DEF t, sent
  <1> QED BY <1>1, <1>2, <1>3, <1>5, StepKeeps

LEMMA ReceiveAckKeeps ==
    ASSUME CloseInv, NEW p \in net, ReceiveAck(p)
    PROVE  Keeps
  <1>1. p.to \in Ends /\ p.chunk < end[Peer(p.to)].rcvd
    BY DEF CloseInv, Truthful, ReceiveAck
  <1>2. Moves(end[p.to], ReceiveDataAck(end[p.to], p.chunk), end[Peer(p.to)])
    BY <1>1, EndsMeet, ReceiveDataAckMoves
  <1> QED BY <1>1, <1>2, BecomesKeeps DEF ReceiveAck

LEMMA ReceiveTerminalKeeps ==
    ASSUME CloseInv, NEW p \in net, ReceiveTerminal(p)
    PROVE  Keeps
  <1> DEFINE e == p.to
             s == end[e]
             b == end[Peer(e)]
             t == CASE s.closed -> s
                    [] OTHER -> CASE p.kind = "CLOSE_READ"  -> MarkCloseReadReceived(s)
                                  [] p.kind = "CLOSE_WRITE" -> MarkCloseWriteReceived(s)
                                  [] p.kind = "RST"         -> PeerReset(s)
             sent == {Pkt(Peer(e), AckOf[p.kind])}
  <1>1. /\ e \in Ends /\ p.kind \in Terminal
        /\ p.kind = "CLOSE_READ" => b.closeReadSent
        /\ p.kind = "CLOSE_WRITE" => b.closeWriteSent
    BY DEF CloseInv, Truthful, ReceiveTerminal
  <1>2. end' = [end EXCEPT ![e] = t] /\ net' = net \cup sent
    BY DEF ReceiveTerminal
  <1>3. Meets(s, b)
    BY <1>1, EndsMeet
  <1>4. Moves(s, t, b)
    <2>1. Moves(s, PeerReset(s), b)
      BY <1>3, PeerResetEvolves, EvolvingMoves DEF Meets
    <2>2. \/ t = s
          \/ t = MarkCloseReadReceived(s) /\ b.closeReadSent
          \/ t = MarkCloseWriteReceived(s) /\ b.closeWriteSent
          \/ t = PeerReset(s)
      BY <1>1 DEF Terminal
    <2> HIDE DEF t, s, b
    <2> QED BY <1>3, <2>1, <2>2, StaysInPlace, MarkCloseReadReceivedMoves,
               MarkCloseWriteReceivedMoves
  <1>5. \A q \in sent : q.to = Peer(e) /\ Truthful(q, t)
    BY <1>1 DEF Pkt, Truthful, AckOf, Terminal
  <1> HIDE DEF t, sent
  <1> QED BY <1>1, <1>2, <1>4, <1>5, StepKeeps

LEMMA ReceiveTerminalAckKeeps ==
    ASSUME CloseInv, NEW p \in net, ReceiveTerminalAck(p)
    PROVE  Keeps
  <1>1. p.to \in Ends /\ end[p.to] \in EndShape /\ Sound(end[p.to])
    BY DEF CloseInv
  <1>2. PICK k \in Terminal : Becomes(p.to, ReceiveControlAck(end[p.to], k))
    BY DEF ReceiveTerminalAck
  <1> QED BY <1>1, <1>2, ReceiveControlAckEvolves, EvolvesKeeps

LEMMA TransmitKeeps ==
    ASSUME CloseInv, NEW e \in Ends,
           \/ \E k \in Terminal : Transmit(e, k)
           \/ \E c \in 0 .. MaxData - 1 : TransmitData(e, c)
    PROVE  Keeps
  <1>1. end[e] \in EndShape /\ Sound(end[e]) /\ Moves(end[e], end[e], end[Peer(e)])
    BY EndsMeet, StaysInPlace DEF CloseInv
  <1>2. end' = [end EXCEPT ![e] = end[e]]
    BY DEF CloseInv, Transmit, TransmitData
  <1>3. PICK q : /\ net' = net \cup {q} /\ q.to = Peer(e) /\ Truthful(q, end[e])
    <2>1. CASE \E k \in Terminal : Transmit(e, k)
      <3>1. PICK k \in Terminal : Transmit(e, k)
        BY <2>1
      <3>2. Truthful(Pkt(Peer(e), k), end[e]) /\ Pkt(Peer(e), k).to = Peer(e)
        BY <1>1, <3>1 DEF Transmit, Truthful, Pkt, Terminal, Sound, ControlSound
      <3> QED BY <3>1, <3>2 DEF Transmit
    <2>2. CASE \E c \in 0 .. MaxData - 1 : TransmitData(e, c)
      <3>1. PICK c \in 0 .. MaxData - 1 : TransmitData(e, c)
        BY <2>2
      <3>2. /\ Truthful(DataPkt(Peer(e), "DATA", c), end[e])
            /\ DataPkt(Peer(e), "DATA", c).to = Peer(e)
        BY <1>1, <3>1 DEF TransmitData, Truthful, DataPkt, Sound, ReaderSound
      <3> QED BY <3>1, <3>2 DEF TransmitData
    <2> QED BY <2>1, <2>2
  <1> DEFINE sent == {q}
  <1>4. net' = net \cup sent /\ \A r \in sent : r.to = Peer(e) /\ Truthful(r, end[e])
    BY <1>3
  <1> HIDE DEF sent
  <1> QED BY <1>1, <1>2, <1>4, StepKeeps

LEMMA TimersKeep ==
    ASSUME CloseInv, NEW e \in Ends,
           \/ DrainTimeout(e) \/ AckWaitTimeout(e) \/ CloseWriteAfterEOF(e)
           \/ InactivityTimeout(e) \/ ControlExpired(e)
    PROVE  Keeps
  <1> DEFINE s == end[e]
             d == [s EXCEPT !.deferredPacket = "none"]
             f(k) == [s EXCEPT !.controlSndBuf = @ \ {k}]
  <1>1. s \in EndShape /\ Sound(s)
    BY DEF CloseInv
  <1>2. Evolves(s, Reset(s)) /\ Evolves(s, EmitCloseWrite(s))
    BY <1>1, ResetEvolves, EmitCloseWriteEvolves
  <1>3. s.rstSent => Evolves(s, FinalizeClose(s))
    BY <1>1, FinalizeCloseEvolves DEF Resetting
  <1>4. CASE DrainTimeout(e)
    <2>1. Becomes(e, Reset(d))
      BY <1>4 DEF DrainTimeout
    <2>2. Evolves(s, d)
      BY <1>1, NoLongerEvolves
    <2> HIDE DEF s, d
    <2>3. Evolves(s, Reset(d))
      BY <2>2, ResetEvolves, EvolvesTwice DEF Evolves
    <2> QED BY <2>1, <2>3, EvolvesKeeps DEF s
  <1>5. CASE AckWaitTimeout(e)
    <2>1. s.waitingAckFor = "RST" => s.rstSent
      BY <1>1 DEF Sound, ControlSound
    <2>2. \/ Becomes(e, Reset(s))
          \/ s.waitingAckFor = "RST" /\ Becomes(e, FinalizeClose(s))
      BY <1>5 DEF AckWaitTimeout
    <2> QED BY <1>2, <1>3, <2>1, <2>2, EvolvesKeeps
  <1>6. CASE CloseWriteAfterEOF(e) \/ InactivityTimeout(e)
    BY <1>2, <1>6, EvolvesKeeps DEF CloseWriteAfterEOF, InactivityTimeout
  <1>7. CASE ControlExpired(e)
    <2>1. PICK k \in s.controlSndBuf :
            Becomes(e, IF k = "RST" THEN FinalizeClose(f(k)) ELSE Reset(f(k)))
      BY <1>7 DEF ControlExpired
    <2>2. Evolves(s, f(k)) /\ (s.rstSent => Resetting(f(k)))
      BY <1>1, ForgettingEvolves
    <2>3. k = "RST" => s.rstSent
      BY <1>1 DEF Sound, ControlSound
    <2> HIDE DEF s, f
    <2>4. k = "RST" => Evolves(s, FinalizeClose(f(k)))
      BY <2>2, <2>3, FinalizeCloseEvolves, EvolvesTwice DEF Evolves
    <2>5. Evolves(s, Reset(f(k)))
      BY <2>2, ResetEvolves, EvolvesTwice DEF Evolves
    <2> QED BY <2>1, <2>4, <2>5, EvolvesKeeps DEF s
  <1> QED BY <1>4, <1>5, <1>6, <1>7

LEMMA NextKeeps == CloseInv /\ [Next]_vars => Keeps
  <1> SUFFICES ASSUME CloseInv, [Next]_vars PROVE Keeps
    OBVIOUS
  <1>1. ASSUME NEW e \in Ends, Local(e) PROVE Keeps
    BY <1>1, ReadStartKeeps, ReadChunkKeeps, ReadEOFKeeps, ReadErrorKeeps, WriterTakeKeeps,
       WriterEmptyKeeps, WriterDoneKeeps, WriterFailKeeps, TransmitKeeps, TimersKeep
    DEF Local
  <1>2. ASSUME NEW p \in net, Arrive(p) PROVE Keeps
    BY <1>2, ReceiveDataKeeps, ReceiveAckKeeps, ReceiveTerminalKeeps, ReceiveTerminalAckKeeps
    DEF Arrive
  <1>3. CASE UNCHANGED vars
    BY <1>3 DEF vars, CloseInv, Keeps
  <1> QED BY <1>1, <1>2, <1>3 DEF Next

LEMMA FreshIsSound ==
    ASSUME NEW c \in BOOLEAN
    PROVE  Fresh(c) \in EndShape /\ Sound(Fresh(c))
  BY DEF Fresh, EndShape, Terminal, Sound, ReaderSound, WriterSound, ControlSound,
         ClosedSound, Resetting

LEMMA CloseStarts == Init => CloseInv
  <1> SUFFICES ASSUME Init PROVE CloseInv
    OBVIOUS
  <1>1. \A e \in Ends : \E c \in BOOLEAN : end[e] = Fresh(c)
    BY DEF Init
  <1>2. \A c, d \in BOOLEAN : Link(Fresh(c), Fresh(d))
    BY DEF Fresh, Link, Ended, Resetting
  <1>3. \A e \in Ends : end[e] \in EndShape /\ Sound(end[e]) /\ end[e].read <= MaxData
    <2>1. \A c : Fresh(c).read <= MaxData
      BY CloseAssumption DEF Fresh
    <2> QED BY <1>1, <2>1, FreshIsSound
  <1>4. \A e \in Ends : Link(end[e], end[Peer(e)])
    BY <1>1, <1>2, PeerOfPeer
  <1>5. end \in [Ends -> EndShape] /\ net = {}
    BY <1>3 DEF Init
  <1> QED BY <1>3, <1>4, <1>5 DEF CloseInv

-----------------------------------------------------------------------------
(* The theorems.                                                           *)

LEMMA CloseInvHolds == Spec => []CloseInv
  <1>1. CloseInv /\ [Next]_vars => CloseInv'
    BY NextKeeps DEF Keeps
  <1> QED BY <1>1, CloseStarts, PTL DEF Spec

(* From its CLOSE_READ on, nothing that an end read is unacknowledged, but *)
(* for the one chunk that a Read may bring which an end with a broken      *)
(* writer left running (settleTerminalDrain, emitTerminalPacketWithTTL).   *)
THEOREM LastWordIsLast == Spec => []CloseReadIsLast
  <1>1. CloseInv => CloseReadIsLast
    <2>1. \A e \in Ends : CloseInv => ReaderSound(end[e])
      BY DEF CloseInv, Sound
    <2> QED BY <2>1 DEF ReaderSound, CloseReadIsLast
  <1> QED BY <1>1, CloseInvHolds, PTL

(* When writeLoop half closes the local connection, every chunk the other  *)
(* end read has arrived and that end reads no more; of an end whose writer *)
(* broke, the chunk of one last Read may be missing. Unless the stream is  *)
(* being reset, all that arrived is written but for what is still in the   *)
(* reorder buffer: chunks that came between the writer's two looks at the  *)
(* ARQ and that the half close gives up.                                   *)
THEOREM EndAfterLastChunk == Spec => FinAfterLastChunk
  <1> DEFINE Shown(e) ==
        LET s    == end[e]
            peer == end[Peer(e)] IN
        ~ s.fin /\ end'[e].fin =>
            /\ \/ s.rcvd = peer.read /\ peer.reader = "done"
               \/ peer.localWriterBroken /\ peer.read <= s.rcvd + 1
            /\ Resetting(s) \/ s.written + s.rcvBuf = s.rcvd
  <1>1. ASSUME CloseInv, [Next]_vars, NEW e \in Ends PROVE Shown(e)
    <2> DEFINE s == end[e]
               peer == end[Peer(e)]
    <2>1. SUFFICES ASSUME ~ s.fin, end'[e].fin
                   PROVE  /\ \/ s.rcvd = peer.read /\ peer.reader = "done"
                             \/ peer.localWriterBroken /\ peer.read <= s.rcvd + 1
                          /\ Resetting(s) \/ s.written + s.rcvBuf = s.rcvd
      OBVIOUS
    <2>2. Shows(s)
      BY <1>1, <2>1, NextKeeps DEF Keeps
    <2>3. Meets(s, peer)
      BY <1>1, EndsMeet
    <2>4. s.rcvd \in Nat /\ peer.read \in Nat /\ s.written \in Nat /\ s.rcvBuf \in Nat
      BY <2>3 DEF Meets, EndShape
    <2> HIDE DEF s, peer
    <2>5. peer.closeReadSent /\ ~ Refuses(s)
      BY <2>2, <2>3 DEF Meets, Link, Shows, Refuses
    <2>6. s.rcvd = peer.read \/ (peer.localWriterBroken /\ peer.read = s.rcvd + 1)
      BY <2>3, <2>5 DEF Meets, Link
    <2>7. peer.localWriterBroken \/ peer.reader = "done"
      BY <2>3, <2>5 DEF Meets, Sound, ReaderSound
    <2>8. Resetting(s) \/ s.written + s.rcvBuf = s.rcvd
      BY <2>2, <2>3, <2>4 DEF Meets, Sound, WriterSound, Shows
    <2> QED BY <2>4, <2>6, <2>7, <2>8
  <1>2. CloseInv /\ [Next]_vars => [\A e \in Ends : Shown(e)]_vars
    BY <1>1
  <1> QED BY <1>2, CloseInvHolds, PTL DEF Spec, FinAfterLastChunk

(* An end that closes without a reset and whose stream broke nowhere has   *)
(* given its application all that the other end read                       *)
(* (tryFinalizeRemoteEOF).                                                 *)
THEOREM NothingIsLost == Spec => []CleanCloseDeliversAll
  <1>1. CloseInv => CleanCloseDeliversAll
    <2> SUFFICES ASSUME CloseInv, NEW e \in Ends, end[e].closed, ~ Resetting(end[e]),
                        ~ end[e].localWriterBroken, ~ end[Peer(e)].localWriterBroken
                 PROVE  end[e].written = end[Peer(e)].read
      BY DEF CleanCloseDeliversAll
    <2>1. Link(end[Peer(e)], end[e]) /\ Sound(end[e])
      BY PeerOfPeer DEF CloseInv
    <2>2. end[e].closeReadReceived /\ end[e].written = end[e].rcvd
      BY <2>1 DEF Sound, ClosedSound
    <2>3. ~ Refuses(end[e])
      BY <2>1 DEF Sound, WriterSound, Refuses
    <2> QED BY <2>1, <2>2, <2>3 DEF Link
  <1> QED BY <1>1, CloseInvHolds, PTL

-----------------------------------------------------------------------------
(* The packets that were sent, and the types.                              *)

PacketShape == [to : Ends, kind : Terminal \cup Acks, chunk : {0}]
                 \cup [to : Ends, kind : {"DATA", "DATA_ACK"}, chunk : Nat]

PacketsShaped == net \subseteq PacketShape /\ faults \in FaultSets

LEMMA PacketsKeepShape == CloseInv /\ PacketsShaped /\ [Next]_vars => PacketsShaped'
  <1> SUFFICES ASSUME CloseInv, PacketsShaped, [Next]_vars PROVE PacketsShaped'
    OBVIOUS
  <1>1. \A e \in Ends, k \in Terminal \cup Acks : Pkt(e, k) \in PacketShape
    BY DEF Pkt, PacketShape
  <1>2. \A e \in Ends, k \in {"DATA", "DATA_ACK"}, c \in Nat : DataPkt(e, k, c) \in PacketShape
    BY DEF DataPkt, PacketShape
  <1>3. \A k \in Terminal : AckOf[k] \in Terminal \cup Acks
    BY DEF Acks
  <1>4. "RST" \in Terminal
    BY DEF Terminal
  <1>5. ASSUME NEW e \in Ends, Local(e) PROVE PacketsShaped'
    <2>1. CASE \E k \in Terminal : Transmit(e, k)
      BY <1>1, <2>1, PeerOfPeer DEF Transmit, PacketsShaped
    <2>2. CASE \E c \in 0 .. MaxData - 1 : TransmitData(e, c)
      <3>1. PICK c \in 0 .. MaxData - 1 : TransmitData(e, c)
        BY <2>2
      <3>2. c \in Nat /\ Peer(e) \in Ends
        BY CloseAssumption, PeerOfPeer
      <3> QED BY <1>2, <3>1, <3>2 DEF TransmitData, PacketsShaped
    <2>3. CASE ~ \E k \in Terminal : Transmit(e, k)
      <3>1. CASE ~ \E c \in 0 .. MaxData - 1 : TransmitData(e, c)
        BY <1>5, <2>3, <3>1
        DEF Local, ReadStart, ReadChunk, ReadEOF, ReadError, WriterTake, WriterEmpty,
            WriterDone, WriterFail, DrainTimeout, AckWaitTimeout, CloseWriteAfterEOF,
            InactivityTimeout, ControlExpired, Becomes, PacketsShaped
      <3> QED BY <2>2, <3>1
    <2> QED BY <2>1, <2>3
  <1>6. ASSUME NEW p \in net, Arrive(p) PROVE PacketsShaped'
    <2>1. p.to \in Ends /\ Peer(p.to) \in Ends /\ p.chunk \in Nat
      BY PeerOfPeer DEF CloseInv, Truthful
    <2>2. CASE ReceiveData(p)
      BY <1>1, <1>2, <1>4, <2>1, <2>2 DEF ReceiveData, PacketsShaped
    <2>3. CASE ReceiveTerminal(p)
      BY <1>1, <1>3, <2>1, <2>3 DEF ReceiveTerminal, PacketsShaped
    <2>4. CASE ReceiveAck(p) \/ ReceiveTerminalAck(p)
      BY <2>4 DEF ReceiveAck, ReceiveTerminalAck, Becomes, PacketsShaped
    <2> QED BY <1>6, <2>2, <2>3, <2>4 DEF Arrive
  <1>7. CASE UNCHANGED vars
    BY <1>7 DEF vars, PacketsShaped
  <1> QED BY <1>5, <1>6, <1>7 DEF Next

LEMMA SentIsPacket ==
    ASSUME CloseInv, NEW p \in net, p \in PacketShape
    PROVE  p \in Packet
  <1>1. CASE p \in [to : Ends, kind : Terminal \cup Acks, chunk : {0}]
    BY <1>1 DEF Packet
  <1>2. CASE p \in [to : Ends, kind : {"DATA", "DATA_ACK"}, chunk : Nat]
    <2>1. p.to \in Ends /\ Truthful(p, end[Peer(p.to)]) /\ Peer(p.to) \in Ends
      BY PeerOfPeer DEF CloseInv
    <2>2. /\ end[Peer(p.to)].rcvd <= end[p.to].read
          /\ end[Peer(p.to)].read <= MaxData /\ end[p.to].read <= MaxData
          /\ end[Peer(p.to)].rcvd \in Nat /\ end[p.to].read \in Nat
          /\ end[Peer(p.to)].read \in Nat
      BY <2>1, PeerOfPeer DEF CloseInv, Link, EndShape
    <2>3. p.chunk \in 0 .. MaxData
      BY <1>2, <2>1, <2>2, CloseAssumption DEF Truthful
    <2> QED BY <1>2, <2>3 DEF Packet
  <1> QED BY <1>1, <1>2 DEF PacketShape

(* The types of both ends and of every packet: no count of chunks leaves   *)
(* 0 .. MaxData and no flag its range (arq.go: rcvBuf, sndBuf, writeLoop), *)
(* whatever closes, resets and failed writes come between.                 *)
THEOREM CloseTypes == Spec => []TypeOK
  <1>1. Init => PacketsShaped
    BY DEF Init, PacketsShaped
  <1>2. CloseInv /\ PacketsShaped => TypeOK
    <2> SUFFICES ASSUME CloseInv, PacketsShaped PROVE TypeOK
      OBVIOUS
    <2>1. ASSUME NEW e \in Ends PROVE end[e] \in EndState
      <3> DEFINE s == end[e]
      <3>1. /\ s \in EndShape /\ Sound(s) /\ s.read <= MaxData /\ Peer(e) \in Ends
            /\ s.rcvd <= end[Peer(e)].read /\ end[Peer(e)].read <= MaxData
        BY PeerOfPeer DEF CloseInv, Link
      <3>2. /\ s.read \in Nat /\ s.rcvd \in Nat /\ s.rcvBuf \in Nat /\ s.writing \in Nat
            /\ s.written \in Nat /\ end[Peer(e)].read \in Nat /\ MaxData \in Nat
            /\ s.sndBuf \subseteq Nat
        BY <3>1, CloseAssumption DEF CloseInv, EndShape
      <3>3. s.written + s.writing + s.rcvBuf <= s.rcvd
        BY <3>1 DEF Sound, WriterSound
      <3>4. /\ s.read \in 0 .. MaxData /\ s.rcvd \in 0 .. MaxData /\ s.rcvBuf \in 0 .. MaxData
            /\ s.writing \in 0 .. MaxData /\ s.written \in 0 .. MaxData
        BY <3>1, <3>2, <3>3
      <3>5. s.sndBuf \in SUBSET (0 .. MaxData - 1)
        <4>1. \A c \in s.sndBuf : c \in Nat /\ c < s.read
          BY <3>1, <3>2 DEF Sound, ReaderSound
        <4>2. \A c \in s.sndBuf : c \in 0 .. MaxData - 1
          BY <3>1, <3>2, <4>1
        <4> QED BY <4>2
      <3> QED BY ZenonT(60), <3>1, <3>4, <3>5 DEF EndShape, EndState
    <2>2. net \subseteq Packet
      BY SentIsPacket DEF PacketsShaped
    <2> QED BY <2>1, <2>2 DEF TypeOK, CloseInv, PacketsShaped
  <1> QED BY <1>1, <1>2, CloseInvHolds, PacketsKeepShape, PTL DEF Spec
=============================================================================
