---------------------------- MODULE ARQDataProofs ----------------------------
(***************************************************************************)
(* ARQData for every window, limit and sequence space that satisfy         *)
(* ParamAssumption, and any number of chunks: type correctness, in-order   *)
(* exactly-once delivery, release only of held chunks, the bound on how    *)
(* far the sender runs ahead, and the refinement of ReliableStream.        *)
(***************************************************************************)
EXTENDS ARQData, FiniteSetTheorems, SequenceTheorems, TLAPS

-----------------------------------------------------------------------------
(* Arithmetic of sequence numbers that wrap: what uint16 subtraction and   *)
(* equality say of two positions in a stream, for every modulus M.  The    *)
(* lemmas behind the half-range test of processReceivedDataBatch.          *)

\* Division with remainder.
LEMMA DivMod ==
    ASSUME NEW a \in Int, NEW M \in Nat \ {0}
    PROVE  /\ a % M \in 0 .. M - 1
           /\ \E q \in Int : a = M * q + (a % M)
<1>1. /\ a \div M \in Int /\ a % M \in 0 .. M - 1
      /\ a = M * (a \div M) + (a % M)
  OBVIOUS
<1>2. \E q \in Int : a = M * q + (a % M)
  <2> WITNESS a \div M \in Int
  <2> QED BY <1>1
<1> QED BY <1>1, <1>2

\* A multiple of M strictly between -M and M is zero.
LEMMA MultBetween ==
    ASSUME NEW M \in Nat \ {0}, NEW k \in Int, 0 - M < M * k, M * k < M
    PROVE  k = 0
<1>1. CASE k >= 1 BY <1>1
<1>2. CASE k <= -1 BY <1>2
<1> QED BY <1>1, <1>2

\* Two positions less than M apart have different sequence numbers.
LEMMA ModUnique ==
    ASSUME NEW a \in Int, NEW b \in Int, NEW M \in Nat \ {0},
           a % M = b % M, a - b < M, b - a < M
    PROVE  a = b
<1>1. PICK p \in Int : a = M * p + (a % M) BY DivMod
<1>2. PICK q \in Int : b = M * q + (b % M) BY DivMod
<1>3. a % M \in Int BY DivMod
<1>4. a - b = M * (p - q) /\ p - q \in Int BY <1>1, <1>2, <1>3
<1>5. p - q = 0 BY <1>4, MultBetween
<1> QED BY <1>4, <1>5

\* The remainder is the only representative in 0 .. M - 1.
LEMMA ModRange ==
    ASSUME NEW a \in Int, NEW k \in Int, NEW r \in Int, NEW M \in Nat \ {0},
           a = M * k + r, 0 <= r, r < M
    PROVE  a % M = r
<1>1. PICK q \in Int : a = M * q + (a % M) BY DivMod
<1>2. a % M \in 0 .. M - 1 BY DivMod
<1> DEFINE s == a % M
<1>3. s \in Int /\ 0 <= s /\ s < M /\ a = M * q + s BY <1>1, <1>2
<1> HIDE DEF s
<1>4. r - s = M * (q - k) /\ q - k \in Int BY <1>3
<1>5. q - k = 0 BY <1>3, <1>4, MultBetween
<1>6. r = s BY <1>3, <1>4, <1>5
<1> QED BY <1>6 DEF s

\* The wrapped distance to a position at or ahead of b is the true distance.
LEMMA DiffAhead ==
    ASSUME NEW a \in Int, NEW b \in Int, NEW M \in Nat \ {0}, b <= a, a - b < M
    PROVE  ((a % M) - (b % M)) % M = a - b
<1> DEFINE r == a % M
           s == b % M
<1>1. PICK p \in Int : a = M * p + r BY DivMod
<1>2. PICK q \in Int : b = M * q + s BY DivMod
<1>3. r \in Int /\ s \in Int BY DivMod
<1> HIDE DEF r, s
<1>4. r - s = M * (q - p) + (a - b) BY <1>1, <1>2, <1>3
<1>5. /\ q - p \in Int /\ a - b \in Int /\ r - s \in Int
      /\ 0 <= a - b /\ a - b < M
  BY <1>3
<1>6. \A x, k, y \in Int : x = M * k + y /\ 0 <= y /\ y < M => x % M = y
  BY ModRange
<1>7. (r - s) % M = a - b BY <1>4, <1>5, <1>6, Zenon
<1> QED BY <1>7 DEF r, s

\* The wrapped distance to a position behind b is M minus how far behind.
LEMMA DiffBehind ==
    ASSUME NEW a \in Int, NEW b \in Int, NEW M \in Nat \ {0}, a < b, b - a < M
    PROVE  ((a % M) - (b % M)) % M = M - (b - a)
<1> DEFINE r == a % M
           s == b % M
<1>1. PICK p \in Int : a = M * p + r BY DivMod
<1>2. PICK q \in Int : b = M * q + s BY DivMod
<1>3. r \in Int /\ s \in Int BY DivMod
<1> HIDE DEF r, s
<1>4. r - s = M * (q - p - 1) + (M - (b - a)) BY <1>1, <1>2, <1>3
<1>5. /\ q - p - 1 \in Int /\ M - (b - a) \in Int /\ r - s \in Int
      /\ 0 <= M - (b - a) /\ M - (b - a) < M
  BY <1>3
<1>6. \A x, k, y \in Int : x = M * k + y /\ 0 <= y /\ y < M => x % M = y
  BY ModRange
<1>7. (r - s) % M = M - (b - a) BY <1>4, <1>5, <1>6, Zenon
<1> QED BY <1>7 DEF r, s

-----------------------------------------------------------------------------
(* The inductive invariant.                                                *)

Held(i) == i < rcvN \/ (Buffered(Sn(i)) /\ rcvBuf[Sn(i)] = i)
InSndBuf(i) == Tracked(Sn(i)) /\ sndBuf[Sn(i)].chunk = i

\* Every copy names a chunk that was sent, at most half a sequence space ago.
Fresh(c) == c < sent /\ sent - c <= Half

CopiesFresh ==
    /\ \A s \in DOMAIN sndBuf : Fresh(sndBuf[s].chunk)
    /\ \A p \in txq : Fresh(p.chunk)
    /\ \A p \in rtxJobs : Fresh(p.chunk)
    /\ \A p \in back : p.kind = "ACK" => Fresh(p.chunk)
    /\ inHand # None => Fresh(inHand)
    /\ rtxPushed # None => Fresh(rtxPushed)
    /\ \A c \in net : Fresh(c)
    /\ \A k \in 1 .. Len(rxChan) : Fresh(rxChan[k])

\* Both buffers are keyed by the sequence number of the chunk they hold, and
\* the receive buffer lies in the window.
SndKeyed == \A s \in DOMAIN sndBuf : Sn(sndBuf[s].chunk) = s

RcvKeyed ==
    \A s \in DOMAIN rcvBuf :
        /\ Sn(rcvBuf[s]) = s
        /\ rcvN <= rcvBuf[s] /\ rcvBuf[s] <= rcvN + Window /\ rcvBuf[s] < sent

AcksHeld == \A p \in back : p.kind = "ACK" => Held(p.chunk)

Released == \A i \in 0 .. sent - 1 : InSndBuf(i) \/ Held(i)

SndBufBounded ==
    IsFiniteSet(DOMAIN sndBuf) /\ Cardinality(DOMAIN sndBuf) <= Limit

IInv ==
    /\ TypeOK
    /\ InOrderExactlyOnce
    /\ CopiesFresh
    /\ SndKeyed /\ RcvKeyed
    /\ AcksHeld
    /\ Released
    /\ SndBufBounded
    /\ SpreadBounded

-----------------------------------------------------------------------------
(* Sequence numbers of chunks. *)

\* A chunk's sequence number is one, and Half bounds the windows.
LEMMA SnType ==
    /\ SeqMod \in Nat \ {0}
    /\ \A i \in Int : Sn(i) \in SeqNum
<1>1. SeqMod \in Nat \ {0} BY ParamAssumption DEF SeqMod
<1>2. ASSUME NEW i \in Int PROVE Sn(i) \in SeqNum
  BY <1>1, DivMod DEF Sn, SeqNum
<1> QED BY <1>1, <1>2

\* Chunks less than a sequence space apart have different sequence numbers.
LEMMA SnUnique ==
    ASSUME NEW i \in Int, NEW j \in Int, Sn(i) = Sn(j),
           i - j < SeqMod, j - i < SeqMod
    PROVE  i = j
BY SnType, ModUnique DEF Sn

\* The wrapped distance between two chunks, ahead and behind.
LEMMA SnAhead ==
    ASSUME NEW i \in Int, NEW j \in Int, j <= i, i - j < SeqMod
    PROVE  (Sn(i) - Sn(j)) % SeqMod = i - j
BY SnType, DiffAhead DEF Sn

\* The wrapped distance seen from a chunk that lies ahead.
LEMMA SnBehind ==
    ASSUME NEW i \in Int, NEW j \in Int, i < j, j - i < SeqMod
    PROVE  (Sn(i) - Sn(j)) % SeqMod = SeqMod - (j - i)
BY SnType, DiffBehind DEF Sn

\* The half-range test tells consumed chunks from those still to come, and
\* Diff is the true distance of the latter.
LEMMA DiffOfCopy ==
    ASSUME IInv, NEW c \in Chunks, Fresh(c)
    PROVE  /\ c < rcvN => Diff(Sn(c)) >= Half
           /\ c >= rcvN => Diff(Sn(c)) = c - rcvN /\ Diff(Sn(c)) < Half
<1>1. rcvN \in Nat /\ c \in Nat /\ sent \in Nat
  BY ParamAssumption DEF IInv, TypeOK, rcvN, Chunks
<1>2. SeqMod = 2 * Half /\ Half \in Nat \ {0}
  BY ParamAssumption DEF SeqMod
<1>3. Diff(Sn(c)) = (Sn(c) - Sn(rcvN)) % SeqMod
  BY DEF Diff, rcvNxt
<1>4. CASE c < rcvN
  <2>1. rcvN - c <= Half
    BY <1>1, <1>2 DEF IInv, InOrderExactlyOnce, Fresh
  <2>2. Diff(Sn(c)) = SeqMod - (rcvN - c)
    BY <1>1, <1>2, <1>3, <1>4, <2>1, SnBehind
  <2> QED BY <1>1, <1>2, <1>4, <2>1, <2>2
<1>5. CASE c >= rcvN
  <2>1. c - rcvN < Half
    BY <1>1, <1>2, ParamAssumption DEF IInv, SpreadBounded, Fresh
  <2>2. Diff(Sn(c)) = c - rcvN
    BY <1>1, <1>2, <1>3, <1>5, <2>1, SnAhead
  <2> QED BY <1>1, <1>2, <1>5, <2>1, <2>2
<1> QED BY <1>1, <1>4, <1>5

\* What the receive buffer holds under a fresh chunk's number is that chunk.
LEMMA BufferedIsSame ==
    ASSUME IInv, NEW i \in Nat, rcvN <= i, i - rcvN < SeqMod, Buffered(Sn(i))
    PROVE  rcvBuf[Sn(i)] = i
<1>1. /\ rcvBuf[Sn(i)] \in Nat /\ Sn(rcvBuf[Sn(i)]) = Sn(i)
      /\ rcvN <= rcvBuf[Sn(i)] /\ rcvBuf[Sn(i)] <= rcvN + Window
      /\ rcvN \in Nat
  BY ParamAssumption DEF IInv, TypeOK, RcvKeyed, Buffered, Chunks, rcvN
<1>2. Window < SeqMod /\ SeqMod \in Nat /\ Window \in Nat
  BY ParamAssumption DEF SeqMod
<1> HIDE DEF IInv
<1> QED BY <1>1, <1>2, SnUnique

\* An acknowledgement releases the chunk it was sent for and no other.
LEMMA AckedIsSame ==
    ASSUME IInv, NEW p \in back, p.kind = "ACK", Tracked(Sn(p.chunk))
    PROVE  sndBuf[Sn(p.chunk)].chunk = p.chunk
<1> DEFINE i == sndBuf[Sn(p.chunk)].chunk
<1>1. p.chunk \in Int /\ i \in Int /\ Half \in Nat \ {0} /\ sent \in Int
  BY ParamAssumption DEF IInv, TypeOK, BackPacket, SndItem, Tracked, Chunks
<1>2. Fresh(p.chunk) /\ Fresh(i) /\ Sn(i) = Sn(p.chunk)
  BY DEF IInv, CopiesFresh, SndKeyed, Tracked
<1> HIDE DEF i
<1>3. i - p.chunk < SeqMod /\ p.chunk - i < SeqMod
  BY <1>1, <1>2 DEF Fresh, SeqMod
<1>4. i = p.chunk BY <1>1, <1>2, <1>3, SnUnique
<1> QED BY <1>4 DEF i

-----------------------------------------------------------------------------
(* The initial state and one lemma per action. *)

\* The empty buffers and channels of NewARQ satisfy the invariant.
LEMMA InitInv == Init => IInv
<1> SUFFICES ASSUME Init PROVE IInv
  OBVIOUS
<1>1. TypeOK
  BY ParamAssumption DEF Init, TypeOK, None
<1>2. rcvN = 0 /\ DOMAIN sndBuf = {} /\ DOMAIN rcvBuf = {}
  BY DEF Init, rcvN
<1>3. InOrderExactlyOnce /\ CopiesFresh /\ SndKeyed /\ RcvKeyed
  BY <1>2 DEF Init, InOrderExactlyOnce, CopiesFresh, SndKeyed, RcvKeyed
<1>4. AcksHeld /\ Released
  BY <1>2 DEF Init, AcksHeld, Released
<1>5. SndBufBounded
  BY <1>2, FS_EmptySet, ParamAssumption DEF SndBufBounded
<1>6. SpreadBounded
  BY <1>2, ParamAssumption DEF Init, SpreadBounded
<1> QED BY <1>1, <1>3, <1>4, <1>5, <1>6 DEF IInv

\* Pushing adds at most the chunk pushed.
LEMMA PushedIsOld ==
    ASSUME TypeOK, NEW kind \in {"DATA", "RESEND"}, NEW c \in Chunks
    PROVE  /\ Pushed(kind, c) \subseteq TxPacket
           /\ \A p \in Pushed(kind, c) : p \in txq \/ p.chunk = c
BY DEF Pushed, TypeOK, TxPacket

\* Every chunk past the receive window is still in the send buffer, so the
\* sender is at most Limit chunks past it.
LEMMA SpreadBySndBuf ==
    ASSUME IInv
    PROVE  sent <= rcvN + Window + 1 + Cardinality(DOMAIN sndBuf)
<1> DEFINE a == rcvN + Window + 1
           I == a .. sent - 1
           f == [i \in I |-> Sn(i)]
<1>1. /\ rcvN \in Nat /\ sent \in Nat /\ Window \in Nat /\ a \in Nat
      /\ Limit \in Nat /\ Half \in Nat
  BY ParamAssumption DEF IInv, TypeOK, rcvN
<1>2. IsFiniteSet(DOMAIN sndBuf) /\ Cardinality(DOMAIN sndBuf) \in Nat
  BY FS_CardinalityType DEF IInv, SndBufBounded
<1>3. ASSUME NEW i \in I PROVE Sn(i) \in DOMAIN sndBuf
  <2>1. i \in Nat /\ i \in 0 .. sent - 1 /\ i > rcvN + Window BY <1>1
  <2>2. ~ Held(i)
    BY <2>1, <1>1 DEF Held, IInv, RcvKeyed, Buffered
  <2> QED BY <2>1, <2>2 DEF IInv, Released, InSndBuf, Tracked
<1>4. ASSUME NEW i \in I, NEW j \in I, Sn(i) = Sn(j) PROVE i = j
  <2>1. i \in Int /\ j \in Int /\ i - j < SeqMod /\ j - i < SeqMod
    BY <1>1, ParamAssumption DEF IInv, SpreadBounded, SeqMod
  <2> QED BY <2>1, <1>4, SnUnique
<1>5. f \in Injection(I, DOMAIN sndBuf)
  BY <1>3, <1>4 DEF Injection, IsInjective
<1>6. Cardinality(I) <= Cardinality(DOMAIN sndBuf)
  BY <1>2, <1>5, FS_Injection
<1>7. Cardinality(I) = IF a > sent - 1 THEN 0 ELSE sent - 1 - a + 1
  BY <1>1, FS_Interval
<1> HIDE DEF I
<1> QED BY <1>1, <1>2, <1>6, <1>7

\* One more element keeps a set that is below a bound within it.
LEMMA CardinalityAdd ==
    ASSUME NEW S, NEW x, NEW n \in Nat, IsFiniteSet(S), Cardinality(S) < n
    PROVE  IsFiniteSet(S \cup {x}) /\ Cardinality(S \cup {x}) <= n
<1>1. /\ IsFiniteSet(S \cup {x}) /\ Cardinality(S) \in Nat
      /\ Cardinality(S \cup {x}) = IF x \in S THEN Cardinality(S) ELSE Cardinality(S) + 1
  BY FS_AddElement, FS_CardinalityType
<1> QED BY <1>1

\* ioLoop reads a chunk: it is below the window limits, so its number is free.
LEMMA ReadLocalInv == IInv /\ ReadLocal => IInv'
<1> SUFFICES ASSUME IInv, ReadLocal PROVE IInv'
  OBVIOUS
<1> DEFINE item == sndBuf'[sndNxt]
<1>1. /\ sent \in Chunks /\ sent \in Nat /\ rcvN \in Nat /\ sndNxt \in SeqNum
      /\ Half \in Nat \ {0} /\ Window \in Nat /\ Limit \in Nat
  BY ParamAssumption, SnType DEF IInv, TypeOK, ReadLocal, Chunks, rcvN, sndNxt
<1>2. /\ DOMAIN sndBuf' = DOMAIN sndBuf \cup {sndNxt}
      /\ sndBuf' = [s \in DOMAIN sndBuf' |-> sndBuf'[s]]
      /\ sndBuf'[sndNxt].chunk = sent
      /\ sndBuf'[sndNxt].dispatched \in BOOLEAN
      /\ sndBuf'[sndNxt] \in SndItem
      /\ \A s \in DOMAIN sndBuf : s # sndNxt => sndBuf'[s] = sndBuf[s]
  BY <1>1 DEF ReadLocal, With, SndItem, Accepts
<1>3. /\ Pushed("DATA", sent) \subseteq TxPacket
      /\ \A p \in Pushed("DATA", sent) : p \in txq \/ p.chunk = sent
  BY <1>1, PushedIsOld DEF IInv
<1>4. rcvN' = rcvN BY DEF ReadLocal, rcvVars, rcvN
<1>5. TypeOK'
  <2>1. sent' \in 0 .. MaxSend BY <1>1, ParamAssumption DEF ReadLocal, Chunks
  <2>2. DOMAIN sndBuf' \subseteq SeqNum /\ sndBuf' \in [DOMAIN sndBuf' -> SndItem]
    BY <1>1, <1>2 DEF IInv, TypeOK
  <2> QED BY <2>1, <2>2, <1>3 DEF IInv, TypeOK, ReadLocal, rcvVars
<1>6. InOrderExactlyOnce'
  BY <1>1, <1>4 DEF IInv, InOrderExactlyOnce, ReadLocal, rcvVars
<1>7. CopiesFresh'
  <2>1. \A c \in Copies : c \in Int => sent + 1 - c <= Half
    BY <1>1 DEF ReadLocal, LifetimeBound
  <2>2. \A c \in Copies : c \in Chunks => c < sent' /\ sent' - c <= Half
    <3>1. \A c \in Copies : c \in Chunks => c \in Int /\ c < sent
      BY DEF IInv, CopiesFresh, Fresh, Copies, Chunks
    <3> QED BY <3>1, <2>1, <1>1 DEF ReadLocal, Chunks
  <2>3. sent < sent' /\ sent' - sent <= Half BY <1>1 DEF ReadLocal
  <2>4. (\A s \in DOMAIN sndBuf : Fresh(sndBuf[s].chunk))'
    BY <1>2, <2>2, <2>3 DEF IInv, TypeOK, SndItem, Fresh, Copies
  <2>5. (\A p \in txq : Fresh(p.chunk))'
    BY <1>3, <2>2, <2>3 DEF IInv, TypeOK, TxPacket, Fresh, Copies, ReadLocal
  <2>6. /\ (\A p \in rtxJobs : Fresh(p.chunk))'
        /\ (inHand # None => Fresh(inHand))'
        /\ (rtxPushed # None => Fresh(rtxPushed))'
        /\ (\A c \in net : Fresh(c))'
    BY <2>2 DEF IInv, TypeOK, TxPacket, Fresh, Copies, ReadLocal
  <2>7. (\A p \in back : p.kind = "ACK" => Fresh(p.chunk))'
    <3> SUFFICES ASSUME NEW p \in back, p.kind = "ACK" PROVE Fresh(p.chunk)'
      BY DEF ReadLocal
    <3>1. p.chunk \in Copies BY DEF Copies
    <3>2. p.chunk < sent /\ p.chunk \in Nat
      BY DEF IInv, CopiesFresh, Fresh, TypeOK, BackPacket
    <3> QED BY <3>1, <3>2, <2>1, <1>1 DEF Fresh, ReadLocal
  <2>8. (\A k \in 1 .. Len(rxChan) : Fresh(rxChan[k]))'
    BY <2>2 DEF IInv, TypeOK, Fresh, Copies, ReadLocal, rcvVars
  <2> QED BY <2>4, <2>5, <2>6, <2>7, <2>8 DEF CopiesFresh
<1>8. SndKeyed'
  BY <1>2 DEF IInv, SndKeyed, sndNxt
<1>9. RcvKeyed'
  BY <1>1, <1>4 DEF IInv, TypeOK, RcvKeyed, ReadLocal, rcvVars, Chunks
<1>10. AcksHeld'
  BY <1>4 DEF IInv, AcksHeld, ReadLocal, rcvVars, Held, Buffered
<1>11. Released'
  <2> SUFFICES ASSUME NEW i \in 0 .. sent' - 1 PROVE InSndBuf(i)' \/ Held(i)'
    BY DEF Released
  <2>1. CASE i = sent
    BY <2>1, <1>2 DEF InSndBuf, Tracked, sndNxt
  <2>2. CASE i # sent
    <3>1. i \in 0 .. sent - 1 BY <2>2, <1>1 DEF ReadLocal
    <3>2. CASE Held(i)
      BY <3>2, <1>4 DEF Held, ReadLocal, rcvVars, Buffered
    <3>3. CASE InSndBuf(i)
      <4>1. sent - i < Half
        BY <3>3 DEF InSndBuf, Tracked, ReadLocal, LifetimeBound, Copies
      <4>2. Sn(i) # sndNxt
        BY <4>1, <3>1, <1>1, SnUnique DEF sndNxt, SeqMod
      <4> QED BY <4>2, <3>3, <1>2 DEF InSndBuf, Tracked
    <3> QED BY <3>1, <3>2, <3>3 DEF IInv, Released
  <2> QED BY <2>1, <2>2
<1>12. SndBufBounded'
  <2>1. /\ IsFiniteSet(DOMAIN sndBuf \cup {sndNxt})
        /\ Cardinality(DOMAIN sndBuf \cup {sndNxt}) <= Limit
    BY <1>1, CardinalityAdd DEF IInv, SndBufBounded, ReadLocal
  <2> QED BY <2>1, <1>2 DEF SndBufBounded
<1>13. SpreadBounded'
  <2>1. Cardinality(DOMAIN sndBuf) \in Nat
    BY FS_CardinalityType DEF IInv, SndBufBounded
  <2> QED BY <2>1, <1>1, <1>4, SpreadBySndBuf DEF SpreadBounded, ReadLocal
<1> QED BY <1>5, <1>6, <1>7, <1>8, <1>9, <1>10, <1>11, <1>12, <1>13 DEF IInv

\* Most steps leave the stream position, the receiver's buffers and the chunks
\* in the send buffer alone; then only the copies have to be looked at.
Frame ==
    /\ UNCHANGED <<sent, delivered, rcvBuf>>
    /\ DOMAIN sndBuf' = DOMAIN sndBuf
    /\ \A s \in DOMAIN sndBuf : sndBuf'[s].chunk = sndBuf[s].chunk

\* A step inside the frame keeps every part of the invariant but the copies.
LEMMA FrameInv ==
    ASSUME IInv, Frame
    PROVE  /\ InOrderExactlyOnce' /\ SndKeyed' /\ RcvKeyed'
           /\ Released' /\ SndBufBounded' /\ SpreadBounded'
           /\ (\A s \in DOMAIN sndBuf : Fresh(sndBuf[s].chunk))'
<1>1. rcvN' = rcvN BY DEF Frame, rcvN
<1>2. InOrderExactlyOnce' /\ SpreadBounded'
  BY <1>1 DEF IInv, InOrderExactlyOnce, SpreadBounded, Frame
<1>3. SndKeyed' /\ RcvKeyed'
  BY <1>1 DEF IInv, SndKeyed, RcvKeyed, Frame
<1>4. Released'
  BY <1>1 DEF IInv, Released, InSndBuf, Tracked, Held, Buffered, Frame
<1>5. SndBufBounded'
  BY DEF IInv, SndBufBounded, Frame
<1>6. (\A s \in DOMAIN sndBuf : Fresh(sndBuf[s].chunk))'
  BY DEF IInv, CopiesFresh, Fresh, Frame
<1> QED BY <1>2, <1>3, <1>4, <1>5, <1>6

\* The dispatcher takes a packet off the TX queue.
LEMMA PopInv == IInv /\ Pop => IInv'
<1> SUFFICES ASSUME IInv, Pop PROVE IInv'
  OBVIOUS
<1>1. PICK p \in txq : txq' = txq \ {p} /\ inHand' = p.chunk
  BY DEF Pop
<1>2. p.chunk \in Chunks /\ Fresh(p.chunk)
  BY DEF IInv, TypeOK, TxPacket, CopiesFresh
<1>3. Frame BY DEF Pop, Frame, rcvVars
<1>4. TypeOK' BY <1>1, <1>2 DEF IInv, TypeOK, Pop, rcvVars
<1>5. CopiesFresh'
  BY <1>1, <1>2, <1>3, FrameInv DEF IInv, CopiesFresh, Fresh, Pop, rcvVars
<1>6. AcksHeld'
  BY DEF IInv, AcksHeld, Pop, rcvVars, Held, Buffered, rcvN
<1> QED BY <1>3, <1>4, <1>5, <1>6, FrameInv DEF IInv

\* Changing the flag of a tracked chunk keeps the buffer's type and its chunks.
LEMMA FlagKeeps ==
    ASSUME TypeOK, NEW sn, NEW b \in BOOLEAN,
           sndBuf' = IF Tracked(sn)
                     THEN [sndBuf EXCEPT ![sn].dispatched = b] ELSE sndBuf
    PROVE  /\ DOMAIN sndBuf' = DOMAIN sndBuf
           /\ sndBuf' \in [DOMAIN sndBuf' -> SndItem]
           /\ \A s \in DOMAIN sndBuf : sndBuf'[s].chunk = sndBuf[s].chunk
BY DEF TypeOK, SndItem, Tracked

\* NoteTXPacketDequeued, then the packet goes on the path.
LEMMA NoteAndSendInv == IInv /\ NoteAndSend => IInv'
<1> SUFFICES ASSUME IInv, NoteAndSend PROVE IInv'
  OBVIOUS
<1>1. inHand \in Chunks /\ Fresh(inHand)
  BY DEF IInv, TypeOK, CopiesFresh, NoteAndSend
<1>2. /\ DOMAIN sndBuf' = DOMAIN sndBuf
      /\ sndBuf' \in [DOMAIN sndBuf' -> SndItem]
      /\ \A s \in DOMAIN sndBuf : sndBuf'[s].chunk = sndBuf[s].chunk
  BY FlagKeeps DEF NoteAndSend, IInv
<1>3. Frame BY <1>2 DEF NoteAndSend, Frame, rcvVars
<1>4. TypeOK' BY <1>1, <1>2 DEF IInv, TypeOK, NoteAndSend, rcvVars
<1>5. CopiesFresh'
  BY <1>1, <1>3, FrameInv DEF IInv, CopiesFresh, Fresh, NoteAndSend, rcvVars
<1>6. AcksHeld'
  BY DEF IInv, AcksHeld, NoteAndSend, rcvVars, Held, Buffered, rcvN
<1> QED BY <1>3, <1>4, <1>5, <1>6, FrameInv DEF IInv

\* checkRetransmits collects the chunks that are due.
LEMMA RtxCollectInv ==
    ASSUME NEW T \in SUBSET Chunks
    PROVE  IInv /\ RtxCollect(T) => IInv'
<1> SUFFICES ASSUME IInv, RtxCollect(T) PROVE IInv'
  OBVIOUS
<1>1. \A p \in rtxJobs' : p \in TxPacket /\ Fresh(p.chunk)
  <2> SUFFICES ASSUME NEW p \in rtxJobs' PROVE p \in TxPacket /\ Fresh(p.chunk)
    OBVIOUS
  <2>1. PICK d \in T : p = [kind |-> RetransmitKind(d, T), chunk |-> d]
    BY DEF RtxCollect
  <2>2. Fresh(d)
    BY DEF RtxCollect, IInv, CopiesFresh, Tracked
  <2> QED BY <2>1, <2>2 DEF RetransmitKind, TxPacket
<1>2. Frame BY DEF RtxCollect, Frame, rcvVars
<1>3. TypeOK' BY <1>1 DEF IInv, TypeOK, RtxCollect, rcvVars
<1>4. CopiesFresh'
  BY <1>1, <1>2, FrameInv DEF IInv, CopiesFresh, Fresh, RtxCollect, rcvVars
<1>5. AcksHeld'
  BY DEF IInv, AcksHeld, RtxCollect, rcvVars, Held, Buffered, rcvN
<1> QED BY <1>2, <1>3, <1>4, <1>5, FrameInv DEF IInv

\* checkRetransmits pushes a retransmission with no lock held.
LEMMA RtxPushInv == IInv /\ RtxPush => IInv'
<1> SUFFICES ASSUME IInv, RtxPush PROVE IInv'
  OBVIOUS
<1>1. PICK j \in rtxJobs :
        /\ rtxJobs' = rtxJobs \ {j}
        /\ txq' = Pushed(j.kind, j.chunk)
        /\ rtxPushed' = IF Accepts(j.kind, j.chunk) THEN j.chunk ELSE None
  BY DEF RtxPush
<1>2. j.kind \in {"DATA", "RESEND"} /\ j.chunk \in Chunks /\ Fresh(j.chunk)
  BY DEF IInv, TypeOK, TxPacket, CopiesFresh
<1>3. txq' \subseteq TxPacket /\ \A p \in txq' : p \in txq \/ p.chunk = j.chunk
  BY <1>1, <1>2, PushedIsOld DEF IInv
<1>4. Frame BY DEF RtxPush, Frame, rcvVars
<1>5. TypeOK' BY <1>1, <1>2, <1>3 DEF IInv, TypeOK, RtxPush, rcvVars
<1>6. CopiesFresh'
  BY <1>1, <1>2, <1>3, <1>4, FrameInv
     DEF IInv, CopiesFresh, Fresh, RtxPush, rcvVars
<1>7. AcksHeld'
  BY DEF IInv, AcksHeld, RtxPush, rcvVars, Held, Buffered, rcvN
<1> QED BY <1>4, <1>5, <1>6, <1>7, FrameInv DEF IInv

\* checkRetransmits marks the pushed chunk as waiting in the queue.
LEMMA RtxFlagInv == IInv /\ RtxFlag => IInv'
<1> SUFFICES ASSUME IInv, RtxFlag PROVE IInv'
  OBVIOUS
<1>1. /\ DOMAIN sndBuf' = DOMAIN sndBuf
      /\ sndBuf' \in [DOMAIN sndBuf' -> SndItem]
      /\ \A s \in DOMAIN sndBuf : sndBuf'[s].chunk = sndBuf[s].chunk
  BY FlagKeeps DEF RtxFlag, IInv
<1>2. Frame BY <1>1 DEF RtxFlag, Frame, rcvVars
<1>3. TypeOK' BY <1>1 DEF IInv, TypeOK, RtxFlag, rcvVars
<1>4. CopiesFresh'
  BY <1>2, FrameInv DEF IInv, CopiesFresh, Fresh, RtxFlag, rcvVars
<1>5. AcksHeld'
  BY DEF IInv, AcksHeld, RtxFlag, rcvVars, Held, Buffered, rcvN
<1> QED BY <1>2, <1>3, <1>4, <1>5, FrameInv DEF IInv

\* HandleDataNack pushes a retransmission of a tracked chunk.
LEMMA HandleDataNackInv ==
    ASSUME NEW p \in back
    PROVE  IInv /\ HandleDataNack(p) => IInv'
<1> SUFFICES ASSUME IInv, HandleDataNack(p) PROVE IInv'
  OBVIOUS
<1> DEFINE c == sndBuf[Sn(p.chunk)].chunk
<1>1. c \in Chunks /\ Fresh(c)
  BY DEF IInv, TypeOK, SndItem, CopiesFresh, HandleDataNack, Tracked
<1>2. txq' \subseteq TxPacket /\ \A q \in txq' : q \in txq \/ q.chunk = c
  BY <1>1, PushedIsOld DEF IInv, HandleDataNack
<1> HIDE DEF c
<1>3. Frame BY DEF HandleDataNack, Frame, rcvVars
<1>4. TypeOK' BY <1>1, <1>2 DEF IInv, TypeOK, HandleDataNack, rcvVars
<1>5. CopiesFresh'
  BY <1>1, <1>2, <1>3, FrameInv
     DEF IInv, CopiesFresh, Fresh, HandleDataNack, rcvVars
<1>6. AcksHeld'
  BY DEF IInv, AcksHeld, HandleDataNack, rcvVars, Held, Buffered, rcvN
<1> QED BY <1>3, <1>4, <1>5, <1>6, FrameInv DEF IInv

\* The path: packets disappear, or reach rxChan when it has room.
PathStep ==
    /\ UNCHANGED <<sndVars, rcvBuf, delivered>>
    /\ net' \subseteq net /\ back' \subseteq back
    /\ \/ rxChan' = rxChan
       \/ /\ Len(rxChan) < RxCap
          /\ \E c \in net : rxChan' = Append(rxChan, c)

\* The path loses data, acknowledgements and NACKs.
LEMMA PathInv == IInv /\ PathStep => IInv'
<1> SUFFICES ASSUME IInv, PathStep PROVE IInv'
  OBVIOUS
<1>1. /\ rxChan' \in Seq(Chunks) /\ Len(rxChan') <= RxCap
      /\ \A k \in 1 .. Len(rxChan') : Fresh(rxChan'[k])
  <2>1. CASE rxChan' = rxChan
    BY <2>1 DEF IInv, TypeOK, CopiesFresh
  <2>2. ASSUME NEW c \in net, Len(rxChan) < RxCap, rxChan' = Append(rxChan, c)
        PROVE  <1>1!:
    <3>1. c \in Chunks /\ Fresh(c) /\ rxChan \in Seq(Chunks)
      BY DEF IInv, TypeOK, CopiesFresh
    <3>2. /\ rxChan' \in Seq(Chunks) /\ Len(rxChan') = Len(rxChan) + 1
          /\ \A k \in 1 .. Len(rxChan') :
                rxChan'[k] = IF k = Len(rxChan) + 1 THEN c ELSE rxChan[k]
      BY <2>2, <3>1, AppendProperties
    <3>3. \A k \in 1 .. Len(rxChan') : k # Len(rxChan) + 1 => k \in 1 .. Len(rxChan)
      BY <3>1, <3>2
    <3> QED BY <2>2, <3>1, <3>2, <3>3, ParamAssumption DEF IInv, TypeOK, CopiesFresh
  <2> QED BY <2>1, <2>2 DEF PathStep
<1>2. Frame BY DEF PathStep, Frame, sndVars
<1>3. TypeOK' BY <1>1 DEF IInv, TypeOK, PathStep, sndVars
<1>4. CopiesFresh'
  BY <1>1, <1>2, FrameInv DEF IInv, CopiesFresh, Fresh, PathStep, sndVars
<1>5. AcksHeld'
  BY DEF IInv, AcksHeld, PathStep, sndVars, Held, Buffered, rcvN
<1> QED BY <1>2, <1>3, <1>4, <1>5, FrameInv DEF IInv

\* ReceiveAck forgets a chunk, which the receiver then holds.
LEMMA ReceiveAckInv ==
    ASSUME NEW p \in back
    PROVE  IInv /\ ReceiveAck(p) => IInv'
<1> SUFFICES ASSUME IInv, ReceiveAck(p) PROVE IInv'
  OBVIOUS
<1> DEFINE sn == Sn(p.chunk)
<1>1. /\ DOMAIN sndBuf' = DOMAIN sndBuf \ {sn}
      /\ sndBuf' = [s \in DOMAIN sndBuf' |-> sndBuf'[s]]
      /\ \A s \in DOMAIN sndBuf' : sndBuf'[s] = sndBuf[s]
  BY DEF ReceiveAck, Without
<1>2. txq' \subseteq txq BY DEF ReceiveAck, RemoveQueuedData
<1>3. rcvN' = rcvN BY DEF ReceiveAck, rcvVars, rcvN
<1>4. TypeOK'
  <2>1. DOMAIN sndBuf' \subseteq SeqNum /\ sndBuf' \in [DOMAIN sndBuf' -> SndItem]
    BY <1>1 DEF IInv, TypeOK
  <2> QED BY <2>1, <1>2 DEF IInv, TypeOK, ReceiveAck, rcvVars
<1>5. InOrderExactlyOnce' /\ SpreadBounded'
  BY <1>3 DEF IInv, InOrderExactlyOnce, SpreadBounded, ReceiveAck, rcvVars
<1>6. CopiesFresh'
  BY <1>1, <1>2 DEF IInv, CopiesFresh, Fresh, ReceiveAck, rcvVars
<1>7. SndKeyed' /\ RcvKeyed'
  BY <1>1, <1>3 DEF IInv, SndKeyed, RcvKeyed, ReceiveAck, rcvVars
<1>8. AcksHeld'
  BY DEF IInv, AcksHeld, ReceiveAck, rcvVars, Held, Buffered, rcvN
<1>9. Released'
  <2> SUFFICES ASSUME NEW i \in 0 .. sent - 1 PROVE InSndBuf(i)' \/ Held(i)'
    BY DEF Released, ReceiveAck
  <2>1. CASE Held(i)
    BY <2>1, <1>3 DEF Held, Buffered, ReceiveAck, rcvVars
  <2>2. CASE InSndBuf(i) /\ Sn(i) # sn
    BY <2>2, <1>1 DEF InSndBuf, Tracked
  <2>3. CASE InSndBuf(i) /\ Sn(i) = sn
    <3>1. i = p.chunk /\ Held(p.chunk)
      BY <2>3, AckedIsSame DEF InSndBuf, ReceiveAck, IInv, AcksHeld
    <3> QED BY <3>1, <2>1
  <2> QED BY <2>1, <2>2, <2>3 DEF IInv, Released
<1>10. SndBufBounded'
  <2>1. /\ IsFiniteSet(DOMAIN sndBuf \ {sn})
        /\ Cardinality(DOMAIN sndBuf \ {sn}) <= Cardinality(DOMAIN sndBuf)
        /\ Cardinality(DOMAIN sndBuf \ {sn}) \in Nat
        /\ Cardinality(DOMAIN sndBuf) \in Nat
    BY FS_Subset, FS_CardinalityType DEF IInv, SndBufBounded
  <2> QED BY <2>1, <1>1, ParamAssumption DEF IInv, SndBufBounded
<1> QED BY <1>4, <1>5, <1>6, <1>7, <1>8, <1>9, <1>10 DEF IInv

\* rxLoop classifies a chunk, stores it and acknowledges it.
LEMMA RxProcessInv == IInv /\ RxProcess => IInv'
<1> SUFFICES ASSUME IInv, RxProcess PROVE IInv'
  OBVIOUS
<1>0. PICK c \in Chunks : c = Head(rxChan)
  BY HeadTailProperties DEF RxProcess, IInv, TypeOK
<1> DEFINE v == Verdict(Sn(c))
<1>1. /\ rxChan \in Seq(Chunks) /\ rxChan # <<>> /\ rxChan' = Tail(rxChan)
      /\ UNCHANGED <<sent, sndBuf, txq, inHand, rtxJobs, rtxPushed, net, delivered>>
  BY DEF RxProcess, IInv, TypeOK, sndVars
<1>2. /\ rxChan' \in Seq(Chunks) /\ Len(rxChan') <= RxCap
      /\ \A k \in 1 .. Len(rxChan') : Fresh(rxChan'[k])
      /\ Fresh(c)
  <2>1. /\ Len(rxChan) >= 1 /\ Len(rxChan) \in Nat /\ c = rxChan[1]
        /\ rxChan' \in Seq(Chunks) /\ Len(rxChan') = Len(rxChan) - 1
        /\ \A k \in 1 .. Len(rxChan') : rxChan'[k] = rxChan[k + 1]
    BY <1>0, <1>1, HeadTailProperties, EmptySeq
  <2> QED BY <1>1, <2>1, ParamAssumption DEF IInv, TypeOK, CopiesFresh
<1>3. /\ rcvBuf' = IF v = "new" THEN With(rcvBuf, Sn(c), c) ELSE rcvBuf
      /\ \A p \in back' : \/ p \in back
                          \/ p = Ack(c) /\ v \in {"old", "dup", "new"}
                          \/ p \in BackPacket /\ p.kind = "NACK"
  <2>1. \A sn : \A k \in NackCandidates(sn) : k \in Nat
    BY ParamAssumption DEF NackCandidates
  <2>2. rcvN \in Nat BY DEF IInv, TypeOK, rcvN
  <2> QED BY <1>0, <2>1, <2>2 DEF RxProcess, Ack, Nack, BackPacket
<1> HIDE DEF v
<1>4. /\ Sn(c) \in SeqNum /\ c \in Nat /\ rcvN \in Nat /\ rcvN' = rcvN
      /\ sent \in Nat
  BY <1>1, <1>2, SnType, ParamAssumption DEF Chunks, rcvN, IInv, TypeOK
<1>5. v = "new" => /\ rcvN <= c /\ c <= rcvN + Window /\ c < sent
                   /\ ~ Buffered(Sn(c))
  BY <1>2, <1>4, DiffOfCopy, ParamAssumption DEF v, Verdict, Fresh
<1>6. v = "old" => c < rcvN
  BY <1>2, <1>4, DiffOfCopy, ParamAssumption DEF v, Verdict
<1>7. v = "dup" => rcvN <= c /\ c - rcvN < SeqMod /\ Buffered(Sn(c))
  BY <1>2, <1>4, DiffOfCopy, ParamAssumption DEF v, Verdict, SeqMod
<1>8. v = "dup" => rcvBuf[Sn(c)] = c
  BY <1>4, <1>7, BufferedIsSame
<1>9. /\ DOMAIN rcvBuf' \subseteq SeqNum
      /\ rcvBuf' \in [DOMAIN rcvBuf' -> Chunks]
      /\ \A s \in DOMAIN rcvBuf : s \in DOMAIN rcvBuf' /\ rcvBuf'[s] = rcvBuf[s]
      /\ \A s \in DOMAIN rcvBuf' :
            s \in DOMAIN rcvBuf \/ (v = "new" /\ s = Sn(c) /\ rcvBuf'[s] = c)
      /\ v = "new" => Sn(c) \in DOMAIN rcvBuf' /\ rcvBuf'[Sn(c)] = c
  BY <1>2, <1>3, <1>4, <1>5 DEF IInv, TypeOK, With, Buffered
<1>10. \A i : Held(i) => Held(i)'
  BY <1>4, <1>9 DEF Held, Buffered
<1>11. v \in {"old", "dup", "new"} => Held(c)'
  BY <1>4, <1>6, <1>7, <1>8, <1>9 DEF Held, Buffered
<1>12. TypeOK'
  BY <1>1, <1>2, <1>3, <1>9, <1>4 DEF IInv, TypeOK, BackPacket, Ack
<1>13. InOrderExactlyOnce' /\ SpreadBounded' /\ SndKeyed' /\ SndBufBounded'
  BY <1>1, <1>4 DEF IInv, InOrderExactlyOnce, SpreadBounded, SndKeyed, SndBufBounded
<1>14. RcvKeyed'
  BY <1>1, <1>4, <1>5, <1>9 DEF IInv, RcvKeyed
<1>15. CopiesFresh'
  BY <1>1, <1>2, <1>3 DEF IInv, CopiesFresh, Fresh, Ack
<1>16. AcksHeld'
  BY <1>3, <1>10, <1>11 DEF IInv, AcksHeld, Ack
<1>17. Released'
  BY <1>1, <1>10 DEF IInv, Released, InSndBuf, Tracked
<1> QED BY <1>12, <1>13, <1>14, <1>15, <1>16, <1>17 DEF IInv

\* What a flush writes: the chunks that follow the ones already delivered.
LEMMA FlushRun ==
    ASSUME IInv, Flush
    PROVE  \E n \in 1 .. SeqMod :
              /\ rcvN + n <= sent
              /\ \A k \in 0 .. n - 1 : /\ rcvN + k \in Chunks
                                      /\ rcvBuf[Sn(rcvN + k)] = rcvN + k
              /\ delivered' = delivered \o [k \in 1 .. n |-> rcvN + k - 1]
              /\ rcvBuf' = Without(rcvBuf, {Sn(rcvN + k) : k \in 0 .. n - 1})
<1>1. PICK n \in 1 .. SeqMod :
        /\ \A k \in 0 .. n - 1 : Buffered(Sn(rcvN + k))
        /\ delivered' = delivered \o [k \in 1 .. n |-> rcvBuf[Sn(rcvN + k - 1)]]
        /\ rcvBuf' = Without(rcvBuf, {Sn(rcvN + k) : k \in 0 .. n - 1})
  BY DEF Flush
<1>2. n \in Nat /\ n >= 1 /\ n <= SeqMod /\ rcvN \in Nat /\ sent \in Nat
  BY SnType, ParamAssumption DEF IInv, TypeOK, rcvN
<1>3. ASSUME NEW k \in 0 .. n - 1 PROVE rcvBuf[Sn(rcvN + k)] = rcvN + k
  <2>1. rcvN + k \in Nat /\ rcvN <= rcvN + k /\ (rcvN + k) - rcvN < SeqMod
    BY <1>2, SnType
  <2>2. Buffered(Sn(rcvN + k)) BY <1>1
  <2> QED BY <2>1, <2>2, BufferedIsSame
<1>4. \A k \in 0 .. n - 1 : rcvN + k \in Chunks /\ rcvN + k < sent
  BY <1>1, <1>3 DEF IInv, TypeOK, RcvKeyed, Buffered
<1>5. rcvN + n <= sent
  <2>1. n - 1 \in 0 .. n - 1 BY <1>2
  <2>2. rcvN + (n - 1) < sent BY <2>1, <1>4
  <2> QED BY <2>2, <1>2
<1>6. [k \in 1 .. n |-> rcvBuf[Sn(rcvN + k - 1)]] = [k \in 1 .. n |-> rcvN + k - 1]
  <2> SUFFICES ASSUME NEW k \in 1 .. n
               PROVE  rcvBuf[Sn(rcvN + k - 1)] = rcvN + k - 1
    OBVIOUS
  <2>1. k - 1 \in 0 .. n - 1 /\ rcvN + (k - 1) = rcvN + k - 1 BY <1>2
  <2> QED BY <2>1, <1>3
<1> QED BY <1>1, <1>3, <1>4, <1>5, <1>6

\* writeLoop hands the run of chunks at the window's start to the application.
LEMMA FlushInv == IInv /\ Flush => IInv'
<1> SUFFICES ASSUME IInv, Flush PROVE IInv'
  OBVIOUS
<1>1. PICK n \in 1 .. SeqMod :
        /\ rcvN + n <= sent
        /\ \A k \in 0 .. n - 1 : /\ rcvN + k \in Chunks
                                /\ rcvBuf[Sn(rcvN + k)] = rcvN + k
        /\ delivered' = delivered \o [k \in 1 .. n |-> rcvN + k - 1]
        /\ rcvBuf' = Without(rcvBuf, {Sn(rcvN + k) : k \in 0 .. n - 1})
  BY FlushRun
<1>2. /\ n \in Nat /\ n >= 1 /\ rcvN \in Nat /\ sent \in Nat /\ n <= SeqMod
      /\ SeqMod \in Nat /\ Window \in Nat /\ delivered \in Seq(Chunks)
      /\ UNCHANGED <<sent, sndBuf, txq, inHand, rtxJobs, rtxPushed, net, back, rxChan>>
  BY <1>1, SnType, ParamAssumption DEF Flush, sndVars, IInv, TypeOK, rcvN
<1>3. \A k \in 0 .. n - 1 : rcvBuf[Sn(rcvN + k)] = rcvN + k
  BY <1>1
<1>4. rcvN + n <= sent BY <1>1
<1> DEFINE run == [k \in 1 .. n |-> rcvN + k - 1]
<1>5. \A k \in 1 .. n : run[k] = rcvN + k - 1 /\ run[k] \in Chunks
  <2> SUFFICES ASSUME NEW k \in 1 .. n PROVE rcvN + k - 1 \in Chunks
    OBVIOUS
  <2>1. k - 1 \in 0 .. n - 1 /\ rcvN + (k - 1) = rcvN + k - 1 BY <1>2
  <2> QED BY <2>1, <1>1
<1>6. run \in Seq(Chunks) /\ Len(run) = n
  <2>1. run \in [1 .. n -> Chunks] BY <1>5
  <2>2. run \in Seq(Chunks) BY <2>1, <1>2, SeqDef
  <2> QED BY <2>1, <2>2, <1>2, LenProperties
<1>7. /\ delivered' \in Seq(Chunks) /\ Len(delivered') = rcvN + n
      /\ \A k \in 1 .. Len(delivered') :
            delivered'[k] = IF k <= rcvN THEN delivered[k] ELSE run[k - rcvN]
  BY <1>1, <1>2, <1>6, ConcatProperties DEF rcvN
<1> HIDE DEF run
<1>8. rcvN' = rcvN + n BY <1>7 DEF rcvN
<1>9. /\ DOMAIN rcvBuf' \subseteq DOMAIN rcvBuf
      /\ rcvBuf' \in [DOMAIN rcvBuf' -> Chunks]
      /\ \A s \in DOMAIN rcvBuf' : rcvBuf'[s] = rcvBuf[s]
  BY <1>1 DEF Without, IInv, TypeOK
<1>10. \A s \in DOMAIN rcvBuf :
          \/ s \in DOMAIN rcvBuf' /\ rcvBuf[s] >= rcvN + n
          \/ s \notin DOMAIN rcvBuf' /\ rcvBuf[s] < rcvN + n
  <2> SUFFICES ASSUME NEW s \in DOMAIN rcvBuf
               PROVE  \/ s \in DOMAIN rcvBuf' /\ rcvBuf[s] >= rcvN + n
                      \/ s \notin DOMAIN rcvBuf' /\ rcvBuf[s] < rcvN + n
    OBVIOUS
  <2>1. rcvBuf[s] \in Nat /\ rcvN <= rcvBuf[s] /\ Sn(rcvBuf[s]) = s
    BY ParamAssumption DEF IInv, TypeOK, RcvKeyed, Chunks
  <2>2. s \in DOMAIN rcvBuf' <=> \A k \in 0 .. n - 1 : s # Sn(rcvN + k)
    BY <1>1 DEF Without
  <2>3. CASE rcvBuf[s] < rcvN + n
    <3>1. rcvBuf[s] - rcvN \in 0 .. n - 1 /\ rcvN + (rcvBuf[s] - rcvN) = rcvBuf[s]
      BY <2>1, <2>3, <1>2
    <3> QED BY <3>1, <2>1, <2>2, <2>3
  <2>4. CASE rcvBuf[s] >= rcvN + n
    <3>1. ASSUME NEW k \in 0 .. n - 1 PROVE s # Sn(rcvN + k)
      <4>1. rcvBuf[Sn(rcvN + k)] = rcvN + k BY <1>3
      <4> QED BY <4>1, <2>4, <2>1, <1>2
    <3> QED BY <3>1, <2>2, <2>4
  <2> QED BY <2>1, <2>3, <2>4, <1>2
<1>11. TypeOK'
  BY <1>2, <1>7, <1>9 DEF IInv, TypeOK
<1>12. InOrderExactlyOnce'
  <2> SUFFICES ASSUME NEW k \in 1 .. rcvN' PROVE delivered'[k] = k - 1
    BY <1>2, <1>4, <1>8 DEF InOrderExactlyOnce
  <2>1. k \in 1 .. Len(delivered') /\ k \in Nat BY <1>7, <1>8, <1>2
  <2>2. CASE k <= rcvN
    BY <2>1, <2>2, <1>2, <1>7 DEF IInv, InOrderExactlyOnce
  <2>3. CASE k > rcvN
    <3>1. k - rcvN \in 1 .. n /\ rcvN + (k - rcvN) - 1 = k - 1
      BY <2>1, <2>3, <1>2, <1>8
    <3>2. delivered'[k] = run[k - rcvN] BY <2>1, <2>3, <1>2, <1>7
    <3>3. run[k - rcvN] = rcvN + (k - rcvN) - 1 BY <3>1, <1>5
    <3> QED BY <3>1, <3>2, <3>3
  <2> QED BY <2>1, <2>2, <2>3, <1>2
<1>13. CopiesFresh'
  BY <1>2 DEF IInv, CopiesFresh, Fresh
<1>14. SndKeyed' /\ SndBufBounded'
  BY <1>2 DEF IInv, SndKeyed, SndBufBounded
<1>15. RcvKeyed'
  <2> SUFFICES ASSUME NEW s \in DOMAIN rcvBuf'
               PROVE  /\ Sn(rcvBuf[s]) = s
                      /\ rcvN + n <= rcvBuf[s] /\ rcvBuf[s] <= rcvN + n + Window
                      /\ rcvBuf[s] < sent
    BY <1>2, <1>8, <1>9 DEF RcvKeyed
  <2>1. s \in DOMAIN rcvBuf /\ rcvBuf[s] \in Nat
    BY <1>9, ParamAssumption DEF IInv, TypeOK, Chunks
  <2> QED BY <2>1, <1>2, <1>10 DEF IInv, RcvKeyed
<1>16. ASSUME NEW i \in Nat, Held(i) PROVE Held(i)'
  BY <1>16, <1>2, <1>8, <1>9, <1>10 DEF Held, Buffered
<1>17. AcksHeld'
  BY <1>2, <1>16 DEF IInv, TypeOK, BackPacket, AcksHeld
<1>18. Released'
  BY <1>2, <1>16 DEF IInv, Released, InSndBuf, Tracked
<1>19. SpreadBounded'
  BY <1>2, <1>8, ParamAssumption DEF IInv, SpreadBounded
<1> QED BY <1>11, <1>12, <1>13, <1>14, <1>15, <1>17, <1>18, <1>19 DEF IInv

\* IInv is inductive: one step per action of Next.
LEMMA NextInv == IInv /\ [Next]_vars => IInv'
<1> SUFFICES ASSUME IInv, [Next]_vars PROVE IInv'
  OBVIOUS
<1>1. CASE ReadLocal BY <1>1, ReadLocalInv
<1>2. CASE Pop BY <1>2, PopInv
<1>3. CASE NoteAndSend BY <1>3, NoteAndSendInv
<1>4. ASSUME NEW T \in SUBSET Chunks, RtxCollect(T) PROVE IInv'
  BY <1>4, RtxCollectInv
<1>5. CASE RtxPush BY <1>5, RtxPushInv
<1>6. CASE RtxFlag BY <1>6, RtxFlagInv
<1>7. ASSUME NEW p \in back, ReceiveAck(p) PROVE IInv'
  BY <1>7, ReceiveAckInv
<1>8. ASSUME NEW p \in back, HandleDataNack(p) PROVE IInv'
  BY <1>8, HandleDataNackInv
<1>9. ASSUME NEW c \in net, LoseData(c) PROVE IInv'
  BY <1>9, PathInv DEF LoseData, PathStep, rcvVars
<1>10. ASSUME NEW p \in back, LoseBack(p) PROVE IInv'
  BY <1>10, PathInv DEF LoseBack, PathStep, rcvVars
<1>11. ASSUME NEW c \in net, ReceiveData(c) PROVE IInv'
  BY <1>11, PathInv DEF ReceiveData, PathStep
<1>12. CASE RxProcess BY <1>12, RxProcessInv
<1>13. CASE Flush BY <1>13, FlushInv
<1>14. CASE UNCHANGED vars
  BY <1>14, PathInv DEF vars, PathStep, sndVars
<1> QED
  BY <1>1, <1>2, <1>3, <1>4, <1>5, <1>6, <1>7, <1>8, <1>9, <1>10, <1>11,
     <1>12, <1>13, <1>14 DEF Next

\* IInv holds in every reachable state.
THEOREM Invariant == Spec => []IInv
BY InitInv, NextInv, PTL DEF Spec

\* The variables of both ARQs keep their types: in particular rxChan never
\* exceeds its capacity and every buffer is keyed by a sequence number.
THEOREM TypeCorrect == Spec => []TypeOK
<1>1. IInv => TypeOK BY DEF IInv
<1> QED BY <1>1, Invariant, PTL

\* The application is given chunks 0, 1, 2... in order, each once, whatever the
\* path loses, duplicates or reorders and however often the numbers wrap.
THEOREM DeliveryInOrder == Spec => []InOrderExactlyOnce
<1>1. IInv => InOrderExactlyOnce BY DEF IInv
<1> QED BY <1>1, Invariant, PTL

\* The sender forgets a chunk only when the receiver holds it.
THEOREM ReleaseIsSafe == Spec => []ReleasedOnlyIfHeld
<1>1. IInv => ReleasedOnlyIfHeld
  BY DEF IInv, Released, ReleasedOnlyIfHeld, InSndBuf, Held
<1> QED BY <1>1, Invariant, PTL

\* Although chunks are acknowledged selectively, the sender never runs further
\* ahead of the receiver than the two windows together.
THEOREM SpreadIsBounded == Spec => []SpreadBounded
<1>1. IInv => SpreadBounded BY DEF IInv
<1> QED BY <1>1, Invariant, PTL

-----------------------------------------------------------------------------
(* The TX queue. *)

\* PushTXPacket keeps one packet of a number, a removal leaves fewer.
LEMMA PushedOnce ==
    ASSUME QueuedOnce, NEW kind, NEW i, txq' = Pushed(kind, i)
    PROVE  QueuedOnce'
BY DEF QueuedOnce, Pushed

LEMMA FewerOnce ==
    ASSUME QueuedOnce, txq' \subseteq txq
    PROVE  QueuedOnce'
BY DEF QueuedOnce

\* A sequence number waits in the queue at most once, whatever the sender, the
\* retransmission scan and NACKs push for it.
THEOREM NumbersQueuedOnce == Spec => []QueuedOnce
<1>1. Init => QueuedOnce
  BY DEF Init, QueuedOnce
<1>2. QueuedOnce /\ [Next]_vars => QueuedOnce'
  <2> SUFFICES ASSUME QueuedOnce, [Next]_vars PROVE QueuedOnce'
    OBVIOUS
  <2>1. CASE ReadLocal
    BY <2>1, PushedOnce DEF ReadLocal
  <2>2. CASE RtxPush
    BY <2>2, PushedOnce DEF RtxPush
  <2>3. CASE \E p \in back : HandleDataNack(p)
    BY <2>3, PushedOnce DEF HandleDataNack
  <2>4. CASE Pop
    BY <2>4, FewerOnce DEF Pop
  <2>5. CASE \E p \in back : ReceiveAck(p)
    BY <2>5, FewerOnce DEF ReceiveAck, RemoveQueuedData
  <2>6. CASE UNCHANGED txq
    BY <2>6, FewerOnce
  <2>7. CASE \/ NoteAndSend \/ RtxFlag \/ RxProcess \/ Flush
             \/ \E T \in SUBSET Chunks : RtxCollect(T)
             \/ \E c \in net : LoseData(c) \/ ReceiveData(c)
             \/ \E p \in back : LoseBack(p)
             \/ UNCHANGED vars
    BY <2>6, <2>7 DEF NoteAndSend, RtxFlag, RxProcess, Flush, RtxCollect, LoseData,
                      ReceiveData, LoseBack, vars, sndVars
  <2> QED BY <2>1, <2>2, <2>3, <2>4, <2>5, <2>7 DEF Next
<1> QED BY <1>1, <1>2, PTL DEF Spec

-----------------------------------------------------------------------------
(* Refinement. *)

\* Reading a chunk accepts it, a flush delivers the next ones, and every other
\* step is invisible to the two applications.
LEMMA StepRefines ==
    ASSUME IInv, [Next]_vars
    PROVE  [Stream!Next]_(Stream!rsVars)
<1>1. CASE ReadLocal
  BY <1>1 DEF ReadLocal, rcvVars, Stream!Next, Stream!Accept
<1>2. CASE Flush
  <2>1. PICK n \in 1 .. SeqMod :
          /\ rcvN + n <= sent
          /\ delivered' = delivered \o [k \in 1 .. n |-> rcvN + k - 1]
    BY <1>2, FlushRun
  <2>2. n \in 1 .. (sent - Len(delivered))
    BY <2>1, SnType, ParamAssumption DEF IInv, TypeOK, rcvN
  <2>3. Stream!Deliver
    BY <1>2, <2>1, <2>2 DEF Stream!Deliver, Flush, sndVars, rcvN
  <2> QED BY <2>3 DEF Stream!Next
<1>3. CASE UNCHANGED <<sent, delivered>>
  BY <1>3 DEF Stream!rsVars
<1>4. \/ ReadLocal \/ Flush \/ UNCHANGED <<sent, delivered>>
  BY DEF Next, vars, sndVars, rcvVars, Pop, NoteAndSend, RtxCollect, RtxPush,
         RtxFlag, ReceiveAck, HandleDataNack, LoseData, LoseBack, ReceiveData,
         RxProcess
<1> QED BY <1>1, <1>2, <1>3, <1>4

\* The sender, the path and the receiver together implement ReliableStream.
THEOREM RefinesStream == Spec => ImplementsStream
<1>1. Init => Stream!Init BY DEF Init, Stream!Init
<1>2. IInv /\ [Next]_vars => [Stream!Next]_(Stream!rsVars) BY StepRefines
<1> QED BY <1>1, <1>2, Invariant, PTL DEF Spec, ImplementsStream, Stream!Spec

=============================================================================
