----------------------------- MODULE LevelQueue -----------------------------
(***************************************************************************)
(* The multi-level queue of package mlq, as operators on a record, and the *)
(* transmit queues built on it (PushTXPacket of both ends). Callers hold   *)
(* the queue's mutex throughout. A packet stands for its identity key: the *)
(* queues of a stream tell packets apart by type, number and fragment, the *)
(* orphan queue by stream and type, and every caller's key extractor gives *)
(* the key the packet was pushed with. Items are looked up by linear scan  *)
(* and slices are compacted in the code, which changes no queue.           *)
(***************************************************************************)
EXTENDS Slices, SequencesExt, FiniteSets

Levels == 0..5

NewQueue == [items |-> [l \in Levels |-> << >>], mask |-> {}, census |-> {}, size |-> 0]

Has(queue, packet) == packet \in queue.census           \* Get

Top(queue) == CHOOSE l \in queue.mask : \A m \in queue.mask : l <= m

(* Push: FALSE in the code when the key is known already.                  *)
Push(queue, level, packet) ==
  IF Has(queue, packet) THEN queue
  ELSE [items |-> [queue.items EXCEPT ![level] = Append(@, packet)],
        mask |-> queue.mask \cup {level},
        census |-> queue.census \cup {packet},
        size |-> queue.size + 1]

(* What Pop, PopIf, PopAnyIf and RemoveByKey do with the item they found.  *)
Take(queue, level, packet) ==
  [items |-> [queue.items EXCEPT ![level] = Drop(@, {packet})],
   mask |-> IF Len(queue.items[level]) = 1 THEN queue.mask \ {level} ELSE queue.mask,
   census |-> queue.census \ {packet},
   size |-> queue.size - 1]

(* Peek, and the packet that Pop returns.                                  *)
First(queue) == Head(queue.items[Top(queue)])

Pop(queue) == Take(queue, Top(queue), First(queue))

(* RemoveByKey.                                                            *)
RemoveByKey(queue, packet) ==
  IF ~Has(queue, packet) THEN queue
  ELSE Take(queue, CHOOSE l \in queue.mask : Contains(queue.items[l], packet), packet)

(* RemoveByKey or PopAnyIf, one packet after the other.                    *)
RemoveAll(queue, packets) ==
  LET left == [l \in Levels |-> Drop(queue.items[l], packets)]
  IN  [items |-> left,
       mask |-> {l \in queue.mask : left[l] # << >>},
       census |-> queue.census \ packets,
       size |-> queue.size - Cardinality(queue.census \cap packets)]

(* PopAnyIf: the packets its predicate holds of in the levels it may look  *)
(* at, in the order in which it finds them.                                *)
Found(queue, lowest, wanted) ==
  LET Matches(packet) == packet \in wanted
  IN  FlattenSeq([i \in 1..(lowest + 1) |->
        IF i - 1 \in queue.mask THEN SelectSeq(queue.items[i - 1], Matches) ELSE << >>])

-----------------------------------------------------------------------------
(* Transmit queues. A retransmission is of the number of the data packet.  *)

LevelOf ==
  [ack |-> 0, result |-> 0, rst |-> 0, resend |-> 1, data |-> 3, close |-> 4, ping |-> 5]
Packable == {"ack", "result"}
PackedLevels == 2

(* Mutant: a retransmission joins the data it repeats.                     *)
PushTXPacketBeside(queue, packet) ==
  IF packet = "data" /\ Has(queue, "resend") THEN queue
  ELSE Push(queue, LevelOf[packet], packet)

(* PushTXPacket: data gives way to a retransmission of it.                 *)
PushTXPacket(queue, packet) ==
  IF packet = "data" /\ Has(queue, "resend") THEN queue
  ELSE LET pushed == Push(queue, LevelOf[packet], packet)
       IN  IF packet = "resend" /\ ~Has(queue, "resend") THEN RemoveByKey(pushed, "data")
           ELSE pushed

(* RemoveQueuedData, RemoveQueuedDataNack.                                 *)
RemoveQueuedData(queue) == RemoveByKey(RemoveByKey(queue, "data"), "resend")

-----------------------------------------------------------------------------
(* What every operation keeps: the census is the queued packets, each      *)
(* queued once, the bits are the levels that have some, and the size is    *)
(* their number. A bit or a key that is left over would make Peek and Pop  *)
(* spin or refuse a packet for ever.                                       *)
QueueIsCounted(queue) ==
  /\ \A l \in Levels : IsInjective(queue.items[l])
  /\ \A l, m \in Levels : l # m => ToSet(queue.items[l]) \cap ToSet(queue.items[m]) = {}
  /\ queue.census = UNION {ToSet(queue.items[l]) : l \in Levels}
  /\ queue.mask = {l \in Levels : queue.items[l] # << >>}
  /\ queue.size = Cardinality(queue.census)

=============================================================================
