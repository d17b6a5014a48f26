--------------------------- MODULE BalancerChoice ---------------------------
(***************************************************************************)
(* How the balancer (internal/client/balancer.go) picks among the valid    *)
(* connections of a snapshot. "valid" is the sequence snap.valid, counter  *)
(* the round-robin counter before the call. The random strategy may return *)
(* any distinct connections and needs no definition.                       *)
(***************************************************************************)
EXTENDS Integers, Sequences, FiniteSets

(* normalizeRequiredCount with the default 1 of GetUniqueConnections.      *)
RequiredCount(valid, required) ==
  LET asked == IF required <= 0 THEN 1 ELSE required
  IN  IF valid <= 0 THEN 0 ELSE IF asked > valid THEN valid ELSE asked

(* What selecting "count" connections adds to the round-robin counter.     *)
Step(count) == IF count < 1 THEN 1 ELSE count

(* rotatedValidIndices: the valid connections from the counter's one on.   *)
Rotated(valid, counter) ==
  [i \in 1..Len(valid) |-> valid[(((counter % Len(valid)) + i - 1) % Len(valid)) + 1]]

(* selectRoundRobin, roundRobinBestConnection.                             *)
RoundRobin(valid, counter, count) == SubSeq(Rotated(valid, counter), 1, count)

(* Mutant: the comparison is the wrong way round.                          *)
FirstWorst(order, among, score) ==
  CHOOSE i \in among :
    /\ \A j \in among : score[order[j]] <= score[order[i]]
    /\ \A j \in among : j < i => score[order[j]] # score[order[i]]

(* The first of the lowest scores at the positions "among".                *)
FirstLowest(order, among, score) ==
  CHOOSE i \in among :
    /\ \A j \in among : score[order[i]] <= score[order[j]]
    /\ \A j \in among : j < i => score[order[j]] # score[order[i]]

(* selectLowestScore: a selection sort of the first "count" of the rotated *)
(* connections; bestScoredConnection for one.                              *)
LowestScores(valid, counter, count, score) ==
  LET sorted[i \in 0..count] ==
        IF i = 0 THEN Rotated(valid, counter)
        ELSE LET before == sorted[i - 1]
                 m == FirstLowest(before, i..Len(valid), score)
             IN  [before EXCEPT ![i] = before[m], ![m] = before[i]]
  IN  SubSeq(sorted[count], 1, count)

(* GetBestConnectionExcluding, for a failover: the best of the others, or  *)
(* none. Round robin is the case of equal scores.                          *)
BestOther(valid, counter, score, exclude) ==
  LET order == Rotated(valid, counter)
      others == {i \in DOMAIN order : order[i] # exclude}
  IN  IF others = {} THEN {} ELSE {order[FirstLowest(order, others, score)]}

-----------------------------------------------------------------------------
(* The statistics of a connection, [sent, acked, rttMicrosSum, rttCount].  *)

SignalFrom == 5        \* samples from which a connection has a score of its own
NeutralLoss == 500
Unmeasured == 999000

(* lossScore: lost packets per thousand.                                   *)
LossScore(s) ==
  IF s.sent < SignalFrom THEN NeutralLoss
  ELSE IF s.acked >= s.sent THEN 0
  ELSE ((s.sent - s.acked) * 1000) \div s.sent

(* latencyScore: the mean round trip in microseconds.                      *)
LatencyScore(s) == IF s.rttCount < SignalFrom THEN Unmeasured ELSE s.rttMicrosSum \div s.rttCount

HalfLifeThreshold == 1000    \* connectionStatsHalfLifeThreshold

(* applyHalfLifeLocked.                                                    *)
HalfLife(s) ==
  IF \A f \in DOMAIN s \ {"rttMicrosSum"} : s[f] <= HalfLifeThreshold THEN s
  ELSE [f \in DOMAIN s |-> s[f] \div 2]

(* ReportSend, ReportSuccess with a measured round trip.                   *)
ReportSend(s) == HalfLife([s EXCEPT !.sent = @ + 1])
ReportSuccess(s, rtt) ==
  HalfLife([s EXCEPT !.acked = @ + 1, !.rttMicrosSum = @ + rtt, !.rttCount = @ + 1])

-----------------------------------------------------------------------------
(* What they are for, of any list and any scores.                          *)

ListOf(s) == {s[i] : i \in DOMAIN s}

(* A selection has as many connections as there are, up to what was asked, *)
(* all of them different, and no connection left out has a lower score     *)
(* than one selected (GetUniqueConnections, GetBestConnection).            *)
SelectsLowest(valid, counter, asked, score) ==
  LET count == RequiredCount(Len(valid), asked)
      best == LowestScores(valid, counter, count, score)
  IN  /\ count = IF asked > Len(valid) THEN Len(valid) ELSE IF asked <= 0 THEN 1 ELSE asked
      /\ Len(best) = count /\ Cardinality(ListOf(best)) = count
      /\ ListOf(best) \subseteq ListOf(valid)
      /\ \A k \in ListOf(best), l \in ListOf(valid) \ ListOf(best) : score[k] <= score[l]

(* A failover goes to the best of the others whenever there is another.    *)
FailsOver(valid, counter, score, exclude) ==
  LET others == ListOf(valid) \ {exclude}
      best == BestOther(valid, counter, score, exclude)
  IN  IF others = {} THEN best = {}
      ELSE \E k \in others : best = {k} /\ \A l \in others : score[k] <= score[l]

(* Selections that follow each other share the connections out: two that   *)
(* together ask for all of them get every one, from wherever the counter   *)
(* that all goroutines advance stands (selectRoundRobin).                  *)
SharesOut(valid, counter, first) ==
  LET one == RoundRobin(valid, counter, first)
      two == RoundRobin(valid, counter + Step(first), Len(valid) - first)
  IN  ListOf(one) \cup ListOf(two) = ListOf(valid)

(* Aging the statistics of a path with a steady round trip leaves what     *)
(* they say: the loss moves by 2 per thousand at most, the latency by one  *)
(* part in 400 and a microsecond, whichever report halves them.            *)
AgesWell(sent, acked, rtt) ==
  LET s == [sent |-> sent, acked |-> acked, rttMicrosSum |-> acked * rtt, rttCount |-> acked]
  IN  \A after \in {ReportSend(s), ReportSuccess(s, rtt)} :
        /\ LossScore(after) - LossScore(s) \in -2..2
        /\ acked > 400 => (LatencyScore(after) - rtt) * 400 \in -(rtt + 400)..(rtt + 400)

-----------------------------------------------------------------------------
(* What Resolvers checks of these definitions, over bounded inputs.        *)

Lists == UNION {[1..n -> 1..n] : n \in 1..4}
Snapshots == {valid \in Lists : \A i, j \in DOMAIN valid : valid[i] = valid[j] => i = j}

BestAreSelected ==
  \A valid \in Snapshots, counter \in 0..4 :
    \A score \in [1..Len(valid) -> 0..2] :
      /\ \A asked \in 0..5 : SelectsLowest(valid, counter, asked, score)
      /\ FailsOver(valid, counter, score, 1)

AllHaveTurns ==
  \A valid \in Snapshots, counter \in 0..8 :
    \A first \in 1..Len(valid) - 1 : SharesOut(valid, counter, first)

AgingKeepsScores ==
  \A sent \in {1000, 999}, acked \in {1000, 999, 994, 905, 500, 7}, rtt \in {0, 40, 1500, 80001} :
    AgesWell(sent, acked, rtt)

=============================================================================
