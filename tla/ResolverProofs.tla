--------------------------- MODULE ResolverProofs ---------------------------
(***************************************************************************)
(* Proofs about the client's resolvers, for any number of resolvers,       *)
(* recheck goroutines and sizes: the search of a scan finds the largest    *)
(* size, auto-disable never goes below its floor, no recheck entry is left *)
(* in flight, what is in use carries the synced size, what was disabled    *)
(* stays out, a stored plan names active resolvers only, and the balancer's*)
(* strategies select, share out and age as they should.                    *)
(***************************************************************************)
EXTENDS Resolvers, FiniteSetTheorems, TLAPS

-----------------------------------------------------------------------------
(* The search of a scan.                                                   *)

(* Induction over the naturals, as the least element of a set of them.     *)
LEMMA LeastNumber ==
  ASSUME NEW N \in SUBSET Nat, N # {}
  PROVE  \E m \in N : \A n \in N : m <= n
  <1>1. PICK m \in N : \A n \in N : <<n, m>> \notin OpToRel(<, Nat)
    BY WFMin, NatLessThanWellFounded, Zenon
  <1>2. \A n \in N : n < m => <<n, m>> \in OpToRel(<, Nat)
    BY Zenon DEF OpToRel
  <1>3. \A n \in N : ~ (n < m)
    BY <1>1, <1>2
  <1> QED BY <1>3

(* What the loop of binarySearchMTU has left to do, as a recursive         *)
(* function of its variables: one pass, and the values from there on.      *)
Loops(low, high) == [left : low..high + 1, right : low - 1..high, best : low - 1..high]
Span(s) == IF s.left > s.right THEN 0 ELSE s.right - s.left + 1
Larger(s, mid) == [left |-> mid + 1, right |-> s.right, best |-> mid]
Smaller(s, mid) == [left |-> s.left, right |-> mid - 1, best |-> s.best]
Middle(s) == (s.left + s.right) \div 2
Pass(f, s, got) ==
  IF s.left > s.right THEN s.best
  ELSE IF Middle(s) \in got THEN f[Larger(s, Middle(s))] ELSE f[Smaller(s, Middle(s))]

LEMMA PassShrinks ==
  ASSUME NEW low \in Int, NEW high \in Int, NEW s \in Loops(low, high), s.left <= s.right
  PROVE  /\ Middle(s) \in s.left..s.right
         /\ Larger(s, Middle(s)) \in Loops(low, high) /\ Span(Larger(s, Middle(s))) < Span(s)
         /\ Smaller(s, Middle(s)) \in Loops(low, high) /\ Span(Smaller(s, Middle(s))) < Span(s)
  <1>1. /\ s.left \in Int /\ s.right \in Int /\ s.best \in Int
        /\ low <= s.left /\ s.right <= high /\ s.best \in low - 1..high
    BY DEF Loops
  <1>2. Middle(s) \in Int /\ s.left <= Middle(s) /\ Middle(s) <= s.right
    BY <1>1 DEF Middle
  <1>3. /\ Middle(s) + 1 \in low..high + 1 /\ Middle(s) - 1 \in low - 1..high
        /\ Middle(s) \in low - 1..high
        /\ s.left \in low..high + 1 /\ s.right \in low - 1..high
    BY <1>1, <1>2
  <1>4. Larger(s, Middle(s)) \in Loops(low, high) /\ Smaller(s, Middle(s)) \in Loops(low, high)
    BY <1>1, <1>3 DEF Larger, Smaller, Loops
  <1>5. /\ Larger(s, Middle(s)).left = Middle(s) + 1 /\ Larger(s, Middle(s)).right = s.right
        /\ Smaller(s, Middle(s)).left = s.left /\ Smaller(s, Middle(s)).right = Middle(s) - 1
    BY DEF Larger, Smaller
  <1>6. Span(Larger(s, Middle(s))) < Span(s) /\ Span(Smaller(s, Middle(s))) < Span(s)
    BY <1>1, <1>2, <1>5 DEF Span
  <1> QED BY <1>1, <1>2, <1>4, <1>6

LEMMA SpanIsNat ==
  ASSUME NEW low \in Int, NEW high \in Int, NEW s \in Loops(low, high)
  PROVE  Span(s) \in Nat
  BY DEF Span, Loops

(* There is a function that is its own pass.                               *)
Solves(f, low, high, got, n) ==
  /\ f = [s \in Loops(low, high) |-> f[s]]
  /\ \A s \in Loops(low, high) : Span(s) < n => f[s] = Pass(f, s, got)

LEMMA SolutionGrows ==
  ASSUME NEW low \in Int, NEW high \in Int, NEW got, NEW n \in Nat, NEW f, Solves(f, low, high, got, n)
  PROVE  Solves([s \in Loops(low, high) |-> Pass(f, s, got)], low, high, got, n + 1)
  <1> DEFINE g == [s \in Loops(low, high) |-> Pass(f, s, got)]
  <1>1. g = [s \in Loops(low, high) |-> g[s]] /\ \A s \in Loops(low, high) : g[s] = Pass(f, s, got)
    OBVIOUS
  <1>2. \A s \in Loops(low, high) : Span(s) < n => g[s] = f[s]
    BY <1>1 DEF Solves
  <1> HIDE DEF g
  <1>3. ASSUME NEW s \in Loops(low, high), Span(s) < n + 1
        PROVE  Pass(g, s, got) = Pass(f, s, got)
    <2>1. CASE s.left > s.right
      BY <2>1 DEF Pass
    <2>2. CASE ~(s.left > s.right)
      <3>1. s.left <= s.right
        BY <2>2 DEF Loops
      <3>2. /\ Larger(s, Middle(s)) \in Loops(low, high) /\ Span(Larger(s, Middle(s))) < Span(s)
            /\ Smaller(s, Middle(s)) \in Loops(low, high) /\ Span(Smaller(s, Middle(s))) < Span(s)
        BY <3>1, PassShrinks
      <3>3. /\ Span(s) \in Nat /\ Span(Larger(s, Middle(s))) \in Nat /\ Span(Smaller(s, Middle(s))) \in Nat
        BY <3>2, SpanIsNat
      <3>4. Span(Larger(s, Middle(s))) < n /\ Span(Smaller(s, Middle(s))) < n
        BY <1>3, <3>2, <3>3
      <3>5. g[Larger(s, Middle(s))] = f[Larger(s, Middle(s))] /\ g[Smaller(s, Middle(s))] = f[Smaller(s, Middle(s))]
        BY <1>2, <3>2, <3>4
      <3> QED BY <3>5 DEF Pass
    <2> QED BY <2>1, <2>2
  <1>4. Solves(g, low, high, got, n + 1)
    BY <1>1, <1>3 DEF Solves
  <1> QED BY <1>4 DEF g

LEMMA SolutionExists ==
  ASSUME NEW low \in Int, NEW high \in Int, NEW got, NEW n \in Nat
  PROVE  \E f : Solves(f, low, high, got, n)
  <1> DEFINE Bad == {i \in Nat : ~ \E f : Solves(f, low, high, got, i)}
  <1>1. SUFFICES ASSUME Bad # {} PROVE FALSE
    OBVIOUS
  <1>2. PICK i \in Bad : \A j \in Bad : i <= j
    <2>1. Bad \in SUBSET Nat
      OBVIOUS
    <2> HIDE DEF Bad
    <2> QED BY <1>1, <2>1, LeastNumber
  <1>3. CASE i = 0
    <2>1. Solves([s \in Loops(low, high) |-> 0], low, high, got, 0)
      BY SpanIsNat DEF Solves
    <2> QED BY <1>2, <1>3, <2>1
  <1>4. CASE i # 0
    <2>1. i - 1 \in Nat /\ i - 1 \notin Bad
      BY <1>2, <1>4
    <2>2. PICK f : Solves(f, low, high, got, i - 1)
      BY <2>1
    <2>3. Solves([s \in Loops(low, high) |-> Pass(f, s, got)], low, high, got, (i - 1) + 1)
      BY <2>1, <2>2, SolutionGrows
    <2>4. (i - 1) + 1 = i
      BY <1>2
    <2> QED BY <1>2, <2>3, <2>4
  <1> QED BY <1>3, <1>4

SearchEnds(f, low, high, got) ==
  /\ \A s \in Loops(low, high) : f[s] = Pass(f, s, got)
  /\ \A best : SearchBetween(low, high, best, got) = f[[left |-> low, right |-> high, best |-> best]]

LEMMA SearchSolves ==
  ASSUME NEW low \in Int, NEW high \in Int, NEW got
  PROVE  \E f : SearchEnds(f, low, high, got)
  <1> DEFINE n == IF high >= low THEN high - low + 2 ELSE 1
             body(f) == [s \in Loops(low, high) |-> Pass(f, s, got)]
             from == CHOOSE f : f = body(f)
  <1>1. PICK f : Solves(f, low, high, got, n)
    <2>1. n \in Nat
      OBVIOUS
    <2> QED BY <2>1, SolutionExists
  <1>2. \A s \in Loops(low, high) : Span(s) < n
    BY DEF Span, Loops
  <1>3. f = body(f)
    <2>1. f = [s \in Loops(low, high) |-> f[s]]
      BY <1>1 DEF Solves
    <2>2. \A s \in Loops(low, high) : f[s] = Pass(f, s, got)
      BY <1>1, <1>2 DEF Solves
    <2> HIDE DEF n
    <2> QED BY <2>1, <2>2
  <1>4. from = body(from)
    BY <1>3
  <1>5. \A best : SearchBetween(low, high, best, got) = from[[left |-> low, right |-> high, best |-> best]]
    BY DEF SearchBetween, Loops, Pass, Larger, Smaller, Middle
  <1> HIDE DEF from
  <1> QED BY <1>4, <1>5 DEF SearchEnds

(* The best size is one that got through, or the one known at first.       *)
LEMMA LoopFindsGot ==
  ASSUME NEW low \in Int, NEW high \in Int, NEW got, NEW f,
         \A s \in Loops(low, high) : f[s] = Pass(f, s, got)
  PROVE  \A s \in Loops(low, high) : f[s] \in got \cup {s.best}
  <1> DEFINE Bad == {s \in Loops(low, high) : f[s] \notin got \cup {s.best}}
             Spans == {Span(s) : s \in Bad}
  <1>1. SUFFICES ASSUME Bad # {} PROVE FALSE
    OBVIOUS
  <1>2. PICK s \in Bad : \A t \in Bad : Span(s) <= Span(t)
    <2>1. Spans \in SUBSET Nat /\ Spans # {}
      BY <1>1, SpanIsNat
    <2>2. PICK m \in Spans : \A n \in Spans : m <= n
      <3> HIDE DEF Spans
      <3> QED BY <2>1, LeastNumber
    <2> QED BY <2>2
  <1>3. s.left <= s.right
    BY <1>2 DEF Pass, Loops
  <1>4. \A t \in Loops(low, high) : Span(t) < Span(s) => f[t] \in got \cup {t.best}
    BY <1>2, SpanIsNat
  <1>5. /\ f[Larger(s, Middle(s))] \in got \cup {Larger(s, Middle(s)).best}
        /\ f[Smaller(s, Middle(s))] \in got \cup {Smaller(s, Middle(s)).best}
    BY <1>2, <1>3, <1>4, PassShrinks
  <1>6. f[s] = IF Middle(s) \in got THEN f[Larger(s, Middle(s))] ELSE f[Smaller(s, Middle(s))]
    BY <1>2, <1>3 DEF Pass, Loops
  <1> QED BY <1>2, <1>5, <1>6 DEF Larger, Smaller

(* With no probe lost, everything below the left end got through and       *)
(* nothing above the right end did.                                        *)
Narrows(s, carried) == s.best = s.left - 1 /\ s.best <= carried /\ carried <= s.right

LEMMA LoopFindsCarried ==
  ASSUME NEW low \in Int, NEW high \in Int, NEW carried \in Int, NEW bottom \in Int, bottom <= low, NEW f,
         \A s \in Loops(low, high) : f[s] = Pass(f, s, bottom..carried)
  PROVE  \A s \in Loops(low, high) : Narrows(s, carried) => f[s] = carried
  <1> DEFINE got == bottom..carried
             Bad == {s \in Loops(low, high) : Narrows(s, carried) /\ f[s] # carried}
             Spans == {Span(s) : s \in Bad}
  <1>1. SUFFICES ASSUME Bad # {} PROVE FALSE
    OBVIOUS
  <1>2. PICK s \in Bad : \A t \in Bad : Span(s) <= Span(t)
    <2>1. Spans \in SUBSET Nat /\ Spans # {}
      BY <1>1, SpanIsNat
    <2>2. PICK m \in Spans : \A n \in Spans : m <= n
      <3> HIDE DEF Spans
      <3> QED BY <2>1, LeastNumber
    <2> QED BY <2>2
  <1>3. s.left <= s.right
    BY <1>2 DEF Pass, Loops, Narrows
  <1>4. \A t \in Loops(low, high) : Span(t) < Span(s) /\ Narrows(t, carried) => f[t] = carried
    BY <1>2, SpanIsNat
  <1>5. Middle(s) \in s.left..s.right /\ s.left \in Int /\ s.right \in Int /\ low <= s.left
    <2>1. s \in Loops(low, high)
      BY <1>2
    <2>2. s.left \in low..high + 1 /\ s.right \in low - 1..high
      BY <2>1 DEF Loops
    <2>3. Middle(s) \in s.left..s.right
      BY <1>3, <2>1, PassShrinks
    <2> QED BY <2>2, <2>3
  <1>6. Middle(s) \in got <=> Middle(s) <= carried
    BY <1>5
  <1>7. f[s] = IF Middle(s) \in got THEN f[Larger(s, Middle(s))] ELSE f[Smaller(s, Middle(s))]
    BY <1>2, <1>3 DEF Pass, Loops
  <1>8. IF Middle(s) \in got THEN Narrows(Larger(s, Middle(s)), carried) ELSE Narrows(Smaller(s, Middle(s)), carried)
    BY <1>2, <1>5, <1>6 DEF Narrows, Larger, Smaller
  <1> QED BY <1>2, <1>3, <1>4, <1>7, <1>8, PassShrinks

(* The search for the largest size that a path carries finds one whose     *)
(* probe got through whichever probes were lost, and the largest when none *)
(* was, between any two boundaries (binarySearchMTU).                      *)
THEOREM SearchFinds == \A low, high \in Int : FindsLargest(low, high)
  <1> SUFFICES ASSUME NEW low \in Int, NEW high \in Int PROVE FindsLargest(low, high)
    OBVIOUS
  <1> DEFINE start == [left |-> low + 1, right |-> high - 1, best |-> low]
  <1>1. /\ low < high => start \in Loops(low + 1, high - 1)
        /\ low + 1 \in Int /\ high - 1 \in Int
    BY DEF Loops
  <1>2. ASSUME NEW got \in SUBSET (low..high) PROVE Search(low, high, got) \in got \cup {0}
    <2>1. CASE high < low \/ high \in got \/ low \notin got
      BY <2>1 DEF Search
    <2>2. CASE ~(high < low \/ high \in got \/ low \notin got)
      <3>1. low < high /\ low \in got
        BY <2>2
      <3>2. PICK f : SearchEnds(f, low + 1, high - 1, got)
        BY <1>1, SearchSolves
      <3>3. f[start] \in got \cup {start.best}
        <4> HIDE DEF start
        <4> QED BY <1>1, <3>1, <3>2, LoopFindsGot DEF SearchEnds
      <3> QED BY <2>2, <3>1, <3>2, <3>3 DEF Search, SearchEnds
    <2> QED BY <2>1, <2>2
  <1>3. ASSUME NEW carried \in low - 1..high
        PROVE  Search(low, high, low..carried) = IF carried < low THEN 0 ELSE carried
    <2> DEFINE got == low..carried
    <2>1. CASE high < low \/ high \in got \/ low \notin got
      BY <2>1 DEF Search
    <2>2. CASE ~(high < low \/ high \in got \/ low \notin got)
      <3>1. low < high /\ low \in got /\ low <= carried /\ carried <= high - 1
        BY <2>2
      <3>2. PICK f : SearchEnds(f, low + 1, high - 1, got)
        <4> HIDE DEF got
        <4> QED BY <1>1, SearchSolves
      <3>3. Narrows(start, carried)
        BY <3>1 DEF Narrows
      <3>4. f[start] = carried
        <4>1. low <= low + 1 /\ carried \in Int
          BY <3>1
        <4> HIDE DEF start
        <4> QED BY <1>1, <3>1, <3>2, <3>3, <4>1, LoopFindsCarried DEF SearchEnds
      <3> QED BY <2>2, <3>1, <3>2, <3>4 DEF Search, SearchEnds
    <2> QED BY <2>1, <2>2
  <1> QED BY <1>2, <1>3 DEF FindsLargest


-----------------------------------------------------------------------------
(* The types.                                                              *)

Job == [key : Conns \cup {None}, at : {"free", "probing", "apply", "activate", "finish"}]

(* What is needed of the types; a source entry's size may be anything.     *)
TypedParts ==
  /\ started \in BOOLEAN /\ scanned \subseteq Conns
  /\ active \subseteq Conns /\ inFlight \subseteq Conns
  /\ jobs \in [Slots -> Job]
  /\ loop \in [left : SUBSET Conns, key : Conns \cup {None},
               at : {"idle", "next", "marked", "applied"}]
  /\ merging \in [key : Conns \cup {None}, at : {"idle", "merged", "published"}]
  /\ DOMAIN source = Conns
  /\ \A k \in Conns : "valid" \in DOMAIN source[k]

-----------------------------------------------------------------------------
(* Rechecks in flight.                                                     *)

JobsAreKeyed ==
  \A g \in Slots : IF jobs[g].at = "free" THEN jobs[g].key = None ELSE jobs[g].key \in Conns

LEMMA FreeIsJob == Free \in Job
  BY DEF Free, Job

LEMMA JobSteps ==
  ASSUME jobs \in [Slots -> Job], NEW g \in Slots,
         NEW step \in {"probing", "apply", "activate", "finish"}, At(g, step)
  PROVE  /\ jobs' \in [Slots -> Job]
         /\ jobs'[g].key = jobs[g].key /\ jobs'[g].at = step
         /\ \A h \in Slots \ {g} : jobs'[h] = jobs[h]
  BY DEF At, Job

LEMMA JobDone ==
  ASSUME jobs \in [Slots -> Job], NEW g \in Slots, Done(g)
  PROVE  /\ jobs' \in [Slots -> Job] /\ jobs'[g] = Free
         /\ \A h \in Slots \ {g} : jobs'[h] = jobs[h]
  BY FreeIsJob DEF Done

LEMMA JobStarts ==
  ASSUME jobs \in [Slots -> Job], NEW g \in Slots, NEW k \in Conns,
         jobs' = [jobs EXCEPT ![g] = [key |-> k, at |-> "probing"]]
  PROVE  /\ jobs' \in [Slots -> Job]
         /\ jobs'[g].key = k /\ jobs'[g].at = "probing"
         /\ \A h \in Slots \ {g} : jobs'[h] = jobs[h]
  BY DEF Job

-----------------------------------------------------------------------------
(* The snapshot's two writers.                                             *)

LEMMA MTUIsSet ==
  ASSUME TypedParts, NEW k \in Conns, NEW size, SetConnectionMTU(k, size)
  PROVE  /\ DOMAIN source' = Conns
         /\ \A j \in Conns : "valid" \in DOMAIN source'[j] /\ source'[j].valid = source[j].valid
         /\ active' = IF source[k].valid THEN active \cup {k} ELSE active \ {k}
  <1>1. source' = [source EXCEPT ![k] = [source[k] EXCEPT !.mtu = size]]
    BY DEF SetConnectionMTU, TypedParts
  <1>2. /\ "valid" \in DOMAIN [source[k] EXCEPT !.mtu = size]
        /\ [source[k] EXCEPT !.mtu = size].valid = source[k].valid
    BY DEF TypedParts
  <1> QED BY <1>1, <1>2 DEF SetConnectionMTU, Publish, TypedParts

LEMMA ValidityIsSet ==
  ASSUME TypedParts, NEW k \in Conns, NEW valid \in BOOLEAN, SetConnectionValidity(k, valid)
  PROVE  /\ DOMAIN source' = Conns
         /\ \A j \in Conns : "valid" \in DOMAIN source'[j]
         /\ source'[k].valid = valid /\ \A j \in Conns \ {k} : source'[j] = source[j]
         /\ active' = IF valid THEN active \cup {k} ELSE active \ {k}
  <1>1. source' = [source EXCEPT ![k] = [source[k] EXCEPT !.valid = valid]]
    BY DEF SetConnectionValidity, TypedParts
  <1>2. /\ "valid" \in DOMAIN [source[k] EXCEPT !.valid = valid]
        /\ [source[k] EXCEPT !.valid = valid].valid = valid
    BY DEF TypedParts
  <1> QED BY <1>1, <1>2 DEF SetConnectionValidity, Publish, TypedParts

-----------------------------------------------------------------------------
(* The invariant.                                                          *)

(* Nothing runs before there are resolvers to run on.                      *)
QuietBeforeStart ==
  ~started => loop.at = "idle" /\ merging.at = "idle" /\ \A g \in Slots : jobs[g] = Free

Busy(g, k) == jobs[g].key = k /\ jobs[g].at \in {"probing", "apply", "activate"}

(* Until its own scan result has come, a resolver has one recheck at most, *)
(* which is known to be in flight, and its source agrees with the snapshot *)
(* when it is out.                                                         *)
OneJobBeforeResult ==
  \A k \in Conns \ scanned :
    /\ \A g \in Slots : jobs[g].key = k => k \in inFlight
    /\ \A g, h \in Slots : jobs[g].key = k /\ jobs[h].key = k => g = h
    /\ \A g \in Slots : Busy(g, k) => k \notin active
    /\ started /\ k \notin active => ~source[k].valid

(* A recheck that is still to measure an active resolver finds it valid:   *)
(* its SetConnectionMTU does not take the resolver from the snapshot.      *)
BusyIsValid ==
  \A k \in Conns : \A g \in Slots : started /\ k \in active /\ Busy(g, k) => source[k].valid

(* Between the two critical sections of a disabling nobody else takes a    *)
(* resolver away.                                                          *)
DisablingIsAllowed ==
  loop.at = "marked" => loop.key \in active /\ Cardinality(active) > KeepActive

MergesOwnResult == merging.at # "idle" => merging.key \in scanned

FloorInv ==
  /\ TypedParts /\ JobsAreKeyed /\ QuietBeforeStart /\ OneJobBeforeResult
  /\ BusyIsValid /\ DisablingIsAllowed /\ MergesOwnResult

LEMMA Grows ==
  ASSUME active \subseteq Conns, active' \subseteq Conns, active \subseteq active'
  PROVE  /\ Cardinality(active) <= Cardinality(active')
         /\ Cardinality(active) \in Nat /\ Cardinality(active') \in Nat
  BY FS_Subset, FS_CardinalityType, ConnsAssumption

LEMMA Shrinks ==
  ASSUME active \subseteq Conns, NEW k \in active, active' = active \ {k}
  PROVE  Cardinality(active') = Cardinality(active) - 1 /\ Cardinality(active) \in Nat
  BY FS_Subset, FS_CardinalityType, FS_RemoveElement, ConnsAssumption

(* Steps that leave the snapshot and the source as they are.               *)
LEMMA SnapshotStays ==
  ASSUME FloorInv, started, UNCHANGED <<started, scanned, source, active, merging>>,
         jobs' \in [Slots -> Job],
         loop' \in [left : SUBSET Conns, key : Conns \cup {None},
                    at : {"idle", "next", "marked", "applied"}],
         inFlight' \subseteq Conns,
         loop'.at = "marked" => loop'.key \in active /\ Cardinality(active) > KeepActive,
         \A g \in Slots : IF jobs'[g].at = "free" THEN jobs'[g].key = None ELSE jobs'[g].key \in Conns,
         \A g \in Slots, k \in Conns : Busy(g, k)' => Busy(g, k) \/ k \notin active,
         \A k \in Conns \ scanned :
           /\ \A g \in Slots : jobs'[g].key = k => k \in inFlight'
           /\ \A g, h \in Slots : jobs'[g].key = k /\ jobs'[h].key = k => g = h
  PROVE  FloorInv'
  <1>1. TypedParts' /\ JobsAreKeyed' /\ MergesOwnResult'
    BY DEF FloorInv, TypedParts, JobsAreKeyed, MergesOwnResult
  <1>2. QuietBeforeStart'
    BY DEF QuietBeforeStart
  <1>3. OneJobBeforeResult'
    BY DEF FloorInv, OneJobBeforeResult, Busy
  <1>4. BusyIsValid'
    BY DEF FloorInv, BusyIsValid, Busy
  <1>5. DisablingIsAllowed'
    BY DEF DisablingIsAllowed
  <1> QED BY <1>1, <1>2, <1>3, <1>4, <1>5 DEF FloorInv

-----------------------------------------------------------------------------
(* The scan.                                                               *)

LEMMA FreeIsNobodys ==
  ASSUME \A g \in Slots : jobs[g] = Free
  PROVE  \A g \in Slots, k \in Conns : jobs[g].key # k
  BY ConnsAssumption DEF Free

LEMMA ScanResultKeeps ==
  ASSUME FloorInv, NEW k \in Conns, ScanResult(k)
  PROVE  FloorInv'
  <1>1. /\ ~started /\ \A g \in Slots : jobs[g] = Free
        /\ loop.at = "idle" /\ merging.at = "idle"
        /\ UNCHANGED <<jobs, loop, merging, inFlight>>
    BY DEF FloorInv, ScanResult, QuietBeforeStart, recheckVars
  <1>2. /\ JobsAreKeyed' /\ DisablingIsAllowed' /\ MergesOwnResult' /\ QuietBeforeStart' /\ BusyIsValid'
        /\ \A g \in Slots, c \in Conns : jobs'[g].key # c
    BY <1>1, FreeIsNobodys DEF FloorInv, JobsAreKeyed, DisablingIsAllowed, MergesOwnResult,
                               QuietBeforeStart, BusyIsValid, Busy, Free
  <1>3. PICK m : LET merged == [source EXCEPT ![k] = Scanned(m)]
                     valid == {c \in Conns : merged[c].valid}
                 IN  \/ /\ source' = merged /\ scanned' = scanned \cup {k}
                        /\ started' = TRUE /\ active' = valid
                     \/ /\ scanned' \subseteq Conns /\ UNCHANGED <<started, active>>
                        /\ source' \in {merged, [c \in Conns |-> [valid |-> FALSE, mtu |-> 0]]}
    BY DEF ScanResult, ActivateInitialMTUSelection, Publish, FloorInv, TypedParts
  <1> DEFINE merged == [source EXCEPT ![k] = Scanned(m)]
  <1>4. DOMAIN merged = Conns /\ \A c \in Conns : "valid" \in DOMAIN merged[c]
    BY DEF FloorInv, TypedParts, Scanned
  <1> HIDE DEF merged
  <1>5. CASE /\ source' = merged /\ scanned' = scanned \cup {k}
             /\ started' = TRUE /\ active' = {c \in Conns : merged[c].valid}
    <2>1. TypedParts'
      BY <1>1, <1>4, <1>5 DEF FloorInv, TypedParts
    <2>2. OneJobBeforeResult'
      BY <1>2, <1>5 DEF OneJobBeforeResult, Busy
    <2> QED BY <1>2, <2>1, <2>2 DEF FloorInv
  <1>6. CASE /\ scanned' \subseteq Conns /\ UNCHANGED <<started, active>>
             /\ source' \in {merged, [c \in Conns |-> [valid |-> FALSE, mtu |-> 0]]}
    <2>1. TypedParts'
      BY <1>1, <1>4, <1>6 DEF FloorInv, TypedParts
    <2>2. OneJobBeforeResult'
      BY <1>1, <1>2, <1>6 DEF OneJobBeforeResult, Busy
    <2> QED BY <1>2, <2>1, <2>2 DEF FloorInv
  <1> QED BY <1>3, <1>5, <1>6 DEF merged

LEMMA BackgroundResultKeeps ==
  ASSUME FloorInv, NEW k \in Conns, BackgroundResult(k)
  PROVE  FloorInv'
  <1>1. /\ started /\ k \notin scanned /\ scanned' = scanned \cup {k}
        /\ UNCHANGED <<started, active, jobs, loop, inFlight>>
    BY DEF BackgroundResult, recheckVars
  <1>2. PICK m : /\ source' = [source EXCEPT ![k] = [valid |-> BackgroundActivates(m), mtu |-> m]]
                 /\ merging' = IF BackgroundActivates(m) THEN [key |-> k, at |-> "merged"] ELSE NotMerging
    BY DEF BackgroundResult
  <1>3. /\ DOMAIN source' = Conns
        /\ \A c \in Conns : "valid" \in DOMAIN source'[c]
        /\ \A c \in Conns \ {k} : source'[c] = source[c]
    BY <1>2 DEF FloorInv, TypedParts, BackgroundActivates
  <1>4. TypedParts' /\ MergesOwnResult'
    BY <1>1, <1>2, <1>3 DEF FloorInv, TypedParts, MergesOwnResult, NotMerging
  <1>5. JobsAreKeyed' /\ QuietBeforeStart' /\ DisablingIsAllowed'
    BY <1>1 DEF FloorInv, JobsAreKeyed, QuietBeforeStart, DisablingIsAllowed
  <1>6. OneJobBeforeResult'
    BY <1>1, <1>3 DEF FloorInv, OneJobBeforeResult, Busy
  <1>7. BusyIsValid'
    BY <1>1, <1>3 DEF FloorInv, OneJobBeforeResult, BusyIsValid, Busy
  <1> QED BY <1>4, <1>5, <1>6, <1>7 DEF FloorInv

(* A resolver is made valid and active.                                    *)
LEMMA ActivatingKeeps ==
  ASSUME FloorInv, started, NEW k \in Conns, SetConnectionValidity(k, TRUE),
         UNCHANGED <<started, scanned, inFlight, loop>>, jobs' \in [Slots -> Job],
         merging' \in [key : Conns \cup {None}, at : {"idle", "merged", "published"}], MergesOwnResult',
         \A g \in Slots : IF jobs'[g].at = "free" THEN jobs'[g].key = None ELSE jobs'[g].key \in Conns,
         \A g \in Slots : jobs'[g].key = jobs[g].key,
         \A g \in Slots, c \in Conns : Busy(g, c)' => Busy(g, c),
         k \notin scanned => \A g \in Slots : ~Busy(g, k)'
  PROVE  FloorInv'
  <1>1. /\ DOMAIN source' = Conns /\ \A j \in Conns : "valid" \in DOMAIN source'[j]
        /\ source'[k].valid = TRUE /\ \A j \in Conns \ {k} : source'[j] = source[j]
        /\ active' = active \cup {k}
    BY ValidityIsSet DEF FloorInv
  <1>2. TypedParts' /\ JobsAreKeyed' /\ QuietBeforeStart'
    BY <1>1 DEF FloorInv, TypedParts, JobsAreKeyed, QuietBeforeStart
  <1>3. OneJobBeforeResult'
    BY <1>1 DEF FloorInv, OneJobBeforeResult, Busy
  <1>4. BusyIsValid'
    BY <1>1 DEF FloorInv, BusyIsValid, Busy
  <1>5. DisablingIsAllowed'
    <2>1. active \subseteq Conns /\ active' \subseteq Conns /\ active \subseteq active'
      BY <1>1 DEF FloorInv, TypedParts
    <2>2. /\ Cardinality(active) <= Cardinality(active')
          /\ Cardinality(active) \in Nat /\ Cardinality(active') \in Nat
      BY <2>1, Grows
    <2> QED BY <2>1, <2>2, KeepAssumption DEF FloorInv, DisablingIsAllowed
  <1> QED BY <1>2, <1>3, <1>4, <1>5 DEF FloorInv

LEMMA BackgroundEndKeeps ==
  ASSUME FloorInv, BackgroundPublish \/ BackgroundActivated
  PROVE  FloorInv'
  <1>1. /\ started /\ merging.key \in scanned /\ merging.key \in Conns
        /\ merging \in [key : Conns \cup {None}, at : {"idle", "merged", "published"}]
    BY DEF FloorInv, QuietBeforeStart, MergesOwnResult, TypedParts, BackgroundPublish, BackgroundActivated
  <1>2. CASE BackgroundPublish
    <2>1. /\ merging' \in [key : Conns \cup {None}, at : {"idle", "merged", "published"}]
          /\ merging'.key = merging.key
      BY <1>1, <1>2 DEF BackgroundPublish
    <2>2. MergesOwnResult'
      BY <1>1, <1>2, <2>1 DEF MergesOwnResult, BackgroundPublish
    <2> QED BY <1>1, <1>2, <2>1, <2>2, ActivatingKeeps
            DEF BackgroundPublish, recheckVars, FloorInv, TypedParts, JobsAreKeyed, Busy
  <1>3. CASE BackgroundActivated
    <2>1. /\ UNCHANGED <<started, scanned, source, active, jobs, loop>>
          /\ inFlight' = inFlight \ {merging.key} /\ merging' = NotMerging
      BY <1>3 DEF BackgroundActivated, connVars
    <2>2. TypedParts' /\ JobsAreKeyed' /\ QuietBeforeStart' /\ DisablingIsAllowed' /\ MergesOwnResult'
      BY <2>1 DEF FloorInv, TypedParts, JobsAreKeyed, QuietBeforeStart, DisablingIsAllowed,
                  MergesOwnResult, NotMerging
    <2>3. OneJobBeforeResult' /\ BusyIsValid'
      BY <1>1, <2>1 DEF FloorInv, OneJobBeforeResult, BusyIsValid, Busy
    <2> QED BY <2>2, <2>3 DEF FloorInv
  <1> QED BY <1>2, <1>3

-----------------------------------------------------------------------------
(* The health loop.                                                        *)

Loop == [left : SUBSET Conns, key : Conns \cup {None}, at : {"idle", "next", "marked", "applied"}]

LEMMA LoopStays ==
  ASSUME FloorInv, started, UNCHANGED <<started, scanned, source, active, merging, jobs, inFlight>>,
         loop' \in Loop,
         loop'.at = "marked" => loop'.key \in active /\ Cardinality(active) > KeepActive
  PROVE  FloorInv'
  BY SnapshotStays DEF Loop, FloorInv, TypedParts, JobsAreKeyed, OneJobBeforeResult, Busy

LEMMA LoopKeeps ==
  ASSUME FloorInv, AutoDisable \/ MarkDisabled \/ FinishDisable
  PROVE  FloorInv'
  <1>1. loop \in Loop
    BY DEF FloorInv, TypedParts, Loop
  <1>2. started
    BY DEF FloorInv, QuietBeforeStart, AutoDisable, MarkDisabled, FinishDisable
  <1>3. Onward({}) \in Loop /\ \A left \in SUBSET Conns : Onward(left) \in Loop /\ Onward(left).at # "marked"
    BY DEF Onward, Resting, Loop
  <1>4. CASE AutoDisable
    <2>1. PICK silent \in SUBSET Conns : loop' = [loop EXCEPT !.left = silent, !.at = "next"]
      BY <1>4 DEF AutoDisable, FloorInv, TypedParts
    <2>2. loop' \in Loop /\ loop'.at = "next"
      BY <1>1, <2>1 DEF Loop
    <2> QED BY <1>2, <1>4, <2>2, LoopStays DEF AutoDisable, scanVars, connVars, recheckVars
  <1>5. CASE MarkDisabled
    <2>1. /\ UNCHANGED <<started, scanned, source, active, merging, jobs, inFlight>>
          /\ \E k \in loop.left :
               \/ MayDisable(k) /\ loop' = [left |-> loop.left \ {k}, key |-> k, at |-> "marked"]
               \/ \E left \in SUBSET loop.left : loop' = Onward(left)
      BY <1>5 DEF MarkDisabled, scanVars, connVars
    <2>2. /\ loop' \in Loop
          /\ loop'.at = "marked" => loop'.key \in active /\ Cardinality(active) > KeepActive
      BY <1>1, <1>3, <2>1 DEF MayDisable, Loop
    <2> QED BY <1>2, <2>1, <2>2, LoopStays
  <1>6. CASE FinishDisable
    <2>1. loop' \in Loop /\ loop'.at # "marked"
      BY <1>1, <1>3, <1>6 DEF FinishDisable, Loop
    <2> QED BY <1>2, <1>6, <2>1, LoopStays DEF FinishDisable, scanVars, connVars
  <1> QED BY <1>4, <1>5, <1>6

LEMMA DeactivateKeeps ==
  ASSUME FloorInv, Deactivate
  PROVE  FloorInv'
  <1> DEFINE k == loop.key
  <1>1. /\ started /\ k \in active /\ k \in Conns
        /\ UNCHANGED <<started, scanned, merging, inFlight, jobs>>
        /\ loop' = [loop EXCEPT !.at = "applied"]
    BY DEF Deactivate, FloorInv, TypedParts, QuietBeforeStart, DisablingIsAllowed, scanVars, recheckVars
  <1>2. /\ DOMAIN source' = Conns /\ \A j \in Conns : "valid" \in DOMAIN source'[j]
        /\ source'[k].valid = FALSE /\ \A j \in Conns \ {k} : source'[j] = source[j]
        /\ active' = active \ {k}
    BY <1>1, ValidityIsSet DEF Deactivate, FloorInv
  <1>3. TypedParts'
    BY <1>1, <1>2 DEF FloorInv, TypedParts
  <1>4. JobsAreKeyed' /\ QuietBeforeStart' /\ MergesOwnResult'
    BY <1>1 DEF FloorInv, JobsAreKeyed, QuietBeforeStart, MergesOwnResult
  <1>5. DisablingIsAllowed'
    BY <1>1 DEF DisablingIsAllowed, FloorInv, TypedParts
  <1>6. OneJobBeforeResult'
    BY <1>1, <1>2 DEF FloorInv, OneJobBeforeResult, Busy
  <1>7. BusyIsValid'
    BY <1>1, <1>2 DEF FloorInv, BusyIsValid, Busy
  <1> QED BY <1>3, <1>4, <1>5, <1>6, <1>7 DEF FloorInv

LEMMA StartRecheckKeeps ==
  ASSUME FloorInv, NEW k \in Conns, NEW g \in Slots, StartRecheck(k, g)
  PROVE  FloorInv'
  <1>1. /\ started /\ k \notin active /\ k \notin inFlight /\ inFlight' = inFlight \cup {k}
        /\ loop.at = "idle"
        /\ UNCHANGED <<started, scanned, source, active, merging, loop>>
    BY DEF StartRecheck, scanVars, connVars
  <1>2. /\ jobs' \in [Slots -> Job] /\ jobs'[g].key = k /\ jobs'[g].at = "probing"
        /\ \A h \in Slots \ {g} : jobs'[h] = jobs[h]
    BY JobStarts DEF StartRecheck, FloorInv, TypedParts
  <1>3. \A h \in Slots : IF jobs'[h].at = "free" THEN jobs'[h].key = None ELSE jobs'[h].key \in Conns
    BY <1>2 DEF FloorInv, JobsAreKeyed
  <1>4. \A h \in Slots, c \in Conns : Busy(h, c)' => Busy(h, c) \/ c \notin active
    BY <1>1, <1>2 DEF Busy
  <1>5. \A c \in Conns \ scanned :
           /\ \A h \in Slots : jobs'[h].key = c => c \in inFlight'
           /\ \A h, i \in Slots : jobs'[h].key = c /\ jobs'[i].key = c => h = i
    BY <1>1, <1>2 DEF FloorInv, OneJobBeforeResult
  <1> QED BY <1>1, <1>2, <1>3, <1>4, <1>5, SnapshotStays DEF FloorInv, TypedParts

-----------------------------------------------------------------------------
(* A recheck goroutine.                                                    *)

LEMMA JobRuns ==
  ASSUME FloorInv, NEW g \in Slots, jobs[g].at # "free"
  PROVE  started /\ jobs[g].key \in Conns
  BY DEF FloorInv, QuietBeforeStart, JobsAreKeyed, Free

(* A goroutine that ends and clears its mark.                              *)
LEMMA DoneKeeps ==
  ASSUME FloorInv, NEW g \in Slots, jobs[g].at # "free", Done(g),
         inFlight' = inFlight \ {jobs[g].key},
         UNCHANGED <<started, scanned, source, active, merging, loop>>
  PROVE  FloorInv'
  <1>1. started /\ jobs[g].key \in Conns
    BY JobRuns
  <1>2. /\ jobs' \in [Slots -> Job] /\ jobs'[g] = Free
        /\ \A h \in Slots \ {g} : jobs'[h] = jobs[h]
    BY JobDone DEF FloorInv, TypedParts
  <1>3. jobs'[g].at = "free" /\ jobs'[g].key = None /\ None \notin Conns
    BY <1>2, ConnsAssumption DEF Free
  <1>4. \A c \in Conns \ scanned :
           /\ \A h \in Slots : jobs'[h].key = c => c \in inFlight'
           /\ \A h, i \in Slots : jobs'[h].key = c /\ jobs'[i].key = c => h = i
    BY <1>2, <1>3 DEF FloorInv, OneJobBeforeResult
  <1>5. \A h \in Slots : IF jobs'[h].at = "free" THEN jobs'[h].key = None ELSE jobs'[h].key \in Conns
    BY <1>2, <1>3 DEF FloorInv, JobsAreKeyed
  <1>6. \A h \in Slots, c \in Conns : Busy(h, c)' => Busy(h, c)
    BY <1>2, <1>3 DEF Busy
  <1> QED BY <1>1, <1>2, <1>4, <1>5, <1>6, SnapshotStays
          DEF FloorInv, TypedParts, DisablingIsAllowed

LEMMA RecheckKeeps ==
  ASSUME FloorInv, NEW g \in Slots, RecheckFails(g) \/ RecheckPasses(g)
  PROVE  FloorInv'
  <1>1. /\ jobs[g].at = "probing"
        /\ UNCHANGED <<started, scanned, source, active, merging, loop>>
    BY DEF RecheckFails, RecheckPasses, scanVars, connVars
  <1>2. CASE Done(g) /\ inFlight' = inFlight \ {jobs[g].key}
    BY <1>1, <1>2, DoneKeeps
  <1>3. CASE At(g, "apply") /\ UNCHANGED inFlight
    <2>1. /\ jobs' \in [Slots -> Job] /\ jobs'[g].key = jobs[g].key /\ jobs'[g].at = "apply"
          /\ \A h \in Slots \ {g} : jobs'[h] = jobs[h]
      BY <1>3, JobSteps DEF FloorInv, TypedParts
    <2>2. \A h \in Slots : jobs'[h].key = jobs[h].key
      BY <2>1
    <2>3. \A h \in Slots, c \in Conns : Busy(h, c)' => Busy(h, c)
      BY <1>1, <2>1, <2>2 DEF Busy
    <2>4. \A h \in Slots : IF jobs'[h].at = "free" THEN jobs'[h].key = None ELSE jobs'[h].key \in Conns
      BY <1>1, <2>1 DEF FloorInv, JobsAreKeyed
    <2>5. \A c \in Conns \ scanned :
           /\ \A h \in Slots : jobs'[h].key = c => c \in inFlight'
           /\ \A h, i \in Slots : jobs'[h].key = c /\ jobs'[i].key = c => h = i
      BY <1>3, <2>2 DEF FloorInv, OneJobBeforeResult
    <2> QED BY <1>1, <1>3, <2>1, <2>3, <2>4, <2>5, JobRuns, SnapshotStays
            DEF FloorInv, TypedParts, DisablingIsAllowed
  <1> QED BY <1>2, <1>3 DEF RecheckFails, RecheckPasses, ScheduleFailure

(* The size is written; a resolver that is active stays so.                *)
LEMMA ApplyMTUKeeps ==
  ASSUME FloorInv, NEW g \in Slots, ApplyMTU(g)
  PROVE  FloorInv' /\ active \subseteq active'
  <1> DEFINE k == jobs[g].key
  <1>1. /\ jobs[g].at = "apply" /\ started /\ k \in Conns
        /\ UNCHANGED <<started, scanned, merging, inFlight, loop>>
    BY JobRuns DEF ApplyMTU, scanVars, recheckVars
  <1>2. /\ jobs' \in [Slots -> Job] /\ jobs'[g].key = k /\ jobs'[g].at = "activate"
        /\ \A h \in Slots \ {g} : jobs'[h] = jobs[h]
    BY JobSteps DEF ApplyMTU, FloorInv, TypedParts
  <1>3. /\ DOMAIN source' = Conns
        /\ \A j \in Conns : "valid" \in DOMAIN source'[j] /\ source'[j].valid = source[j].valid
        /\ active' = IF source[k].valid THEN active \cup {k} ELSE active \ {k}
    BY <1>1, MTUIsSet DEF ApplyMTU, FloorInv
  <1>4. k \in active => source[k].valid
    BY <1>1 DEF FloorInv, BusyIsValid, Busy
  <1>5. active \subseteq active' /\ active' \subseteq active \cup {k}
    BY <1>3, <1>4
  <1>6. \A h \in Slots, c \in Conns : Busy(h, c)' <=> Busy(h, c)
    BY <1>1, <1>2 DEF Busy
  <1>7. TypedParts'
    BY <1>1, <1>2, <1>3 DEF FloorInv, TypedParts
  <1>8. JobsAreKeyed' /\ QuietBeforeStart' /\ MergesOwnResult'
    BY <1>1, <1>2 DEF FloorInv, JobsAreKeyed, QuietBeforeStart, MergesOwnResult
  <1>9. DisablingIsAllowed'
    <2>1. active \subseteq Conns /\ active' \subseteq Conns
      BY <1>7 DEF FloorInv, TypedParts
    <2>2. /\ Cardinality(active) <= Cardinality(active')
          /\ Cardinality(active) \in Nat /\ Cardinality(active') \in Nat
      BY <1>5, <2>1, Grows
    <2> QED BY <1>1, <1>5, <2>2, KeepAssumption DEF FloorInv, DisablingIsAllowed
  <1>10. OneJobBeforeResult'
    <2> SUFFICES ASSUME NEW c \in Conns \ scanned
                 PROVE  /\ \A h \in Slots : jobs'[h].key = c => c \in inFlight
                        /\ \A h, i \in Slots : jobs'[h].key = c /\ jobs'[i].key = c => h = i
                        /\ \A h \in Slots : Busy(h, c) => c \notin active'
                        /\ c \notin active' => ~source'[c].valid
      BY <1>1, <1>6 DEF OneJobBeforeResult
    <2>1. \A h \in Slots : jobs'[h].key = jobs[h].key
      BY <1>2
    <2>2. CASE c = k
      <3>1. c \notin active /\ ~source[c].valid
        BY <1>1, <2>2 DEF FloorInv, OneJobBeforeResult, Busy
      <3> QED BY <1>1, <1>3, <2>1, <2>2, <3>1 DEF FloorInv, OneJobBeforeResult
    <2>3. CASE c # k
      BY <1>1, <1>3, <1>5, <2>1, <2>3 DEF FloorInv, OneJobBeforeResult
    <2> QED BY <2>2, <2>3
  <1>11. BusyIsValid'
    <2> SUFFICES ASSUME NEW c \in Conns, NEW h \in Slots, c \in active', Busy(h, c)
                 PROVE  source'[c].valid
      BY <1>6 DEF BusyIsValid
    <2>1. CASE c = k
      BY <1>3, <2>1
    <2>2. CASE c # k
      BY <1>1, <1>3, <1>5, <2>2 DEF FloorInv, BusyIsValid
    <2> QED BY <2>1, <2>2
  <1> QED BY <1>5, <1>7, <1>8, <1>9, <1>10, <1>11 DEF FloorInv

LEMMA ActivateKeeps ==
  ASSUME FloorInv, NEW g \in Slots, Activate(g)
  PROVE  FloorInv' /\ active \subseteq active'
  <1> DEFINE k == jobs[g].key
  <1>1. /\ jobs[g].at = "activate" /\ started /\ k \in Conns
        /\ UNCHANGED <<started, scanned, merging, loop>>
    BY JobRuns DEF Activate, scanVars
  <1>2. CASE k \in active
    BY <1>1, <1>2, DoneKeeps DEF Activate, GiveUpActivation, connVars
  <1>3. CASE k \notin active
    <2>1. SetConnectionValidity(k, TRUE) /\ At(g, "finish") /\ UNCHANGED inFlight
      BY <1>3 DEF Activate
    <2>2. /\ jobs' \in [Slots -> Job] /\ jobs'[g].key = k /\ jobs'[g].at = "finish"
          /\ \A h \in Slots \ {g} : jobs'[h] = jobs[h]
      BY <2>1, JobSteps DEF FloorInv, TypedParts
    <2>3. \A h \in Slots : jobs'[h].key = jobs[h].key
      BY <2>2
    <2>4. \A h \in Slots, c \in Conns : Busy(h, c)' => Busy(h, c)
      BY <2>2 DEF Busy
    <2>5. \A h \in Slots : IF jobs'[h].at = "free" THEN jobs'[h].key = None ELSE jobs'[h].key \in Conns
      BY <1>1, <2>2 DEF FloorInv, JobsAreKeyed
    <2>6. k \notin scanned => \A h \in Slots : ~Busy(h, k)'
      BY <1>1, <2>2 DEF FloorInv, OneJobBeforeResult, Busy
    <2>7. MergesOwnResult'
      BY <1>1 DEF FloorInv, MergesOwnResult
    <2>8. FloorInv'
      BY <1>1, <2>1, <2>2, <2>3, <2>4, <2>5, <2>6, <2>7, ActivatingKeeps DEF FloorInv, TypedParts
    <2> QED BY <1>1, <2>1, <2>8, ValidityIsSet DEF FloorInv
  <1> QED BY <1>2, <1>3

LEMMA FinishActivationKeeps ==
  ASSUME FloorInv, NEW g \in Slots, FinishActivation(g)
  PROVE  FloorInv'
  BY DoneKeeps DEF FinishActivation, scanVars, connVars

-----------------------------------------------------------------------------
(* The theorems.                                                           *)

LEMMA DispatcherKeeps ==
  ASSUME FloorInv, DispatchStep \/ UNCHANGED vars
  PROVE  FloorInv' /\ UNCHANGED active
  <1>1. UNCHANGED <<started, scanned, source, active, merging, loop, jobs, inFlight>>
    BY DEF DispatchStep, ChoosePreferred, AssignPreferred, UsePlan, SelectTargets, CachePlan,
           scanVars, connVars, recheckVars, vars
  <1>2. TypedParts' /\ JobsAreKeyed' /\ QuietBeforeStart' /\ DisablingIsAllowed' /\ MergesOwnResult'
    BY <1>1 DEF FloorInv, TypedParts, JobsAreKeyed, QuietBeforeStart, DisablingIsAllowed,
                MergesOwnResult
  <1>3. OneJobBeforeResult' /\ BusyIsValid'
    BY <1>1 DEF FloorInv, OneJobBeforeResult, BusyIsValid, Busy
  <1> QED BY <1>1, <1>2, <1>3 DEF FloorInv

LEMMA FloorStarts == Init => FloorInv
  <1> SUFFICES ASSUME Init PROVE FloorInv
    OBVIOUS
  <1>1. /\ ~started /\ started \in BOOLEAN /\ scanned = {} /\ active = Conns /\ inFlight = {}
        /\ \A g \in Slots : jobs[g] = Free
        /\ jobs \in [Slots -> Job]
    BY FreeIsJob DEF Init
  <1>2. loop.at = "idle" /\ loop \in Loop
    BY DEF Init, Resting, Loop
  <1>3. merging.at = "idle" /\ merging \in [key : Conns \cup {None}, at : {"idle", "merged", "published"}]
    BY DEF Init, NotMerging
  <1>4. DOMAIN source = Conns /\ \A k \in Conns : "valid" \in DOMAIN source[k]
    BY DEF Init
  <1>5. TypedParts
    BY <1>1, <1>2, <1>3, <1>4 DEF TypedParts, Loop
  <1>6. JobsAreKeyed /\ QuietBeforeStart /\ DisablingIsAllowed /\ MergesOwnResult
    BY <1>1, <1>2, <1>3 DEF JobsAreKeyed, QuietBeforeStart, DisablingIsAllowed, MergesOwnResult, Free
  <1>7. OneJobBeforeResult /\ BusyIsValid
    BY <1>1, FreeIsNobodys DEF OneJobBeforeResult, BusyIsValid, Busy
  <1> QED BY <1>5, <1>6, <1>7 DEF FloorInv

(* A step keeps the invariant, and takes a resolver away only when there   *)
(* are enough.                                                             *)
LEMMA StepKeepsFloor ==
  ASSUME FloorInv, [Next]_vars
  PROVE  /\ FloorInv'
         /\ started /\ Cardinality(active') < Cardinality(active) => Cardinality(active') >= KeepActive
  <1>1. CASE \E k \in Conns : ScanResult(k)
    BY <1>1, ScanResultKeeps DEF ScanResult
  <1>2. CASE Deactivate
    <2>1. loop.key \in active /\ active \subseteq Conns /\ Cardinality(active) > KeepActive
      BY <1>2 DEF Deactivate, FloorInv, TypedParts, DisablingIsAllowed
    <2>2. active' = active \ {loop.key}
      BY <1>2, <2>1, ValidityIsSet DEF Deactivate, FloorInv
    <2>3. Cardinality(active') = Cardinality(active) - 1 /\ Cardinality(active) \in Nat
      BY <2>1, <2>2, Shrinks
    <2> QED BY <1>2, <2>1, <2>3, DeactivateKeeps, KeepAssumption
  <1>3. ASSUME FloorInv', active \subseteq active'
        PROVE  ~(Cardinality(active') < Cardinality(active))
    <2>1. active \subseteq Conns /\ active' \subseteq Conns
      BY <1>3 DEF FloorInv, TypedParts
    <2> QED BY <1>3, <2>1, Grows
  <1>4. CASE \E k \in Conns : BackgroundResult(k)
    BY <1>3, <1>4, BackgroundResultKeeps DEF BackgroundResult
  <1>5. CASE BackgroundPublish \/ BackgroundActivated
    <2>1. active \subseteq active'
      <3>1. CASE BackgroundPublish
        <4>1. merging.key \in Conns
          BY <3>1 DEF BackgroundPublish, FloorInv, TypedParts, MergesOwnResult
        <4> QED BY <3>1, <4>1, ValidityIsSet DEF BackgroundPublish, FloorInv
      <3>2. CASE BackgroundActivated
        BY <3>2 DEF BackgroundActivated, connVars
      <3> QED BY <1>5, <3>1, <3>2
    <2> QED BY <1>3, <1>5, <2>1, BackgroundEndKeeps
  <1>6. CASE AutoDisable \/ MarkDisabled \/ FinishDisable
    BY <1>3, <1>6, LoopKeeps DEF AutoDisable, MarkDisabled, FinishDisable, connVars
  <1>7. CASE \E k \in Conns, g \in Slots : StartRecheck(k, g)
    BY <1>3, <1>7, StartRecheckKeeps DEF StartRecheck, connVars
  <1>8. CASE RecheckStep
    <2>1. PICK g \in Slots : RecheckFails(g) \/ RecheckPasses(g) \/ ApplyMTU(g) \/ Activate(g)
                              \/ FinishActivation(g)
      BY <1>8 DEF RecheckStep
    <2>2. CASE RecheckFails(g) \/ RecheckPasses(g) \/ FinishActivation(g)
      BY <1>3, <2>2, RecheckKeeps, FinishActivationKeeps
      DEF RecheckFails, RecheckPasses, FinishActivation, connVars
    <2>3. CASE ApplyMTU(g) \/ Activate(g)
      BY <1>3, <2>3, ApplyMTUKeeps, ActivateKeeps
    <2> QED BY <2>1, <2>2, <2>3
  <1>9. CASE DispatchStep \/ UNCHANGED vars
    BY <1>3, <1>9, DispatcherKeeps
  <1> QED BY <1>1, <1>2, <1>4, <1>5, <1>6, <1>7, <1>8, <1>9 DEF Next, ScanStep, HealthStep

(* Losing resolvers to auto-disable never leaves fewer than KeepActive,    *)
(* although background results and rechecks publish snapshots between the  *)
(* check and the step that takes the resolver away                         *)
(* (runResolverAutoDisable, disableResolverConnection).                    *)
THEOREM FloorIsKept == Spec => KeepsEnough
  <1>1. Init => FloorInv
    BY FloorStarts
  <1>2. FloorInv /\ [Next]_vars => FloorInv'
    BY StepKeepsFloor
  <1>3. FloorInv /\ [Next]_vars =>
          [started /\ Cardinality(active') < Cardinality(active)
             => Cardinality(active') >= KeepActive]_vars
    BY StepKeepsFloor
  <1> QED BY <1>1, <1>2, <1>3, PTL DEF Spec, KeepsEnough

-----------------------------------------------------------------------------
(* Rechecks in flight.                                                     *)

LEMMA DoneLeavesOthers ==
  ASSUME InFlightIsRunning, jobs \in [Slots -> Job], NEW g \in Slots, Done(g),
         inFlight' = inFlight \ {jobs[g].key}
  PROVE  InFlightIsRunning'
  BY JobDone DEF InFlightIsRunning, Running

LEMMA KeyStays ==
  ASSUME InFlightIsRunning, inFlight' \subseteq inFlight,
         \A h \in Slots : jobs'[h].key = jobs[h].key
  PROVE  InFlightIsRunning'
  BY DEF InFlightIsRunning, Running

(* An entry that is marked InFlight belongs to a recheck that is running,  *)
(* whichever of the paths through the recheck clears it, and also when a   *)
(* late scan result does (runResolverRecheckBatch,                         *)
(* scheduleResolverRecheckFailure, reactivateResolverConnection).          *)
THEOREM RechecksAreRunning == Spec => []InFlightIsRunning
  <1> DEFINE Inv == FloorInv /\ InFlightIsRunning
  <1>1. Init => Inv
    BY FloorStarts DEF Init, InFlightIsRunning
  <1>2. Inv /\ [Next]_vars => Inv'
    <2> SUFFICES ASSUME Inv, [Next]_vars PROVE InFlightIsRunning'
      BY StepKeepsFloor
    <2>0. jobs \in [Slots -> Job]
      BY DEF FloorInv, TypedParts
    <2>1. CASE ScanStep \/ AutoDisable \/ MarkDisabled \/ Deactivate \/ FinishDisable
                 \/ DispatchStep \/ UNCHANGED vars
      <3>1. UNCHANGED jobs /\ inFlight' \subseteq inFlight
        BY <2>1 DEF ScanStep, ScanResult, BackgroundResult, BackgroundPublish, BackgroundActivated,
             AutoDisable, MarkDisabled, Deactivate, FinishDisable, DispatchStep, ChoosePreferred,
             AssignPreferred, UsePlan, SelectTargets, CachePlan, recheckVars, vars
      <3> QED BY <3>1, KeyStays
    <2>2. ASSUME NEW k \in Conns, NEW g \in Slots, StartRecheck(k, g)
          PROVE  InFlightIsRunning'
      <3>1. jobs[g].at = "free" /\ inFlight' = inFlight \cup {k}
        BY <2>2 DEF StartRecheck
      <3>2. /\ jobs'[g].key = k /\ \A h \in Slots \ {g} : jobs'[h] = jobs[h]
        BY <2>0, <2>2, JobStarts DEF StartRecheck
      <3>3. \A c \in inFlight : c # jobs[g].key
        <4>1. jobs[g].key = None
          BY <3>1 DEF FloorInv, JobsAreKeyed
        <4> QED BY <4>1, ConnsAssumption DEF FloorInv, TypedParts
      <3> QED BY <3>1, <3>2, <3>3 DEF InFlightIsRunning, Running
    <2>3. ASSUME NEW g \in Slots, RecheckFails(g) \/ RecheckPasses(g) \/ ApplyMTU(g) \/ Activate(g)
                                   \/ FinishActivation(g)
          PROVE  InFlightIsRunning'
      <3>1. CASE Done(g) /\ inFlight' = inFlight \ {jobs[g].key}
        BY <2>0, <3>1, DoneLeavesOthers
      <3>2. CASE \E step \in {"apply", "activate", "finish"} : At(g, step) /\ UNCHANGED inFlight
        <4>1. \A h \in Slots : jobs'[h].key = jobs[h].key
          BY <2>0, <3>2, JobSteps
        <4> QED BY <3>2, <4>1, KeyStays
      <3> QED BY <2>3, <3>1, <3>2 DEF RecheckFails, ScheduleFailure, RecheckPasses, ApplyMTU,
                 recheckVars, Activate, GiveUpActivation, FinishActivation
    <2> QED BY <2>1, <2>2, <2>3 DEF Next, HealthStep, RecheckStep
  <1>3. Inv => InFlightIsRunning
    OBVIOUS
  <1> QED BY <1>1, <1>2, <1>3, PTL DEF Spec

-----------------------------------------------------------------------------
(* What is true of a resolver as long as nothing of the scan overtook it.  *)

Merged(k) == merging.key = k /\ merging.at = "merged"
InLoop(k) == loop.key = k \/ k \in loop.left
Tested(k) == \E g \in Slots : jobs[g].key = k /\ jobs[g].at \in {"activate", "finish"}

(* Nothing has happened before the start; the health loop and the scan     *)
(* name a resolver only while they are at it.                              *)
Ordered ==
  /\ ~started => disabled = {} /\ overtaken = {} /\ inFlight = {} /\ loop = Resting /\ merging = NotMerging
  /\ loop.at \in {"idle", "next"} <=> loop.key = None
  /\ loop.at = "idle" => loop.left = {}
  /\ loop.key \notin loop.left
  /\ merging.at = "idle" <=> merging.key = None

(* A resolver has one recheck at most, which is marked in flight and is    *)
(* not of an active resolver unless the scan has just accepted that one.   *)
OneRecheck(k) ==
  /\ \A g \in Slots : jobs[g].key = k => k \in inFlight
  /\ \A g, h \in Slots : jobs[g].key = k /\ jobs[h].key = k => g = h
  /\ \A g \in Slots : Busy(g, k) => k \notin active \/ Merged(k)

(* Being accepted by the scan and being disabled exclude each other.       *)
Undisturbed(k) ==
  /\ k \notin active /\ source[k].valid => Merged(k)
  /\ merging.key = k => k \notin disabled /\ ~InLoop(k)
  /\ merging.key = k /\ merging.at = "published" => k \in active /\ \A g \in Slots : jobs[g].key # k
  /\ k \in loop.left => k \in active
  /\ loop.key = k => \A g \in Slots : ~Busy(g, k)
  /\ loop.key = k /\ loop.at = "applied" => k \notin active

(* What is in use has been found to carry the synced size.                 *)
Measured(k) ==
  /\ k \in active \/ source[k].valid \/ loop.key = k \/ Tested(k) => source[k].mtu >= synced
  /\ k \in active => mtu[k] >= synced

(* Only a goroutine that is about to forget it leaves an entry behind.     *)
Forgotten(k) ==
  k \in disabled /\ k \in active =>
    \/ loop.key = k /\ loop.at = "marked"
    \/ \E g \in Slots : jobs[g].key = k /\ jobs[g].at = "finish"

(* Of every resolver, whatever overtook what: sizes fit the path.          *)
Fits ==
  /\ \A k \in Conns : source[k].mtu \in 0..cap[k]
  /\ ~started => \A k \in Conns : source[k].valid => source[k].mtu > 0
  /\ started => /\ synced > 0
                /\ \A k \in Conns : k \in active \/ source[k].valid => synced <= cap[k]
                /\ \A g \in Slots : jobs[g].at \in {"apply", "activate", "finish"} => synced <= cap[jobs[g].key]
                /\ merging.at = "merged" => source[merging.key].mtu >= synced

UseInv ==
  /\ Ordered /\ Fits
  /\ started => \A k \in Conns \ overtaken :
       OneRecheck(k) /\ Undisturbed(k) /\ Measured(k) /\ Forgotten(k)

(* The dispatcher's choice and the stored plan, until a snapshot is        *)
(* published.                                                              *)
PlanInv ==
  /\ choice.at # "idle" => choice.key \in Conns
  /\ choice.fresh /\ choice.at # "idle" => choice.key \in active
  /\ choice.fresh /\ choice.at = "selected" => choice.keys \subseteq active
  /\ plan.current /\ ~plan.raced => plan.keys \subseteq active

Sizes == 0..MaxMTU

UseTypes ==
  /\ cap \in [Conns -> Sizes] /\ synced \in Sizes
  /\ source \in [Conns -> [valid : BOOLEAN, mtu : Sizes]]
  /\ mtu \in [Conns -> Sizes]
  /\ overtaken \subseteq Conns /\ disabled \subseteq Conns

Good(k) == OneRecheck(k) /\ Undisturbed(k) /\ Measured(k) /\ Forgotten(k)

(* A step that does nothing to a resolver leaves what is true of it.       *)
LEMMA Untouched ==
  ASSUME NEW k \in Conns, Good(k),
         k \in inFlight => k \in inFlight',
         \A g \in Slots : jobs[g].key = k \/ jobs'[g].key = k => jobs'[g] = jobs[g],
         k \in active' <=> k \in active,
         source'[k] = source[k], mtu'[k] = mtu[k], synced' = synced,
         k \in disabled' => k \in disabled,
         merging.key = k \/ merging'.key = k => merging' = merging,
         loop.key = k \/ loop'.key = k => loop'.key = loop.key /\ loop'.at = loop.at,
         k \in loop'.left => k \in loop.left
  PROVE  Good(k)'
  <1>1. \A g \in Slots : jobs'[g].key = k <=> jobs[g].key = k
    OBVIOUS
  <1>2. \A g \in Slots : (Busy(g, k)' <=> Busy(g, k))
    BY <1>1 DEF Busy
  <1>3. Merged(k)' <=> Merged(k)
    BY DEF Merged
  <1>4. Tested(k)' <=> Tested(k)
    BY <1>1 DEF Tested
  <1>5. OneRecheck(k)'
    BY <1>1, <1>2, <1>3 DEF Good, OneRecheck
  <1>6. Undisturbed(k)'
    BY <1>1, <1>2, <1>3 DEF Good, Undisturbed, InLoop
  <1>7. Measured(k)'
    BY <1>4 DEF Good, Measured
  <1>8. Forgotten(k)'
    BY <1>1 DEF Good, Forgotten
  <1> QED BY <1>5, <1>6, <1>7, <1>8 DEF Good

UseAll == FloorInv /\ UseTypes /\ UseInv

LEMMA JobsOfOthers ==
  ASSUME jobs \in [Slots -> Job], NEW g \in Slots, jobs[g].key \in Conns,
         NEW k \in Conns, k # jobs[g].key,
         Done(g) \/ \E step \in {"probing", "apply", "activate", "finish"} : At(g, step)
  PROVE  \A h \in Slots : jobs[h].key = k \/ jobs'[h].key = k => jobs'[h] = jobs[h]
  <1>1. CASE Done(g)
    BY <1>1, JobDone, ConnsAssumption DEF Free
  <1>2. CASE \E step \in {"probing", "apply", "activate", "finish"} : At(g, step)
    BY <1>2, JobSteps
  <1> QED BY <1>1, <1>2

(* A recheck that ends without a new snapshot.                             *)
LEMMA EndedLeavesGood ==
  ASSUME UseAll, NEW g \in Slots, jobs[g].at # "free", Done(g), inFlight' = inFlight \ {jobs[g].key},
         UNCHANGED <<scanVars, connVars, loop>>, disabled' \subseteq disabled,
         jobs[g].at = "finish" => jobs[g].key \notin disabled'
  PROVE  UseInv'
  <1> DEFINE c == jobs[g].key
  <1>1. /\ started /\ c \in Conns /\ jobs \in [Slots -> Job]
        /\ UNCHANGED <<started, cap, synced, overtaken, merging, source, active, mtu>>
    BY JobRuns DEF UseAll, FloorInv, TypedParts, scanVars, connVars
  <1>2. /\ jobs'[g] = Free /\ \A h \in Slots \ {g} : jobs'[h] = jobs[h]
    BY <1>1, JobDone
  <1>3. None \notin Conns /\ Free.key = None /\ Free.at = "free"
    BY ConnsAssumption DEF Free
  <1>4. Ordered'
    BY <1>1 DEF UseAll, UseInv, Ordered
  <1>5. Fits'
    BY <1>1, <1>2, <1>3 DEF UseAll, UseInv, Fits
  <1>6. ASSUME NEW k \in Conns \ overtaken PROVE Good(k)'
    <2>1. Good(k)
      BY <1>1, <1>6 DEF UseAll, UseInv, Good
    <2>2. CASE k # c
      <3>1. \A h \in Slots : jobs[h].key = k \/ jobs'[h].key = k => jobs'[h] = jobs[h]
        BY <1>1, <2>2, JobsOfOthers
      <3>2. k \in inFlight => k \in inFlight'
        BY <2>2
      <3> QED BY <1>1, <2>1, <3>1, <3>2, Untouched
    <2>3. CASE k = c
      <3>1. \A h \in Slots : jobs'[h].key # k
        BY <1>2, <1>3, <2>1, <2>3 DEF Good, OneRecheck
      <3>2. OneRecheck(k)'
        BY <3>1 DEF OneRecheck, Busy
      <3>3. Undisturbed(k)'
        BY <1>1, <2>1, <3>1 DEF Good, Undisturbed, InLoop, Merged, Busy
      <3>4. Measured(k)'
        BY <1>1, <2>1, <3>1 DEF Good, Measured, Tested
      <3>5. Forgotten(k)'
        BY <1>1, <2>1, <2>3 DEF Good, Forgotten, OneRecheck
      <3> QED BY <3>2, <3>3, <3>4, <3>5 DEF Good
    <2> QED BY <2>2, <2>3
  <1> QED BY <1>1, <1>4, <1>5, <1>6 DEF UseInv, Good

(* A recheck that goes on without a new snapshot.                          *)
LEMMA PassedLeavesGood ==
  ASSUME UseAll, NEW g \in Slots, jobs[g].at = "probing", At(g, "apply"),
         synced <= cap[jobs[g].key],
         UNCHANGED <<scanVars, connVars, loop, inFlight, disabled>>
  PROVE  UseInv'
  <1> DEFINE c == jobs[g].key
  <1>1. /\ started /\ c \in Conns /\ jobs \in [Slots -> Job]
        /\ UNCHANGED <<started, cap, synced, overtaken, merging, source, active, mtu>>
    BY JobRuns DEF UseAll, FloorInv, TypedParts, scanVars, connVars
  <1>2. /\ jobs'[g].key = c /\ jobs'[g].at = "apply" /\ \A h \in Slots \ {g} : jobs'[h] = jobs[h]
    BY <1>1, JobSteps
  <1>4. Ordered'
    BY <1>1 DEF UseAll, UseInv, Ordered
  <1>5. Fits'
    BY <1>1, <1>2 DEF UseAll, UseInv, Fits
  <1>6. ASSUME NEW k \in Conns \ overtaken PROVE Good(k)'
    <2>1. Good(k)
      BY <1>1, <1>6 DEF UseAll, UseInv, Good
    <2>0. /\ \A h \in Slots : jobs'[h].key = jobs[h].key
          /\ \A h \in Slots : Busy(h, k)' <=> Busy(h, k)
          /\ Tested(k)' => Tested(k)
          /\ \A h \in Slots : jobs[h].at = "finish" => jobs'[h].at = "finish"
      BY <1>2 DEF Busy, Tested
    <2>2. OneRecheck(k)'
      BY <1>1, <2>0, <2>1 DEF Good, OneRecheck, Merged
    <2>3. Undisturbed(k)'
      BY <1>1, <2>0, <2>1 DEF Good, Undisturbed, InLoop, Merged
    <2>4. Measured(k)'
      BY <1>1, <2>0, <2>1 DEF Good, Measured
    <2>5. Forgotten(k)'
      BY <1>1, <2>0, <2>1 DEF Good, Forgotten
    <2> QED BY <2>2, <2>3, <2>4, <2>5 DEF Good
  <1> QED BY <1>1, <1>4, <1>5, <1>6 DEF UseInv, Good

LEMMA ProbedLeavesGood ==
  ASSUME UseAll, NEW g \in Slots, RecheckFails(g) \/ RecheckPasses(g) \/ FinishActivation(g)
  PROVE  UseInv'
  <1>1. CASE RecheckFails(g)
    BY <1>1, EndedLeavesGood DEF RecheckFails, ScheduleFailure
  <1>2. CASE RecheckPasses(g)
    <2>1. CASE NeedsMorePasses(jobs[g].key)
      BY <1>2, <2>1, EndedLeavesGood DEF RecheckPasses
    <2>2. CASE ~NeedsMorePasses(jobs[g].key)
      <3>1. jobs[g].key \in Conns
        BY <1>2, JobRuns DEF RecheckPasses, UseAll
      <3>2. synced <= cap[jobs[g].key]
        BY <1>2, <3>1, MaxMTUAssumption DEF RecheckPasses, Carried, UseAll, UseTypes, Sizes
      <3> QED BY <1>2, <2>2, <3>2, PassedLeavesGood DEF RecheckPasses
    <2> QED BY <2>1, <2>2
  <1>3. CASE FinishActivation(g)
    BY <1>3, EndedLeavesGood DEF FinishActivation, ForgetDisabled
  <1> QED BY <1>1, <1>2, <1>3

(* What the snapshot's writers do to the sizes.                            *)
LEMMA SizeWritten ==
  ASSUME UseAll, NEW k \in Conns, SetConnectionMTU(k, synced)
  PROVE  /\ source'[k].valid = source[k].valid /\ source'[k].mtu = synced /\ mtu'[k] = synced
         /\ \A c \in Conns \ {k} : source'[c] = source[c] /\ mtu'[c] = mtu[c]
         /\ active' = IF source[k].valid THEN active \cup {k} ELSE active \ {k}
         /\ source' \in [Conns -> [valid : BOOLEAN, mtu : Sizes]] /\ mtu' \in [Conns -> Sizes]
  <1>0. /\ source' = [source EXCEPT ![k] = [source[k] EXCEPT !.mtu = synced]]
        /\ source[k] \in [valid : BOOLEAN, mtu : Sizes]
    BY DEF SetConnectionMTU, UseAll, UseTypes
  <1>1. source' = [source EXCEPT ![k] = [valid |-> source[k].valid, mtu |-> synced]]
    <2>1. [source[k] EXCEPT !.mtu = synced] = [valid |-> source[k].valid, mtu |-> synced]
      BY <1>0
    <2> QED BY <1>0, <2>1
  <1>2. mtu' = [mtu EXCEPT ![k] = synced]
    BY DEF SetConnectionMTU, Publish
  <1>3. /\ source[k].valid \in BOOLEAN /\ synced \in Sizes
        /\ source \in [Conns -> [valid : BOOLEAN, mtu : Sizes]] /\ mtu \in [Conns -> Sizes]
    BY DEF UseAll, UseTypes
  <1>4. source' \in [Conns -> [valid : BOOLEAN, mtu : Sizes]]
    BY <1>1, <1>3
  <1>5. mtu' \in [Conns -> Sizes]
    BY <1>2, <1>3
  <1>6. source'[k].valid = source[k].valid /\ source'[k].mtu = synced
    BY <1>1, <1>3
  <1>7. mtu'[k] = synced /\ \A c \in Conns \ {k} : source'[c] = source[c] /\ mtu'[c] = mtu[c]
    BY <1>1, <1>2, <1>3
  <1>8. active' = IF source[k].valid THEN active \cup {k} ELSE active \ {k}
    BY DEF SetConnectionMTU, Publish
  <1> QED BY <1>4, <1>5, <1>6, <1>7, <1>8

LEMMA ValidityWritten ==
  ASSUME UseAll, NEW k \in Conns, NEW valid \in BOOLEAN, SetConnectionValidity(k, valid)
  PROVE  /\ source'[k].valid = valid /\ source'[k].mtu = source[k].mtu /\ mtu'[k] = source[k].mtu
         /\ \A c \in Conns \ {k} : source'[c] = source[c] /\ mtu'[c] = mtu[c]
         /\ active' = IF valid THEN active \cup {k} ELSE active \ {k}
         /\ source' \in [Conns -> [valid : BOOLEAN, mtu : Sizes]] /\ mtu' \in [Conns -> Sizes]
  <1>0. /\ source' = [source EXCEPT ![k] = [source[k] EXCEPT !.valid = valid]]
        /\ source[k] \in [valid : BOOLEAN, mtu : Sizes]
    BY DEF SetConnectionValidity, UseAll, UseTypes
  <1>1. source' = [source EXCEPT ![k] = [valid |-> valid, mtu |-> source[k].mtu]]
    <2>1. [source[k] EXCEPT !.valid = valid] = [valid |-> valid, mtu |-> source[k].mtu]
      BY <1>0
    <2> QED BY <1>0, <2>1
  <1>2. mtu' = [mtu EXCEPT ![k] = source[k].mtu]
    BY DEF SetConnectionValidity, Publish
  <1>3. /\ source[k].mtu \in Sizes
        /\ source \in [Conns -> [valid : BOOLEAN, mtu : Sizes]] /\ mtu \in [Conns -> Sizes]
    BY DEF UseAll, UseTypes
  <1>4. source' \in [Conns -> [valid : BOOLEAN, mtu : Sizes]]
    BY <1>1, <1>3
  <1>5. mtu' \in [Conns -> Sizes]
    BY <1>2, <1>3
  <1>6. source'[k].valid = valid /\ source'[k].mtu = source[k].mtu
    BY <1>1, <1>3
  <1>7. mtu'[k] = source[k].mtu /\ \A c \in Conns \ {k} : source'[c] = source[c] /\ mtu'[c] = mtu[c]
    BY <1>1, <1>2, <1>3
  <1>8. active' = IF valid THEN active \cup {k} ELSE active \ {k}
    BY DEF SetConnectionValidity, Publish
  <1> QED BY <1>4, <1>5, <1>6, <1>7, <1>8

LEMMA ApplyLeavesGood ==
  ASSUME UseAll, NEW g \in Slots, ApplyMTU(g)
  PROVE  UseInv'
  <1> DEFINE c == jobs[g].key
  <1>1. /\ started /\ c \in Conns /\ jobs \in [Slots -> Job] /\ jobs[g].at = "apply"
        /\ UNCHANGED <<started, cap, synced, overtaken, merging, inFlight, disabled, loop>>
    BY JobRuns DEF UseAll, FloorInv, TypedParts, ApplyMTU, scanVars, recheckVars
  <1>2. /\ jobs'[g].key = c /\ jobs'[g].at = "activate" /\ \A h \in Slots \ {g} : jobs'[h] = jobs[h]
    BY <1>1, JobSteps DEF ApplyMTU
  <1>3. /\ source'[c].valid = source[c].valid /\ source'[c].mtu = synced /\ mtu'[c] = synced
        /\ \A k \in Conns \ {c} : source'[k] = source[k] /\ mtu'[k] = mtu[k]
        /\ active' = IF source[c].valid THEN active \cup {c} ELSE active \ {c}
    BY <1>1, SizeWritten DEF ApplyMTU
  <1>4. c \in active => source[c].valid
    BY <1>1 DEF UseAll, FloorInv, BusyIsValid, Busy
  <1>5. synced \in Nat /\ synced > 0 /\ synced <= cap[c] /\ cap[c] \in Nat
    BY <1>1, MaxMTUAssumption DEF UseAll, UseInv, UseTypes, Fits, Sizes
  <1>6. Ordered'
    BY <1>1 DEF UseAll, UseInv, Ordered
  <1>7. Fits'
    <2>1. \A k \in Conns : source'[k].mtu \in 0..cap[k]
      BY <1>3, <1>5 DEF UseAll, UseInv, Fits
    <2>2. \A k \in Conns : k \in active' \/ source'[k].valid => synced <= cap[k]
      BY <1>1, <1>3, <1>5 DEF UseAll, UseInv, Fits
    <2>3. \A h \in Slots : jobs'[h].at \in {"apply", "activate", "finish"} => synced <= cap[jobs'[h].key]
      BY <1>1, <1>2, <1>5 DEF UseAll, UseInv, Fits
    <2>4. merging.at = "merged" => merging.key \in Conns
      BY <1>1 DEF UseAll, FloorInv, TypedParts, MergesOwnResult
    <2>5. merging.at = "merged" => source'[merging.key].mtu >= synced
      BY <1>1, <1>3, <1>5, <2>4 DEF UseAll, UseInv, Fits
    <2> QED BY <1>1, <1>5, <2>1, <2>2, <2>3, <2>5 DEF Fits
  <1>8. ASSUME NEW k \in Conns \ overtaken PROVE Good(k)'
    <2>1. Good(k)
      BY <1>1, <1>8 DEF UseAll, UseInv, Good
    <2>2. CASE k # c
      <3>1. \A h \in Slots : jobs[h].key = k \/ jobs'[h].key = k => jobs'[h] = jobs[h]
        BY <1>1, <2>2, JobsOfOthers DEF ApplyMTU
      <3> QED BY <1>1, <1>3, <2>1, <2>2, <3>1, Untouched
    <2>3. CASE k = c
      <3>1. /\ \A h \in Slots : jobs'[h].key = k <=> h = g
            /\ Busy(g, k) /\ k \in inFlight
        BY <1>1, <1>2, <2>1, <2>3 DEF Good, OneRecheck, Busy
      <3>2. k \in active' => Merged(k)
        BY <1>3, <1>4, <2>1, <2>3, <3>1 DEF Good, OneRecheck, Undisturbed
      <3>3. loop.key # k
        BY <2>1, <3>1 DEF Good, Undisturbed
      <3>4. OneRecheck(k)'
        BY <1>1, <3>1, <3>2 DEF OneRecheck, Merged
      <3>5. Undisturbed(k)'
        BY <1>1, <1>3, <1>4, <2>1, <2>3, <3>1, <3>2, <3>3 DEF Good, Undisturbed, InLoop, Merged
      <3>6. Measured(k)'
        BY <1>1, <1>3, <1>5, <2>3 DEF Measured
      <3>7. Forgotten(k)'
        BY <1>1, <2>1, <3>2 DEF Good, Undisturbed, Forgotten, Merged
      <3> QED BY <3>4, <3>5, <3>6, <3>7 DEF Good
    <2> QED BY <2>2, <2>3
  <1> QED BY <1>1, <1>6, <1>7, <1>8 DEF UseInv, Good

LEMMA ActivateLeavesGood ==
  ASSUME UseAll, NEW g \in Slots, Activate(g)
  PROVE  UseInv'
  <1> DEFINE c == jobs[g].key
  <1>1. /\ started /\ c \in Conns /\ jobs \in [Slots -> Job] /\ jobs[g].at = "activate"
        /\ UNCHANGED <<started, cap, synced, overtaken, merging, disabled, loop>>
    BY JobRuns DEF UseAll, FloorInv, TypedParts, Activate, scanVars
  <1>2. CASE c \in active
    BY <1>1, <1>2, EndedLeavesGood DEF Activate, GiveUpActivation
  <1>3. CASE c \notin active
    <2>1. SetConnectionValidity(c, TRUE) /\ At(g, "finish") /\ UNCHANGED inFlight
      BY <1>3 DEF Activate
    <2>2. /\ jobs'[g].key = c /\ jobs'[g].at = "finish" /\ \A h \in Slots \ {g} : jobs'[h] = jobs[h]
      BY <1>1, <2>1, JobSteps
    <2>3. /\ source'[c].valid /\ source'[c].mtu = source[c].mtu /\ mtu'[c] = source[c].mtu
          /\ \A k \in Conns \ {c} : source'[k] = source[k] /\ mtu'[k] = mtu[k]
          /\ active' = active \cup {c}
      BY <1>1, <2>1, ValidityWritten
    <2>4. Ordered'
      BY <1>1, <2>1 DEF UseAll, UseInv, Ordered
    <2>5. Fits'
      <3>1. \A k \in Conns : source'[k].mtu = source[k].mtu
        BY <2>3
      <3>2. synced <= cap[c]
        BY <1>1 DEF UseAll, UseInv, Fits
      <3>3. \A h \in Slots : jobs'[h].at \in {"apply", "activate", "finish"} => synced <= cap[jobs'[h].key]
        BY <1>1, <2>2, <3>2 DEF UseAll, UseInv, Fits
      <3>4. merging.at = "merged" => merging.key \in Conns
        BY <1>1 DEF UseAll, FloorInv, TypedParts, MergesOwnResult
      <3> QED BY <1>1, <2>3, <3>1, <3>2, <3>3, <3>4 DEF UseAll, UseInv, Fits
    <2>6. ASSUME NEW k \in Conns \ overtaken PROVE Good(k)'
      <3>1. Good(k)
        BY <1>1, <2>6 DEF UseAll, UseInv, Good
      <3>2. CASE k # c
        <4>1. \A h \in Slots : jobs[h].key = k \/ jobs'[h].key = k => jobs'[h] = jobs[h]
          BY <1>1, <2>1, <3>2, JobsOfOthers
        <4> QED BY <1>1, <2>1, <2>3, <3>1, <3>2, <4>1, Untouched
      <3>3. CASE k = c
        <4>1. /\ \A h \in Slots : jobs'[h].key = k <=> h = g
              /\ Busy(g, k) /\ Tested(k) /\ k \in inFlight
          BY <1>1, <2>2, <3>1, <3>3 DEF Good, OneRecheck, Busy, Tested
        <4>2. \A h \in Slots : ~Busy(h, k)'
          BY <2>2, <4>1 DEF Busy
        <4>3. OneRecheck(k)'
          BY <2>1, <4>1, <4>2 DEF OneRecheck
        <4>4. loop.key # k
          BY <3>1, <4>1 DEF Good, Undisturbed
        <4>5. Undisturbed(k)'
          BY <1>1, <2>3, <3>1, <3>3, <4>1, <4>4 DEF Good, Undisturbed, InLoop
        <4>6. Measured(k)'
          BY <1>1, <2>3, <3>1, <3>3, <4>1 DEF Good, Measured
        <4>7. Forgotten(k)'
          BY <2>2, <3>3 DEF Forgotten
        <4> QED BY <4>3, <4>5, <4>6, <4>7 DEF Good
      <3> QED BY <3>2, <3>3
    <2> QED BY <1>1, <2>4, <2>5, <2>6 DEF UseInv, Good
  <1> QED BY <1>2, <1>3

(* A scan's result is a size that the path carries, or 0.                  *)
LEMMA OutcomeFits ==
  ASSUME UseTypes, NEW k \in Conns, NEW m \in ScanOutcomes(k)
  PROVE  m \in 0..cap[k] /\ m \in Sizes
  <1>1. PICK got \in SUBSET (1..cap[k]) : m = Search(1, MaxMTU, got)
    BY DEF ScanOutcomes, Carried
  <1>2. cap[k] \in Nat /\ cap[k] <= MaxMTU /\ MaxMTU \in Int
    BY MaxMTUAssumption DEF UseTypes, Sizes
  <1>3. got \in SUBSET (1..MaxMTU)
    BY <1>1, <1>2
  <1>4. m \in got \cup {0}
    BY <1>1, <1>2, <1>3, SearchFinds DEF FindsLargest
  <1> QED BY <1>1, <1>2, <1>4 DEF Sizes

(* A late scan result of an accepted or a rejected resolver.               *)
LEMMA BackgroundResultLeavesGood ==
  ASSUME UseAll, NEW k \in Conns, BackgroundResult(k)
  PROVE  UseInv' /\ UseTypes'
  <1>1. /\ started /\ merging = NotMerging /\ merging.key = None /\ merging.at = "idle"
        /\ UNCHANGED <<started, cap, synced, active, mtu, disabled, passes, inFlight, loop, jobs>>
    BY DEF BackgroundResult, NotMerging, recheckVars
  <1>2. overtaken' = overtaken \cup {c \in {k} : c \in active \cup disabled \cup inFlight \/ source[c].mtu > 0}
    BY DEF BackgroundResult
  <1>3. PICK m \in ScanOutcomes(k) :
           /\ source' = [source EXCEPT ![k] = [valid |-> BackgroundActivates(m), mtu |-> m]]
           /\ merging' = IF BackgroundActivates(m) THEN [key |-> k, at |-> "merged"] ELSE NotMerging
    BY DEF BackgroundResult
  <1>4. m \in 0..cap[k] /\ m \in Sizes /\ m \in Int /\ synced \in Nat /\ cap[k] \in Nat
    BY <1>3, OutcomeFits, MaxMTUAssumption DEF UseAll, UseTypes, Sizes
  <1>5. /\ source'[k].valid = (m > 0 /\ m >= synced) /\ source'[k].mtu = m
        /\ \A c \in Conns \ {k} : source'[c] = source[c]
        /\ source' \in [Conns -> [valid : BOOLEAN, mtu : Sizes]]
    BY <1>3, <1>4 DEF UseAll, UseTypes, BackgroundActivates
  <1>6. /\ merging'.key = IF source'[k].valid THEN k ELSE None
        /\ merging'.at = IF source'[k].valid THEN "merged" ELSE "idle"
    BY <1>3, <1>5 DEF BackgroundActivates, NotMerging
  <1>7. None \notin Conns
    BY ConnsAssumption
  <1>8. UseTypes'
    BY <1>1, <1>2, <1>5 DEF UseAll, UseTypes
  <1>9. Ordered'
    BY <1>1, <1>6, <1>7 DEF UseAll, UseInv, Ordered
  <1>10. Fits'
    <2>1. synced > 0
      BY <1>1 DEF UseAll, UseInv, Fits
    <2>2. \A c \in Conns : source'[c].mtu \in 0..cap[c]
      BY <1>4, <1>5 DEF UseAll, UseInv, Fits
    <2>3. \A c \in Conns : c \in active \/ source'[c].valid => synced <= cap[c]
      BY <1>1, <1>4, <1>5 DEF UseAll, UseInv, Fits
    <2>4. merging'.at = "merged" => source'[merging'.key].mtu >= synced
      BY <1>4, <1>5, <1>6
    <2> QED BY <1>1, <2>1, <2>2, <2>3, <2>4 DEF UseAll, UseInv, Fits
  <1>11. ASSUME NEW c \in Conns \ overtaken' PROVE Good(c)'
    <2>1. c \notin overtaken /\ Good(c)
      BY <1>1, <1>2, <1>11 DEF UseAll, UseInv, Good
    <2>2. CASE c # k
      BY <1>1, <1>5, <1>6, <1>7, <2>1, <2>2, Untouched
    <2>3. CASE c = k
      <3>1. /\ k \notin active /\ k \notin disabled /\ k \notin inFlight /\ ~(source[k].mtu > 0)
        BY <1>2, <1>11, <2>3
      <3>2. \A g \in Slots : jobs[g].key # k
        BY <2>1, <2>3, <3>1 DEF Good, OneRecheck
      <3>3. source[k].mtu \in Int /\ synced > 0
        BY <1>1 DEF UseAll, UseInv, UseTypes, Sizes, Fits
      <3>4. ~InLoop(k)
        BY <1>4, <2>1, <2>3, <3>1, <3>3 DEF Good, Undisturbed, Measured, InLoop
      <3>5. OneRecheck(k)'
        BY <1>1, <3>2 DEF OneRecheck, Busy
      <3>6. Undisturbed(k)'
        BY <1>1, <1>5, <1>6, <3>1, <3>2, <3>4 DEF Undisturbed, InLoop, Merged, Busy
      <3>7. Measured(k)'
        BY <1>1, <1>4, <1>5, <3>1, <3>2, <3>4 DEF Measured, InLoop, Tested
      <3>8. Forgotten(k)'
        BY <1>1, <3>1 DEF Forgotten
      <3> QED BY <2>3, <3>5, <3>6, <3>7, <3>8 DEF Good
    <2> QED BY <2>2, <2>3
  <1> QED BY <1>1, <1>8, <1>9, <1>10, <1>11 DEF UseInv, Good

LEMMA BackgroundPublishLeavesGood ==
  ASSUME UseAll, BackgroundPublish
  PROVE  UseInv' /\ UseTypes'
  <1> DEFINE c == merging.key
  <1>1. /\ started /\ c \in Conns /\ merging.at = "merged"
        /\ UNCHANGED <<started, cap, synced, disabled, inFlight, loop, jobs>>
        /\ overtaken' = overtaken \cup ({c} \cap inFlight)
    BY DEF BackgroundPublish, UseAll, FloorInv, QuietBeforeStart, MergesOwnResult, TypedParts, recheckVars
  <1>2. merging'.key = c /\ merging'.at = "published"
    BY DEF BackgroundPublish, UseAll, FloorInv, TypedParts
  <1>3. /\ source'[c].valid /\ source'[c].mtu = source[c].mtu /\ mtu'[c] = source[c].mtu
        /\ \A k \in Conns \ {c} : source'[k] = source[k] /\ mtu'[k] = mtu[k]
        /\ active' = active \cup {c}
        /\ source' \in [Conns -> [valid : BOOLEAN, mtu : Sizes]] /\ mtu' \in [Conns -> Sizes]
    BY <1>1, ValidityWritten DEF BackgroundPublish
  <1>4. source[c].mtu >= synced /\ source[c].mtu \in 0..cap[c] /\ synced \in Nat /\ cap[c] \in Nat
    BY <1>1, MaxMTUAssumption DEF UseAll, UseInv, Fits, UseTypes, Sizes
  <1>5. UseTypes'
    BY <1>1, <1>3 DEF UseAll, UseTypes
  <1>6. Ordered'
    BY <1>1, <1>2 DEF UseAll, UseInv, Ordered
  <1>7. Fits'
    <2>1. \A k \in Conns : source'[k].mtu = source[k].mtu
      BY <1>3
    <2>2. synced <= cap[c]
      BY <1>4
    <2> QED BY <1>1, <1>2, <1>3, <2>1, <2>2 DEF UseAll, UseInv, Fits
  <1>8. ASSUME NEW k \in Conns \ overtaken' PROVE Good(k)'
    <2>1. k \notin overtaken /\ Good(k)
      BY <1>1, <1>8 DEF UseAll, UseInv, Good
    <2>2. CASE k # c
      BY <1>1, <1>2, <1>3, <2>1, <2>2, Untouched
    <2>3. CASE k = c
      <3>1. k \notin inFlight /\ \A g \in Slots : jobs[g].key # k
        BY <1>1, <1>8, <2>1, <2>3 DEF Good, OneRecheck
      <3>2. k \notin disabled /\ ~InLoop(k)
        BY <2>1, <2>3 DEF Good, Undisturbed
      <3>3. OneRecheck(k)'
        BY <1>1, <3>1 DEF OneRecheck, Busy
      <3>4. Undisturbed(k)'
        BY <1>1, <1>3, <2>3, <3>1, <3>2 DEF Undisturbed, InLoop, Merged, Busy
      <3>5. Measured(k)'
        BY <1>1, <1>3, <1>4, <2>3 DEF Measured
      <3>6. Forgotten(k)'
        BY <1>1, <3>2 DEF Forgotten
      <3> QED BY <3>3, <3>4, <3>5, <3>6 DEF Good
    <2> QED BY <2>2, <2>3
  <1> QED BY <1>1, <1>5, <1>6, <1>7, <1>8 DEF UseInv, Good

LEMMA BackgroundActivatedLeavesGood ==
  ASSUME UseAll, BackgroundActivated
  PROVE  UseInv' /\ UseTypes'
  <1> DEFINE c == merging.key
  <1>1. /\ started /\ c \in Conns /\ merging.at = "published"
        /\ UNCHANGED <<started, cap, synced, overtaken, source, active, mtu, disabled, loop, jobs>>
        /\ inFlight' = inFlight \ {c} /\ merging' = NotMerging
        /\ merging'.key = None /\ merging'.at = "idle" /\ None \notin Conns
    BY ConnsAssumption
    DEF BackgroundActivated, UseAll, FloorInv, QuietBeforeStart, MergesOwnResult, TypedParts, connVars, NotMerging
  <1>2. UseTypes'
    BY <1>1 DEF UseAll, UseTypes
  <1>3. Ordered'
    BY <1>1 DEF UseAll, UseInv, Ordered
  <1>4. Fits'
    BY <1>1 DEF UseAll, UseInv, Fits
  <1>5. ASSUME NEW k \in Conns \ overtaken PROVE Good(k)'
    <2>1. Good(k)
      BY <1>1, <1>5 DEF UseAll, UseInv, Good
    <2>2. CASE k # c
      BY <1>1, <2>1, <2>2, Untouched
    <2>3. CASE k = c
      <3>1. k \in active /\ \A g \in Slots : jobs[g].key # k
        BY <1>1, <2>1, <2>3 DEF Good, Undisturbed
      <3>2. OneRecheck(k)'
        BY <1>1, <3>1 DEF OneRecheck, Busy
      <3>3. Undisturbed(k)'
        BY <1>1, <2>1, <2>3, <3>1 DEF Good, Undisturbed, InLoop, Merged, Busy
      <3>4. Measured(k)'
        BY <1>1, <2>1 DEF Good, Measured, Tested
      <3>5. Forgotten(k)'
        BY <1>1, <2>1 DEF Good, Forgotten
      <3> QED BY <3>2, <3>3, <3>4, <3>5 DEF Good
    <2> QED BY <2>2, <2>3
  <1> QED BY <1>1, <1>2, <1>3, <1>4, <1>5 DEF UseInv, Good
(* The health loop.                                                        *)
LEMMA LoopIs ==
  ASSUME UseAll
  PROVE  /\ None \notin Conns /\ loop \in Loop
         /\ \A left \in SUBSET Conns : /\ Onward(left) \in Loop /\ Onward(left).key = None
                                       /\ Onward(left).left = left
                                       /\ Onward(left).at = IF left = {} THEN "idle" ELSE "next"
  BY ConnsAssumption DEF UseAll, FloorInv, TypedParts, Loop, Onward, Resting

LEMMA LoopLeavesFits ==
  ASSUME UseAll, UNCHANGED <<started, cap, synced, merging, source, active, jobs>>
  PROVE  Fits'
  BY DEF UseAll, UseInv, Fits

LEMMA AutoDisableLeavesGood ==
  ASSUME UseAll, AutoDisable
  PROVE  UseInv' /\ UseTypes'
  <1>1. PICK silent \in SUBSET (active \ {merging.key}) \ {{}} : loop' = [loop EXCEPT !.left = silent, !.at = "next"]
    BY DEF AutoDisable
  <1>2. /\ started /\ loop.at = "idle" /\ loop.key = None /\ loop.left = {} /\ None \notin Conns
        /\ UNCHANGED <<started, cap, synced, overtaken, merging, source, active, mtu, disabled, inFlight, jobs>>
    BY LoopIs DEF AutoDisable, UseAll, UseInv, Ordered, scanVars, connVars, recheckVars
  <1>3. loop'.key = None /\ loop'.left = silent /\ loop'.at = "next" /\ silent \subseteq Conns
    BY <1>1, <1>2, LoopIs DEF Loop, UseAll, FloorInv, TypedParts
  <1>4. UseTypes' /\ Fits'
    BY <1>2, LoopLeavesFits DEF UseAll, UseTypes
  <1>5. Ordered'
    BY <1>2, <1>3 DEF UseAll, UseInv, Ordered
  <1>6. ASSUME NEW k \in Conns \ overtaken PROVE Good(k)'
    <2>1. Good(k)
      BY <1>2, <1>6 DEF UseAll, UseInv, Good
    <2>2. OneRecheck(k)'
      BY <1>2, <2>1 DEF Good, OneRecheck, Busy, Merged
    <2>3. Undisturbed(k)'
      BY <1>2, <1>3, <1>6, <2>1 DEF Good, Undisturbed, InLoop, Merged, Busy
    <2>4. Measured(k)'
      BY <1>2, <1>3, <1>6, <2>1 DEF Good, Measured, Tested
    <2>5. Forgotten(k)'
      BY <1>2, <1>3, <1>6, <2>1 DEF Good, Forgotten
    <2> QED BY <2>2, <2>3, <2>4, <2>5 DEF Good
  <1> QED BY <1>2, <1>4, <1>5, <1>6 DEF UseInv, Good

LEMMA MarkDisabledLeavesGood ==
  ASSUME UseAll, MarkDisabled
  PROVE  UseInv' /\ UseTypes'
  <1>1. /\ loop.at = "next" /\ loop.key = None /\ None \notin Conns /\ started
        /\ loop.left \subseteq Conns /\ active \subseteq Conns /\ disabled \subseteq Conns
        /\ UNCHANGED <<started, cap, synced, overtaken, merging, source, active, mtu, inFlight, jobs>>
    BY LoopIs DEF MarkDisabled, UseAll, UseInv, UseTypes, FloorInv, TypedParts, QuietBeforeStart, Ordered, Loop, scanVars, connVars
  <1>2. Fits'
    BY <1>1, LoopLeavesFits
  <1>3. PICK k \in loop.left :
          IF MayDisable(k)
            THEN /\ loop' = [left |-> loop.left \ {k}, key |-> k, at |-> "marked"]
                 /\ disabled' = disabled \cup {k}
            ELSE /\ loop' = Onward(IF Cardinality(active) > KeepActive THEN loop.left \ {k} ELSE {})
                 /\ UNCHANGED disabled
    BY DEF MarkDisabled
  <1>4. CASE MayDisable(k)
    <2>1. /\ loop'.left = loop.left \ {k} /\ loop'.key = k /\ loop'.at = "marked" /\ k \in active /\ k \in Conns
          /\ disabled' = disabled \cup {k}
      BY <1>1, <1>3, <1>4 DEF MayDisable
    <2>2. UseTypes'
      BY <1>1, <2>1 DEF UseAll, UseTypes
    <2>3. Ordered'
      BY <1>1, <2>1 DEF UseAll, UseInv, Ordered
    <2>4. ASSUME NEW c \in Conns \ overtaken PROVE Good(c)'
      <3>1. Good(c)
        BY <1>1, <2>4 DEF UseAll, UseInv, Good
      <3>2. CASE c # k
        BY <1>1, <2>1, <3>1, <3>2, Untouched
      <3>3. CASE c = k
        <4>1. merging.key # k /\ \A g \in Slots : ~Busy(g, k)
          BY <1>3, <2>1, <3>1, <3>3 DEF Good, Undisturbed, OneRecheck, InLoop, Merged
        <4>2. OneRecheck(k)'
          BY <1>1, <3>1, <3>3, <4>1 DEF Good, OneRecheck, Busy
        <4>3. Undisturbed(k)'
          BY <1>1, <2>1, <4>1 DEF Undisturbed, Busy
        <4>4. Measured(k)'
          BY <1>1, <2>1, <3>1, <3>3 DEF Good, Measured
        <4>5. Forgotten(k)'
          BY <2>1 DEF Forgotten
        <4> QED BY <3>3, <4>2, <4>3, <4>4, <4>5 DEF Good
      <3> QED BY <3>2, <3>3
    <2> QED BY <1>1, <1>2, <2>2, <2>3, <2>4 DEF UseInv, Good
  <1>5. CASE ~MayDisable(k)
    <2>1. /\ loop'.left \subseteq loop.left /\ loop'.key = None /\ loop'.at \in {"idle", "next"}
          /\ loop'.at = "idle" => loop'.left = {}
          /\ disabled' = disabled
      BY <1>1, <1>3, <1>5, LoopIs
    <2>2. UseTypes'
      BY <1>1, <2>1 DEF UseAll, UseTypes
    <2>3. Ordered'
      BY <1>1, <2>1 DEF UseAll, UseInv, Ordered
    <2>4. ASSUME NEW c \in Conns \ overtaken PROVE Good(c)'
      <3>1. Good(c)
        BY <1>1, <2>4 DEF UseAll, UseInv, Good
      <3> QED BY <1>1, <2>1, <3>1, Untouched
    <2> QED BY <1>1, <1>2, <2>2, <2>3, <2>4 DEF UseInv, Good
  <1> QED BY <1>4, <1>5

LEMMA DeactivateLeavesGood ==
  ASSUME UseAll, Deactivate
  PROVE  UseInv' /\ UseTypes'
  <1> DEFINE c == loop.key
  <1>1. /\ loop.at = "marked" /\ started /\ c \in active /\ c \in Conns
        /\ UNCHANGED <<started, cap, synced, overtaken, merging, disabled, inFlight, jobs>>
    BY DEF Deactivate, UseAll, FloorInv, TypedParts, QuietBeforeStart, DisablingIsAllowed, scanVars, recheckVars
  <1>2. loop'.left = loop.left /\ loop'.key = c /\ loop'.at = "applied"
    BY LoopIs DEF Deactivate, Loop
  <1>3. /\ ~source'[c].valid /\ source'[c].mtu = source[c].mtu
        /\ \A k \in Conns \ {c} : source'[k] = source[k] /\ mtu'[k] = mtu[k]
        /\ active' = active \ {c}
        /\ source' \in [Conns -> [valid : BOOLEAN, mtu : Sizes]] /\ mtu' \in [Conns -> Sizes]
    BY <1>1, ValidityWritten DEF Deactivate
  <1>4. UseTypes'
    BY <1>1, <1>3 DEF UseAll, UseTypes
  <1>5. Ordered'
    BY <1>1, <1>2 DEF UseAll, UseInv, Ordered
  <1>6. Fits'
    <2>1. \A k \in Conns : source'[k].mtu = source[k].mtu
      BY <1>3
    <2>2. merging.at = "merged" => merging.key \in Conns
      BY <1>1 DEF UseAll, FloorInv, TypedParts, MergesOwnResult
    <2> QED BY <1>1, <1>3, <2>1, <2>2 DEF UseAll, UseInv, Fits
  <1>7. ASSUME NEW k \in Conns \ overtaken PROVE Good(k)'
    <2>1. Good(k)
      BY <1>1, <1>7 DEF UseAll, UseInv, Good
    <2>2. CASE k # c
      BY <1>1, <1>2, <1>3, <2>1, <2>2, Untouched
    <2>3. CASE k = c
      <3>1. merging.key # k /\ k \notin loop.left /\ \A g \in Slots : ~Busy(g, k)
        BY <1>1, <2>1, <2>3 DEF Good, Undisturbed, InLoop, UseAll, UseInv, Ordered
      <3>2. OneRecheck(k)'
        BY <1>1, <2>1, <3>1 DEF Good, OneRecheck, Busy
      <3>3. Undisturbed(k)'
        BY <1>1, <1>2, <1>3, <2>3, <3>1 DEF Undisturbed, Busy
      <3>4. Measured(k)'
        BY <1>1, <1>3, <2>1, <2>3 DEF Good, Measured
      <3>5. Forgotten(k)'
        BY <1>3, <2>3 DEF Forgotten
      <3> QED BY <3>2, <3>3, <3>4, <3>5 DEF Good
    <2> QED BY <2>2, <2>3
  <1> QED BY <1>1, <1>4, <1>5, <1>6, <1>7 DEF UseInv, Good

LEMMA FinishDisableLeavesGood ==
  ASSUME UseAll, FinishDisable
  PROVE  UseInv' /\ UseTypes'
  <1> DEFINE c == loop.key
  <1>1. /\ loop.at = "applied" /\ started /\ c \in Conns /\ loop.left \subseteq Conns /\ None \notin Conns
        /\ UNCHANGED <<started, cap, synced, overtaken, merging, source, active, mtu, inFlight, jobs>>
        /\ disabled' = disabled \cup {c} /\ loop' = Onward(loop.left)
    BY LoopIs DEF FinishDisable, UseAll, UseInv, FloorInv, Loop, QuietBeforeStart, Ordered, scanVars, connVars
  <1>2. /\ loop'.left = loop.left /\ loop'.key = None /\ loop'.at \in {"idle", "next"}
        /\ loop'.at = "idle" => loop'.left = {}
    BY <1>1, LoopIs
  <1>3. UseTypes'
    BY <1>1 DEF UseAll, UseTypes
  <1>4. Ordered'
    BY <1>1, <1>2 DEF UseAll, UseInv, Ordered
  <1>5. Fits'
    BY <1>1, LoopLeavesFits
  <1>6. ASSUME NEW k \in Conns \ overtaken PROVE Good(k)'
    <2>1. Good(k)
      BY <1>1, <1>6 DEF UseAll, UseInv, Good
    <2>2. CASE k # c
      BY <1>1, <1>2, <2>1, <2>2, Untouched
    <2>3. CASE k = c
      <3>1. merging.key # k /\ k \notin active /\ k \notin loop.left
        BY <1>1, <2>1, <2>3 DEF Good, Undisturbed, InLoop, UseAll, UseInv, Ordered
      <3>2. OneRecheck(k)'
        BY <1>1, <2>1, <3>1 DEF Good, OneRecheck, Busy
      <3>3. Undisturbed(k)'
        BY <1>1, <1>2, <2>1, <3>1 DEF Good, Undisturbed, Busy, Merged
      <3>4. Measured(k)'
        BY <1>1, <2>1, <2>3 DEF Good, Measured, Tested
      <3>5. Forgotten(k)'
        BY <1>1, <3>1 DEF Forgotten
      <3> QED BY <3>2, <3>3, <3>4, <3>5 DEF Good
    <2> QED BY <2>2, <2>3
  <1> QED BY <1>1, <1>3, <1>4, <1>5, <1>6 DEF UseInv, Good

LEMMA StartRecheckLeavesGood ==
  ASSUME UseAll, NEW c \in Conns, NEW g \in Slots, StartRecheck(c, g)
  PROVE  UseInv' /\ UseTypes'
  <1>1. /\ started /\ loop.at = "idle" /\ loop.key = None /\ None \notin Conns
        /\ c \notin active /\ c \notin inFlight /\ jobs[g].at = "free" /\ jobs[g].key = None
        /\ inFlight' = inFlight \cup {c}
        /\ UNCHANGED <<started, cap, synced, overtaken, merging, source, active, mtu, disabled, loop>>
    BY LoopIs DEF StartRecheck, UseAll, UseInv, Ordered, FloorInv, JobsAreKeyed, scanVars, connVars
  <1>2. jobs'[g].key = c /\ jobs'[g].at = "probing" /\ \A h \in Slots \ {g} : jobs'[h] = jobs[h]
    BY JobStarts DEF StartRecheck, UseAll, FloorInv, TypedParts
  <1>3. UseTypes' /\ Ordered'
    BY <1>1 DEF UseAll, UseTypes, UseInv, Ordered
  <1>4. Fits'
    BY <1>1, <1>2 DEF UseAll, UseInv, Fits
  <1>5. ASSUME NEW k \in Conns \ overtaken PROVE Good(k)'
    <2>1. Good(k)
      BY <1>1, <1>5 DEF UseAll, UseInv, Good
    <2>2. CASE k # c
      <3>1. \A h \in Slots : jobs[h].key = k \/ jobs'[h].key = k => jobs'[h] = jobs[h]
        BY <1>1, <1>2, <2>2
      <3> QED BY <1>1, <2>1, <2>2, <3>1, Untouched
    <2>3. CASE k = c
      <3>1. \A h \in Slots : (jobs'[h].key = k <=> h = g) /\ (h # g => jobs[h].key # k)
        BY <1>1, <1>2, <2>1, <2>3 DEF Good, OneRecheck
      <3>2. OneRecheck(k)'
        BY <1>1, <2>3, <3>1 DEF OneRecheck, Busy
      <3>3. Undisturbed(k)'
        BY <1>1, <2>1, <2>3 DEF Good, Undisturbed, InLoop, Merged
      <3>4. Measured(k)'
        BY <1>1, <1>2, <2>1, <2>3, <3>1 DEF Good, Measured, Tested
      <3>5. Forgotten(k)'
        BY <1>1, <2>3 DEF Forgotten
      <3> QED BY <3>2, <3>3, <3>4, <3>5 DEF Good
    <2> QED BY <2>2, <2>3
  <1> QED BY <1>1, <1>3, <1>4, <1>5 DEF UseInv, Good
(* The recheck goroutines leave the types alone.                           *)
LEMMA RecheckLeavesTypes ==
  ASSUME UseAll, NEW g \in Slots,
         RecheckFails(g) \/ RecheckPasses(g) \/ ApplyMTU(g) \/ Activate(g) \/ FinishActivation(g)
  PROVE  UseTypes'
  <1>1. disabled' \subseteq disabled /\ UNCHANGED <<cap, synced, overtaken>>
    BY DEF RecheckFails, RecheckPasses, ApplyMTU, Activate, FinishActivation, ScheduleFailure,
           ForgetDisabled, scanVars, recheckVars
  <1>2. source' \in [Conns -> [valid : BOOLEAN, mtu : Sizes]] /\ mtu' \in [Conns -> Sizes]
    <2>1. CASE UNCHANGED <<source, mtu>>
      BY <2>1 DEF UseAll, UseTypes
    <2>2. CASE ApplyMTU(g)
      BY <2>2, JobRuns, SizeWritten DEF ApplyMTU, UseAll
    <2>3. CASE Activate(g)
      <3>1. jobs[g].key \in Conns
        BY <2>3, JobRuns DEF Activate, UseAll
      <3> QED BY <2>1, <2>3, <3>1, ValidityWritten DEF Activate, connVars
    <2> QED BY <2>1, <2>2, <2>3 DEF RecheckFails, RecheckPasses, FinishActivation, connVars
  <1> QED BY <1>1, <1>2 DEF UseAll, UseTypes

(* The smallest of some sizes.                                             *)
LEMMA SmallestSize ==
  ASSUME NEW S \in SUBSET Sizes, S # {}
  PROVE  LET m == CHOOSE m \in S : \A n \in S : m <= n
         IN  m \in S /\ \A n \in S : m <= n
  <1>1. S \in SUBSET Nat
    BY MaxMTUAssumption DEF Sizes
  <1> QED BY <1>1, LeastNumber

(* The scan before the start.                                              *)
LEMMA ScanResultLeavesGood ==
  ASSUME UseAll, NEW k \in Conns, ScanResult(k)
  PROVE  UseInv' /\ UseTypes'
  <1>1. /\ ~started /\ disabled = {} /\ overtaken = {} /\ inFlight = {} /\ loop = Resting
        /\ merging = NotMerging /\ \A g \in Slots : jobs[g] = Free
        /\ UNCHANGED <<cap, overtaken, merging, disabled, inFlight, loop, jobs>>
    BY DEF ScanResult, recheckVars, UseAll, UseInv, Ordered, FloorInv, QuietBeforeStart
  <1>2. PICK m \in ScanOutcomes(k) :
          LET merged == [source EXCEPT ![k] = Scanned(m)]
              valid == {c \in Conns : merged[c].valid}
          IN  \/ /\ Cardinality(valid) >= EarlyTarget \/ valid # {}
                 /\ source' = merged /\ ActivateInitialMTUSelection(merged)
              \/ /\ source' \in {merged, [c \in Conns |-> [valid |-> FALSE, mtu |-> 0]]}
                 /\ UNCHANGED <<started, synced, active, mtu>>
    BY DEF ScanResult
  <1> DEFINE merged == [source EXCEPT ![k] = Scanned(m)]
             valid == {c \in Conns : merged[c].valid}
             blank == [c \in Conns |-> [valid |-> FALSE, mtu |-> 0]]
  <1>3. m \in 0..cap[k] /\ m \in Sizes /\ m \in Int
    BY OutcomeFits, MaxMTUAssumption DEF UseAll, UseTypes, Sizes
  <1>4. /\ merged \in [Conns -> [valid : BOOLEAN, mtu : Sizes]]
        /\ merged[k].valid = (m > 0) /\ merged[k].mtu = m
        /\ \A c \in Conns \ {k} : merged[c] = source[c]
    BY <1>3 DEF UseAll, UseTypes, Scanned
  <1> HIDE DEF merged
  <1>5. \A c \in Conns : merged[c].mtu \in 0..cap[c] /\ (merged[c].valid => merged[c].mtu > 0)
    BY <1>1, <1>3, <1>4 DEF UseAll, UseInv, Fits
  <1>6. Ordered'
    BY <1>1 DEF UseAll, UseInv, Ordered
  <1>7. /\ None \notin Conns /\ Resting.key = None /\ Resting.left = {} /\ Resting.at = "idle"
        /\ NotMerging.key = None /\ NotMerging.at = "idle"
        /\ \A g \in Slots : jobs[g].key = None /\ jobs[g].at = "free"
    BY <1>1, ConnsAssumption DEF Resting, NotMerging, Free
  <1>8. CASE /\ Cardinality(valid) >= EarlyTarget \/ valid # {}
             /\ source' = merged /\ ActivateInitialMTUSelection(merged)
    <2> DEFINE sizes == {merged[c].mtu : c \in valid}
    <2>1. valid # {}
      <3>1. Cardinality({}) = 0
        BY FS_EmptySet
      <3> QED BY <1>8, <3>1, EarlyAssumption
    <2>2. /\ started' = TRUE /\ active' = valid /\ mtu' = [c \in Conns |-> merged[c].mtu]
          /\ synced' = CHOOSE s \in sizes : \A n \in sizes : s <= n
      BY <1>8 DEF ActivateInitialMTUSelection, Publish
    <2>3. sizes \in SUBSET Sizes /\ sizes # {}
      BY <1>4, <2>1
    <2>4. synced' \in sizes /\ \A n \in sizes : synced' <= n
      <3> HIDE DEF sizes
      <3> QED BY <2>2, <2>3, SmallestSize
    <2>5. /\ synced' \in Sizes /\ synced' \in Nat /\ synced' > 0
          /\ \A c \in valid : synced' <= merged[c].mtu
      BY <1>5, <2>3, <2>4, MaxMTUAssumption DEF Sizes
    <2>6. UseTypes'
      <3>1. mtu' \in [Conns -> Sizes]
        BY <1>4, <2>2
      <3> QED BY <1>1, <1>4, <1>8, <2>5, <3>1 DEF UseAll, UseTypes
    <2>7. Fits'
      <3>1. \A c \in Conns : c \in active' \/ source'[c].valid => synced' <= cap[c]
        <4> SUFFICES ASSUME NEW c \in valid PROVE synced' <= cap[c]
          BY <1>8, <2>2
        <4>1. merged[c].mtu \in 0..cap[c] /\ synced' <= merged[c].mtu /\ cap[c] \in Nat
          BY <1>5, <2>5, MaxMTUAssumption DEF UseAll, UseTypes, Sizes
        <4> QED BY <2>5, <4>1
      <3> QED BY <1>1, <1>5, <1>7, <1>8, <2>2, <2>5, <3>1 DEF Fits
    <2>8. ASSUME NEW c \in Conns PROVE Good(c)'
      <3>1. OneRecheck(c)' /\ Forgotten(c)'
        BY <1>1, <1>7 DEF OneRecheck, Busy, Forgotten
      <3>2. Undisturbed(c)'
        BY <1>1, <1>7, <1>8, <2>2 DEF Undisturbed, Merged, InLoop, Busy
      <3>3. Measured(c)'
        <4>1. synced' \in Int /\ \A d \in valid : merged[d].mtu \in Int
          BY <1>4, <2>5, MaxMTUAssumption DEF Sizes
        <4> QED BY <1>1, <1>7, <1>8, <2>2, <2>5, <4>1 DEF Measured, Tested
      <3> QED BY <3>1, <3>2, <3>3 DEF Good
    <2> QED BY <1>6, <2>6, <2>7, <2>8 DEF UseInv, Good
  <1>9. CASE /\ source' \in {merged, blank} /\ UNCHANGED <<started, synced, active, mtu>>
    <2>1. /\ source' \in [Conns -> [valid : BOOLEAN, mtu : Sizes]]
          /\ \A c \in Conns : source'[c].mtu \in 0..cap[c] /\ (source'[c].valid => source'[c].mtu > 0)
      <3>1. \A c \in Conns : 0 \in 0..cap[c]
        BY MaxMTUAssumption DEF UseAll, UseTypes, Sizes
      <3>2. 0 \in Sizes
        BY MaxMTUAssumption DEF Sizes
      <3>3. CASE source' = merged
        BY <1>4, <1>5, <3>3
      <3>4. CASE source' = blank
        BY <3>1, <3>2, <3>4
      <3> QED BY <1>9, <3>3, <3>4
    <2>2. UseTypes' /\ Fits'
      BY <1>1, <1>9, <2>1 DEF UseAll, UseTypes, Fits
    <2> QED BY <1>1, <1>6, <1>9, <2>2 DEF UseInv
  <1> QED BY <1>2, <1>8, <1>9 DEF merged

LEMMA DispatcherLeavesGood ==
  ASSUME UseAll, DispatchStep \/ UNCHANGED vars
  PROVE  UseInv' /\ UseTypes'
  <1>1. UNCHANGED <<started, cap, synced, overtaken, merging, source, active, mtu, disabled, inFlight, loop, jobs>>
    BY DEF DispatchStep, ChoosePreferred, AssignPreferred, UsePlan, SelectTargets, CachePlan,
           scanVars, connVars, recheckVars, vars
  <1>2. UseTypes' /\ Ordered' /\ Fits'
    BY <1>1 DEF UseAll, UseTypes, UseInv, Ordered, Fits
  <1>3. ASSUME NEW k \in Conns \ overtaken, started PROVE Good(k)'
    BY <1>1, <1>3, Untouched DEF UseAll, UseInv, Good
  <1> QED BY <1>1, <1>2, <1>3 DEF UseInv, Good

LEMMA UseStarts == Init => UseAll
  <1> SUFFICES ASSUME Init PROVE UseAll
    OBVIOUS
  <1>1. UseTypes
    <2>1. 0 \in Sizes /\ Caps \subseteq Sizes
      BY CapsAssumption, MaxMTUAssumption DEF Sizes
    <2> QED BY <2>1 DEF Init, UseTypes
  <1>2. Ordered
    BY ConnsAssumption DEF Init, Ordered, Resting, NotMerging
  <1>3. Fits
    <2>1. \A k \in Conns : cap[k] \in Nat
      BY <1>1, MaxMTUAssumption DEF UseTypes, Sizes
    <2> QED BY <2>1 DEF Init, Fits
  <1> QED BY <1>1, <1>2, <1>3, FloorStarts DEF Init, UseAll, UseInv

LEMMA StepKeepsUse ==
  ASSUME UseAll, [Next]_vars
  PROVE  UseAll'
  <1>1. FloorInv'
    BY StepKeepsFloor DEF UseAll
  <1>2. CASE ScanStep
    BY <1>2, ScanResultLeavesGood, BackgroundResultLeavesGood, BackgroundPublishLeavesGood,
       BackgroundActivatedLeavesGood, <1>1 DEF ScanStep, UseAll
  <1>3. CASE HealthStep
    BY <1>3, AutoDisableLeavesGood, MarkDisabledLeavesGood, DeactivateLeavesGood,
       FinishDisableLeavesGood, StartRecheckLeavesGood, <1>1 DEF HealthStep, UseAll
  <1>4. CASE RecheckStep
    <2>1. PICK g \in Slots : RecheckFails(g) \/ RecheckPasses(g) \/ ApplyMTU(g) \/ Activate(g)
                              \/ FinishActivation(g)
      BY <1>4 DEF RecheckStep
    <2>2. UseTypes'
      BY <2>1, RecheckLeavesTypes
    <2>3. UseInv'
      BY <2>1, ProbedLeavesGood, ApplyLeavesGood, ActivateLeavesGood
    <2> QED BY <1>1, <2>2, <2>3 DEF UseAll
  <1>5. CASE DispatchStep \/ UNCHANGED vars
    BY <1>1, <1>5, DispatcherLeavesGood DEF UseAll
  <1> QED BY <1>2, <1>3, <1>4, <1>5 DEF Next

(* Whatever the scan, its late results and the rechecks do in whichever    *)
(* order, the path of each active resolver carries the synced size, and    *)
(* the snapshot's size of one that no late result overtook is no less      *)
(* (activateBackgroundMTUConnection, applyRecheckedResolverMTU).           *)
THEOREM SyncedSizeIsCarried == Spec => []ActiveCarrySyncedMTU
  <1>1. Init => UseAll
    BY UseStarts
  <1>2. UseAll /\ [Next]_vars => UseAll'
    BY StepKeepsUse
  <1>3. UseAll => ActiveCarrySyncedMTU
    <2> SUFFICES ASSUME UseAll, started, NEW k \in active
                 PROVE  synced > 0 /\ cap[k] >= synced /\ (mtu[k] >= synced \/ k \in overtaken)
      BY DEF ActiveCarrySyncedMTU
    <2>1. k \in Conns /\ cap[k] \in Nat /\ synced \in Nat
      BY MaxMTUAssumption DEF UseAll, FloorInv, TypedParts, UseTypes, Sizes
    <2>2. synced > 0 /\ synced <= cap[k]
      BY <2>1 DEF UseAll, UseInv, Fits
    <2>3. k \notin overtaken => mtu[k] >= synced
      BY <2>1 DEF UseAll, UseInv, Measured
    <2> QED BY <2>1, <2>2, <2>3
  <1> QED BY <1>1, <1>2, <1>3, PTL DEF Spec

(* A resolver that was disabled at runtime is back in use only while a     *)
(* goroutine is on its way to forget that it was, unless a late result of  *)
(* its own scan overtook it (disableResolverConnection,                    *)
(* reactivateResolverConnection).                                          *)
THEOREM DisabledStaysOut == Spec => []DisabledIsInactive
  <1>1. Init => UseAll /\ (~started => disabled = {})
    BY UseStarts DEF Init
  <1>2. UseAll /\ [Next]_vars => UseAll'
    BY StepKeepsUse
  <1>3. UseAll => DisabledIsInactive
    <2> SUFFICES ASSUME UseAll, NEW k \in (disabled \cap active) \ overtaken
                 PROVE  \/ loop.key = k /\ loop.at = "marked"
                        \/ \E g \in Slots : jobs[g] = [key |-> k, at |-> "finish"]
      BY DEF DisabledIsInactive
    <2>1. k \in Conns /\ started
      BY DEF UseAll, UseTypes, UseInv, Ordered
    <2>2. \/ loop.key = k /\ loop.at = "marked"
          \/ \E g \in Slots : jobs[g].key = k /\ jobs[g].at = "finish"
      BY <2>1 DEF UseAll, UseInv, Forgotten
    <2>3. \A g \in Slots : jobs[g] = [key |-> jobs[g].key, at |-> jobs[g].at]
      BY DEF UseAll, FloorInv, TypedParts, Job
    <2> QED BY <2>2, <2>3
  <1> QED BY <1>1, <1>2, <1>3, PTL DEF Spec

(* The sizes that a scan records are the largest that got through.         *)
THEOREM ScanRecordsLargest == Spec => []SearchIsRight
  <1>1. SearchIsRight
    <2>1. \A low \in 1..3, high \in 0..7 : low \in Int /\ high \in Int
      OBVIOUS
    <2> QED BY <2>1, SearchFinds DEF SearchIsRight, SearchFindsLargest
  <1> QED BY <1>1, PTL

-----------------------------------------------------------------------------
(* The stream's plan.                                                      *)

PlanTypes ==
  /\ choice \in [at : {"idle", "chosen", "select", "selected"}, key : Conns \cup {None},
                 keys : SUBSET Conns, fresh : BOOLEAN]
  /\ plan \in [for : Conns \cup {None}, keys : SUBSET Conns, current : BOOLEAN, raced : BOOLEAN]

PlanAll == TypedParts /\ PlanTypes /\ PlanInv

(* A snapshot makes the stored plan and the choice under way stale.        *)
LEMMA PublishingKeepsPlan ==
  ASSUME PlanAll, NEW newActive, NEW newMTU, Publish(newActive, newMTU)
  PROVE  PlanTypes' /\ PlanInv'
  <1>1. /\ plan' \in [for : Conns \cup {None}, keys : SUBSET Conns, current : BOOLEAN, raced : BOOLEAN]
        /\ plan'.current = FALSE
    BY DEF PlanAll, PlanTypes, Publish
  <1>2. /\ choice' \in [at : {"idle", "chosen", "select", "selected"}, key : Conns \cup {None},
                        keys : SUBSET Conns, fresh : BOOLEAN]
        /\ choice'.at = choice.at /\ choice'.key = choice.key /\ choice'.fresh = (choice.at = "idle")
    BY DEF PlanAll, PlanTypes, Publish
  <1> QED BY <1>1, <1>2 DEF PlanAll, PlanTypes, PlanInv

LEMMA NothingChosen ==
  /\ Idle \in [at : {"idle", "chosen", "select", "selected"}, key : Conns \cup {None},
               keys : SUBSET Conns, fresh : BOOLEAN]
  /\ Idle.at = "idle"
  /\ NoPlan \in [for : Conns \cup {None}, keys : SUBSET Conns, current : BOOLEAN, raced : BOOLEAN]
  /\ NoPlan.keys = {}
  BY DEF Idle, NoPlan

LEMMA DispatcherKeepsPlan ==
  ASSUME PlanAll, DispatchStep
  PROVE  PlanTypes' /\ PlanInv'
  <1>1. UNCHANGED <<active, started>> /\ active \subseteq Conns
    BY DEF DispatchStep, ChoosePreferred, AssignPreferred, UsePlan, SelectTargets, CachePlan,
           scanVars, connVars, PlanAll, TypedParts
  <1>2. CASE ChoosePreferred
    <2>1. PICK k \in Conns : Usable(k) /\ choice' = [at |-> IF k = preferred THEN "select" ELSE "chosen",
                                                     key |-> k, keys |-> {}, fresh |-> TRUE]
      BY <1>2 DEF ChoosePreferred
    <2> QED BY <1>1, <1>2, <2>1 DEF ChoosePreferred, Usable, PlanAll, PlanTypes, PlanInv
  <1>3. CASE AssignPreferred
    <2>1. /\ choice.at = "chosen" /\ choice' = [choice EXCEPT !.at = "select"] /\ plan' = NoPlan
      BY <1>3 DEF AssignPreferred
    <2> QED BY <1>1, <2>1, NothingChosen DEF PlanAll, PlanTypes, PlanInv
  <1>4. CASE UsePlan
    BY <1>1, <1>4, NothingChosen DEF UsePlan, PlanAll, PlanTypes, PlanInv
  <1>5. CASE SelectTargets
    <2>1. PICK others \in SUBSET active :
            LET selected == others \cup {choice.key}
            IN  choice' = IF Cardinality(selected) >= Duplicates THEN Idle
                          ELSE [choice EXCEPT !.at = "selected", !.keys = selected]
      BY <1>5 DEF SelectTargets
    <2>2. CASE choice' = Idle
      BY <1>1, <1>5, <2>2, NothingChosen DEF SelectTargets, PlanAll, PlanTypes, PlanInv
    <2>3. CASE choice' = [choice EXCEPT !.at = "selected", !.keys = others \cup {choice.key}]
      BY <1>1, <1>5, <2>3 DEF SelectTargets, PlanAll, PlanTypes, PlanInv
    <2> QED BY <2>1, <2>2, <2>3
  <1>6. CASE CachePlan
    BY <1>1, <1>6, NothingChosen DEF CachePlan, PlanAll, PlanTypes, PlanInv
  <1> QED BY <1>2, <1>3, <1>4, <1>5, <1>6 DEF DispatchStep

LEMMA StepKeepsPlan ==
  ASSUME PlanAll, [Next]_vars
  PROVE  PlanTypes' /\ PlanInv'
  <1>1. CASE UNCHANGED <<active, plan, choice>>
    BY <1>1 DEF PlanAll, PlanTypes, PlanInv
  <1>2. CASE UNCHANGED <<active, choice>> /\ plan' = NoPlan
    BY <1>2, NothingChosen DEF PlanAll, PlanTypes, PlanInv
  <1>3. CASE \E newActive, newMTU : Publish(newActive, newMTU)
    BY <1>3, PublishingKeepsPlan
  <1>4. CASE ScanStep
    BY <1>1, <1>3, <1>4 DEF ScanStep, ScanResult, ActivateInitialMTUSelection, BackgroundResult, BackgroundPublish,
                            BackgroundActivated, SetConnectionValidity, streamVars, connVars
  <1>5. CASE HealthStep
    BY <1>1, <1>2, <1>3, <1>5 DEF HealthStep, AutoDisable, MarkDisabled, Deactivate, FinishDisable, StartRecheck,
                            SetConnectionValidity, streamVars, connVars
  <1>6. CASE RecheckStep
    BY <1>1, <1>3, <1>6 DEF RecheckStep, RecheckFails, RecheckPasses, ApplyMTU, Activate, FinishActivation,
                            SetConnectionMTU, SetConnectionValidity, streamVars, connVars
  <1>7. CASE UNCHANGED vars
    BY <1>1, <1>7 DEF vars
  <1> QED BY <1>4, <1>5, <1>6, <1>7, DispatcherKeepsPlan DEF Next

(* The plan by which a stream sends its duplicates has no inactive         *)
(* resolver unless a snapshot was published while the dispatcher was       *)
(* making it (cacheStreamConnectionPlan).                                  *)
THEOREM PlanStaysActive == Spec => []PlanIsActive
  <1> DEFINE Inv == FloorInv /\ PlanTypes /\ PlanInv
  <1>1. Init => Inv
    BY FloorStarts, NothingChosen DEF Init, PlanTypes, PlanInv, NoPlan
  <1>2. Inv /\ [Next]_vars => Inv'
    BY StepKeepsFloor, StepKeepsPlan DEF PlanAll, FloorInv
  <1>3. Inv => PlanIsActive
    BY DEF PlanInv, PlanIsActive
  <1> QED BY <1>1, <1>2, <1>3, PTL DEF Spec

-----------------------------------------------------------------------------
(* The rotation: positions from the counter's one on.                      *)

LEMMA Remainder ==
  ASSUME NEW a \in Nat, NEW n \in Nat \ {0}
  PROVE  a % n \in 0..n - 1 /\ \E q \in Int : a = n * q + (a % n)
  <1>1. a \div n \in Int /\ a % n \in 0..n - 1 /\ a = n * (a \div n) + (a % n)
    OBVIOUS
  <1> QED BY <1>1

LEMMA NoMultiple ==
  ASSUME NEW n \in Nat \ {0}, NEW k \in Int, 0 - n < n * k, n * k < n
  PROVE  k = 0
  <1>1. CASE k >= 1
    BY <1>1
  <1>2. CASE k <= -1
    BY <1>2
  <1> QED BY <1>1, <1>2

LEMMA RemainderIs ==
  ASSUME NEW a \in Nat, NEW n \in Nat \ {0}, NEW k \in Int, NEW r \in 0..n - 1, a = n * k + r
  PROVE  a % n = r
  <1>1. PICK q \in Int : a = n * q + (a % n)
    BY Remainder
  <1> DEFINE s == a % n
  <1>2. s \in 0..n - 1 /\ a = n * q + s
    BY <1>1, Remainder
  <1> HIDE DEF s
  <1>3. r - s = n * (q - k) /\ q - k \in Int
    BY <1>2
  <1>4. q - k = 0
    BY <1>2, <1>3, NoMultiple
  <1> QED BY <1>2, <1>3, <1>4 DEF s

(* One turn further round.                                                 *)
LEMMA RemainderMoves ==
  ASSUME NEW c \in Nat, NEW n \in Nat \ {0}, NEW i \in 0..n
  PROVE  (c + i) % n = IF (c % n) + i < n THEN (c % n) + i ELSE (c % n) + i - n
  <1> DEFINE s == c % n
  <1>1. PICK q \in Int : c = n * q + s
    BY Remainder
  <1>2. s \in 0..n - 1
    BY Remainder
  <1> HIDE DEF s
  <1>3. CASE s + i < n
    <2>1. s + i \in 0..n - 1 /\ c + i = n * q + (s + i) /\ c + i \in Nat
      BY <1>1, <1>2, <1>3
    <2>2. (c + i) % n = s + i
      BY <2>1, RemainderIs
    <2> QED BY <1>3, <2>2 DEF s
  <1>4. CASE ~(s + i < n)
    <2>1. s + i - n \in 0..n - 1 /\ c + i = n * (q + 1) + (s + i - n) /\ c + i \in Nat /\ q + 1 \in Int
      BY <1>1, <1>2, <1>4
    <2>2. (c + i) % n = s + i - n
      BY <2>1, RemainderIs
    <2> QED BY <1>4, <2>2 DEF s
  <1> QED BY <1>3, <1>4

(* The position that comes i-th, from position k + 1 on.                   *)
Ith(k, i, n) == IF k + i <= n THEN k + i ELSE k + i - n

LEMMA RotatedIs ==
  ASSUME NEW S, NEW valid \in Seq(S), valid # << >>, NEW counter \in Nat
  PROVE  LET n == Len(valid)
             k == counter % n
         IN  /\ k \in 0..n - 1
             /\ Rotated(valid, counter) = [i \in 1..n |-> valid[Ith(k, i, n)]]
  <1> DEFINE n == Len(valid)
             k == counter % n
  <1>1. n \in Nat \ {0}
    OBVIOUS
  <1>2. k \in 0..n - 1
    BY <1>1, Remainder
  <1> HIDE DEF n
  <1>3. ASSUME NEW i \in 1..n PROVE ((k + i - 1) % n) + 1 = Ith(k, i, n)
    <2>1. k \in Nat /\ i - 1 \in 0..n /\ k + (i - 1) = k + i - 1
      BY <1>1, <1>2
    <2>2. k % n = k
      <3>1. k = n * 0 + k
        BY <1>1, <1>2
      <3> QED BY <1>1, <1>2, <2>1, <3>1, RemainderIs
    <2>3. (k + (i - 1)) % n = IF k + (i - 1) < n THEN k + (i - 1) ELSE k + (i - 1) - n
      BY <1>1, <2>1, <2>2, RemainderMoves, ZenonT(60)
    <2> HIDE DEF k
    <2> QED BY <1>1, <1>2, <2>1, <2>3 DEF Ith
  <1> HIDE DEF k
  <1>4. Rotated(valid, counter) = [i \in 1..n |-> valid[((k + i - 1) % n) + 1]]
    BY DEF Rotated, n, k
  <1> QED BY <1>2, <1>3, <1>4 DEF n, k

LEMMA RotatedPermutes ==
  ASSUME NEW S, NEW valid \in Seq(S), valid # << >>, NEW counter \in Nat
  PROVE  /\ Rotated(valid, counter) \in [1..Len(valid) -> S]
         /\ ListOf(Rotated(valid, counter)) = ListOf(valid)
         /\ (\A i, j \in DOMAIN valid : valid[i] = valid[j] => i = j)
              => \A i, j \in 1..Len(valid) :
                   Rotated(valid, counter)[i] = Rotated(valid, counter)[j] => i = j
  <1> DEFINE n == Len(valid)
             k == counter % n
             r == Rotated(valid, counter)
  <1>1. n \in Nat \ {0} /\ DOMAIN valid = 1..n /\ \A i \in 1..n : valid[i] \in S
    OBVIOUS
  <1>2. k \in 0..n - 1 /\ r = [i \in 1..n |-> valid[Ith(k, i, n)]]
    BY RotatedIs
  <1> HIDE DEF n, k, r
  <1>3. \A i \in 1..n : Ith(k, i, n) \in 1..n
    BY <1>1, <1>2 DEF Ith
  <1>4. \A i, j \in 1..n : Ith(k, i, n) = Ith(k, j, n) => i = j
    BY <1>1, <1>2 DEF Ith
  <1>5. \A p \in 1..n : \E i \in 1..n : Ith(k, i, n) = p
    <2> TAKE p \in 1..n
    <2>1. CASE p > k
      <3>1. p - k \in 1..n /\ Ith(k, p - k, n) = p
        BY <1>1, <1>2, <2>1 DEF Ith
      <3> QED BY <3>1
    <2>2. CASE p <= k
      <3>1. p - k + n \in 1..n /\ Ith(k, p - k + n, n) = p
        BY <1>1, <1>2, <2>2 DEF Ith
      <3> QED BY <3>1
    <2> QED BY <1>1, <1>2, <2>1, <2>2
  <1>6. r \in [1..n -> S] /\ \A i \in 1..n : r[i] = valid[Ith(k, i, n)]
    BY <1>1, <1>2, <1>3
  <1>7. ListOf(r) = ListOf(valid)
    <2>1. ASSUME NEW e \in ListOf(r) PROVE e \in ListOf(valid)
      <3>1. PICK i \in 1..n : e = r[i]
        BY <1>6 DEF ListOf
      <3>2. e = valid[Ith(k, i, n)] /\ Ith(k, i, n) \in DOMAIN valid
        BY <1>1, <1>3, <1>6, <3>1
      <3> QED BY <3>2 DEF ListOf
    <2>2. ASSUME NEW e \in ListOf(valid) PROVE e \in ListOf(r)
      <3>1. PICK p \in 1..n : e = valid[p]
        BY <1>1 DEF ListOf
      <3>2. PICK i \in 1..n : Ith(k, i, n) = p
        BY <1>5
      <3>3. e = r[i] /\ i \in DOMAIN r
        BY <1>6, <3>1, <3>2
      <3> QED BY <3>3 DEF ListOf
    <2> QED BY <2>1, <2>2
  <1>8. ASSUME \A i, j \in DOMAIN valid : valid[i] = valid[j] => i = j,
               NEW i \in 1..n, NEW j \in 1..n, r[i] = r[j]
        PROVE  i = j
    <2>1. valid[Ith(k, i, n)] = valid[Ith(k, j, n)]
      BY <1>6, <1>8
    <2>2. Ith(k, i, n) = Ith(k, j, n)
      BY <1>1, <1>3, <1>8, <2>1
    <2> QED BY <1>4, <2>2
  <1> QED BY <1>6, <1>7, <1>8 DEF n, r

(* Selections that follow each other, as many as the counter says, get     *)
(* every connection.                                                       *)
LEMMA TurnsAreShared ==
  ASSUME NEW S, NEW valid \in Seq(S), NEW counter \in Nat, NEW first \in 1..Len(valid) - 1
  PROVE  SharesOut(valid, counter, first)
  <1> DEFINE n == Len(valid)
             k == counter % n
             l == (counter + first) % n
             one == RoundRobin(valid, counter, first)
             two == RoundRobin(valid, counter + Step(first), n - first)
  <1>1. /\ n \in Nat \ {0} /\ DOMAIN valid = 1..n /\ \A i \in 1..n : valid[i] \in S
        /\ valid # << >> /\ first \in 1..n - 1 /\ Step(first) = first /\ counter + first \in Nat
    BY DEF Step
  <1>2. /\ k \in 0..n - 1 /\ Rotated(valid, counter) = [i \in 1..n |-> valid[Ith(k, i, n)]]
        /\ l \in 0..n - 1 /\ Rotated(valid, counter + first) = [i \in 1..n |-> valid[Ith(l, i, n)]]
    BY <1>1, RotatedIs
  <1>3. l = IF k + first < n THEN k + first ELSE k + first - n
    <2>1. first \in 0..n
      BY <1>1
    <2> HIDE DEF n
    <2> QED BY <1>1, <2>1, RemainderMoves
  <1>4. one = SubSeq(Rotated(valid, counter), 1, first)
        /\ two = SubSeq(Rotated(valid, counter + first), 1, n - first)
    BY <1>1 DEF RoundRobin
  <1> HIDE DEF n, k, l, one, two
  <1>5. \A i \in 1..n : Ith(k, i, n) \in 1..n /\ Ith(l, i, n) \in 1..n
    BY <1>1, <1>2 DEF Ith
  <1>6. /\ DOMAIN one = 1..first /\ \A i \in 1..first : one[i] = valid[Ith(k, i, n)]
        /\ DOMAIN two = 1..(n - first) /\ \A i \in 1..(n - first) : two[i] = valid[Ith(l, i, n)]
    BY <1>1, <1>2, <1>4
  <1>7. ASSUME NEW e \in ListOf(one) \cup ListOf(two) PROVE e \in ListOf(valid)
    <2>1. PICK p \in 1..n : e = valid[p]
      <3>1. CASE e \in ListOf(one)
        <4>1. PICK i \in 1..first : e = one[i]
          BY <1>6, <3>1 DEF ListOf
        <4>2. i \in 1..n
          BY <1>1
        <4>3. e = valid[Ith(k, i, n)] /\ Ith(k, i, n) \in 1..n
          BY <1>5, <1>6, <4>1, <4>2
        <4> QED BY <4>3
      <3>2. CASE e \in ListOf(two)
        <4>1. PICK i \in 1..(n - first) : e = two[i]
          BY <1>6, <3>2 DEF ListOf
        <4>2. i \in 1..n
          BY <1>1
        <4>3. e = valid[Ith(l, i, n)] /\ Ith(l, i, n) \in 1..n
          BY <1>5, <1>6, <4>1, <4>2
        <4> QED BY <4>3
      <3> QED BY <1>7, <3>1, <3>2
    <2> QED BY <1>1, <2>1 DEF ListOf
  <1>8. ASSUME NEW p \in 1..n PROVE valid[p] \in ListOf(one) \cup ListOf(two)
    <2>1. PICK i \in 1..n : Ith(k, i, n) = p
      <3>1. CASE p > k
        <4>1. p - k \in 1..n /\ Ith(k, p - k, n) = p
          BY <1>1, <1>2, <3>1 DEF Ith
        <4> QED BY <4>1
      <3>2. CASE p <= k
        <4>1. p - k + n \in 1..n /\ Ith(k, p - k + n, n) = p
          BY <1>1, <1>2, <3>2 DEF Ith
        <4> QED BY <4>1
      <3> QED BY <1>1, <1>2, <3>1, <3>2
    <2>2. CASE i <= first
      <3>1. i \in DOMAIN one /\ one[i] = valid[p]
        BY <1>1, <1>6, <2>1, <2>2
      <3> QED BY <3>1 DEF ListOf
    <2>3. CASE i > first
      <3>1. i - first \in 1..(n - first) /\ Ith(l, i - first, n) = p
        BY <1>1, <1>2, <1>3, <2>1, <2>3 DEF Ith
      <3>2. i - first \in DOMAIN two /\ two[i - first] = valid[p]
        BY <1>6, <3>1
      <3> QED BY <3>2 DEF ListOf
    <2> QED BY <1>1, <2>2, <2>3
  <1>9. ListOf(valid) \subseteq ListOf(one) \cup ListOf(two)
    BY <1>1, <1>8 DEF ListOf
  <1> QED BY <1>7, <1>9 DEF SharesOut, one, two, n

-----------------------------------------------------------------------------
(* The lowest scores.                                                      *)

LEMMA LowestExists ==
  ASSUME NEW n \in Nat, NEW order, NEW score, NEW among \in SUBSET (1..n), among # {},
         \A i \in among : score[order[i]] \in Nat
  PROVE  /\ FirstLowest(order, among, score) \in among
         /\ \A j \in among : score[order[FirstLowest(order, among, score)]] <= score[order[j]]
  <1> DEFINE N == {score[order[i]] : i \in among}
             Low == {i \in among : \A j \in among : score[order[i]] <= score[order[j]]}
  <1>1. PICK m \in N : \A x \in N : m <= x
    <2>1. N \in SUBSET Nat /\ N # {}
      OBVIOUS
    <2> HIDE DEF N
    <2> QED BY <2>1, LeastNumber
  <1>2. PICK l \in among : \A j \in among : score[order[l]] <= score[order[j]]
    BY <1>1
  <1>3. PICK i \in Low : \A j \in Low : i <= j
    <2>1. l \in Low /\ \A i \in Low : i \in Nat
      BY <1>2
    <2>2. Low \in SUBSET Nat /\ Low # {}
      BY <2>1
    <2> HIDE DEF Low
    <2> QED BY <2>2, LeastNumber
  <1>4. ASSUME NEW j \in among, j < i PROVE score[order[j]] # score[order[i]]
    <2>1. i \in Nat /\ j \in Nat /\ ~(i <= j)
      <3>1. i \in 1..n /\ j \in 1..n
        BY <1>3
      <3> QED BY <1>4, <3>1
    <2>2. j \notin Low
      BY <1>3, <2>1
    <2>3. \A o \in among : score[order[i]] <= score[order[o]]
      BY <1>3
    <2>4. PICK o \in among : ~(score[order[j]] <= score[order[o]])
      BY <1>4, <2>2
    <2> HIDE DEF Low
    <2> QED BY <2>3, <2>4
  <1> DEFINE P(k) == /\ \A j \in among : score[order[k]] <= score[order[j]]
                     /\ \A j \in among : j < k => score[order[j]] # score[order[k]]
  <1>5. i \in among /\ P(i)
    BY <1>3, <1>4
  <1>6. FirstLowest(order, among, score) = CHOOSE k \in among : P(k)
    BY DEF FirstLowest
  <1> HIDE DEF P
  <1>7. FirstLowest(order, among, score) \in among /\ P(FirstLowest(order, among, score))
    BY <1>5, <1>6
  <1> QED BY <1>7 DEF P

(* The best of the others.                                                 *)
LEMMA OtherIsBest ==
  ASSUME NEW S, NEW valid \in Seq(S), valid # << >>, NEW counter \in Nat,
         NEW score \in [S -> Nat], NEW exclude
  PROVE  FailsOver(valid, counter, score, exclude)
  <1> DEFINE n == Len(valid)
             order == Rotated(valid, counter)
             among == {i \in DOMAIN order : order[i] # exclude}
             others == ListOf(valid) \ {exclude}
             m == FirstLowest(order, among, score)
  <1>1. n \in Nat /\ order \in [1..n -> S] /\ ListOf(order) = ListOf(valid)
    BY RotatedPermutes
  <1>2. BestOther(valid, counter, score, exclude) = IF among = {} THEN {} ELSE {order[m]}
    BY DEF BestOther
  <1> HIDE DEF n, order, m
  <1>3. others = {order[i] : i \in among}
    BY <1>1 DEF ListOf
  <1>4. ASSUME among # {}
        PROVE  m \in among /\ \A j \in among : score[order[m]] <= score[order[j]]
    <2>1. among \in SUBSET (1..n) /\ \A i \in among : score[order[i]] \in Nat
      BY <1>1
    <2> HIDE DEF among
    <2> QED BY <1>1, <1>4, <2>1, LowestExists DEF m
  <1> HIDE DEF among
  <1>5. CASE among = {}
    BY <1>2, <1>3, <1>5 DEF FailsOver
  <1>6. CASE among # {}
    <2>1. order[m] \in others /\ \A l \in others : score[order[m]] <= score[l]
      BY <1>3, <1>4, <1>6
    <2>2. BestOther(valid, counter, score, exclude) = {order[m]}
      BY <1>2, <1>6
    <2> QED BY <2>1, <2>2 DEF FailsOver
  <1> QED BY <1>5, <1>6

(* One pass of the selection sort of a list of n.                          *)
Swapped(s, i, m) == [s EXCEPT ![i] = s[m], ![m] = s[i]]
OnePass(s, i, n, score) == Swapped(s, i, FirstLowest(s, i..n, score))
Sorted(f, start, n, score, i) ==
  IF i = 0 THEN start ELSE OnePass(f[i - 1], i, n, score)

Sorts(f, start, n, count, score, upto) ==
  /\ f = [i \in 0..count |-> f[i]]
  /\ \A i \in 0..count : i < upto => f[i] = Sorted(f, start, n, score, i)

LEMMA SortsFurther ==
  ASSUME NEW start, NEW n, NEW score, NEW count \in Nat, NEW upto \in Nat, NEW f,
         Sorts(f, start, n, count, score, upto)
  PROVE  Sorts([i \in 0..count |-> Sorted(f, start, n, score, i)], start, n, count, score, upto + 1)
  <1> DEFINE g == [i \in 0..count |-> Sorted(f, start, n, score, i)]
  <1>1. /\ g = [i \in 0..count |-> g[i]]
        /\ \A i \in 0..count : g[i] = Sorted(f, start, n, score, i)
    OBVIOUS
  <1>2. \A i \in 0..count : i < upto => g[i] = f[i]
    BY <1>1 DEF Sorts
  <1> HIDE DEF g
  <1>3. ASSUME NEW i \in 0..count, i < upto + 1
        PROVE  Sorted(g, start, n, score, i) = Sorted(f, start, n, score, i)
    <2>1. CASE i = 0
      BY <2>1 DEF Sorted
    <2>2. CASE i # 0
      <3>1. i - 1 \in 0..count /\ i - 1 < upto
        BY <1>3, <2>2
      <3>2. g[i - 1] = f[i - 1]
        BY <1>2, <3>1
      <3> QED BY <3>2 DEF Sorted
    <2> QED BY <2>1, <2>2
  <1>4. Sorts(g, start, n, count, score, upto + 1)
    BY <1>1, <1>3 DEF Sorts
  <1> QED BY <1>4 DEF g

LEMMA SortsExists ==
  ASSUME NEW start, NEW n, NEW score, NEW count \in Nat, NEW upto \in Nat
  PROVE  \E f : Sorts(f, start, n, count, score, upto)
  <1> DEFINE Bad == {i \in Nat : ~ \E f : Sorts(f, start, n, count, score, i)}
  <1>1. SUFFICES ASSUME Bad # {} PROVE FALSE
    OBVIOUS
  <1>2. PICK i \in Bad : \A j \in Bad : i <= j
    <2>1. Bad \in SUBSET Nat
      OBVIOUS
    <2> HIDE DEF Bad
    <2> QED BY <1>1, <2>1, LeastNumber
  <1>3. CASE i = 0
    <2>1. Sorts([j \in 0..count |-> 0], start, n, count, score, 0)
      BY DEF Sorts
    <2> QED BY <1>2, <1>3, <2>1
  <1>4. CASE i # 0
    <2>1. i - 1 \in Nat /\ i - 1 \notin Bad /\ (i - 1) + 1 = i
      BY <1>2, <1>4
    <2>2. PICK f : Sorts(f, start, n, count, score, i - 1)
      BY <2>1
    <2>3. Sorts([j \in 0..count |-> Sorted(f, start, n, score, j)], start, n, count, score, (i - 1) + 1)
      BY <2>1, <2>2, SortsFurther
    <2> QED BY <1>2, <2>1, <2>3
  <1> QED BY <1>3, <1>4

SortsThem(f, valid, counter, count, score) ==
  /\ \A i \in 0..count : f[i] = Sorted(f, Rotated(valid, counter), Len(valid), score, i)
  /\ LowestScores(valid, counter, count, score) = SubSeq(f[count], 1, count)

LEMMA SortSolves ==
  ASSUME NEW valid, NEW counter, NEW score, NEW count \in Nat
  PROVE  \E f : SortsThem(f, valid, counter, count, score)
  <1> DEFINE start == Rotated(valid, counter)
             n == Len(valid)
             body(f) == [i \in 0..count |-> Sorted(f, start, n, score, i)]
             sorted == CHOOSE f : f = body(f)
  <1>1. PICK f : Sorts(f, start, n, count, score, count + 1)
    <2>1. count + 1 \in Nat
      OBVIOUS
    <2> QED BY <2>1, SortsExists
  <1>2. f = body(f)
    <2>1. f = [i \in 0..count |-> f[i]]
      BY <1>1 DEF Sorts
    <2>2. \A i \in 0..count : f[i] = Sorted(f, start, n, score, i)
      BY <1>1 DEF Sorts
    <2> QED BY <2>1, <2>2
  <1>3. sorted = body(sorted)
    BY <1>2
  <1>4. LowestScores(valid, counter, count, score) = SubSeq(sorted[count], 1, count)
    BY DEF LowestScores, Sorted, OnePass, Swapped
  <1> HIDE DEF sorted
  <1>5. SortsThem(sorted, valid, counter, count, score)
    BY <1>3, <1>4 DEF SortsThem
  <1> QED BY <1>5

(* What the sort keeps, and what it has put in place.                      *)
SortedUpTo(s, i, n, score) ==
  \A a \in 1..i, b \in 1..n : a < b => score[s[a]] <= score[s[b]]
Different(s) == \A i, j \in DOMAIN s : s[i] = s[j] => i = j

LEMMA SwapSorts ==
  ASSUME NEW S, NEW n \in Nat, NEW s \in [1..n -> S], NEW i \in 1..n, NEW m \in i..n,
         NEW score \in [S -> Nat], SortedUpTo(s, i - 1, n, score),
         \A j \in i..n : score[s[m]] <= score[s[j]]
  PROVE  /\ Swapped(s, i, m) \in [1..n -> S] /\ ListOf(Swapped(s, i, m)) = ListOf(s)
         /\ Different(s) => Different(Swapped(s, i, m))
         /\ SortedUpTo(Swapped(s, i, m), i, n, score)
  <1> DEFINE t == Swapped(s, i, m)
             from(a) == IF a = i THEN m ELSE IF a = m THEN i ELSE a
  <1>1. /\ t \in [1..n -> S]
        /\ \A a \in 1..n : from(a) \in 1..n /\ t[a] = s[from(a)] /\ from(from(a)) = a
        /\ DOMAIN t = 1..n /\ DOMAIN s = 1..n
    BY DEF Swapped
  <1> HIDE DEF t
  <1>2. ListOf(t) = ListOf(s)
    <2>1. \A a \in 1..n : t[a] \in ListOf(s)
      BY <1>1 DEF ListOf
    <2>2. \A a \in 1..n : s[a] = t[from(a)]
      BY <1>1
    <2>3. \A a \in 1..n : s[a] \in ListOf(t)
      BY <1>1, <2>2 DEF ListOf
    <2> HIDE DEF from
    <2> QED BY <1>1, <2>1, <2>3 DEF ListOf
  <1>3. ASSUME Different(s) PROVE Different(t)
    <2>1. \A a, b \in 1..n : s[a] = s[b] => a = b
      BY <1>3 DEF Different
    <2>2. ASSUME NEW a \in 1..n, NEW b \in 1..n, t[a] = t[b] PROVE a = b
      <3>1. from(a) = from(b)
        <4> HIDE DEF from
        <4>1. from(a) \in 1..n /\ from(b) \in 1..n /\ s[from(a)] = s[from(b)]
          BY <1>1, <2>2
        <4> QED BY <2>1, <4>1
      <3> QED BY <3>1
    <2> QED BY <1>1, <2>2 DEF Different
  <1>4. ASSUME NEW a \in 1..i, NEW b \in 1..n, a < b
        PROVE  score[t[a]] <= score[t[b]]
    <2>1. CASE a = i
      <3>1. t[a] = s[m] /\ t[b] = s[from(b)] /\ from(b) \in i..n
        BY <1>1, <1>4, <2>1
      <3> QED BY <3>1
    <2>2. CASE a # i
      <3>1. t[a] = s[a] /\ a \in 1..i - 1 /\ t[b] = s[from(b)] /\ from(b) \in 1..n /\ a < from(b)
        BY <1>1, <1>4, <2>2
      <3> HIDE DEF from
      <3> QED BY <3>1 DEF SortedUpTo
    <2> QED BY <2>1, <2>2
  <1> QED BY <1>1, <1>2, <1>3, <1>4 DEF SortedUpTo, t

LEMMA Between ==
  ASSUME NEW n \in Nat, NEW i \in 1..n
  PROVE  i..n \in SUBSET (1..n) /\ i..n # {}
  <1>1. i \in i..n
    OBVIOUS
  <1> QED BY <1>1

LEMMA PassSorts ==
  ASSUME NEW S, NEW n \in Nat, NEW s \in [1..n -> S], NEW i \in 1..n,
         NEW score \in [S -> Nat], SortedUpTo(s, i - 1, n, score)
  PROVE  /\ OnePass(s, i, n, score) \in [1..n -> S] /\ ListOf(OnePass(s, i, n, score)) = ListOf(s)
         /\ Different(s) => Different(OnePass(s, i, n, score))
         /\ SortedUpTo(OnePass(s, i, n, score), i, n, score)
  <1> DEFINE m == FirstLowest(s, i..n, score)
  <1>1. i..n \in SUBSET (1..n) /\ i..n # {}
    BY Between
  <1>4. \A j \in i..n : score[s[j]] \in Nat
    <2>1. \A j \in 1..n : score[s[j]] \in Nat
      OBVIOUS
    <2> QED BY <1>1, <2>1
  <1>2. m \in i..n /\ \A j \in i..n : score[s[m]] <= score[s[j]]
    BY <1>1, <1>4, LowestExists
  <1> HIDE DEF m
  <1>3. /\ Swapped(s, i, m) \in [1..n -> S] /\ ListOf(Swapped(s, i, m)) = ListOf(s)
        /\ Different(s) => Different(Swapped(s, i, m))
        /\ SortedUpTo(Swapped(s, i, m), i, n, score)
    BY <1>2, SwapSorts
  <1> QED BY <1>3 DEF OnePass, m

(* The list after i passes over the list it started from.                  *)
Arranged(s, start, i, n, S, score) ==
  /\ s \in [1..n -> S] /\ ListOf(s) = ListOf(start)
  /\ Different(start) => Different(s)
  /\ SortedUpTo(s, i, n, score)

LEMMA PassArranges ==
  ASSUME NEW S, NEW n \in Nat, NEW start, NEW s, NEW i \in 1..n, NEW score \in [S -> Nat],
         Arranged(s, start, i - 1, n, S, score)
  PROVE  Arranged(OnePass(s, i, n, score), start, i, n, S, score)
  <1>1. /\ s \in [1..n -> S] /\ ListOf(s) = ListOf(start) /\ SortedUpTo(s, i - 1, n, score)
        /\ Different(start) => Different(s)
    BY DEF Arranged
  <1>2. /\ OnePass(s, i, n, score) \in [1..n -> S] /\ ListOf(OnePass(s, i, n, score)) = ListOf(s)
        /\ Different(s) => Different(OnePass(s, i, n, score))
        /\ SortedUpTo(OnePass(s, i, n, score), i, n, score)
    BY <1>1, PassSorts
  <1> QED BY <1>1, <1>2 DEF Arranged

LEMMA SortSorts ==
  ASSUME NEW S, NEW n \in Nat, NEW start \in [1..n -> S], NEW score \in [S -> Nat],
         NEW count \in 0..n, NEW f, \A i \in 0..count : f[i] = Sorted(f, start, n, score, i)
  PROVE  Arranged(f[count], start, count, n, S, score)
  <1> DEFINE Bad == {i \in 0..count : ~Arranged(f[i], start, i, n, S, score)}
  <1>1. SUFFICES ASSUME Bad # {} PROVE FALSE
    OBVIOUS
  <1>2. PICK i \in Bad : \A j \in Bad : i <= j
    <2>1. Bad \in SUBSET Nat
      OBVIOUS
    <2> HIDE DEF Bad
    <2> QED BY <1>1, <2>1, LeastNumber
  <1>3. CASE i = 0
    <2>1. f[0] = start
      <3>1. f[0] = Sorted(f, start, n, score, 0)
        OBVIOUS
      <3> QED BY <3>1 DEF Sorted
    <2>2. Arranged(start, start, 0, n, S, score)
      BY DEF Arranged, SortedUpTo
    <2> QED BY <1>2, <1>3, <2>1, <2>2
  <1>4. CASE i # 0
    <2>1. i \in 1..n /\ i - 1 \in 0..count /\ i - 1 \notin Bad
      BY <1>2, <1>4
    <2>2. Arranged(f[i - 1], start, i - 1, n, S, score)
      BY <2>1
    <2>3. f[i] = OnePass(f[i - 1], i, n, score)
      BY <1>2, <1>4 DEF Sorted
    <2>4. Arranged(f[i], start, i, n, S, score)
      BY <2>1, <2>2, <2>3, PassArranges
    <2> QED BY <1>2, <2>4
  <1> QED BY <1>3, <1>4

LEMMA Numbers ==
  ASSUME NEW n \in Nat
  PROVE  IsFiniteSet(1..n) /\ Cardinality(1..n) = n
  BY FS_Interval

(* What is selected is the beginning of the sorted list.                   *)
LEMMA LowestSelected ==
  ASSUME NEW S, NEW valid \in Seq(S), valid # << >>, Different(valid), NEW counter \in Nat,
         NEW score \in [S -> Nat], NEW asked \in Int
  PROVE  SelectsLowest(valid, counter, asked, score)
  <1> DEFINE n == Len(valid)
             count == RequiredCount(n, asked)
             best == LowestScores(valid, counter, count, score)
  <1>1. /\ n \in Nat /\ n > 0 /\ count \in 1..n /\ count \in Nat
        /\ count = IF asked > n THEN n ELSE IF asked <= 0 THEN 1 ELSE asked
    BY DEF RequiredCount
  <1> HIDE DEF count
  <1> DEFINE start == Rotated(valid, counter)
  <1>2. start \in [1..n -> S] /\ ListOf(start) = ListOf(valid) /\ Different(start)
    <2>1. /\ start \in [1..n -> S] /\ ListOf(start) = ListOf(valid)
          /\ \A i, j \in 1..n : start[i] = start[j] => i = j
      BY RotatedPermutes DEF Different
    <2> HIDE DEF start
    <2>2. DOMAIN start = 1..n
      BY <2>1
    <2> QED BY <2>1, <2>2 DEF Different
  <1>3. PICK s : /\ s \in [1..n -> S] /\ ListOf(s) = ListOf(valid) /\ Different(s)
                 /\ SortedUpTo(s, count, n, score) /\ best = SubSeq(s, 1, count)
    <2>1. PICK f : /\ \A i \in 0..count : f[i] = Sorted(f, start, n, score, i)
                   /\ best = SubSeq(f[count], 1, count)
      <3>1. \E f : SortsThem(f, valid, counter, count, score)
        BY <1>1, SortSolves
      <3> QED BY <3>1 DEF SortsThem
    <2> HIDE DEF start, n, best
    <2>2. Arranged(f[count], start, count, n, S, score)
      <3>1. n \in Nat /\ count \in 0..n /\ start \in [1..n -> S]
        BY <1>1, <1>2
      <3>2. \A i \in 0..count : f[i] = Sorted(f, start, n, score, i)
        BY <2>1
      <3> QED BY <3>1, <3>2, SortSorts, Zenon
    <2> QED BY <1>2, <2>1, <2>2 DEF Arranged
  <1>4. s \in Seq(S) /\ Len(s) = n /\ best = SubSeq(s, 1, count)
    <2> HIDE DEF n, best
    <2> QED BY <1>1, <1>3
  <1> HIDE DEF n, best, start
  <1>5. /\ Len(best) = count /\ DOMAIN best = 1..count
        /\ \A i \in 1..count : best[i] = s[i]
    BY <1>1, <1>3, <1>4
  <1>6. Cardinality(ListOf(best)) = count
    <2>1. best \in Bijection(1..count, ListOf(best))
      <3>1. best \in [1..count -> ListOf(best)]
        <4>1. best = [i \in 1..count |-> best[i]]
          BY <1>1, <1>3, <1>4
        <4>2. \A i \in 1..count : best[i] \in ListOf(best)
          BY <1>5 DEF ListOf
        <4> QED BY <4>1, <4>2
      <3>2. \A i, j \in 1..count : best[i] = best[j] => i = j
        BY <1>1, <1>3, <1>5 DEF Different
      <3>3. \A e \in ListOf(best) : \E i \in 1..count : best[i] = e
        BY <1>5 DEF ListOf
      <3> QED BY <3>1, <3>2, <3>3 DEF Bijection, Injection, Surjection, IsInjective
    <2>2. IsFiniteSet(1..count) /\ Cardinality(1..count) = count
      BY <1>1, Numbers
    <2>3. best \in Surjection(1..count, ListOf(best)) /\ best \in Injection(1..count, ListOf(best))
      BY <2>1 DEF Bijection
    <2> QED BY <2>2, <2>3, FS_Surjection
  <1>7. ListOf(best) \subseteq ListOf(valid)
    <2>1. \A i \in 1..count : s[i] \in ListOf(s)
      BY <1>1, <1>3 DEF ListOf
    <2> QED BY <1>3, <1>5, <2>1 DEF ListOf
  <1>8. ASSUME NEW k \in ListOf(best), NEW l \in ListOf(valid) \ ListOf(best)
        PROVE  score[k] <= score[l]
    <2>1. PICK i \in 1..count : k = s[i]
      BY <1>5 DEF ListOf
    <2>2. PICK j \in 1..n : l = s[j]
      <3>1. l \in ListOf(s)
        BY <1>3
      <3> QED BY <1>3, <3>1 DEF ListOf
    <2>3. ~(j <= count)
      <3>1. \A a \in 1..count : s[a] \in ListOf(best)
        BY <1>5 DEF ListOf
      <3> QED BY <1>1, <2>2, <3>1
    <2>4. i < j
      BY <1>1, <2>3
    <2> QED BY <1>3, <2>1, <2>2, <2>4 DEF SortedUpTo
  <1> QED BY <1>1, <1>5, <1>6, <1>7, <1>8 DEF SelectsLowest, best, count, n

-----------------------------------------------------------------------------
(* The aging of the statistics.                                            *)

LEMMA Quotient ==
  ASSUME NEW h \in Nat \ {0}, NEW x \in Nat
  PROVE  x \div h \in Nat /\ h * (x \div h) <= x /\ x < h * (x \div h) + h
  OBVIOUS

LEMMA QuotientIs ==
  ASSUME NEW h \in Nat \ {0}, NEW q \in Nat, NEW r \in 0..h - 1
  PROVE  (h * q + r) \div h = q
  <1>1. (h * q + r) \in Nat
    OBVIOUS
  <1> QED BY <1>1

(* The mean of n equal values is that value, whatever n is.                *)
LEMMA MeanIsExact ==
  ASSUME NEW n \in Nat \ {0}, NEW rtt \in Nat
  PROVE  (n * rtt) \div n = rtt
  <1>1. n * rtt + 0 = n * rtt /\ 0 \in 0..n - 1
    OBVIOUS
  <1> QED BY <1>1, QuotientIs

(* Halving the sum and the count of an odd number of them rounds both.     *)
LEMMA HalvedMean ==
  ASSUME NEW n \in Nat, n > 400, NEW rtt \in Nat
  PROVE  /\ ((n * rtt) \div 2) \div (n \div 2) \in Nat
         /\ (((n * rtt) \div 2) \div (n \div 2) - rtt) * 400 \in 0..rtt
  <1> DEFINE h == n \div 2
             half == rtt \div 2
             rest == half \div h
             mean == ((n * rtt) \div 2) \div h
  <1>1. h \in Nat /\ h >= 200 /\ (n = 2 * h \/ n = 2 * h + 1)
    OBVIOUS
  <1>2. half \in Nat /\ (rtt = 2 * half \/ rtt = 2 * half + 1)
    OBVIOUS
  <1>3. rest \in Nat /\ h * rest <= half
    <2> HIDE DEF half, h
    <2> QED BY <1>1, <1>2, Quotient
  <1>4. CASE n = 2 * h
    <2>1. (n * rtt) \div 2 = h * rtt
      <3>1. h * rtt \in Nat /\ n * rtt = 2 * (h * rtt)
        <4> HIDE DEF h
        <4> QED BY <1>1, <1>4
      <3> DEFINE p == h * rtt
      <3>2. p \in Nat /\ n * rtt = 2 * p
        BY <3>1
      <3> HIDE DEF p
      <3>3. (n * rtt) \div 2 = p
        BY <3>2
      <3> QED BY <3>3 DEF p
    <2>2. mean = rtt
      <3> HIDE DEF h
      <3> QED BY <1>1, <2>1, MeanIsExact
    <2> QED BY <2>2
  <1>5. CASE n = 2 * h + 1
    <2>1. (n * rtt) \div 2 = h * rtt + half
      <3> DEFINE p == h * rtt
      <3>1. p \in Nat /\ n * rtt = 2 * p + rtt
        <4> HIDE DEF h
        <4> QED BY <1>1, <1>5
      <3> HIDE DEF p
      <3>2. (n * rtt) \div 2 = p + half
        <4> HIDE DEF half
        <4>1. n * rtt = 2 * (p + half) + (rtt - 2 * half) /\ rtt - 2 * half \in 0..1
          BY <1>2, <3>1
        <4>2. p + half \in Nat
          BY <1>2, <3>1
        <4> QED BY <4>1, <4>2, QuotientIs
      <3> QED BY <3>2 DEF p
    <2>2. mean = rtt + rest
      <3> DEFINE r == half - h * rest
      <3>1. r \in 0..h - 1 /\ h * rtt + half = h * (rtt + rest) + r
        <4> HIDE DEF h, half
        <4>1. half < h * rest + h
          BY <1>1, <1>2, Quotient
        <4> HIDE DEF rest
        <4> QED BY <1>1, <1>2, <1>3, <4>1
      <3> HIDE DEF h, half, rest, r
      <3>2. (h * rtt + half) \div h = rtt + rest
        BY <1>1, <1>3, <3>1, QuotientIs
      <3> QED BY <2>1, <3>2
    <2> HIDE DEF mean, h, half, rest
    <2>3. 200 * rest <= h * rest
      BY <1>1, <1>3
    <2>4. (mean - rtt) * 400 \in 0..rtt
      <3>1. mean - rtt = rest
        BY <1>3, <2>2
      <3>2. 200 * rest <= half
        <4> DEFINE p == h * rest
        <4>1. p <= half /\ 200 * rest <= p /\ p \in Nat
          BY <1>1, <1>3, <2>3
        <4> HIDE DEF p
        <4> QED BY <1>2, <1>3, <4>1
      <3>3. rest * 400 \in 0..rtt
        BY <1>2, <1>3, <3>2
      <3> QED BY <3>1, <3>3
    <2> QED BY <1>3, <2>2, <2>4 DEF mean, h
  <1> QED BY <1>1, <1>4, <1>5

(* What the reports do to a path whose round trips are all the same.       *)
Steady(sent, acked, rtt) ==
  [sent |-> sent, acked |-> acked, rttMicrosSum |-> acked * rtt, rttCount |-> acked]
Halved(sent, acked, rtt) ==
  [sent |-> sent \div 2, acked |-> acked \div 2, rttMicrosSum |-> (acked * rtt) \div 2,
   rttCount |-> acked \div 2]

LEMMA HalfLifeIs ==
  ASSUME NEW sent \in Nat, NEW acked \in Nat, NEW rtt \in Nat
  PROVE  HalfLife(Steady(sent, acked, rtt))
           = IF sent <= 1000 /\ acked <= 1000 THEN Steady(sent, acked, rtt)
             ELSE Halved(sent, acked, rtt)
  <1> DEFINE s == Steady(sent, acked, rtt)
             half == [f \in DOMAIN s |-> s[f] \div 2]
  <1>1. DOMAIN s = {"sent", "acked", "rttMicrosSum", "rttCount"}
    BY DEF Steady
  <1>2. (\A f \in DOMAIN s \ {"rttMicrosSum"} : s[f] <= 1000) <=> sent <= 1000 /\ acked <= 1000
    BY <1>1 DEF Steady
  <1>3. half = Halved(sent, acked, rtt)
    BY DEF Steady, Halved
  <1> HIDE DEF s, half
  <1> QED BY <1>2, <1>3 DEF HalfLife, HalfLifeThreshold, s, half

(* A report of a success is three updates of the record.                   *)
Succeeded(s, rtt) == [s EXCEPT !.acked = @ + 1, !.rttMicrosSum = @ + rtt, !.rttCount = @ + 1]

LEMMA ThreeUpdates ==
  ASSUME NEW sent, NEW acked, NEW p, NEW rtt,
         NEW s, s = [sent |-> sent, acked |-> acked, rttMicrosSum |-> p, rttCount |-> acked]
  PROVE  Succeeded(s, rtt)
           = [sent |-> sent, acked |-> acked + 1, rttMicrosSum |-> p + rtt, rttCount |-> acked + 1]
  <1> DEFINE more == acked + 1
             sum == p + rtt
             one == [sent |-> sent, acked |-> more, rttMicrosSum |-> p, rttCount |-> acked]
             two == [sent |-> sent, acked |-> more, rttMicrosSum |-> sum, rttCount |-> acked]
  <1>1. s.acked + 1 = more /\ s.rttMicrosSum + rtt = sum /\ s.rttCount + 1 = more
    OBVIOUS
  <1> HIDE DEF more, sum
  <1>2. [s EXCEPT !.acked = more] = one
    OBVIOUS
  <1>3. [one EXCEPT !.rttMicrosSum = sum] = two
    OBVIOUS
  <1>4. [two EXCEPT !.rttCount = more]
          = [sent |-> sent, acked |-> more, rttMicrosSum |-> sum, rttCount |-> more]
    OBVIOUS
  <1> HIDE DEF one, two
  <1>5. [s EXCEPT !.acked = more, !.rttMicrosSum = sum, !.rttCount = more]
          = [[[s EXCEPT !.acked = more] EXCEPT !.rttMicrosSum = sum] EXCEPT !.rttCount = more]
    OBVIOUS
  <1>6. [s EXCEPT !.acked = more, !.rttMicrosSum = sum, !.rttCount = more]
          = [sent |-> sent, acked |-> more, rttMicrosSum |-> sum, rttCount |-> more]
    BY <1>2, <1>3, <1>4, <1>5
  <1> QED BY <1>1, <1>6 DEF more, sum, Succeeded

LEMMA ReportsAre ==
  ASSUME NEW sent \in Nat, NEW acked \in Nat, NEW rtt \in Nat
  PROVE  /\ ReportSend(Steady(sent, acked, rtt)) = HalfLife(Steady(sent + 1, acked, rtt))
         /\ ReportSuccess(Steady(sent, acked, rtt), rtt) = HalfLife(Steady(sent, acked + 1, rtt))
  <1>1. [Steady(sent, acked, rtt) EXCEPT !.sent = @ + 1] = Steady(sent + 1, acked, rtt)
    BY DEF Steady
  <1>2. (acked + 1) * rtt = acked * rtt + rtt
    OBVIOUS
  <1>3. [Steady(sent, acked, rtt) EXCEPT !.acked = @ + 1, !.rttMicrosSum = @ + rtt, !.rttCount = @ + 1]
          = Steady(sent, acked + 1, rtt)
    <2> DEFINE p == acked * rtt
               q == (acked + 1) * rtt
    <2>1. p \in Nat /\ q = p + rtt
      BY <1>2
    <2>2. /\ Steady(sent, acked, rtt)
               = [sent |-> sent, acked |-> acked, rttMicrosSum |-> p, rttCount |-> acked]
          /\ Steady(sent, acked + 1, rtt)
               = [sent |-> sent, acked |-> acked + 1, rttMicrosSum |-> q, rttCount |-> acked + 1]
      BY DEF Steady
    <2> HIDE DEF p, q
    <2> DEFINE s == Steady(sent, acked, rtt)
    <2>3. s = [sent |-> sent, acked |-> acked, rttMicrosSum |-> p, rttCount |-> acked]
      BY <2>2
    <2> HIDE DEF s
    <2>4. Succeeded(s, rtt)
            = [sent |-> sent, acked |-> acked + 1, rttMicrosSum |-> p + rtt, rttCount |-> acked + 1]
      BY <2>3, ThreeUpdates
    <2> QED BY <2>1, <2>2, <2>4 DEF s, Succeeded
  <1> QED BY <1>1, <1>3 DEF ReportSend, ReportSuccess

(* The latency before and after, whatever the report.                      *)
LEMMA LatencyOfSteady ==
  ASSUME NEW sent \in Nat, NEW n \in Nat, n > 400, NEW rtt \in Nat
  PROVE  /\ LatencyScore(Steady(sent, n, rtt)) = rtt
         /\ LatencyScore(Halved(sent, n, rtt)) \in Nat
         /\ (LatencyScore(Halved(sent, n, rtt)) - rtt) * 400 \in 0..rtt
  <1>1. LatencyScore(Steady(sent, n, rtt)) = (n * rtt) \div n
    BY DEF LatencyScore, Steady, SignalFrom
  <1>2. n \div 2 \in Nat /\ n \div 2 >= 200
    OBVIOUS
  <1>3. LatencyScore(Halved(sent, n, rtt)) = ((n * rtt) \div 2) \div (n \div 2)
    BY <1>2 DEF LatencyScore, Halved, SignalFrom
  <1>4. (n * rtt) \div n = rtt
    BY MeanIsExact
  <1>5. /\ ((n * rtt) \div 2) \div (n \div 2) \in Nat
        /\ (((n * rtt) \div 2) \div (n \div 2) - rtt) * 400 \in 0..rtt
    BY HalvedMean
  <1> QED BY <1>1, <1>3, <1>4, <1>5, Zenon

(* The loss that is left of it, in the three cases of the reports.         *)
Loss(sent, acked) ==
  IF acked >= sent THEN 0 ELSE ((sent - acked) * 1000) \div sent

(* Near the threshold of the halving, with any number of answers up to it  *)
(* and any round trip, aging leaves what the statistics say                *)
(* (applyHalfLifeLocked).                                                  *)
THEOREM ScoresAgeWell ==
  \A sent \in {999, 1000}, acked \in 0..1000, rtt \in Nat : AgesWell(sent, acked, rtt)
  <1> SUFFICES ASSUME NEW sent \in {999, 1000}, NEW acked \in 0..1000, NEW rtt \in Nat
               PROVE  AgesWell(sent, acked, rtt)
    BY ZenonT(60)
  <1> DEFINE s == Steady(sent, acked, rtt)
  <1>1. s = [sent |-> sent, acked |-> acked, rttMicrosSum |-> acked * rtt, rttCount |-> acked]
    BY DEF Steady
  <1>2. ReportSend(s) = IF sent = 999 THEN Steady(1000, acked, rtt) ELSE Halved(1001, acked, rtt)
    <2>1. /\ ReportSend(s) = HalfLife(Steady(sent + 1, acked, rtt))
          /\ HalfLife(Steady(sent + 1, acked, rtt))
               = IF sent + 1 <= 1000 /\ acked <= 1000 THEN Steady(sent + 1, acked, rtt)
                 ELSE Halved(sent + 1, acked, rtt)
      <3>1. sent \in Nat /\ sent + 1 \in Nat /\ acked \in Nat
        OBVIOUS
      <3> QED BY <3>1, HalfLifeIs, ReportsAre
    <2> HIDE DEF s
    <2>2. CASE sent = 999
      BY <2>1, <2>2
    <2>3. CASE sent = 1000
      BY <2>1, <2>3
    <2> QED BY <2>2, <2>3
  <1>3. ReportSuccess(s, rtt) = IF acked < 1000 THEN Steady(sent, acked + 1, rtt)
                                                ELSE Halved(sent, 1001, rtt)
    <2>1. /\ ReportSuccess(s, rtt) = HalfLife(Steady(sent, acked + 1, rtt))
          /\ HalfLife(Steady(sent, acked + 1, rtt))
               = IF sent <= 1000 /\ acked + 1 <= 1000 THEN Steady(sent, acked + 1, rtt)
                 ELSE Halved(sent, acked + 1, rtt)
      <3>1. sent \in Nat /\ acked + 1 \in Nat /\ acked \in Nat
        OBVIOUS
      <3> QED BY <3>1, HalfLifeIs, ReportsAre
    <2> HIDE DEF s
    <2>2. CASE acked = 1000
      BY <2>1, <2>2
    <2>3. CASE acked < 1000
      BY <2>1, <2>3
    <2> QED BY <2>2, <2>3
  <1>4. /\ LossScore(ReportSend(s)) - LossScore(s) \in -2..2
        /\ LossScore(ReportSuccess(s, rtt)) - LossScore(s) \in -2..2
    <2>1. LossScore(s) = Loss(sent, acked)
      BY DEF LossScore, Loss, Steady, SignalFrom
    <2>2. LossScore(ReportSend(s)) = IF sent = 999 THEN Loss(1000, acked) ELSE Loss(500, acked \div 2)
      <3>1. LossScore(Steady(1000, acked, rtt)) = Loss(1000, acked)
        BY DEF LossScore, Loss, Steady, SignalFrom
      <3>2. LossScore(Halved(1001, acked, rtt)) = Loss(500, acked \div 2)
        BY DEF LossScore, Loss, Halved, SignalFrom
      <3> HIDE DEF s
      <3> QED BY <1>2, <3>1, <3>2
    <2>3. LossScore(ReportSuccess(s, rtt))
            = IF acked < 1000 THEN Loss(sent, acked + 1)
              ELSE IF sent = 999 THEN Loss(499, 500) ELSE Loss(500, 500)
      <3>1. LossScore(Steady(sent, acked + 1, rtt)) = Loss(sent, acked + 1)
        BY DEF LossScore, Loss, Steady, SignalFrom
      <3>2. LossScore(Halved(sent, 1001, rtt)) = IF sent = 999 THEN Loss(499, 500) ELSE Loss(500, 500)
        BY DEF LossScore, Loss, Halved, SignalFrom
      <3> HIDE DEF s
      <3> QED BY <1>3, <3>1, <3>2
    <2> HIDE DEF s
    <2>4. CASE sent = 999
      <3>1. LossScore(ReportSend(s)) - LossScore(s) \in -2..2
        <4>1. LossScore(ReportSend(s)) = Loss(1000, acked) /\ LossScore(s) = Loss(999, acked)
          BY <2>1, <2>2, <2>4
        <4>2. Loss(1000, acked) - Loss(999, acked) \in -2..2
          BY SMTT(30) DEF Loss
        <4> QED BY <4>1, <4>2
      <3>2. CASE acked < 1000
        <4>1. LossScore(ReportSuccess(s, rtt)) = Loss(999, acked + 1) /\ LossScore(s) = Loss(999, acked)
          BY <2>1, <2>3, <2>4, <3>2
        <4>2. Loss(999, acked + 1) - Loss(999, acked) \in -2..2
          BY <3>2, SMTT(30) DEF Loss
        <4> QED BY <3>1, <4>1, <4>2
      <3>3. CASE acked = 1000
        <4>1. LossScore(ReportSuccess(s, rtt)) = Loss(499, 500) /\ LossScore(s) = Loss(999, 1000)
          BY <2>1, <2>3, <2>4, <3>3
        <4>2. Loss(499, 500) - Loss(999, 1000) \in -2..2
          BY DEF Loss
        <4> QED BY <3>1, <4>1, <4>2
      <3> QED BY <3>2, <3>3
    <2>5. CASE sent = 1000
      <3>1. LossScore(ReportSend(s)) - LossScore(s) \in -2..2
        <4>1. Loss(500, acked \div 2) - Loss(1000, acked) \in -2..2
          BY DEF Loss
        <4>2. LossScore(ReportSend(s)) = Loss(500, acked \div 2) /\ LossScore(s) = Loss(1000, acked)
          BY <2>1, <2>2, <2>5
        <4> QED BY <4>1, <4>2
      <3>2. LossScore(ReportSuccess(s, rtt)) - LossScore(s) \in -2..2
        <4>1. CASE acked < 1000
          <5>1. Loss(1000, acked + 1) - Loss(1000, acked) \in -2..2
            BY <4>1, SMTT(30) DEF Loss
          <5>2. LossScore(ReportSuccess(s, rtt)) = Loss(1000, acked + 1) /\ LossScore(s) = Loss(1000, acked)
            BY <2>1, <2>3, <2>5, <4>1
          <5> QED BY <5>1, <5>2
        <4>2. CASE acked = 1000
          <5>1. Loss(500, 500) - Loss(1000, 1000) \in -2..2
            BY DEF Loss
          <5>2. LossScore(ReportSuccess(s, rtt)) = Loss(500, 500) /\ LossScore(s) = Loss(1000, 1000)
            BY <2>1, <2>3, <2>5, <4>2
          <5> QED BY <5>1, <5>2
        <4> QED BY <4>1, <4>2
      <3> QED BY <3>1, <3>2
    <2> QED BY <2>4, <2>5
  <1>5. ASSUME acked > 400
        PROVE  /\ (LatencyScore(ReportSend(s)) - rtt) * 400 \in -(rtt + 400)..(rtt + 400)
               /\ (LatencyScore(ReportSuccess(s, rtt)) - rtt) * 400 \in -(rtt + 400)..(rtt + 400)
    <2> HIDE DEF s
    <2>1. \A n \in Nat, k \in Nat : n > 400 =>
            /\ (LatencyScore(Steady(k, n, rtt)) - rtt) * 400 \in -(rtt + 400)..(rtt + 400)
            /\ (LatencyScore(Halved(k, n, rtt)) - rtt) * 400 \in -(rtt + 400)..(rtt + 400)
      <3>1. ASSUME NEW n \in Nat, NEW k \in Nat, n > 400
            PROVE  /\ (LatencyScore(Steady(k, n, rtt)) - rtt) * 400 \in -(rtt + 400)..(rtt + 400)
                   /\ (LatencyScore(Halved(k, n, rtt)) - rtt) * 400 \in -(rtt + 400)..(rtt + 400)
        <4> DEFINE one == LatencyScore(Steady(k, n, rtt))
                   two == LatencyScore(Halved(k, n, rtt))
        <4>1. one = rtt /\ two \in Nat /\ (two - rtt) * 400 \in 0..rtt
          BY <3>1, LatencyOfSteady
        <4> HIDE DEF one, two
        <4>2. (one - rtt) * 400 = 0
          BY <4>1
        <4>3. (one - rtt) * 400 \in -(rtt + 400)..(rtt + 400)
          BY <4>2
        <4>4. (two - rtt) * 400 \in -(rtt + 400)..(rtt + 400)
          <5> DEFINE d == (two - rtt) * 400
          <5>1. d \in 0..rtt
            BY <4>1
          <5> HIDE DEF d
          <5>2. d \in -(rtt + 400)..(rtt + 400)
            BY <5>1
          <5> QED BY <5>2 DEF d
        <4> QED BY <4>3, <4>4 DEF one, two
      <3> QED BY <3>1
    <2> QED BY <1>2, <1>3, <1>5, <2>1
  <1> HIDE DEF s
  <1> QED BY <1>1, <1>4, <1>5 DEF AgesWell

-----------------------------------------------------------------------------
(* The strategies, of any snapshot of different resolvers, any counter and *)
(* any scores: the selected are the best there are, a failover takes the   *)
(* best other, and two selections of all of them get all of them           *)
(* (selectLowestScore, GetBestConnectionExcluding, selectRoundRobin).      *)
THEOREM SelectionIsRight ==
  ASSUME NEW S, NEW valid \in Seq(S), valid # << >>, Different(valid), NEW counter \in Nat,
         NEW score \in [S -> Nat], NEW asked \in Int, NEW exclude
  PROVE  /\ SelectsLowest(valid, counter, asked, score)
         /\ FailsOver(valid, counter, score, exclude)
         /\ \A first \in 1..Len(valid) - 1 : SharesOut(valid, counter, first)
  BY LowestSelected, OtherIsBest, TurnsAreShared

LEMMA SnapshotIs ==
  ASSUME NEW valid \in Snapshots
  PROVE  /\ valid \in Seq(1..Len(valid)) /\ valid # << >> /\ Different(valid)
         /\ Len(valid) \in Nat
  <1>1. PICK n \in 1..4 : valid \in [1..n -> 1..n]
    BY DEF Snapshots, Lists
  <1>2. valid \in Seq(1..n) /\ Len(valid) = n /\ valid # << >>
    BY <1>1
  <1>3. Different(valid)
    BY DEF Snapshots, Different
  <1> QED BY <1>2, <1>3

(* Selections, failovers and the aging of statistics are right for the     *)
(* inputs the runs enumerate (selectLowestScore, rotatedValidIndices,      *)
(* applyHalfLifeLocked); of the aging ScoresAgeWell says more.             *)
THEOREM StrategiesHold == Spec => []StrategiesAreRight
  <1>1. BestAreSelected
    <2> SUFFICES ASSUME NEW valid \in Snapshots, NEW counter \in 0..4,
                        NEW score \in [1..Len(valid) -> 0..2]
                 PROVE  /\ \A asked \in 0..5 : SelectsLowest(valid, counter, asked, score)
                        /\ FailsOver(valid, counter, score, 1)
      BY DEF BestAreSelected
    <2> DEFINE S == 1..Len(valid)
    <2>1. score \in [S -> Nat] /\ counter \in Nat /\ \A asked \in 0..5 : asked \in Int
      OBVIOUS
    <2>2. valid \in Seq(S) /\ valid # << >> /\ Different(valid)
      BY SnapshotIs
    <2> HIDE DEF S
    <2> QED BY <2>1, <2>2, LowestSelected, OtherIsBest
  <1>2. AllHaveTurns
    <2> SUFFICES ASSUME NEW valid \in Snapshots, NEW counter \in 0..8,
                        NEW first \in 1..Len(valid) - 1
                 PROVE  SharesOut(valid, counter, first)
      BY DEF AllHaveTurns
    <2> DEFINE S == 1..Len(valid)
    <2>1. counter \in Nat
      OBVIOUS
    <2>2. valid \in Seq(S) /\ valid # << >>
      BY SnapshotIs
    <2> HIDE DEF S
    <2> QED BY <2>1, <2>2, TurnsAreShared
  <1>3. AgingKeepsScores
    <2> DEFINE Near == {999, 1000}
               Most == 0..1000
    <2>1. \A s \in Near, a \in Most, r \in Nat : AgesWell(s, a, r)
      BY ScoresAgeWell, ZenonT(60)
    <2> SUFFICES ASSUME NEW sent \in {1000, 999}, NEW acked \in {1000, 999, 994, 905, 500, 7},
                        NEW rtt \in {0, 40, 1500, 80001}
                 PROVE  AgesWell(sent, acked, rtt)
      BY SMT DEF AgingKeepsScores
    <2>2. sent \in Near /\ acked \in Most /\ rtt \in Nat
      BY SMT
    <2> HIDE DEF Near, Most
    <2> QED BY <2>1, <2>2, SMT
  <1>4. StrategiesAreRight
    BY <1>1, <1>2, <1>3 DEF StrategiesAreRight
  <1> QED BY <1>4, PTL

=============================================================================
