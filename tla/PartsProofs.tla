----------------------------- MODULE PartsProofs -----------------------------
(***************************************************************************)
(* Proofs about the parts that MCParts checks side by side: the DNS cache  *)
(* and its file, the server's queues, and the record by which the client   *)
(* finds a resolver silent.                                                *)
(***************************************************************************)
EXTENDS MCParts, FiniteSetTheorems, TLAPS

-----------------------------------------------------------------------------
(* Lists.                                                                  *)

(* Induction over the naturals, as the least element of a set of them.     *)
LEMMA LeastNumber ==
  ASSUME NEW N \in SUBSET Nat, N # {}
  PROVE  \E m \in N : \A n \in N : m <= n
  <1>1. PICK m \in N : \A n \in N : <<n, m>> \notin OpToRel(<, Nat)
    BY WFMin, NatLessThanWellFounded, Zenon
  <1>2. \A n \in N : n < m => <<n, m>> \in OpToRel(<, Nat)
    BY Zenon DEF OpToRel
  <1>3. \A n \in N : ~ (n < m)
    BY <1>1, <1>2
  <1> QED BY <1>3

(* A function that drops members of a list one after the other: its value  *)
(* at i is what is left of the first i.                                    *)
Left(f, s, gone, i) ==
  IF i = 0 THEN << >> ELSE IF s[i] \in gone THEN f[i - 1] ELSE Append(f[i - 1], s[i])
Drops(f, s, gone, n) ==
  /\ f = [i \in 0..Len(s) |-> f[i]]
  /\ \A i \in 0..Len(s) : i < n => f[i] = Left(f, s, gone, i)

LEMMA DropsFurther ==
  ASSUME NEW s, Len(s) \in Nat, NEW gone, NEW n \in Nat, NEW f, Drops(f, s, gone, n)
  PROVE  Drops([i \in 0..Len(s) |-> Left(f, s, gone, i)], s, gone, n + 1)
  <1> DEFINE g == [i \in 0..Len(s) |-> Left(f, s, gone, i)]
  <1>1. /\ g = [i \in 0..Len(s) |-> g[i]]
        /\ \A i \in 0..Len(s) : g[i] = Left(f, s, gone, i)
    OBVIOUS
  <1>2. \A i \in 0..Len(s) : i < n => g[i] = f[i]
    BY <1>1 DEF Drops
  <1> HIDE DEF g
  <1>3. ASSUME NEW i \in 0..Len(s), i < n + 1 PROVE Left(g, s, gone, i) = Left(f, s, gone, i)
    <2>1. CASE i = 0
      BY <2>1 DEF Left
    <2>2. CASE i # 0
      <3>1. i - 1 \in 0..Len(s) /\ i - 1 < n
        BY <1>3, <2>2
      <3> QED BY <1>2, <3>1 DEF Left
    <2> QED BY <2>1, <2>2
  <1>4. Drops(g, s, gone, n + 1)
    BY <1>1, <1>3 DEF Drops
  <1> QED BY <1>4 DEF g

LEMMA DropsExists ==
  ASSUME NEW s, Len(s) \in Nat, NEW gone, NEW n \in Nat
  PROVE  \E f : Drops(f, s, gone, n)
  <1> DEFINE Bad == {i \in Nat : ~ \E f : Drops(f, s, gone, i)}
  <1>1. SUFFICES ASSUME Bad # {} PROVE FALSE
    OBVIOUS
  <1>2. PICK i \in Bad : \A j \in Bad : i <= j
    <2>1. Bad \in SUBSET Nat
      OBVIOUS
    <2> HIDE DEF Bad
    <2> QED BY <1>1, <2>1, LeastNumber
  <1>3. CASE i = 0
    <2>1. Drops([j \in 0..Len(s) |-> 0], s, gone, 0)
      BY DEF Drops
    <2> QED BY <1>2, <1>3, <2>1
  <1>4. CASE i # 0
    <2>1. i - 1 \in Nat /\ i - 1 \notin Bad
      BY <1>2, <1>4
    <2>2. PICK f : Drops(f, s, gone, i - 1)
      BY <2>1
    <2>3. Drops([j \in 0..Len(s) |-> Left(f, s, gone, j)], s, gone, (i - 1) + 1)
      BY <2>1, <2>2, DropsFurther
    <2>4. (i - 1) + 1 = i
      BY <1>2
    <2> QED BY <1>2, <2>3, <2>4
  <1> QED BY <1>3, <1>4

LEMMA DropSolves ==
  ASSUME NEW s, Len(s) \in Nat, NEW gone
  PROVE  \E f : Drops(f, s, gone, Len(s) + 1) /\ Drop(s, gone) = f[Len(s)]
  <1> DEFINE body(f) == [i \in 0..Len(s) |-> Left(f, s, gone, i)]
             upto == CHOOSE f : f = body(f)
  <1>1. PICK f : Drops(f, s, gone, Len(s) + 1)
    BY DropsExists, SMTT(30)
  <1>2. f = body(f)
    <2>1. f = [i \in 0..Len(s) |-> f[i]]
      BY <1>1 DEF Drops
    <2>2. \A i \in 0..Len(s) : f[i] = Left(f, s, gone, i)
      BY <1>1 DEF Drops
    <2> QED BY <2>1, <2>2
  <1>3. upto = body(upto)
    BY <1>2
  <1>4. Drop(s, gone) = upto[Len(s)]
    BY DEF Drop, Left
  <1> HIDE DEF upto
  <1>5. Drops(upto, s, gone, Len(s) + 1)
    <2>1. \A i \in 0..Len(s) : upto[i] = Left(upto, s, gone, i)
      BY <1>3
    <2>2. upto = [i \in 0..Len(s) |-> upto[i]]
      BY <1>3
    <2> QED BY <2>1, <2>2 DEF Drops
  <1> QED BY <1>4, <1>5

(* The end of a list.                                                      *)
LEMMA Appended ==
  ASSUME NEW S, NEW s \in Seq(S), NEW e \in S
  PROVE  /\ Append(s, e) \in Seq(S) /\ Len(Append(s, e)) = Len(s) + 1
         /\ ToSet(Append(s, e)) = ToSet(s) \cup {e}
         /\ IsInjective(s) /\ e \notin ToSet(s) => IsInjective(Append(s, e))
  <1>1. /\ Append(s, e) \in Seq(S) /\ Len(Append(s, e)) = Len(s) + 1 /\ Len(s) \in Nat
        /\ DOMAIN s = 1..Len(s) /\ DOMAIN Append(s, e) = 1..(Len(s) + 1)
        /\ Append(s, e)[Len(s) + 1] = e /\ \A i \in 1..Len(s) : Append(s, e)[i] = s[i]
    OBVIOUS
  <1> QED BY <1>1 DEF ToSet, IsInjective

Increasing(s) == \A i, j \in DOMAIN s : i < j => s[i] < s[j]

(* What is left is in the list and not dropped, once if it was there once, *)
(* and in the order it had.                                                *)
LeftIsRight(f, s, S, gone, i) ==
  /\ f[i] \in Seq(S) /\ Len(f[i]) <= i
  /\ ToSet(f[i]) = {s[j] : j \in 1..i} \ gone
  /\ IsInjective(s) => IsInjective(f[i])
  /\ Increasing(s) => Increasing(f[i])

LEMMA LeftStaysRight ==
  ASSUME NEW S, NEW s \in Seq(S), NEW gone, NEW f, Drops(f, s, gone, Len(s) + 1),
         NEW i \in 1..Len(s), LeftIsRight(f, s, S, gone, i - 1)
  PROVE  LeftIsRight(f, s, S, gone, i)
  <1> DEFINE before == f[i - 1]
  <1>1. /\ before \in Seq(S) /\ Len(before) <= i - 1 /\ Len(before) \in Nat
        /\ ToSet(before) = {s[j] : j \in 1..i - 1} \ gone
        /\ IsInjective(s) => IsInjective(before)
        /\ Increasing(s) => Increasing(before)
    BY DEF LeftIsRight
  <1>2. f[i] = IF s[i] \in gone THEN before ELSE Append(before, s[i])
    BY DEF Drops, Left
  <1>3. {s[j] : j \in 1..i} = {s[j] : j \in 1..i - 1} \cup {s[i]} /\ s[i] \in S
    OBVIOUS
  <1> HIDE DEF before
  <1>4. CASE s[i] \in gone
    BY <1>1, <1>2, <1>3, <1>4 DEF LeftIsRight
  <1>5. CASE s[i] \notin gone
    <2>1. f[i] = Append(before, s[i])
      BY <1>2, <1>5
    <2>2. /\ f[i] \in Seq(S) /\ Len(f[i]) = Len(before) + 1 /\ f[i][Len(before) + 1] = s[i]
          /\ \A j \in 1..Len(before) : f[i][j] = before[j]
          /\ DOMAIN f[i] = 1..(Len(before) + 1) /\ DOMAIN before = 1..Len(before)
      BY <1>1, <1>3, <2>1
    <2>3. ToSet(f[i]) = ToSet(before) \cup {s[i]}
      BY <1>1, <1>3, <2>1, Appended
    <2>4. ASSUME IsInjective(s) PROVE IsInjective(f[i])
      <3>1. s[i] \notin {s[j] : j \in 1..i - 1}
        BY <2>4 DEF IsInjective
      <3>2. \A j \in 1..Len(before) : before[j] # s[i]
        BY <1>1, <2>2, <3>1 DEF ToSet
      <3> QED BY <1>1, <2>2, <2>4, <3>2, SMTT(30) DEF IsInjective
    <2>5. ASSUME Increasing(s) PROVE Increasing(f[i])
      <3>1. \A r \in {s[j] : j \in 1..i - 1} : r < s[i]
        BY <2>5 DEF Increasing
      <3>2. \A j \in 1..Len(before) : before[j] < s[i]
        BY <1>1, <2>2, <3>1 DEF ToSet
      <3>3. Increasing(before)
        BY <1>1, <2>5
      <3> QED BY <1>1, <2>2, <3>2, <3>3, SMTT(30) DEF Increasing
    <2> QED BY <1>1, <1>3, <1>5, <2>2, <2>3, <2>4, <2>5 DEF LeftIsRight
  <1> QED BY <1>4, <1>5

LEMMA Dropped ==
  ASSUME NEW S, NEW s \in Seq(S), NEW gone
  PROVE  /\ Drop(s, gone) \in Seq(S) /\ Len(Drop(s, gone)) <= Len(s)
         /\ ToSet(Drop(s, gone)) = ToSet(s) \ gone
         /\ IsInjective(s) => IsInjective(Drop(s, gone))
         /\ Increasing(s) => Increasing(Drop(s, gone))
  <1>0. Len(s) \in Nat /\ DOMAIN s = 1..Len(s)
    OBVIOUS
  <1>1. PICK f : Drops(f, s, gone, Len(s) + 1) /\ Drop(s, gone) = f[Len(s)]
    BY <1>0, DropSolves
  <1> DEFINE Bad == {i \in 0..Len(s) : ~LeftIsRight(f, s, S, gone, i)}
  <1>2. Bad = {}
    <2> SUFFICES ASSUME Bad # {} PROVE FALSE
      OBVIOUS
    <2>1. PICK i \in Bad : \A j \in Bad : i <= j
      <3>1. Bad \in SUBSET Nat
        OBVIOUS
      <3> HIDE DEF Bad
      <3> QED BY <3>1, LeastNumber
    <2>2. CASE i = 0
      <3>1. f[0] = << >>
        BY <1>0, <1>1 DEF Drops, Left
      <3>2. LeftIsRight(f, s, S, gone, 0)
        BY <3>1 DEF LeftIsRight, ToSet, IsInjective, Increasing
      <3> QED BY <2>1, <2>2, <3>2
    <2>3. CASE i # 0
      <3>1. i \in 1..Len(s) /\ i - 1 \notin Bad /\ i - 1 \in 0..Len(s)
        BY <1>0, <2>1, <2>3
      <3>2. LeftIsRight(f, s, S, gone, i - 1)
        BY <3>1
      <3> QED BY <1>1, <2>1, <3>1, <3>2, LeftStaysRight
    <2> QED BY <2>2, <2>3
  <1>3. LeftIsRight(f, s, S, gone, Len(s))
    BY <1>0, <1>2
  <1> QED BY <1>0, <1>1, <1>3 DEF LeftIsRight, ToSet

(* A list of different members has as many of them as it is long.          *)
LEMMA Counted ==
  ASSUME NEW S, NEW s \in Seq(S)
  PROVE  /\ IsFiniteSet(ToSet(s)) /\ Cardinality(ToSet(s)) <= Len(s)
         /\ IsInjective(s) => Cardinality(ToSet(s)) = Len(s)
  <1>1. DOMAIN s = 1..Len(s) /\ Len(s) \in Nat
    OBVIOUS
  <1>2. IsFiniteSet(1..Len(s)) /\ Cardinality(1..Len(s)) = Len(s)
    BY <1>1, FS_Interval
  <1>3. s \in Surjection(1..Len(s), ToSet(s))
    BY <1>1 DEF Surjection, ToSet
  <1>4. IsInjective(s) => s \in Injection(1..Len(s), ToSet(s))
    BY <1>1, <1>3 DEF Injection, Surjection, IsInjective
  <1> QED BY <1>2, <1>3, <1>4, FS_Surjection

-----------------------------------------------------------------------------
(* The DNS cache: what its operations do to a shard.                       *)

EntryAges == {"new", "used", "old"}
Entries == [response : Responses \cup {Waited}, age : EntryAges]
Shards == [order : Seq(Names), entryOf : [Names -> Entries], pending : Nat]
WaitingIn(s) == {k \in ToSet(s.order) : s.entryOf[k].response = Waited}

(* A shard of at most n entries, each key once, its pending ones counted.  *)
ShardOK(s, n) ==
  /\ s \in Shards /\ IsInjective(s.order) /\ Len(s.order) <= n
  /\ s.pending = Cardinality(WaitingIn(s))

LEMMA HeldIsListed ==
  ASSUME NEW k, order \in Seq(Names)
  PROVE  Held(k) <=> k \in ToSet(order)
  BY DEF Held, Contains, ToSet

LEMMA WaitingIsFinite ==
  ASSUME NEW s, s.order \in Seq(Names)
  PROVE  IsFiniteSet(WaitingIn(s)) /\ Cardinality(WaitingIn(s)) \in Nat
  <1>1. IsFiniteSet(ToSet(s.order))
    BY Counted
  <1>2. WaitingIn(s) \subseteq ToSet(s.order)
    BY DEF WaitingIn
  <1> QED BY <1>1, <1>2, FS_Subset, FS_CardinalityType

(* removeElementLocked lowers the count when what it removes is pending.   *)
LEMMA WithoutCounts ==
  ASSUME NEW n \in Nat, NEW s, ShardOK(s, n), NEW k \in ToSet(s.order)
  PROVE  /\ ShardOK(Without(s, k), n)
         /\ Len(Without(s, k).order) < Len(s.order)
         /\ ToSet(Without(s, k).order) = ToSet(s.order) \ {k}
  <1> DEFINE t == Without(s, k)
  <1>1. /\ s \in Shards /\ s.order \in Seq(Names) /\ s.entryOf \in [Names -> Entries]
        /\ k \in Names /\ Len(s.order) \in Nat /\ IsInjective(s.order) /\ Len(s.order) <= n
        /\ s.pending = Cardinality(WaitingIn(s))
    BY DEF ShardOK, Shards, ToSet
  <1>2. /\ t.order = Drop(s.order, {k}) /\ t.entryOf = [s.entryOf EXCEPT ![k] = Absent]
        /\ t.pending = IF s.entryOf[k].response = Waited /\ s.pending > 0
                         THEN s.pending - 1 ELSE s.pending
        /\ t = [order |-> t.order, entryOf |-> t.entryOf, pending |-> t.pending]
    BY DEF Without
  <1>3. /\ t.order \in Seq(Names) /\ ToSet(t.order) = ToSet(s.order) \ {k}
        /\ IsInjective(t.order)
    BY <1>1, <1>2, Dropped
  <1>4. Len(t.order) < Len(s.order)
    <2>1. /\ IsFiniteSet(ToSet(s.order)) /\ Cardinality(ToSet(s.order)) = Len(s.order)
          /\ Cardinality(ToSet(t.order)) = Len(t.order)
      BY <1>1, <1>3, Counted
    <2>2. Cardinality(ToSet(s.order) \ {k}) = Cardinality(ToSet(s.order)) - 1
      BY <2>1, FS_RemoveElement
    <2> QED BY <1>1, <1>3, <2>1, <2>2
  <1>5. Absent \in Entries
    BY DEF Absent, Entries, EntryAges
  <1>6. t.entryOf \in [Names -> Entries]
        /\ \A j \in Names \ {k} : t.entryOf[j] = s.entryOf[j]
    BY <1>1, <1>2, <1>5
  <1>7. WaitingIn(t) = WaitingIn(s) \ {k}
    <2> HIDE DEF t
    <2>1. ToSet(s.order) \subseteq Names
      BY <1>1 DEF ToSet
    <2> QED BY <1>3, <1>6, <2>1 DEF WaitingIn
  <1>8. t.pending = Cardinality(WaitingIn(t)) /\ t.pending \in Nat
    <2>0. IsFiniteSet(WaitingIn(s)) /\ Cardinality(WaitingIn(s)) \in Nat
      BY <1>1, WaitingIsFinite
    <2>1. CASE k \in WaitingIn(s)
      <3>1. Cardinality(WaitingIn(t)) = Cardinality(WaitingIn(s)) - 1
            /\ Cardinality(WaitingIn(t)) \in Nat
        BY <1>7, <2>0, <2>1, FS_RemoveElement, FS_CardinalityType
      <3>2. s.entryOf[k].response = Waited
        BY <2>1 DEF WaitingIn
      <3> QED BY <1>1, <1>2, <2>0, <3>1, <3>2
    <2>2. CASE k \notin WaitingIn(s)
      <3>1. WaitingIn(t) = WaitingIn(s) /\ s.entryOf[k].response # Waited
        BY <1>7, <2>2 DEF WaitingIn
      <3> QED BY <1>1, <1>2, <2>0, <3>1
    <2> QED BY <2>1, <2>2
  <1> HIDE DEF t
  <1>9. ShardOK(t, n)
    BY <1>1, <1>2, <1>3, <1>4, <1>6, <1>8 DEF ShardOK, Shards
  <1> QED BY <1>3, <1>4, <1>9 DEF t

(* A new entry, counted when it is pending, and what it pushes out.        *)
LEMMA WithCounts ==
  ASSUME NEW s, ShardOK(s, Limit), NEW k \in Names \ ToSet(s.order),
         NEW response \in Responses \cup {Waited}
  PROVE  ShardOK(With(s, k, response), Limit)
  <1> DEFINE t == [order |-> Append(s.order, k),
                   entryOf |-> [s.entryOf EXCEPT ![k] = [response |-> response, age |-> "new"]],
                   pending |-> IF response = Waited THEN s.pending + 1 ELSE s.pending]
  <1>0. Limit \in Nat /\ Limit + 1 \in Nat
    BY LimitAssumption
  <1>1. /\ s.order \in Seq(Names) /\ s.entryOf \in [Names -> Entries] /\ s.pending \in Nat
        /\ IsInjective(s.order) /\ Len(s.order) <= Limit
        /\ s.pending = Cardinality(WaitingIn(s))
    BY DEF ShardOK, Shards
  <1>2. /\ t.order \in Seq(Names) /\ Len(t.order) = Len(s.order) + 1
        /\ ToSet(t.order) = ToSet(s.order) \cup {k} /\ IsInjective(t.order)
    BY <1>1, Appended
  <1>3. /\ t.entryOf \in [Names -> Entries] /\ t.entryOf[k].response = response
        /\ \A j \in Names \ {k} : t.entryOf[j] = s.entryOf[j]
    BY <1>1 DEF Entries, EntryAges
  <1>4. WaitingIn(t) = IF response = Waited THEN WaitingIn(s) \cup {k} ELSE WaitingIn(s)
    <2> HIDE DEF t
    <2>1. ToSet(s.order) \subseteq Names \ {k}
      BY <1>1 DEF ToSet
    <2> QED BY <1>2, <1>3, <2>1 DEF WaitingIn
  <1>5. t.pending = Cardinality(WaitingIn(t)) /\ t.pending \in Nat
    <2>0. IsFiniteSet(WaitingIn(s))
      BY <1>1, WaitingIsFinite
    <2>1. k \notin WaitingIn(s)
      BY DEF WaitingIn
    <2>2. Cardinality(WaitingIn(s) \cup {k}) = Cardinality(WaitingIn(s)) + 1
      BY <2>0, <2>1, FS_AddElement
    <2> QED BY <1>1, <1>4, <2>2
  <1>6. t \in Shards
    BY <1>2, <1>3, <1>5 DEF Shards
  <1>7. With(s, k, response) = Fitting(t)
    BY DEF With
  <1> HIDE DEF t
  <1>8. ShardOK(t, Limit + 1)
    BY <1>0, <1>1, <1>2, <1>5, <1>6 DEF ShardOK
  <1>9. CASE Len(t.order) > Limit
    <2>1. Head(t.order) \in ToSet(t.order)
      BY <1>0, <1>2, <1>9 DEF ToSet
    <2>2. ShardOK(Without(t, Head(t.order)), Limit + 1)
          /\ Len(Without(t, Head(t.order)).order) < Len(t.order)
      BY <1>0, <1>8, <2>1, WithoutCounts
    <2>3. Without(t, Head(t.order)).order \in Seq(Names)
      BY <2>2 DEF ShardOK, Shards
    <2>4. Len(Without(t, Head(t.order)).order) <= Limit
      BY <1>0, <1>1, <1>2, <2>2, <2>3
    <2> QED BY <1>7, <1>9, <2>2, <2>4 DEF Fitting, ShardOK
  <1>10. CASE ~(Len(t.order) > Limit)
    BY <1>0, <1>2, <1>7, <1>8, <1>10 DEF Fitting, ShardOK
  <1> QED BY <1>9, <1>10

(* MoveToBack.                                                             *)
LEMMA UsedHolds ==
  ASSUME NEW n \in Nat, NEW s, ShardOK(s, n), NEW k \in ToSet(s.order), NEW age \in EntryAges
  PROVE  ToSet(Used(s, k, age).order) = ToSet(s.order)
  <1>1. s \in Shards /\ s.order \in Seq(Names) /\ k \in Names
    BY DEF ShardOK, Shards, ToSet
  <1>2. Used(s, k, age).order = Append(Drop(s.order, {k}), k)
    BY <1>1 DEF Used, Shards
  <1>3. Drop(s.order, {k}) \in Seq(Names) /\ ToSet(Drop(s.order, {k})) = ToSet(s.order) \ {k}
    BY <1>1, Dropped
  <1>4. ToSet(Append(Drop(s.order, {k}), k)) = ToSet(Drop(s.order, {k})) \cup {k}
    BY <1>1, <1>3, Appended
  <1> QED BY <1>1, <1>2, <1>3, <1>4

LEMMA UsedCounts ==
  ASSUME NEW n \in Nat, NEW s, ShardOK(s, n), NEW k \in ToSet(s.order), NEW age \in EntryAges
  PROVE  /\ ShardOK(Used(s, k, age), n)
         /\ Used(s, k, age).pending = s.pending
         /\ WaitingIn(Used(s, k, age)) = WaitingIn(s)
         /\ Used(s, k, age).entryOf = [s.entryOf EXCEPT ![k].age = age]
  <1> DEFINE t == Used(s, k, age)
             rest == Drop(s.order, {k})
  <1>1. /\ s \in Shards /\ s.order \in Seq(Names) /\ s.entryOf \in [Names -> Entries]
        /\ k \in Names /\ Len(s.order) \in Nat /\ IsInjective(s.order) /\ Len(s.order) <= n
        /\ s.pending = Cardinality(WaitingIn(s)) /\ s.pending \in Nat
    BY DEF ShardOK, Shards, ToSet
  <1>2. /\ t.order = Append(rest, k) /\ t.entryOf = [s.entryOf EXCEPT ![k].age = age]
        /\ t.pending = s.pending
        /\ t = [order |-> t.order, entryOf |-> t.entryOf, pending |-> t.pending]
    <2>1. PICK o, e, p : s = [order |-> o, entryOf |-> e, pending |-> p]
      BY <1>1 DEF Shards
    <2>2. s.order = o /\ s.entryOf = e /\ s.pending = p
      BY <2>1
    <2>3. t = [[s EXCEPT !.order = Append(Drop(o, {k}), k)]
                 EXCEPT !.entryOf = [e EXCEPT ![k].age = age]]
      BY <2>1, <2>2 DEF Used
    <2> HIDE DEF t
    <2>4. t = [order |-> Append(Drop(o, {k}), k), entryOf |-> [e EXCEPT ![k].age = age],
               pending |-> p]
      BY <2>1, <2>3
    <2> QED BY <2>1, <2>4
  <1>3. rest \in Seq(Names) /\ ToSet(rest) = ToSet(s.order) \ {k} /\ IsInjective(rest)
    BY <1>1, Dropped
  <1> HIDE DEF rest
  <1> HIDE DEF t
  <1>4. /\ t.order \in Seq(Names) /\ ToSet(t.order) = ToSet(s.order) /\ IsInjective(t.order)
    <2>1. /\ Append(rest, k) \in Seq(Names) /\ ToSet(Append(rest, k)) = ToSet(rest) \cup {k}
          /\ k \notin ToSet(rest) => IsInjective(Append(rest, k))
      BY <1>1, <1>3, Appended
    <2> QED BY <1>2, <1>3, <2>1
  <1>5. Len(t.order) = Len(s.order)
    BY <1>1, <1>4, Counted
  <1>6. /\ t.entryOf \in [Names -> Entries]
        /\ \A j \in Names : t.entryOf[j].response = s.entryOf[j].response
    BY <1>1, <1>2 DEF Entries
  <1>7. ToSet(s.order) \subseteq Names
    BY <1>1 DEF ToSet
  <1>8. WaitingIn(t) = WaitingIn(s)
    BY <1>4, <1>6, <1>7 DEF WaitingIn
  <1>9. ShardOK(t, n)
    BY <1>1, <1>2, <1>4, <1>5, <1>6, <1>8 DEF ShardOK, Shards
  <1> QED BY <1>2, <1>4, <1>8, <1>9 DEF t

(* SetReady of a key the shard holds.                                      *)
LEMMA AnswerCounts ==
  ASSUME NEW n \in Nat, NEW s, ShardOK(s, n), NEW k \in ToSet(s.order),
         NEW response \in Responses, NEW t,
         t = [Used(s, k, "new") EXCEPT
                !.entryOf[k].response = response,
                !.pending = IF s.entryOf[k].response = Waited /\ @ > 0 THEN @ - 1 ELSE @]
  PROVE  ShardOK(t, n)
  <1> DEFINE u == Used(s, k, "new")
  <1>1. /\ ShardOK(u, n) /\ u.pending = s.pending /\ WaitingIn(u) = WaitingIn(s)
        /\ ToSet(u.order) = ToSet(s.order)
    BY UsedCounts, UsedHolds, ZenonT(60) DEF EntryAges
  <1>2. t = [u EXCEPT !.entryOf[k].response = response,
               !.pending = IF s.entryOf[k].response = Waited /\ @ > 0 THEN @ - 1 ELSE @]
    OBVIOUS
  <1> HIDE DEF u
  <1>3. /\ u \in Shards /\ u.order \in Seq(Names) /\ u.entryOf \in [Names -> Entries]
        /\ u.pending \in Nat /\ IsInjective(u.order) /\ Len(u.order) <= n
        /\ u.pending = Cardinality(WaitingIn(u))
    BY <1>1 DEF ShardOK, Shards
  <1>4. k \in Names /\ k \in ToSet(u.order) /\ ToSet(u.order) \subseteq Names
    <2>1. k \in ToSet(u.order)
      BY <1>1
    <2> QED BY <1>3, <2>1 DEF ToSet
  <1>5. /\ t.order = u.order /\ t.entryOf = [u.entryOf EXCEPT ![k].response = response]
        /\ t.pending = IF s.entryOf[k].response = Waited /\ u.pending > 0
                         THEN u.pending - 1 ELSE u.pending
        /\ t = [order |-> t.order, entryOf |-> t.entryOf, pending |-> t.pending]
    BY <1>2, <1>3 DEF Shards
  <1>6. /\ t.entryOf \in [Names -> Entries] /\ t.entryOf[k].response = response
        /\ \A j \in Names \ {k} : t.entryOf[j].response = u.entryOf[j].response
    <2> DEFINE fresh == [u.entryOf[k] EXCEPT !.response = response]
    <2>0. u.entryOf[k] \in Entries
      BY <1>3, <1>4
    <2>1. fresh \in Entries /\ fresh.response = response
      BY <2>0 DEF Entries
    <2> HIDE DEF fresh
    <2>2. t.entryOf = [u.entryOf EXCEPT ![k] = fresh]
      BY <1>5 DEF fresh
    <2>3. t.entryOf \in [Names -> Entries] /\ t.entryOf[k].response = response
      BY <1>3, <1>4, <2>1, <2>2, ZenonT(60)
    <2>4. \A j \in Names \ {k} : t.entryOf[j].response = u.entryOf[j].response
      BY <1>3, <1>4, <2>2
    <2> QED BY <2>3, <2>4
  <1>7. WaitingIn(t) = WaitingIn(u) \ {k}
    BY <1>4, <1>5, <1>6, WaitedAssumption DEF WaitingIn
  <1>8. t.pending = Cardinality(WaitingIn(t)) /\ t.pending \in Nat
    <2>0. IsFiniteSet(WaitingIn(u)) /\ Cardinality(WaitingIn(u)) \in Nat
      BY <1>3, WaitingIsFinite
    <2>1. k \in WaitingIn(u) <=> s.entryOf[k].response = Waited
      BY <1>1 DEF WaitingIn
    <2>2. CASE k \in WaitingIn(u)
      <3>1. Cardinality(WaitingIn(t)) = Cardinality(WaitingIn(u)) - 1
            /\ Cardinality(WaitingIn(t)) \in Nat
        BY <1>7, <2>0, <2>2, FS_RemoveElement, FS_CardinalityType
      <3> QED BY <1>3, <1>5, <2>0, <2>1, <2>2, <3>1
    <2>3. CASE k \notin WaitingIn(u)
      <3>1. WaitingIn(t) = WaitingIn(u)
        BY <1>7, <2>3
      <3> QED BY <1>3, <1>5, <2>0, <2>1, <2>3, <3>1
    <2> QED BY <2>2, <2>3
  <1> QED BY <1>3, <1>5, <1>6, <1>8 DEF ShardOK, Shards

-----------------------------------------------------------------------------
(* The DNS cache: the inductive invariant.                                 *)

Records == [key : Names, response : Responses]
OncePerKey(s) ==
  /\ s \in Seq(Records) /\ IsInjective(s) /\ Len(s) <= Limit
  /\ \A r, q \in ToSet(s) : r.key = q.key => r = q
Savables == {k \in Names : Savable(k)}

(* Between the operations, and between the steps of a save: what the save  *)
(* counted or wrote is what is in the shard, unless it missed a change.    *)
SaverTypeOK ==
  /\ saver \in [at : {"idle", "counted", "written"}, count : 0..Limit,
                records : Seq(Records), missed : BOOLEAN]
  /\ changed \in BOOLEAN
  /\ OncePerKey(saver.records) /\ OncePerKey(stored)
SaverSeesAll ==
  /\ saver.at # "idle" => changed
  /\ saver.at = "counted" /\ ~saver.missed => Cardinality(Savables) <= saver.count
  /\ saver.at = "written" /\ ~saver.missed
       => \A k \in Savables : Record(k) \in ToSet(saver.records)
CacheInv ==
  /\ ShardOK(Shard, Limit) /\ SaverTypeOK /\ SaverSeesAll /\ SavedOrChanged

LEMMA ShardFields ==
  ASSUME ShardOK(Shard, Limit)
  PROVE  /\ order \in Seq(Names) /\ IsInjective(order) /\ Len(order) <= Limit
         /\ entryOf \in [Names -> Entries] /\ pending \in Nat
         /\ ToSet(order) \subseteq Names
         /\ Shard.order = order /\ Shard.entryOf = entryOf /\ Shard.pending = pending
  <1>1. Shard.order = order /\ Shard.entryOf = entryOf /\ Shard.pending = pending
    BY DEF Shard
  <1>2. /\ order \in Seq(Names) /\ IsInjective(order) /\ Len(order) <= Limit
        /\ entryOf \in [Names -> Entries] /\ pending \in Nat
    BY <1>1 DEF ShardOK, Shards
  <1> QED BY <1>1, <1>2 DEF ToSet

(* The count that HasPending reads is of the entries that wait.            *)
LEMMA CountedIsPending ==
  ASSUME ShardOK(Shard, Limit)
  PROVE  PendingIsCounted
  <1>1. Waiting = WaitingIn(Shard)
    BY ShardFields, HeldIsListed DEF Waiting, WaitingIn, IsReady
  <1> QED BY <1>1, ShardFields DEF ShardOK, PendingIsCounted

LEMMA SavablesAreHeld ==
  ASSUME ShardOK(Shard, Limit)
  PROVE  /\ Savables \subseteq ToSet(order) /\ IsFiniteSet(Savables)
         /\ Cardinality(Savables) \in 0..Limit
         /\ \A k \in Savables : Record(k) \in Records
  <1>1. Savables \subseteq ToSet(order)
    BY ShardFields, HeldIsListed DEF Savables, Savable, IsReady
  <1>2. IsFiniteSet(ToSet(order)) /\ Cardinality(ToSet(order)) <= Limit
    <2>1. order \in Seq(Names) /\ Len(order) <= Limit /\ Len(order) \in Nat
      BY ShardFields
    <2>2. IsFiniteSet(ToSet(order)) /\ Cardinality(ToSet(order)) <= Len(order)
      BY <2>1, Counted
    <2>3. Cardinality(ToSet(order)) \in Nat
      BY <2>2, FS_CardinalityType
    <2> QED BY <2>1, <2>2, <2>3, LimitAssumption
  <1>3. IsFiniteSet(Savables) /\ Cardinality(Savables) \in Nat
        /\ Cardinality(Savables) <= Cardinality(ToSet(order))
        /\ Cardinality(ToSet(order)) \in Nat
    BY <1>1, <1>2, FS_Subset, FS_CardinalityType
  <1>4. \A k \in Savables : Record(k) \in Records
    BY ShardFields DEF Savables, Savable, IsReady, Record, Records, Entries
  <1> QED BY <1>1, <1>2, <1>3, <1>4, LimitAssumption

LEMMA InitCache == CacheInit => CacheInv
  <1> SUFFICES ASSUME CacheInit PROVE CacheInv
    OBVIOUS
  <1>0. Limit \in Nat
    BY LimitAssumption
  <1>1. order = << >> /\ ToSet(order) = {} /\ IsInjective(order) /\ Len(order) = 0
    BY DEF CacheInit, ToSet, IsInjective
  <1>2. ShardOK(Shard, Limit)
    <2>1. Shard.order = << >> /\ Shard.entryOf = entryOf /\ Shard.pending = 0
      BY DEF CacheInit, Shard
    <2>2. WaitingIn(Shard) = {}
      BY <1>1, <2>1 DEF WaitingIn
    <2>3. Cardinality(WaitingIn(Shard)) = 0
      BY <2>2, FS_EmptySet
    <2>4. Shard \in Shards
      BY DEF CacheInit, Shard, Shards, Absent, Entries, EntryAges
    <2> QED BY <1>0, <1>1, <2>1, <2>3, <2>4 DEF ShardOK
  <1>3. OncePerKey(<< >>)
    BY <1>0 DEF OncePerKey, IsInjective, ToSet
  <1>4. /\ saver.records = << >> /\ saver.at = "idle" /\ stored = << >>
        /\ SaverTypeOK
    <2>1. saver = [at |-> "idle", count |-> 0, records |-> << >>, missed |-> FALSE]
          /\ changed = FALSE /\ stored = << >>
      BY DEF CacheInit, Resting
    <2>2. << >> \in Seq(Records)
      BY <1>3 DEF OncePerKey
    <2>3. saver \in [at : {"idle", "counted", "written"}, count : 0..Limit,
                      records : Seq(Records), missed : BOOLEAN]
      BY <1>0, <2>1, <2>2
    <2>4. saver.records = << >> /\ saver.at = "idle"
      BY <2>1
    <2> QED BY <1>3, <2>1, <2>3, <2>4 DEF SaverTypeOK
  <1>5. Savables = {}
    BY <1>1, <1>2, SavablesAreHeld
  <1> QED BY <1>2, <1>4, <1>5 DEF CacheInv, SaverSeesAll, SavedOrChanged, Savables
(* An operation that changes the shard and says so: a save under way has   *)
(* missed it, and one is due.                                              *)
LEMMA ChangeKeepsInv ==
  ASSUME CacheInv, NEW s, ShardOK(s, Limit), Set(s, TRUE)
  PROVE  CacheInv'
  <1>1. /\ s \in Shards /\ order' = s.order /\ entryOf' = s.entryOf /\ pending' = s.pending
        /\ changed' = TRUE /\ stored' = stored
        /\ saver' = [saver EXCEPT !.missed = @ \/ saver.at # "idle"]
    BY DEF Set, ShardOK
  <1>2. Shard' = s
    BY <1>1 DEF Shard, Shards
  <1>3. ShardOK(Shard, Limit)'
    BY <1>2 DEF ShardOK, WaitingIn
  <1>4. /\ saver'.at = saver.at /\ saver'.records = saver.records
        /\ saver.at # "idle" => saver'.missed
        /\ SaverTypeOK'
    <2>1. /\ saver \in [at : {"idle", "counted", "written"}, count : 0..Limit,
                        records : Seq(Records), missed : BOOLEAN]
          /\ OncePerKey(saver.records) /\ OncePerKey(stored)
      BY DEF CacheInv, SaverTypeOK
    <2>2. /\ saver' \in [at : {"idle", "counted", "written"}, count : 0..Limit,
                         records : Seq(Records), missed : BOOLEAN]
          /\ saver'.at = saver.at /\ saver'.records = saver.records
          /\ saver.at # "idle" => saver'.missed
      BY <1>1, <2>1
    <2> QED BY <1>1, <2>1, <2>2 DEF SaverTypeOK
  <1>5. SaverSeesAll' /\ SavedOrChanged'
    BY <1>1, <1>4 DEF SaverSeesAll, SavedOrChanged
  <1> QED BY <1>3, <1>4, <1>5 DEF CacheInv

(* A use that changes nothing but the place of an entry.                   *)
LEMMA UseKeepsInv ==
  ASSUME CacheInv, NEW k \in Names, Held(k), entryOf[k].age = "new",
         Set(Used(Shard, k, "new"), FALSE)
  PROVE  CacheInv'
  <1>0. /\ ShardOK(Shard, Limit) /\ k \in ToSet(order) /\ ToSet(order) \subseteq Names
        /\ Shard.order = order /\ Shard.entryOf = entryOf
        /\ entryOf \in [Names -> Entries] /\ Limit \in Nat
    BY ShardFields, HeldIsListed, LimitAssumption DEF CacheInv
  <1>1. /\ ShardOK(Used(Shard, k, "new"), Limit)
        /\ ToSet(Used(Shard, k, "new").order) = ToSet(order)
        /\ Used(Shard, k, "new").entryOf = [entryOf EXCEPT ![k].age = "new"]
    <2>1. k \in ToSet(Shard.order) /\ "new" \in EntryAges
      BY <1>0 DEF EntryAges
    <2>2. /\ ShardOK(Shard, Limit) /\ Limit \in Nat
      BY <1>0
    <2>3. ShardOK(Used(Shard, k, "new"), Limit)
      BY <2>1, <2>2, UsedCounts
    <2>4. ToSet(Used(Shard, k, "new").order) = ToSet(Shard.order)
      BY <2>1, <2>2, UsedHolds
    <2>5. Used(Shard, k, "new").entryOf = [Shard.entryOf EXCEPT ![k].age = "new"]
      BY <2>1, <2>2, UsedCounts
    <2> QED BY <1>0, <2>3, <2>4, <2>5
  <1>2. PICK s : s = Used(Shard, k, "new")
    OBVIOUS
  <1>3. /\ s \in Shards /\ order' = s.order /\ entryOf' = s.entryOf /\ pending' = s.pending
        /\ changed' = changed /\ stored' = stored /\ saver' = saver
    <2>1. /\ order' = s.order /\ entryOf' = s.entryOf /\ pending' = s.pending
          /\ changed' = (changed \/ FALSE) /\ stored' = stored
          /\ saver' = [saver EXCEPT !.missed = @ \/ FALSE]
      BY <1>2 DEF Set
    <2>2. saver \in [at : {"idle", "counted", "written"}, count : 0..Limit,
                     records : Seq(Records), missed : BOOLEAN] /\ changed \in BOOLEAN
      BY DEF CacheInv, SaverTypeOK
    <2>3. saver' = saver /\ changed' = changed
      BY <2>1, <2>2
    <2> QED BY <1>1, <1>2, <2>1, <2>3 DEF ShardOK
  <1>4. Shard' = s
    BY <1>3 DEF Shard, Shards
  <1>5. ShardOK(Shard, Limit)'
    BY <1>1, <1>2, <1>4 DEF ShardOK, WaitingIn
  <1>6. entryOf' = entryOf
    <2>1. entryOf[k] \in Entries
      BY <1>0
    <2>2. [entryOf[k] EXCEPT !.age = "new"] = entryOf[k]
      BY <2>1 DEF Entries
    <2> QED BY <1>0, <1>1, <1>2, <1>3, <2>2, ZenonT(60)
  <1>7. \A j \in Names : (Held(j)' <=> Held(j))
    <2>1. order \in Seq(Names) /\ order' \in Seq(Names) /\ ToSet(order') = ToSet(order)
      BY <1>0, <1>1, <1>2, <1>3, ShardFields DEF Shards
    <2>2. \A j : Held(j)' <=> j \in ToSet(order')
      BY <2>1 DEF Held, Contains, ToSet
    <2> QED BY <2>1, <2>2, HeldIsListed
  <1>8. /\ Savables' = Savables
        /\ \A j \in Names : Savable(j)' <=> Savable(j)
        /\ \A j \in Names : Record(j)' = Record(j)
    BY <1>6, <1>7 DEF Savables, Savable, Expired, IsReady, Record
  <1>9. SaverTypeOK' /\ SaverSeesAll'
    <2>1. \A j \in Savables : j \in Names
      BY DEF Savables
    <2> QED BY <1>3, <1>8, <2>1 DEF CacheInv, SaverTypeOK, SaverSeesAll
  <1>10. SavedOrChanged'
    BY <1>3, <1>8 DEF CacheInv, SavedOrChanged
  <1> QED BY <1>5, <1>9, <1>10 DEF CacheInv

(* Time may only make what is saved not worth saving.                      *)
LEMMA AgeKeepsInv ==
  ASSUME CacheInv, NEW k \in Names, GetsOlder(k)
  PROVE  CacheInv'
  <1>0. /\ ShardOK(Shard, Limit) /\ entryOf \in [Names -> Entries]
        /\ order \in Seq(Names) /\ ToSet(order) \subseteq Names
        /\ Limit \in Nat
    BY ShardFields, LimitAssumption DEF CacheInv
  <1> DEFINE age == IF entryOf[k].age = "new" THEN "used" ELSE "old"
  <1>1. /\ entryOf' = [entryOf EXCEPT ![k].age = age]
        /\ UNCHANGED <<order, pending, changed, saver, stored>>
    BY DEF GetsOlder
  <1>2. entryOf[k] \in Entries
    BY <1>0
  <1>3. entryOf' \in [Names -> Entries]
    <2>1. [entryOf[k] EXCEPT !.age = age] \in Entries
      BY <1>2 DEF Entries, EntryAges
    <2> QED BY <1>0, <1>1, <2>1
  <1>4. \A j \in Names : entryOf'[j].response = entryOf[j].response
    BY <1>0, <1>1, <1>2 DEF Entries
  <1>5. \A j \in Names : entryOf[j].age = "old" => entryOf'[j].age = "old"
    BY <1>0, <1>1, <1>2 DEF Entries, GetsOlder
  <1>6. \A j \in Names : Savable(j)' => Savable(j)
    BY <1>1, <1>4, <1>5 DEF Savable, Expired, IsReady, Held
  <1>7. \A j \in Names : Record(j)' = Record(j)
    BY <1>4 DEF Record
  <1>8. ShardOK(Shard, Limit)'
    <2>1. WaitingIn(Shard)' = WaitingIn(Shard)
      BY <1>0, <1>1, <1>4 DEF WaitingIn, Shard
    <2>2. Shard' \in Shards
      BY <1>0, <1>1, <1>3, ShardFields DEF Shard, Shards
    <2>3. /\ Shard'.order = order /\ Shard'.pending = pending
      BY <1>1 DEF Shard
    <2> QED BY <1>0, <2>1, <2>2, <2>3, ShardFields DEF ShardOK
  <1>9. Savables' \subseteq Savables
    BY <1>6 DEF Savables
  <1>10. Cardinality(Savables') <= Cardinality(Savables)
         /\ Cardinality(Savables') \in Nat /\ Cardinality(Savables) \in Nat
    BY <1>0, <1>9, SavablesAreHeld, FS_Subset, FS_CardinalityType
  <1>11. SaverTypeOK'
    BY <1>1 DEF CacheInv, SaverTypeOK
  <1>12. SaverSeesAll'
    <2>1. \A j \in Savables' : j \in Names /\ j \in Savables
      BY <1>9 DEF Savables
    <2>2. saver.count \in Nat
      BY <1>0 DEF CacheInv, SaverTypeOK
    <2>3. /\ saver.at # "idle" => changed
          /\ saver.at = "counted" /\ ~saver.missed => Cardinality(Savables) <= saver.count
          /\ saver.at = "written" /\ ~saver.missed
               => \A j \in Savables : Record(j) \in ToSet(saver.records)
      BY DEF CacheInv, SaverSeesAll
    <2>4. saver.at = "counted" /\ ~saver.missed => Cardinality(Savables') <= saver.count
      BY <1>10, <2>2, <2>3
    <2>5. saver.at = "written" /\ ~saver.missed
               => \A j \in Savables' : Record(j)' \in ToSet(saver.records)
      BY <1>7, <2>1, <2>3
    <2> QED BY <1>1, <2>3, <2>4, <2>5 DEF SaverSeesAll
  <1>13. SavedOrChanged'
    BY <1>1, <1>6, <1>7 DEF CacheInv, SavedOrChanged
  <1> QED BY <1>8, <1>11, <1>12, <1>13 DEF CacheInv
(* LookupOrCreatePending, GetReady and SetReady.                           *)
LEMMA LookupKeepsInv ==
  ASSUME CacheInv, NEW k \in Names, Lookup(k)
  PROVE  CacheInv'
  <1>0. /\ ShardOK(Shard, Limit) /\ Shard.order = order /\ Shard.entryOf = entryOf
        /\ Limit \in Nat /\ Waited \in Responses \cup {Waited}
        /\ entryOf[k] \in Entries
        /\ Held(k) <=> k \in ToSet(Shard.order)
    BY ShardFields, HeldIsListed, LimitAssumption DEF CacheInv
  <1>1. CASE ~Held(k)
    <2>1. ShardOK(With(Shard, k, Waited), Limit)
      BY <1>0, <1>1, WithCounts
    <2>2. Set(With(Shard, k, Waited), TRUE)
      BY <1>1 DEF Lookup
    <2> QED BY <2>1, <2>2, ChangeKeepsInv
  <1>2. CASE Held(k) /\ Expired(k)
    <2>1. ShardOK(Without(Shard, k), Limit)
          /\ k \notin ToSet(Without(Shard, k).order)
      BY <1>0, <1>2, WithoutCounts, SMTT(30)
    <2>2. ShardOK(With(Without(Shard, k), k, Waited), Limit)
      BY <1>0, <2>1, WithCounts
    <2>3. Set(With(Without(Shard, k), k, Waited), TRUE)
      BY <1>2 DEF Lookup
    <2> QED BY <2>2, <2>3, ChangeKeepsInv
  <1>3. CASE Held(k) /\ ~Expired(k)
    <2> DEFINE age == IF IsReady(k) THEN "new"
                      ELSE IF entryOf[k].age = "old" THEN "new" ELSE entryOf[k].age
    <2>1. age \in EntryAges
      BY <1>0 DEF EntryAges, Entries
    <2>2. Set(Used(Shard, k, age), entryOf[k].age # "new")
      BY <1>3 DEF Lookup
    <2>3. CASE entryOf[k].age = "new"
      <3>1. age = "new" /\ (entryOf[k].age # "new") = FALSE
        BY <2>3
      <3>2. Set(Used(Shard, k, "new"), FALSE)
        BY <2>2, <3>1
      <3> QED BY <1>3, <2>3, <3>2, UseKeepsInv
    <2>4. CASE entryOf[k].age # "new"
      <3>1. (entryOf[k].age # "new") = TRUE
        BY <2>4
      <3> HIDE DEF age
      <3>2. Set(Used(Shard, k, age), TRUE)
        BY <2>2, <3>1
      <3>3. ShardOK(Used(Shard, k, age), Limit)
        BY <1>0, <1>3, <2>1, UsedCounts
      <3> QED BY <3>2, <3>3, ChangeKeepsInv
    <2> QED BY <2>3, <2>4
  <1> QED BY <1>1, <1>2, <1>3

LEMMA GetReadyKeepsInv ==
  ASSUME CacheInv, NEW k \in Names, GetReady(k)
  PROVE  CacheInv'
  <1>0. /\ ShardOK(Shard, Limit) /\ Shard.order = order /\ Shard.entryOf = entryOf
        /\ Limit \in Nat /\ Held(k)
        /\ entryOf[k] \in Entries
        /\ k \in ToSet(Shard.order)
    BY ShardFields, HeldIsListed, LimitAssumption DEF CacheInv, GetReady
  <1>1. CASE Expired(k)
    <2>1. ShardOK(Without(Shard, k), Limit)
      BY <1>0, WithoutCounts
    <2>2. Set(Without(Shard, k), TRUE)
      BY <1>1 DEF GetReady
    <2> QED BY <2>1, <2>2, ChangeKeepsInv
  <1>2. CASE ~Expired(k)
    <2> DEFINE age == IF IsReady(k) THEN "new" ELSE entryOf[k].age
    <2>1. age \in EntryAges
      BY <1>0 DEF EntryAges, Entries
    <2>2. Set(Used(Shard, k, age), entryOf[k].age # "new")
      BY <1>2 DEF GetReady
    <2>3. CASE entryOf[k].age = "new"
      <3>1. age = "new" /\ (entryOf[k].age # "new") = FALSE
        BY <2>3
      <3>2. Set(Used(Shard, k, "new"), FALSE)
        BY <2>2, <3>1
      <3> QED BY <1>0, <2>3, <3>2, UseKeepsInv
    <2>4. CASE entryOf[k].age # "new"
      <3>1. (entryOf[k].age # "new") = TRUE
        BY <2>4
      <3> HIDE DEF age
      <3>2. Set(Used(Shard, k, age), TRUE)
        BY <2>2, <3>1
      <3>3. ShardOK(Used(Shard, k, age), Limit)
        BY <1>0, <2>1, UsedCounts
      <3> QED BY <3>2, <3>3, ChangeKeepsInv
    <2> QED BY <2>3, <2>4
  <1> QED BY <1>1, <1>2

LEMMA SetReadyKeepsInv ==
  ASSUME CacheInv, NEW k \in Names, NEW response \in Responses, SetReady(k, response)
  PROVE  CacheInv'
  <1>0. /\ ShardOK(Shard, Limit) /\ Shard.order = order /\ Shard.entryOf = entryOf
        /\ Limit \in Nat /\ response \in Responses \cup {Waited}
        /\ Held(k) <=> k \in ToSet(Shard.order)
    BY ShardFields, HeldIsListed, LimitAssumption DEF CacheInv
  <1>1. CASE Held(k)
    <2>0. ~IsReady(k) <=> Shard.entryOf[k].response = Waited
      BY <1>0, <1>1 DEF IsReady
    <2> DEFINE t == [Used(Shard, k, "new") EXCEPT
                       !.entryOf[k].response = response,
                       !.pending = IF Shard.entryOf[k].response = Waited /\ @ > 0
                                     THEN @ - 1 ELSE @]
    <2>1. Set(t, TRUE)
      BY <1>1, <2>0 DEF SetReady
    <2>2. ShardOK(t, Limit)
      <3>1. k \in ToSet(Shard.order)
        BY <1>0, <1>1
      <3> QED BY <1>0, <3>1, AnswerCounts
    <2> HIDE DEF t
    <2> QED BY <2>1, <2>2, ChangeKeepsInv
  <1>2. CASE ~Held(k)
    <2>1. ShardOK(With(Shard, k, response), Limit)
      BY <1>0, <1>2, WithCounts
    <2>2. Set(With(Shard, k, response), TRUE)
      BY <1>2 DEF SetReady
    <2> QED BY <2>1, <2>2, ChangeKeepsInv
  <1> QED BY <1>1, <1>2

(* ClearPending.                                                           *)
LEMMA ClearKeepsInv ==
  ASSUME CacheInv, ClearPending
  PROVE  CacheInv'
  <1> DEFINE s == [order |-> Drop(order, Waiting),
                   entryOf |-> [k \in Names |-> IF IsReady(k) THEN entryOf[k] ELSE Absent],
                   pending |-> 0]
  <1>0. /\ order \in Seq(Names) /\ IsInjective(order) /\ Len(order) <= Limit
        /\ Len(order) \in Nat /\ Limit \in Nat
        /\ entryOf \in [Names -> Entries]
        /\ ToSet(order) \subseteq Names
    BY ShardFields, LimitAssumption DEF CacheInv
  <1>1. /\ s.order \in Seq(Names) /\ IsInjective(s.order) /\ Len(s.order) <= Limit
        /\ ToSet(s.order) = ToSet(order) \ Waiting
    <2>1. /\ Drop(order, Waiting) \in Seq(Names)
          /\ IsInjective(Drop(order, Waiting)) /\ Len(Drop(order, Waiting)) <= Len(order)
          /\ ToSet(Drop(order, Waiting)) = ToSet(order) \ Waiting
      BY <1>0, Dropped
    <2>2. Len(Drop(order, Waiting)) \in Nat
      BY <2>1
    <2> QED BY <1>0, <2>1, <2>2
  <1>2. s \in Shards
    <2>1. Absent \in Entries
      BY DEF Absent, Entries, EntryAges
    <2>2. [k \in Names |-> IF IsReady(k) THEN entryOf[k] ELSE Absent] \in [Names -> Entries]
      BY <1>0, <2>1
    <2> QED BY <1>1, <2>2 DEF Shards
  <1>3. WaitingIn(s) = {}
    <2>1. ASSUME NEW k \in ToSet(s.order) PROVE s.entryOf[k].response # Waited
      <3>1. k \in Names /\ k \in ToSet(order) /\ k \notin Waiting
        BY <1>0, <1>1
      <3>2. IsReady(k)
        BY <1>0, <3>1, HeldIsListed DEF Waiting
      <3> QED BY <3>1, <3>2 DEF IsReady
    <2> HIDE DEF s
    <2> QED BY <2>1 DEF WaitingIn
  <1>4. s.pending = Cardinality(WaitingIn(s))
    BY <1>3, FS_EmptySet
  <1>5. Set(s, TRUE)
    BY DEF ClearPending
  <1> HIDE DEF s
  <1>6. ShardOK(s, Limit)
    BY <1>1, <1>2, <1>4 DEF ShardOK
  <1> QED BY <1>5, <1>6, ChangeKeepsInv
(* SaveToFile's first pass, its second one, and the two ways it ends.      *)
LEMMA SavingKeepsInv ==
  ASSUME CacheInv, Saving
  PROVE  CacheInv'
  <1> DEFINE Savers == [at : {"idle", "counted", "written"}, count : 0..Limit,
                        records : Seq(Records), missed : BOOLEAN]
  <1>0. /\ ShardOK(Shard, Limit) /\ SaverTypeOK /\ SaverSeesAll /\ SavedOrChanged
        /\ saver \in Savers /\ changed \in BOOLEAN
        /\ OncePerKey(saver.records) /\ OncePerKey(stored)
        /\ Limit \in Nat
    BY LimitAssumption DEF CacheInv, SaverTypeOK
  <1>1. order' = order /\ entryOf' = entryOf /\ pending' = pending
    BY DEF Saving, SaveCount, SaveWrite, SaveRename, SaveFails
  <1>2. Shard' = Shard /\ ShardOK(Shard, Limit)'
    <2>1. Shard' = Shard
      BY <1>1 DEF Shard
    <2> QED BY <1>0, <2>1 DEF ShardOK, WaitingIn
  <1>3. /\ Savables' = Savables
        /\ \A k \in Names : (Savable(k)' <=> Savable(k)) /\ Record(k)' = Record(k)
    BY <1>1 DEF Savables, Savable, Expired, IsReady, Held, Record
  <1>4. \A k \in Savables : k \in Names
    BY DEF Savables
  <1>5. CASE SaveCount
    <2>1. saver' = [at |-> "counted", count |-> Cardinality({k \in Names : Savable(k)}),
                    records |-> << >>, missed |-> FALSE]
      BY <1>5 DEF SaveCount, Resting
    <2>2. Cardinality(Savables) \in 0..Limit
      BY <1>0, SavablesAreHeld
    <2>3. OncePerKey(<< >>) /\ << >> \in Seq(Records)
      BY <1>0 DEF OncePerKey, IsInjective, ToSet
    <2>4. /\ saver' \in Savers /\ saver'.at = "counted" /\ saver'.count = Cardinality(Savables)
          /\ saver'.records = << >>
      BY <2>1, <2>2, <2>3 DEF Savables
    <2>5. changed /\ changed' = changed /\ stored' = stored
      BY <1>5 DEF SaveCount
    <2>6. SaverTypeOK'
      BY <1>0, <2>3, <2>4, <2>5 DEF SaverTypeOK
    <2>7. SaverSeesAll'
      BY <1>3, <2>2, <2>4, <2>5 DEF SaverSeesAll
    <2>8. SavedOrChanged'
      BY <2>5 DEF SavedOrChanged
    <2> QED BY <1>2, <2>6, <2>7, <2>8 DEF CacheInv
  <1>6. CASE SaveWrite
    <2> DEFINE saved == Drop(order, {k \in Names : ~Savable(k)})
               read == IF Len(saved) < saver.count THEN Len(saved) ELSE saver.count
               records == [i \in 1..read |-> Record(saved[i])]
    <2>1. /\ order \in Seq(Names) /\ IsInjective(order) /\ ToSet(order) \subseteq Names
      BY <1>0, ShardFields
    <2>2. /\ saved \in Seq(Names) /\ IsInjective(saved) /\ ToSet(saved) = Savables
          /\ Len(saved) = Cardinality(Savables) /\ Len(saved) \in 0..Limit
      <3>1. /\ saved \in Seq(Names) /\ IsInjective(saved)
            /\ ToSet(saved) = ToSet(order) \ {k \in Names : ~Savable(k)}
        BY <2>1, Dropped
      <3>2. ToSet(saved) = Savables
        BY <1>0, <2>1, <3>1, SavablesAreHeld DEF Savables
      <3> HIDE DEF saved
      <3>3. Len(saved) = Cardinality(Savables)
        BY <3>1, <3>2, Counted
      <3> QED BY <1>0, <3>1, <3>2, <3>3, SavablesAreHeld
    <2>3. /\ saver.at = "counted" /\ changed' = changed /\ stored' = stored
          /\ saver' = [saver EXCEPT !.at = "written", !.count = 0, !.records = records]
      BY <1>6 DEF SaveWrite
    <2>4. \A i \in 1..Len(saved) : saved[i] \in Savables
      <3> HIDE DEF saved
      <3> QED BY <2>2 DEF ToSet
    <2>5. saver.count \in 0..Limit
      BY <1>0
    <2>6. read \in 0..Limit /\ read <= Len(saved)
      BY <1>0, <2>2, <2>5
    <2>7. \A k \in Savables : Record(k) \in Records /\ Record(k).key = k
      BY <1>0, SavablesAreHeld DEF Record
    <2> HIDE DEF read, saved
    <2>8. /\ records \in Seq(Records) /\ Len(records) = read /\ DOMAIN records = 1..read
          /\ \A i \in 1..read : records[i] = Record(saved[i]) /\ records[i].key = saved[i]
      <3>1. \A i \in 1..read : /\ Record(saved[i]) \in Records
                               /\ Record(saved[i]).key = saved[i]
        BY <1>0, <2>2, <2>4, <2>6, <2>7
      <3> QED BY <1>0, <2>6, <3>1
    <2> HIDE DEF records
    <2>9. OncePerKey(records)
      <3>1. \A i, j \in 1..read : records[i].key = records[j].key => i = j
        BY <1>0, <2>2, <2>6, <2>8 DEF IsInjective
      <3> QED BY <1>0, <2>6, <2>8, <3>1 DEF OncePerKey, IsInjective, ToSet
    <2>10. /\ saver' \in Savers /\ saver'.at = "written" /\ saver'.missed = saver.missed
           /\ saver'.records = records
      <3>1. saver \in Savers /\ records \in Seq(Records) /\ 0 \in 0..Limit
        BY <1>0, <2>8
      <3> QED BY <2>3, <3>1
    <2>11. SaverTypeOK'
      BY <1>0, <2>3, <2>9, <2>10 DEF SaverTypeOK
    <2>12. ASSUME ~saver.missed, NEW k \in Savables
           PROVE  Record(k) \in ToSet(records)
      <3>1. Cardinality(Savables) <= saver.count
        BY <1>0, <2>3, <2>12 DEF SaverSeesAll
      <3>2. read = Len(saved)
        BY <1>0, <2>2, <2>5, <3>1 DEF read
      <3>3. PICK i \in 1..Len(saved) : saved[i] = k
        BY <2>2 DEF ToSet
      <3> QED BY <2>8, <3>2, <3>3 DEF ToSet
    <2>13. SaverSeesAll'
      BY <1>0, <1>3, <1>4, <2>3, <2>10, <2>12 DEF SaverSeesAll
    <2>14. SavedOrChanged'
      BY <2>10 DEF SavedOrChanged
    <2> QED BY <1>2, <2>11, <2>13, <2>14 DEF CacheInv
  <1>7. CASE SaveRename
    <2>1. /\ saver.at = "written" /\ changed' = FALSE /\ stored' = saver.records
          /\ saver' = [at |-> "idle", count |-> 0, records |-> << >>, missed |-> saver.missed]
      BY <1>7 DEF SaveRename, Resting
    <2>2. OncePerKey(<< >>) /\ << >> \in Seq(Records)
      BY <1>0 DEF OncePerKey, IsInjective, ToSet
    <2>3. /\ saver' \in Savers /\ saver'.at = "idle" /\ saver'.records = << >>
          /\ saver'.missed = saver.missed
      BY <1>0, <2>1, <2>2
    <2>4. SaverTypeOK' /\ SaverSeesAll'
      BY <1>0, <2>1, <2>2, <2>3 DEF SaverTypeOK, SaverSeesAll
    <2>5. SavedOrChanged'
      BY <1>0, <1>3, <2>1, <2>3 DEF SavedOrChanged, SaverSeesAll, Savables
    <2> QED BY <1>2, <2>4, <2>5 DEF CacheInv
  <1>8. CASE SaveFails
    <2>1. /\ saver.at # "idle" /\ changed' = changed /\ stored' = stored
          /\ saver' = [at |-> "idle", count |-> 0, records |-> << >>, missed |-> saver.missed]
      BY <1>8 DEF SaveFails, Resting
    <2>2. OncePerKey(<< >>) /\ << >> \in Seq(Records)
      BY <1>0 DEF OncePerKey, IsInjective, ToSet
    <2>3. /\ saver' \in Savers /\ saver'.at = "idle" /\ saver'.records = << >>
      BY <1>0, <2>1, <2>2
    <2>4. SaverTypeOK' /\ SaverSeesAll'
      BY <1>0, <2>1, <2>2, <2>3 DEF SaverTypeOK, SaverSeesAll
    <2>5. SavedOrChanged'
      BY <1>0, <2>1 DEF SavedOrChanged, SaverSeesAll
    <2> QED BY <1>2, <2>4, <2>5 DEF CacheInv
  <1> QED BY <1>5, <1>6, <1>7, <1>8 DEF Saving

(* LoadFromFile: what a restart finds savable is in the file it read.      *)
LEMMA RestartKeepsInv ==
  ASSUME CacheInv, Restarts
  PROVE  CacheInv'
  <1>0. OncePerKey(stored) /\ Limit \in Nat
    BY LimitAssumption DEF CacheInv, SaverTypeOK
  <1>1. PICK alive \in SUBSET Names :
          LET loaded == Loaded(alive)
              from(k) == CHOOSE r \in ToSet(loaded) : r.key = k
              keys == {r.key : r \in ToSet(loaded)}
          IN  /\ order' = [i \in DOMAIN loaded |-> loaded[i].key]
              /\ entryOf' = [k \in Names |-> IF k \in keys
                               THEN [response |-> from(k).response, age |-> "used"] ELSE Absent]
              /\ pending' = 0 /\ changed' = FALSE /\ saver' = Resting
              /\ UNCHANGED stored
    BY DEF Restarts
  <1> DEFINE loaded == Loaded(alive)
             from(k) == CHOOSE r \in ToSet(loaded) : r.key = k
             keys == {r.key : r \in ToSet(loaded)}
  <1>2. /\ order' = [i \in DOMAIN loaded |-> loaded[i].key]
        /\ entryOf' = [k \in Names |-> IF k \in keys
                         THEN [response |-> from(k).response, age |-> "used"] ELSE Absent]
        /\ pending' = 0 /\ changed' = FALSE /\ saver' = Resting /\ stored' = stored
    BY <1>1
  <1>3. /\ loaded \in Seq(Records) /\ IsInjective(loaded) /\ Len(loaded) <= Limit
        /\ ToSet(loaded) \subseteq ToSet(stored)
        /\ \A r, q \in ToSet(loaded) : r.key = q.key => r = q
    <2>1. /\ stored \in Seq(Records) /\ IsInjective(stored) /\ Len(stored) <= Limit
          /\ \A r, q \in ToSet(stored) : r.key = q.key => r = q
      BY <1>0 DEF OncePerKey
    <2>2. /\ loaded \in Seq(Records) /\ IsInjective(loaded) /\ Len(loaded) <= Len(stored)
          /\ ToSet(loaded) \subseteq ToSet(stored)
      BY <2>1, Dropped DEF Loaded
    <2> HIDE DEF loaded
    <2>3. Len(loaded) \in Nat /\ Len(stored) \in Nat
      BY <2>1, <2>2
    <2> QED BY <1>0, <2>1, <2>2, <2>3
  <1> HIDE DEF loaded
  <1>4. \A r \in ToSet(loaded) : r \in Records /\ r.key \in Names /\ r.response \in Responses
        /\ r = [key |-> r.key, response |-> r.response]
    <2>1. ToSet(loaded) \subseteq Records
      BY <1>3 DEF ToSet
    <2> HIDE DEF loaded
    <2> QED BY <2>1 DEF Records
  <1>5. ASSUME NEW k \in keys
        PROVE  from(k) \in ToSet(loaded) /\ from(k).key = k
    BY <1>5
  <1> HIDE DEF from
  <1>6. /\ order' \in Seq(Names) /\ IsInjective(order') /\ Len(order') <= Limit
        /\ ToSet(order') = keys
    <2>1. DOMAIN loaded = 1..Len(loaded) /\ Len(loaded) \in Nat
          /\ \A i \in 1..Len(loaded) : loaded[i] \in ToSet(loaded)
      BY <1>3 DEF ToSet
    <2>2. order' = [i \in 1..Len(loaded) |-> loaded[i].key]
      BY <1>2, <2>1
    <2>3. order' \in Seq(Names) /\ Len(order') = Len(loaded) /\ DOMAIN order' = 1..Len(loaded)
          /\ \A i \in 1..Len(loaded) : order'[i] = loaded[i].key
      BY <1>4, <2>1, <2>2
    <2>4. IsInjective(order')
      BY <1>3, <2>1, <2>3 DEF IsInjective
    <2>5. ToSet(order') = keys
      BY <2>1, <2>3 DEF ToSet
    <2> QED BY <1>3, <2>3, <2>4, <2>5
  <1>7. \A k \in keys : /\ k \in Names /\ from(k) \in Records
                        /\ entryOf'[k] = [response |-> from(k).response, age |-> "used"]
                        /\ entryOf'[k].response # Waited
                        /\ [key |-> k, response |-> entryOf'[k].response] = from(k)
    BY <1>2, <1>4, <1>5, WaitedAssumption
  <1>8. entryOf' \in [Names -> Entries]
    <2>1. Absent \in Entries
      BY DEF Absent, Entries, EntryAges
    <2>2. \A k \in keys : [response |-> from(k).response, age |-> "used"] \in Entries
      BY <1>4, <1>5 DEF Entries, EntryAges
    <2> HIDE DEF keys
    <2> QED BY <1>2, <2>1, <2>2
  <1>9. ShardOK(Shard, Limit)'
    <2>1. Shard'.order = order' /\ Shard'.entryOf = entryOf' /\ Shard'.pending = 0
          /\ Shard' \in Shards
      BY <1>2, <1>6, <1>8 DEF Shard, Shards
    <2>2. WaitingIn(Shard)' = {}
      BY <1>6, <1>7, <2>1 DEF WaitingIn
    <2> QED BY <1>6, <2>1, <2>2, FS_EmptySet DEF ShardOK
  <1>10. SaverTypeOK' /\ SaverSeesAll'
    <2>1. saver' = [at |-> "idle", count |-> 0, records |-> << >>, missed |-> FALSE]
      BY <1>2 DEF Resting
    <2>2. OncePerKey(<< >>) /\ << >> \in Seq(Records)
      BY <1>0 DEF OncePerKey, IsInjective, ToSet
    <2>3. /\ saver' \in [at : {"idle", "counted", "written"}, count : 0..Limit,
                         records : Seq(Records), missed : BOOLEAN]
          /\ saver'.at = "idle" /\ saver'.records = << >>
      BY <1>0, <2>1, <2>2
    <2> QED BY <1>0, <1>2, <2>2, <2>3 DEF SaverTypeOK, SaverSeesAll
  <1>11. SavedOrChanged'
    <2>1. ASSUME NEW k \in Names, Savable(k)'
          PROVE  Record(k)' \in ToSet(stored')
      <3>1. k \in ToSet(order')
        BY <1>6, <2>1 DEF Savable, IsReady, Held, Contains, ToSet
      <3>2. k \in keys
        BY <1>6, <3>1
      <3>3. Record(k)' = from(k)
        BY <1>7, <3>2 DEF Record
      <3> QED BY <1>2, <1>3, <1>5, <3>2, <3>3
    <2> QED BY <2>1 DEF SavedOrChanged
  <1> QED BY <1>9, <1>10, <1>11 DEF CacheInv

-----------------------------------------------------------------------------
(* The DNS cache: the theorems.                                            *)

(* The inductive invariant: a shard lists every key once and counts its    *)
(* pending entries, and what a save has seen and written agrees with it    *)
(* (dnscache Store, SaveToFile).                                           *)
THEOREM CacheIsKept == CacheSpec => []CacheInv
  <1>1. CacheInit => CacheInv
    BY InitCache
  <1>2. CacheInv /\ [CacheNext]_cacheVars => CacheInv'
    <2> SUFFICES ASSUME CacheInv, [CacheNext]_cacheVars PROVE CacheInv'
      OBVIOUS
    <2>1. CASE \E k \in Names : Lookup(k) \/ GetReady(k) \/ GetsOlder(k)
                                  \/ \E r \in Responses : SetReady(k, r)
      BY <2>1, LookupKeepsInv, GetReadyKeepsInv, SetReadyKeepsInv, AgeKeepsInv
    <2>2. CASE ClearPending
      BY <2>2, ClearKeepsInv
    <2>3. CASE Saving
      BY <2>3, SavingKeepsInv
    <2>4. CASE Restarts
      BY <2>4, RestartKeepsInv
    <2>5. CASE UNCHANGED cacheVars
      BY <2>5 DEF cacheVars, CacheInv, ShardOK, WaitingIn, Shard, SaverTypeOK, SaverSeesAll,
           SavedOrChanged, Savables, Savable, Expired, IsReady, Held, Record
    <2> QED BY <2>1, <2>2, <2>3, <2>4, <2>5 DEF CacheNext
  <1> QED BY <1>1, <1>2, PTL DEF CacheSpec

(* The pending entries of every reachable cache are those its count names, *)
(* through eviction, answer, expiry, reset and restart (HasPending).       *)
THEOREM PendingCounted == CacheSpec => []PendingIsCounted
  <1>1. CacheInv => PendingIsCounted
    BY CountedIsPending DEF CacheInv
  <1> QED BY <1>1, CacheIsKept, PTL

(* A shard never exceeds its limit, nor does what a save counts, writes or *)
(* leaves in the file (evictIfNeededLocked).                               *)
THEOREM CacheTypes == CacheSpec => []CacheTypeOK
  <1>1. ASSUME CacheInv PROVE CacheTypeOK
    <2>1. ShardOK(Shard, Limit) /\ SaverTypeOK /\ Limit \in Nat
      BY <1>1, LimitAssumption DEF CacheInv
    <2>2. /\ order \in Seq(Names) /\ IsInjective(order) /\ Len(order) <= Limit /\ Len(order) \in Nat
          /\ entryOf \in [Names -> Entries] /\ pending \in Nat
          /\ Shard.order = order /\ Shard.pending = pending
      BY <2>1, ShardFields
    <2>3. pending <= Limit
      <3>1. WaitingIn(Shard) \subseteq ToSet(order) /\ pending = Cardinality(WaitingIn(Shard))
        BY <2>1, <2>2 DEF WaitingIn, ShardOK
      <3>2. IsFiniteSet(ToSet(order)) /\ Cardinality(ToSet(order)) <= Len(order)
        BY <2>2, Counted
      <3>3. Cardinality(WaitingIn(Shard)) <= Cardinality(ToSet(order))
            /\ Cardinality(ToSet(order)) \in Nat
        BY <3>1, <3>2, FS_Subset, FS_CardinalityType
      <3> QED BY <2>1, <2>2, <3>1, <3>2, <3>3
    <2>4. /\ saver.at \in {"idle", "counted", "written"} /\ saver.count \in 0..Limit
          /\ saver.missed \in BOOLEAN /\ changed \in BOOLEAN
          /\ Len(saver.records) <= Limit /\ Len(stored) <= Limit
      BY <2>1 DEF SaverTypeOK, OncePerKey
    <2> QED BY <2>1, <2>2, <2>3, <2>4 DEF CacheTypeOK, Entries, EntryAges
  <1> QED BY <1>1, CacheIsKept, PTL

(* Whatever a restart would lose has made another save due, but for the    *)
(* changes a save missed between its two passes (SaveToFile).              *)
THEOREM SavedUnlessChanged == CacheSpec => []SavedOrChanged
  <1>1. CacheInv => SavedOrChanged
    BY DEF CacheInv
  <1> QED BY <1>1, CacheIsKept, PTL

-----------------------------------------------------------------------------
(* The multi-level queue: what its operations keep.                        *)

Packets == DOMAIN LevelOf \cup OrphanPackets
Queues == [items : [Levels -> Seq(Packets)], mask : SUBSET Levels,
           census : SUBSET Packets, size : Int]
QueueOK(q) == q \in Queues /\ IsFiniteSet(q.census) /\ QueueIsCounted(q)

LEMMA QueueFields ==
  ASSUME NEW q, QueueOK(q)
  PROVE  /\ q.items \in [Levels -> Seq(Packets)] /\ q.mask \subseteq Levels
         /\ q.census \subseteq Packets /\ IsFiniteSet(q.census)
         /\ q.size = Cardinality(q.census) /\ q.size \in Nat
         /\ \A l \in Levels : /\ q.items[l] \in Seq(Packets) /\ Len(q.items[l]) \in Nat
                              /\ IsInjective(q.items[l])
                              /\ ToSet(q.items[l]) \subseteq q.census
                              /\ l \in q.mask <=> q.items[l] # << >>
         /\ \A l, m \in Levels, r \in q.census : r \in ToSet(q.items[l]) /\ r \in ToSet(q.items[m]) => l = m
         /\ \A p \in q.census : \E l \in Levels : p \in ToSet(q.items[l])
  <1>1. q \in Queues /\ IsFiniteSet(q.census) /\ QueueIsCounted(q)
    BY DEF QueueOK
  <1>2. q.items \in [Levels -> Seq(Packets)] /\ q.mask \subseteq Levels /\ q.census \subseteq Packets
    BY <1>1 DEF Queues
  <1>3. Cardinality(q.census) \in Nat
    BY <1>1, FS_CardinalityType
  <1>4. \A l \in Levels : q.items[l] \in Seq(Packets) /\ Len(q.items[l]) \in Nat
    BY <1>2
  <1> HIDE DEF Levels
  <1> QED BY <1>1, <1>2, <1>3, <1>4 DEF QueueIsCounted

(* A queue is right when its parts are.                                    *)
LEMMA QueueFromParts ==
  ASSUME NEW t, NEW items \in [Levels -> Seq(Packets)], NEW mask, NEW census \in SUBSET Packets,
         NEW size,
         t = [items |-> items, mask |-> mask, census |-> census, size |-> size],
         IsFiniteSet(census), size = Cardinality(census),
         \A l \in Levels : IsInjective(items[l]),
         \A l, m \in Levels, r \in census : r \in ToSet(items[l]) /\ r \in ToSet(items[m]) => l = m,
         \A r : r \in census <=> \E l \in Levels : r \in ToSet(items[l]),
         mask = {l \in Levels : items[l] # << >>}
  PROVE  QueueOK(t)
  <1>1. t.items = items /\ t.mask = mask /\ t.census = census /\ t.size = size
    OBVIOUS
  <1>2. size \in Int
    BY FS_CardinalityType
  <1>3. t \in Queues
    BY <1>2 DEF Queues
  <1> HIDE DEF Levels
  <1> QED BY <1>1, <1>3 DEF QueueOK, QueueIsCounted

LEMMA NewQueueOK == QueueOK(NewQueue)
  <1> DEFINE none == [l \in Levels |-> << >>]
  <1>1. /\ none \in [Levels -> Seq(Packets)]
        /\ \A l \in Levels : none[l] = << >> /\ ToSet(none[l]) = {} /\ IsInjective(none[l])
    BY DEF ToSet, IsInjective
  <1>2. IsFiniteSet({}) /\ Cardinality({}) = 0
    BY FS_EmptySet
  <1>3. \A r : r \in {} <=> \E l \in Levels : r \in ToSet(none[l])
    BY <1>1
  <1>4. {} = {l \in Levels : none[l] # << >>}
    BY <1>1
  <1>5. NewQueue = [items |-> none, mask |-> {}, census |-> {}, size |-> 0]
    BY DEF NewQueue
  <1> HIDE DEF none
  <1> QED BY <1>1, <1>2, <1>3, <1>4, <1>5, QueueFromParts

LEMMA PushKeeps ==
  ASSUME NEW q, QueueOK(q), NEW level \in Levels, NEW p \in Packets
  PROVE  QueueOK(Push(q, level, p)) /\ Push(q, level, p).census = q.census \cup {p}
  <1>1. CASE Has(q, p)
    BY <1>1 DEF Push, Has
  <1>2. CASE ~Has(q, p)
    <2> DEFINE items == [q.items EXCEPT ![level] = Append(@, p)]
               census == q.census \cup {p}
               t == [items |-> items, mask |-> q.mask \cup {level}, census |-> census,
                     size |-> q.size + 1]
    <2>1. Push(q, level, p) = t
      BY <1>2 DEF Push
    <2>2. /\ q.items \in [Levels -> Seq(Packets)] /\ q.mask \subseteq Levels
          /\ q.census \subseteq Packets /\ IsFiniteSet(q.census)
          /\ q.size = Cardinality(q.census) /\ q.size \in Nat
          /\ \A l \in Levels : /\ q.items[l] \in Seq(Packets) /\ Len(q.items[l]) \in Nat
                               /\ IsInjective(q.items[l])
                               /\ ToSet(q.items[l]) \subseteq q.census
                               /\ l \in q.mask <=> q.items[l] # << >>
          /\ \A l, m \in Levels, r \in q.census : r \in ToSet(q.items[l]) /\ r \in ToSet(q.items[m]) => l = m
          /\ \A r \in q.census : \E l \in Levels : r \in ToSet(q.items[l])
      BY QueueFields
    <2>3. p \notin q.census /\ census \in SUBSET Packets
      BY <1>2, <2>2 DEF Has
    <2>4. IsFiniteSet(census) /\ q.size + 1 = Cardinality(census)
      <3>1. IsFiniteSet(q.census \cup {p}) /\ Cardinality(q.census \cup {p}) = Cardinality(q.census) + 1
        BY <2>2, <2>3, FS_AddElement
      <3> QED BY <2>2, <3>1
    <2>5. /\ Append(q.items[level], p) \in Seq(Packets)
          /\ ToSet(Append(q.items[level], p)) = ToSet(q.items[level]) \cup {p}
          /\ IsInjective(Append(q.items[level], p))
          /\ Append(q.items[level], p) # << >>
      <3>1. p \notin ToSet(q.items[level]) /\ q.items[level] \in Seq(Packets)
            /\ IsInjective(q.items[level])
        BY <2>2, <2>3
      <3>2. Len(Append(q.items[level], p)) = Len(q.items[level]) + 1
        BY <3>1, Appended
      <3> QED BY <2>2, <3>1, <3>2, Appended, SMTT(30)
    <2> HIDE DEF Levels
    <2>6. /\ items \in [Levels -> Seq(Packets)]
          /\ items[level] = Append(q.items[level], p)
          /\ \A l \in Levels \ {level} : items[l] = q.items[l]
      BY <2>2, <2>5
    <2> HIDE DEF items
    <2>7. \A l \in Levels : IsInjective(items[l])
      BY <2>2, <2>5, <2>6
    <2>8. \A l \in Levels : ToSet(items[l]) = IF l = level THEN ToSet(q.items[l]) \cup {p}
                                              ELSE ToSet(q.items[l])
      BY <2>5, <2>6
    <2>9. \A l, m \in Levels, r \in census : r \in ToSet(items[l]) /\ r \in ToSet(items[m]) => l = m
      <3>1. SUFFICES ASSUME NEW l \in Levels, NEW m \in Levels, NEW r \in census,
                            r \in ToSet(items[l]), r \in ToSet(items[m])
                     PROVE  l = m
        OBVIOUS
      <3>2. p \notin ToSet(q.items[l]) /\ p \notin ToSet(q.items[m])
        BY <2>2, <2>3
      <3>3. CASE r = p
        BY <2>8, <3>1, <3>2, <3>3
      <3>4. CASE r # p
        <4>1. r \in q.census /\ r \in ToSet(q.items[l]) /\ r \in ToSet(q.items[m])
          <5>1. r \in q.census
            BY <3>4
          <5>2. \A k \in Levels : r \in ToSet(items[k]) => r \in ToSet(q.items[k])
            BY <2>8, <3>4
          <5> QED BY <3>1, <5>1, <5>2
        <4> QED BY <2>2, <4>1
      <3> QED BY <3>3, <3>4
    <2>10. \A r : r \in census <=> \E l \in Levels : r \in ToSet(items[l])
      BY <2>2, <2>8
    <2>11. q.mask \cup {level} = {l \in Levels : items[l] # << >>}
      BY <2>2, <2>5, <2>6
    <2>12. QueueOK(t)
      BY <2>3, <2>4, <2>6, <2>7, <2>9, <2>10, <2>11, QueueFromParts
    <2> QED BY <2>1, <2>12
  <1> QED BY <1>1, <1>2

(* Pop, PopAnyIf and RemoveByKey, when they have found the packet.         *)
LEMMA TakeKeeps ==
  ASSUME NEW q, QueueOK(q), NEW level \in Levels, NEW p \in ToSet(q.items[level])
  PROVE  QueueOK(Take(q, level, p)) /\ Take(q, level, p).census = q.census \ {p}
  <1> DEFINE items == [q.items EXCEPT ![level] = Drop(@, {p})]
             mask == IF Len(q.items[level]) = 1 THEN q.mask \ {level} ELSE q.mask
             census == q.census \ {p}
             t == [items |-> items, mask |-> mask, census |-> census, size |-> q.size - 1]
  <1>1. Take(q, level, p) = t
    BY DEF Take
  <1>2. /\ q.items \in [Levels -> Seq(Packets)] /\ q.mask \subseteq Levels
        /\ q.census \subseteq Packets /\ IsFiniteSet(q.census)
        /\ q.size = Cardinality(q.census) /\ q.size \in Nat
        /\ \A l \in Levels : /\ q.items[l] \in Seq(Packets) /\ Len(q.items[l]) \in Nat
                             /\ IsInjective(q.items[l])
                             /\ ToSet(q.items[l]) \subseteq q.census
                             /\ l \in q.mask <=> q.items[l] # << >>
        /\ \A l, m \in Levels, r \in q.census : r \in ToSet(q.items[l]) /\ r \in ToSet(q.items[m]) => l = m
        /\ \A r \in q.census : \E l \in Levels : r \in ToSet(q.items[l])
    BY QueueFields
  <1> HIDE DEF Levels
  <1>3. p \in q.census /\ census \in SUBSET Packets
    BY <1>2
  <1>4. IsFiniteSet(census) /\ q.size - 1 = Cardinality(census)
    <2>1. IsFiniteSet(q.census \ {p}) /\ Cardinality(q.census \ {p}) = Cardinality(q.census) - 1
      BY <1>2, <1>3, FS_RemoveElement
    <2> QED BY <1>2, <2>1
  <1> DEFINE kept == Drop(q.items[level], {p})
  <1>5. /\ kept \in Seq(Packets) /\ IsInjective(kept) /\ Len(kept) \in Nat
        /\ ToSet(kept) = ToSet(q.items[level]) \ {p}
    <2>1. q.items[level] \in Seq(Packets) /\ IsInjective(q.items[level])
      BY <1>2
    <2> QED BY <2>1, Dropped
  <1> HIDE DEF kept
  <1>6. Len(kept) = Len(q.items[level]) - 1
    <2>1. /\ IsFiniteSet(ToSet(q.items[level])) /\ Cardinality(ToSet(q.items[level])) = Len(q.items[level])
          /\ Cardinality(ToSet(kept)) = Len(kept)
      BY <1>2, <1>5, Counted
    <2>2. Cardinality(ToSet(q.items[level]) \ {p}) = Cardinality(ToSet(q.items[level])) - 1
      BY <2>1, FS_RemoveElement
    <2> QED BY <1>5, <2>1, <2>2
  <1>7. kept = << >> <=> Len(q.items[level]) = 1
    <2>1. Len(kept) = 0 <=> kept = << >>
      BY <1>5
    <2> QED BY <1>2, <1>5, <1>6, <2>1
  <1>8. /\ items \in [Levels -> Seq(Packets)]
        /\ items[level] = kept
        /\ \A l \in Levels \ {level} : items[l] = q.items[l]
    BY <1>2, <1>5 DEF kept
  <1> HIDE DEF items
  <1>9. \A l \in Levels : IsInjective(items[l])
    BY <1>2, <1>5, <1>8
  <1>10. \A l \in Levels : ToSet(items[l]) = IF l = level THEN ToSet(q.items[l]) \ {p}
                                             ELSE ToSet(q.items[l])
    BY <1>5, <1>8
  <1>11. \A l, m \in Levels, r \in census : r \in ToSet(items[l]) /\ r \in ToSet(items[m]) => l = m
    BY <1>2, <1>10, ZenonT(60)
  <1>12. \A r : r \in census <=> \E l \in Levels : r \in ToSet(items[l])
    <2>1. \A l \in Levels : l # level => p \notin ToSet(q.items[l])
      BY <1>2
    <2> QED BY <1>2, <1>10, <2>1, ZenonT(60)
  <1>13. level \in q.mask
    <2>1. q.items[level] # << >>
      BY DEF ToSet
    <2> QED BY <1>2, <2>1
  <1>14. mask = {l \in Levels : items[l] # << >>}
    BY <1>2, <1>7, <1>8, <1>13
  <1> HIDE DEF mask
  <1>15. QueueOK(t)
    BY <1>3, <1>4, <1>8, <1>9, <1>11, <1>12, <1>14, QueueFromParts
  <1> QED BY <1>1, <1>15
LEMMA RemoveByKeyKeeps ==
  ASSUME NEW q, QueueOK(q), NEW p
  PROVE  QueueOK(RemoveByKey(q, p)) /\ RemoveByKey(q, p).census = q.census \ {p}
  <1>1. CASE ~Has(q, p)
    BY <1>1 DEF RemoveByKey, Has
  <1>2. CASE Has(q, p)
    <2> DEFINE level == CHOOSE l \in q.mask : Contains(q.items[l], p)
    <2>1. PICK l \in Levels : p \in ToSet(q.items[l])
      BY <1>2, QueueFields DEF Has
    <2>2. /\ q.items[l] \in Seq(Packets) /\ q.items[l] # << >>
          /\ l \in q.mask /\ q.mask \subseteq Levels
      <3>1. q.items[l] # << >>
        BY <2>1 DEF ToSet
      <3> HIDE DEF Levels
      <3> QED BY <2>1, <3>1, QueueFields
    <2>3. Contains(q.items[l], p)
      BY <2>1, <2>2 DEF Contains, ToSet
    <2>4. level \in q.mask /\ Contains(q.items[level], p)
      BY <2>2, <2>3
    <2>5. RemoveByKey(q, p) = Take(q, level, p)
      BY <1>2 DEF RemoveByKey
    <2> HIDE DEF level
    <2>6. level \in Levels /\ q.items[level] \in Seq(Packets)
      <3> HIDE DEF Levels
      <3> QED BY <2>2, <2>4, QueueFields
    <2>7. p \in ToSet(q.items[level])
      BY <2>4, <2>6 DEF Contains, ToSet
    <2> QED BY <2>5, <2>6, <2>7, TakeKeeps
  <1> QED BY <1>1, <1>2

(* The bits find the first level that has a packet.                        *)
LEMMA PopKeeps ==
  ASSUME NEW q, QueueOK(q), q.size > 0
  PROVE  /\ QueueOK(Pop(q)) /\ Pop(q).census \subseteq q.census
         /\ First(q) \in Packets
  <1>1. PICK p : p \in q.census
    <2>1. q.census # {}
      BY QueueFields, FS_EmptySet
    <2> QED BY <2>1
  <1>2. PICK l \in Levels : p \in ToSet(q.items[l])
    BY <1>1, QueueFields
  <1>3. l \in q.mask /\ q.mask \subseteq Levels
    <2>1. q.items[l] # << >>
      BY <1>2 DEF ToSet
    <2> HIDE DEF Levels
    <2> QED BY <1>2, <2>1, QueueFields
  <1>4. Top(q) \in q.mask
    <2>1. q.mask \in SUBSET Nat /\ q.mask # {}
      BY <1>3 DEF Levels
    <2>2. \E t \in q.mask : \A m \in q.mask : t <= m
      BY <2>1, LeastNumber
    <2> QED BY <2>2 DEF Top
  <1> DEFINE level == Top(q)
  <1> HIDE DEF level
  <1>5. level \in Levels /\ q.items[level] # << >> /\ q.items[level] \in Seq(Packets)
    <2> HIDE DEF Levels
    <2> QED BY <1>3, <1>4, QueueFields DEF level
  <1>6. Head(q.items[level]) \in ToSet(q.items[level])
    BY <1>5 DEF ToSet
  <1>7. Pop(q) = Take(q, level, Head(q.items[level]))
    BY DEF Pop, First, level
  <1>8. First(q) \in Packets
    BY <1>5 DEF First, level
  <1>9. QueueOK(Pop(q)) /\ Pop(q).census \subseteq q.census
    BY <1>5, <1>6, <1>7, TakeKeeps
  <1> QED BY <1>8, <1>9

(* RemoveByKey or PopAnyIf, one packet after the other.                    *)
LEMMA RemoveAllKeeps ==
  ASSUME NEW q, QueueOK(q), NEW gone
  PROVE  QueueOK(RemoveAll(q, gone)) /\ RemoveAll(q, gone).census = q.census \ gone
  <1> DEFINE items == [l \in Levels |-> Drop(q.items[l], gone)]
             mask == {l \in q.mask : items[l] # << >>}
             census == q.census \ gone
             t == [items |-> items, mask |-> mask, census |-> census,
                   size |-> q.size - Cardinality(q.census \cap gone)]
  <1>1. RemoveAll(q, gone) = t
    BY DEF RemoveAll
  <1>2. /\ q.items \in [Levels -> Seq(Packets)] /\ q.mask \subseteq Levels
        /\ q.census \subseteq Packets /\ IsFiniteSet(q.census)
        /\ q.size = Cardinality(q.census) /\ q.size \in Nat
        /\ \A l \in Levels : /\ q.items[l] \in Seq(Packets) /\ Len(q.items[l]) \in Nat
                             /\ IsInjective(q.items[l])
                             /\ ToSet(q.items[l]) \subseteq q.census
                             /\ l \in q.mask <=> q.items[l] # << >>
        /\ \A l, m \in Levels, r \in q.census : r \in ToSet(q.items[l]) /\ r \in ToSet(q.items[m]) => l = m
        /\ \A r \in q.census : \E l \in Levels : r \in ToSet(q.items[l])
    BY QueueFields
  <1> HIDE DEF Levels
  <1>3. IsFiniteSet(census) /\ q.size - Cardinality(q.census \cap gone) = Cardinality(census)
    <2>1. IsFiniteSet(q.census \ gone)
          /\ Cardinality(q.census \ gone) = Cardinality(q.census) - Cardinality(q.census \cap gone)
      BY <1>2, FS_Difference
    <2> QED BY <1>2, <2>1
  <1>4. \A l \in Levels : /\ items[l] \in Seq(Packets) /\ IsInjective(items[l])
                          /\ Len(items[l]) <= Len(q.items[l])
                          /\ ToSet(items[l]) = ToSet(q.items[l]) \ gone
    <2>1. ASSUME NEW l \in Levels
          PROVE  /\ Drop(q.items[l], gone) \in Seq(Packets) /\ IsInjective(Drop(q.items[l], gone))
                 /\ Len(Drop(q.items[l], gone)) <= Len(q.items[l])
                 /\ ToSet(Drop(q.items[l], gone)) = ToSet(q.items[l]) \ gone
      BY <1>2, <2>1, Dropped
    <2> QED BY <2>1
  <1>5. items \in [Levels -> Seq(Packets)]
    BY <1>4
  <1> HIDE DEF items
  <1>6. \A l, m \in Levels, r \in census : r \in ToSet(items[l]) /\ r \in ToSet(items[m]) => l = m
    BY <1>2, <1>4
  <1>7. \A r : r \in census <=> \E l \in Levels : r \in ToSet(items[l])
    BY <1>2, <1>4
  <1>8. mask = {l \in Levels : items[l] # << >>}
    <2>1. ASSUME NEW l \in Levels, items[l] # << >> PROVE l \in q.mask
      <3>1. Len(items[l]) \in Nat /\ Len(items[l]) # 0
        BY <1>4, <2>1
      <3>2. q.items[l] # << >>
        BY <1>2, <1>4, <3>1
      <3> QED BY <1>2, <3>2
    <2> QED BY <1>2, <2>1
  <1>9. \A l \in Levels : IsInjective(items[l])
    BY <1>4
  <1>10. census \in SUBSET Packets
    BY <1>2
  <1>11. QueueOK(t)
    BY <1>3, <1>5, <1>6, <1>7, <1>8, <1>9, <1>10, QueueFromParts
  <1> QED BY <1>1, <1>11

(* PushTXPacket: data or a retransmission of it, never both.               *)
Apart(q) == ~({"data", "resend"} \subseteq q.census)

LEMMA PushTXKeeps ==
  ASSUME NEW q, QueueOK(q), Apart(q), NEW p \in DOMAIN LevelOf
  PROVE  /\ QueueOK(PushTXPacket(q, p)) /\ Apart(PushTXPacket(q, p))
         /\ PushTXPacket(q, p).census \subseteq q.census \cup {p}
         /\ PushTXPacket(q, p).census # {}
  <1> DEFINE pushed == Push(q, LevelOf[p], p)
  <1>1. LevelOf[p] \in Levels /\ p \in Packets
    BY DEF LevelOf, Levels, Packets
  <1>2. QueueOK(pushed) /\ pushed.census = q.census \cup {p}
    BY <1>1, PushKeeps
  <1> HIDE DEF pushed
  <1>3. CASE p = "data" /\ Has(q, "resend")
    BY <1>3 DEF PushTXPacket, Has
  <1>4. CASE p = "resend" /\ ~Has(q, "resend")
    <2>1. PushTXPacket(q, p) = RemoveByKey(pushed, "data")
      BY <1>4 DEF PushTXPacket, pushed
    <2>2. QueueOK(RemoveByKey(pushed, "data"))
          /\ RemoveByKey(pushed, "data").census = pushed.census \ {"data"}
      BY <1>2, RemoveByKeyKeeps
    <2>3. PICK r : r = RemoveByKey(pushed, "data")
      OBVIOUS
    <2>4. /\ QueueOK(r) /\ Apart(r) /\ r.census \subseteq q.census \cup {p}
          /\ "resend" \in r.census
      BY <1>2, <1>4, <2>2, <2>3 DEF Apart
    <2> QED BY <2>1, <2>3, <2>4
  <1>5. CASE ~(p = "data" /\ Has(q, "resend")) /\ ~(p = "resend" /\ ~Has(q, "resend"))
    <2>1. PushTXPacket(q, p) = pushed
      BY <1>5 DEF PushTXPacket, pushed
    <2>2. Apart(pushed)
      BY <1>2, <1>5 DEF Apart, Has
    <2> QED BY <1>2, <2>1, <2>2
  <1> QED BY <1>3, <1>4, <1>5

-----------------------------------------------------------------------------
(* The server's queues.                                                    *)

(* Every queue is right and has what its owner sends.                      *)
Sendable(id) == IF id = Orphan THEN OrphanPackets ELSE StreamPackets[id]
QueuesInv ==
  /\ queues = [id \in Ids |-> queues[id]]
  /\ \A id \in Ids : /\ QueueOK(queues[id]) /\ Apart(queues[id])
                     /\ queues[id].census \subseteq Sendable(id)

(* A step that replaces one queue by one that is right.                    *)
LEMMA OneQueueChanges ==
  ASSUME QueuesInv, NEW id, NEW q, queues' = [queues EXCEPT ![id] = q],
         id \in Ids => QueueOK(q) /\ Apart(q) /\ q.census \subseteq Sendable(id)
  PROVE  QueuesInv'
  <1>1. queues = [i \in Ids |-> queues[i]]
    BY DEF QueuesInv
  <1>2. queues' = [i \in Ids |-> queues'[i]]
        /\ \A i \in Ids : queues'[i] = IF i = id THEN q ELSE queues[i]
    BY <1>1
  <1>3. \A i \in Ids : /\ QueueOK(queues'[i]) /\ Apart(queues'[i])
                       /\ queues'[i].census \subseteq Sendable(i)
    BY <1>2 DEF QueuesInv
  <1> QED BY <1>2, <1>3 DEF QueuesInv, QueueOK, QueueIsCounted, Apart, Sendable

LEMMA QueuesStep ==
  ASSUME QueuesInv, [DequeueNext]_dequeueVars
  PROVE  QueuesInv'
  <1>0. /\ queues = [id \in Ids |-> queues[id]]
        /\ \A id \in Ids : /\ QueueOK(queues[id]) /\ Apart(queues[id])
                           /\ queues[id].census \subseteq Sendable(id)
        /\ Orphan \in Ids /\ Orphan \notin Streams /\ Streams \subseteq Ids
    BY DequeueAssumption DEF QueuesInv, Ids, Streams, Orphan
  <1>1. ASSUME queues' = queues PROVE QueuesInv'
    <2>1. /\ queues' = [id \in Ids |-> queues'[id]]
          /\ \A i \in Ids : /\ QueueOK(queues'[i]) /\ Apart(queues'[i])
                             /\ queues'[i].census \subseteq Sendable(i)
      BY <1>0, <1>1
    <2> QED BY <2>1 DEF QueuesInv, QueueOK, QueueIsCounted, Apart, Sendable
  <1>2. ASSUME NEW s \in Streams, NEW p \in StreamPackets[s], Sends(s, p) PROVE QueuesInv'
    <2>1. p \in DOMAIN LevelOf
      BY PacketsAssumption DEF Streams
    <2>2. /\ QueueOK(PushTXPacket(queues[s], p)) /\ Apart(PushTXPacket(queues[s], p))
          /\ PushTXPacket(queues[s], p).census \subseteq queues[s].census \cup {p}
      BY <1>0, <2>1, PushTXKeeps
    <2>3. queues' = [queues EXCEPT ![s] = PushTXPacket(queues[s], p)]
      BY <1>2 DEF Sends
    <2>4. PushTXPacket(queues[s], p).census \subseteq Sendable(s)
      BY <1>0, <2>2 DEF Sendable
    <2> QED BY <2>2, <2>3, <2>4, OneQueueChanges
  <1>3. ASSUME NEW p \in OrphanPackets, SendsOrphan(p) PROVE QueuesInv'
    <2>1. p \in Packets /\ 0 \in Levels
      BY DEF Packets, Levels
    <2>2. QueueOK(Push(queues[Orphan], 0, p))
          /\ Push(queues[Orphan], 0, p).census = queues[Orphan].census \cup {p}
      BY <1>0, <2>1, PushKeeps
    <2>3. Push(queues[Orphan], 0, p).census \subseteq Sendable(Orphan)
      BY <1>0, <2>2 DEF Sendable
    <2>4. queues' = [queues EXCEPT ![Orphan] = Push(queues[Orphan], 0, p)]
      BY <1>3 DEF SendsOrphan
    <2>5. Apart(Push(queues[Orphan], 0, p))
      BY <2>3, PacketsAssumption DEF Apart, Sendable
    <2> QED BY <2>2, <2>3, <2>4, <2>5, OneQueueChanges
  <1>4. ASSUME NEW s \in Streams, Acknowledged(s) PROVE QueuesInv'
    <2> DEFINE q == RemoveQueuedData(queues[s])
    <2>1. queues' = [queues EXCEPT ![s] = q]
      BY <1>4 DEF Acknowledged
    <2>2. QueueOK(RemoveByKey(queues[s], "data"))
      BY <1>0, RemoveByKeyKeeps
    <2>3. QueueOK(q) /\ q.census = RemoveByKey(queues[s], "data").census \ {"resend"}
      BY <2>2, RemoveByKeyKeeps DEF RemoveQueuedData
    <2>4. RemoveByKey(queues[s], "data").census \subseteq queues[s].census
      BY <1>0, RemoveByKeyKeeps
    <2> HIDE DEF q
    <2>5. Apart(q) /\ q.census \subseteq Sendable(s)
      BY <1>0, <2>3, <2>4 DEF Apart
    <2> QED BY <2>1, <2>3, <2>5, OneQueueChanges
  <1>5. ASSUME NEW w \in PollWorkers, PopNext(w) PROVE QueuesInv'
    <2> DEFINE id == Candidate(w)
    <2>1. queues' = [queues EXCEPT ![id] = Pop(queues[id])] /\ queues[id].size > 0
      BY <1>5 DEF PopNext, Waits
    <2> HIDE DEF id
    <2>2. ASSUME id \in Ids
          PROVE  /\ QueueOK(Pop(queues[id])) /\ Apart(Pop(queues[id]))
                 /\ Pop(queues[id]).census \subseteq Sendable(id)
      <3>1. QueueOK(Pop(queues[id])) /\ Pop(queues[id]).census \subseteq queues[id].census
        BY <1>0, <2>1, <2>2, PopKeeps
      <3> QED BY <1>0, <2>2, <3>1 DEF Apart
    <2> QED BY <1>0, <2>1, <2>2, OneQueueChanges
  <1>6. ASSUME NEW w \in PollWorkers, DropClosed(w) PROVE QueuesInv'
    <2>1. queues' = [queues EXCEPT ![Candidate(w)] = NewQueue]
      BY <1>6 DEF DropClosed
    <2>2. NewQueue.census = {}
      BY DEF NewQueue
    <2>3. QueueOK(NewQueue) /\ Apart(NewQueue)
      BY <2>2, NewQueueOK DEF Apart
    <2> QED BY <2>1, <2>2, <2>3, OneQueueChanges
  <1>7. ASSUME NEW w \in PollWorkers, Answer(w) PROVE QueuesInv'
    <2>1. queues' = queues \/ \E from : queues' = [id \in Ids |-> RemoveAll(queues[id], from[id])]
      <3>1. CASE ~(polls[w].packet \in Packable /\ MaxPackedBlocks > 1)
        BY <1>7, <3>1 DEF Answer
      <3>2. CASE polls[w].packet \in Packable /\ MaxPackedBlocks > 1
        <4> DEFINE found == ToPack(polls[w].id)
                   packed == SubSeq(found, 1, IF Len(found) < MaxPackedBlocks THEN Len(found)
                                              ELSE MaxPackedBlocks - 1)
                   from(id) == {b.packet : b \in {c \in ToSet(packed) : c.id = id}}
        <4>1. queues' = [id \in Ids |-> RemoveAll(queues[id], from(id))]
          BY <1>7, <3>2 DEF Answer
        <4> HIDE DEF from
        <4>2. PICK each : each = [i \in Ids |-> from(i)]
          OBVIOUS
        <4>3. queues' = [id \in Ids |-> RemoveAll(queues[id], each[id])]
          BY <4>1, <4>2
        <4> HIDE DEF found, packed
        <4> QED BY <4>3
      <3> QED BY <3>1, <3>2
    <2>2. CASE queues' = queues
      BY <1>1, <2>2
    <2>3. CASE \E from : queues' = [id \in Ids |-> RemoveAll(queues[id], from[id])]
      <3>1. PICK from : queues' = [id \in Ids |-> RemoveAll(queues[id], from[id])]
        BY <2>3
      <3>2. \A id \in Ids : /\ QueueOK(RemoveAll(queues[id], from[id]))
                            /\ RemoveAll(queues[id], from[id]).census = queues[id].census \ from[id]
        BY <1>0, RemoveAllKeeps
      <3>3. /\ queues' = [id \in Ids |-> queues'[id]]
            /\ \A id \in Ids : QueueOK(queues'[id]) /\ queues'[id].census \subseteq queues[id].census
        BY <3>1, <3>2
      <3>4. \A id \in Ids : Apart(queues'[id]) /\ queues'[id].census \subseteq Sendable(id)
        BY <1>0, <3>3 DEF Apart
      <3> QED BY <3>3, <3>4 DEF QueuesInv, QueueOK, QueueIsCounted, Apart, Sendable
    <2> QED BY <2>1, <2>2, <2>3
  <1>8. ASSUME NEW w \in PollWorkers, Poll(w) PROVE QueuesInv'
    <2>1. CASE Repeat(w) \/ ReadTurn(w) \/ Snapshot(w) \/ Skip(w) \/ Pong(w)
      BY <1>1, <2>1 DEF Repeat, ReadTurn, Snapshot, Skip, Pong
    <2> QED BY <1>5, <1>6, <1>7, <1>8, <2>1 DEF Poll
  <1>9. ASSUME NEW s \in Streams, Closes(s) \/ Removed(s) PROVE QueuesInv'
    BY <1>1, <1>9 DEF Closes, Removed
  <1>10. CASE UNCHANGED dequeueVars
    BY <1>1, <1>10 DEF dequeueVars
  <1>11. CASE DequeueNext
    BY <1>2, <1>3, <1>4, <1>8, <1>9, <1>11 DEF DequeueNext
  <1> QED BY <1>10, <1>11

LEMMA InitQueues ==
  ASSUME DequeueInit
  PROVE  QueuesInv
  <1>1. queues = [id \in Ids |-> NewQueue]
    BY DEF DequeueInit
  <1>2. NewQueue.census = {}
    BY DEF NewQueue
  <1>3. \A id \in Ids : queues[id] = NewQueue
    BY <1>1
  <1> HIDE DEF NewQueue
  <1> QED BY <1>1, <1>2, <1>3, NewQueueOK DEF QueuesInv, Apart

(* The inductive invariant: every queue's items, census, bits and size     *)
(* agree, and it has only what its owner sends (MultiLevelQueue).          *)
THEOREM QueuesAreKept == DequeueSpec => []QueuesInv
  <1>1. DequeueInit => QueuesInv
    BY InitQueues
  <1>2. QueuesInv /\ [DequeueNext]_dequeueVars => QueuesInv'
    BY QueuesStep
  <1> QED BY <1>1, <1>2, PTL DEF DequeueSpec

(* Every queue's census, bits and size agree with its items, and a packet  *)
(* and its retransmission are never both queued, whatever the workers pop  *)
(* and pack (dequeueSessionResponse, PushTXPacket).                        *)
THEOREM QueuesCounted == DequeueSpec => []QueuesAreCounted
  <1>1. QueuesInv => QueuesAreCounted
    BY DEF QueuesInv, QueuesAreCounted, QueueOK, Apart
  <1> QED BY <1>1, QueuesAreKept, PTL

-----------------------------------------------------------------------------
(* What the polls hold, and the turn.                                      *)
Polls == [at : {"idle", "read", "scan", "found"}, turn : 0..(LastStream + 1),
          left : Seq(Ids), id : Ids \cup {0}, packet : Packets \cup {"none"}]
PollsInv ==
  /\ polls \in [PollWorkers -> Polls]
  /\ \A w \in PollWorkers : polls[w].at = "found" => polls[w].id \in Ids
  /\ status \in [Streams -> {"open", "closed", "gone"}]
  /\ turn \in 0..(LastStream + 1) /\ copies \in 0..BlockDuplication
  /\ passed \in [Ids -> Nat]

LEMMA DequeueConstants ==
  /\ LastStream \in Nat /\ LastStream > 0 /\ BlockDuplication \in Nat
  /\ 0 \in 0..(LastStream + 1) /\ 0 \in 0..BlockDuplication
  /\ Streams = 1..LastStream /\ Ids = {-1} \cup 1..LastStream /\ Orphan = -1
  /\ \A id \in Ids : id + 1 \in 0..(LastStream + 1)
  BY DequeueAssumption DEF Streams, Ids, Orphan

LEMMA InitPolls ==
  ASSUME DequeueInit
  PROVE  PollsInv
  <1>1. NoPoll \in Polls /\ NoPoll.at = "idle"
    <2>1. << >> \in Seq(Ids)
      OBVIOUS
    <2> QED BY <2>1, DequeueConstants DEF NoPoll, Polls
  <1> HIDE DEF NoPoll, Polls
  <1> QED BY <1>1, DequeueConstants DEF DequeueInit, PollsInv

(* The candidates are IDs, in whichever order.                             *)
LEMMA TurnKeepsIds ==
  ASSUME NEW s \in Seq(Ids), NEW from
  PROVE  FromTheTurn(s, from) \in Seq(Ids)
  <1> DEFINE before == {id \in Ids : id < from}
  <1>1. Drop(s, before) \in Seq(Ids) /\ Drop(s, Ids \ before) \in Seq(Ids)
    BY Dropped
  <1> HIDE DEF before
  <1>2. Drop(s, before) \o Drop(s, Ids \ before) \in Seq(Ids)
    BY <1>1
  <1> QED BY <1>2 DEF FromTheTurn, before

(* A step that replaces one poll and leaves the rest as it is.             *)
LEMMA OnePollChanges ==
  ASSUME PollsInv, NEW w \in PollWorkers, NEW p \in Polls, polls' = [polls EXCEPT ![w] = p],
         p.at = "found" => p.id \in Ids,
         status' \in [Streams -> {"open", "closed", "gone"}],
         turn' \in 0..(LastStream + 1), copies' \in 0..BlockDuplication,
         passed' \in [Ids -> Nat]
  PROVE  PollsInv'
  <1>1. polls \in [PollWorkers -> Polls]
        /\ \A v \in PollWorkers : polls[v].at = "found" => polls[v].id \in Ids
    BY DEF PollsInv
  <1> HIDE DEF Polls
  <1>2. polls' \in [PollWorkers -> Polls]
        /\ \A v \in PollWorkers : polls'[v] = IF v = w THEN p ELSE polls[v]
    BY <1>1
  <1>3. \A v \in PollWorkers : polls'[v].at = "found" => polls'[v].id \in Ids
    BY <1>1, <1>2
  <1> QED BY <1>2, <1>3 DEF PollsInv

LEMMA ServesCounts ==
  ASSUME PollsInv, NEW served, NEW after, Serves(served, after)
  PROVE  passed' \in [Ids -> Nat]
  BY DEF PollsInv, Serves

LEMMA PollsStep ==
  ASSUME QueuesInv, PollsInv, [DequeueNext]_dequeueVars
  PROVE  PollsInv'
  <1>0. /\ polls \in [PollWorkers -> Polls]
        /\ \A w \in PollWorkers : polls[w].at = "found" => polls[w].id \in Ids
        /\ status \in [Streams -> {"open", "closed", "gone"}]
        /\ turn \in 0..(LastStream + 1) /\ copies \in 0..BlockDuplication
        /\ passed \in [Ids -> Nat]
    BY DEF PollsInv
  <1>1. ASSUME polls' = polls, status' \in [Streams -> {"open", "closed", "gone"}],
               turn' = turn, copies' \in 0..BlockDuplication, passed' \in [Ids -> Nat]
        PROVE  PollsInv'
    BY <1>0, <1>1 DEF PollsInv
  <1>2. ASSUME NEW s \in Streams, Closes(s) PROVE PollsInv'
    <2>1. /\ status' = [status EXCEPT ![s] = "closed"] /\ passed' = [passed EXCEPT ![s] = 0]
          /\ UNCHANGED <<turn, copies, polls>>
      BY <1>2 DEF Closes
    <2> QED BY <1>0, <1>1, <2>1
  <1>3. ASSUME NEW s \in Streams, Removed(s) PROVE PollsInv'
    <2>1. /\ status' = [status EXCEPT ![s] = "gone"]
          /\ UNCHANGED <<turn, copies, polls, passed>>
      BY <1>3 DEF Removed
    <2> QED BY <1>0, <1>1, <2>1
  <1>4. ASSUME NEW s \in Streams, Acknowledged(s) PROVE PollsInv'
    <2>1. /\ passed' = [passed EXCEPT ![s] = IF queues'[s].size = 0 THEN 0 ELSE @]
          /\ UNCHANGED <<status, turn, copies, polls>>
      BY <1>4 DEF Acknowledged
    <2>2. passed' \in [Ids -> Nat]
      BY <1>0, <2>1
    <2> QED BY <1>0, <1>1, <2>1, <2>2
  <1>5. ASSUME NEW w \in PollWorkers, Repeat(w) PROVE PollsInv'
    <2>1. copies > 0 /\ copies' = copies - 1 /\ UNCHANGED <<status, turn, polls>>
      BY <1>5 DEF Repeat
    <2>2. passed' \in [Ids -> Nat]
      BY <1>5, ServesCounts DEF Repeat
    <2>3. copies' \in 0..BlockDuplication
      BY <1>0, <2>1, DequeueConstants
    <2> QED BY <1>0, <1>1, <2>1, <2>2, <2>3
  <1>6. ASSUME NEW w \in PollWorkers, ReadTurn(w) PROVE PollsInv'
    <2> DEFINE p == [NoPoll EXCEPT !.at = "read", !.turn = turn]
    <2>1. polls' = [polls EXCEPT ![w] = p] /\ UNCHANGED <<status, turn, copies, passed>>
      BY <1>6 DEF ReadTurn
    <2>2. NoPoll \in Polls
      BY DequeueConstants DEF NoPoll, Polls
    <2> HIDE DEF NoPoll
    <2>3. p \in Polls /\ p.at # "found"
      BY <1>0, <2>2 DEF Polls
    <2> HIDE DEF p
    <2> QED BY <1>0, <2>1, <2>3, OnePollChanges
  <1>7. ASSUME NEW w \in PollWorkers, Snapshot(w) PROVE PollsInv'
    <2> DEFINE absent == {s \in Streams : status[s] = "gone"} \cup {id \in {Orphan} : ~Waits(id)}
               ids == [i \in 1..(LastStream + 1) |-> IF i = 1 THEN Orphan ELSE i - 1]
               left == FromTheTurn(Drop(ids, absent), polls[w].turn)
               p == [polls[w] EXCEPT !.at = "scan", !.left = left]
    <2>1. polls' = [polls EXCEPT ![w].at = "scan", ![w].left = left]
          /\ UNCHANGED <<status, turn, copies, passed>>
      BY <1>7 DEF Snapshot
    <2>2. ids \in Seq(Ids)
      <3>1. \A i \in 1..(LastStream + 1) : (IF i = 1 THEN Orphan ELSE i - 1) \in Ids
        BY DequeueConstants
      <3>2. LastStream + 1 \in Nat
        BY DequeueConstants
      <3> HIDE DEF Ids
      <3> QED BY <3>1, <3>2
    <2>3. left \in Seq(Ids)
      BY <2>2, Dropped, TurnKeepsIds
    <2> HIDE DEF left
    <2>4. polls' = [polls EXCEPT ![w] = p]
      BY <1>0, <2>1
    <2>5. p \in Polls /\ p.at # "found"
      BY <1>0, <2>3 DEF Polls
    <2> HIDE DEF p, absent, ids
    <2>6. /\ status' \in [Streams -> {"open", "closed", "gone"}] /\ turn' \in 0..(LastStream + 1)
          /\ copies' \in 0..BlockDuplication /\ passed' \in [Ids -> Nat]
      BY <1>0, <2>1
    <2> QED BY <2>4, <2>5, <2>6, OnePollChanges
  <1>8. ASSUME NEW w \in PollWorkers, Scanning(w)
        PROVE  /\ Candidate(w) \in Ids /\ polls[w].at = "scan"
               /\ [polls[w] EXCEPT !.left = Tail(@)] \in Polls
    <2>1. polls[w] \in Polls /\ polls[w].left # << >> /\ polls[w].at = "scan"
      BY <1>0, <1>8 DEF Scanning
    <2>2. polls[w].left \in Seq(Ids)
      BY <2>1 DEF Polls
    <2>3. Head(polls[w].left) \in Ids /\ Tail(polls[w].left) \in Seq(Ids)
      BY <2>1, <2>2
    <2> QED BY <2>1, <2>3 DEF Candidate, Polls
  <1>9. ASSUME NEW w \in PollWorkers, Scanning(w), Onward(w),
               status' \in [Streams -> {"open", "closed", "gone"}],
               UNCHANGED <<turn, copies>>, passed' \in [Ids -> Nat]
        PROVE  PollsInv'
    <2> DEFINE p == [polls[w] EXCEPT !.left = Tail(@)]
    <2>1. polls' = [polls EXCEPT ![w] = p]
      BY <1>0, <1>9 DEF Onward
    <2>2. p \in Polls /\ p.at # "found"
      BY <1>0, <1>8, <1>9 DEF Polls
    <2> HIDE DEF p
    <2> QED BY <1>0, <1>9, <2>1, <2>2, OnePollChanges
  <1>10. ASSUME NEW w \in PollWorkers, Skip(w) PROVE PollsInv'
    BY <1>0, <1>9, <1>10 DEF Skip
  <1>11. ASSUME NEW w \in PollWorkers, DropClosed(w) PROVE PollsInv'
    <2>1. /\ Scanning(w) /\ Onward(w) /\ status' = [status EXCEPT ![Candidate(w)] = "gone"]
          /\ UNCHANGED <<turn, copies, passed>>
      BY <1>11 DEF DropClosed
    <2>2. status' \in [Streams -> {"open", "closed", "gone"}]
      BY <1>0, <2>1
    <2> QED BY <1>0, <1>9, <2>1, <2>2
  <1>12. ASSUME NEW w \in PollWorkers, PopNext(w) PROVE PollsInv'
    <2> DEFINE id == Candidate(w)
               packet == First(queues[id])
               p == [polls[w] EXCEPT !.at = "found", !.id = id, !.packet = packet]
    <2>1. /\ Scanning(w) /\ queues[id].size > 0 /\ passed' = [passed EXCEPT ![id] = 0]
          /\ UNCHANGED <<status, turn, copies>>
          /\ \/ polls' = [polls EXCEPT ![w].at = "found", ![w].id = id, ![w].packet = packet]
             \/ Onward(w)
      BY <1>12 DEF PopNext, Waits
    <2>2. id \in Ids
      BY <1>8, <2>1
    <2>3. packet \in Packets
      BY <2>1, <2>2, PopKeeps DEF QueuesInv
    <2> HIDE DEF id, packet
    <2>4. passed' \in [Ids -> Nat]
      BY <1>0, <2>1
    <2>5. CASE Onward(w)
      BY <1>0, <1>9, <2>1, <2>4, <2>5
    <2>6. CASE polls' = [polls EXCEPT ![w].at = "found", ![w].id = id, ![w].packet = packet]
      <3>1. polls' = [polls EXCEPT ![w] = p]
        BY <1>0, <2>6
      <3>2. polls[w] \in Polls
        BY <1>0
      <3>3. p \in Polls /\ p.id = id
        BY <2>2, <2>3, <3>2 DEF Polls
      <3> HIDE DEF p
      <3> QED BY <1>0, <2>1, <2>2, <2>4, <3>1, <3>3, OnePollChanges
    <2> QED BY <2>1, <2>5, <2>6
  <1>13. NoPoll \in Polls /\ NoPoll.at # "found"
    BY DequeueConstants DEF NoPoll, Polls
  <1>14. ASSUME NEW w \in PollWorkers, Pong(w) PROVE PollsInv'
    <2>1. polls' = [polls EXCEPT ![w] = NoPoll] /\ UNCHANGED <<status, turn, copies, passed>>
      BY <1>14 DEF Pong
    <2> HIDE DEF NoPoll
    <2> QED BY <1>0, <1>13, <2>1, OnePollChanges
  <1>15. ASSUME NEW w \in PollWorkers, Answer(w) PROVE PollsInv'
    <2>1. /\ polls[w].at = "found" /\ turn' = polls[w].id + 1
          /\ polls' = [polls EXCEPT ![w] = NoPoll] /\ status' = status
      BY <1>15 DEF Answer
    <2>2. turn' \in 0..(LastStream + 1)
      <3>1. polls[w].id \in Ids
        BY <1>0, <2>1
      <3> QED BY <2>1, <3>1, DequeueConstants
    <2>3. \E served, after : Serves(served, after)
      <3>1. CASE ~(polls[w].packet \in Packable /\ MaxPackedBlocks > 1)
        BY <1>15, <3>1 DEF Answer
      <3>2. CASE polls[w].packet \in Packable /\ MaxPackedBlocks > 1
        <4> DEFINE found == ToPack(polls[w].id)
                   packed == SubSeq(found, 1, IF Len(found) < MaxPackedBlocks THEN Len(found)
                                              ELSE MaxPackedBlocks - 1)
        <4>1. Serves({polls[w].id} \cup {b.id : b \in ToSet(packed)}, queues')
          BY <1>15, <3>2 DEF Answer
        <4> HIDE DEF packed
        <4>2. PICK served : served = {polls[w].id} \cup {b.id : b \in ToSet(packed)}
          OBVIOUS
        <4>3. Serves(served, queues')
          BY <4>1, <4>2
        <4> QED BY <4>3
      <3> QED BY <3>1, <3>2
    <2>4. passed' \in [Ids -> Nat]
      BY <2>3, ServesCounts
    <2>5. copies' \in 0..BlockDuplication
      <3>1. \/ copies' = copies \/ copies' = 0
            \/ BlockDuplication > 1 /\ copies' = BlockDuplication - 1
        BY <1>15 DEF Answer
      <3> QED BY <1>0, <3>1, DequeueConstants
    <2> HIDE DEF NoPoll
    <2> QED BY <1>0, <1>13, <2>1, <2>2, <2>4, <2>5, OnePollChanges
  <1>16. ASSUME NEW w \in PollWorkers, Poll(w) PROVE PollsInv'
    BY <1>5, <1>6, <1>7, <1>10, <1>11, <1>12, <1>14, <1>15, <1>16 DEF Poll
  <1>17. ASSUME UNCHANGED <<status, turn, copies, polls, passed>> PROVE PollsInv'
    BY <1>0, <1>1, <1>17
  <1>18. CASE UNCHANGED dequeueVars
    BY <1>17, <1>18 DEF dequeueVars
  <1>19. CASE DequeueNext
    BY <1>2, <1>3, <1>4, <1>16, <1>17, <1>19 DEF DequeueNext, Sends, SendsOrphan
  <1> QED BY <1>18, <1>19

(* A queue holds what its owner sends, a worker that has popped a packet   *)
(* knows whose, and the turn stays within a round (sessionRecord).         *)
THEOREM DequeueTypes == DequeueSpec => []DequeueTypeOK
  <1>1. DequeueInit => PollsInv
    BY InitPolls
  <1>2. QueuesInv /\ PollsInv /\ [DequeueNext]_dequeueVars => PollsInv'
    BY PollsStep
  <1>3. QueuesInv /\ PollsInv => DequeueTypeOK
    BY DEF QueuesInv, Sendable, PollsInv, Polls, DequeueTypeOK
  <1> QED BY <1>1, <1>2, <1>3, QueuesAreKept, PTL DEF DequeueSpec

-----------------------------------------------------------------------------
(* How the workers are spread over the places before an ID.                *)

(* A spread is below another that has more workers at a place and as many  *)
(* at every place beyond.                                                  *)
Below(c, d) == \E p \in Places : c[p] < d[p] /\ \A q \in Places : q > p => c[q] = d[q]
Rank(c) == Cardinality({b \in Spread : Below(b, c)})

LEMMA CountsAreNumbers ==
  ASSUME NEW f \in [PollWorkers -> Places]
  PROVE  Counts(f) \in Spread /\ \A p \in Places : Counts(f)[p] \in Nat
  <1>1. ASSUME NEW p \in Places PROVE Cardinality({w \in PollWorkers : f[w] = p}) \in Nat
    <2>1. IsFiniteSet({w \in PollWorkers : f[w] = p})
      BY DequeueAssumption, FS_Subset
    <2> QED BY <2>1, FS_CardinalityType
  <1> QED BY <1>1 DEF Counts, Spread

LEMMA SpreadIsFinite == IsFiniteSet(Spread) /\ Cardinality(Spread) \in Nat
  <1> DEFINE F == [PollWorkers -> Places]
             P == PollWorkers \X Places
             G == [f \in F |-> {x \in P : f[x[1]] = x[2]}]
  <1>1. IsFiniteSet(Places)
    BY DequeueAssumption, FS_Interval DEF Places
  <1>2. IsFiniteSet(SUBSET P)
    BY <1>1, DequeueAssumption, FS_Product, FS_SUBSET
  <1>3. ASSUME NEW f \in F, NEW g \in F, G[f] = G[g] PROVE f = g
    <2>1. ASSUME NEW w \in PollWorkers PROVE f[w] = g[w]
      <3>1. <<w, f[w]>> \in G[f]
        OBVIOUS
      <3>2. <<w, f[w]>> \in G[g]
        BY <1>3, <3>1
      <3> QED BY <3>2
    <2> QED BY <2>1
  <1>4. G \in Injection(F, SUBSET P)
    BY <1>3 DEF Injection, IsInjective
  <1> HIDE DEF G
  <1>5. IsFiniteSet(F)
    BY <1>2, <1>4, FS_Injection
  <1>6. IsFiniteSet({Counts(f) : f \in F})
    <2> DEFINE C == [f \in F |-> Counts(f)]
    <2>1. C \in Surjection(F, {Counts(f) : f \in F})
      BY DEF Surjection
    <2> HIDE DEF C
    <2> QED BY <1>5, <2>1, FS_Surjection
  <1> QED BY <1>6, FS_CardinalityType DEF Spread

LEMMA RankFalls ==
  ASSUME NEW c \in Spread, NEW d \in Spread
  PROVE  /\ Rank(d) \in Nat /\ Rank(d) < Cardinality(Spread)
         /\ Below(c, d) => Rank(c) < Rank(d)
  <1> DEFINE under(e) == {b \in Spread : Below(b, e)}
  <1>0. \A e \in Spread, p \in Places : e[p] \in Nat
    BY CountsAreNumbers DEF Spread
  <1>1. ASSUME NEW e \in Spread
        PROVE  IsFiniteSet(under(e)) /\ Cardinality(under(e)) \in Nat /\ e \notin under(e)
    <2>1. IsFiniteSet(under(e))
      BY SpreadIsFinite, FS_Subset
    <2>2. e \notin under(e)
      BY <1>0 DEF Below
    <2> QED BY <2>1, <2>2, FS_CardinalityType
  <1>2. Cardinality(under(d)) < Cardinality(Spread)
    <2>1. under(d) \subseteq Spread /\ under(d) # Spread
      BY <1>1
    <2> HIDE DEF under
    <2> QED BY <1>1, <2>1, SpreadIsFinite, FS_Subset
  <1>3. ASSUME Below(c, d) PROVE Cardinality(under(c)) < Cardinality(under(d))
    <2>1. ASSUME NEW b \in Spread, Below(b, c) PROVE Below(b, d)
      <3>1. PICK p \in Places : b[p] < c[p] /\ \A q \in Places : q > p => b[q] = c[q]
        BY <2>1 DEF Below
      <3>2. PICK r \in Places : c[r] < d[r] /\ \A q \in Places : q > r => c[q] = d[q]
        BY <1>3 DEF Below
      <3>3. p \in Int /\ r \in Int
        BY DEF Places
      <3>4. CASE p > r
        <4>1. b[p] < d[p]
          BY <3>1, <3>2, <3>4
        <4>2. \A q \in Places : q > p => b[q] = d[q]
          BY <3>1, <3>2, <3>3, <3>4 DEF Places
        <4> QED BY <4>1, <4>2 DEF Below
      <3>5. CASE p <= r
        <4>1. b[r] < d[r]
          <5>1. b[r] <= c[r]
            BY <1>0, <3>1, <3>3, <3>5
          <5> QED BY <1>0, <3>2, <5>1
        <4>2. \A q \in Places : q > r => b[q] = d[q]
          BY <3>1, <3>2, <3>3, <3>5 DEF Places
        <4> QED BY <4>1, <4>2 DEF Below
      <3> QED BY <3>3, <3>4, <3>5
    <2>2. under(c) \subseteq under(d) /\ under(c) # under(d)
      <3>1. c \in under(d)
        BY <1>3
      <3> QED BY <1>1, <2>1, <3>1
    <2> HIDE DEF under
    <2> QED BY <1>1, <2>2, FS_Subset
  <1> QED BY <1>1, <1>2, <1>3 DEF Rank

(* Workers that move go to places nearer than one of them has left.        *)
LEMMA NearerIsBelow ==
  ASSUME NEW f \in [PollWorkers -> Places], NEW g \in [PollWorkers -> Places],
         NEW w \in PollWorkers, g[w] # f[w],
         \A v \in PollWorkers : g[v] # f[v] => g[v] < f[w]
  PROVE  Below(Counts(g), Counts(f))
  <1> DEFINE moved == {v \in PollWorkers : g[v] # f[v]}
             N == {LastStream - f[v] : v \in moved}
  <1>0. /\ LastStream \in Nat /\ \A p \in Places : p \in Int /\ p >= 0 /\ p <= LastStream
        /\ \A v \in PollWorkers : f[v] \in Places /\ g[v] \in Places
    BY DequeueAssumption DEF Places
  <1>1. N \in SUBSET Nat /\ N # {}
    BY <1>0
  <1>2. PICK m \in N : \A n \in N : m <= n
    <2> HIDE DEF N
    <2> QED BY <1>1, LeastNumber
  <1>3. PICK u \in PollWorkers : g[u] # f[u] /\ \A v \in PollWorkers : g[v] # f[v] => f[v] <= f[u]
    <2>1. PICK u \in moved : m = LastStream - f[u]
      OBVIOUS
    <2>2. ASSUME NEW v \in moved PROVE f[v] <= f[u]
      <3>1. LastStream - f[v] \in N
        OBVIOUS
      <3>2. m <= LastStream - f[v]
        BY <1>2, <3>1
      <3> HIDE DEF N
      <3> QED BY <1>0, <2>1, <3>2
    <2> QED BY <2>1, <2>2
  <1> HIDE DEF N, moved
  <1> DEFINE p == f[u]
             at(h, q) == {v \in PollWorkers : h[v] = q}
  <1>4. p \in Places /\ f[w] <= p
    BY <1>0, <1>3
  <1>5. \A v \in PollWorkers : g[v] # f[v] => g[v] < p /\ f[v] <= p
    BY <1>0, <1>3, <1>4
  <1> HIDE DEF p
  <1>6. ASSUME NEW q \in Places, q > p PROVE at(g, q) = at(f, q)
    BY <1>0, <1>4, <1>5, <1>6
  <1>7. at(g, p) \subseteq at(f, p) /\ u \in at(f, p) /\ u \notin at(g, p)
    BY <1>0, <1>3, <1>4, <1>5 DEF p
  <1>8. \A h, q : IsFiniteSet(at(h, q)) /\ Cardinality(at(h, q)) \in Nat
    BY DequeueAssumption, FS_Subset, FS_CardinalityType
  <1>9. Cardinality(at(g, p)) < Cardinality(at(f, p))
    <2> HIDE DEF at
    <2> QED BY <1>7, <1>8, FS_Subset
  <1> QED BY <1>4, <1>6, <1>9 DEF Below, Counts

-----------------------------------------------------------------------------
(* How far an ID is from having its turn.                                  *)

Place(id) == IF id = Orphan THEN 0 ELSE id
FirstPlace(t) == IF t = 0 THEN 1 ELSE IF t = LastStream + 1 THEN 0 ELSE t
Distance(t, id) ==
  Place(id) - FirstPlace(t) + (IF Place(id) >= FirstPlace(t) THEN 0 ELSE LastStream + 1)

LEMMA DistanceIsPlace ==
  ASSUME NEW t \in 0..(LastStream + 1), NEW id \in Ids
  PROVE  Distance(t, id) \in Places
  BY DequeueConstants DEF Distance, Place, FirstPlace, Places

(* Whoever has had its turn is last, and the others have come nearer.      *)
LEMMA TurnComesNearer ==
  ASSUME NEW t \in 0..(LastStream + 1), NEW id \in Ids, NEW other \in Ids, id # other
  PROVE  /\ Distance(other + 1, id) < LastStream
         /\ Distance(t, other) < Distance(t, id) => Distance(other + 1, id) < Distance(t, id)
  BY DequeueConstants DEF Distance, Place, FirstPlace

(* The IDs from the turn on are nearer than those before it.               *)
LEMMA OrderOfTurns ==
  ASSUME NEW t \in 0..(LastStream + 1), NEW id \in Ids, NEW other \in Ids,
         \/ id >= t /\ other < t
         \/ id < other /\ id >= t /\ other >= t
         \/ id < other /\ id < t /\ other < t
  PROVE  Distance(t, id) < Distance(t, other)
  BY DequeueConstants DEF Distance, Place, FirstPlace

Nearer(s, t) == \A i, j \in DOMAIN s : i < j => Distance(t, s[i]) < Distance(t, s[j])

LEMMA ScanIsInOrder ==
  ASSUME NEW s \in Seq(Ids), Increasing(s), NEW t \in 0..(LastStream + 1)
  PROVE  /\ Nearer(FromTheTurn(s, t), t)
         /\ ToSet(FromTheTurn(s, t)) = ToSet(s)
  <1> DEFINE before == {id \in Ids : id < t}
             a == Drop(s, before)
             b == Drop(s, Ids \ before)
  <1>1. /\ a \in Seq(Ids) /\ b \in Seq(Ids) /\ Increasing(a) /\ Increasing(b)
        /\ ToSet(a) = ToSet(s) \ before /\ ToSet(b) = ToSet(s) \cap before
    <2>1. ToSet(s) \subseteq Ids
      BY DEF ToSet
    <2>2. ToSet(s) \ (Ids \ before) = ToSet(s) \cap before
      BY <2>1
    <2> HIDE DEF before
    <2> QED BY <2>2, Dropped
  <1>2. /\ \A i \in 1..Len(a) : a[i] \in Ids /\ a[i] >= t
        /\ \A i \in 1..Len(b) : b[i] \in Ids /\ b[i] < t
    <2>1. /\ \A i \in 1..Len(a) : a[i] \in Ids /\ a[i] \notin before
          /\ \A i \in 1..Len(b) : b[i] \in Ids /\ b[i] \in before
      <3> HIDE DEF a, b, before
      <3> QED BY <1>1 DEF ToSet
    <2>2. \A id \in Ids : id \in Int
      BY DEF Ids, Orphan, Streams
    <2> HIDE DEF a, b
    <2> QED BY <2>1, <2>2
  <1>3. FromTheTurn(s, t) = a \o b
    BY DEF FromTheTurn
  <1>4. ToSet(s) = ToSet(a) \cup ToSet(b)
    BY <1>1
  <1> HIDE DEF a, b
  <1> DEFINE c == a \o b
  <1>5. /\ Len(a) \in Nat /\ Len(b) \in Nat /\ DOMAIN c = 1..(Len(a) + Len(b))
        /\ \A i \in 1..Len(a) : c[i] = a[i]
        /\ \A i \in Len(a) + 1..Len(a) + Len(b) : c[i] = b[i - Len(a)]
        /\ \A i \in 1..Len(b) : c[i + Len(a)] = b[i]
        /\ DOMAIN a = 1..Len(a) /\ DOMAIN b = 1..Len(b)
    BY <1>1
  <1> HIDE DEF c
  <1>6. ToSet(c) = ToSet(a) \cup ToSet(b)
    <2>1. ASSUME NEW r \in ToSet(c) PROVE r \in ToSet(a) \cup ToSet(b)
      <3>1. PICK k \in DOMAIN c : r = c[k]
        BY DEF ToSet
      <3>2. CASE k <= Len(a)
        BY <1>5, <3>1, <3>2 DEF ToSet
      <3>3. CASE k > Len(a)
        <4>1. k - Len(a) \in DOMAIN b /\ r = b[k - Len(a)]
          BY <1>5, <3>1, <3>3
        <4> QED BY <4>1 DEF ToSet
      <3> QED BY <1>5, <3>2, <3>3
    <2>2. \A r \in ToSet(a) : r \in ToSet(c)
      BY <1>5 DEF ToSet
    <2>3. \A i \in 1..Len(b) : i + Len(a) \in DOMAIN c /\ b[i] = c[i + Len(a)]
      BY <1>5
    <2>4. ASSUME NEW r \in ToSet(b) PROVE r \in ToSet(c)
      <3>1. PICK k \in DOMAIN b : r = b[k]
        BY DEF ToSet
      <3>2. k + Len(a) \in DOMAIN c /\ c[k + Len(a)] = r
        BY <1>5, <2>3, <3>1
      <3> QED BY <3>2 DEF ToSet
    <2> QED BY <2>1, <2>2, <2>4
  <1>7. ASSUME NEW i \in DOMAIN c, NEW j \in DOMAIN c, i < j
        PROVE  Distance(t, c[i]) < Distance(t, c[j])
    <2>1. CASE j <= Len(a)
      <3>1. a[i] < a[j] /\ c[i] = a[i] /\ c[j] = a[j]
            /\ i \in 1..Len(a) /\ j \in 1..Len(a)
        BY <1>1, <1>5, <1>7, <2>1 DEF Increasing
      <3>2. /\ a[i] \in Ids /\ a[j] \in Ids
            /\ a[i] >= t /\ a[j] >= t
        BY <1>2, <3>1
      <3> QED BY <3>1, <3>2, OrderOfTurns
    <2>2. CASE i > Len(a)
      <3>1. /\ i - Len(a) \in 1..Len(b) /\ j - Len(a) \in 1..Len(b) /\ i - Len(a) < j - Len(a)
            /\ c[i] = b[i - Len(a)] /\ c[j] = b[j - Len(a)]
        BY <1>5, <1>7, <2>2
      <3>2. b[i - Len(a)] < b[j - Len(a)]
        BY <1>1, <1>5, <3>1 DEF Increasing
      <3> QED BY <1>2, <3>1, <3>2, OrderOfTurns
    <2>3. CASE i <= Len(a) /\ j > Len(a)
      <3>1. /\ i \in 1..Len(a) /\ j - Len(a) \in 1..Len(b)
            /\ c[i] = a[i] /\ c[j] = b[j - Len(a)]
        BY <1>5, <1>7, <2>3
      <3> QED BY <1>2, <3>1, OrderOfTurns
    <2> QED BY <1>5, <2>1, <2>2, <2>3
  <1> QED BY <1>3, <1>4, <1>6, <1>7 DEF Nearer, c

-----------------------------------------------------------------------------
(* What is left of an ID's patience.                                       *)

Due(p, id) ==
  /\ p.at = "scan" => id \in ToSet(p.left)
  /\ p.at = "found" => Distance(p.turn, p.id) < Distance(p.turn, id)
Far(p, t, id) ==
  IF Due(p, id) THEN Distance(IF p.at = "idle" THEN t ELSE p.turn, id) ELSE LastStream
Reach(id) == [w \in PollWorkers |-> Far(polls[w], turn, id)]

InOrder == \A w \in PollWorkers : polls[w].at = "scan" => Nearer(polls[w].left, polls[w].turn)
PassedWait == \A id \in Ids : passed[id] > 0 => Waits(id) /\ Lives(id)
Patience(spread) == BlockDuplication * (Cardinality(Spread) - Rank(spread))
Patient == \A id \in Ids : passed[id] + copies < Patience(Counts(Reach(id)))

LEMMA PatienceLasts ==
  ASSUME NEW f \in [PollWorkers -> Places], NEW g \in [PollWorkers -> Places]
  PROVE  /\ Patience(Counts(f)) \in Int /\ Patience(Counts(f)) >= BlockDuplication
         /\ Patience(Counts(f)) <= MaxPassed
         /\ Below(Counts(g), Counts(f)) => Patience(Counts(g)) >= Patience(Counts(f)) + BlockDuplication
  <1> DEFINE n == Cardinality(Spread)
             r == Rank(Counts(f))
             q == Rank(Counts(g))
  <1>1. /\ BlockDuplication \in Nat /\ n \in Nat /\ r \in Nat /\ r < n /\ q \in Nat /\ q < n
        /\ Below(Counts(g), Counts(f)) => q < r
    BY CountsAreNumbers, SpreadIsFinite, RankFalls, DequeueAssumption
  <1>2. /\ Patience(Counts(f)) = BlockDuplication * (n - r)
        /\ Patience(Counts(g)) = BlockDuplication * (n - q)
        /\ MaxPassed = BlockDuplication * n
    BY DEF Patience, MaxPassed
  <1> HIDE DEF n, r, q
  <1>3. \A D, k, l \in Nat : k > l => D * k >= D * l + D
    <2> SUFFICES ASSUME NEW D \in Nat, NEW k \in Nat, NEW l \in Nat, k > l
                 PROVE  D * k >= D * l + D
      OBVIOUS
    <2>1. k - l - 1 \in Nat /\ D * (k - l - 1) \in Nat
      OBVIOUS
    <2>2. D * k = D * l + D + D * (k - l - 1)
      BY <2>1
    <2>3. D * k \in Nat /\ D * l \in Nat
      OBVIOUS
    <2> QED BY <2>1, <2>2, <2>3
  <1>4. /\ n - r \in Nat /\ n - q \in Nat /\ n - r > 0 /\ BlockDuplication * 0 = 0
        /\ BlockDuplication * (n - r) \in Nat /\ BlockDuplication * (n - q) \in Nat
        /\ BlockDuplication * n \in Nat
    BY <1>1
  <1>5. BlockDuplication * (n - r) >= BlockDuplication
    BY <1>1, <1>3, <1>4
  <1>6. BlockDuplication * (n - r) <= BlockDuplication * n
    <2>1. CASE r = 0
      BY <1>1, <1>4, <2>1
    <2>2. CASE r > 0
      <3>1. n > n - r
        BY <1>1, <2>2
      <3>2. BlockDuplication * n >= BlockDuplication * (n - r) + BlockDuplication
        BY <1>1, <1>3, <1>4, <3>1
      <3> QED BY <1>1, <1>4, <3>2
    <2> QED BY <1>1, <2>1, <2>2
  <1>7. q < r => BlockDuplication * (n - q) >= BlockDuplication * (n - r) + BlockDuplication
    <2>1. q < r => n - q > n - r
      BY <1>1
    <2> QED BY <1>1, <1>3, <1>4, <2>1
  <1> QED BY <1>1, <1>2, <1>4, <1>5, <1>6, <1>7

(* A worker that is no farther than it was costs no patience.              *)
LEMMA NoFarther ==
  ASSUME NEW f \in [PollWorkers -> Places], NEW g \in [PollWorkers -> Places],
         NEW w \in PollWorkers, g[w] <= f[w], \A v \in PollWorkers : v # w => g[v] = f[v]
  PROVE  Patience(Counts(g)) >= Patience(Counts(f))
  <1>1. CASE g[w] = f[w]
    <2>1. \A v \in PollWorkers : g[v] = f[v]
      BY <1>1
    <2>2. g = f
      BY <2>1
    <2> QED BY <2>2, PatienceLasts
  <1>2. CASE g[w] # f[w]
    <2>1. f[w] \in Int /\ g[w] \in Int
      BY DEF Places
    <2>2. \A v \in PollWorkers : g[v] # f[v] => g[v] < f[w]
      BY <1>2, <2>1
    <2>3. Below(Counts(g), Counts(f))
      BY <1>2, <2>2, NearerIsBelow
    <2> QED BY <2>3, PatienceLasts, DequeueConstants
  <1> QED BY <1>1, <1>2

LEMMA FarIsPlace ==
  ASSUME NEW p \in Polls, NEW t \in 0..(LastStream + 1), NEW id \in Ids
  PROVE  Far(p, t, id) \in Places /\ Far(p, t, id) <= LastStream
  <1>1. p.turn \in 0..(LastStream + 1)
    BY DEF Polls
  <1>2. LastStream \in Places /\ \A d \in Places : d <= LastStream
    BY DequeueConstants DEF Places
  <1>3. Distance(IF p.at = "idle" THEN t ELSE p.turn, id) \in Places
    BY <1>1, DistanceIsPlace
  <1> QED BY <1>2, <1>3 DEF Far

LEMMA ReachIsPlace ==
  ASSUME PollsInv, NEW id \in Ids
  PROVE  Reach(id) \in [PollWorkers -> Places]
  <1>1. \A w \in PollWorkers : Far(polls[w], turn, id) \in Places
    BY FarIsPlace DEF PollsInv
  <1> QED BY <1>1 DEF Reach

LEMMA InitBypass ==
  ASSUME DequeueInit
  PROVE  copies < BlockDuplication /\ InOrder /\ PassedWait /\ Patient
  <1>1. PollsInv
    BY InitPolls
  <1>2. /\ copies = 0 /\ \A id \in Ids : passed[id] = 0
        /\ \A w \in PollWorkers : polls[w].at = "idle"
    BY DEF DequeueInit, NoPoll
  <1>3. ASSUME NEW id \in Ids PROVE Patience(Counts(Reach(id))) > 0
    BY <1>1, ReachIsPlace, PatienceLasts, DequeueAssumption
  <1> QED BY <1>2, <1>3, DequeueAssumption DEF InOrder, PassedWait, Patient

-----------------------------------------------------------------------------
(* Who is passed over has a packet.                                        *)

LEMMA SizeIfAny ==
  ASSUME NEW q, QueueOK(q)
  PROVE  q.size \in Nat /\ (q.census # {} => q.size > 0)
  <1>1. IsFiniteSet(q.census) /\ q.size = Cardinality(q.census) /\ q.size \in Nat
    BY QueueFields
  <1> QED BY <1>1, FS_EmptySet

(* Whoever an answer passes over waits and lives.                          *)
LEMMA AnswerPasses ==
  ASSUME PollsInv, QueuesInv', status' = status, NEW served, Serves(served, queues'),
         NEW id \in Ids, passed'[id] > 0
  PROVE  /\ queues'[id].size > 0 /\ Lives(id) /\ Lives(id)'
         /\ passed'[id] = passed[id] + 1 /\ id \notin served
  <1>1. passed'[id] = IF id \in served \/ queues'[id].size = 0 \/ ~Lives(id) THEN 0
                     ELSE passed[id] + 1
    BY DEF Serves
  <1>2. /\ id \notin served /\ queues'[id].size # 0 /\ Lives(id) /\ passed'[id] = passed[id] + 1
    BY <1>1
  <1>3. queues'[id].size \in Nat
    <2>1. QueueOK(queues'[id])
      BY DEF QueuesInv, QueueOK, QueueIsCounted
    <2> QED BY <2>1, SizeIfAny
  <1> QED BY <1>2, <1>3 DEF Lives

LEMMA AnswerServes ==
  ASSUME NEW w \in PollWorkers, Answer(w)
  PROVE  /\ \E served : Serves(served, queues') /\ polls[w].id \in served
         /\ polls[w].at = "found" /\ turn' = polls[w].id + 1
         /\ polls' = [polls EXCEPT ![w] = NoPoll] /\ status' = status
         /\ \/ copies' = copies \/ copies' = 0
            \/ copies' = BlockDuplication - 1
  <1>1. /\ polls[w].at = "found" /\ turn' = polls[w].id + 1
        /\ polls' = [polls EXCEPT ![w] = NoPoll] /\ status' = status
        /\ \/ copies' = copies \/ copies' = 0
           \/ copies' = BlockDuplication - 1
    BY DEF Answer
  <1>2. CASE ~(polls[w].packet \in Packable /\ MaxPackedBlocks > 1)
    <2>1. Serves({polls[w].id}, queues) /\ queues' = queues
      BY <1>2 DEF Answer
    <2>2. Serves({polls[w].id}, queues')
      BY <2>1
    <2> QED BY <1>1, <2>2
  <1>3. CASE polls[w].packet \in Packable /\ MaxPackedBlocks > 1
    <2> DEFINE found == ToPack(polls[w].id)
               packed == SubSeq(found, 1, IF Len(found) < MaxPackedBlocks THEN Len(found)
                                          ELSE MaxPackedBlocks - 1)
    <2>1. Serves({polls[w].id} \cup {b.id : b \in ToSet(packed)}, queues')
      BY <1>3 DEF Answer
    <2> HIDE DEF packed
    <2>2. PICK served : served = {polls[w].id} \cup {b.id : b \in ToSet(packed)}
      OBVIOUS
    <2>3. Serves(served, queues') /\ polls[w].id \in served
      BY <2>1, <2>2
    <2> QED BY <1>1, <2>3
  <1> QED BY <1>2, <1>3

LEMMA PassedWaitStep ==
  ASSUME QueuesInv, PollsInv, QueuesInv', PassedWait, [DequeueNext]_dequeueVars
  PROVE  PassedWait'
  <1>0. /\ queues = [id \in Ids |-> queues[id]] /\ passed \in [Ids -> Nat]
        /\ status \in [Streams -> {"open", "closed", "gone"}]
        /\ Orphan \in Ids /\ Orphan \notin Streams /\ Streams \subseteq Ids
        /\ \A id \in Ids : id # Orphan => id \in Streams
        /\ \A id \in Ids : passed[id] > 0 => queues[id].size > 0 /\ Lives(id)
        /\ \A id \in Ids : /\ queues'[id].size \in Nat
                           /\ queues'[id].census # {} => queues'[id].size > 0
    <2>1. ASSUME NEW id \in Ids
          PROVE  /\ queues'[id].size \in Nat
                 /\ queues'[id].census # {} => queues'[id].size > 0
      <3>1. QueueOK(queues'[id])
        BY DEF QueuesInv, QueueOK, QueueIsCounted
      <3> QED BY <3>1, SizeIfAny
    <2>2. /\ Orphan \in Ids /\ Orphan \notin Streams /\ Streams \subseteq Ids
          /\ \A id \in Ids : id # Orphan => id \in Streams
      BY DequeueConstants DEF Ids
    <2> QED BY <2>1, <2>2 DEF QueuesInv, PollsInv, PassedWait, Waits
  <1>1. ASSUME \A id \in Ids : passed'[id] > 0 =>
                 queues'[id].size > 0 /\ (id = Orphan \/ status'[id] = "open")
        PROVE  PassedWait'
    BY <1>1 DEF PassedWait, Waits, Lives
  <1>2. \A id \in Ids : passed[id] > 0 =>
          queues[id].size > 0 /\ (id = Orphan \/ status[id] = "open")
    BY <1>0 DEF Lives
  <1>3. ASSUME NEW s \in Streams, Closes(s) PROVE PassedWait'
    <2>1. /\ status' = [status EXCEPT ![s] = "closed"] /\ passed' = [passed EXCEPT ![s] = 0]
          /\ queues' = queues
      BY <1>3 DEF Closes
    <2>2. /\ passed'[s] = 0
          /\ \A id \in Ids : id # s => passed'[id] = passed[id]
          /\ \A id \in Streams : id # s => status'[id] = status[id]
      BY <1>0, <2>1
    <2> QED BY <1>0, <1>1, <1>2, <2>1, <2>2
  <1>4. ASSUME NEW s \in Streams, Removed(s) PROVE PassedWait'
    <2>1. /\ status[s] = "closed" /\ status' = [status EXCEPT ![s] = "gone"]
          /\ UNCHANGED <<queues, passed>>
      BY <1>4 DEF Removed
    <2>2. \A id \in Streams : id # s => status'[id] = status[id]
      BY <1>0, <2>1
    <2>3. s # Orphan /\ ~(passed[s] > 0)
      BY <1>0, <1>2, <2>1
    <2> QED BY <1>0, <1>1, <1>2, <2>1, <2>2, <2>3
  <1>5. ASSUME NEW s \in Ids, queues'[s].size > 0, \A id \in Ids : id # s => queues'[id] = queues[id],
               UNCHANGED <<status, passed>>
        PROVE  PassedWait'
    BY <1>1, <1>2, <1>5
  <1>6. ASSUME NEW s \in Streams, NEW p \in StreamPackets[s], Sends(s, p) PROVE PassedWait'
    <2>1. queues' = [queues EXCEPT ![s] = PushTXPacket(queues[s], p)] /\ UNCHANGED <<status, passed>>
      BY <1>6 DEF Sends
    <2>2. queues'[s] = PushTXPacket(queues[s], p) /\ \A id \in Ids : id # s => queues'[id] = queues[id]
      BY <1>0, <2>1
    <2>3. p \in DOMAIN LevelOf /\ QueueOK(queues[s]) /\ Apart(queues[s])
      BY <1>0, PacketsAssumption DEF QueuesInv, Streams
    <2>4. queues'[s].census # {}
      BY <2>2, <2>3, PushTXKeeps
    <2>5. queues'[s].size > 0
      BY <1>0, <2>4
    <2> QED BY <1>0, <1>5, <2>1, <2>2, <2>5
  <1>7. ASSUME NEW p \in OrphanPackets, SendsOrphan(p) PROVE PassedWait'
    <2>1. queues' = [queues EXCEPT ![Orphan] = Push(queues[Orphan], 0, p)] /\ UNCHANGED <<status, passed>>
      BY <1>7 DEF SendsOrphan
    <2>2. queues'[Orphan] = Push(queues[Orphan], 0, p)
          /\ \A id \in Ids : id # Orphan => queues'[id] = queues[id]
      BY <1>0, <2>1
    <2>3. p \in Packets /\ 0 \in Levels /\ QueueOK(queues[Orphan])
      BY <1>0 DEF Packets, Levels, QueuesInv
    <2>4. queues'[Orphan].census # {}
      <3>1. Push(queues[Orphan], 0, p).census = queues[Orphan].census \cup {p}
        BY <2>3, PushKeeps
      <3> HIDE DEF Push
      <3> QED BY <2>2, <3>1
    <2>5. queues'[Orphan].size > 0
      BY <1>0, <2>4
    <2> QED BY <1>0, <1>5, <2>1, <2>2, <2>5
  <1>8. ASSUME NEW s \in Streams, Acknowledged(s) PROVE PassedWait'
    <2>1. /\ queues' = [queues EXCEPT ![s] = RemoveQueuedData(queues[s])] /\ status' = status
          /\ passed' = [passed EXCEPT ![s] = IF queues'[s].size = 0 THEN 0 ELSE passed[s]]
      BY <1>8 DEF Acknowledged
    <2>2. /\ \A id \in Ids : id # s => queues'[id] = queues[id] /\ passed'[id] = passed[id]
          /\ passed'[s] = IF queues'[s].size = 0 THEN 0 ELSE passed[s]
      <3> HIDE DEF RemoveQueuedData
      <3> QED BY <1>0, <2>1
    <2> QED BY <1>0, <1>1, <1>2, <2>1, <2>2
  <1>9. ASSUME NEW served, Serves(served, queues'), status' = status PROVE PassedWait'
    <2>1. \A id \in Ids : passed'[id] > 0 => queues'[id].size > 0 /\ Lives(id)'
      BY <1>9, AnswerPasses
    <2> QED BY <1>1, <1>9, <2>1 DEF Lives
  <1>10. ASSUME NEW w \in PollWorkers, Repeat(w) PROVE PassedWait'
    <2>1. Serves({}, queues) /\ queues' = queues /\ status' = status
      BY <1>10 DEF Repeat
    <2>2. Serves({}, queues')
      BY <2>1
    <2> QED BY <1>9, <2>1, <2>2
  <1>11. ASSUME NEW w \in PollWorkers, Answer(w) PROVE PassedWait'
    BY <1>9, <1>11, AnswerServes
  <1>12. ASSUME NEW w \in PollWorkers, DropClosed(w) PROVE PassedWait'
    <2> DEFINE c == Candidate(w)
    <2>1. /\ ~Lives(c) /\ queues' = [queues EXCEPT ![c] = NewQueue]
          /\ status' = [status EXCEPT ![c] = "gone"] /\ passed' = passed
      BY <1>12 DEF DropClosed
    <2> HIDE DEF c
    <2>2. \A id \in Ids : id # c => queues'[id] = queues[id]
      BY <1>0, <2>1
    <2>3. \A id \in Streams : id # c => status'[id] = status[id]
      BY <1>0, <2>1
    <2>4. c \in Ids => ~(passed[c] > 0)
      BY <1>0, <2>1
    <2> QED BY <1>0, <1>1, <1>2, <2>1, <2>2, <2>3, <2>4
  <1>13. ASSUME NEW w \in PollWorkers, PopNext(w) PROVE PassedWait'
    <2> DEFINE c == Candidate(w)
    <2>1. /\ queues' = [queues EXCEPT ![c] = Pop(queues[c])]
          /\ passed' = [passed EXCEPT ![c] = 0] /\ status' = status
      BY <1>13 DEF PopNext
    <2> HIDE DEF c, Pop
    <2>2. /\ \A id \in Ids : id # c => queues'[id] = queues[id] /\ passed'[id] = passed[id]
          /\ c \in Ids => passed'[c] = 0
      BY <1>0, <2>1
    <2> QED BY <1>0, <1>1, <1>2, <2>1, <2>2
  <1>14. ASSUME UNCHANGED <<queues, status, passed>> PROVE PassedWait'
    BY <1>1, <1>2, <1>14
  <1>15. ASSUME NEW w \in PollWorkers, Poll(w) PROVE PassedWait'
    <2>1. CASE ReadTurn(w) \/ Snapshot(w) \/ Skip(w) \/ Pong(w)
      BY <1>14, <2>1 DEF ReadTurn, Snapshot, Skip, Pong
    <2> QED BY <1>10, <1>11, <1>12, <1>13, <1>15, <2>1 DEF Poll
  <1>16. CASE UNCHANGED dequeueVars
    BY <1>14, <1>16 DEF dequeueVars
  <1>17. CASE DequeueNext
    BY <1>3, <1>4, <1>6, <1>7, <1>8, <1>15, <1>17 DEF DequeueNext
  <1> QED BY <1>16, <1>17

-----------------------------------------------------------------------------
(* A poll does not get farther from whoever it passes over.                *)

LEMMA HeadIsNearest ==
  ASSUME NEW s \in Seq(Ids), s # << >>, NEW t
  PROVE  /\ ToSet(s) = {Head(s)} \cup ToSet(Tail(s))
         /\ Nearer(s, t) => /\ Nearer(Tail(s), t)
                            /\ \A id \in ToSet(Tail(s)) : Distance(t, Head(s)) < Distance(t, id)
  <1> DEFINE r == Tail(s)
  <1>1. /\ Len(s) \in Nat /\ Len(s) > 0 /\ Len(r) = Len(s) - 1 /\ Head(s) = s[1]
        /\ DOMAIN s = 1..Len(s) /\ DOMAIN r = 1..Len(r)
        /\ \A i \in 1..Len(r) : r[i] = s[i + 1]
    OBVIOUS
  <1> HIDE DEF r
  <1>2. ToSet(s) = {Head(s)} \cup ToSet(r)
    <2>1. ASSUME NEW i \in DOMAIN s PROVE s[i] \in {Head(s)} \cup ToSet(r)
      <3>1. CASE i = 1
        BY <1>1, <3>1
      <3>2. CASE i # 1
        <4>1. i - 1 \in DOMAIN r /\ r[i - 1] = s[i]
          BY <1>1, <3>2
        <4> QED BY <4>1 DEF ToSet
      <3> QED BY <3>1, <3>2
    <2>2. ASSUME NEW i \in DOMAIN r PROVE r[i] \in ToSet(s)
      <3>1. i + 1 \in DOMAIN s /\ r[i] = s[i + 1]
        BY <1>1
      <3> QED BY <3>1 DEF ToSet
    <2>3. Head(s) \in ToSet(s)
      BY <1>1 DEF ToSet
    <2> QED BY <2>1, <2>2, <2>3 DEF ToSet
  <1>3. ASSUME Nearer(s, t), NEW i \in DOMAIN r
        PROVE  /\ Distance(t, Head(s)) < Distance(t, r[i])
               /\ \A j \in DOMAIN r : i < j => Distance(t, r[i]) < Distance(t, r[j])
    <2>1. \A k, j \in DOMAIN s : k < j => Distance(t, s[k]) < Distance(t, s[j])
      BY <1>3 DEF Nearer
    <2>2. i + 1 \in DOMAIN s /\ 1 \in DOMAIN s /\ 1 < i + 1 /\ r[i] = s[i + 1] /\ Head(s) = s[1]
      BY <1>1
    <2>3. \A j \in DOMAIN r : i < j => j + 1 \in DOMAIN s /\ i + 1 < j + 1 /\ r[j] = s[j + 1]
      BY <1>1
    <2> HIDE DEF Distance
    <2> QED BY <2>1, <2>2, <2>3
  <1> QED BY <1>2, <1>3 DEF Nearer, ToSet, r

(* The candidates of a poll: all that wait and are not gone, in order.     *)
LEMMA SnapshotIsInOrder ==
  ASSUME PollsInv, NEW w \in PollWorkers, Snapshot(w)
  PROVE  \E left \in Seq(Ids) :
           /\ polls' = [polls EXCEPT ![w] = [polls[w] EXCEPT !.at = "scan", !.left = left]]
           /\ Nearer(left, polls[w].turn)
           /\ \A id \in Ids : Waits(id) /\ Lives(id) => id \in ToSet(left)
  <1> DEFINE absent == {s \in Streams : status[s] = "gone"} \cup {id \in {Orphan} : ~Waits(id)}
             ids == [i \in 1..(LastStream + 1) |-> IF i = 1 THEN Orphan ELSE i - 1]
             left == FromTheTurn(Drop(ids, absent), polls[w].turn)
  <1>1. /\ polls \in [PollWorkers -> Polls] /\ polls[w].turn \in 0..(LastStream + 1)
    BY DEF PollsInv, Polls
  <1>2. polls' = [polls EXCEPT ![w].at = "scan", ![w].left = left]
    BY DEF Snapshot
  <1>3. ids \in Seq(Ids) /\ Increasing(ids) /\ \A id \in Ids : id \in ToSet(ids)
    <2>1. /\ \A i \in 1..(LastStream + 1) : (IF i = 1 THEN Orphan ELSE i - 1) \in Ids
          /\ LastStream + 1 \in Nat
      BY DequeueConstants
    <2>2. ids \in Seq(Ids)
      <3> HIDE DEF Ids
      <3> QED BY <2>1
    <2>3. Increasing(ids)
      BY DequeueConstants DEF Increasing
    <2>4. ASSUME NEW id \in Ids PROVE id \in ToSet(ids)
      <3>1. CASE id = Orphan
        <4>1. 1 \in DOMAIN ids /\ ids[1] = id
          BY <3>1, DequeueConstants
        <4> HIDE DEF ids
        <4> QED BY <4>1 DEF ToSet
      <3>2. CASE id # Orphan
        <4>1. id + 1 \in DOMAIN ids /\ ids[id + 1] = id
          BY <3>2, DequeueConstants
        <4> HIDE DEF ids
        <4> QED BY <4>1 DEF ToSet
      <3> QED BY <3>1, <3>2
    <2> QED BY <2>2, <2>3, <2>4
  <1> HIDE DEF ids
  <1>4. /\ Drop(ids, absent) \in Seq(Ids) /\ Increasing(Drop(ids, absent))
        /\ ToSet(Drop(ids, absent)) = ToSet(ids) \ absent
    <2> HIDE DEF absent
    <2> QED BY <1>3, Dropped
  <1>5. /\ left \in Seq(Ids) /\ Nearer(left, polls[w].turn) /\ ToSet(left) = ToSet(ids) \ absent
    <2> HIDE DEF absent
    <2> QED BY <1>1, <1>4, ScanIsInOrder, TurnKeepsIds
  <1>6. \A id \in Ids : Waits(id) /\ Lives(id) => id \notin absent
    BY DEF Lives, Streams, Orphan
  <1> HIDE DEF left, absent
  <1>7. polls' = [polls EXCEPT ![w] = [polls[w] EXCEPT !.at = "scan", !.left = left]]
    BY <1>1, <1>2
  <1> QED BY <1>3, <1>5, <1>6, <1>7

(* A poll that has not answered yet.                                       *)
Moves(w, p) ==
  /\ polls' = [polls EXCEPT ![w] = p] /\ UNCHANGED <<turn, copies>>
  /\ p.at = "scan" => Nearer(p.left, p.turn)
  /\ \A id \in Ids : passed'[id] > 0 =>
       passed'[id] = passed[id] /\ Far(p, turn, id) <= Far(polls[w], turn, id)

LEMMA ScanMoves ==
  ASSUME PollsInv, InOrder, NEW w \in PollWorkers, Scanning(w)
  PROVE  /\ Candidate(w) \in Ids
         /\ LET p == [polls[w] EXCEPT !.left = Tail(@)]
            IN  /\ p.at = "scan" /\ Nearer(p.left, p.turn)
                /\ \A id \in Ids : id # Candidate(w) => Far(p, turn, id) <= Far(polls[w], turn, id)
         /\ \A packet :
              LET p == [polls[w] EXCEPT !.at = "found", !.id = Candidate(w), !.packet = packet]
              IN  /\ p.at = "found"
                  /\ \A id \in Ids : id # Candidate(w) => Far(p, turn, id) <= Far(polls[w], turn, id)
  <1> DEFINE s == polls[w].left
             t == polls[w].turn
  <1>1. /\ polls[w] \in Polls /\ polls[w].at = "scan" /\ s # << >> /\ s \in Seq(Ids)
        /\ Nearer(s, t) /\ Candidate(w) = Head(s) /\ t \in 0..(LastStream + 1) /\ turn \in 0..(LastStream + 1)
    BY DEF PollsInv, Polls, InOrder, Scanning, Candidate
  <1>2. /\ Head(s) \in Ids /\ ToSet(s) = {Head(s)} \cup ToSet(Tail(s)) /\ Nearer(Tail(s), t)
        /\ \A id \in ToSet(Tail(s)) : Distance(t, Head(s)) < Distance(t, id)
    <2>1. Head(s) \in Ids
      BY <1>1
    <2> HIDE DEF s, t
    <2> QED BY <1>1, <2>1, HeadIsNearest
  <1>3. \A id \in Ids : /\ Distance(t, id) \in Places /\ Distance(t, id) <= LastStream
                        /\ LastStream <= LastStream
    <2>1. \A id \in Ids : Distance(t, id) \in Places
      BY <1>1, DistanceIsPlace
    <2>2. LastStream <= LastStream /\ \A d \in Places : d <= LastStream
      BY DequeueConstants DEF Places
    <2> QED BY <2>1, <2>2
  <1>4. \A id \in Ids : Far(polls[w], turn, id) = IF id \in ToSet(s) THEN Distance(t, id) ELSE LastStream
    BY <1>1 DEF Far, Due
  <1> DEFINE p == [polls[w] EXCEPT !.left = Tail(@)]
  <1>5. p.at = "scan" /\ p.left = Tail(s) /\ p.turn = t
    BY <1>1 DEF Polls
  <1>6. \A id \in Ids : Far(p, turn, id) = IF id \in ToSet(Tail(s)) THEN Distance(t, id) ELSE LastStream
    <2> HIDE DEF p, s, t
    <2> QED BY <1>5 DEF Far, Due
  <1>7. \A id \in Ids : id # Head(s) => Far(p, turn, id) <= Far(polls[w], turn, id)
    <2> HIDE DEF p, s, t
    <2> SUFFICES ASSUME NEW id \in Ids, id # Head(s)
                 PROVE  Far(p, turn, id) <= Far(polls[w], turn, id)
      OBVIOUS
    <2>1. id \in ToSet(s) <=> id \in ToSet(Tail(s))
      BY <1>2
    <2>2. Far(p, turn, id) = Far(polls[w], turn, id)
      BY <2>1, <1>4, <1>6
    <2>3. Far(p, turn, id) \in Places
      <3>1. LastStream \in Places
        BY DequeueConstants DEF Places
      <3> QED BY <3>1, <1>3, <1>6
    <2> QED BY <2>2, <2>3, DequeueConstants DEF Places
  <1>8. ASSUME NEW packet, NEW r, r = [polls[w] EXCEPT !.at = "found", !.id = Candidate(w), !.packet = packet]
        PROVE  /\ r.at = "found"
               /\ \A id \in Ids : id # Head(s) => Far(r, turn, id) <= Far(polls[w], turn, id)
    <2>1. r.at = "found" /\ r.id = Head(s) /\ r.turn = t
      BY <1>1, <1>8 DEF Polls
    <2>2. \A id \in Ids : Far(r, turn, id) =
            IF Distance(t, Head(s)) < Distance(t, id) THEN Distance(t, id) ELSE LastStream
      <3> HIDE DEF s, t
      <3> QED BY <2>1 DEF Far, Due
    <2> HIDE DEF s, t
    <2> QED BY <1>2, <1>3, <1>4, <2>1, <2>2, DequeueConstants DEF Places
  <1> HIDE DEF s, t
  <1> QED BY <1>1, <1>2, <1>5, <1>7, <1>8

LEMMA PollMoves ==
  ASSUME PollsInv, InOrder, PassedWait, NEW w \in PollWorkers,
         ReadTurn(w) \/ Snapshot(w) \/ Skip(w) \/ DropClosed(w) \/ PopNext(w) \/ Pong(w)
  PROVE  \E p : Moves(w, p)
  <1>0. /\ polls \in [PollWorkers -> Polls] /\ polls[w] \in Polls /\ turn \in 0..(LastStream + 1)
        /\ passed \in [Ids -> Nat]
        /\ \A id \in Ids : passed[id] > 0 => Waits(id) /\ Lives(id)
    BY DEF PollsInv, PassedWait
  <1>1. ASSUME ReadTurn(w) PROVE \E p : Moves(w, p)
    <2> DEFINE p == [NoPoll EXCEPT !.at = "read", !.turn = turn]
    <2>1. /\ polls[w].at = "idle" /\ polls' = [polls EXCEPT ![w] = p]
          /\ UNCHANGED <<turn, copies, passed>>
      BY <1>1 DEF ReadTurn
    <2>2. p.at = "read" /\ p.turn = turn
      BY DEF NoPoll
    <2> HIDE DEF p
    <2>3. \A id \in Ids : Far(p, turn, id) = Far(polls[w], turn, id) /\ Far(p, turn, id) \in Places
      BY <1>0, <2>1, <2>2, FarIsPlace DEF Far, Due
    <2>4. \A id \in Ids : Far(p, turn, id) <= Far(polls[w], turn, id)
      BY <2>3 DEF Places
    <2> QED BY <2>1, <2>2, <2>4 DEF Moves
  <1>2. ASSUME Snapshot(w) PROVE \E p : Moves(w, p)
    <2>1. PICK left \in Seq(Ids) :
            /\ polls' = [polls EXCEPT ![w] = [polls[w] EXCEPT !.at = "scan", !.left = left]]
            /\ Nearer(left, polls[w].turn)
            /\ \A id \in Ids : Waits(id) /\ Lives(id) => id \in ToSet(left)
      BY <1>2, SnapshotIsInOrder
    <2>2. polls[w].at = "read" /\ UNCHANGED <<turn, copies, passed>>
      BY <1>2 DEF Snapshot
    <2> DEFINE p == [polls[w] EXCEPT !.at = "scan", !.left = left]
    <2>3. p.at = "scan" /\ p.left = left /\ p.turn = polls[w].turn
      BY <1>0 DEF Polls
    <2>4. polls' = [polls EXCEPT ![w] = p]
      BY <2>1
    <2> HIDE DEF p
    <2>5. \A id \in Ids : passed[id] > 0 => Far(p, turn, id) = Far(polls[w], turn, id)
      BY <1>0, <2>1, <2>2, <2>3 DEF Far, Due
    <2>6. \A id \in Ids : Far(polls[w], turn, id) \in Places
      BY <1>0, FarIsPlace
    <2>7. \A id \in Ids : passed[id] > 0 => Far(p, turn, id) <= Far(polls[w], turn, id)
      BY <2>5, <2>6 DEF Places
    <2> QED BY <2>1, <2>2, <2>3, <2>4, <2>7 DEF Moves
  <1> DEFINE next == [polls[w] EXCEPT !.left = Tail(@)]
  <1>3. ASSUME Scanning(w), Onward(w), UNCHANGED <<turn, copies>>,
               \A id \in Ids : passed'[id] > 0 => id # Candidate(w) /\ passed'[id] = passed[id]
        PROVE  \E p : Moves(w, p)
    <2>1. polls' = [polls EXCEPT ![w] = next]
      BY <1>0, <1>3 DEF Onward
    <2>2. /\ next.at = "scan" /\ Nearer(next.left, next.turn)
          /\ \A id \in Ids : id # Candidate(w) => Far(next, turn, id) <= Far(polls[w], turn, id)
      BY <1>3, ScanMoves
    <2> HIDE DEF next
    <2> QED BY <1>3, <2>1, <2>2 DEF Moves
  <1>4. ASSUME Skip(w) PROVE \E p : Moves(w, p)
    <2>1. /\ Scanning(w) /\ Onward(w) /\ ~Waits(Candidate(w))
          /\ UNCHANGED <<turn, copies, passed>>
      BY <1>4 DEF Skip
    <2> QED BY <1>0, <1>3, <2>1
  <1>5. ASSUME DropClosed(w) PROVE \E p : Moves(w, p)
    <2>1. /\ Scanning(w) /\ Onward(w) /\ ~Lives(Candidate(w))
          /\ UNCHANGED <<turn, copies, passed>>
      BY <1>5 DEF DropClosed
    <2> QED BY <1>0, <1>3, <2>1
  <1>6. ASSUME PopNext(w) PROVE \E p : Moves(w, p)
    <2> DEFINE c == Candidate(w)
               packet == First(queues[c])
               p == [polls[w] EXCEPT !.at = "found", !.id = c, !.packet = packet]
    <2>1. /\ Scanning(w) /\ passed' = [passed EXCEPT ![c] = 0] /\ UNCHANGED <<turn, copies>>
          /\ \/ polls' = [polls EXCEPT ![w].at = "found", ![w].id = c, ![w].packet = packet]
             \/ Onward(w)
      BY <1>6 DEF PopNext
    <2>2. \A id \in Ids : passed'[id] > 0 => id # c /\ passed'[id] = passed[id]
      <3> HIDE DEF c
      <3> QED BY <1>0, <2>1
    <2>3. CASE Onward(w)
      BY <1>3, <2>1, <2>2, <2>3
    <2>4. CASE polls' = [polls EXCEPT ![w].at = "found", ![w].id = c, ![w].packet = packet]
      <3>1. polls' = [polls EXCEPT ![w] = p]
        <4> HIDE DEF c, packet
        <4> QED BY <1>0, <2>4
      <3>2. /\ p.at = "found"
            /\ \A id \in Ids : id # c => Far(p, turn, id) <= Far(polls[w], turn, id)
        BY <2>1, ScanMoves
      <3> HIDE DEF p, c, packet
      <3> QED BY <2>1, <2>2, <3>1, <3>2 DEF Moves
    <2> QED BY <2>1, <2>3, <2>4
  <1>7. ASSUME Pong(w) PROVE \E p : Moves(w, p)
    <2>1. /\ polls[w].at = "scan" /\ polls[w].left = << >> /\ polls' = [polls EXCEPT ![w] = NoPoll]
          /\ UNCHANGED <<turn, copies, passed>>
      BY <1>7 DEF Pong
    <2>2. \A id \in Ids : Far(polls[w], turn, id) = LastStream
      <3>1. ToSet(<< >>) = {}
        BY DEF ToSet
      <3> QED BY <2>1, <3>1 DEF Far, Due
    <2>3. NoPoll \in Polls /\ NoPoll.at = "idle"
      BY DequeueConstants DEF NoPoll, Polls
    <2>4. \A id \in Ids : Far(NoPoll, turn, id) <= LastStream
      BY <1>0, <2>3, FarIsPlace
    <2> HIDE DEF NoPoll
    <2> QED BY <2>1, <2>2, <2>3, <2>4 DEF Moves
  <1> QED BY <1>1, <1>2, <1>4, <1>5, <1>6, <1>7

-----------------------------------------------------------------------------
(* Nobody loses patience.                                                  *)

BypassInv == copies < BlockDuplication /\ InOrder /\ PassedWait /\ Patient

LEMMA BypassStep ==
  ASSUME QueuesInv, PollsInv, QueuesInv', PollsInv', BypassInv, [DequeueNext]_dequeueVars
  PROVE  BypassInv'
  <1>0. /\ copies \in Nat /\ copies < BlockDuplication /\ InOrder /\ PassedWait /\ copies' \in Nat
        /\ BlockDuplication \in Nat
        /\ polls \in [PollWorkers -> Polls] /\ turn \in 0..(LastStream + 1)
        /\ passed \in [Ids -> Nat] /\ passed' \in [Ids -> Nat]
        /\ \A id \in Ids : passed[id] + copies < Patience(Counts(Reach(id)))
    BY DequeueConstants DEF PollsInv, BypassInv, Patient
  <1>1. PassedWait'
    BY <1>0, PassedWaitStep
  <1>2. \A id \in Ids : Reach(id) \in [PollWorkers -> Places] /\ Reach(id)' \in [PollWorkers -> Places]
    <2>1. ASSUME NEW id \in Ids
          PROVE  Reach(id) \in [PollWorkers -> Places] /\ Reach(id)' \in [PollWorkers -> Places]
      <3>1. \A w \in PollWorkers : Far(polls'[w], turn', id) \in Places
        BY FarIsPlace DEF PollsInv
      <3>2. Reach(id)' = [w \in PollWorkers |-> Far(polls'[w], turn', id)]
        BY DEF Reach, Far, Due, Distance, Place, FirstPlace
      <3> HIDE DEF Reach
      <3> QED BY <3>1, <3>2, ReachIsPlace
    <2> QED BY <2>1
  <1>3. ASSUME copies' < BlockDuplication, InOrder',
               \A id \in Ids : passed'[id] > 0 => passed'[id] + copies' < Patience(Counts(Reach(id)'))
        PROVE  BypassInv'
    <2>1. ASSUME NEW id \in Ids PROVE passed'[id] + copies' < Patience(Counts(Reach(id)'))
      <3>1. CASE passed'[id] > 0
        BY <1>3, <3>1
      <3>2. CASE ~(passed'[id] > 0)
        <4>1. passed'[id] = 0
          BY <1>0, <3>2
        <4>2. Patience(Counts(Reach(id)')) \in Int /\ Patience(Counts(Reach(id)')) >= BlockDuplication
          BY <1>2, PatienceLasts
        <4> QED BY <1>0, <1>3, <4>1, <4>2
      <3> QED BY <3>1, <3>2
    <2>2. Patient'
      BY <2>1 DEF Patient, Patience, Rank, Below, Counts, Spread
    <2> QED BY <1>1, <1>3, <2>2 DEF BypassInv
  <1>4. ASSUME UNCHANGED <<polls, turn>>, copies' <= copies,
               \A id \in Ids : passed'[id] > 0 => passed'[id] + copies' <= passed[id] + copies
        PROVE  BypassInv'
    <2>1. InOrder'
      BY <1>0, <1>4 DEF InOrder, Nearer
    <2>2. \A id \in Ids : Reach(id)' = Reach(id)
      BY <1>4 DEF Reach, Far, Due
    <2>3. copies' < BlockDuplication
      BY <1>0, <1>4
    <2>4. ASSUME NEW id \in Ids, passed'[id] > 0
          PROVE  passed'[id] + copies' < Patience(Counts(Reach(id)'))
      <3>1. Patience(Counts(Reach(id))) \in Int
        BY <1>2, PatienceLasts
      <3>2. passed[id] + copies < Patience(Counts(Reach(id))) /\ Reach(id)' = Reach(id)
            /\ passed'[id] + copies' <= passed[id] + copies
            /\ passed[id] \in Nat /\ passed'[id] \in Nat
        BY <1>0, <1>4, <2>2, <2>4
      <3> QED BY <1>0, <3>1, <3>2
    <2> QED BY <1>3, <2>1, <2>3, <2>4
  <1>5. ASSUME NEW w \in PollWorkers, NEW p, Moves(w, p) PROVE BypassInv'
    <2>1. /\ polls' = [polls EXCEPT ![w] = p] /\ turn' = turn /\ copies' = copies
          /\ p.at = "scan" => Nearer(p.left, p.turn)
          /\ \A id \in Ids : passed'[id] > 0 =>
               passed'[id] = passed[id] /\ Far(p, turn, id) <= Far(polls[w], turn, id)
      BY <1>5 DEF Moves
    <2>2. \A v \in PollWorkers : polls'[v] = IF v = w THEN p ELSE polls[v]
      BY <1>0, <2>1
    <2>3. InOrder'
      BY <1>0, <2>1, <2>2 DEF InOrder, Nearer
    <2>4. ASSUME NEW id \in Ids, passed'[id] > 0
          PROVE  passed'[id] + copies' < Patience(Counts(Reach(id)'))
      <3>1. /\ Reach(id)'[w] <= Reach(id)[w]
            /\ \A v \in PollWorkers : v # w => Reach(id)'[v] = Reach(id)[v]
        BY <2>1, <2>2, <2>4 DEF Reach, Far, Due
      <3>2. /\ Patience(Counts(Reach(id)')) >= Patience(Counts(Reach(id)))
            /\ Patience(Counts(Reach(id)')) \in Int /\ Patience(Counts(Reach(id))) \in Int
        BY <1>2, <3>1, NoFarther, PatienceLasts
      <3>3. passed'[id] = passed[id] /\ copies' = copies /\ passed[id] \in Nat
            /\ passed[id] + copies < Patience(Counts(Reach(id)))
        BY <1>0, <2>1, <2>4
      <3> QED BY <1>0, <3>2, <3>3
    <2> QED BY <1>0, <1>3, <2>1, <2>3, <2>4
  <1>6. ASSUME NEW w \in PollWorkers, Answer(w) PROVE BypassInv'
    <2> DEFINE x == polls[w].id
               t == polls[w].turn
    <2>1. PICK served : Serves(served, queues') /\ x \in served
      BY <1>6, AnswerServes
    <2>2. /\ polls[w].at = "found" /\ turn' = x + 1 /\ polls' = [polls EXCEPT ![w] = NoPoll]
          /\ status' = status
          /\ copies' = copies \/ copies' = 0 \/ copies' = BlockDuplication - 1
      BY <1>6, AnswerServes
    <2>3. /\ x \in Ids /\ t \in 0..(LastStream + 1) /\ NoPoll.at = "idle"
          /\ \A v \in PollWorkers : polls'[v] = IF v = w THEN NoPoll ELSE polls[v]
      BY <1>0, <2>2 DEF PollsInv, Polls, NoPoll
    <2> HIDE DEF NoPoll
    <2>4. InOrder'
      BY <1>0, <2>3 DEF InOrder, Nearer
    <2>5. copies' < BlockDuplication
      BY <1>0, <2>2, DequeueAssumption
    <2>6. ASSUME NEW id \in Ids, passed'[id] > 0
          PROVE  passed'[id] + copies' < Patience(Counts(Reach(id)'))
      <3> DEFINE f == Reach(id)
                 g == Reach(id)'
                 d == Distance(x + 1, id)
      <3>1. passed'[id] = passed[id] + 1 /\ id # x
        BY <2>1, <2>2, <2>6, AnswerPasses
      <3>2. d < LastStream /\ (Distance(t, x) < Distance(t, id) => d < Distance(t, id))
        BY <2>3, <3>1, TurnComesNearer
      <3>3. f[w] = IF Distance(t, x) < Distance(t, id) THEN Distance(t, id) ELSE LastStream
        BY <2>2 DEF Reach, Far, Due
      <3>4. ASSUME NEW v \in PollWorkers PROVE g[v] = f[v] \/ g[v] = d
        <4>1. CASE polls'[v].at = "idle"
          BY <2>2, <4>1 DEF Reach, Far, Due
        <4>2. CASE polls'[v].at # "idle"
          <5>1. polls'[v] = polls[v]
            BY <2>3, <4>2
          <5> QED BY <4>2, <5>1 DEF Reach, Far, Due
        <4> QED BY <4>1, <4>2
      <3>5. g[w] = d
        BY <2>2, <2>3 DEF Reach, Far, Due
      <3> HIDE DEF f, g, d, x, t
      <3>6. d < f[w]
        BY <3>2, <3>3
      <3>7. f \in [PollWorkers -> Places] /\ g \in [PollWorkers -> Places] /\ g[w] \in Int /\ f[w] \in Int
        BY <1>2 DEF f, g, Places
      <3>8. g[w] # f[w] /\ \A v \in PollWorkers : g[v] # f[v] => g[v] < f[w]
        BY <3>4, <3>5, <3>6, <3>7
      <3>9. Below(Counts(g), Counts(f))
        BY <3>7, <3>8, NearerIsBelow
      <3>10. /\ Patience(Counts(g)) >= Patience(Counts(f)) + BlockDuplication
             /\ Patience(Counts(g)) \in Int /\ Patience(Counts(f)) \in Int
        BY <3>7, <3>9, PatienceLasts
      <3>11. passed[id] + copies < Patience(Counts(f)) /\ passed[id] \in Nat
        BY <1>0 DEF f
      <3>12. passed'[id] + copies' < Patience(Counts(g))
        BY <1>0, <2>5, <3>1, <3>10, <3>11
      <3> QED BY <3>12 DEF g
    <2> QED BY <1>3, <2>4, <2>5, <2>6
  <1>7. ASSUME UNCHANGED <<polls, turn, copies>>,
               \A id \in Ids : passed'[id] > 0 => passed'[id] = passed[id]
        PROVE  BypassInv'
    <2>1. copies' <= copies /\ \A id \in Ids : passed'[id] > 0 => passed'[id] + copies' <= passed[id] + copies
      BY <1>0, <1>7
    <2> QED BY <1>4, <1>7, <2>1
  <1>8. ASSUME NEW s \in Streams, Closes(s) PROVE BypassInv'
    <2>1. passed' = [passed EXCEPT ![s] = 0] /\ UNCHANGED <<turn, copies, polls>>
      BY <1>8 DEF Closes
    <2>2. \A id \in Ids : passed'[id] > 0 => passed'[id] = passed[id]
      BY <1>0, <2>1
    <2> QED BY <1>7, <2>1, <2>2
  <1>9. ASSUME NEW s \in Streams, Acknowledged(s) PROVE BypassInv'
    <2>1. passed' = [passed EXCEPT ![s] = IF queues'[s].size = 0 THEN 0 ELSE @]
          /\ UNCHANGED <<turn, copies, polls>>
      BY <1>9 DEF Acknowledged
    <2>2. \A id \in Ids : passed'[id] > 0 => passed'[id] = passed[id]
      BY <1>0, <2>1
    <2> QED BY <1>7, <2>1, <2>2
  <1>10. ASSUME NEW w \in PollWorkers, Repeat(w) PROVE BypassInv'
    <2>1. /\ copies > 0 /\ copies' = copies - 1 /\ Serves({}, queues)
          /\ UNCHANGED <<queues, status, turn, polls>>
      BY <1>10 DEF Repeat
    <2>2. Serves({}, queues')
      BY <2>1
    <2>3. \A id \in Ids : passed'[id] > 0 => passed'[id] = passed[id] + 1
      BY <2>1, <2>2, AnswerPasses
    <2>4. copies' <= copies /\ \A id \in Ids : passed'[id] > 0 => passed'[id] + copies' <= passed[id] + copies
      BY <1>0, <2>1, <2>3
    <2> QED BY <1>4, <2>1, <2>4
  <1>11. ASSUME NEW w \in PollWorkers, Poll(w) PROVE BypassInv'
    <2>1. CASE ReadTurn(w) \/ Snapshot(w) \/ Skip(w) \/ DropClosed(w) \/ PopNext(w) \/ Pong(w)
      BY <1>0, <1>5, <2>1, PollMoves
    <2> QED BY <1>6, <1>10, <1>11, <2>1 DEF Poll
  <1>12. ASSUME UNCHANGED <<turn, copies, polls, passed>> PROVE BypassInv'
    BY <1>7, <1>12
  <1>13. CASE UNCHANGED dequeueVars
    BY <1>12, <1>13 DEF dequeueVars
  <1>14. CASE DequeueNext
    BY <1>8, <1>9, <1>11, <1>12, <1>14 DEF DequeueNext, Removed, Sends, SendsOrphan
  <1> QED BY <1>13, <1>14

(* Whoever has a packet to send is passed over a bounded number of times,  *)
(* however many workers answer polls with a turn they read long ago, and   *)
(* however often the others' queues are filled (dequeueSessionResponse).   *)
THEOREM NobodyStarves == DequeueSpec => []BoundedBypass
  <1>1. DequeueInit => PollsInv /\ BypassInv
    BY InitPolls, InitBypass DEF BypassInv
  <1>2. QueuesInv /\ QueuesInv' /\ PollsInv /\ [DequeueNext]_dequeueVars => PollsInv'
    BY PollsStep
  <1>3. QueuesInv /\ QueuesInv' /\ PollsInv /\ PollsInv' /\ BypassInv /\ [DequeueNext]_dequeueVars
          => BypassInv'
    BY BypassStep
  <1>4. PollsInv /\ BypassInv => BoundedBypass
    <2> SUFFICES ASSUME PollsInv, BypassInv, NEW id \in Ids PROVE passed[id] < MaxPassed
      BY DEF BoundedBypass
    <2>1. /\ passed[id] + copies < Patience(Counts(Reach(id))) /\ passed[id] \in Nat /\ copies \in Nat
      BY DequeueConstants DEF BypassInv, Patient, PollsInv
    <2>2. Reach(id) \in [PollWorkers -> Places]
      BY ReachIsPlace
    <2>3. Patience(Counts(Reach(id))) \in Int /\ Patience(Counts(Reach(id))) <= MaxPassed
      BY <2>2, PatienceLasts
    <2>4. MaxPassed \in Int
      BY SpreadIsFinite, DequeueAssumption DEF MaxPassed
    <2> QED BY <2>1, <2>3, <2>4
  <1> QED BY <1>1, <1>2, <1>3, <1>4, QueuesAreKept, PTL DEF DequeueSpec

-----------------------------------------------------------------------------
(* The record of a resolver.                                               *)

(* The samples, those found overdue, and that there is room.               *)
SamplesInv ==
  /\ samples \in [Queries -> [at : {"none", "sent", "timedOut"}, age : Nat]]
  /\ \A q \in Queries : /\ samples[q].age <= TTL + round
                        /\ samples[q].at = "sent" => samples[q].age < Timeout + round
                        /\ samples[q].at = "timedOut" => samples[q].age >= Timeout
  /\ noted \subseteq [by : {"loop", "worker"}, query : Queries, age : 0..Gap]
  /\ round \in 0..Gap
  /\ IsFiniteSet(Sampled) /\ Cardinality(Sampled) <= HardCap

(* What is recorded: no event is older than the last success but for the   *)
(* time between two rounds, in which it may have been found late; and a    *)
(* resolver about to be disabled was silent when the loop looked.          *)
RecordInv ==
  /\ events \in [Ages -> Nat] /\ since \in Ages \cup {None} /\ answered \in Ages
  /\ active \in BOOLEAN /\ arrived \subseteq Queries
  /\ loop \in {"asleep", "recording", "disabling"} /\ overtaken \in BOOLEAN
  /\ since # None => since <= answered + Gap
  /\ \A a \in Ages : events[a] > 0 => a <= answered + Gap
  /\ loop = "disabling" => answered >= Window - Gap \/ overtaken
HealthInv == SamplesInv /\ RecordInv

LEMMA HealthConstants ==
  /\ Timeout \in Nat /\ Timeout > 0 /\ Gap \in Nat /\ Gap > 0 /\ TTL \in Nat
  /\ Window \in Nat /\ Horizon \in Nat /\ Gap < Horizon /\ Window < Horizon
  /\ SoftCap \in Nat /\ HardCap \in Nat /\ HardCap > 0 /\ SoftCap <= HardCap
  /\ Ages = 0..Horizon /\ None = -1
  BY TimesAssumption, CapsAssumption DEF Ages, Horizon, None

LEMMA InitHealth ==
  ASSUME HealthInit
  PROVE  HealthInv
  <1>1. /\ samples = [q \in Queries |-> [at |-> "none", age |-> 0]] /\ noted = {} /\ round = 0
        /\ events = [a \in Ages |-> 0] /\ since = None /\ answered = Horizon
        /\ active = TRUE /\ arrived = {} /\ loop = "asleep" /\ overtaken = FALSE
    BY DEF HealthInit, NoSample
  <1>2. Sampled = {}
    BY <1>1 DEF Sampled
  <1>3. IsFiniteSet(Sampled) /\ Cardinality(Sampled) <= HardCap
    BY <1>2, FS_EmptySet, HealthConstants
  <1>4. SamplesInv
    BY <1>1, <1>3, HealthConstants DEF SamplesInv
  <1>5. RecordInv
    <2>1. events \in [Ages -> Nat] /\ \A a \in Ages : events[a] = 0
      BY <1>1
    <2>2. answered \in Ages /\ since \in Ages \cup {None}
      BY <1>1, HealthConstants
    <2>3. active \in BOOLEAN /\ overtaken \in BOOLEAN /\ loop # "disabling"
      BY <1>1
    <2> QED BY <1>1, <2>1, <2>2, <2>3 DEF RecordInv
  <1> QED BY <1>4, <1>5 DEF HealthInv

(* The oldest event of the window, when there is one.                      *)
LEMMA OldestIsRecorded ==
  ASSUME NEW e \in [Ages -> Nat]
  PROVE  Oldest(e) = None \/ (Oldest(e) \in Ages /\ e[Oldest(e)] > 0)
  <1>1. CASE \A a \in Ages : e[a] = 0
    BY <1>1 DEF Oldest
  <1>2. CASE ~ \A a \in Ages : e[a] = 0
    <2> DEFINE N == {n \in Nat : n <= Horizon /\ e[Horizon - n] > 0}
    <2>1. PICK b \in Ages : e[b] # 0
      BY <1>2
    <2>2. Horizon - b \in N
      <3>1. e[b] \in Nat /\ b \in Int /\ b >= 0 /\ b <= Horizon /\ Horizon - (Horizon - b) = b
        BY HealthConstants
      <3> QED BY <2>1, <3>1, HealthConstants
    <2>3. PICK m \in N : \A n \in N : m <= n
      <3>1. N \in SUBSET Nat /\ N # {}
        BY <2>2
      <3> HIDE DEF N
      <3> QED BY <3>1, LeastNumber
    <2>4. /\ Horizon - m \in Ages /\ e[Horizon - m] > 0
          /\ \A a \in Ages : e[a] > 0 => a <= Horizon - m
      <3>1. \A a \in Ages : Horizon - (Horizon - a) = a /\ Horizon - a \in Nat /\ Horizon - a <= Horizon
        BY HealthConstants
      <3>2. m \in Nat /\ m <= Horizon /\ e[Horizon - m] > 0
        BY <2>3
      <3>3. ASSUME NEW a \in Ages, e[a] > 0 PROVE a <= Horizon - m
        <4>1. Horizon - a \in N
          BY <3>1, <3>3
        <4>2. m <= Horizon - a
          BY <2>3, <4>1
        <4> QED BY <3>2, <4>2, HealthConstants
      <3> QED BY <3>2, <3>3, HealthConstants
    <2>5. \E a \in Ages : e[a] > 0 /\ \A c \in Ages : e[c] > 0 => c <= a
      BY <2>4
    <2>6. Oldest(e) = CHOOSE a \in Ages : e[a] > 0 /\ \A c \in Ages : e[c] > 0 => c <= a
      BY <1>2 DEF Oldest
    <2> QED BY <2>5, <2>6
  <1> QED BY <1>1, <1>2

(* pruneResolverSamplesLocked, and the timeouts it finds.                  *)
LEMMA Pruned ==
  ASSUME SamplesInv
  PROVE  /\ Prune(samples) \in [Queries -> [at : {"none", "sent", "timedOut"}, age : Nat]]
         /\ \A q \in Queries :
              /\ Prune(samples)[q].age <= TTL
              /\ Prune(samples)[q].at = "sent"
                   => Prune(samples)[q] = samples[q] /\ samples[q].age < Timeout
              /\ Prune(samples)[q].at = "timedOut" => Prune(samples)[q].age >= Timeout
              /\ Prune(samples)[q].at # "none" => q \in Sampled
              /\ samples[q].at = "sent" /\ samples[q].age < Timeout /\ samples[q].age <= TTL
                   => Prune(samples)[q] = samples[q]
         /\ \A who \in {"loop", "worker"} :
              TimedOut(samples, who) \subseteq [by : {"loop", "worker"}, query : Queries, age : 0..Gap]
  <1> DEFINE p == Prune(samples)
             Kinds == {"none", "sent", "timedOut"}
  <1>1. /\ samples \in [Queries -> [at : Kinds, age : Nat]]
        /\ \A q \in Queries : /\ samples[q].age <= TTL + round
                              /\ samples[q].at = "sent" => samples[q].age < Timeout + round
                              /\ samples[q].at = "timedOut" => samples[q].age >= Timeout
        /\ round \in 0..Gap
    BY DEF SamplesInv
  <1>2. ASSUME NEW q \in Queries
        PROVE  /\ p[q] \in [at : Kinds, age : Nat] /\ p[q].age <= TTL
               /\ p[q].at = "sent" => p[q] = samples[q] /\ samples[q].age < Timeout
               /\ p[q].at = "timedOut" => p[q].age >= Timeout
               /\ p[q].at # "none" => q \in Sampled
               /\ samples[q].at = "sent" /\ samples[q].age < Timeout /\ samples[q].age <= TTL
                    => p[q] = samples[q]
    <2> DEFINE expired == \/ samples[q].age > TTL
                          \/ samples[q].at = "timedOut" /\ samples[q].age >= Timeout + Grace
    <2>1. p[q] = IF expired THEN [at |-> "none", age |-> 0]
                 ELSE IF samples[q].at = "sent" /\ samples[q].age >= Timeout
                        THEN [samples[q] EXCEPT !.at = "timedOut"]
                 ELSE samples[q]
      BY DEF Prune, Overdue, GivenUp, NoSample
    <2>2. PICK at \in Kinds, age \in Nat : samples[q] = [at |-> at, age |-> age]
      BY <1>1
    <2>3. samples[q].at = at /\ samples[q].age = age
      BY <2>2
    <2>4. p[q] = IF expired THEN [at |-> "none", age |-> 0]
                 ELSE IF at = "sent" /\ age >= Timeout THEN [at |-> "timedOut", age |-> age]
                 ELSE [at |-> at, age |-> age]
      BY <2>1, <2>2, <2>3
    <2>5. q \in Sampled <=> at # "none"
      BY <2>3 DEF Sampled
    <2> HIDE DEF p
    <2>9. /\ age > TTL => expired
          /\ expired /\ at # "timedOut" => age > TTL
      BY <2>3
    <2> HIDE DEF expired
    <2>6. CASE expired
      BY <2>2, <2>3, <2>4, <2>6, <2>9, HealthConstants
    <2>7. CASE ~expired /\ at = "sent" /\ age >= Timeout
      BY <2>2, <2>3, <2>4, <2>5, <2>7, <2>9, HealthConstants
    <2>8. CASE ~expired /\ ~(at = "sent" /\ age >= Timeout)
      BY <1>1, <2>2, <2>3, <2>4, <2>5, <2>8, <2>9, HealthConstants
    <2> QED BY <2>6, <2>7, <2>8, HealthConstants
  <1>3. p \in [Queries -> [at : Kinds, age : Nat]]
    <2>1. p = [q \in Queries |-> p[q]]
      BY DEF Prune
    <2> HIDE DEF p
    <2> QED BY <1>2, <2>1
  <1>4. ASSUME NEW who \in {"loop", "worker"}
        PROVE  TimedOut(samples, who) \subseteq [by : {"loop", "worker"}, query : Queries, age : 0..Gap]
    <2>1. ASSUME NEW q \in Queries, Overdue(samples, q) PROVE samples[q].age - Timeout \in 0..Gap
      <3>1. samples[q].age \in Nat /\ samples[q].age >= Timeout /\ samples[q].age < Timeout + round
        BY <1>1, <2>1 DEF Overdue
      <3> QED BY <1>1, <3>1, HealthConstants
    <2> QED BY <2>1 DEF TimedOut
  <1> HIDE DEF p
  <1> QED BY <1>2, <1>3, <1>4 DEF p
(* What follows a change of the samples that takes some of them away.      *)
LEMMA FewerSampled ==
  ASSUME SamplesInv, NEW some, some \subseteq Sampled
  PROVE  /\ IsFiniteSet(some) /\ Cardinality(some) \in Nat /\ Cardinality(some) <= HardCap
         /\ Cardinality(some) <= Cardinality(Sampled)
  <1>1. IsFiniteSet(Sampled) /\ Cardinality(Sampled) <= HardCap
    BY DEF SamplesInv
  <1>2. IsFiniteSet(some) /\ Cardinality(some) <= Cardinality(Sampled)
    BY <1>1, FS_Subset
  <1>3. Cardinality(some) \in Nat /\ Cardinality(Sampled) \in Nat
    BY <1>1, <1>2, FS_CardinalityType
  <1> QED BY <1>1, <1>2, <1>3, HealthConstants

(* What the samples are at every step but time.                            *)
SampleOK(s) ==
  /\ s \in [at : {"none", "sent", "timedOut"}, age : Nat]
  /\ s.age <= TTL + round
  /\ s.at = "sent" => s.age < Timeout + round
  /\ s.at = "timedOut" => s.age >= Timeout

LEMMA NoSampleOK == SamplesInv => SampleOK(NoSample) /\ NoSample.at = "none"
  BY HealthConstants DEF SamplesInv, SampleOK, NoSample

(* trackResolverSend: the room that evictResolverPendingLocked makes.      *)
LEMMA SendKeepsSamples ==
  ASSUME SamplesInv, NEW q \in Queries, Send(q)
  PROVE  SamplesInv'
  <1> DEFINE new == [at |-> "sent", age |-> 0]
  <1>0. /\ samples \in [Queries -> [at : {"none", "sent", "timedOut"}, age : Nat]]
        /\ \A r \in Queries : SampleOK(samples[r])
        /\ noted \subseteq [by : {"loop", "worker"}, query : Queries, age : 0..Gap]
        /\ round \in 0..Gap /\ round' = round /\ SampleOK(new) /\ new.at # "none"
        /\ IsFiniteSet(Sampled) /\ Cardinality(Sampled) <= HardCap /\ Cardinality(Sampled) \in Nat
    BY HealthConstants, FS_CardinalityType DEF SamplesInv, SampleOK, Send
  <1>1. ASSUME NEW before \in [Queries -> [at : {"none", "sent", "timedOut"}, age : Nat]],
               \A r \in Queries : SampleOK(before[r]),
               NEW room, room = {r \in Queries : before[r].at # "none"},
               IsFiniteSet(room), Cardinality(room) < HardCap,
               samples' = [before EXCEPT ![q] = new],
               noted' \subseteq [by : {"loop", "worker"}, query : Queries, age : 0..Gap]
        PROVE  SamplesInv'
    <2> HIDE DEF new
    <2>1. new \in [at : {"none", "sent", "timedOut"}, age : Nat]
      BY <1>0 DEF SampleOK
    <2>2. /\ samples' \in [Queries -> [at : {"none", "sent", "timedOut"}, age : Nat]]
          /\ \A r \in Queries : samples'[r] = IF r = q THEN new ELSE before[r]
      BY <1>1, <2>1
    <2>3. Sampled' = room \cup {q}
      BY <1>0, <1>1, <2>2 DEF Sampled
    <2>4. IsFiniteSet(room \cup {q}) /\ Cardinality(room \cup {q}) <= Cardinality(room) + 1
      <3>1. CASE q \in room
        <4>1. room \cup {q} = room /\ Cardinality(room) \in Nat
          BY <1>1, <3>1, FS_CardinalityType
        <4>2. Cardinality(room \cup {q}) = Cardinality(room)
          BY <4>1
        <4>3. IsFiniteSet(room \cup {q})
          BY <1>1, FS_AddElement
        <4> QED BY <4>1, <4>2, <4>3
      <3>2. CASE q \notin room
        <4>1. Cardinality(room \cup {q}) = Cardinality(room) + 1 /\ IsFiniteSet(room \cup {q})
          BY <1>1, <3>2, FS_AddElement
        <4>2. Cardinality(room) \in Nat
          BY <1>1, FS_CardinalityType
        <4> QED BY <4>1, <4>2
      <3> QED BY <3>1, <3>2
    <2>5. Cardinality(room) \in Nat /\ Cardinality(room \cup {q}) \in Nat
      BY <1>1, <2>4, FS_CardinalityType
    <2>6. IsFiniteSet(Sampled') /\ Cardinality(Sampled') <= HardCap
      BY <1>1, <2>3, <2>4, <2>5, HealthConstants
    <2>7. \A r \in Queries : SampleOK(samples'[r])
      BY <1>0, <1>1, <2>2
    <2> QED BY <1>0, <1>1, <2>2, <2>6, <2>7 DEF SamplesInv, SampleOK
  <1>2. CASE Cardinality(Sampled) < SoftCap
    <2>1. samples' = [samples EXCEPT ![q] = new] /\ noted' = noted
      BY <1>2 DEF Send
    <2>2. Cardinality(Sampled) < HardCap
      BY <1>0, <1>2, HealthConstants
    <2> HIDE DEF new
    <2> QED BY <1>0, <1>1, <2>1, <2>2 DEF Sampled
  <1>3. CASE ~(Cardinality(Sampled) < SoftCap)
    <2> DEFINE p == Prune(samples)
               kept == {r \in Queries : p[r].at # "none"}
    <2>1. PICK gone \in Evictions(p) :
            /\ samples' = [[r \in Queries |-> IF r \in gone THEN NoSample ELSE p[r]] EXCEPT ![q] = new]
            /\ noted' = noted \cup TimedOut(samples, "worker")
      BY <1>3 DEF Send
    <2> DEFINE before == [r \in Queries |-> IF r \in gone THEN NoSample ELSE p[r]]
               room == {r \in Queries : before[r].at # "none"}
    <2>2. /\ p \in [Queries -> [at : {"none", "sent", "timedOut"}, age : Nat]]
          /\ \A r \in Queries : SampleOK(p[r])
          /\ kept \subseteq Sampled
          /\ TimedOut(samples, "worker") \subseteq [by : {"loop", "worker"}, query : Queries, age : 0..Gap]
      <3>1. /\ p \in [Queries -> [at : {"none", "sent", "timedOut"}, age : Nat]]
            /\ \A r \in Queries :
                 /\ p[r].age <= TTL
                 /\ p[r].at = "sent" => p[r] = samples[r] /\ samples[r].age < Timeout
                 /\ p[r].at = "timedOut" => p[r].age >= Timeout
                 /\ p[r].at # "none" => r \in Sampled
            /\ TimedOut(samples, "worker") \subseteq [by : {"loop", "worker"}, query : Queries, age : 0..Gap]
        BY Pruned
      <3> HIDE DEF p
      <3>2. ASSUME NEW r \in Queries PROVE SampleOK(p[r])
        <4>1. p[r] \in [at : {"none", "sent", "timedOut"}, age : Nat] /\ p[r].age \in Nat
          BY <3>1
        <4> QED BY <1>0, <3>1, <4>1, HealthConstants DEF SampleOK
      <3> QED BY <3>1, <3>2
    <2> HIDE DEF p
    <2>3. /\ before \in [Queries -> [at : {"none", "sent", "timedOut"}, age : Nat]]
          /\ \A r \in Queries : SampleOK(before[r])
          /\ \A r \in Queries : before[r] = IF r \in gone THEN NoSample ELSE p[r]
      <3>1. SampleOK(NoSample)
        BY NoSampleOK
      <3>2. NoSample \in [at : {"none", "sent", "timedOut"}, age : Nat]
        BY <3>1 DEF SampleOK
      <3> QED BY <2>2, <3>1, <3>2
    <2>4. room = kept \ gone
      <3> HIDE DEF before
      <3> QED BY <2>3, NoSampleOK
    <2>5. /\ IsFiniteSet(kept) /\ Cardinality(kept) \in Nat
          /\ IsFiniteSet(kept \ gone) /\ Cardinality(kept \ gone) \in Nat
      BY <2>2, FewerSampled
    <2>6. Overflow(p) = Cardinality(kept) - HardCap + 1
      BY DEF Overflow
    <2>7. Cardinality(kept \ gone) < HardCap
      <3> HIDE DEF kept
      <3>1. CASE Overflow(p) <= 0
        <4>1. gone = {}
          BY <3>1 DEF Evictions
        <4>2. kept \ gone = kept
          BY <4>1
        <4>3. Cardinality(kept \ gone) = Cardinality(kept)
          BY <4>2
        <4> QED BY <2>5, <2>6, <3>1, <4>3, HealthConstants
      <3>2. CASE ~(Overflow(p) <= 0)
        <4>1. gone \subseteq kept /\ Cardinality(gone) = Overflow(p)
          BY <3>2 DEF Evictions, kept
        <4>2. Cardinality(kept \ gone) = Cardinality(kept) - Cardinality(kept \cap gone)
          BY <2>5, FS_Difference
        <4>3. kept \cap gone = gone
          BY <4>1
        <4>4. Cardinality(kept \cap gone) = Cardinality(kept) - HardCap + 1
          BY <2>6, <4>1, <4>3
        <4> QED BY <2>5, <4>2, <4>4, HealthConstants
      <3> QED BY <3>1, <3>2
    <2>8. /\ samples' = [before EXCEPT ![q] = new]
          /\ noted' \subseteq [by : {"loop", "worker"}, query : Queries, age : 0..Gap]
      BY <1>0, <2>1, <2>2
    <2>9. /\ room = {r \in Queries : before[r].at # "none"} /\ IsFiniteSet(room)
          /\ Cardinality(room) < HardCap
      BY <2>4, <2>5, <2>7
    <2> HIDE DEF before, room, new
    <2> QED BY <1>1, <2>3, <2>8, <2>9
  <1> QED BY <1>2, <1>3

(* An answer, or an error, takes its sample.                               *)
LEMMA OneSampleLess ==
  ASSUME SamplesInv, NEW q \in Queries, samples' = [samples EXCEPT ![q] = NoSample],
         UNCHANGED <<noted, round>>
  PROVE  SamplesInv'
  <1>0. /\ samples \in [Queries -> [at : {"none", "sent", "timedOut"}, age : Nat]]
        /\ \A r \in Queries : SampleOK(samples[r])
    BY DEF SamplesInv, SampleOK
  <1>1. SampleOK(NoSample) /\ NoSample.at = "none"
        /\ NoSample \in [at : {"none", "sent", "timedOut"}, age : Nat]
    BY NoSampleOK DEF SampleOK
  <1>2. /\ samples' \in [Queries -> [at : {"none", "sent", "timedOut"}, age : Nat]]
        /\ \A r \in Queries : samples'[r] = IF r = q THEN NoSample ELSE samples[r]
    <2> HIDE DEF NoSample
    <2> QED BY <1>0, <1>1
  <1>3. Sampled' \subseteq Sampled
    BY <1>1, <1>2 DEF Sampled
  <1>4. IsFiniteSet(Sampled') /\ Cardinality(Sampled') <= HardCap
    BY <1>3, FewerSampled
  <1>5. \A r \in Queries : SampleOK(samples'[r])
    BY <1>0, <1>1, <1>2
  <1> QED BY <1>2, <1>4, <1>5 DEF SamplesInv, SampleOK

(* collectExpiredResolverTimeouts: from here on no sample is overdue.      *)
LEMMA CollectKeepsSamples ==
  ASSUME SamplesInv, CollectTimeouts
  PROVE  SamplesInv'
  <1> DEFINE p == Prune(samples)
  <1>1. /\ samples' = p /\ round' = 0 /\ noted' = noted \cup TimedOut(samples, "loop")
        /\ noted \subseteq [by : {"loop", "worker"}, query : Queries, age : 0..Gap]
    BY DEF CollectTimeouts, SamplesInv
  <1>2. /\ p \in [Queries -> [at : {"none", "sent", "timedOut"}, age : Nat]]
        /\ \A r \in Queries :
             /\ p[r].age <= TTL
             /\ p[r].at = "sent" => p[r] = samples[r] /\ samples[r].age < Timeout
             /\ p[r].at = "timedOut" => p[r].age >= Timeout
             /\ p[r].at # "none" => r \in Sampled
        /\ TimedOut(samples, "loop") \subseteq [by : {"loop", "worker"}, query : Queries, age : 0..Gap]
    BY Pruned
  <1> HIDE DEF p
  <1>3. Sampled' \subseteq Sampled
    BY <1>1, <1>2 DEF Sampled
  <1>4. IsFiniteSet(Sampled') /\ Cardinality(Sampled') <= HardCap
    BY <1>3, FewerSampled
  <1>5. \A r \in Queries : /\ p[r].age <= TTL + 0
                           /\ p[r].at = "sent" => p[r].age < Timeout + 0
                           /\ p[r].at = "timedOut" => p[r].age >= Timeout
    BY <1>2, HealthConstants
  <1>6. noted' \subseteq [by : {"loop", "worker"}, query : Queries, age : 0..Gap]
    BY <1>1, <1>2
  <1> QED BY <1>1, <1>2, <1>4, <1>5, <1>6, HealthConstants DEF SamplesInv

(* Time.                                                                   *)
LEMMA TickKeepsSamples ==
  ASSUME SamplesInv, Tick
  PROVE  SamplesInv'
  <1>0. /\ samples \in [Queries -> [at : {"none", "sent", "timedOut"}, age : Nat]]
        /\ \A r \in Queries : SampleOK(samples[r])
        /\ round \in 0..Gap /\ round < Gap /\ round' = round + 1 /\ noted' = noted
        /\ samples' = [q \in Queries |-> IF samples[q].at = "none" THEN NoSample
                                         ELSE [samples[q] EXCEPT !.age = @ + 1]]
    BY DEF SamplesInv, SampleOK, Tick
  <1>1. ASSUME NEW q \in Queries
        PROVE  /\ samples'[q] \in [at : {"none", "sent", "timedOut"}, age : Nat]
               /\ samples'[q].age <= TTL + (round + 1)
               /\ samples'[q].at = "sent" => samples'[q].age < Timeout + (round + 1)
               /\ samples'[q].at = "timedOut" => samples'[q].age >= Timeout
               /\ samples'[q].at = samples[q].at
    <2>1. PICK at \in {"none", "sent", "timedOut"}, age \in Nat : samples[q] = [at |-> at, age |-> age]
      BY <1>0
    <2>2. samples[q].at = at /\ samples[q].age = age /\ SampleOK(samples[q])
      BY <1>0, <2>1
    <2>3. samples'[q] = IF at = "none" THEN [at |-> "none", age |-> 0] ELSE [at |-> at, age |-> age + 1]
      BY <1>0, <2>1, <2>2 DEF NoSample
    <2>4. samples'[q].at = at /\ samples'[q].age = IF at = "none" THEN 0 ELSE age + 1
      BY <2>3
    <2> QED BY <1>0, <2>2, <2>3, <2>4, HealthConstants, SMTT(30) DEF SampleOK
  <1>2. samples' \in [Queries -> [at : {"none", "sent", "timedOut"}, age : Nat]]
    BY <1>0, <1>1
  <1>3. Sampled' = Sampled
    BY <1>1 DEF Sampled
  <1>4. round' \in 0..Gap
    BY <1>0, HealthConstants
  <1> QED BY <1>0, <1>1, <1>2, <1>3, <1>4 DEF SamplesInv

LEMMA SamplesStep ==
  ASSUME SamplesInv, [HealthNext]_healthVars
  PROVE  SamplesInv'
  <1>1. ASSUME UNCHANGED <<samples, round>>, noted' \subseteq noted PROVE SamplesInv'
    <2>1. Sampled' = Sampled
      BY <1>1 DEF Sampled
    <2> QED BY <1>1, <2>1 DEF SamplesInv
  <1>2. CASE UNCHANGED healthVars
    BY <1>1, <1>2 DEF healthVars
  <1>3. ASSUME NEW q \in Queries, Send(q) \/ Answered(q) \/ NoteSuccess(q) \/ Fails(q)
        PROVE  SamplesInv'
    <2>1. CASE Answered(q) \/ Fails(q)
      BY <2>1, OneSampleLess DEF Answered, Fails
    <2>2. CASE NoteSuccess(q)
      BY <1>1, <2>2 DEF NoteSuccess
    <2> QED BY <1>3, <2>1, <2>2, SendKeepsSamples
  <1>4. ASSUME NEW n \in noted, NoteTimeout(n) PROVE SamplesInv'
    <2>1. UNCHANGED <<samples, round>> /\ noted' = noted \ {n}
      BY <1>4 DEF NoteTimeout
    <2> QED BY <1>1, <2>1
  <1>5. CASE FindSilent \/ AutoDisable \/ Reactivate
    BY <1>1, <1>5 DEF FindSilent, AutoDisable, Reactivate
  <1>6. CASE CollectTimeouts \/ Tick
    BY <1>6, CollectKeepsSamples, TickKeepsSamples
  <1> QED BY <1>2, <1>3, <1>4, <1>5, <1>6 DEF HealthNext
(* A failure counts from when it was due, within the allowance.            *)
LEMMA FailureKeepsRecord ==
  ASSUME HealthInv, NEW age \in 0..Gap, RecordFailure(age),
         UNCHANGED <<answered, active, loop, overtaken>>, arrived' \subseteq Queries
  PROVE  RecordInv'
  <1>0. /\ events \in [Ages -> Nat] /\ since \in Ages \cup {None} /\ answered \in Ages
        /\ active \in BOOLEAN /\ loop \in {"asleep", "recording", "disabling"}
        /\ since # None => since <= answered + Gap
        /\ \A a \in Ages : events[a] > 0 => a <= answered + Gap
        /\ overtaken' \in BOOLEAN /\ (loop' = "disabling" => answered' >= Window - Gap \/ overtaken')
    BY DEF HealthInv, RecordInv
  <1>1. age \in Ages /\ age <= answered + Gap
    BY <1>0, HealthConstants
  <1>2. CASE ~active
    BY <1>0, <1>2 DEF RecordFailure, RecordInv
  <1>3. CASE active
    <2> DEFINE more == [events EXCEPT ![age] = @ + 1]
    <2>1. /\ events' = [a \in Ages |-> IF a <= age + Window THEN more[a] ELSE 0]
          /\ since' = IF since = None \/ age > since THEN age ELSE since
      BY <1>3 DEF RecordFailure, Within
    <2>2. more \in [Ages -> Nat]
          /\ \A a \in Ages : more[a] = IF a = age THEN events[a] + 1 ELSE events[a]
      BY <1>0, <1>1
    <2> HIDE DEF more
    <2>3. /\ events' \in [Ages -> Nat]
          /\ \A a \in Ages : events'[a] > 0 => events[a] > 0 \/ a = age
      BY <1>0, <2>1, <2>2
    <2>4. since' \in Ages \cup {None} /\ (since' # None => since' <= answered + Gap)
      BY <1>0, <1>1, <2>1
    <2>5. \A a \in Ages : events'[a] > 0 => a <= answered + Gap
      BY <1>0, <1>1, <2>3
    <2> QED BY <1>0, <2>3, <2>4, <2>5 DEF RecordInv
  <1> QED BY <1>0, <1>2, <1>3

(* The record is emptied.                                                  *)
LEMMA NoRecordIsRight ==
  ASSUME HealthInv, events' = [a \in Ages |-> 0], since' = None, answered' \in Ages,
         active' \in BOOLEAN, loop' \in {"asleep", "recording", "disabling"}, arrived' \subseteq Queries,
         overtaken' \in BOOLEAN, loop' = "disabling" => answered' >= Window - Gap \/ overtaken'
  PROVE  RecordInv'
  <1>1. events' \in [Ages -> Nat] /\ \A a \in Ages : events'[a] = 0
    OBVIOUS
  <1> QED BY <1>1 DEF RecordInv

(* pruneResolverHealthLocked takes events only away.                       *)
LEMMA WithinIsFewer ==
  ASSUME NEW e \in [Ages -> Nat], NEW limit \in Nat
  PROVE  Within(e, limit) \in [Ages -> Nat] /\ \A a \in Ages : Within(e, limit)[a] <= e[a]
  BY HealthConstants DEF Within

(* The timeout of a late answer is taken back: since is then the oldest    *)
(* event that is left.                                                     *)
LEMMA AnswerKeepsRecord ==
  ASSUME HealthInv, NEW q \in Queries, Answered(q)
  PROVE  RecordInv'
  <1> DEFINE at == samples[q].age - Timeout
             less == [events EXCEPT ![at] = @ - 1]
             left == Within(less, Window)
  <1>0. /\ events \in [Ages -> Nat] /\ since \in Ages \cup {None} /\ answered \in Ages
        /\ active \in BOOLEAN /\ arrived \subseteq Queries
        /\ loop \in {"asleep", "recording", "disabling"} /\ overtaken \in BOOLEAN
        /\ since # None => since <= answered + Gap
        /\ \A a \in Ages : events[a] > 0 => a <= answered + Gap
        /\ loop = "disabling" => answered >= Window - Gap \/ overtaken
    BY DEF HealthInv, RecordInv
  <1>1. /\ arrived' \subseteq Queries
        /\ UNCHANGED <<answered, active, loop, overtaken>>
        /\ \/ events' = events /\ since' = since
           \/ events[at] > 0 /\ events' = left /\ since' = Oldest(left)
    BY <1>0 DEF Answered
  <1>2. CASE events' = events /\ since' = since
    BY <1>0, <1>1, <1>2 DEF RecordInv
  <1>3. CASE events[at] > 0 /\ events' = left /\ since' = Oldest(left)
    <2> HIDE DEF at
    <2>1. less \in [Ages -> Nat] /\ \A a \in Ages : less[a] <= events[a]
      <3>1. CASE at \in Ages
        <4>1. events[at] - 1 \in Nat
          BY <1>0, <1>3, <3>1
        <4>2. /\ less = [a \in Ages |-> less[a]]
              /\ \A a \in Ages : less[a] = IF a = at THEN events[a] - 1 ELSE events[a]
          BY <1>0, <3>1
        <4> HIDE DEF less
        <4>3. \A a \in Ages : less[a] \in Nat /\ less[a] <= events[a]
          BY <1>0, <4>1, <4>2
        <4> QED BY <4>2, <4>3
      <3>2. CASE at \notin Ages
        <4>1. less = events
          BY <1>0, <3>2
        <4> HIDE DEF less
        <4>2. \A a \in Ages : events[a] \in Nat
          BY <1>0
        <4> QED BY <1>0, <4>1, <4>2
      <3> QED BY <3>1, <3>2
    <2> HIDE DEF less
    <2>2. left \in [Ages -> Nat] /\ \A a \in Ages : left[a] <= less[a]
      BY <2>1, WithinIsFewer, HealthConstants
    <2> HIDE DEF left
    <2>3. \A a \in Ages : left[a] > 0 => a <= answered + Gap
      <3>1. \A a \in Ages : left[a] \in Nat /\ less[a] \in Nat /\ events[a] \in Nat
        BY <1>0, <2>1, <2>2
      <3> QED BY <1>0, <2>1, <2>2, <3>1
    <2>4. Oldest(left) = None \/ (Oldest(left) \in Ages /\ left[Oldest(left)] > 0)
      BY <2>2, OldestIsRecorded
    <2> QED BY <1>0, <1>1, <1>3, <2>2, <2>3, <2>4 DEF RecordInv
  <1> QED BY <1>1, <1>2, <1>3

LEMMA AgesGrow ==
  ASSUME NEW n \in Nat, NEW age \in Nat, NEW older \in Nat, NEW most \in Nat, NEW gap \in Nat,
         n <= most, n <= age + gap, older >= age, age < most => older = age + 1
  PROVE  n <= older + gap /\ (n < most => n + 1 <= older + gap)
  OBVIOUS

(* Time: what is recorded and the last success get older together.         *)
LEMMA TickKeepsRecord ==
  ASSUME HealthInv, Tick
  PROVE  RecordInv'
  <1>0. /\ events \in [Ages -> Nat] /\ since \in Ages \cup {None} /\ answered \in Ages
        /\ active \in BOOLEAN /\ arrived \subseteq Queries /\ overtaken \in BOOLEAN
        /\ since # None => since <= answered + Gap
        /\ \A a \in Ages : events[a] > 0 => a <= answered + Gap
    BY DEF HealthInv, RecordInv
  <1>1. /\ events' = [a \in Ages |-> (IF a = 0 THEN 0 ELSE events[a - 1])
                                     + (IF a = Horizon THEN events[a] ELSE 0)]
        /\ since' = Older(since) /\ answered' = Older(answered)
        /\ UNCHANGED <<arrived, active, loop, overtaken>> /\ loop = "asleep"
    BY DEF Tick
  <1>2. ASSUME NEW x \in Ages
        PROVE  Older(x) \in Ages /\ Older(x) = IF x < Horizon THEN x + 1 ELSE Horizon
    BY HealthConstants DEF Older
  <1>3. answered' \in Ages /\ answered' >= answered /\ (answered < Horizon => answered' = answered + 1)
    <2>1. answered' \in Ages /\ answered' = IF answered < Horizon THEN answered + 1 ELSE Horizon
      BY <1>0, <1>1, <1>2
    <2>2. answered \in Nat /\ answered <= Horizon /\ Horizon \in Nat
      BY <1>0, HealthConstants
    <2> QED BY <2>1, <2>2
  <1>4. ASSUME NEW n \in Nat, n <= Horizon, n <= answered + Gap
        PROVE  n <= answered' + Gap /\ (n < Horizon => n + 1 <= answered' + Gap)
    <2>1. answered \in Nat /\ answered' \in Nat /\ Horizon \in Nat /\ Gap \in Nat
      BY <1>0, <1>3, HealthConstants
    <2> QED BY <1>3, <1>4, <2>1, AgesGrow
  <1>5. ASSUME NEW a \in Ages PROVE events'[a] \in Nat /\ (events'[a] > 0 => a <= answered' + Gap)
    <2>1. CASE a = 0
      <3>1. a # Horizon /\ events'[a] = 0
        BY <1>1, <2>1, HealthConstants
      <3> QED BY <3>1
    <2>2. CASE a # 0
      <3>1. /\ a - 1 \in Ages
            /\ a \in Nat /\ a <= Horizon /\ a - 1 \in Nat /\ a - 1 < Horizon /\ a - 1 <= Horizon
            /\ (a - 1) + 1 = a
        BY <2>2, HealthConstants
      <3>2. /\ events'[a] = events[a - 1] + (IF a = Horizon THEN events[a] ELSE 0)
            /\ events[a - 1] \in Nat /\ events[a] \in Nat
        BY <1>0, <1>1, <2>2, <3>1
      <3>3. /\ events[a - 1] > 0 => a - 1 <= answered + Gap
            /\ events[a] > 0 => a <= answered + Gap
        BY <1>0, <3>1
      <3>4. a - 1 <= answered + Gap => a <= answered' + Gap
        BY <1>4, <3>1
      <3>5. a <= answered + Gap => a <= answered' + Gap
        BY <1>4, <3>1
      <3>6. events'[a] \in Nat /\ (events'[a] > 0 => events[a - 1] > 0 \/ events[a] > 0)
        BY <3>2
      <3> QED BY <3>3, <3>4, <3>5, <3>6
    <2> QED BY <2>1, <2>2
  <1>6. events' \in [Ages -> Nat]
    BY <1>1, <1>5
  <1>7. since' \in Ages \cup {None} /\ (since' # None => since' <= answered' + Gap)
    <2>1. CASE since = None
      BY <1>1, <2>1 DEF Older
    <2>2. CASE since # None
      <3>1. since \in Ages /\ since <= answered + Gap
        BY <1>0, <2>2
      <3>2. since' \in Ages /\ since' = IF since < Horizon THEN since + 1 ELSE Horizon
        BY <1>1, <1>2, <3>1
      <3>3. since \in Nat /\ since <= Horizon
        BY <3>1, HealthConstants
      <3> QED BY <1>4, <3>1, <3>2, <3>3, HealthConstants
    <2> QED BY <2>1, <2>2
  <1> QED BY <1>0, <1>1, <1>3, <1>5, <1>6, <1>7 DEF RecordInv

(* The loop looks for silent resolvers: nothing older than the window is   *)
(* since the last success but for the allowance.                           *)
LEMMA FindKeepsRecord ==
  ASSUME HealthInv, FindSilent
  PROVE  RecordInv'
  <1>0. /\ events \in [Ages -> Nat] /\ since \in Ages \cup {None} /\ answered \in Ages
        /\ active \in BOOLEAN /\ arrived \subseteq Queries /\ overtaken \in BOOLEAN
        /\ since # None => since <= answered + Gap
        /\ \A a \in Ages : events[a] > 0 => a <= answered + Gap
    BY DEF HealthInv, RecordInv
  <1>1. /\ UNCHANGED <<arrived, since, answered, active, overtaken>>
        /\ events' = Within(events, Window) \/ events' = events
        /\ loop' \in {"asleep", "disabling"} /\ (loop' = "disabling" => Silent)
    BY DEF FindSilent
  <1>2. events' \in [Ages -> Nat] /\ \A a \in Ages : events'[a] <= events[a]
    <2>1. \A a \in Ages : events[a] \in Nat
      BY <1>0
    <2>2. Window \in Nat
      BY HealthConstants
    <2>3. Within(events, Window) \in [Ages -> Nat]
          /\ \A a \in Ages : Within(events, Window)[a] <= events[a]
      BY <1>0, <2>2, WithinIsFewer
    <2>4. CASE events' = events
      BY <1>0, <2>1, <2>4
    <2>5. CASE events' = Within(events, Window)
      BY <2>3, <2>5
    <2> QED BY <1>1, <2>4, <2>5
  <1>3. \A a \in Ages : events'[a] > 0 => a <= answered' + Gap
    <2>1. \A a \in Ages : events[a] \in Nat /\ events'[a] \in Nat
      BY <1>0, <1>2
    <2> QED BY <1>0, <1>1, <1>2, <2>1
  <1>4. Silent => answered >= Window - Gap
    BY <1>0, HealthConstants DEF Silent
  <1> QED BY <1>0, <1>1, <1>2, <1>3, <1>4 DEF RecordInv

LEMMA RecordStep ==
  ASSUME HealthInv, [HealthNext]_healthVars
  PROVE  RecordInv'
  <1>0. /\ SamplesInv /\ RecordInv /\ arrived \subseteq Queries /\ active \in BOOLEAN
        /\ answered \in Ages /\ loop \in {"asleep", "recording", "disabling"} /\ overtaken \in BOOLEAN
        /\ loop = "disabling" => answered >= Window - Gap \/ overtaken
        /\ noted \subseteq [by : {"loop", "worker"}, query : Queries, age : 0..Gap]
        /\ 0 \in 0..Gap /\ 0 \in Ages /\ Horizon \in Ages /\ Horizon >= Window - Gap
    BY HealthConstants DEF HealthInv, RecordInv, SamplesInv
  <1>1. ASSUME UNCHANGED <<events, since, answered, active, overtaken>>,
               loop' = loop \/ loop' \in {"asleep", "recording"}, arrived' \subseteq Queries
        PROVE  RecordInv'
    BY <1>0, <1>1 DEF RecordInv
  <1>2. CASE UNCHANGED healthVars
    BY <1>0, <1>1, <1>2 DEF healthVars
  <1>3. ASSUME NEW q \in Queries, Send(q) PROVE RecordInv'
    BY <1>0, <1>1, <1>3 DEF Send
  <1>4. ASSUME NEW q \in Queries, NoteSuccess(q) PROVE RecordInv'
    <2>1. arrived' \subseteq Queries /\ UNCHANGED <<active, loop>>
      BY <1>0, <1>4 DEF NoteSuccess
    <2>2. CASE active
      BY <1>0, <1>4, <2>1, <2>2, NoRecordIsRight DEF NoteSuccess, RecordSuccess
    <2>3. CASE ~active
      BY <1>0, <1>1, <1>4, <2>1, <2>3 DEF NoteSuccess
    <2> QED BY <2>2, <2>3
  <1>5. ASSUME NEW q \in Queries, Fails(q) PROVE RecordInv'
    <2>1. UNCHANGED <<arrived, answered, active, loop, overtaken>>
      BY <1>5 DEF Fails
    <2>2. CASE UNCHANGED <<events, since>>
      BY <1>0, <1>1, <2>1, <2>2
    <2>3. CASE RecordFailure(0)
      BY <1>0, <2>1, <2>3, FailureKeepsRecord
    <2> QED BY <1>5, <2>2, <2>3 DEF Fails
  <1>6. ASSUME NEW n \in noted, NoteTimeout(n) PROVE RecordInv'
    <2>1. n.age \in 0..Gap
      BY <1>0
    <2> QED BY <1>0, <1>6, <2>1, FailureKeepsRecord DEF NoteTimeout
  <1>7. CASE CollectTimeouts
    BY <1>0, <1>1, <1>7 DEF CollectTimeouts
  <1>8. CASE AutoDisable
    <2>1. loop' = "asleep" /\ overtaken' = FALSE /\ UNCHANGED <<arrived, answered>>
      BY <1>8 DEF AutoDisable
    <2>2. CASE UNCHANGED <<active, events, since>>
      BY <1>0, <2>1, <2>2 DEF RecordInv
    <2>3. CASE active' = FALSE /\ events' = [a \in Ages |-> 0] /\ since' = None
      BY <1>0, <2>1, <2>3, NoRecordIsRight
    <2> QED BY <1>8, <2>2, <2>3 DEF AutoDisable
  <1>9. CASE Reactivate
    BY <1>0, <1>9, NoRecordIsRight DEF Reactivate
  <1>10. CASE Tick
    BY <1>10, TickKeepsRecord
  <1>11. CASE FindSilent
    BY <1>11, FindKeepsRecord
  <1> QED BY <1>2, <1>3, <1>4, <1>5, <1>6, <1>7, <1>8, <1>9, <1>10, <1>11, AnswerKeepsRecord DEF HealthNext

-----------------------------------------------------------------------------
(* The record of a resolver: the theorems.                                 *)

(* The inductive invariant: a sample is timed out only when it is due, no  *)
(* event is older than the last success but for the time between two       *)
(* rounds (noteResolverTimeout, noteResolverSuccess), and a resolver that  *)
(* is about to be disabled was silent when the loop looked.                *)
THEOREM RecordIsKept == HealthSpec => []HealthInv
  <1>1. HealthInit => HealthInv
    BY InitHealth
  <1>2. HealthInv /\ [HealthNext]_healthVars => HealthInv'
    BY SamplesStep, RecordStep DEF HealthInv
  <1> QED BY <1>1, <1>2, PTL DEF HealthSpec

(* The health loop takes a resolver out only when it has answered nothing  *)
(* for a whole window but for the time between two rounds, whatever the    *)
(* order in which timeouts are found, recorded and taken back, or when a   *)
(* success overtook it between its two critical sections                   *)
(* (runResolverAutoDisable, disableResolverConnection).                    *)
THEOREM DisabledSilent == HealthSpec => DisabledWasSilent
  <1>1. HealthInv /\ [HealthNext]_healthVars
          => [active /\ ~active' => answered >= Window - Gap \/ overtaken]_healthVars
    <2> SUFFICES ASSUME HealthInv, HealthNext, active, ~active'
                 PROVE  answered >= Window - Gap \/ overtaken
      OBVIOUS
    <2>1. CASE AutoDisable
      BY <2>1 DEF AutoDisable, HealthInv, RecordInv
    <2>2. CASE ~AutoDisable
      BY <2>2 DEF HealthNext, Send, Answered, NoteSuccess, Fails, NoteTimeout, CollectTimeouts,
           FindSilent, Reactivate, Tick
    <2> QED BY <2>1, <2>2
  <1> QED BY <1>1, RecordIsKept, PTL DEF HealthSpec, DisabledWasSilent

(* Room for a new sample is made by those that have timed out before one   *)
(* that may still be answered has to go (evictResolverPendingLocked).      *)
THEOREM TimedOutGo == HealthSpec => TimedOutGoFirst
  <1> DEFINE GoFirst ==
        \A q \in Queries :
          /\ \E r \in Queries : samples'[r] # samples[r] /\ samples'[r] = [at |-> "sent", age |-> 0]
          /\ samples[q].at = "sent" /\ samples[q].age < Timeout /\ samples'[q] = NoSample
          => \A r \in Queries : samples'[r].at # "timedOut"
  <1>1. HealthInv /\ [HealthNext]_healthVars => [GoFirst]_healthVars
    <2> SUFFICES ASSUME HealthInv, HealthNext,
                        NEW q \in Queries, NEW s \in Queries,
                        samples'[s] # samples[s], samples'[s] = [at |-> "sent", age |-> 0],
                        samples[q].at = "sent", samples[q].age < Timeout, samples'[q] = NoSample,
                        NEW r \in Queries, samples'[r].at = "timedOut"
                 PROVE  FALSE
      OBVIOUS
    <2> DEFINE new == [at |-> "sent", age |-> 0]
    <2>0. /\ samples \in [Queries -> [at : {"none", "sent", "timedOut"}, age : Nat]]
          /\ SamplesInv /\ NoSample.at = "none" /\ new.at = "sent" /\ new.age = 0
      BY DEF HealthInv, SamplesInv, NoSample
    <2>1. ASSUME NEW x \in Queries, samples' = [samples EXCEPT ![x] = NoSample] PROVE FALSE
      <3>1. samples'[s] = samples[s] \/ samples'[s] = NoSample
        BY <2>0, <2>1
      <3> QED BY <2>0, <3>1
    <2>2. CASE Tick
      <3>1. samples'[s] = IF samples[s].at = "none" THEN NoSample ELSE [samples[s] EXCEPT !.age = @ + 1]
        BY <2>2 DEF Tick
      <3>2. samples[s] \in [at : {"none", "sent", "timedOut"}, age : Nat]
        BY <2>0
      <3>3. [samples[s] EXCEPT !.age = @ + 1].age = samples[s].age + 1 /\ samples[s].age \in Nat
        BY <3>2
      <3>4. samples'[s].at = "sent" /\ samples'[s].age = 0
        BY <2>0
      <3> QED BY <2>0, <3>1, <3>3, <3>4
    <2>3. CASE CollectTimeouts
      <3>1. samples'[s] = Prune(samples)[s]
        BY <2>3 DEF CollectTimeouts
      <3>2. Prune(samples)[s].at = "sent" => Prune(samples)[s] = samples[s]
        BY <2>0, Pruned
      <3> QED BY <2>0, <3>1, <3>2
    <2>4. ASSUME NEW x \in Queries, Send(x) PROVE FALSE
      <3> DEFINE p == Prune(samples)
      <3>1. CASE Cardinality(Sampled) < SoftCap
        <4>1. samples' = [samples EXCEPT ![x] = new]
          BY <2>4, <3>1 DEF Send
        <4>2. samples'[q] = samples[q] \/ samples'[q] = new
          BY <2>0, <4>1
        <4> HIDE DEF new
        <4> QED BY <2>0, <4>2
      <3>2. CASE ~(Cardinality(Sampled) < SoftCap)
        <4>1. PICK gone \in Evictions(p) :
                samples' = [[y \in Queries |-> IF y \in gone THEN NoSample ELSE p[y]] EXCEPT ![x] = new]
          BY <2>4, <3>2 DEF Send
        <4>2. samples[q].age <= TTL => p[q] = samples[q]
          BY <2>0, Pruned
        <4>3. p[r].at = "timedOut" => p[r].age >= Timeout /\ p[r].age <= TTL /\ p[r].age \in Nat
          BY <2>0, Pruned
        <4> HIDE DEF p, new
        <4>4. \A y \in Queries : samples'[y] = IF y = x THEN new
                                              ELSE IF y \in gone THEN NoSample ELSE p[y]
          BY <4>1
        <4>5. r # x /\ r \notin gone /\ p[r].at = "timedOut"
          BY <2>0, <4>4
        <4>6. samples[q].age <= TTL
          <5>1. samples[q].age \in Nat /\ samples[q].age < Timeout
            BY <2>0
          <5> QED BY <4>5, <4>3, <5>1, HealthConstants
        <4>7. q # x /\ q \in gone
          BY <2>0, <4>2, <4>4, <4>6
        <4>8. p[r].at # "none" => ~GoesBefore(p, r, q)
          BY <4>7, <4>5 DEF Evictions
        <4> QED BY <2>0, <4>2, <4>5, <4>8, <4>6 DEF GoesBefore
      <3> QED BY <3>1, <3>2
    <2> QED BY <2>1, <2>2, <2>3, <2>4
         DEF HealthNext, Answered, NoteSuccess, Fails, NoteTimeout, FindSilent, AutoDisable, Reactivate
  <1> QED BY <1>1, RecordIsKept, PTL DEF HealthSpec, TimedOutGoFirst

(* The record of a resolver has the room it is given: there are never more *)
(* samples than the hard cap (evictResolverPendingLocked).                 *)
THEOREM HealthTypes == HealthSpec => []HealthTypeOK
  <1>1. ASSUME HealthInv PROVE HealthTypeOK
    <2>1. \A q \in Queries : samples[q].age \in 0..TTL + Gap
      BY <1>1, HealthConstants DEF HealthInv, SamplesInv
    <2>2. samples \in [Queries -> [at : {"none", "sent", "timedOut"}, age : 0..TTL + Gap]]
      <3>1. samples \in [Queries -> [at : {"none", "sent", "timedOut"}, age : Nat]]
        BY <1>1 DEF HealthInv, SamplesInv
      <3> QED BY <2>1, <3>1
    <2> QED BY <1>1, <2>2 DEF HealthInv, SamplesInv, RecordInv, HealthTypeOK
  <1> QED BY <1>1, RecordIsKept, PTL

-----------------------------------------------------------------------------
(* The parts side by side.                                                 *)

(* A behaviour of the model that runs one of the parts is a behaviour of   *)
(* each of them, the others standing still: what is proved of a part holds *)
(* in it.                                                                  *)
THEOREM PartsAreIndependent == MCSpec => CacheSpec /\ DequeueSpec /\ HealthSpec
  <1>1. MCInit => CacheInit /\ DequeueInit /\ HealthInit
    BY DEF MCInit
  <1>2. [MCNext]_mcVars => /\ [CacheNext]_cacheVars
                           /\ [DequeueNext]_dequeueVars
                           /\ [HealthNext]_healthVars
    <2>1. UNCHANGED mcVars => UNCHANGED cacheVars /\ UNCHANGED dequeueVars /\ UNCHANGED healthVars
      BY DEF mcVars
    <2> QED BY <2>1 DEF MCNext
  <1> QED BY <1>1, <1>2, PTL DEF MCSpec, CacheSpec, DequeueSpec, HealthSpec

(* Every part keeps its types and its limits.                              *)
THEOREM PartsTypes == MCSpec => []TypeOK
  <1>1. CacheTypeOK /\ DequeueTypeOK /\ HealthTypeOK => TypeOK
    BY DEF TypeOK
  <1> QED BY <1>1, PartsAreIndependent, CacheTypes, DequeueTypes, HealthTypes, PTL

=============================================================================
