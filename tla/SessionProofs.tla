--------------------------- MODULE SessionProofs ---------------------------
(***************************************************************************)
(* Session for every number of clients, slots, cookies, workers and verify *)
(* codes: type correctness, agreement of the server's four session         *)
(* indexes, and that no requested restart is swallowed.                    *)
(***************************************************************************)
EXTENDS Session, FiniteSetTheorems, WellFoundedInduction, TLAPS

LiveSlots == {s \in Slots : Live(s)}

StoreType ==
  /\ byID \in [Slots -> Record \cup {None}]
  /\ bySig \in [Sigs -> 0..MaxSlot]
  /\ recentClosed \in [Slots -> [cookie : Cookies] \cup {None}]
  /\ nextID \in Slots

NetworkType ==
  /\ notice \in [Workers -> Sessions \cup {None}]
  /\ asked \subseteq Sigs
  /\ closes \subseteq Sessions
  /\ answers \subseteq Answers

ClientType ==
  /\ phase \in [Clients -> Phases]
  /\ gen \in [Clients -> 1..MaxInits]
  /\ held \in [Clients -> Sessions \cup {None}]
  /\ pending \in [Clients -> BOOLEAN]
  /\ signal \in [Clients -> BOOLEAN]
  /\ asker \in [Clients -> [Askers -> BOOLEAN]]

StoreInv == StoreType /\ StoreIsConsistent

\* No flag is up while the channel is emptied, and a client that will draw
\* another verify code has one left.
PhasesAreSound ==
  \A c \in Clients :
    /\ phase[c] = "draining" => ~pending[c]
    /\ phase[c] \in {"stopping", "stopped", "down"} => gen[c] < MaxInits

ClientInv == ClientType /\ RestartIsSignalled /\ PhasesAreSound

IInv == StoreInv /\ NetworkType /\ ClientInv

-----------------------------------------------------------------------------
(* The session table.                                                      *)

\* The table is finite, and so is any part of it.
LEMMA SlotsFinite ==
  /\ IsFiniteSet(Slots) /\ Cardinality(Slots) = MaxSlot
  /\ \A T \in SUBSET Slots : IsFiniteSet(T) /\ Cardinality(T) \in 0..MaxSlot
<1>1. IsFiniteSet(Slots) /\ Cardinality(Slots) = MaxSlot
  BY MaxSlotAssumption, FS_Interval DEF Slots
<1>2. ASSUME NEW T \in SUBSET Slots
      PROVE  IsFiniteSet(T) /\ Cardinality(T) \in 0..MaxSlot
  <2>1. IsFiniteSet(T) /\ Cardinality(T) <= MaxSlot
    BY <1>1, FS_Subset
  <2>2. Cardinality(T) \in Nat
    BY <2>1, FS_CardinalityType
  <2> QED BY <2>1, <2>2, MaxSlotAssumption
<1> QED BY <1>1, <1>2

\* A record is not None.
LEMMA RecordIsSome ==
  ASSUME NEW x, NEW ck, NEW b
  PROVE  [sig |-> x, cookie |-> ck, reusable |-> b] # None
<1>1. "sig" \in DOMAIN [sig |-> x, cookie |-> ck, reusable |-> b]
  OBVIOUS
<1>2. "sig" \notin DOMAIN None
  BY DEF None
<1> QED BY <1>1, <1>2

\* allocateSlotLocked returns a free slot when there is one.
LEMMA AllocateSlotIsFree ==
  ASSUME nextID \in Slots, FreeSlots # {}
  PROVE  AllocateSlot \in FreeSlots /\ AllocateSlot \in Slots /\ ~Live(AllocateSlot)
<1> DEFINE Distance(s) == (s - nextID + MaxSlot) % MaxSlot
           D == {Distance(s) : s \in FreeSlots}
<1>1. FreeSlots \subseteq Slots
  BY DEF FreeSlots
<1>2. D \subseteq Nat /\ D # {}
  <2>1. ASSUME NEW s \in FreeSlots PROVE Distance(s) \in Nat
    <3>1. s - nextID + MaxSlot \in Int
      BY <1>1, MaxSlotAssumption DEF Slots
    <3>2. (s - nextID + MaxSlot) % MaxSlot \in 0 .. MaxSlot - 1
      BY <3>1, MaxSlotAssumption
    <3> QED BY <3>2, MaxSlotAssumption
  <2> QED BY <2>1
<1>3. PICK m \in D : \A d \in D : ~(<<d, m>> \in OpToRel(<, Nat))
  BY <1>2, WFMin, NatLessThanWellFounded
<1>4. ASSUME NEW s \in FreeSlots, NEW r \in FreeSlots, m = Distance(s)
      PROVE  m <= Distance(r)
  <2> DEFINE d == Distance(r)
  <2>1. d \in D /\ d \in Nat /\ m \in Nat
    BY <1>2
  <2> HIDE DEF d, D
  <2>2. ~(<<d, m>> \in OpToRel(<, Nat))
    BY <1>3, <2>1
  <2>3. ~(d < m)
    BY <2>1, <2>2 DEF OpToRel
  <2> QED BY <2>1, <2>3 DEF d
<1>5. \E s \in FreeSlots : \A r \in FreeSlots : Distance(s) <= Distance(r)
  BY <1>4
<1>6. AllocateSlot \in FreeSlots
  BY <1>5 DEF AllocateSlot
<1> QED BY <1>1, <1>6 DEF FreeSlots

\* expireReuseLocked only forgets.
LEMMA ExpireReuseForgets ==
  ASSUME StoreType
  PROVE  /\ ExpireReuse \in [Sigs -> 0..MaxSlot]
         /\ \A x \in Sigs : ExpireReuse[x] # 0 =>
              ExpireReuse[x] = bySig[x] /\ ExpireReuse[x] \in Slots /\ Live(ExpireReuse[x])
BY MaxSlotAssumption DEF StoreType, ExpireReuse, Slots

\* Forgetting expired signatures disturbs nothing.
LEMMA ExpireReuseInv ==
  ASSUME StoreInv, bySig' = ExpireReuse,
         UNCHANGED <<byID, recentClosed, activeCount, nextID>>
  PROVE  StoreInv'
<1>1. StoreType'
  BY ExpireReuseForgets DEF StoreInv, StoreType
<1>2. SignaturesAreSound'
  BY ExpireReuseForgets DEF StoreInv, StoreIsConsistent, SignaturesAreSound, Live
<1>3. ClosedAreGone' /\ CountIsExact'
  BY DEF StoreInv, StoreIsConsistent, ClosedAreGone, CountIsExact, Live
<1> QED BY <1>1, <1>2, <1>3 DEF StoreInv, StoreIsConsistent

\* findOrCreate puts a new record into a free slot.
LEMMA CreateRecordInv ==
  ASSUME StoreInv, NEW x \in Sigs, NEW s \in Slots, NEW ck \in Cookies,
         ~Live(s), CreateRecord(x, s, ck)
  PROVE  StoreInv'
<1> DEFINE new == [sig |-> x, cookie |-> ck, reusable |-> TRUE]
<1>1. new \in Record /\ new # None /\ new.sig = x
  BY RecordIsSome DEF Record
<1> HIDE DEF new
<1>2. byID' = [byID EXCEPT ![s] = new]
  BY DEF CreateRecord, new
<1>3. nextID' \in Slots
  BY MaxSlotAssumption DEF CreateRecord, Slots
<1>4. s \in 0..MaxSlot /\ s # 0
  BY MaxSlotAssumption DEF Slots
<1>5. StoreType'
  <2>1. byID' \in [Slots -> Record \cup {None}]
    BY <1>1, <1>2 DEF StoreInv, StoreType
  <2>2. bySig' \in [Sigs -> 0..MaxSlot]
    BY <1>4, ExpireReuseForgets DEF StoreInv, CreateRecord
  <2>3. recentClosed' \in [Slots -> [cookie : Cookies] \cup {None}]
    BY DEF StoreInv, StoreType, CreateRecord
  <2> QED BY <1>3, <2>1, <2>2, <2>3 DEF StoreType
<1>6. SignaturesAreSound'
  <2> SUFFICES ASSUME NEW y \in Sigs, bySig'[y] # 0
               PROVE  byID'[bySig'[y]] # None /\ byID'[bySig'[y]].sig = y
    BY DEF SignaturesAreSound, Live
  <2>1. CASE y = x
    <3>1. bySig'[y] = s
      BY <2>1, ExpireReuseForgets DEF StoreInv, CreateRecord
    <3>2. byID'[s] = new
      BY <1>2 DEF StoreInv, StoreType
    <3> QED BY <3>1, <3>2, <1>1, <2>1
  <2>2. CASE y # x
    <3>1. bySig'[y] = ExpireReuse[y]
      BY <2>2, ExpireReuseForgets DEF StoreInv, CreateRecord
    <3>2. bySig'[y] = bySig[y] /\ bySig[y] \in Slots /\ Live(bySig[y])
      BY <3>1, ExpireReuseForgets DEF StoreInv
    <3>3. byID'[bySig[y]] = byID[bySig[y]]
      BY <1>2, <3>2 DEF StoreInv, StoreType
    <3> QED BY <3>2, <3>3 DEF StoreInv, StoreIsConsistent, SignaturesAreSound, Live
  <2> QED BY <2>1, <2>2
<1>7. ClosedAreGone'
  BY <1>1, <1>2 DEF StoreInv, StoreType, StoreIsConsistent, ClosedAreGone, Live, CreateRecord
<1>8. CountIsExact'
  <2>1. LiveSlots' = LiveSlots \cup {s} /\ s \notin LiveSlots
    BY <1>1, <1>2 DEF StoreInv, StoreType, LiveSlots, Live
  <2>2. Cardinality(LiveSlots') = Cardinality(LiveSlots) + 1
    BY <2>1, SlotsFinite, FS_AddElement DEF LiveSlots
  <2> QED BY <2>2 DEF CreateRecord, StoreInv, StoreIsConsistent, CountIsExact, LiveSlots
<1> QED BY <1>5, <1>6, <1>7, <1>8 DEF StoreInv, StoreIsConsistent

\* Close and Cleanup take records out of every index.
LEMMA RemoveRecordsInv ==
  ASSUME StoreInv, NEW dead \in SUBSET LiveSlots, NEW sigs, NEW closed,
         sigs \in [Sigs -> 0..MaxSlot],
         \A x \in Sigs : sigs[x] \in {0, bySig[x]},
         closed \in [Slots -> [cookie : Cookies] \cup {None}],
         \A s \in Slots : closed[s] \in {None, recentClosed[s]},
         RemoveRecords(dead, sigs, closed)
  PROVE  StoreInv'
<1>1. \A s \in dead : s \in Slots /\ byID[s] \in Record
  BY DEF LiveSlots, Live, StoreInv, StoreType
<1>2. StoreType'
  <2>1. byID' \in [Slots -> Record \cup {None}] /\ nextID' \in Slots
    BY DEF RemoveRecords, StoreInv, StoreType
  <2>2. bySig' \in [Sigs -> 0..MaxSlot]
    BY MaxSlotAssumption DEF RemoveRecords
  <2>3. recentClosed' \in [Slots -> [cookie : Cookies] \cup {None}]
    BY <1>1 DEF RemoveRecords, Record
  <2> QED BY <2>1, <2>2, <2>3 DEF StoreType
<1>3. SignaturesAreSound'
  <2> SUFFICES ASSUME NEW x \in Sigs, bySig'[x] # 0
               PROVE  byID'[bySig'[x]] # None /\ byID'[bySig'[x]].sig = x
    BY DEF SignaturesAreSound, Live
  <2>1. bySig'[x] = bySig[x] /\ \A s \in dead : byID[s].sig # x
    BY DEF RemoveRecords
  <2>2. Live(bySig[x]) /\ byID[bySig[x]].sig = x /\ bySig[x] \in Slots
    BY <2>1, MaxSlotAssumption
       DEF StoreInv, StoreType, StoreIsConsistent, SignaturesAreSound, Slots
  <2>3. byID'[bySig[x]] = byID[bySig[x]]
    BY <2>1, <2>2 DEF RemoveRecords
  <2> QED BY <2>1, <2>2, <2>3 DEF Live
<1>4. ClosedAreGone'
  BY DEF RemoveRecords, StoreInv, StoreIsConsistent, ClosedAreGone, Live
<1>5. CountIsExact'
  <2>1. LiveSlots' = LiveSlots \ dead
    BY DEF RemoveRecords, LiveSlots, Live
  <2>2. Cardinality(LiveSlots') = Cardinality(LiveSlots) - Cardinality(dead)
    <3>1. dead \in SUBSET Slots /\ LiveSlots \cap dead = dead
      BY DEF LiveSlots
    <3>2. Cardinality(LiveSlots \ dead) = Cardinality(LiveSlots) - Cardinality(LiveSlots \cap dead)
      BY SlotsFinite, FS_Difference DEF LiveSlots
    <3> QED BY <2>1, <3>1, <3>2
  <2> QED BY <2>2 DEF RemoveRecords, StoreInv, StoreIsConsistent, CountIsExact, LiveSlots
<1> QED BY <1>2, <1>3, <1>4, <1>5 DEF StoreInv, StoreIsConsistent

-----------------------------------------------------------------------------
(* What a handler leaves alone.                                            *)

\* The store's invariant depends on the store only.
LEMMA StoreFrame == StoreInv /\ UNCHANGED store => StoreInv'
BY DEF StoreInv, StoreType, StoreIsConsistent, SignaturesAreSound, ClosedAreGone,
       CountIsExact, Live, store

\* The client's invariant depends on clients and their restarts only.
LEMMA ClientFrame == ClientInv /\ UNCHANGED <<client, restart>> => ClientInv'
BY DEF ClientInv, ClientType, RestartIsSignalled, PhasesAreSound, client, restart

\* An answer is well typed, heard or not.
LEMMA AnswerType ==
  ASSUME NetworkType, NEW x, NEW a \in Answers, NEW open, Answer(x, a, open)
  PROVE  answers' \subseteq Answers
BY DEF NetworkType, Answer

\* A session that is accepted is one of the table's.
LEMMA AcceptType ==
  ASSUME NetworkType, NEW x \in Sigs, NEW s \in Slots, NEW ck \in Cookies, Accept(x, s, ck)
  PROVE  answers' \subseteq Answers
<1> DEFINE a == [type |-> "ACCEPT", to |-> x, session |-> [id |-> s, cookie |-> ck]]
<1>1. a \in Answers
  BY DEF Answers, Sessions
<1> QED BY <1>1, AnswerType DEF Accept

-----------------------------------------------------------------------------
(* Server steps.                                                           *)

\* A SESSION_INIT the store still knows is accepted again.
LEMMA ReuseSessionInv ==
  ASSUME NEW x \in Sigs PROVE IInv /\ ReuseSession(x) => IInv'
<1> SUFFICES ASSUME IInv, ReuseSession(x) PROVE IInv'
  OBVIOUS
<1>1. StoreInv'
  BY ExpireReuseInv DEF IInv, ReuseSession
<1>2. NetworkType'
  <2>1. ExpireReuse[x] \in Slots /\ Live(ExpireReuse[x])
    BY ExpireReuseForgets DEF IInv, StoreInv, ReuseSession
  <2>2. byID[ExpireReuse[x]].cookie \in Cookies
    BY <2>1 DEF IInv, StoreInv, StoreType, Record, Live
  <2>3. answers' \subseteq Answers
    BY <2>1, <2>2, AcceptType DEF IInv, ReuseSession
  <2> QED BY <2>3 DEF IInv, NetworkType, ReuseSession
<1>3. ClientInv'
  BY ClientFrame DEF IInv, ReuseSession
<1> QED BY <1>1, <1>2, <1>3 DEF IInv

\* A new SESSION_INIT gets a free slot.
LEMMA CreateSessionInv ==
  ASSUME NEW x \in Sigs PROVE IInv /\ CreateSession(x) => IInv'
<1> SUFFICES ASSUME IInv, CreateSession(x) PROVE IInv'
  OBVIOUS
<1>1. AllocateSlot \in Slots /\ ~Live(AllocateSlot)
  BY AllocateSlotIsFree DEF IInv, StoreInv, StoreType, CreateSession
<1>2. PICK ck \in Cookies : CreateRecord(x, AllocateSlot, ck) /\ Accept(x, AllocateSlot, ck)
  BY DEF CreateSession
<1>3. StoreInv'
  BY <1>1, <1>2, CreateRecordInv DEF IInv
<1>4. NetworkType'
  <2>1. answers' \subseteq Answers
    BY <1>1, <1>2, AcceptType DEF IInv
  <2> QED BY <2>1 DEF IInv, NetworkType, CreateSession
<1>5. ClientInv'
  BY ClientFrame DEF IInv, CreateSession
<1> QED BY <1>3, <1>4, <1>5 DEF IInv

\* A full table answers busy.
LEMMA RefuseSessionInv ==
  ASSUME NEW x \in Sigs PROVE IInv /\ RefuseSession(x) => IInv'
<1> SUFFICES ASSUME IInv, RefuseSession(x) PROVE IInv'
  OBVIOUS
<1>1. StoreInv'
  BY ExpireReuseInv DEF IInv, RefuseSession
<1>2. [type |-> "BUSY", to |-> x] \in Answers
  BY DEF Answers
<1>3. answers' \subseteq Answers
  BY <1>2, AnswerType DEF IInv, RefuseSession
<1>4. NetworkType' /\ ClientInv'
  BY <1>3, ClientFrame DEF IInv, NetworkType, RefuseSession
<1> QED BY <1>1, <1>4 DEF IInv

\* A packet of a session that is gone is answered with an ERROR_DROP.
LEMMA DropDataInv ==
  ASSUME NEW c \in Clients PROVE IInv /\ DropData(c) => IInv'
<1> SUFFICES ASSUME IInv, DropData(c) PROVE IInv'
  OBVIOUS
<1>1. [type |-> "DROP", to |-> Socket(c)] \in Answers
  BY DEF Answers, Socket, Sigs, IInv, ClientInv, ClientType
<1>2. answers' \subseteq Answers
  BY <1>1, AnswerType DEF IInv, DropData
<1>3. StoreInv' /\ NetworkType' /\ ClientInv'
  BY <1>2, StoreFrame, ClientFrame DEF IInv, NetworkType, DropData
<1> QED BY <1>3 DEF IInv

\* The two halves of a SESSION_CLOSE's handler.
LEMMA CloseInv ==
  ASSUME NEW w \in Workers
  PROVE  IInv /\ (CloseNoticed(w) \/ \E m \in closes : LookupForClose(w, m)) => IInv'
<1>1. ASSUME IInv, CloseNoticed(w) PROVE IInv'
  <2>1. StoreInv'
    <3>1. CASE Live(notice[w].id)
      <4>1. notice[w].id \in Slots
        BY <1>1 DEF IInv, NetworkType, CloseNoticed, Sessions
      <4>2. {notice[w].id} \in SUBSET LiveSlots
        BY <3>1, <4>1 DEF LiveSlots
      <4>3. /\ bySig \in [Sigs -> 0..MaxSlot]
            /\ recentClosed \in [Slots -> [cookie : Cookies] \cup {None}]
        BY <1>1 DEF IInv, StoreInv, StoreType
      <4> QED BY <1>1, <3>1, <4>2, <4>3, RemoveRecordsInv DEF IInv, CloseNoticed
    <3>2. CASE ~Live(notice[w].id)
      BY <1>1, <3>2, StoreFrame DEF IInv, CloseNoticed
    <3> QED BY <3>1, <3>2
  <2>2. NetworkType'
    BY <1>1 DEF IInv, NetworkType, CloseNoticed, network
  <2>3. ClientInv'
    BY <1>1, ClientFrame DEF IInv, CloseNoticed
  <2> QED BY <2>1, <2>2, <2>3 DEF IInv
<1>2. ASSUME IInv, NEW m \in closes, LookupForClose(w, m) PROVE IInv'
  <2>1. StoreInv' /\ ClientInv'
    BY <1>2, StoreFrame, ClientFrame DEF IInv, LookupForClose
  <2>2. NetworkType'
    BY <1>2 DEF IInv, NetworkType, LookupForClose, network
  <2> QED BY <2>1, <2>2 DEF IInv
<1> QED BY <1>1, <1>2

\* The clean-up timer.
LEMMA CleanupInv ==
  ASSUME NEW idle \in SUBSET LiveSlots, NEW forgotten \in SUBSET Slots
  PROVE  IInv /\ Cleanup(idle, forgotten) => IInv'
<1> SUFFICES ASSUME IInv, Cleanup(idle, forgotten) PROVE IInv'
  OBVIOUS
<1> DEFINE closed == [s \in Slots |-> IF s \in forgotten THEN None ELSE recentClosed[s]]
<1>1. /\ closed \in [Slots -> [cookie : Cookies] \cup {None}]
      /\ \A s \in Slots : closed[s] \in {None, recentClosed[s]}
  BY DEF IInv, StoreInv, StoreType
<1>2. /\ ExpireReuse \in [Sigs -> 0..MaxSlot]
      /\ \A x \in Sigs : ExpireReuse[x] \in {0, bySig[x]}
  BY ExpireReuseForgets DEF IInv, StoreInv
<1>3. RemoveRecords(idle, ExpireReuse, closed)
  BY DEF Cleanup
<1> HIDE DEF closed
<1>4. StoreInv'
  BY <1>1, <1>2, <1>3, RemoveRecordsInv DEF IInv
<1>5. NetworkType' /\ ClientInv'
  BY ClientFrame DEF IInv, NetworkType, Cleanup, network
<1> QED BY <1>4, <1>5 DEF IInv

\* A session's signature gets too old to be reused.
LEMMA ReuseExpiresInv ==
  ASSUME NEW s \in Slots PROVE IInv /\ ReuseExpires(s) => IInv'
<1> SUFFICES ASSUME IInv, ReuseExpires(s) PROVE IInv'
  OBVIOUS
<1>1. byID[s] \in Record
  BY DEF IInv, StoreInv, StoreType, ReuseExpires, Live
<1> DEFINE new == [byID[s] EXCEPT !.reusable = FALSE]
<1>2. new \in Record /\ new.sig = byID[s].sig /\ new # None
  <2>1. new \in Record /\ new.sig = byID[s].sig
    BY <1>1 DEF Record
  <2>2. \A r \in Record : "sig" \in DOMAIN r
    BY DEF Record
  <2>3. "sig" \notin DOMAIN None
    BY DEF None
  <2> QED BY <2>1, <2>2, <2>3
<1>3. byID' = [byID EXCEPT ![s] = new]
  BY DEF ReuseExpires
<1> HIDE DEF new
<1>4. \A r \in Slots : /\ Live(r)' <=> Live(r)
                       /\ byID'[r].sig = byID[r].sig
  BY <1>2, <1>3 DEF IInv, StoreInv, StoreType, ReuseExpires, Live
<1>5. StoreType'
  BY <1>2, <1>3 DEF IInv, StoreInv, StoreType, ReuseExpires
<1>6. SignaturesAreSound'
  <2>1. \A x \in Sigs : bySig[x] # 0 => bySig[x] \in Slots
    BY MaxSlotAssumption DEF IInv, StoreInv, StoreType, Slots
  <2> QED BY <1>4, <2>1 DEF IInv, StoreInv, StoreIsConsistent, SignaturesAreSound, ReuseExpires
<1>7. ClosedAreGone'
  BY <1>4 DEF IInv, StoreInv, StoreIsConsistent, ClosedAreGone, ReuseExpires
<1>8. CountIsExact'
  <2>1. LiveSlots' = LiveSlots
    BY <1>4 DEF LiveSlots
  <2> QED BY <2>1 DEF IInv, StoreInv, StoreIsConsistent, CountIsExact, LiveSlots, ReuseExpires
<1>9. NetworkType' /\ ClientInv'
  BY ClientFrame DEF IInv, NetworkType, ReuseExpires, network
<1> QED BY <1>5, <1>6, <1>7, <1>8, <1>9 DEF IInv, StoreInv, StoreIsConsistent

-----------------------------------------------------------------------------
(* Client steps.                                                           *)

\* A client's step changes no session and hears or loses answers.
Aside == UNCHANGED store /\ notice' = notice /\ answers' \subseteq answers

\* Such a step keeps the store and the network in shape.
LEMMA AsideInv ==
  IInv /\ Aside /\ asked' \subseteq Sigs /\ closes' \subseteq Sessions
    => StoreInv' /\ NetworkType'
BY StoreFrame DEF IInv, NetworkType, Aside

\* The rounds of InitializeSession.
LEMMA RoundInv ==
  ASSUME NEW c \in Clients
  PROVE  IInv /\ (StartRound(c) \/ Accepted(c) \/ RoundFails(c)) => IInv'
<1>1. ASSUME IInv, StartRound(c) PROVE IInv'
  <2>1. Aside BY <1>1 DEF Aside, StartRound
  <2>2. asked' \subseteq Sigs /\ closes' \subseteq Sessions
    BY <1>1 DEF IInv, NetworkType, ClientInv, ClientType, StartRound, Socket, Sigs
  <2>3. ClientType'
    BY <1>1 DEF IInv, ClientInv, ClientType, StartRound, restart, Phases
  <2>4. RestartIsSignalled' /\ PhasesAreSound'
    BY <1>1 DEF IInv, ClientInv, ClientType, StartRound, restart, RestartIsSignalled, PhasesAreSound
  <2> QED BY <1>1, <2>1, <2>2, <2>3, <2>4, AsideInv DEF IInv, ClientInv
<1>2. ASSUME IInv, Accepted(c) PROVE IInv'
  <2>1. Aside BY <1>2 DEF Aside, Accepted
  <2>2. asked' \subseteq Sigs /\ closes' \subseteq Sessions
    BY <1>2 DEF IInv, NetworkType, Accepted
  <2>3. PICK a \in Mine(c) : a.type = "ACCEPT" /\ held' = [held EXCEPT ![c] = a.session]
    BY <1>2 DEF Accepted
  <2>4. a.session \in Sessions
    BY <1>2, <2>3 DEF IInv, NetworkType, Mine, Answers
  <2>5. ClientType'
    BY <1>2, <2>3, <2>4 DEF IInv, ClientInv, ClientType, Accepted, restart, Phases
  <2>6. RestartIsSignalled' /\ PhasesAreSound'
    BY <1>2 DEF IInv, ClientInv, ClientType, Accepted, restart, RestartIsSignalled, PhasesAreSound
  <2> QED BY <1>2, <2>1, <2>2, <2>5, <2>6, AsideInv DEF IInv, ClientInv
<1>3. ASSUME IInv, RoundFails(c) PROVE IInv'
  <2>1. Aside /\ asked' \subseteq Sigs /\ closes' \subseteq Sessions
    BY <1>3 DEF Aside, RoundFails, network, IInv, NetworkType
  <2>2. ClientType'
    BY <1>3 DEF IInv, ClientInv, ClientType, RoundFails, restart, Phases
  <2>3. RestartIsSignalled' /\ PhasesAreSound'
    BY <1>3 DEF IInv, ClientInv, ClientType, RoundFails, restart, RestartIsSignalled, PhasesAreSound
  <2> QED BY <1>3, <2>1, <2>2, <2>3, AsideInv DEF IInv, ClientInv
<1> QED BY <1>1, <1>2, <1>3

\* A goroutine's request: whoever sets the flag owes the channel a signal.
LEMMA AskInv ==
  ASSUME NEW c \in Clients, NEW t \in Askers
  PROVE  ClientInv /\ Ask(c, t) => ClientInv'
<1> SUFFICES ASSUME ClientInv, Ask(c, t) PROVE ClientInv'
  OBVIOUS
<1>1. ClientType'
  BY DEF ClientInv, ClientType, Ask, client
<1>2. \A d \in Clients \ {c} : pending'[d] = pending[d] /\ asker'[d] = asker[d]
  BY DEF ClientInv, ClientType, Ask
<1>3. /\ asker'[c][t] = ~pending[c]
      /\ \A u \in Askers \ {t} : asker'[c][u] = asker[c][u]
  BY DEF ClientInv, ClientType, Ask
<1>4. \E u \in Askers : asker[c][u] => \E v \in Askers : asker'[c][v]
  BY <1>3 DEF Ask
<1>5. RestartIsSignalled'
  <2> SUFFICES ASSUME NEW d \in Clients, pending'[d]
               PROVE  \/ signal'[d]
                      \/ \E u \in Askers : asker'[d][u]
                      \/ phase'[d] \in {"stopping", "stopped", "clearing"}
    BY DEF RestartIsSignalled
  <2>1. signal' = signal /\ phase' = phase
    BY DEF Ask, client
  <2>2. CASE d # c
    BY <1>2, <2>1, <2>2 DEF ClientInv, RestartIsSignalled
  <2>3. CASE d = c /\ ~pending[c]
    BY <1>3, <2>3
  <2>4. CASE d = c /\ pending[c]
    <3>1. \A u \in Askers : asker[c][u] => asker'[c][u]
      BY <1>3 DEF Ask
    <3> QED BY <2>1, <2>4, <3>1 DEF ClientInv, RestartIsSignalled
  <2> QED BY <2>2, <2>3, <2>4
<1>6. PhasesAreSound'
  BY <1>2 DEF ClientInv, ClientType, PhasesAreSound, Ask, client
<1> QED BY <1>1, <1>5, <1>6 DEF ClientInv

\* An ERROR_DROP, the watchdog, and the send that follows either.
LEMMA RequestInv ==
  ASSUME NEW c \in Clients, NEW t \in Askers
  PROVE  IInv /\ (ErrorDrop(c) \/ Watchdog(c) \/ SendSignal(c, t)) => IInv'
<1>1. ASSUME IInv, ErrorDrop(c) PROVE IInv'
  <2>1. Aside /\ asked' \subseteq Sigs /\ closes' \subseteq Sessions
    BY <1>1 DEF Aside, ErrorDrop, Ask, IInv, NetworkType
  <2>2. ClientInv'
    BY <1>1, AskInv DEF IInv, ErrorDrop, Askers
  <2> QED BY <1>1, <2>1, <2>2, AsideInv DEF IInv
<1>2. ASSUME IInv, Watchdog(c) PROVE IInv'
  <2>1. Aside /\ asked' \subseteq Sigs /\ closes' \subseteq Sessions
    BY <1>2 DEF Aside, Watchdog, Ask, IInv, NetworkType
  <2>2. ClientInv'
    BY <1>2, AskInv DEF IInv, Watchdog, Askers
  <2> QED BY <1>2, <2>1, <2>2, AsideInv DEF IInv
<1>3. ASSUME IInv, SendSignal(c, t) PROVE IInv'
  <2>1. Aside /\ asked' \subseteq Sigs /\ closes' \subseteq Sessions
    BY <1>3 DEF Aside, SendSignal, network, IInv, NetworkType
  <2>2. ClientType'
    BY <1>3 DEF IInv, ClientInv, ClientType, SendSignal, client
  <2>3. RestartIsSignalled'
    <3> SUFFICES ASSUME NEW d \in Clients, pending'[d]
                 PROVE  \/ signal'[d]
                        \/ \E u \in Askers : asker'[d][u]
                        \/ phase'[d] \in {"stopping", "stopped", "clearing"}
      BY DEF RestartIsSignalled
    <3>1. CASE d = c
      BY <1>3, <3>1 DEF IInv, ClientInv, ClientType, SendSignal
    <3>2. CASE d # c
      <4>1. signal'[d] = signal[d] /\ asker'[d] = asker[d]
        BY <1>3, <3>2 DEF IInv, ClientInv, ClientType, SendSignal
      <4> QED BY <1>3, <4>1 DEF IInv, ClientInv, RestartIsSignalled, SendSignal, client
    <3> QED BY <3>1, <3>2
  <2>4. PhasesAreSound'
    BY <1>3 DEF IInv, ClientInv, PhasesAreSound, SendSignal, client
  <2> QED BY <1>3, <2>1, <2>2, <2>3, <2>4, AsideInv DEF IInv, ClientInv
<1> QED BY <1>1, <1>2, <1>3

\* Run takes the signal and works through the restart; the flag falls before
\* the channel is emptied for the last time.
LEMMA RestartInv ==
  ASSUME NEW c \in Clients
  PROVE  IInv /\ (\/ TakeSignal(c) \/ RuntimeStopped(c) \/ ResetState(c)
                  \/ ClearPending(c) \/ DrainSignal(c)) => IInv'
<1> SUFFICES ASSUME IInv,
                    \/ TakeSignal(c) \/ RuntimeStopped(c) \/ ResetState(c)
                    \/ ClearPending(c) \/ DrainSignal(c)
             PROVE  IInv'
  OBVIOUS
<1> USE DEF TakeSignal, RuntimeStopped, ResetState, ClearPending, DrainSignal, Goes
<1>1. Aside
  BY DEF Aside, network
<1>2. asked' \subseteq Sigs /\ closes' \subseteq Sessions
  BY DEF IInv, NetworkType, network
<1>3. ClientType'
  <2>1. phase' \in [Clients -> Phases]
    BY DEF IInv, ClientInv, ClientType, Phases
  <2>2. gen' \in [Clients -> 1..MaxInits]
    <3>1. phase[c] = "stopped" => gen[c] < MaxInits
      BY DEF IInv, ClientInv, PhasesAreSound
    <3> QED BY <3>1, MaxInitsAssumption DEF IInv, ClientInv, ClientType
  <2>3. held' \in [Clients -> Sessions \cup {None}]
    BY DEF IInv, ClientInv, ClientType
  <2>4. /\ pending' \in [Clients -> BOOLEAN]
        /\ signal' \in [Clients -> BOOLEAN]
        /\ asker' \in [Clients -> [Askers -> BOOLEAN]]
    BY DEF IInv, ClientInv, ClientType, restart
  <2> QED BY <2>1, <2>2, <2>3, <2>4 DEF ClientType
<1>4. asker' = asker
  BY DEF restart
<1>5. \A d \in Clients \ {c} : /\ phase'[d] = phase[d] /\ gen'[d] = gen[d]
                               /\ pending'[d] = pending[d] /\ signal'[d] = signal[d]
  BY DEF IInv, ClientInv, ClientType, restart
<1>6. RestartIsSignalled'
  <2> SUFFICES ASSUME NEW d \in Clients, pending'[d]
               PROVE  \/ signal'[d]
                      \/ \E u \in Askers : asker'[d][u]
                      \/ phase'[d] \in {"stopping", "stopped", "clearing"}
    BY DEF RestartIsSignalled
  <2>1. CASE d # c
    BY <1>4, <1>5, <2>1 DEF IInv, ClientInv, RestartIsSignalled
  <2>2. CASE d = c
    <3>1. TakeSignal(c) \/ RuntimeStopped(c) \/ ResetState(c)
          => phase'[d] \in {"stopping", "stopped", "clearing"}
      BY <2>2 DEF IInv, ClientInv, ClientType
    <3>2. ~ClearPending(c)
      BY <2>2 DEF IInv, ClientInv, ClientType
    <3>3. ~DrainSignal(c)
      BY <2>2 DEF IInv, ClientInv, PhasesAreSound
    <3> QED BY <3>1, <3>2, <3>3
  <2> QED BY <2>1, <2>2
<1>7. PhasesAreSound'
  <2> SUFFICES ASSUME NEW d \in Clients
               PROVE  /\ phase'[d] = "draining" => ~pending'[d]
                      /\ phase'[d] \in {"stopping", "stopped", "down"} => gen'[d] < MaxInits
    BY DEF PhasesAreSound
  <2>1. CASE d # c
    BY <1>5, <2>1 DEF IInv, ClientInv, PhasesAreSound
  <2>2. CASE d = c
    <3>1. phase'[c] = "draining" => ClearPending(c) /\ ~pending'[c]
      BY DEF IInv, ClientInv, ClientType
    <3>2. phase'[c] \in {"stopping", "stopped", "down"} => gen'[c] < MaxInits
      BY DEF IInv, ClientInv, ClientType, PhasesAreSound
    <3> QED BY <2>2, <3>1, <3>2
  <2> QED BY <2>1, <2>2
<1> QED BY <1>1, <1>2, <1>3, <1>6, <1>7, AsideInv DEF IInv, ClientInv

\* A client's process ends, by itself or not, and another begins.
LEMMA LifeInv ==
  ASSUME NEW c \in Clients
  PROVE  IInv /\ (Shutdown(c) \/ Crash(c) \/ Boot(c)) => IInv'
<1>1. ASSUME IInv, Ends(c), closes' \subseteq Sessions PROVE IInv'
  <2>1. Aside /\ asked' \subseteq Sigs
    BY <1>1 DEF Aside, Ends, IInv, NetworkType
  <2>2. ClientType'
    BY <1>1 DEF IInv, ClientInv, ClientType, Ends, Phases, Askers
  <2>3. RestartIsSignalled'
    <3>1. \A d \in Clients \ {c} : /\ phase'[d] = phase[d] /\ asker'[d] = asker[d]
                                   /\ pending'[d] = pending[d] /\ signal'[d] = signal[d]
      BY <1>1 DEF IInv, ClientInv, ClientType, Ends
    <3>2. ~pending'[c]
      BY <1>1 DEF IInv, ClientInv, ClientType, Ends
    <3> QED BY <1>1, <3>1, <3>2 DEF IInv, ClientInv, RestartIsSignalled
  <2>4. PhasesAreSound'
    BY <1>1 DEF IInv, ClientInv, ClientType, PhasesAreSound, Ends
  <2> QED BY <1>1, <2>1, <2>2, <2>3, <2>4, AsideInv DEF IInv, ClientInv
<1>2. ASSUME IInv, Shutdown(c) PROVE IInv'
  <2>1. closes' \subseteq Sessions
    BY <1>2 DEF IInv, NetworkType, ClientInv, ClientType, Shutdown
  <2> QED BY <1>1, <1>2, <2>1 DEF Shutdown
<1>3. ASSUME IInv, Crash(c) PROVE IInv'
  BY <1>1, <1>3 DEF Crash, IInv, NetworkType
<1>4. ASSUME IInv, Boot(c) PROVE IInv'
  <2>1. Aside /\ asked' \subseteq Sigs /\ closes' \subseteq Sessions
    BY <1>4 DEF Aside, Boot, Goes, network, IInv, NetworkType
  <2>2. gen[c] < MaxInits
    BY <1>4 DEF IInv, ClientInv, PhasesAreSound, Boot, Goes
  <2>3. ClientType'
    BY <1>4, <2>2, MaxInitsAssumption
       DEF IInv, ClientInv, ClientType, Boot, Goes, restart, Phases
  <2>4. RestartIsSignalled' /\ PhasesAreSound'
    BY <1>4 DEF IInv, ClientInv, ClientType, RestartIsSignalled, PhasesAreSound, Boot, Goes, restart
  <2> QED BY <1>4, <2>1, <2>3, <2>4, AsideInv DEF IInv, ClientInv
<1> QED BY <1>2, <1>3, <1>4

-----------------------------------------------------------------------------
(* The theorems.                                                           *)

\* The servers and clients start with nothing.
LEMMA InitInv == Init => IInv
<1> SUFFICES ASSUME Init PROVE IInv
  OBVIOUS
<1>1. StoreType /\ NetworkType
  BY MaxSlotAssumption DEF Init, StoreType, NetworkType, Slots
<1>2. StoreIsConsistent
  <2>1. {s \in Slots : Live(s)} = {}
    BY DEF Init, Live
  <2>2. CountIsExact
    BY <2>1, FS_EmptySet DEF Init, CountIsExact
  <2> QED BY <2>2 DEF Init, StoreIsConsistent, SignaturesAreSound, ClosedAreGone
<1>3. ClientInv
  BY MaxInitsAssumption
     DEF Init, ClientInv, ClientType, RestartIsSignalled, PhasesAreSound, Phases, Askers
<1> QED BY <1>1, <1>2, <1>3 DEF IInv, StoreInv

\* Every step keeps the invariant.
LEMMA StepInv == IInv /\ [Step]_system => IInv'
<1> SUFFICES ASSUME IInv, [Step]_system PROVE IInv'
  OBVIOUS
<1>1. ASSUME NEW x \in Sigs, ReuseSession(x) \/ CreateSession(x) PROVE IInv'
  BY <1>1, ReuseSessionInv, CreateSessionInv
<1>2. ASSUME NEW x \in Sigs, RefuseSession(x) PROVE IInv'
  BY <1>2, RefuseSessionInv
<1>3. ASSUME NEW w \in Workers,
             CloseNoticed(w) \/ \E m \in closes : LookupForClose(w, m)
      PROVE  IInv'
  BY <1>3, CloseInv
<1>4. ASSUME NEW idle \in SUBSET {s \in Slots : Live(s)},
             NEW forgotten \in SUBSET {s \in Slots : recentClosed[s] # None},
             Cleanup(idle, forgotten)
      PROVE  IInv'
  BY <1>4, CleanupInv DEF LiveSlots
<1>5. ASSUME NEW s \in Slots, ReuseExpires(s) PROVE IInv'
  BY <1>5, ReuseExpiresInv
<1>6. ASSUME NEW a \in answers, LoseAnswer(a) PROVE IInv'
  <2>1. Aside /\ asked' \subseteq Sigs /\ closes' \subseteq Sessions
    BY <1>6 DEF Aside, LoseAnswer, IInv, NetworkType
  <2>2. ClientInv'
    BY <1>6, ClientFrame DEF IInv, LoseAnswer
  <2> QED BY <2>1, <2>2, AsideInv DEF IInv
<1>7. ASSUME NEW c \in Clients, MainLoop(c) \/ Accepted(c) \/ RoundFails(c) PROVE IInv'
  BY <1>7, RoundInv, RestartInv DEF MainLoop
<1>8. ASSUME NEW c \in Clients, DropData(c) PROVE IInv'
  BY <1>8, DropDataInv
<1>9. ASSUME NEW c \in Clients,
             ErrorDrop(c) \/ Watchdog(c) \/ \E t \in Askers : SendSignal(c, t)
      PROVE  IInv'
  BY <1>9, RequestInv DEF Askers
<1>10. ASSUME NEW c \in Clients, Shutdown(c) \/ Crash(c) \/ Boot(c) PROVE IInv'
  BY <1>10, LifeInv
<1>11. CASE UNCHANGED system
  <2>1. UNCHANGED store /\ UNCHANGED <<client, restart>>
    BY <1>11 DEF system, store, client, restart
  <2>2. NetworkType'
    BY <1>11 DEF system, IInv, NetworkType
  <2> QED BY <2>1, <2>2, StoreFrame, ClientFrame DEF IInv
<1> QED BY <1>1, <1>2, <1>3, <1>4, <1>5, <1>6, <1>7, <1>8, <1>9, <1>10, <1>11 DEF Step

\* The invariant holds in every reachable state.
LEMMA InvHolds == Spec => [](IInv /\ busy \in BusySets)
<1>1. Init => IInv /\ busy \in BusySets
  BY InitInv DEF Init
<1>2. IInv /\ busy \in BusySets /\ [Next]_vars => (IInv /\ busy \in BusySets)'
  BY StepInv DEF Next, vars
<1> QED BY <1>1, <1>2, PTL DEF Spec

\* Every reachable state is well typed; in particular the table never counts
\* more sessions than it has slots.
THEOREM TypeCorrect == Spec => []TypeOK
<1>1. IInv /\ busy \in BusySets => TypeOK
  <2> SUFFICES ASSUME IInv, busy \in BusySets PROVE TypeOK
    OBVIOUS
  <2>1. activeCount \in 0..MaxSlot
    BY SlotsFinite DEF IInv, StoreInv, StoreIsConsistent, CountIsExact
  <2> QED BY <2>1 DEF IInv, StoreInv, StoreType, NetworkType, ClientInv, ClientType, TypeOK
<1> QED BY <1>1, InvHolds, PTL

\* The server's four session indexes agree, whatever clients, retries, delayed
\* closes and clean-ups do.
THEOREM StoreStaysConsistent == Spec => []StoreIsConsistent
<1>1. IInv => StoreIsConsistent BY DEF IInv, StoreInv
<1> QED BY <1>1, InvHolds, PTL

\* A restart that was asked for is never forgotten.
THEOREM RestartNotForgotten == Spec => []RestartIsSignalled
<1>1. IInv => RestartIsSignalled BY DEF IInv, ClientInv
<1> QED BY <1>1, InvHolds, PTL

=============================================================================
