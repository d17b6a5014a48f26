------------------------------ MODULE Session ------------------------------
(***************************************************************************)
(* Sessions: how clients obtain one, lose one and ask for another          *)
(* (internal/client/session.go, async_runtime.go, client.go Run), and the  *)
(* server's table of them (internal/udpserver/session.go sessionStore,     *)
(* server_session.go, runSessionCleanupTick).                              *)
(*                                                                         *)
(* A SESSION_INIT carries a random verify code, drawn once and kept until  *)
(* the client has an answer, so <<client, n>> - the client's n-th draw -   *)
(* stands for the ten bytes the server uses as the session's signature.    *)
(*                                                                         *)
(* DNS loses, repeats and delays queries: the server may handle any query  *)
(* that was ever sent, at any time and any number of times. "asked" and    *)
(* "closes" remember which SESSION_INITs and SESSION_CLOSEs those are; a   *)
(* delayed packet of an ended runtime only moves a session's idle clock,   *)
(* so data packets are those of running clients. An answer goes to the     *)
(* socket that asked: to an earlier round, or to a stopped runtime, it is  *)
(* lost. Time is what may happen: any session may be idle for long enough, *)
(* any signature too old.                                                  *)
(***************************************************************************)
EXTENDS Integers, FiniteSets

CONSTANTS
  Clients,      \* client processes (client.Client)
  MaxSlot,      \* session IDs are 1..MaxSlot (maxServerSessionID, 255)
  Cookies,      \* values of the one random byte that guards a session
  Workers,      \* dnsWorker goroutines that may handle a SESSION_CLOSE
  BusySets,     \* sets of clients that may keep sending packets other than pings
  MaxInits      \* bound of the model: verify codes a client draws

ASSUME MaxSlotAssumption == MaxSlot \in Nat \ {0}
ASSUME CookiesAssumption == Cookies # {}
ASSUME BusyAssumption == BusySets \subseteq SUBSET Clients
ASSUME MaxInitsAssumption == MaxInits \in Nat \ {0}

Slots == 1..MaxSlot
Sigs == Clients \X (1..MaxInits)
Sessions == [id : Slots, cookie : Cookies]
None == [none |-> TRUE]

(* The goroutines that may ask for a restart: a packet processor that got  *)
(* an ERROR_DROP, and the ping manager's watchdog.                         *)
Askers == {"processor", "ping"}

VARIABLES
  byID,          \* session ID -> its record, or None
  bySig,         \* signature -> session ID, 0 when absent
  recentClosed,  \* session ID -> cookie of its last, closed session, or None
  activeCount,
  nextID,
  notice,        \* worker -> the SESSION_CLOSE it is between Lookup and Close of, or None
  asked,         \* signatures sent in some SESSION_INIT
  closes,        \* sessions named by some SESSION_CLOSE
  answers,       \* answers on their way to a waiting client
  phase,         \* client -> where its Run loop is
  gen,           \* client -> number of the verify code it uses
  held,          \* client -> session ID and cookie it was given, or None
  pending,       \* client -> runtimeResetPending
  signal,        \* client -> whether sessionResetSignal, a channel of one, is full
  asker,         \* client -> asker -> TRUE between its CompareAndSwap and its send
  busy           \* the clients that do, in this behaviour; never changes

store == <<byID, bySig, recentClosed, activeCount, nextID>>
network == <<asked, closes, answers>>
client == <<phase, gen, held>>
restart == <<pending, signal, asker>>
system == <<byID, bySig, recentClosed, activeCount, nextID, notice, asked, closes,
            answers, phase, gen, held, pending, signal, asker>>
vars == <<system, busy>>

Record == [sig : Sigs, cookie : Cookies, reusable : BOOLEAN]
Answers == [type : {"ACCEPT"}, to : Sigs, session : Sessions]
           \cup [type : {"BUSY", "DROP"}, to : Sigs]
Phases == {"backoff", "init", "running", "stopping", "stopped", "clearing", "draining", "down"}

Init ==
  /\ byID = [s \in Slots |-> None]
  /\ bySig = [x \in Sigs |-> 0]
  /\ recentClosed = [s \in Slots |-> None]
  /\ activeCount = 0
  /\ nextID = 1
  /\ notice = [w \in Workers |-> None]
  /\ asked = {} /\ closes = {} /\ answers = {}
  /\ phase = [c \in Clients |-> "backoff"]
  /\ gen = [c \in Clients |-> 1]
  /\ held = [c \in Clients |-> None]
  /\ pending = [c \in Clients |-> FALSE]
  /\ signal = [c \in Clients |-> FALSE]
  /\ asker = [c \in Clients |-> [t \in Askers |-> FALSE]]
  /\ busy \in BusySets

Socket(c) == <<c, gen[c]>>
Mine(c) == {a \in answers : a.to = Socket(c)}
Live(s) == byID[s] # None

(* Whether the server would serve client c's packets: ValidateAndTouch.    *)
Served(c) == Live(held[c].id) /\ byID[held[c].id].cookie = held[c].cookie

Unserved(c) == phase[c] = "running" /\ ~Served(c)

-----------------------------------------------------------------------------
(* The session store.                                                      *)

(* expireReuseLocked: signatures whose record is gone or too old go.       *)
ExpireReuse ==
  [x \in Sigs |-> IF bySig[x] # 0 /\ Live(bySig[x]) /\ byID[bySig[x]].reusable
                    THEN bySig[x] ELSE 0]

(* Mutant: a slot's record is not looked at.                               *)
FreeSlotsUnchecked == IF activeCount > MaxSlot THEN {} ELSE Slots

FreeSlots == IF activeCount >= MaxSlot THEN {} ELSE {s \in Slots : ~Live(s)}

(* allocateSlotLocked: the first free slot from nextID on, around the end. *)
AllocateSlot ==
  LET Distance(s) == (s - nextID + MaxSlot) % MaxSlot
  IN  CHOOSE s \in FreeSlots : \A r \in FreeSlots : Distance(s) <= Distance(r)

(* Mutant: the slot stays in recentClosed.                                 *)
CreateRecordOverClosed(x, s, ck) ==
  /\ byID' = [byID EXCEPT ![s] = [sig |-> x, cookie |-> ck, reusable |-> TRUE]]
  /\ bySig' = [ExpireReuse EXCEPT ![x] = s]
  /\ activeCount' = activeCount + 1
  /\ nextID' = (s % MaxSlot) + 1
  /\ UNCHANGED recentClosed

(* findOrCreate's new record.                                              *)
CreateRecord(x, s, ck) ==
  /\ byID' = [byID EXCEPT ![s] = [sig |-> x, cookie |-> ck, reusable |-> TRUE]]
  /\ bySig' = [ExpireReuse EXCEPT ![x] = s]
  /\ recentClosed' = [recentClosed EXCEPT ![s] = None]
  /\ activeCount' = activeCount + 1
  /\ nextID' = (s % MaxSlot) + 1

(* The removal Close and Cleanup share, for a set of sessions: a signature *)
(* is forgotten whatever session it leads to by now.                       *)
RemoveRecords(dead, sigs, closed) ==
  /\ byID' = [s \in Slots |-> IF s \in dead THEN None ELSE byID[s]]
  /\ bySig' = [x \in Sigs |-> IF \E s \in dead : byID[s].sig = x THEN 0 ELSE sigs[x]]
  /\ recentClosed' = [s \in Slots |-> IF s \in dead THEN [cookie |-> byID[s].cookie] ELSE closed[s]]
  /\ activeCount' = activeCount - Cardinality(dead)
  /\ UNCHANGED nextID

-----------------------------------------------------------------------------
(* Server handlers.                                                        *)

(* An answer to x is heard while x's exchange, or runtime, is open.        *)
Answer(x, a, open) ==
  answers' = IF gen[x[1]] = x[2] /\ phase[x[1]] \in open THEN answers \cup {a} ELSE answers

Accept(x, s, ck) ==
  Answer(x, [type |-> "ACCEPT", to |-> x, session |-> [id |-> s, cookie |-> ck]], {"init"})

(* Mutant: a repeated SESSION_INIT is taken for a duplicate and ignored.   *)
ReuseSessionSilently(x) ==
  /\ x \in asked
  /\ ExpireReuse[x] # 0
  /\ bySig' = ExpireReuse
  /\ UNCHANGED <<byID, recentClosed, activeCount, nextID, notice, network, client, restart>>

(* handleSessionInitRequest for a signature the store still knows: the     *)
(* session is accepted again.                                              *)
ReuseSession(x) ==
  /\ x \in asked
  /\ ExpireReuse[x] # 0
  /\ bySig' = ExpireReuse
  /\ Accept(x, ExpireReuse[x], byID[ExpireReuse[x]].cookie)
  /\ UNCHANGED <<byID, recentClosed, activeCount, nextID, notice, asked, closes, client, restart>>

CreateSession(x) ==
  /\ x \in asked
  /\ ExpireReuse[x] = 0
  /\ FreeSlots # {}
  /\ \E ck \in Cookies : CreateRecord(x, AllocateSlot, ck) /\ Accept(x, AllocateSlot, ck)
  /\ UNCHANGED <<notice, asked, closes, client, restart>>

RefuseSession(x) ==
  /\ x \in asked
  /\ ExpireReuse[x] = 0
  /\ FreeSlots = {}
  /\ bySig' = ExpireReuse
  /\ Answer(x, [type |-> "BUSY", to |-> x], {"init"})
  /\ UNCHANGED <<byID, recentClosed, activeCount, nextID, notice, asked, closes, client, restart>>

(* Mutant: a session that is remembered as closed gets no answer.          *)
DropUnknownOnly(c) ==
  /\ Unserved(c)
  /\ recentClosed[held[c].id] = None
  /\ Answer(Socket(c), [type |-> "DROP", to |-> Socket(c)], {"running"})
  /\ UNCHANGED <<store, notice, asked, closes, client, restart>>

(* validatePostSessionPacket on a packet of client c: ERROR_DROP at once   *)
(* for a session that is unknown or closed. A wrong cookie is answered     *)
(* only once invalidCookieTracker has counted ten of them within two       *)
(* seconds: it may be (this action), but nothing promises it (Fairness).   *)
DropData(c) ==
  /\ Unserved(c)
  /\ Answer(Socket(c), [type |-> "DROP", to |-> Socket(c)], {"running"})
  /\ UNCHANGED <<store, notice, asked, closes, client, restart>>

(* handleSessionCloseNotice, first half: Lookup under its own lock, ...    *)
LookupForClose(w, m) ==
  /\ notice[w] = None
  /\ Live(m.id)
  /\ byID[m.id].cookie = m.cookie
  /\ notice' = [notice EXCEPT ![w] = m]
  /\ UNCHANGED <<store, network, client, restart>>

(* ... second half: Close, by session ID alone.                            *)
CloseNoticed(w) ==
  /\ notice[w] # None
  /\ notice' = [notice EXCEPT ![w] = None]
  /\ IF Live(notice[w].id) THEN RemoveRecords({notice[w].id}, bySig, recentClosed)
                           ELSE UNCHANGED store
  /\ UNCHANGED <<network, client, restart>>

(* runSessionCleanupTick: Cleanup forgets closed sessions it remembered    *)
(* for long enough, and closes sessions that were idle for too long.       *)
Cleanup(idle, forgotten) ==
  /\ RemoveRecords(idle, ExpireReuse,
                   [s \in Slots |-> IF s \in forgotten THEN None ELSE recentClosed[s]])
  /\ UNCHANGED <<notice, network, client, restart>>

(* SESSION_INIT_REUSE_TTL_SECONDS pass.                                    *)
ReuseExpires(s) ==
  /\ Live(s) /\ byID[s].reusable
  /\ byID' = [byID EXCEPT ![s].reusable = FALSE]
  /\ UNCHANGED <<bySig, recentClosed, activeCount, nextID, notice, network, client, restart>>

-----------------------------------------------------------------------------
(* The client: InitializeSession.                                          *)

(* initializeSessionOnce asks several resolvers at once with the payload   *)
(* the client keeps; the exchanges of earlier rounds are over.             *)
StartRound(c) ==
  /\ phase[c] = "backoff"
  /\ phase' = [phase EXCEPT ![c] = "init"]
  /\ asked' = asked \cup {Socket(c)}
  /\ answers' = answers \ Mine(c)
  /\ UNCHANGED <<store, notice, closes, gen, held, restart>>

(* applySessionInitResponse, then StartAsyncRuntime.                       *)
Accepted(c) ==
  /\ phase[c] = "init"
  /\ \E a \in Mine(c) : a.type = "ACCEPT" /\ held' = [held EXCEPT ![c] = a.session]
  /\ answers' = answers \ Mine(c)
  /\ phase' = [phase EXCEPT ![c] = "running"]
  /\ UNCHANGED <<store, notice, asked, closes, gen, restart>>

(* Without an accept, a busy table or silence ends the round, and Run      *)
(* backs off before the next (nextSessionInitRetryDelay).                  *)
RoundFails(c) ==
  /\ phase[c] = "init"
  /\ phase' = [phase EXCEPT ![c] = "backoff"]
  /\ UNCHANGED <<store, notice, network, gen, held, restart>>

-----------------------------------------------------------------------------
(* The client: the restart of a session.                                   *)

(* Mutant: StopAsyncRuntime does not wait for the goroutines that ask.     *)
AskUntilDrained(c, t) ==
  /\ phase[c] \in {"running", "stopping", "stopped", "clearing", "draining"}
  /\ ~asker[c][t]
  /\ pending' = [pending EXCEPT ![c] = TRUE]
  /\ asker' = [asker EXCEPT ![c][t] = ~pending[c]]
  /\ UNCHANGED <<store, notice, asked, closes, client, signal>>

(* requestSessionRestart: one goroutine's CompareAndSwap ...               *)
Ask(c, t) ==
  /\ phase[c] \in {"running", "stopping"}
  /\ ~asker[c][t]
  /\ pending' = [pending EXCEPT ![c] = TRUE]
  /\ asker' = [asker EXCEPT ![c][t] = ~pending[c]]
  /\ UNCHANGED <<store, notice, asked, closes, client, signal>>

(* ... by HandleErrorDrop, which looks at no field of the packet, ...      *)
ErrorDrop(c) ==
  /\ \E a \in Mine(c) : a.type = "DROP" /\ answers' = answers \ {a}
  /\ Ask(c, "processor")

(* ... or by the watchdog, when nothing has been heard for long enough ... *)
Watchdog(c) == Ask(c, "ping") /\ UNCHANGED answers

(* ... and its send into the channel.                                      *)
SendSignal(c, t) ==
  /\ asker[c][t]
  /\ asker' = [asker EXCEPT ![c][t] = FALSE]
  /\ signal' = [signal EXCEPT ![c] = TRUE]
  /\ UNCHANGED <<store, notice, network, client, pending>>

Goes(c, from, to) == phase[c] = from /\ phase' = [phase EXCEPT ![c] = to]

(* Run receives the signal, ...                                            *)
TakeSignal(c) ==
  /\ signal[c]
  /\ gen[c] < MaxInits
  /\ Goes(c, "running", "stopping")
  /\ signal' = [signal EXCEPT ![c] = FALSE]
  /\ UNCHANGED <<store, notice, network, gen, held, pending, asker>>

(* ... StopAsyncRuntime waits for the processors and the ping manager and  *)
(* drains the queues, ...                                                  *)
RuntimeStopped(c) ==
  /\ \A t \in Askers : ~asker[c][t]
  /\ Goes(c, "stopping", "stopped")
  /\ answers' = answers \ Mine(c)
  /\ UNCHANGED <<store, notice, asked, closes, gen, held, restart>>

(* ... resetSessionState: the next init draws a new verify code, ...       *)
ResetState(c) ==
  /\ Goes(c, "stopped", "clearing")
  /\ held' = [held EXCEPT ![c] = None]
  /\ gen' = [gen EXCEPT ![c] = @ + 1]
  /\ UNCHANGED <<store, notice, network, restart>>

(* ... clearRuntimeResetRequest: first the flag, then the channel.         *)
ClearPending(c) ==
  /\ Goes(c, "clearing", "draining")
  /\ pending' = [pending EXCEPT ![c] = FALSE]
  /\ UNCHANGED <<store, notice, network, gen, held, signal, asker>>

DrainSignal(c) ==
  /\ Goes(c, "draining", "backoff")
  /\ signal' = [signal EXCEPT ![c] = FALSE]
  /\ UNCHANGED <<store, notice, network, gen, held, pending, asker>>

(* The process ends: Run's shutdown sends a SESSION_CLOSE for the session  *)
(* it has (notifySessionCloseBurst), a crash does not. Either way its next *)
(* life starts with nothing but a new verify code.                         *)
Ends(c) ==
  /\ gen[c] < MaxInits
  /\ phase' = [phase EXCEPT ![c] = "down"]
  /\ held' = [held EXCEPT ![c] = None]
  /\ pending' = [pending EXCEPT ![c] = FALSE]
  /\ signal' = [signal EXCEPT ![c] = FALSE]
  /\ asker' = [asker EXCEPT ![c] = [t \in Askers |-> FALSE]]
  /\ answers' = answers \ Mine(c)
  /\ UNCHANGED <<store, notice, asked, gen>>

Shutdown(c) ==
  /\ phase[c] \in {"backoff", "init", "running"}
  /\ closes' = IF held[c] # None THEN closes \cup {held[c]} ELSE closes
  /\ Ends(c)

Crash(c) ==
  /\ phase[c] # "down"
  /\ UNCHANGED closes
  /\ Ends(c)

Boot(c) ==
  /\ Goes(c, "down", "backoff")
  /\ gen' = [gen EXCEPT ![c] = @ + 1]
  /\ UNCHANGED <<store, notice, network, held, restart>>

-----------------------------------------------------------------------------
LoseAnswer(a) ==
  /\ answers' = answers \ {a}
  /\ UNCHANGED <<store, notice, asked, closes, client, restart>>

MainLoop(c) ==
  \/ StartRound(c) \/ TakeSignal(c) \/ RuntimeStopped(c)
  \/ ResetState(c) \/ ClearPending(c) \/ DrainSignal(c)

Step ==
  \/ \E x \in Sigs : ReuseSession(x) \/ CreateSession(x) \/ RefuseSession(x)
  \/ \E w \in Workers : CloseNoticed(w) \/ \E m \in closes : LookupForClose(w, m)
  \/ \E idle \in SUBSET {s \in Slots : Live(s)},
        forgotten \in SUBSET {s \in Slots : recentClosed[s] # None} : Cleanup(idle, forgotten)
  \/ \E s \in Slots : ReuseExpires(s)
  \/ \E a \in answers : LoseAnswer(a)
  \/ \E c \in Clients :
       \/ MainLoop(c) \/ Accepted(c) \/ RoundFails(c)
       \/ DropData(c) \/ ErrorDrop(c) \/ Watchdog(c) \/ \E t \in Askers : SendSignal(c, t)
       \/ Shutdown(c) \/ Crash(c) \/ Boot(c)

Next == Step /\ UNCHANGED busy

Spec == Init /\ [][Next]_vars

(* Every goroutine of a client and every worker of the server keeps going, *)
(* and the clean-up timer ticks. The path is lossy but not dead: what a    *)
(* client repeats is handled, and its answer heard, again and again until  *)
(* it counts. A client that runs sends at least pings, so the server drops *)
(* one while its session stays gone. A wrong cookie is owed no answer: an  *)
(* idle client's pings are too rare for the tracker's window. A client     *)
(* that keeps sending and hears nothing is restarted by its watchdog. A    *)
(* session no client uses goes idle.                                       *)
Fairness ==
  /\ \A c \in Clients :
       /\ WF_system(MainLoop(c))
       /\ WF_system(RoundFails(c))
       /\ SF_system(Accepted(c))
       /\ SF_system(ErrorDrop(c))
       /\ \A t \in Askers : WF_system(SendSignal(c, t))
       /\ SF_system(phase[c] = "init" /\ (ReuseSession(Socket(c)) \/ CreateSession(Socket(c))))
       /\ WF_system(Unserved(c) /\ ~Live(held[c].id) /\ DropData(c))
       /\ WF_system(c \in busy /\ Unserved(c) /\ Watchdog(c))
  /\ \A s \in Slots :
       WF_system(/\ Live(s)
                 /\ \A c \in Clients : held[c] # [id |-> s, cookie |-> byID[s].cookie]
                 /\ Cleanup({s}, {}))

LiveSpec == Spec /\ Fairness

-----------------------------------------------------------------------------
TypeOK ==
  /\ byID \in [Slots -> Record \cup {None}]
  /\ bySig \in [Sigs -> 0..MaxSlot]
  /\ recentClosed \in [Slots -> [cookie : Cookies] \cup {None}]
  /\ activeCount \in 0..MaxSlot
  /\ nextID \in Slots
  /\ notice \in [Workers -> Sessions \cup {None}]
  /\ asked \subseteq Sigs
  /\ closes \subseteq Sessions
  /\ answers \subseteq Answers
  /\ phase \in [Clients -> Phases]
  /\ gen \in [Clients -> 1..MaxInits]
  /\ held \in [Clients -> Sessions \cup {None}]
  /\ pending \in [Clients -> BOOLEAN]
  /\ signal \in [Clients -> BOOLEAN]
  /\ asker \in [Clients -> [Askers -> BOOLEAN]]
  /\ busy \in BusySets

(* The store's four indexes agree however handlers, retries and clean-ups  *)
(* interleave: a signature leads to a live session made for it, a live     *)
(* session is not also remembered as closed, and the count that decides    *)
(* whether the table is full is exact.                                     *)
SignaturesAreSound == \A x \in Sigs : bySig[x] # 0 => Live(bySig[x]) /\ byID[bySig[x]].sig = x
ClosedAreGone == \A s \in Slots : Live(s) => recentClosed[s] = None
CountIsExact == activeCount = Cardinality({s \in Slots : Live(s)})

StoreIsConsistent == SignaturesAreSound /\ ClosedAreGone /\ CountIsExact

(* A restart that was requested happens: while runtimeResetPending turns   *)
(* every other request away, its signal is in the channel, about to be     *)
(* sent, or already taken by Run.                                          *)
RestartIsSignalled ==
  \A c \in Clients :
    pending[c] => \/ signal[c]
                  \/ \E t \in Askers : asker[c][t]
                  \/ phase[c] \in {"stopping", "stopped", "clearing"}

(* A client whose session the server would no longer serve - closed, idle, *)
(* or its slot given away under another cookie - gives it up; but one that *)
(* only pings may keep it for as long as the slot is somebody else's.      *)
DeadSessionIsNoticed ==
  \A c \in Clients :
    (Unserved(c) /\ gen[c] < MaxInits)
      ~> (Unserved(c) => c \notin busy /\ Live(held[c].id))

(* A client that asks for a session gets one, unless its rounds find the   *)
(* table full from some time on.                                           *)
GetsSession ==
  \A c \in Clients :
    []<>(phase[c] = "init" /\ (FreeSlots # {} \/ ExpireReuse[Socket(c)] # 0))
      => (phase[c] = "backoff" ~> phase[c] \in {"running", "down"})

=============================================================================
