------------------------------ MODULE DNSPath ------------------------------
(***************************************************************************)
(* A DNS name asked through the tunnel. The client (client/dns_listener.go) *)
(* answers from its cache (dnscache/store.go), or sends the query in       *)
(* fragments as tracked control packets of stream 0 and answers nothing;   *)
(* who asked has to ask again. The server collects the fragments           *)
(* (fragmentstore/store.go), one deferred worker answers from its own      *)
(* cache or looks the name up (dns_tunnel.go) under an entry of the        *)
(* inflight table (inflight/manager.go), and sends the answer in fragments *)
(* that nobody acknowledges.                                                *)
(*                                                                         *)
(* One name stands for all: names meet only in the worker's queue and in   *)
(* the caches' limits, which are faults here. A query's sequence number is *)
(* taken when it is not in use and retired when nothing remembers it, as   *)
(* 65536 of them come round. Every wait is over at any time, in the order  *)
(* the settings keep: the server's retention is longer than a query is     *)
(* under way. An answer is "good" or the "fail" of a lookup.               *)
(***************************************************************************)
EXTENDS Integers, Sequences, FiniteSets

CONSTANTS
  Queries,     \* sequence numbers
  UpFrags,     \* fragments of a query
  DownFrags,   \* fragments of an answer
  Upstreams,   \* number of dnsUpstreamServers
  MaxFaults    \* bound of the model: faults in a behaviour

ASSUME FragsAssumption == UpFrags # {} /\ DownFrags # {} /\ Upstreams \in Nat \ {0}

VARIABLES
  cache,     \* the client's entry: none, fresh or due while pending, or the answer
  session,   \* "up" while SessionReady
  asking,    \* a ProcessDNSQuery that is about to dispatch
  unacked,   \* query -> its fragments in controlSndBuf of stream 0
  inUse,     \* queries that were sent and are not forgotten
  parts,     \* server's store: query -> fragments collected, completed?
  tasks,     \* queue of the DNS worker: queries, Old for one of a past session
  worker,    \* the DNS worker: its step, query, answer and lookup
  entry,     \* whether the inflight table has an entry for the name
  orphaned,  \* history: the entry's leader panicked
  known,     \* whether the server's cache has the answer
  answer,    \* query -> answer sent, or none
  replies,   \* client's store: query -> fragments collected, completed?
  faults     \* faults so far

clientVars == <<cache, session, asking>>
pathVars == <<unacked, inUse, parts, answer, replies>>
serverVars == <<tasks, worker, entry, orphaned, known>>
vars == <<clientVars, pathVars, serverVars, faults>>

None == "none"
Old == "old"   \* no sequence number
ASSUME OldAssumption == Old \notin Queries /\ MaxFaults \in Nat

Answers == {"good", "fail"}
Empty == [got |-> {}, done |-> FALSE]
Waiting == [at |-> "idle", for |-> Old, value |-> None, left |-> 0, hedged |-> FALSE]

TypeOK ==
  /\ cache \in {None, "fresh", "due"} \cup Answers
  /\ session \in {"up", "down"} /\ asking \in BOOLEAN
  /\ inUse \subseteq Queries
  /\ unacked \in [Queries -> SUBSET UpFrags]
  /\ parts \in [Queries -> [got : SUBSET UpFrags, done : BOOLEAN]]
  /\ replies \in [Queries -> [got : SUBSET DownFrags, done : BOOLEAN]]
  /\ answer \in [Queries -> {None} \cup Answers]
  /\ tasks \in Seq(Queries \cup {Old})
  /\ worker \in [at : {"idle", "lookup", "waiting", "reply"}, for : Queries \cup {Old},
                 value : {None} \cup Answers, left : 0..Upstreams, hedged : BOOLEAN]
  /\ entry \in BOOLEAN /\ orphaned \in BOOLEAN /\ known \in BOOLEAN /\ faults \in 0..MaxFaults

Init ==
  /\ cache = None /\ session = "up" /\ asking = FALSE
  /\ inUse = {} /\ unacked = [q \in Queries |-> {}]
  /\ parts = [q \in Queries |-> Empty] /\ replies = [q \in Queries |-> Empty]
  /\ answer = [q \in Queries |-> None]
  /\ tasks = << >> /\ worker = Waiting /\ entry = FALSE /\ known = FALSE
  /\ orphaned = FALSE /\ faults = 0

Fault == faults < MaxFaults /\ faults' = faults + 1
Ready == cache \in Answers
Working(q) == worker.for = q \/ \E i \in DOMAIN tasks : tasks[i] = q

-----------------------------------------------------------------------------
(* Fragment store.                                                         *)

(* Mutant: the query that is complete is not remembered.                   *)
CollectedForgotten(store, frag, all) ==
  IF store.done THEN store
  ELSE IF store.got \cup {frag} = all THEN Empty ELSE [store EXCEPT !.got = @ \cup {frag}]

(* Collect: the store afterwards. Whatever belongs to a query that was     *)
(* completed is ignored; the last missing fragment completes it.           *)
Collected(store, frag, all) ==
  IF store.done THEN store
  ELSE IF store.got \cup {frag} = all THEN [got |-> {}, done |-> TRUE]
  ELSE [store EXCEPT !.got = @ \cup {frag}]

Completes(store, frag, all) == ~store.done /\ store.got \cup {frag} = all

-----------------------------------------------------------------------------
(* The client's cache.                                                     *)

(* Mutant: a pending entry suppresses its queries for ever.                *)
AskOnce ==
  /\ session = "up" /\ ~asking
  /\ cache # "fresh"
  /\ IF cache # None THEN UNCHANGED <<cache, asking>> ELSE cache' = "fresh" /\ asking' = TRUE
  /\ UNCHANGED <<session, pathVars, serverVars, faults>>

(* ProcessDNSQuery, LookupOrCreatePending. A hit answers at once; an entry *)
(* that is pending suppresses the query until pendingTimeout.              *)
Ask ==
  /\ session = "up" /\ ~asking
  /\ cache # "fresh"
  /\ IF Ready THEN UNCHANGED <<cache, asking>> ELSE cache' = "fresh" /\ asking' = TRUE
  /\ UNCHANGED <<session, pathVars, serverVars, faults>>

(* dispatchDNSQueryToTunnel: without a session the query is not sent.      *)
Dispatch ==
  /\ asking
  /\ asking' = FALSE
  /\ IF session = "down"
       THEN UNCHANGED <<inUse, unacked>>
       ELSE \E q \in Queries \ inUse :
              /\ inUse' = inUse \cup {q}
              /\ unacked' = [unacked EXCEPT ![q] = UpFrags]
  /\ UNCHANGED <<cache, session, parts, answer, replies, serverVars, faults>>

(* LastDispatchAt is pendingTimeout ago.                                   *)
PendingTimeout ==
  /\ cache = "fresh"
  /\ cache' = "due"
  /\ UNCHANGED <<session, asking, pathVars, serverVars, faults>>

(* The entry is evicted by other names' or its time is over.               *)
Forgotten ==
  /\ Fault /\ cache # None
  /\ cache' = None
  /\ UNCHANGED <<session, asking, pathVars, serverVars>>

(* HandleDNSQueryRes: a complete answer goes into the cache, whatever it   *)
(* says and whether or not anybody waits for it.                           *)
DeliverAnswer(q, f) ==
  /\ answer[q] # None
  /\ replies' = [replies EXCEPT ![q] = Collected(replies[q], f, DownFrags)]
  /\ IF Completes(replies[q], f, DownFrags)
       THEN cache' = answer[q]
       ELSE UNCHANGED cache
  /\ UNCHANGED <<session, asking, unacked, inUse, parts, answer, serverVars, faults>>

(* checkControlRetransmits gives the fragments of a query up, which is a   *)
(* fault while the server waits for one; stream 0 is virtual and survives. *)
GiveUp(q) ==
  /\ unacked[q] # {}
  /\ unacked' = [unacked EXCEPT ![q] = {}]
  /\ IF parts[q].done THEN UNCHANGED faults ELSE Fault
  /\ UNCHANGED <<clientVars, inUse, parts, answer, replies, serverVars>>

(* Nothing more will come of a query.                                      *)
Over(q) ==
  /\ ~Working(q)
  /\ \/ replies[q].done
     \/ answer[q] = None /\ (parts[q].done \/ unacked[q] = {})

(* A number is used again only after 65536 others, when no store keeps     *)
(* anything of it. That an answer is lost on its way is a fault; that      *)
(* fragments were given up was one.                                        *)
Retire(q) ==
  /\ q \in inUse
  /\ \/ Over(q) /\ UNCHANGED faults
     \/ answer[q] # None /\ ~replies[q].done /\ Fault
  /\ inUse' = inUse \ {q}
  /\ unacked' = [unacked EXCEPT ![q] = {}]
  /\ parts' = [parts EXCEPT ![q] = Empty] /\ replies' = [replies EXCEPT ![q] = Empty]
  /\ answer' = [answer EXCEPT ![q] = None]
  /\ UNCHANGED <<clientVars, serverVars>>

-----------------------------------------------------------------------------
(* The server.                                                             *)

(* handleDNSQueryRequest for a fragment or one of its copies. Only the one *)
(* that completes the query is acknowledged, and only if it was queued;    *)
(* the acknowledgement may be lost. A query the queue has no room for, or  *)
(* that names a session just closed, is forgotten.                         *)
DeliverQuery(q, f) ==
  /\ q \in inUse /\ (f \in unacked[q] \/ parts[q].done)
  /\ parts' = [parts EXCEPT ![q] = Collected(parts[q], f, UpFrags)]
  /\ IF Completes(parts[q], f, UpFrags)
       THEN \/ /\ tasks' = Append(tasks, q) /\ UNCHANGED faults
               /\ unacked' \in {unacked, [unacked EXCEPT ![q] = @ \ {f}]}
            \/ Fault /\ UNCHANGED <<tasks, unacked>>
       ELSE UNCHANGED <<tasks, unacked, faults>>
  /\ UNCHANGED <<clientVars, inUse, answer, replies, worker, entry, orphaned, known>>

(* processDeferredDNSQuery and buildDNSQueryResponsePayload up to a wait.  *)
(* A query of a past session is not looked at, unless the session was lost *)
(* by the client only.                                                     *)
StartTask ==
  /\ worker.at = "idle" /\ tasks # << >>
  /\ tasks' = Tail(tasks)
  /\ \/ /\ Head(tasks) = Old
        /\ UNCHANGED <<worker, entry>>
     \/ /\ worker' = [Waiting EXCEPT !.for = Head(tasks),
                        !.at = IF known THEN "reply" ELSE IF entry THEN "waiting" ELSE "lookup",
                        !.value = IF known THEN "good" ELSE None,
                        !.left = IF known \/ entry THEN 0 ELSE 1]
        /\ entry' = (entry \/ ~known)
  /\ UNCHANGED <<clientVars, pathVars, orphaned, known, faults>>

(* Mutant: a failed lookup leaves its entry.                               *)
ResolveGoodOnly(value) ==
  /\ worker' = [worker EXCEPT !.at = "reply", !.value = value, !.left = 0, !.hedged = FALSE]
  /\ entry' = (value # "good") /\ orphaned' = FALSE
  /\ known' = (known \/ value = "good")
  /\ UNCHANGED <<clientVars, pathVars, tasks, faults>>

(* The rest of it once the leader has a result: the inflight entry is      *)
(* deleted and a good answer goes into the server's cache.                 *)
Resolve(value) ==
  /\ worker' = [worker EXCEPT !.at = "reply", !.value = value, !.left = 0, !.hedged = FALSE]
  /\ entry' = FALSE /\ orphaned' = FALSE
  /\ known' = (known \/ value = "good")
  /\ UNCHANGED <<clientVars, pathVars, tasks, faults>>

(* launchRemaining: the other upstreams, once.                             *)
Launched == IF worker.hedged THEN 0 ELSE Upstreams - 1

(* resolveDNSUpstream: the first answer wins.                              *)
UpstreamAnswers == worker.at = "lookup" /\ worker.left > 0 /\ Resolve("good")

UpstreamFails ==
  /\ worker.at = "lookup" /\ worker.left > 0
  /\ IF worker.left - 1 + Launched = 0
       THEN Resolve("fail")
       ELSE /\ worker' = [worker EXCEPT !.left = @ - 1 + Launched, !.hedged = TRUE]
            /\ UNCHANGED <<clientVars, pathVars, tasks, entry, orphaned, known, faults>>

HedgeTimer ==
  /\ worker.at = "lookup" /\ ~worker.hedged
  /\ worker' = [worker EXCEPT !.left = @ + Launched, !.hedged = TRUE]
  /\ UNCHANGED <<clientVars, pathVars, tasks, entry, orphaned, known, faults>>

Deadline == worker.at = "lookup" /\ Resolve("fail")

(* A panic during the lookup ends the task; the worker recovers, the entry *)
(* has no leader any more.                                                 *)
LookupPanics ==
  /\ worker.at = "lookup" /\ Fault
  /\ worker' = Waiting /\ orphaned' = TRUE
  /\ UNCHANGED <<clientVars, pathVars, tasks, entry, known>>

(* Such an entry is replaced when it is as old as no lookup is.            *)
EntryExpires ==
  /\ entry /\ worker.at \notin {"lookup", "waiting"}
  /\ entry' = FALSE /\ orphaned' = FALSE
  /\ UNCHANGED <<clientVars, pathVars, tasks, worker, known, faults>>

(* Wait ends with the timeout: no other worker could resolve the entry.    *)
WaitTimesOut ==
  /\ worker.at = "waiting"
  /\ worker' = [worker EXCEPT !.at = "reply", !.value = IF known THEN "good" ELSE "fail"]
  /\ UNCHANGED <<clientVars, pathVars, tasks, entry, orphaned, known, faults>>

(* The answer is cut into fragments and queued for the session, unless it  *)
(* is gone. One above MaxDNSResponseBytes or 255 fragments is not sent at  *)
(* all, which is a fault here.                                             *)
Reply ==
  /\ worker.at = "reply"
  /\ worker' = Waiting
  /\ \/ /\ answer' = IF worker.for = Old THEN answer
                     ELSE [answer EXCEPT ![worker.for] = worker.value]
        /\ UNCHANGED faults
     \/ worker.value = "good" /\ worker.for # Old /\ Fault /\ UNCHANGED answer
  /\ UNCHANGED <<clientVars, unacked, inUse, parts, replies, tasks, entry, orphaned, known>>

(* The server's cache entry is evicted or its time is over.                *)
ServerForgets ==
  /\ known
  /\ known' = FALSE
  /\ UNCHANGED <<clientVars, pathVars, tasks, worker, entry, orphaned, faults>>

-----------------------------------------------------------------------------
(* The client's session and its file.                                      *)

(* What the server still has belongs to the session that is gone.          *)
SessionLost ==
  /\ session' = "down"
  /\ inUse' = {} /\ unacked' = [q \in Queries |-> {}]
  /\ parts' = [q \in Queries |-> Empty] /\ replies' = [q \in Queries |-> Empty]
  /\ answer' = [q \in Queries |-> None]
  /\ tasks' = [i \in DOMAIN tasks |-> Old]
  /\ worker' = [worker EXCEPT !.for = Old]
  /\ UNCHANGED <<entry, orphaned, known>>

(* resetRuntimeBindings: pending entries go, so that their names are sent  *)
(* again with the next session.                                            *)
ClearPending == cache' = IF Ready THEN cache ELSE None

Restart ==
  /\ session = "up" /\ Fault
  /\ SessionLost /\ ClearPending
  /\ UNCHANGED asking

SessionUp ==
  /\ session = "down"
  /\ session' = "up"
  /\ UNCHANGED <<cache, asking, pathVars, serverVars, faults>>

(* The client ends and starts again with what its file has.                *)
Crash ==
  /\ Fault /\ SessionLost
  /\ cache' \in {None} \cup Answers
  /\ asking' = FALSE

-----------------------------------------------------------------------------
Deliver == \E q \in Queries : \E f \in UpFrags : DeliverQuery(q, f)
Arrive == \E q \in Queries : \E f \in DownFrags : DeliverAnswer(q, f)
Look == UpstreamAnswers \/ UpstreamFails \/ HedgeTimer \/ Deadline
Work == StartTask \/ WaitTimesOut \/ Reply

Next ==
  \/ Ask \/ Dispatch \/ PendingTimeout \/ Forgotten
  \/ Deliver \/ Arrive
  \/ \E q \in Queries : GiveUp(q) \/ Retire(q)
  \/ Look \/ Work \/ LookupPanics \/ EntryExpires \/ ServerForgets
  \/ Restart \/ SessionUp \/ Crash

(* Who asks keeps asking, packets that are sent again get through in the   *)
(* end, timers run out, the worker is scheduled and a session that is lost *)
(* is set up again.                                                        *)
Fairness ==
  /\ WF_vars(Ask) /\ WF_vars(Dispatch) /\ WF_vars(PendingTimeout) /\ WF_vars(SessionUp)
  /\ WF_vars(Look) /\ WF_vars(Work)
  /\ \A q \in Queries :
       /\ WF_vars(Over(q) /\ Retire(q))
       /\ \A f \in UpFrags : WF_vars(DeliverQuery(q, f))
       /\ \A f \in DownFrags : WF_vars(DeliverAnswer(q, f))

Spec == Init /\ [][Next]_vars /\ Fairness

-----------------------------------------------------------------------------
(* Properties.                                                             *)

(* However often its fragments are sent again, a query is looked up once:  *)
(* it never has two tasks (Collect's completed mark, for non-final         *)
(* fragments are never acknowledged and all come again).                   *)
OneTaskPerQuery ==
  \A q \in Queries :
    Cardinality({i \in DOMAIN tasks : tasks[i] = q}) + (IF worker.for = q THEN 1 ELSE 0) <= 1

(* An inflight entry belongs to the lookup under way, or to one that ended *)
(* in a panic; whatever else is lost, evicted, restarted or given up, no   *)
(* other end of a lookup leaves one. It would make all queries for the     *)
(* name wait in vain until it is too old (Acquire, Resolve).               *)
EntryHasLeader == entry => worker.at = "lookup" \/ orphaned

(* A name that is asked again and again gets an answer into the cache,     *)
(* whatever is lost, restarted or panics on the way: a pending entry does  *)
(* not suppress queries for ever, an entry without a leader does not hold  *)
(* the worker for ever (LookupOrCreatePending, Acquire, Wait).             *)
AskedIsAnswered == ~Ready ~> Ready

=============================================================================
