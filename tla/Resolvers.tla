----------------------------- MODULE Resolvers -----------------------------
(***************************************************************************)
(* The client's resolvers (internal/client): the MTU scan that admits them *)
(* (mtu.go), the balancer's snapshot of the active ones (balancer.go), the *)
(* health loop that disables and rechecks them (resolver_health.go,        *)
(* resolver_stats.go) and the stream that keeps a preferred resolver and a *)
(* plan of duplicates (stream_resolver.go).                                *)
(*                                                                         *)
(* "source" is c.connections, which the balancer also points to; "active"  *)
(* and "mtu" are the published snapshot. Several goroutines share them:    *)
(* the scan's collector, the health loop, up to SlotCap recheck goroutines *)
(* and the dispatcher. What one of them does under one mutex, or on state  *)
(* nobody else writes, is one action.                                      *)
(*                                                                         *)
(* A resolver's MTU, upload and download alike, is one size in 1..MaxMTU,  *)
(* 0 when a scan rejected it. A probe passes only if the path carries it,  *)
(* and may be lost. Time is what may happen: any resolver may look silent  *)
(* (ResolverHealth says when one does), any retry may be due.              *)
(***************************************************************************)
EXTENDS MTUSearch, BalancerChoice

CONSTANTS
  Conns,        \* connection keys (resolver, port and domain)
  MaxMTU,       \* largest size probed
  Caps,         \* largest sizes that paths may carry, 0 for a dead one
  KeepActive,   \* resolvers auto-disable never goes below: 3 in the code
  EarlyTarget,  \* initialMTUEarlyStartTarget, 1 or more
  SlotCap,      \* capacity of resolverRecheckSem
  Duplicates    \* resolvers a data packet goes to (UploadPacketDuplicationCount)

ASSUME MaxMTUAssumption == MaxMTU \in Nat \ {0}
ASSUME KeepAssumption == KeepActive \in Nat
ASSUME EarlyAssumption == EarlyTarget \in Nat \ {0}
ASSUME CapsAssumption == Caps \subseteq 0..MaxMTU

VARIABLES
  cap,         \* what each path really carries
  scanned,     \* connections whose scan result has been merged
  started,     \* whether the client runs on the resolvers found so far
  source,      \* connection -> [valid, mtu] in c.connections
  active,      \* valid connections of the snapshot
  mtu,         \* connection -> its MTU in the snapshot
  synced,      \* syncedUploadMTU and syncedDownloadMTU, 0 before
  overtaken,   \* connections rechecked before their own scan result was in use
  merging,     \* what finishMTUScanInBackground is activating: key and step
  disabled,    \* connections in runtimeDisabled
  passes,      \* connection -> SuccessCount of its runtimeDisabled entry
  inFlight,    \* connections whose resolverRecheck entry says InFlight
  loop,        \* the health loop: candidates left, the one in hand, its step
  jobs,        \* slot -> recheck goroutine, or None
  preferred,   \* the stream's PreferredServerKey, or None
  plan,        \* its CachedResolverPlan: keys, current version?, raced?
  choice       \* the dispatcher inside selectTargetConnectionsForPacket

scanVars == <<cap, scanned, started, synced, overtaken, merging>>
connVars == <<source, active, mtu>>
recheckVars == <<disabled, passes, inFlight>>
streamVars == <<preferred, plan, choice>>
vars == <<cap, scanned, started, synced, overtaken, merging, source, active, mtu,
          disabled, passes, inFlight, loop, jobs, preferred, plan, choice>>

None == "none"
ASSUME ConnsAssumption == IsFiniteSet(Conns) /\ None \notin Conns

Slots == 1..SlotCap
Threshold == 2            \* runtimeDisabledResolverReactivationSuccessThreshold
NoPlan == [for |-> None, keys |-> {}, current |-> FALSE, raced |-> FALSE]
Idle == [at |-> "idle", key |-> None, keys |-> {}, fresh |-> TRUE]
NotMerging == [key |-> None, at |-> "idle"]
Resting == [left |-> {}, key |-> None, at |-> "idle"]

TypeOK ==
  /\ cap \in [Conns -> 0..MaxMTU]
  /\ scanned \subseteq Conns /\ started \in BOOLEAN /\ synced \in 0..MaxMTU
  /\ overtaken \subseteq Conns /\ merging \in [key : Conns \cup {None}, at : {"idle", "merged", "published"}]
  /\ source \in [Conns -> [valid : BOOLEAN, mtu : 0..MaxMTU]]
  /\ active \subseteq Conns /\ mtu \in [Conns -> 0..MaxMTU]
  /\ disabled \subseteq Conns /\ passes \in [Conns -> 0..Threshold - 1]
  /\ inFlight \subseteq Conns
  /\ loop \in [left : SUBSET Conns, key : Conns \cup {None},
               at : {"idle", "next", "marked", "applied"}]
  /\ jobs \in [Slots -> [key : Conns \cup {None},
                         at : {"free", "probing", "apply", "activate", "finish"}]]
  /\ preferred \in Conns \cup {None}
  /\ plan \in [for : Conns \cup {None}, keys : SUBSET Conns, current : BOOLEAN, raced : BOOLEAN]
  /\ choice \in [at : {"idle", "chosen", "select", "selected"}, key : Conns \cup {None},
                 keys : SUBSET Conns, fresh : BOOLEAN]

Free == [key |-> None, at |-> "free"]
Running(k) == \E g \in Slots : jobs[g].key = k

Init ==
  /\ cap \in [Conns -> Caps]
  /\ scanned = {} /\ started = FALSE /\ synced = 0 /\ overtaken = {} /\ merging = NotMerging
  /\ source = [k \in Conns |-> [valid |-> FALSE, mtu |-> 0]]
  /\ active = Conns /\ mtu = [k \in Conns |-> 0]
  /\ disabled = {} /\ passes = [k \in Conns |-> 0]
  /\ inFlight = {}
  /\ loop = Resting /\ jobs = [g \in Slots |-> Free]
  /\ preferred = None /\ plan = NoPlan /\ choice = Idle

-----------------------------------------------------------------------------
(* Mutant: a snapshot keeps its predecessor's version.                     *)
PublishSameVersion(newActive, newMTU) ==
  /\ active' = newActive
  /\ mtu' = newMTU
  /\ UNCHANGED <<plan, choice>>

(* The balancer's snapshot. Publishing one makes every cached plan stale:  *)
(* its version is no longer the snapshot's.                                *)
Publish(newActive, newMTU) ==
  /\ active' = newActive
  /\ mtu' = newMTU
  /\ plan' = [plan EXCEPT !.current = FALSE]
  /\ choice' = [choice EXCEPT !.fresh = (choice.at = "idle")]

(* SetConnectionMTU: the source gets the size, the snapshot the source.    *)
SetConnectionMTU(k, size) ==
  /\ source' = [source EXCEPT ![k].mtu = size]
  /\ Publish(IF source[k].valid THEN active \cup {k} ELSE active \ {k},
             [mtu EXCEPT ![k] = size])

(* SetConnectionValidity, when the snapshot does not say so already.       *)
SetConnectionValidity(k, valid) ==
  /\ source' = [source EXCEPT ![k].valid = valid]
  /\ Publish(IF valid THEN active \cup {k} ELSE active \ {k},
             [mtu EXCEPT ![k] = source[k].mtu])

-----------------------------------------------------------------------------
(* The scan. A result is Search over the sizes whose probes got through.   *)

(* Sizes whose probe is answered unless it is lost.                        *)
Carried(k) == 1..cap[k]

ScanOutcomes(k) == {Search(1, MaxMTU, got) : got \in SUBSET Carried(k)}

Scanned(m) == [valid |-> m > 0, mtu |-> m]

(* finalizeValidResolvers, applySyncedMTUState, initResolverRecheckMeta.   *)
ActivateInitialMTUSelection(src) ==
  LET valid == {k \in Conns : src[k].valid}
      sizes == {src[k].mtu : k \in valid}
  IN  /\ started' = TRUE
      /\ synced' = CHOOSE m \in sizes : \A n \in sizes : m <= n
      /\ Publish(valid, [k \in Conns |-> src[k].mtu])

(* runEarlyStartMTUTests: a result is merged; enough valid ones start the  *)
(* client, and so does the end of the scan if there is any. Without one    *)
(* Run prepares everything again and repeats the scan.                     *)
ScanResult(k) ==
  /\ ~started /\ k \notin scanned
  /\ \E m \in ScanOutcomes(k) :
       LET merged == [source EXCEPT ![k] = Scanned(m)]
           valid == {c \in Conns : merged[c].valid}
           last == scanned \cup {k} = Conns
           enough == Cardinality(valid) >= EarlyTarget \/ (last /\ valid # {})
       IN  IF enough
             THEN /\ source' = merged
                  /\ scanned' = scanned \cup {k}
                  /\ ActivateInitialMTUSelection(merged)
             ELSE /\ scanned' = IF last THEN {} ELSE scanned \cup {k}
                  /\ source' = IF last THEN [c \in Conns |-> [valid |-> FALSE, mtu |-> 0]] ELSE merged
                  /\ UNCHANGED <<started, synced, active, mtu, plan, choice>>
  /\ UNCHANGED <<cap, overtaken, merging, recheckVars, loop, jobs, preferred>>

(* Mutant: any resolver that passed its scan is activated.                 *)
BackgroundActivatesAny(m) == m > 0

(* shouldActivateBackgroundMTUConnection: it must carry the synced size.   *)
BackgroundActivates(m) == m > 0 /\ m >= synced

(* finishMTUScanInBackground: the result overwrites the source whatever    *)
(* happened to the connection since.                                       *)
BackgroundResult(k) ==
  /\ started /\ k \notin scanned /\ merging = NotMerging
  /\ scanned' = scanned \cup {k}
  /\ overtaken' = overtaken \cup {c \in {k} : c \in active \cup disabled \cup inFlight \/ source[c].mtu > 0}
  /\ \E m \in ScanOutcomes(k) :
       /\ source' = [source EXCEPT ![k] = [valid |-> BackgroundActivates(m), mtu |-> m]]
       /\ merging' = IF BackgroundActivates(m) THEN [key |-> k, at |-> "merged"] ELSE NotMerging
  /\ UNCHANGED <<cap, started, synced, active, mtu, recheckVars, loop, jobs, streamVars>>

(* activateBackgroundMTUConnection: an accepted one is published.          *)
BackgroundPublish ==
  /\ merging.at = "merged"
  /\ SetConnectionValidity(merging.key, TRUE)
  /\ merging' = [merging EXCEPT !.at = "published"]
  /\ overtaken' = overtaken \cup ({merging.key} \cap inFlight)
  /\ UNCHANGED <<cap, scanned, started, synced, recheckVars, loop, jobs, preferred>>

(* Its end: the recheck entry starts afresh.                               *)
BackgroundActivated ==
  /\ merging.at = "published"
  /\ inFlight' = inFlight \ {merging.key}
  /\ merging' = NotMerging
  /\ UNCHANGED <<cap, scanned, started, synced, overtaken, connVars, disabled, passes,
                 loop, jobs, streamVars>>

-----------------------------------------------------------------------------
(* The health loop.                                                        *)

(* runResolverAutoDisable: whom it may disable, read under the mutex. One  *)
(* that is just being published has no window full of timeouts yet.        *)
AutoDisable ==
  /\ started /\ loop.at = "idle"
  /\ Cardinality(active) > KeepActive
  /\ \E silent \in SUBSET (active \ {merging.key}) \ {{}} :
       loop' = [loop EXCEPT !.left = silent, !.at = "next"]
  /\ UNCHANGED <<scanVars, connVars, recheckVars, jobs, streamVars>>

(* Mutant: the number of active resolvers is looked at once, before the    *)
(* first candidate.                                                        *)
MayDisableAll(k) == k \in active

(* The checks before each candidate, here and in disableResolverConnection.*)
MayDisable(k) == k \in active /\ Cardinality(active) > KeepActive

(* Back to the loop over the candidates, or to runResolverHealthLoop.      *)
Onward(left) == IF left = {} THEN Resting ELSE [left |-> left, key |-> None, at |-> "next"]

(* disableResolverConnection, first critical section.                      *)
MarkDisabled ==
  /\ loop.at = "next"
  /\ \E k \in loop.left :
       IF MayDisable(k)
         THEN /\ loop' = [left |-> loop.left \ {k}, key |-> k, at |-> "marked"]
              /\ disabled' = disabled \cup {k}
              /\ passes' = [passes EXCEPT ![k] = 0]
         ELSE /\ loop' = Onward(IF Cardinality(active) > KeepActive THEN loop.left \ {k} ELSE {})
              /\ UNCHANGED <<disabled, passes>>
  /\ UNCHANGED <<scanVars, connVars, inFlight, jobs, streamVars>>

(* Its middle: the balancer drops the resolver.                            *)
Deactivate ==
  /\ loop.at = "marked"
  /\ SetConnectionValidity(loop.key, FALSE)
  /\ loop' = [loop EXCEPT !.at = "applied"]
  /\ UNCHANGED <<scanVars, recheckVars, jobs, preferred>>

(* Its end: the next recheck, the forgotten health record and, with        *)
(* clearPreferredResolverReferences, the stream's preference and plan.     *)
FinishDisable ==
  /\ loop.at = "applied"
  /\ LET k == loop.key
     IN  /\ disabled' = disabled \cup {k}
         /\ passes' = [passes EXCEPT ![k] = 0]
         /\ IF preferred = k THEN preferred' = None /\ plan' = NoPlan
                             ELSE UNCHANGED <<preferred, plan>>
  /\ loop' = Onward(loop.left)
  /\ UNCHANGED <<scanVars, connVars, inFlight, jobs, choice>>

(* runResolverRecheckBatch: a goroutine for an inactive resolver whose     *)
(* NextAt has come, while the semaphore has room.                          *)
StartRecheck(k, g) ==
  /\ started /\ loop.at = "idle"
  /\ k \notin active \cup inFlight
  /\ jobs[g].at = "free"
  /\ inFlight' = inFlight \cup {k}
  /\ jobs' = [jobs EXCEPT ![g] = [key |-> k, at |-> "probing"]]
  /\ UNCHANGED <<scanVars, connVars, disabled, passes, loop, streamVars>>

-----------------------------------------------------------------------------
(* A recheck goroutine.                                                    *)

Done(g) == jobs' = [jobs EXCEPT ![g] = Free]
At(g, step) == jobs' = [jobs EXCEPT ![g].at = step]

(* scheduleResolverRecheckFailure.                                         *)
ScheduleFailure(k) ==
  /\ inFlight' = inFlight \ {k}
  /\ passes' = [passes EXCEPT ![k] = IF k \in disabled THEN 0 ELSE @]
  /\ UNCHANGED disabled

(* recheckResolverConnection fails: probes lost, too small, or cancelled.  *)
RecheckFails(g) ==
  /\ jobs[g].at = "probing"
  /\ ScheduleFailure(jobs[g].key)
  /\ Done(g)
  /\ UNCHANGED <<scanVars, connVars, loop, streamVars>>

NeedsMorePasses(k) == k \in disabled /\ passes[k] + 1 < Threshold

(* handleSuccessfulResolverRecheck: one disabled at runtime has to pass    *)
(* twice; the first pass only schedules the second.                        *)
RecheckPasses(g) ==
  LET k == jobs[g].key
  IN  /\ jobs[g].at = "probing" /\ synced \in Carried(k)
      /\ IF NeedsMorePasses(k)
           THEN /\ passes' = [passes EXCEPT ![k] = @ + 1]
                /\ inFlight' = inFlight \ {k}
                /\ Done(g)
           ELSE At(g, "apply") /\ UNCHANGED <<passes, inFlight>>
      /\ UNCHANGED <<scanVars, connVars, disabled, loop, streamVars>>

(* applyRecheckedResolverMTU.                                              *)
ApplyMTU(g) ==
  /\ jobs[g].at = "apply"
  /\ SetConnectionMTU(jobs[g].key, synced)
  /\ At(g, "activate")
  /\ UNCHANGED <<scanVars, recheckVars, loop, preferred>>

(* Mutant: a resolver that is active already is left as it is.             *)
GiveUpActivationLeavingFlag(k) == UNCHANGED inFlight

(* clearResolverRecheckInFlight.                                           *)
GiveUpActivation(k) == inFlight' = inFlight \ {k}

(* reactivateResolverConnection up to SetConnectionValidity.               *)
Activate(g) ==
  /\ jobs[g].at = "activate"
  /\ IF jobs[g].key \in active
       THEN /\ GiveUpActivation(jobs[g].key)
            /\ Done(g)
            /\ UNCHANGED <<connVars, plan, choice>>
       ELSE /\ SetConnectionValidity(jobs[g].key, TRUE)
            /\ At(g, "finish")
            /\ UNCHANGED inFlight
  /\ UNCHANGED <<scanVars, disabled, passes, loop, preferred>>

(* Mutant: the entry of a reactivated resolver stays.                      *)
KeepDisabled(k) == UNCHANGED <<disabled, passes>>

ForgetDisabled(k) ==
  /\ disabled' = disabled \ {k}
  /\ passes' = [passes EXCEPT ![k] = 0]

(* The rest of it: its entries start afresh.                               *)
FinishActivation(g) ==
  LET k == jobs[g].key
  IN  /\ jobs[g].at = "finish"
      /\ ForgetDisabled(k)
      /\ inFlight' = inFlight \ {k}
      /\ Done(g)
      /\ UNCHANGED <<scanVars, connVars, loop, streamVars>>

-----------------------------------------------------------------------------
(* The dispatcher picks the targets of a stream's data packet.             *)

Usable(k) == k \in active \ disabled

(* ensureStreamPreferredConnection, or a failover after enough RESENDs: the *)
(* preferred resolver, or another one.                                     *)
ChoosePreferred ==
  /\ started /\ choice.at = "idle"
  /\ \E k \in Conns :
       /\ Usable(k)
       /\ choice' = [at |-> IF k = preferred THEN "select" ELSE "chosen",
                     key |-> k, keys |-> {}, fresh |-> TRUE]
  /\ UNCHANGED <<scanVars, connVars, recheckVars, loop, jobs, preferred, plan>>

(* assignStreamPreferredConnection.                                        *)
AssignPreferred ==
  /\ choice.at = "chosen"
  /\ preferred' = choice.key
  /\ plan' = NoPlan
  /\ choice' = [choice EXCEPT !.at = "select"]
  /\ UNCHANGED <<scanVars, connVars, recheckVars, loop, jobs>>

(* getCachedStreamConnectionPlan: the plan is used as it is.               *)
UsablePlan(k) == plan.current /\ plan.for = k /\ plan.keys # {}

UsePlan ==
  /\ choice.at = "select" /\ UsablePlan(choice.key)
  /\ choice' = Idle
  /\ UNCHANGED <<scanVars, connVars, recheckVars, loop, jobs, preferred, plan>>

(* Otherwise GetUniqueConnections fills up the targets; only when there    *)
(* are fewer of them than wanted are they kept for the next packet.        *)
SelectTargets ==
  /\ choice.at = "select" /\ ~UsablePlan(choice.key)
  /\ \E others \in SUBSET active :
       /\ Cardinality(others) = RequiredCount(Cardinality(active), Duplicates)
       /\ LET selected == others \cup {choice.key}
          IN  choice' = IF Cardinality(selected) >= Duplicates THEN Idle
                        ELSE [choice EXCEPT !.at = "selected", !.keys = selected]
  /\ UNCHANGED <<scanVars, connVars, recheckVars, loop, jobs, preferred, plan>>

(* cacheStreamConnectionPlan: under the version of the snapshot now.       *)
CachePlan ==
  /\ choice.at = "selected"
  /\ plan' = [for |-> choice.key, keys |-> choice.keys, current |-> TRUE, raced |-> ~choice.fresh]
  /\ choice' = Idle
  /\ UNCHANGED <<scanVars, connVars, recheckVars, loop, jobs, preferred>>

-----------------------------------------------------------------------------
ScanStep == (\E k \in Conns : ScanResult(k) \/ BackgroundResult(k)) \/ BackgroundPublish \/ BackgroundActivated

HealthStep ==
  \/ AutoDisable \/ MarkDisabled \/ Deactivate \/ FinishDisable
  \/ \E k \in Conns, g \in Slots : StartRecheck(k, g)

RecheckStep ==
  \E g \in Slots : RecheckFails(g) \/ RecheckPasses(g) \/ ApplyMTU(g) \/ Activate(g)
                    \/ FinishActivation(g)

DispatchStep == ChoosePreferred \/ AssignPreferred \/ UsePlan \/ SelectTargets \/ CachePlan

Next == ScanStep \/ HealthStep \/ RecheckStep \/ DispatchStep

Spec == Init /\ [][Next]_vars

-----------------------------------------------------------------------------
(* Properties.                                                             *)

(* The sizes in use fit every resolver in use: whatever the scan, its late *)
(* results and the rechecks do in whichever order, the path of each active *)
(* resolver carries the synced size; and the snapshot says so, unless the  *)
(* scan's own result overwrote what a recheck had measured.                *)
ActiveCarrySyncedMTU ==
  started => \A k \in active :
    /\ synced > 0 /\ cap[k] >= synced
    /\ mtu[k] >= synced \/ k \in overtaken

(* Losing resolvers to auto-disable never leaves fewer than KeepActive     *)
(* although its candidates were counted before the first was disabled      *)
(* (runResolverAutoDisable, disableResolverConnection).                    *)
KeepsEnough ==
  [][started /\ Cardinality(active') < Cardinality(active)
       => Cardinality(active') >= KeepActive]_vars

(* A resolver disabled at runtime is back in use only while a goroutine is *)
(* on its way to forget that it was disabled: selectUniqueRuntimeConnections *)
(* and the streams would skip it for ever otherwise. A scan result that    *)
(* comes that late does activate it with the entry left.                   *)
DisabledIsInactive ==
  \A k \in (disabled \cap active) \ overtaken :
    \/ loop.key = k /\ loop.at = "marked"
    \/ \E g \in Slots : jobs[g] = [key |-> k, at |-> "finish"]

(* An entry marked InFlight belongs to a running recheck; otherwise the    *)
(* health loop would never look at the resolver again.                     *)
InFlightIsRunning == \A k \in inFlight : Running(k)

(* The plan a stream sends duplicates by has no inactive resolver unless a *)
(* snapshot was published while the dispatcher was making it: then the     *)
(* plan is stored under the new version and stays until the next one.      *)
PlanIsActive ==
  plan.current /\ plan.for = preferred /\ ~plan.raced => plan.keys \subseteq active

(* The sizes the scan has recorded are those of a search that returns the  *)
(* largest size a path carries whenever no probe is lost, and one that did *)
(* get through when probes are (binarySearchMTU).                          *)
SearchIsRight == scanned # {} => SearchFindsLargest

(* Once there are resolvers to choose from: a selection has as many of     *)
(* them as asked for, all different, the best there are, and a failover    *)
(* takes the best other one; two selections that together ask for all the  *)
(* resolvers get all of them, wherever the shared counter stands; and      *)
(* halving the statistics leaves what they say of a resolver as it was     *)
(* (selectLowestScore, rotatedValidIndices, applyHalfLifeLocked).          *)
StrategiesAreRight == started => BestAreSelected /\ AllHaveTurns /\ AgingKeepsScores

=============================================================================
