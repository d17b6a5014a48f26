--------------------------- MODULE ResolverHealth ---------------------------
(***************************************************************************)
(* What the client knows of one resolver from its queries                  *)
(* (internal/client/resolver_stats.go and the first half of                *)
(* resolver_health.go): the samples of unanswered queries, the timeouts    *)
(* found in them, the window of timeout events and TimeoutOnlySince, by    *)
(* which the health loop finds a resolver silent.                          *)
(*                                                                         *)
(* Queries are told apart by their DNS ID; the same ID may be used again   *)
(* before its first answer. TX workers send and, when there are many       *)
(* samples, look for timeouts; RX workers deliver answers; the health loop *)
(* looks for timeouts and for silence. All times are ages in ticks, so     *)
(* that the clock needs no bound; beyond Horizon they make no difference.  *)
(* Time passes between the critical sections of a goroutine only where it  *)
(* sleeps, and the loop comes round at least every Gap ticks.              *)
(***************************************************************************)
EXTENDS Integers, FiniteSets, FiniteSetsExt

CONSTANTS
  Queries,     \* DNS IDs
  Timeout,     \* resolverRequestTimeout
  TTL,         \* resolverSampleTTL
  Grace,       \* resolverLateResponseGrace: how long a timed-out sample is kept
  Window,      \* autoDisableTimeoutWindow
  Gap,         \* longest time between two rounds of the health loop
  MinObs,      \* autoDisableMinObservations
  SoftCap,     \* resolverPendingSoftCap
  HardCap,     \* resolverPendingHardCap
  MaxEvents    \* bound of the model: events in one window

ASSUME TimesAssumption == /\ Timeout \in Nat \ {0} /\ Gap \in Nat \ {0}
                          /\ TTL \in Nat /\ Grace \in Nat /\ Window \in Nat
ASSUME CapsAssumption == SoftCap \in Nat /\ HardCap \in Nat \ {0} /\ SoftCap <= HardCap
ASSUME MinObsAssumption == MinObs \in Nat \ {0}

VARIABLES
  samples,   \* resolverPending: query -> state of its sample and age since sent
  noted,     \* timeouts found but not yet recorded: who found them, when they were
  arrived,   \* answers whose success is not yet recorded
  events,    \* age -> number of timeout events of that age in the record
  since,     \* age of TimeoutOnlySince, None when zero
  answered,  \* age of LastSuccessAt, Horizon when longer ago
  active,    \* is the resolver in the balancer's snapshot?
  loop,      \* where the health loop is
  round,     \* ticks since its last round began
  overtaken  \* history: a success was recorded since the loop found the resolver silent

healthVars == <<samples, noted, arrived, events, since, answered, active, loop, round, overtaken>>

None == -1

(* No age beyond it is told apart: an event may be taken back until its    *)
(* sample is dropped, and leaves the record when it is older than Window   *)
(* by the age, at most Gap, of the event that comes.                       *)
Horizon == (IF Window > Grace + Gap THEN Window ELSE Grace + Gap) + Gap + 1
Ages == 0..Horizon
NoSample == [at |-> "none", age |-> 0]
Sampled == {q \in Queries : samples[q].at # "none"}

HealthTypeOK ==
  /\ samples \in [Queries -> [at : {"none", "sent", "timedOut"}, age : 0..TTL + Gap]]
  /\ noted \subseteq [by : {"loop", "worker"}, query : Queries, age : 0..Gap]
  /\ arrived \subseteq Queries
  /\ events \in [Ages -> Nat]
  /\ since \in Ages \cup {None}
  /\ answered \in Ages
  /\ active \in BOOLEAN
  /\ loop \in {"asleep", "recording", "disabling"}
  /\ overtaken \in BOOLEAN
  /\ round \in 0..Gap
  /\ Cardinality(Sampled) <= HardCap

HealthInit ==
  /\ samples = [q \in Queries |-> NoSample]
  /\ noted = {} /\ arrived = {}
  /\ events = [a \in Ages |-> 0]
  /\ since = None
  /\ answered = Horizon
  /\ active = TRUE
  /\ loop = "asleep" /\ round = 0
  /\ overtaken = FALSE

Total(e) == FoldFunctionOnSet(LAMBDA x, y : x + y, 0, e, Ages)
Oldest(e) ==
  IF \A a \in Ages : e[a] = 0 THEN None
  ELSE CHOOSE a \in Ages : e[a] > 0 /\ \A b \in Ages : e[b] > 0 => b <= a

-----------------------------------------------------------------------------
(* Samples.                                                                *)

Overdue(p, q) == p[q].at = "sent" /\ p[q].age >= Timeout

(* A sample is dropped after TTL, and when the grace time of a late answer *)
(* is over.                                                                *)
GivenUp(p, q) == p[q].age > TTL \/ (p[q].at = "timedOut" /\ p[q].age >= Timeout + Grace)

(* pruneResolverSamplesLocked: queries time out as of Timeout after they   *)
(* were sent.                                                              *)
Prune(p) ==
  [q \in Queries |->
     IF GivenUp(p, q) THEN NoSample
     ELSE IF Overdue(p, q) THEN [p[q] EXCEPT !.at = "timedOut"]
     ELSE p[q]]

TimedOut(p, who) ==
  {[by |-> who, query |-> q, age |-> p[q].age - Timeout] : q \in {r \in Queries : Overdue(p, r)}}

(* Mutant: the sample that is about to come is not counted.                *)
OverflowWithoutNew(p) == Cardinality({q \in Queries : p[q].at # "none"}) - HardCap

(* How many samples have to go before one more comes.                      *)
Overflow(p) == Cardinality({q \in Queries : p[q].at # "none"}) - HardCap + 1

(* Mutant: sorted the other way round.                                     *)
YoungerGoesBefore(p, q, r) == p[q].age < p[r].age

(* evictResolverPendingLocked: timed-out ones first, then the oldest.      *)
GoesBefore(p, q, r) ==
  \/ p[q].at = "timedOut" /\ p[r].at = "sent"
  \/ p[q].at = p[r].at /\ p[q].age > p[r].age

Evictions(p) ==
  IF Overflow(p) <= 0 THEN {{}}
  ELSE {gone \in SUBSET {q \in Queries : p[q].at # "none"} :
          /\ Cardinality(gone) = Overflow(p)
          /\ \A q \in gone, r \in Queries \ gone : p[r].at # "none" => ~GoesBefore(p, r, q)}

(* trackResolverSend, by a TX worker that has chosen the resolver, maybe   *)
(* before it was disabled.                                                 *)
Send(q) ==
  /\ Total(events) + Cardinality(noted) + Cardinality(Sampled) < MaxEvents
  /\ IF Cardinality(Sampled) < SoftCap
       THEN /\ samples' = [samples EXCEPT ![q] = [at |-> "sent", age |-> 0]]
            /\ UNCHANGED noted
       ELSE \E gone \in Evictions(Prune(samples)) :
              /\ samples' = [[r \in Queries |-> IF r \in gone THEN NoSample ELSE Prune(samples)[r]]
                               EXCEPT ![q] = [at |-> "sent", age |-> 0]]
              /\ noted' = noted \cup TimedOut(samples, "worker")
  /\ UNCHANGED <<arrived, events, since, answered, active, loop, round, overtaken>>

-----------------------------------------------------------------------------
(* Events.                                                                 *)

(* pruneResolverHealthLocked.                                              *)
Within(e, limit) == [a \in Ages |-> IF a <= limit THEN e[a] ELSE 0]

(* recordResolverHealthEvent of a failure: the window ends at the failure. *)
RecordFailure(age) ==
  IF active
    THEN /\ events' = Within([events EXCEPT ![age] = @ + 1], age + Window)
         /\ since' = IF since = None \/ age > since THEN age ELSE since
    ELSE UNCHANGED <<events, since>>

(* trackResolverSuccess: the timeout event of a late answer is taken back, *)
(* if it has been recorded (retractResolverTimeoutEvent).                  *)
Answered(q) ==
  /\ samples[q].at # "none" /\ q \notin arrived
  /\ samples' = [samples EXCEPT ![q] = NoSample]
  /\ arrived' = arrived \cup {q}
  /\ LET at == samples[q].age - Timeout
     IN  IF samples[q].at = "timedOut" /\ events[at] > 0
           THEN LET left == Within([events EXCEPT ![at] = @ - 1], Window)
                IN  events' = left /\ since' = Oldest(left)
           ELSE UNCHANGED <<events, since>>
  /\ UNCHANGED <<noted, answered, active, loop, round, overtaken>>

RecordSuccess ==
  /\ events' = [a \in Ages |-> 0]
  /\ since' = None
  /\ answered' = 0
  /\ overtaken' = (loop = "disabling")

(* Its end, recordResolverHealthEvent of a success.                        *)
NoteSuccess(q) ==
  /\ q \in arrived
  /\ arrived' = arrived \ {q}
  /\ IF active THEN RecordSuccess ELSE UNCHANGED <<events, since, answered, overtaken>>
  /\ UNCHANGED <<samples, noted, active, loop, round>>

(* trackResolverFailure: an answer that reports an error.                  *)
Fails(q) ==
  /\ samples[q].at # "none"
  /\ samples' = [samples EXCEPT ![q] = NoSample]
  /\ IF samples[q].at = "timedOut" THEN UNCHANGED <<events, since>> ELSE RecordFailure(0)
  /\ UNCHANGED <<noted, arrived, answered, active, loop, round, overtaken>>

(* noteResolverTimeout: whoever found the timeouts records them one by one.*)
NoteTimeout(n) ==
  /\ n \in noted
  /\ noted' = noted \ {n}
  /\ RecordFailure(n.age)
  /\ UNCHANGED <<samples, arrived, answered, active, loop, round, overtaken>>

-----------------------------------------------------------------------------
(* The health loop.                                                        *)

(* collectExpiredResolverTimeouts.                                         *)
CollectTimeouts ==
  /\ loop = "asleep"
  /\ loop' = "recording" /\ round' = 0
  /\ samples' = Prune(samples)
  /\ noted' = noted \cup TimedOut(samples, "loop")
  /\ UNCHANGED <<arrived, events, since, answered, active, overtaken>>

(* Mutant: a resolver is silent as soon as enough queries timed out.       *)
SilentAtOnce == active /\ Total(Within(events, Window)) >= MinObs

(* Is this resolver a candidate?                                           *)
Silent == /\ active /\ Total(Within(events, Window)) >= MinObs
          /\ since # None /\ since >= Window

(* runResolverAutoDisable looks for silent resolvers, unless no more than  *)
(* three are valid, and unlocks.                                           *)
FindSilent ==
  /\ loop = "recording" /\ \A n \in noted : n.by # "loop"
  /\ \/ events' = Within(events, Window) /\ loop' = IF Silent THEN "disabling" ELSE "asleep"
     \/ loop' = "asleep" /\ UNCHANGED events
  /\ UNCHANGED <<samples, noted, arrived, since, answered, active, round, overtaken>>

(* disableResolverConnection, which looks only at whether the resolver is  *)
(* valid and more than three are, forgets the record of the resolver.      *)
AutoDisable ==
  /\ loop = "disabling" /\ loop' = "asleep"
  /\ \/ active /\ active' = FALSE /\ events' = [a \in Ages |-> 0] /\ since' = None
     \/ UNCHANGED <<active, events, since>>
  /\ overtaken' = FALSE
  /\ UNCHANGED <<samples, noted, arrived, answered, round>>

(* reactivateResolverConnection: a new record.                             *)
Reactivate ==
  /\ ~active
  /\ active' = TRUE
  /\ events' = [a \in Ages |-> 0] /\ since' = None /\ answered' = Horizon
  /\ UNCHANGED <<samples, noted, arrived, loop, round, overtaken>>

-----------------------------------------------------------------------------
(* Time.                                                                   *)
Older(age) == IF age = None THEN None ELSE IF age < Horizon THEN age + 1 ELSE Horizon

Tick ==
  /\ loop = "asleep" /\ noted = {} /\ arrived = {} /\ round < Gap
  /\ round' = round + 1
  /\ samples' = [q \in Queries |-> IF samples[q].at = "none" THEN NoSample ELSE [samples[q] EXCEPT !.age = @ + 1]]
  /\ events' = [a \in Ages |-> (IF a = 0 THEN 0 ELSE events[a - 1])
                                 + (IF a = Horizon THEN events[a] ELSE 0)]
  /\ since' = Older(since) /\ answered' = Older(answered)
  /\ UNCHANGED <<noted, arrived, active, loop, overtaken>>

HealthNext ==
  \/ \E q \in Queries : Send(q) \/ Answered(q) \/ NoteSuccess(q) \/ Fails(q)
  \/ \E n \in noted : NoteTimeout(n)
  \/ CollectTimeouts \/ FindSilent \/ AutoDisable \/ Reactivate \/ Tick

HealthSpec == HealthInit /\ [][HealthNext]_healthVars

-----------------------------------------------------------------------------
(* Properties.                                                             *)

(* Only a silent resolver is disabled: whatever the order in which its     *)
(* timeouts are found, recorded and taken back, it has answered nothing    *)
(* for a whole window but for the time between two rounds of the loop. The *)
(* allowance is needed: a timeout that is found late counts from when it   *)
(* was due, which may be before an answer that came meanwhile. The race    *)
(* the code leaves open is excepted by name: runResolverAutoDisable does   *)
(* not look again after it has unlocked, and a resolver whose success is   *)
(* recorded between the two is disabled all the same.                      *)
DisabledWasSilent ==
  [][active /\ ~active' => answered >= Window - Gap \/ overtaken]_healthVars

(* A sample that may still be answered is never given up for want of room  *)
(* while one that has timed out is kept.                                   *)
TimedOutGoFirst ==
  [][\A q \in Queries :
       /\ \E r \in Queries : samples'[r] # samples[r] /\ samples'[r] = [at |-> "sent", age |-> 0]
       /\ samples[q].at = "sent" /\ samples[q].age < Timeout /\ samples'[q] = NoSample
       => \A r \in Queries : samples'[r].at # "timedOut"]_healthVars

=============================================================================
