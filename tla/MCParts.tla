------------------------------ MODULE MCParts -------------------------------
(***************************************************************************)
(* The parts that touch nothing of each other's are checked in one run: a  *)
(* behaviour is one of any one of them, and the state space is the sum of  *)
(* theirs, not the product.                                                *)
(***************************************************************************)
EXTENDS DNSCache, ServerDequeue, ResolverHealth, TLC

VARIABLE part   \* the part that runs

mcVars == <<part, cacheVars, dequeueVars, healthVars>>

MCStreamPackets == <<{"data", "resend"}, {"ack"}>>

MCInit ==
  /\ part \in {"cache", "dequeue", "health"}
  /\ CacheInit /\ DequeueInit /\ HealthInit

MCNext ==
  /\ \/ part = "cache" /\ CacheNext /\ UNCHANGED <<dequeueVars, healthVars>>
     \/ part = "dequeue" /\ DequeueNext /\ UNCHANGED <<cacheVars, healthVars>>
     \/ part = "health" /\ HealthNext /\ UNCHANGED <<cacheVars, dequeueVars>>
  /\ UNCHANGED part

MCSpec == MCInit /\ [][MCNext]_mcVars

TypeOK == CacheTypeOK /\ DequeueTypeOK /\ HealthTypeOK

Symmetry == Permutations(PollWorkers)

=============================================================================
