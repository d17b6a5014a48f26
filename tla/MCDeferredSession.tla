-------------------------- MODULE MCDeferredSession --------------------------
(* The instance of DeferredSession that TLC checks.  Ingress goroutines,     *)
(* streams and fragments are interchangeable, so states are identified up to *)
(* their permutations; only safety is checked under this symmetry.           *)
EXTENDS DeferredSession, TLC

AllLanes == Sessions \X Streams

Symmetry == Permutations(Ingress) \cup Permutations(Streams) \cup Permutations(Frags)
=============================================================================
