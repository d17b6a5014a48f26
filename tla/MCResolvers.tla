---------------------------- MODULE MCResolvers ----------------------------
(* Resolvers for TLC: connections are interchangeable.                     *)
EXTENDS Resolvers, TLC

Symmetry == Permutations(Conns)

=============================================================================
