---------------------------- MODULE StreamSetup -----------------------------
(***************************************************************************)
(* One stream between a client and a server, from the local connection's   *)
(* request to the end of both sides.                                       *)
(***************************************************************************)
EXTENDS ClientStream, ServerStream

vars == <<setup, wire, clientVars, serverVars>>

Init ==
  /\ SetupInit /\ wire = {}
  /\ ClientInit /\ ServerInit

Next ==
  \/ ClientStep /\ UNCHANGED serverVars
  \/ ServerStep /\ UNCHANGED clientVars
  \/ \E direction \in {ToServer, ToClient} : Silence(direction) /\ UNCHANGED <<clientVars, serverVars>>

Spec == Init /\ [][Next]_vars

-----------------------------------------------------------------------------
(* The local connection is told of success only if a connection was given  *)
(* to a stream for it, never after it was told of a failure, and never     *)
(* twice (HandleSocksConnected, handleStreamConnected).                    *)
SuccessIsTrue ==
  \A n \in DOMAIN replies : replies[n] = "ok" => n = 1 /\ attached

=============================================================================
