----------------------------- MODULE StreamWire -----------------------------
(***************************************************************************)
(* What the two ends of one stream share: its protocol and the packets of  *)
(* it that may still arrive.                                               *)
(*                                                                         *)
(* A control packet is sent again until it is acknowledged or its ARQ      *)
(* gives up, and a copy may be late, overtaken, repeated or lost. So a     *)
(* packet that was sent may arrive any number of times or never, until     *)
(* Silence says that the last copies of all packets in one direction are   *)
(* gone. The plain acknowledgements have no other effect than to stop the  *)
(* repeating and are left out; those of a reset and of a SYN have, and are *)
(* modelled.                                                               *)
(***************************************************************************)
EXTENDS Integers, Sequences, FiniteSets

CONSTANTS
  Fragments,   \* that a SOCKS5 target may take: 1 or 2
  Capacity     \* packets on the way at a time: a bound

ASSUME WireAssumption == Fragments \in {1, 2} /\ Capacity \in Nat

VARIABLES
  protocol,   \* "TCP" or "SOCKS5"
  total,      \* fragments of the SYN
  blocked,    \* the server does not dial such a target
  wire        \* packets that may still arrive

setup == <<protocol, total, blocked>>

SetupInit ==
  /\ protocol \in {"TCP", "SOCKS5"}
  /\ total \in IF protocol = "TCP" THEN {1} ELSE 1..Fragments
  /\ blocked \in IF protocol = "TCP" THEN {FALSE} ELSE BOOLEAN

Syns == IF total = 1 THEN {"SYN1"} ELSE {"SYN1", "SYN2"}

ToServer == {"SYN1", "SYN2", "DATA", "RST"}
ToClient == {"CONNECTED", "FAIL", "ORPHAN_RST", "RST_ACK"}

(* Packets are sent; beyond the capacity they are lost.                    *)
Sent(packets) ==
  IF Cardinality(wire \cup packets) > Capacity THEN wire ELSE wire \cup packets

Silence(direction) ==
  /\ wire \cap direction # {}
  /\ wire' = wire \ direction
  /\ UNCHANGED setup

=============================================================================
