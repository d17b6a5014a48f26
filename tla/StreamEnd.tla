----------------------------- MODULE StreamEnd -----------------------------
(***************************************************************************)
(* The server's side of a stream and a client of which only this is known: *)
(* it may send any packet at any time, until nothing of the stream comes   *)
(* any more, neither from it nor from the way.                             *)
(***************************************************************************)
EXTENDS ServerStream

VARIABLE quiet   \* nothing comes any more

(* All packets are on the way, and those the server sends are among them.  *)
EndInit ==
  /\ SetupInit /\ wire = ToServer \cup ToClient
  /\ ServerInit
  /\ quiet = FALSE

(* From now on the server's packets only go to nobody.                     *)
FallSilent ==
  /\ ~quiet
  /\ quiet' = TRUE /\ wire' = ToClient
  /\ UNCHANGED <<setup, serverVars>>

EndNext == FallSilent \/ (ServerStep /\ UNCHANGED quiet)

(* What the server does by itself: handlers, tasks and finalizations run   *)
(* to their end, for a dial has a time limit; and an ARQ that hears        *)
(* nothing times out.                                                      *)
GoesOn ==
  /\ \/ \E p \in Syns : AckSyn(p)
     \/ \E t \in Tasks : StartTask(t) \/ Works(t)
     \/ \E i \in DOMAIN streams : Finishes(i) \/ (quiet /\ ServerCloses(i))
     \/ ForgetSession
  /\ UNCHANGED quiet

-----------------------------------------------------------------------------
(* Nothing of the stream is left at the server: no connection, no stream   *)
(* in the table, no task, and no mark that would keep a SYN from becoming  *)
(* a task (deferredInflight).                                              *)
NothingLeft ==
  /\ open = {} /\ current = Nil
  /\ inflight = {} /\ lane.queue = << >>
  /\ \A t \in Tasks : tasks[t].at = "idle"


=============================================================================
