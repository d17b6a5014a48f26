----------------------------- MODULE MCStreams ------------------------------
(***************************************************************************)
(* One stream, either between its two ends or at a server whose client may *)
(* send anything: the two are checked in one run, each within its bounds.  *)
(***************************************************************************)
EXTENDS StreamSetup, StreamEnd

CONSTANTS
  PairTasks,    \* bounds of the two ends together: tasks that run,
  PairStreams,  \* streams made under the ID,
  PairDials     \* and connections opened

VARIABLE client   \* "ours" or "any"

mcVars == <<vars, quiet, client>>

MCInit ==
  \/ client = "ours" /\ Init /\ quiet = FALSE
  \/ client = "any" /\ EndInit /\ ClientInit

InPairBounds ==
  /\ \A t \in Tasks \ PairTasks : tasks[t] = Idle
  /\ Len(streams) <= PairStreams
  /\ dials <= PairDials

MCNext ==
  /\ \/ client = "ours" /\ Next /\ InPairBounds' /\ UNCHANGED quiet
     \/ client = "any" /\ EndNext /\ UNCHANGED clientVars
  /\ UNCHANGED client

(* No more is asked of the server than that it goes on, in whatever order. *)
MCSpec ==
  /\ MCInit /\ [][MCNext]_mcVars
  /\ WF_mcVars(client = "any" /\ GoesOn /\ UNCHANGED <<clientVars, client>>)

=============================================================================
