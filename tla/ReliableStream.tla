--------------------------- MODULE ReliableStream ---------------------------
(***************************************************************************)
(* What one direction of a StormDNS stream promises its two applications:  *)
(* the chunks accepted from the local connection come out of the other     *)
(* end in the order they went in, each once.  Internal abstract            *)
(* specification; ARQData is shown to implement it.                        *)
(***************************************************************************)
EXTENDS Naturals, Sequences

VARIABLES accepted,    \* how many chunks the sending ARQ has read so far
          output       \* the chunks written to the receiving application

rsVars == <<accepted, output>>

Init == accepted = 0 /\ output = <<>>

\* The n-th chunk is named by its position n in the stream, from 0.
Accept == accepted' = accepted + 1 /\ UNCHANGED output

Deliver ==
    \E n \in 1 .. (accepted - Len(output)) :
        /\ output' = output \o [k \in 1 .. n |-> Len(output) + k - 1]
        /\ UNCHANGED accepted

Next == Accept \/ Deliver

Spec == Init /\ [][Next]_rsVars
=============================================================================
