----------------------------- MODULE MTUSearch -----------------------------
(***************************************************************************)
(* Client.binarySearchMTU (internal/client/mtu.go): the search for the     *)
(* largest size a path carries. A size is probed at most once, with its    *)
(* retries, so a search is a function of the set of sizes whose probe got  *)
(* through. 0 means that none was found.                                   *)
(***************************************************************************)
EXTENDS Integers

(* The loop between the two boundaries, from the best size known so far.   *)
SearchBetween(low, high, best, got) ==
  LET Loops == [left : low..high + 1, right : low - 1..high, best : low - 1..high]
      from[s \in Loops] ==
        LET mid == (s.left + s.right) \div 2
        IN  IF s.left > s.right THEN s.best
            ELSE IF mid \in got THEN from[[left |-> mid + 1, right |-> s.right, best |-> mid]]
            ELSE from[[left |-> s.left, right |-> mid - 1, best |-> s.best]]
  IN  from[[left |-> low, right |-> high, best |-> best]]

(* Mutant: the upper boundary is only tried from inside.                   *)
SearchInside(low, high, got) ==
  IF high < low \/ low \notin got THEN 0
  ELSE IF high = low THEN low
  ELSE SearchBetween(low + 1, high - 1, low, got)

(* Both boundaries first, the inner sizes only if exactly the lower one    *)
(* passes.                                                                 *)
Search(low, high, got) ==
  IF high < low THEN 0
  ELSE IF high \in got THEN high
  ELSE IF low \notin got THEN 0
  ELSE SearchBetween(low + 1, high - 1, low, got)

(* Whatever probes get through, the result is one of their sizes; when     *)
(* they are those up to what the path carries, it is the largest.          *)
FindsLargest(low, high) ==
  /\ \A got \in SUBSET (low..high) : Search(low, high, got) \in got \cup {0}
  /\ \A carried \in low - 1..high :
       Search(low, high, low..carried) = IF carried < low THEN 0 ELSE carried

SearchFindsLargest == \A low \in 1..3, high \in 0..7 : FindsLargest(low, high)

=============================================================================
