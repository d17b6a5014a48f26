-------------------------------- MODULE Slices --------------------------------
(***************************************************************************)
(* What the code does to a slice or a list in place.                       *)
(***************************************************************************)
EXTENDS Integers, Sequences

(* The list without some of its members, the others in their order.        *)
Drop(s, gone) ==
  LET upto[i \in 0..Len(s)] ==
        IF i = 0 THEN << >>
        ELSE IF s[i] \in gone THEN upto[i - 1] ELSE Append(upto[i - 1], s[i])
  IN  upto[Len(s)]

=============================================================================
