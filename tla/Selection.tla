------------------------------- MODULE Selection -------------------------------
(***************************************************************************)
(* Picking elements of a sequence in order, as the comprehensions and      *)
(* loops of the source do.                                                 *)
(***************************************************************************)
EXTENDS Integers, Sequences

(* The least of a set of numbers that has one.                             *)
Least(S) == CHOOSE n \in S : \A m \in S : n <= m

(* What is picked from the first elements of s, by their number.           *)
PickedFrom(s, I) ==
    LET kept[n \in 0..Len(s)] ==
            IF n = 0 THEN <<>>
            ELSE IF n \in I THEN Append(kept[n - 1], s[n])
            ELSE kept[n - 1]
    IN  kept

(* The elements of s at the positions in I, in order.                      *)
Picked(s, I) == PickedFrom(s, I)[Len(s)]
===============================================================================
