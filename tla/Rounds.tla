------------------------------- MODULE Rounds -------------------------------
(* A loop as the function that one round of it is. *)
EXTENDS Integers

\* What n rounds make of a state.
AfterRounds(n, round, state) ==
    LET after[k \in 0 .. n] == IF k = 0 THEN state ELSE round[after[k - 1]] IN after[n]
=============================================================================
