------------------------------- MODULE MCMail -------------------------------
\* Finite instances of Mail for TLC.
EXTENDS Mail, TLC

CONSTANTS p1, p2, i1, m1, m2, EachGold, MaxDelay, MaxTotal

GoldOfEach  == [p \in Players |-> EachGold]
ItemOfFirst == [p \in Players |-> IF p = p1 THEN {i1} ELSE {}]

\* The bound on gold: states with more of it, which only a crash makes, are
\* checked and not explored.
GoldBound == TotalGold(settled) <= MaxTotal

\* The bound on how far the database thread is behind.
DelayBound == Len(delay') > Len(delay) => delay = <<>> \/ Len(delay') <= MaxDelay

Symmetry == Permutations(Ids)
=============================================================================
