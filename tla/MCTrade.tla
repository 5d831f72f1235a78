------------------------------ MODULE MCTrade ------------------------------
\* Finite instances of Trade for TLC.
EXTENDS Trade, TLC

CONSTANTS p1, p2, i1, i2, near, far, t1, shown, MaxSaves

\* What the players start with.
ItemEach == [p \in Players |-> IF p = p1 THEN {i1} ELSE {i2}]
TwoAndOne == [p \in Players |-> IF p = p1 THEN 2 ELSE 1]

\* The bound on the transactions the database thread is behind.
SavesBound == Len(saves) <= MaxSaves

\* The bound on what other code does meanwhile: of two items and three coins one may
\* be gone, or one item may be bound.
Untouched == gold[p1] + gold[p2] + Cardinality(inventory[p1] \cup inventory[p2]) + Cardinality(tradable)
OthersBound == Untouched >= 6

\* The two are apart only while the database has caught up and nothing is gone.
PlacesBound == Cardinality({place[p] : p \in Players}) = 1 \/ (saves = <<>> /\ Untouched = 7)

\* The places differ only in being two.
Symmetry == Permutations(Places)
=============================================================================
