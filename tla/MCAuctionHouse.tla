--------------------------- MODULE MCAuctionHouse ---------------------------
\* Finite instances of AuctionHouse for TLC.
EXTENDS AuctionHouse, TLC

CONSTANTS p1, p2, p3, i1, i2, i3, id1, id2, StartGold, MaxFees, MaxGain

OneAccountEach == [p \in Players |-> p]
FirstHasItem   == [p \in Players |-> IF p = p1 THEN {i1} ELSE {}]
TwoStacks      == [p \in Players |-> IF p = p1 THEN {i1, i2} ELSE {}]

\* The units of the items.
OneEach   == [i \in Items |-> 1]
TwoAndOne == [i \in Items |-> IF i = i1 THEN 2 ELSE 1]

\* Enough for the dearest bid of the instance and the deposit.
GoldEach == [p \in Players |-> StartGold]

\* The bounds on what the house has earned and on what crashes have handed out.
GoldBound ==
    LET start == Cardinality(Players) * StartGold
    IN  GoldShown \in start - MaxFees .. start + MaxGain

\* Only the initial state tells players, items and auctions apart, and no step
\* or property names one of them.
Symmetry == Permutations(Players) \cup Permutations(Items) \cup Permutations(Ids)
=============================================================================
