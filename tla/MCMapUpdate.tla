---------------------------- MODULE MCMapUpdate ----------------------------
\* Finite instances of MapUpdate for TLC.
EXTENDS MapUpdate, TLC

CONSTANTS m1, m2, m3

InOrder == CHOOSE o \in [1..Cardinality(Maps) -> Maps] :
              \A i, j \in DOMAIN o : i # j => o[i] # o[j]
=============================================================================
