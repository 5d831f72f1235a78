-------------------------- MODULE MCWorldSessions --------------------------
\* Finite instances of WorldSessions for TLC.
EXTENDS WorldSessions, TLC

CONSTANTS a1, a2, a3, gm, s1, s2, s3, s4

\* A security limit, no limit, and two sizes of the server.
AnyLimit == {-1, 0, 1, 2}

Symmetry == Permutations(Sessions)
\* Three players and a game master.
PlayerSymmetry == Symmetry \cup Permutations({a1, a2, a3})
=============================================================================
