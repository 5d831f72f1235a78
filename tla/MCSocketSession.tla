--------------------------- MODULE MCSocketSession ---------------------------
\* Finite instances of SocketSession for TLC.
EXTENDS SocketSession, TLC

CONSTANTS k1, k2, s1, s2

(***************************************************************************)
(* Nothing in the specification, its fairness included, tells one socket   *)
(* or one session from another: what is shown of one holds of all.         *)
(***************************************************************************)
\* A socket that is closed, by whichever thread, is let go of by its session and its
\* manager: only the reactor may still hold it, waiting for the client.
ClosedSocketsAreLetGo == ClosedSocketIsLetGo(k1)

\* A session whose socket is closed, at whatever point of its making, is deleted by
\* the world thread.
SessionsOfClosedSocketsEnd == SessionOfClosedSocketEnds(s1)
=============================================================================
