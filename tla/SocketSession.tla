---------------------------- MODULE SocketSession ----------------------------
(***************************************************************************)
(* A WorldSocket and its WorldSession point at each other and belong to    *)
(* different threads: the socket to the network thread whose reactor       *)
(* watches it, the session to the world thread, and during the update of   *)
(* the maps to the thread of its map.  The socket is counted (by the call  *)
(* that opens it, its manager, the reactor and the session); the session   *)
(* is not, and the network thread uses it through m_Session, which         *)
(* m_SessionLock guards, and closing_, which m_OutBufferLock guards where  *)
(* it is set and nothing where it is read.                                 *)
(***************************************************************************)
EXTENDS Integers, FiniteSets

CONSTANTS
    Sockets,
    Sessions,   \* bound: the sessions ever made
    NULL

ASSUME SocketSessionAssumption == NULL \notin Sockets \cup Sessions /\ IsFiniteSet(Sessions)

VARIABLES
    socket,     \* the WorldSocket objects
    session,    \* the WorldSession objects
    net,        \* the network thread: what it is about to do, and to which socket
    user,       \* the same of the threads that update sessions
    round       \* whether the world thread updates sessions, or the maps are updated

vars == <<socket, session, net, user, round>>

Users == {"world", "map"}

SocketRec ==
    [ life:       {"new", "alive", "freed"},
      refs:       Nat,
      opening:    {"no", "added", "registered"},    \* where open() is
      managed:    {"no", "new", "yes"},             \* in m_NewSockets, m_Sockets
      registered: BOOLEAN,                          \* with the reactor
      closing_:   BOOLEAN,
      m_Session:  Sessions \cup {NULL} ]

SessionRec ==
    [ life:     {"none", "made", "handed", "live", "deleted"},
      m_Socket: Sockets \cup {NULL} ]

NetAt  == {"idle", "packet", "authed", "queueing", "drop", "close", "unbind", "remove"}
UserAt == {"idle", "kick", "close", "delete"}

TypeOK ==
    /\ socket \in [Sockets -> SocketRec]
    /\ session \in [Sessions -> SessionRec]
    /\ net \in [at: NetAt, on: Sockets \cup {NULL}]
    /\ user \in [Users -> [at: UserAt, on: Sessions \cup {NULL}]]
    /\ round \in Users

Idle == [at |-> "idle", on |-> NULL]

Init ==
    /\ socket = [k \in Sockets |->
          [ life |-> "new", refs |-> 0, opening |-> "no", managed |-> "no",
            registered |-> FALSE, closing_ |-> FALSE, m_Session |-> NULL ]]
    /\ session = [s \in Sessions |-> [life |-> "none", m_Socket |-> NULL]]
    /\ net = Idle
    /\ user = [u \in Users |-> Idle]
    /\ round = "world"

(***************************************************************************)
(* Helpers.                                                                *)
(***************************************************************************)
\* Mutant: the socket is freed only by the last but one.
RemoveReference_Late(r) ==
    [r EXCEPT !.refs = @ - 1, !.life = IF r.refs = 0 THEN "freed" ELSE @]
\* The last reference frees the socket.
RemoveReference(r) ==
    [r EXCEPT !.refs = @ - 1, !.life = IF r.refs = 1 THEN "freed" ELSE @]
AddReference(r) == [r EXCEPT !.refs = @ + 1]

NetGoes(at, k) == net' = IF at = "idle" THEN Idle ELSE [at |-> at, on |-> k]
UserGoes(u, at, s) ==
    user' = [user EXCEPT ![u] = IF at = "idle" THEN Idle ELSE [at |-> at, on |-> s]]

\* m_SessionLock is held over a call of the session: QueuePacket or SetLatency.
SessionLocked(k) == net.at = "queueing" /\ net.on = k

(***************************************************************************)
(* The acceptor's thread: WorldSocket::open.                               *)
(***************************************************************************)
\* OnSocketOpen gives the socket to a network thread.
AddSocket(k) ==
    /\ socket[k].life = "new"
    /\ socket' = [socket EXCEPT ![k] = [@ EXCEPT
          !.life = "alive", !.refs = 2, !.opening = "added", !.managed = "new"]]
    /\ UNCHANGED <<session, net, user, round>>

\* The greeting cannot be sent or the reactor refuses: the socket is closed.
open_Fails(k) ==
    /\ socket[k].opening = "added"
    /\ socket' = [socket EXCEPT ![k] =
          [RemoveReference(@) EXCEPT !.opening = "no", !.closing_ = TRUE]]
    /\ UNCHANGED <<session, net, user, round>>

register_handler(k) ==
    /\ socket[k].opening = "added"
    /\ socket' = [socket EXCEPT ![k] =
          [AddReference(@) EXCEPT !.opening = "registered", !.registered = TRUE]]
    /\ UNCHANGED <<session, net, user, round>>

\* "reactor takes care of the socket from now on"
open_Returns(k) ==
    /\ socket[k].opening = "registered"
    /\ socket' = [socket EXCEPT ![k] = [RemoveReference(@) EXCEPT !.opening = "no"]]
    /\ UNCHANGED <<session, net, user, round>>

(***************************************************************************)
(* The network thread, between two runs of its reactor.                    *)
(***************************************************************************)
AddNewSockets(k) ==
    /\ net.at = "idle" /\ socket[k].managed = "new"
    /\ socket' = [socket EXCEPT ![k] =
          IF @.closing_ THEN [RemoveReference(@) EXCEPT !.managed = "no"]
          ELSE [@ EXCEPT !.managed = "yes"]]
    /\ UNCHANGED <<session, net, user, round>>

\* Mutant: a socket somebody else has closed is not looked at.
svc_Closes_Own(k) ==
    /\ net.at = "idle" /\ socket[k].managed = "yes"
    /\ ~socket[k].closing_ /\ socket[k].registered
    /\ socket' = [socket EXCEPT ![k].closing_ = TRUE]
    /\ NetGoes("drop", k)
    /\ UNCHANGED <<session, user, round>>
\* Update() of a managed socket fails, because it is closed already or cannot send
\* any more: the manager closes it and lets go of it.
svc_Closes(k) ==
    /\ net.at = "idle" /\ socket[k].managed = "yes"
    /\ \/ /\ socket[k].closing_
          /\ socket' = [socket EXCEPT ![k] = [RemoveReference(@) EXCEPT !.managed = "no"]]
          /\ UNCHANGED net
       \/ /\ ~socket[k].closing_ /\ socket[k].registered
          /\ socket' = [socket EXCEPT ![k].closing_ = TRUE]
          /\ NetGoes("drop", k)
    /\ UNCHANGED <<session, user, round>>

\* The second half of CloseSocket, and RemoveReference.
svc_Drops(k) ==
    /\ net = [at |-> "drop", on |-> k]
    /\ socket' = [socket EXCEPT ![k] =
          [RemoveReference(@) EXCEPT !.m_Session = NULL, !.managed = "no"]]
    /\ NetGoes("idle", k)
    /\ UNCHANGED <<session, user, round>>

(***************************************************************************)
(* The network thread, in its reactor.                                     *)
(***************************************************************************)
\* The client sends a packet, or it closes the connection; a socket that is
\* closing only waits for either.
handle_input(k) ==
    /\ net.at = "idle" /\ socket[k].registered
    /\ \/ ~socket[k].closing_ /\ NetGoes("packet", k)
       \/ NetGoes("close", k)
    /\ UNCHANGED <<socket, session, user, round>>

\* handle_input ends with Update().
Handled(k) == NetGoes(IF socket[k].closing_ THEN "close" ELSE "idle", k)

\* A packet that passed the test of closing_.  It is one for the session, and
\* m_SessionLock is taken and kept if there is one, or it concerns the socket alone.
ProcessIncoming(k) ==
    /\ net = [at |-> "packet", on |-> k]
    /\ \/ NetGoes(IF socket[k].m_Session # NULL THEN "queueing" ELSE "close", k)
       \/ Handled(k)
    /\ UNCHANGED <<socket, session, user, round>>

QueuePacket(k) ==
    /\ net = [at |-> "queueing", on |-> k]
    /\ Handled(k)
    /\ UNCHANGED <<socket, session, user, round>>

\* A session is made, with its reference to the socket, unless the client is refused
\* or has one.  (A socket whose session was deleted since the test of closing_ may
\* get another.)
HandleAuthSession(k) ==
    /\ net = [at |-> "packet", on |-> k]
    /\ \/ /\ socket[k].m_Session = NULL
          /\ \E s \in Sessions :
                /\ session[s].life = "none"
                /\ session' = [session EXCEPT ![s] = [life |-> "made", m_Socket |-> k]]
                /\ socket' = [socket EXCEPT ![k] = [AddReference(@) EXCEPT !.m_Session = s]]
          /\ NetGoes("authed", k)
       \/ /\ NetGoes("close", k)
          /\ UNCHANGED <<socket, session>>
    /\ UNCHANGED <<user, round>>

\* Mutant: the session of a socket closed meanwhile is not handed over.
AddSession_OfOpen(k) ==
    /\ net = [at |-> "authed", on |-> k]
    /\ session' = IF socket[k].closing_ THEN session
                  ELSE [session EXCEPT ![socket[k].m_Session].life = "handed"]
    /\ Handled(k)
    /\ UNCHANGED <<socket, user, round>>
AddSession(k) ==
    /\ net = [at |-> "authed", on |-> k]
    /\ session' = [session EXCEPT ![socket[k].m_Session].life = "handed"]
    /\ Handled(k)
    /\ UNCHANGED <<socket, user, round>>

\* handle_close: two critical sections, and the reactor forgets the socket.
handle_close(k) ==
    /\ \/ /\ net = [at |-> "close", on |-> k]
          /\ socket' = [socket EXCEPT ![k].closing_ = TRUE]
          /\ NetGoes("unbind", k)
       \/ /\ net = [at |-> "unbind", on |-> k]
          /\ socket' = [socket EXCEPT ![k].m_Session = NULL]
          /\ NetGoes("remove", k)
       \/ /\ net = [at |-> "remove", on |-> k]
          /\ socket' = [socket EXCEPT ![k] = [RemoveReference(@) EXCEPT !.registered = FALSE]]
          /\ NetGoes("idle", k)
    /\ UNCHANGED <<session, user, round>>

(***************************************************************************)
(* The threads that update sessions, by turns: the world thread in         *)
(* UpdateSessions, a map's thread in Map::Update.                          *)
(***************************************************************************)
Turn(u, s) == round = u /\ user[u].at = "idle" /\ session[s].life = "live"

\* KickPlayer, from a handler, an administrator or Warden: the first half of
\* CloseSocket.  (It does nothing to a socket that is closing.)
KickPlayer(u, s) ==
    /\ Turn(u, s)
    /\ \E k \in Sockets :
          /\ session[s].m_Socket = k /\ ~socket[k].closing_
          /\ socket' = [socket EXCEPT ![k].closing_ = TRUE]
    /\ UserGoes(u, "kick", s)
    /\ UNCHANGED <<session, net, round>>

\* Mutant: m_SessionLock is not waited for.
CloseSocket_Unlocked(u, s) ==
    /\ round = u /\ user[u] \in [at: {"kick", "close"}, on: {s}]
    /\ \E k \in Sockets :
          /\ session[s].m_Socket = k
          /\ socket' = [socket EXCEPT ![k].m_Session = NULL]
    /\ UserGoes(u, IF user[u].at = "kick" THEN "idle" ELSE "delete", s)
    /\ UNCHANGED <<session, net, round>>
\* The second half of CloseSocket.
CloseSocket(u, s) ==
    /\ round = u /\ user[u] \in [at: {"kick", "close"}, on: {s}]
    /\ \E k \in Sockets :
          /\ session[s].m_Socket = k /\ ~SessionLocked(k)
          /\ socket' = [socket EXCEPT ![k].m_Session = NULL]
    /\ UserGoes(u, IF user[u].at = "kick" THEN "idle" ELSE "delete", s)
    /\ UNCHANGED <<session, net, round>>

\* Mutant: the session keeps its pointer.
Update_Kept(u, s) ==
    /\ Turn(u, s)
    /\ \E k \in Sockets :
          /\ session[s].m_Socket = k /\ socket[k].closing_
          /\ socket' = [socket EXCEPT ![k] = RemoveReference(@)]
    /\ UNCHANGED <<session, net, user, round>>
\* Update finds the socket closed and lets go of it.
Update(u, s) ==
    /\ Turn(u, s)
    /\ \E k \in Sockets :
          /\ session[s].m_Socket = k /\ socket[k].closing_
          /\ socket' = [socket EXCEPT ![k] = RemoveReference(@)]
    /\ session' = [session EXCEPT ![s].m_Socket = NULL]
    /\ UNCHANGED <<net, user, round>>

\* A new session joins the others; a session without a socket is deleted.
UpdateSessions(s) ==
    /\ round = "world" /\ user["world"].at = "idle"
    /\ \/ /\ session[s].life = "handed"
          /\ session' = [session EXCEPT ![s].life = "live"]
       \/ /\ session[s].life = "live" /\ session[s].m_Socket = NULL
          /\ session' = [session EXCEPT ![s].life = "deleted"]
    /\ UNCHANGED <<socket, net, user, round>>

\* A new session is turned away, or one is replaced: the destructor closes the
\* socket first, unless it is closing already.
DeleteSession(s) ==
    /\ round = "world" /\ user["world"].at = "idle"
    /\ session[s].life \in {"handed", "live"}
    /\ \E k \in Sockets :
          /\ session[s].m_Socket = k
          /\ socket' = [socket EXCEPT ![k].closing_ = TRUE]
          /\ UserGoes("world", IF socket[k].closing_ THEN "delete" ELSE "close", s)
    /\ UNCHANGED <<session, net, round>>

DeleteSession_Ends(s) ==
    /\ user["world"] = [at |-> "delete", on |-> s]
    /\ \E k \in Sockets :
          /\ session[s].m_Socket = k
          /\ socket' = [socket EXCEPT ![k] = RemoveReference(@)]
    /\ session' = [session EXCEPT ![s] = [life |-> "deleted", m_Socket |-> NULL]]
    /\ UserGoes("world", "idle", s)
    /\ UNCHANGED <<net, round>>

\* The world thread waits for the threads of the maps.
RoundEnds ==
    /\ user[round].at = "idle"
    /\ round' \in Users \ {round}
    /\ UNCHANGED <<socket, session, net, user>>

OpenStep(k) == AddSocket(k) \/ open_Fails(k) \/ register_handler(k) \/ open_Returns(k)

NetStep(k) ==
    \/ AddNewSockets(k) \/ svc_Closes(k) \/ svc_Drops(k)
    \/ handle_input(k) \/ ProcessIncoming(k) \/ QueuePacket(k)
    \/ HandleAuthSession(k) \/ AddSession(k) \/ handle_close(k)

UserStep(s) ==
    \/ \E u \in Users : KickPlayer(u, s) \/ CloseSocket(u, s) \/ Update(u, s)
    \/ UpdateSessions(s) \/ DeleteSession(s) \/ DeleteSession_Ends(s)

Next ==
    \/ RoundEnds
    \/ \E k \in Sockets : OpenStep(k) \/ NetStep(k)
    \/ \E s \in Sessions : UserStep(s)

Spec == Init /\ [][Next]_vars

\* open() runs to its end.  The reactor runs for at most 10 ms, then the manager looks
\* at its sockets, and Update() of a closed one fails; what the network thread has begun
\* it ends.  Every update of the sessions visits all of them, and every one ends.
\* Nothing is asked of clients, and no socket in order has to fail.
FairSpec ==
    /\ Spec
    /\ WF_vars(RoundEnds)
    /\ \A k \in Sockets :
          /\ WF_vars(open_Fails(k) \/ register_handler(k) \/ open_Returns(k))
          /\ SF_vars(AddNewSockets(k) \/ (socket[k].closing_ /\ svc_Closes(k)))
          /\ WF_vars(net.on = k /\ NetStep(k))
    /\ \A s \in Sessions :
          SF_vars(\/ \E u \in Users : CloseSocket(u, s)
                  \/ Update("world", s) \/ UpdateSessions(s) \/ DeleteSession_Ends(s))

(***************************************************************************)
(* Properties.                                                             *)
(***************************************************************************)
\* The references of a socket are those of open(), of its manager, of the reactor
\* and of its sessions, and it is freed with the last: neither too early nor never.
One(holds) == IF holds THEN 1 ELSE 0
Holders(k) ==
    One(socket[k].opening # "no") + One(socket[k].managed # "no") + One(socket[k].registered)
        + Cardinality({s \in Sessions : session[s].m_Socket = k})

ReferencesAreCounted ==
    \A k \in Sockets :
        /\ socket[k].refs = Holders(k)
        /\ socket[k].life = "alive" <=> Holders(k) # 0

\* The network thread gives packets to sessions that exist, whatever the threads that
\* update and delete sessions do meanwhile.
PacketsFindTheirSession ==
    net.at \in {"queueing", "authed"} =>
        /\ socket[net.on].m_Session # NULL
        /\ session[socket[net.on].m_Session].life \in {"made", "handed", "live"}

\* What is closed is let go of by its session and by its manager, and the session is
\* deleted: only the reactor waits for the client.
ClosedSocketIsLetGo(k) ==
    socket[k].closing_ ~> Holders(k) = One(socket[k].registered)

SessionOfClosedSocketEnds(s) ==
    session[s].m_Socket # NULL /\ socket[session[s].m_Socket].closing_
        ~> session[s].life = "deleted"
=============================================================================
