------------------------- MODULE SocketSessionProofs -------------------------
(***************************************************************************)
(* Proofs about SocketSession, for any numbers of sockets and sessions:    *)
(* the types, the references of the sockets, and that packets find their   *)
(* session.                                                                *)
(***************************************************************************)
EXTENDS SocketSession, FiniteSetTheorems, TLAPS

(***************************************************************************)
(* The inductive invariant.  A packet finds its session because a session  *)
(* that is let go of or deleted has a closed socket, and between the two   *)
(* critical sections of CloseSocket somebody is known to be on the way to  *)
(* clear m_Session: the network thread itself, which then queues nothing,  *)
(* or a thread that updates sessions and still holds that session.         *)
(***************************************************************************)
\* The reactor watches the socket the network thread reads from; a socket it closes
\* is marked, and one it drops is managed.
NetIsServing ==
    /\ net.at # "idle" => net.on \in Sockets
    /\ \A k \in Sockets : net.on = k =>
          /\ net.at \in {"packet", "authed", "queueing", "close", "unbind", "remove"} =>
                socket[k].registered
          /\ net.at \in {"drop", "unbind", "remove"} => socket[k].closing_
          /\ net.at = "drop" => socket[k].managed = "yes"
          /\ net.at = "remove" => socket[k].m_Session = NULL

SocketsOpenEmpty ==
    \A k \in Sockets :
        /\ socket[k].opening = "added" => ~socket[k].registered
        /\ socket[k].life = "new" \/ socket[k].opening = "added" => socket[k].m_Session = NULL

\* The threads that update sessions take turns, and keep the session they close.
TurnsAreKept ==
    \A u \in Users : user[u].at # "idle" =>
        /\ round = u
        /\ \E s \in Sessions :
              /\ user[u].on = s /\ session[s].life \in {"handed", "live"}
              /\ \E k \in Sockets : session[s].m_Socket = k /\ socket[k].closing_

\* What a socket and a session know of each other.
PointersMatch ==
    \A s \in Sessions :
        /\ session[s].life \in {"none", "deleted"} => session[s].m_Socket = NULL
        /\ \A k \in Sockets :
              /\ socket[k].m_Session = s =>
                    session[s].life # "none" /\ session[s].m_Socket \in {k, NULL}
              /\ ~socket[k].closing_ =>
                    (session[s].m_Socket = k <=> socket[k].m_Session = s)

Closing(s) == \E u \in Users : user[u].at \in {"kick", "close"} /\ user[u].on = s

\* Somebody is on the way to clear the m_Session of a closed socket.
ClosersAreComing ==
    \A k \in Sockets : \A s \in Sessions :
        socket[k].m_Session = s /\ socket[k].closing_
              /\ ~(net.on = k /\ net.at \in {"authed", "close", "unbind", "drop"})
            => Closing(s)

\* Who closes a session's socket closes it under that session.
ClosersMeetTheirSession ==
    \A k \in Sockets : \A s \in Sessions :
        net.on = k /\ Closing(s) /\ session[s].m_Socket = k =>
            net.at # "authed" /\ (net.at = "packet" => socket[k].m_Session = s)

NewSessionIsMade ==
    net.at = "authed" =>
        \E s \in Sessions :
            socket[net.on].m_Session = s /\ session[s] = [life |-> "made", m_Socket |-> net.on]

QueueingHasSession == net.at = "queueing" => socket[net.on].m_Session # NULL

Links ==
    /\ NetIsServing /\ SocketsOpenEmpty /\ TurnsAreKept /\ PointersMatch
    /\ ClosersAreComing /\ ClosersMeetTheirSession /\ NewSessionIsMade /\ QueueingHasSession

IInv == TypeOK /\ ReferencesAreCounted /\ Links

(***************************************************************************)
(* Counting references.                                                    *)
(***************************************************************************)
SessionsOf(k) == {s \in Sessions : session[s].m_Socket = k}

LEMMA HoldersByKind ==
    ASSUME NEW k \in Sockets
    PROVE  Holders(k) = One(socket[k].opening # "no") + One(socket[k].managed # "no")
                            + One(socket[k].registered) + Cardinality(SessionsOf(k))
  BY DEF Holders, SessionsOf

LEMMA SessionsAreCounted ==
    \A S \in SUBSET Sessions :
        /\ Cardinality(S) \in Nat
        /\ Cardinality(S) = 0 <=> S = {}
        /\ \A s \in Sessions \ S : Cardinality(S \cup {s}) = Cardinality(S) + 1
        /\ \A s \in S : Cardinality(S \ {s}) = Cardinality(S) - 1
  <1> SUFFICES ASSUME NEW S \in SUBSET Sessions
               PROVE  /\ Cardinality(S) \in Nat
                      /\ Cardinality(S) = 0 <=> S = {}
                      /\ \A s \in Sessions \ S : Cardinality(S \cup {s}) = Cardinality(S) + 1
                      /\ \A s \in S : Cardinality(S \ {s}) = Cardinality(S) - 1
    OBVIOUS
  <1>1. IsFiniteSet(S)
    BY SocketSessionAssumption, FS_Subset
  <1>2. Cardinality(S) \in Nat /\ (Cardinality(S) = 0 <=> S = {})
    BY <1>1, FS_CardinalityType, FS_EmptySet
  <1>3. \A s \in Sessions \ S : Cardinality(S \cup {s}) = Cardinality(S) + 1
    BY <1>1, FS_AddElement
  <1>4. \A s \in S : Cardinality(S \ {s}) = Cardinality(S) - 1
    BY <1>1, FS_RemoveElement
  <1> QED BY <1>2, <1>3, <1>4

\* A socket somebody holds has references, and one that is new has none.
LEMMA HeldSockets ==
    ASSUME TypeOK, ReferencesAreCounted, NEW k \in Sockets
    PROVE  /\ socket[k].refs \in Nat
           /\ (\/ socket[k].opening # "no" \/ socket[k].managed # "no" \/ socket[k].registered
               \/ SessionsOf(k) # {})
                => socket[k].refs > 0 /\ socket[k].life = "alive"
           /\ socket[k].life # "alive" => socket[k].refs = 0
  <1>1. SessionsOf(k) \in SUBSET Sessions
    BY DEF SessionsOf
  <1>2. /\ Cardinality(SessionsOf(k)) \in Nat
        /\ Cardinality(SessionsOf(k)) = 0 <=> SessionsOf(k) = {}
    BY <1>1, SessionsAreCounted
  <1>3. /\ socket[k].refs = One(socket[k].opening # "no") + One(socket[k].managed # "no")
                            + One(socket[k].registered) + Cardinality(SessionsOf(k))
        /\ socket[k].life = "alive" <=> socket[k].refs # 0
    BY HoldersByKind DEF ReferencesAreCounted
  <1>4. socket[k].refs \in Nat
    BY DEF TypeOK, SocketRec
  <1> QED BY <1>2, <1>3, <1>4 DEF One

Handles(r) == One(r.opening # "no") + One(r.managed # "no") + One(r.registered)

\* The references are right again when a socket's count moved as its holders did.
LEMMA CountsFollow ==
    ASSUME TypeOK, ReferencesAreCounted,
           NEW k \in Sockets, NEW r \in SocketRec,
           socket' = [socket EXCEPT ![k] = r],
           \A j \in Sockets \ {k} : SessionsOf(j)' = SessionsOf(j),
           r.refs - Handles(r) - Cardinality(SessionsOf(k)')
             = socket[k].refs - Handles(socket[k]) - Cardinality(SessionsOf(k)),
           r.life = "alive" <=> r.refs # 0
    PROVE  /\ ReferencesAreCounted'
           /\ socket' \in [Sockets -> SocketRec]
           /\ socket'[k] = r
           /\ \A j \in Sockets \ {k} : socket'[j] = socket[j]
  <1>1. /\ socket' \in [Sockets -> SocketRec]
        /\ socket'[k] = r
        /\ \A j \in Sockets \ {k} : socket'[j] = socket[j]
    BY DEF TypeOK
  <1>2. /\ socket'[k].refs = Holders(k)'
        /\ socket'[k].life = "alive" <=> Holders(k)' # 0
    <2>1. Holders(k)' = One(r.opening # "no") + One(r.managed # "no")
                          + One(r.registered) + Cardinality(SessionsOf(k)')
      BY <1>1 DEF Holders, SessionsOf, One
    <2>2. socket[k].refs = Handles(socket[k]) + Cardinality(SessionsOf(k))
      BY HoldersByKind DEF ReferencesAreCounted, Handles
    <2>3. /\ Cardinality(SessionsOf(k)) \in Nat /\ r.refs \in Int /\ socket[k].refs \in Int
          /\ Cardinality(SessionsOf(k)') \in Nat
          /\ Handles(r) \in Int /\ Handles(socket[k]) \in Int
      BY SessionsAreCounted DEF SessionsOf, TypeOK, SocketRec, Handles, One
    <2>4. r.refs = Holders(k)'
      BY <2>1, <2>2, <2>3 DEF Handles
    <2> QED BY <1>1, <2>4
  <1>3. ASSUME NEW j \in Sockets \ {k}
        PROVE  /\ socket'[j].refs = Holders(j)'
               /\ socket'[j].life = "alive" <=> Holders(j)' # 0
    <2>1. socket'[j] = socket[j] /\ SessionsOf(j)' = SessionsOf(j)
      BY <1>1
    <2>2. Holders(j)' = Holders(j)
      BY <2>1 DEF Holders, SessionsOf
    <2> QED BY <2>1, <2>2 DEF ReferencesAreCounted
  <1>4. ReferencesAreCounted'
    BY <1>2, <1>3 DEF ReferencesAreCounted
  <1> QED BY <1>1, <1>4

LEMMA References ==
    ASSUME NEW r \in SocketRec
    PROVE  /\ AddReference(r) \in SocketRec
           /\ AddReference(r).refs = r.refs + 1
           /\ AddReference(r).life = r.life
           /\ AddReference(r).opening = r.opening
           /\ AddReference(r).managed = r.managed
           /\ AddReference(r).registered = r.registered
           /\ AddReference(r).closing_ = r.closing_
           /\ AddReference(r).m_Session = r.m_Session
           /\ r.refs > 0 => RemoveReference(r) \in SocketRec
           /\ RemoveReference(r).refs = r.refs - 1
           /\ RemoveReference(r).life = IF r.refs = 1 THEN "freed" ELSE r.life
           /\ RemoveReference(r).opening = r.opening
           /\ RemoveReference(r).managed = r.managed
           /\ RemoveReference(r).registered = r.registered
           /\ RemoveReference(r).closing_ = r.closing_
           /\ RemoveReference(r).m_Session = r.m_Session
  <1>1. /\ AddReference(r) \in SocketRec
        /\ AddReference(r).refs = r.refs + 1
        /\ AddReference(r).life = r.life
        /\ AddReference(r).opening = r.opening
        /\ AddReference(r).managed = r.managed
        /\ AddReference(r).registered = r.registered
        /\ AddReference(r).closing_ = r.closing_
        /\ AddReference(r).m_Session = r.m_Session
    BY DEF AddReference, SocketRec
  <1> DEFINE l == IF r.refs = 1 THEN "freed" ELSE r.life
  <1>2. l \in {"new", "alive", "freed"}
    BY DEF SocketRec
  <1>3. RemoveReference(r) = [r EXCEPT !.refs = r.refs - 1, !.life = l]
    BY DEF RemoveReference
  <1> HIDE DEF l
  <1>4. /\ RemoveReference(r).refs = r.refs - 1
        /\ RemoveReference(r).life = l
        /\ RemoveReference(r).opening = r.opening
        /\ RemoveReference(r).managed = r.managed
        /\ RemoveReference(r).registered = r.registered
        /\ RemoveReference(r).closing_ = r.closing_
        /\ RemoveReference(r).m_Session = r.m_Session
    BY <1>3 DEF SocketRec
  <1>5. r.refs > 0 => RemoveReference(r) \in SocketRec
    <2>1. r.refs > 0 => r.refs - 1 \in Nat
      BY DEF SocketRec
    <2> QED BY <1>2, <1>3, <2>1 DEF SocketRec
  <1> QED BY <1>1, <1>4, <1>5 DEF l

LEMMA TurnsStay ==
    ASSUME TurnsAreKept, UNCHANGED <<user, round>>,
           \A s \in Sessions :
               session[s].life \in {"handed", "live"} /\ session[s].m_Socket \in Sockets =>
                   /\ session'[s].life \in {"handed", "live"}
                   /\ session'[s].m_Socket = session[s].m_Socket,
           \A k \in Sockets : socket[k].closing_ => socket'[k].closing_
    PROVE  TurnsAreKept'
  <1> SUFFICES ASSUME NEW u \in Users, user[u].at # "idle"
               PROVE  /\ round = u
                      /\ \E s \in Sessions :
                            /\ user[u].on = s /\ session'[s].life \in {"handed", "live"}
                            /\ \E k \in Sockets : session'[s].m_Socket = k /\ socket'[k].closing_
    BY DEF TurnsAreKept
  <1>1. PICK s \in Sessions :
          /\ round = u
          /\ user[u].on = s /\ session[s].life \in {"handed", "live"}
          /\ \E k \in Sockets : session[s].m_Socket = k /\ socket[k].closing_
    BY DEF TurnsAreKept
  <1>2. PICK k \in Sockets : session[s].m_Socket = k /\ socket[k].closing_
    BY <1>1
  <1>3. /\ session'[s].life \in {"handed", "live"} /\ session'[s].m_Socket = k
        /\ socket'[k].closing_
    BY <1>1, <1>2
  <1> QED BY <1>1, <1>3

LEMMA CountsStay ==
    ASSUME TypeOK, ReferencesAreCounted, UNCHANGED session,
           NEW k \in Sockets, NEW r \in SocketRec,
           socket' = [socket EXCEPT ![k] = r],
           r.refs - Handles(r) = socket[k].refs - Handles(socket[k]),
           r.life = "alive" <=> r.refs # 0
    PROVE  /\ ReferencesAreCounted'
           /\ socket' \in [Sockets -> SocketRec]
           /\ socket'[k] = r
           /\ \A j \in Sockets \ {k} : socket'[j] = socket[j]
  <1>1. \A j \in Sockets : SessionsOf(j)' = SessionsOf(j)
    BY DEF SessionsOf
  <1>2. /\ Cardinality(SessionsOf(k)) \in Nat /\ Handles(socket[k]) \in Int /\ Handles(r) \in Int
        /\ r.refs \in Int /\ socket[k].refs \in Int
    BY SessionsAreCounted DEF SessionsOf, Handles, One, TypeOK, SocketRec
  <1>3. r.refs - Handles(r) - Cardinality(SessionsOf(k)')
          = socket[k].refs - Handles(socket[k]) - Cardinality(SessionsOf(k))
    BY <1>1, <1>2
  <1> QED BY <1>1, <1>3, CountsFollow

(***************************************************************************)
(* Kinds of steps.                                                         *)
(***************************************************************************)
\* The network thread decides what to do next.
LEMMA NetOnly ==
    ASSUME IInv, UNCHANGED <<socket, session, user, round>>,
           NEW k \in Sockets, socket[k].registered, net.on = k \/ net.at = "idle",
           \/ /\ net.at = "idle"
              /\ net' = [at |-> "packet", on |-> k] /\ ~socket[k].closing_
           \/ net' = [at |-> "close", on |-> k]
           \/ /\ net = [at |-> "packet", on |-> k]
              /\ net' = [at |-> "queueing", on |-> k] /\ socket[k].m_Session # NULL
           \/ net.on = k /\ net.at # "authed" /\ net' = Idle /\ ~socket[k].closing_
    PROVE  IInv'
  <1>1. TypeOK' /\ ReferencesAreCounted'
    <2>1. net' \in [at : NetAt, on : Sockets \cup {NULL}]
      BY DEF NetAt, Idle
    <2> QED BY <2>1 DEF IInv, TypeOK, ReferencesAreCounted, Holders
  <1>2. NetIsServing' /\ SocketsOpenEmpty'
    BY DEF IInv, Links, NetIsServing, SocketsOpenEmpty, Idle
  <1>3. TurnsAreKept' /\ PointersMatch'
    BY DEF IInv, Links, TurnsAreKept, PointersMatch
  <1>4. ClosersAreComing'
    BY SocketSessionAssumption DEF IInv, Links, ClosersAreComing, Closing, Idle
  <1>5. ClosersMeetTheirSession'
    BY SocketSessionAssumption
       DEF IInv, Links, ClosersMeetTheirSession, ClosersAreComing, TurnsAreKept, Closing, Idle
  <1>6. NewSessionIsMade' /\ QueueingHasSession'
    BY DEF IInv, Links, NewSessionIsMade, QueueingHasSession, Idle
  <1> QED BY <1>1, <1>2, <1>3, <1>4, <1>5, <1>6 DEF IInv, Links

\* A holder of a socket takes hold of it or lets go of it.
LEMMA HolderOnly ==
    ASSUME IInv, UNCHANGED <<session, net, user, round>>,
           NEW k \in Sockets, NEW r \in SocketRec,
           socket' = [socket EXCEPT ![k] = r],
           r.refs - Handles(r) = socket[k].refs - Handles(socket[k]),
           r.life = "alive" <=> r.refs # 0,
           r.m_Session = socket[k].m_Session,
           r.closing_ = socket[k].closing_ \/ (r.closing_ /\ r.m_Session = NULL),
           socket[k].registered => r.registered,
           net.on = k /\ net.at = "drop" => r.managed = "yes",
           r.life = "new" \/ r.opening = "added" => ~r.registered /\ r.m_Session = NULL
    PROVE  IInv'
  <1>1. /\ ReferencesAreCounted'
        /\ socket' \in [Sockets -> SocketRec]
        /\ socket'[k] = r
        /\ \A j \in Sockets \ {k} : socket'[j] = socket[j]
    BY CountsStay DEF IInv
  <1>2. TypeOK'
    BY <1>1 DEF IInv, TypeOK
  <1>3. NetIsServing'
    BY <1>1 DEF IInv, Links, NetIsServing
  <1>4. SocketsOpenEmpty'
    BY <1>1 DEF IInv, Links, SocketsOpenEmpty
  <1>5. TurnsAreKept'
    BY <1>1, TurnsStay DEF IInv, Links
  <1>6. PointersMatch'
    BY <1>1, SocketSessionAssumption DEF IInv, Links, PointersMatch
  <1>7. ClosersAreComing'
    BY <1>1, SocketSessionAssumption DEF IInv, Links, ClosersAreComing, Closing
  <1>8. ClosersMeetTheirSession'
    BY <1>1 DEF IInv, Links, ClosersMeetTheirSession, Closing
  <1>9. NewSessionIsMade' /\ QueueingHasSession'
    BY <1>1 DEF IInv, Links, NewSessionIsMade, QueueingHasSession, NetIsServing
  <1> QED BY <1>1, <1>2, <1>3, <1>4, <1>5, <1>6, <1>7, <1>8, <1>9 DEF IInv, Links

(***************************************************************************)
(* The acceptor's thread and the manager.                                  *)
(***************************************************************************)
LEMMA AddSocketPreservesInvariant ==
    ASSUME IInv, NEW k \in Sockets, AddSocket(k)
    PROVE  IInv'
  <1> DEFINE r == [socket[k] EXCEPT !.life = "alive", !.refs = 2,
                                    !.opening = "added", !.managed = "new"]
  <1>1. socket[k] \in SocketRec /\ socket[k].life = "new"
    BY DEF IInv, TypeOK, AddSocket
  <1>2. /\ r \in SocketRec
        /\ r.life = "alive" /\ r.refs = 2 /\ r.opening = "added" /\ r.managed = "new"
        /\ r.registered = socket[k].registered /\ r.closing_ = socket[k].closing_
        /\ r.m_Session = socket[k].m_Session
    BY <1>1 DEF SocketRec
  <1>3. socket' = [socket EXCEPT ![k] = r] /\ UNCHANGED <<session, net, user, round>>
    BY DEF AddSocket
  <1> HIDE DEF r
  <1>4. /\ socket[k].opening = "no" /\ socket[k].managed = "no" /\ ~socket[k].registered
        /\ socket[k].refs = 0
    BY <1>1, HeldSockets DEF IInv
  <1>5. r.refs - Handles(r) = socket[k].refs - Handles(socket[k])
    BY <1>2, <1>4 DEF Handles, One
  <1>6. net.on = k /\ net.at = "drop" => r.managed = "yes"
    BY <1>4 DEF IInv, Links, NetIsServing
  <1>7. r.m_Session = NULL /\ ~r.registered
    BY <1>1, <1>2, <1>4 DEF IInv, Links, SocketsOpenEmpty
  <1>8. r.life = "alive" <=> r.refs # 0
    BY <1>2
  <1> QED BY <1>2, <1>3, <1>4, <1>5, <1>6, <1>7, <1>8, HolderOnly

LEMMA OpenStepPreservesInvariant ==
    ASSUME IInv, NEW k \in Sockets, OpenStep(k)
    PROVE  IInv'
  <1> USE DEF IInv
  <1>0. socket[k] \in SocketRec
    BY DEF TypeOK
  <1>1. CASE open_Fails(k)
    <2> DEFINE r == [RemoveReference(socket[k]) EXCEPT !.opening = "no", !.closing_ = TRUE]
    <2>1. /\ socket' = [socket EXCEPT ![k] = r] /\ UNCHANGED <<session, net, user, round>>
          /\ socket[k].opening = "added"
      BY <1>1 DEF open_Fails
    <2>2. socket[k].life = "alive" /\ socket[k].refs \in Nat /\ socket[k].refs > 0
      BY <2>1, HeldSockets
    <2> DEFINE q == RemoveReference(socket[k])
    <2>3. /\ q \in SocketRec
          /\ q.refs = socket[k].refs - 1
          /\ q.life = IF socket[k].refs = 1 THEN "freed" ELSE "alive"
          /\ q.managed = socket[k].managed /\ q.registered = socket[k].registered
          /\ q.m_Session = socket[k].m_Session
      BY <1>0, <2>2, References
    <2>4. r = [q EXCEPT !.opening = "no", !.closing_ = TRUE]
      OBVIOUS
    <2> HIDE DEF q
    <2>5. /\ r \in SocketRec /\ r.refs = q.refs /\ r.life = q.life
          /\ r.opening = "no" /\ r.managed = q.managed /\ r.registered = q.registered
          /\ r.closing_ /\ r.m_Session = q.m_Session
      BY <2>3, <2>4 DEF SocketRec
    <2> HIDE DEF r
    <2>6. r.refs - Handles(r) = socket[k].refs - Handles(socket[k])
      BY <2>1, <2>2, <2>3, <2>5 DEF Handles, One
    <2>7. r.m_Session = NULL
      BY <2>1, <2>3, <2>5 DEF Links, SocketsOpenEmpty
    <2>8. net.on = k /\ net.at = "drop" => r.managed = "yes"
      BY <2>3, <2>5 DEF Links, NetIsServing
    <2>9. /\ r.life = "alive" <=> r.refs # 0
          /\ r.life # "new"
      BY <2>2, <2>3, <2>5
    <2>10. socket[k].registered => r.registered
      BY <2>3, <2>5
    <2> QED BY <2>1, <2>3, <2>5, <2>6, <2>7, <2>8, <2>9, <2>10, HolderOnly
  <1>2. CASE register_handler(k)
    <2> DEFINE q == AddReference(socket[k])
               r == [q EXCEPT !.opening = "registered", !.registered = TRUE]
    <2>1. /\ socket' = [socket EXCEPT ![k] = r] /\ UNCHANGED <<session, net, user, round>>
          /\ socket[k].opening = "added"
      BY <1>2 DEF register_handler
    <2>2. /\ socket[k].life = "alive" /\ socket[k].refs \in Nat /\ socket[k].refs > 0
          /\ ~socket[k].registered
      BY <2>1, HeldSockets DEF Links, SocketsOpenEmpty
    <2>3. /\ q \in SocketRec
          /\ q.refs = socket[k].refs + 1 /\ q.life = "alive"
          /\ q.managed = socket[k].managed /\ q.closing_ = socket[k].closing_
          /\ q.m_Session = socket[k].m_Session
      BY <1>0, <2>2, References
    <2> HIDE DEF q
    <2>4. /\ r \in SocketRec /\ r.refs = q.refs /\ r.life = q.life
          /\ r.opening = "registered" /\ r.managed = q.managed /\ r.registered
          /\ r.closing_ = q.closing_ /\ r.m_Session = q.m_Session
      BY <2>3 DEF SocketRec
    <2> HIDE DEF r
    <2>5. r.refs - Handles(r) = socket[k].refs - Handles(socket[k])
      BY <2>1, <2>2, <2>3, <2>4 DEF Handles, One
    <2>6. net.on = k /\ net.at = "drop" => r.managed = "yes"
      BY <2>3, <2>4 DEF Links, NetIsServing
    <2>7. r.life = "alive" /\ r.refs # 0
      BY <2>2, <2>3, <2>4
    <2> QED BY <2>1, <2>3, <2>4, <2>5, <2>6, <2>7, HolderOnly
  <1>3. CASE open_Returns(k)
    <2> DEFINE q == RemoveReference(socket[k])
               r == [q EXCEPT !.opening = "no"]
    <2>1. /\ socket' = [socket EXCEPT ![k] = r] /\ UNCHANGED <<session, net, user, round>>
          /\ socket[k].opening = "registered"
      BY <1>3 DEF open_Returns
    <2>2. socket[k].life = "alive" /\ socket[k].refs \in Nat /\ socket[k].refs > 0
      BY <2>1, HeldSockets
    <2>3. /\ q \in SocketRec
          /\ q.refs = socket[k].refs - 1
          /\ q.life = IF socket[k].refs = 1 THEN "freed" ELSE "alive"
          /\ q.managed = socket[k].managed /\ q.registered = socket[k].registered
          /\ q.closing_ = socket[k].closing_ /\ q.m_Session = socket[k].m_Session
      BY <1>0, <2>2, References
    <2> HIDE DEF q
    <2>4. /\ r \in SocketRec /\ r.refs = q.refs /\ r.life = q.life
          /\ r.opening = "no" /\ r.managed = q.managed /\ r.registered = q.registered
          /\ r.closing_ = q.closing_ /\ r.m_Session = q.m_Session
      BY <2>3 DEF SocketRec
    <2> HIDE DEF r
    <2>5. r.refs - Handles(r) = socket[k].refs - Handles(socket[k])
      BY <2>1, <2>2, <2>3, <2>4 DEF Handles, One
    <2>6. net.on = k /\ net.at = "drop" => r.managed = "yes"
      BY <2>3, <2>4 DEF Links, NetIsServing
    <2>7. /\ r.life = "alive" <=> r.refs # 0
          /\ r.life # "new"
      BY <2>2, <2>3, <2>4
    <2>8. socket[k].registered => r.registered
      BY <2>3, <2>4
    <2> QED BY <2>1, <2>3, <2>4, <2>5, <2>6, <2>7, <2>8, HolderOnly
  <1> QED BY <1>1, <1>2, <1>3, AddSocketPreservesInvariant DEF OpenStep

\* RemoveReference, when its caller also gives up what it held the socket for.
LEMMA Released ==
    ASSUME IInv, NEW k \in Sockets, socket[k].refs > 0, socket[k].life = "alive"
    PROVE  /\ RemoveReference(socket[k]) \in SocketRec
           /\ RemoveReference(socket[k]).refs = socket[k].refs - 1
           /\ RemoveReference(socket[k]).life = IF socket[k].refs = 1 THEN "freed" ELSE "alive"
           /\ RemoveReference(socket[k]).opening = socket[k].opening
           /\ RemoveReference(socket[k]).managed = socket[k].managed
           /\ RemoveReference(socket[k]).registered = socket[k].registered
           /\ RemoveReference(socket[k]).closing_ = socket[k].closing_
           /\ RemoveReference(socket[k]).m_Session = socket[k].m_Session
  <1>1. socket[k] \in SocketRec
    BY DEF IInv, TypeOK
  <1> QED BY <1>1, References

LEMMA AddNewSocketsPreservesInvariant ==
    ASSUME IInv, NEW k \in Sockets, AddNewSockets(k)
    PROVE  IInv'
  <1> USE DEF IInv
  <1>1. /\ net.at = "idle" /\ socket[k].managed = "new" /\ socket[k] \in SocketRec
        /\ UNCHANGED <<session, net, user, round>>
    BY DEF AddNewSockets, TypeOK
  <1>2. socket[k].life = "alive" /\ socket[k].refs \in Nat /\ socket[k].refs > 0
    BY <1>1, HeldSockets
  <1>3. CASE socket[k].closing_
    <2> DEFINE q == RemoveReference(socket[k])
               r == [q EXCEPT !.managed = "no"]
    <2>1. socket' = [socket EXCEPT ![k] = r]
      BY <1>3 DEF AddNewSockets
    <2>2. /\ q \in SocketRec
          /\ q.refs = socket[k].refs - 1
          /\ q.life = IF socket[k].refs = 1 THEN "freed" ELSE "alive"
          /\ q.opening = socket[k].opening /\ q.registered = socket[k].registered
          /\ q.closing_ = socket[k].closing_ /\ q.m_Session = socket[k].m_Session
      BY <1>2, Released
    <2> HIDE DEF q
    <2>3. /\ r \in SocketRec /\ r.refs = q.refs /\ r.life = q.life
          /\ r.opening = q.opening /\ r.managed = "no" /\ r.registered = q.registered
          /\ r.closing_ = q.closing_ /\ r.m_Session = q.m_Session
      BY <2>2 DEF SocketRec
    <2> HIDE DEF r
    <2>4. r.refs - Handles(r) = socket[k].refs - Handles(socket[k])
      BY <1>1, <1>2, <2>2, <2>3 DEF Handles, One
    <2>5. /\ r.life = "alive" <=> r.refs # 0
          /\ r.life # "new"
      BY <1>2, <2>2, <2>3
    <2>6. /\ socket[k].registered => r.registered
          /\ r.opening = "added" => ~r.registered /\ r.m_Session = NULL
      BY <2>2, <2>3 DEF Links, SocketsOpenEmpty
    <2> QED BY <1>1, <2>1, <2>2, <2>3, <2>4, <2>5, <2>6, HolderOnly
  <1>4. CASE ~socket[k].closing_
    <2> DEFINE r == [socket[k] EXCEPT !.managed = "yes"]
    <2>1. socket' = [socket EXCEPT ![k] = r]
      BY <1>4 DEF AddNewSockets
    <2>2. /\ r \in SocketRec /\ r.refs = socket[k].refs /\ r.life = socket[k].life
          /\ r.opening = socket[k].opening /\ r.managed = "yes"
          /\ r.registered = socket[k].registered
          /\ r.closing_ = socket[k].closing_ /\ r.m_Session = socket[k].m_Session
      BY <1>1 DEF SocketRec
    <2> HIDE DEF r
    <2>3. r.refs - Handles(r) = socket[k].refs - Handles(socket[k])
      BY <1>1, <1>2, <2>2 DEF Handles, One
    <2>4. r.life = "alive" /\ r.refs # 0
      BY <1>2, <2>2
    <2>5. /\ socket[k].registered => r.registered
          /\ r.opening = "added" => ~r.registered /\ r.m_Session = NULL
      BY <2>2 DEF Links, SocketsOpenEmpty
    <2> QED BY <1>1, <2>1, <2>2, <2>3, <2>4, <2>5, HolderOnly
  <1> QED BY <1>3, <1>4

(***************************************************************************)
(* The network thread.                                                     *)
(***************************************************************************)
\* The network thread closes a socket: the mark, the pointer, the reference.
LEMMA NetCloses ==
    ASSUME IInv, UNCHANGED <<session, user, round>>,
           NEW k \in Sockets, NEW r \in SocketRec,
           socket' = [socket EXCEPT ![k] = r],
           r.refs - Handles(r) = socket[k].refs - Handles(socket[k]),
           r.life = "alive" <=> r.refs # 0,
           r.closing_,
           r.life # "new",
           r.opening = "added" => ~r.registered /\ r.m_Session = NULL,
           net.at = "idle" \/ net.on = k,
           \/ /\ net' \in {[at |-> "drop", on |-> k], [at |-> "unbind", on |-> k]}
              /\ r.m_Session = socket[k].m_Session
           \/ net' \in {Idle, [at |-> "remove", on |-> k]} /\ r.m_Session = NULL,
           net'.at = "drop" => r.managed = "yes",
           net'.at \in {"unbind", "remove"} => r.registered
    PROVE  IInv'
  <1>1. /\ ReferencesAreCounted'
        /\ socket' \in [Sockets -> SocketRec]
        /\ socket'[k] = r
        /\ \A j \in Sockets \ {k} : socket'[j] = socket[j]
    BY CountsStay DEF IInv
  <1>2. TypeOK'
    <2>1. net' \in [at : NetAt, on : Sockets \cup {NULL}]
      BY DEF NetAt, Idle
    <2> QED BY <1>1, <2>1 DEF IInv, TypeOK
  <1>3. \/ net'.at = "idle" /\ net'.on = NULL
        \/ net'.at \in {"drop", "unbind", "remove"} /\ net'.on = k
    BY DEF Idle
  <1>4. k # NULL
    BY SocketSessionAssumption
  <1>5. NetIsServing'
    BY <1>1, <1>3, <1>4 DEF NetIsServing
  <1>6. SocketsOpenEmpty'
    BY <1>1 DEF IInv, Links, SocketsOpenEmpty
  <1>7. TurnsAreKept'
    BY <1>1, TurnsStay DEF IInv, Links
  <1>8. PointersMatch'
    BY <1>1, SocketSessionAssumption DEF IInv, Links, PointersMatch
  <1>9. ClosersAreComing'
    <2> SUFFICES ASSUME NEW j \in Sockets, NEW s \in Sessions,
                        socket'[j].m_Session = s, socket'[j].closing_,
                        ~(net'.on = j /\ net'.at \in {"authed", "close", "unbind", "drop"})
                 PROVE  Closing(s)
      BY DEF ClosersAreComing, Closing
    <2>1. CASE j = k
      BY <1>1, <2>1, SocketSessionAssumption
    <2>2. CASE j # k
      BY <1>1, <2>2 DEF IInv, Links, ClosersAreComing
    <2> QED BY <2>1, <2>2
  <1>10. ClosersMeetTheirSession' /\ NewSessionIsMade' /\ QueueingHasSession'
    BY <1>3 DEF ClosersMeetTheirSession, NewSessionIsMade, QueueingHasSession
  <1> QED BY <1>1, <1>2, <1>5, <1>6, <1>7, <1>8, <1>9, <1>10 DEF IInv, Links

LEMMA svc_ClosesPreservesInvariant ==
    ASSUME IInv, NEW k \in Sockets, svc_Closes(k)
    PROVE  IInv'
  <1> USE DEF IInv
  <1>1. /\ net.at = "idle" /\ socket[k].managed = "yes" /\ socket[k] \in SocketRec
        /\ UNCHANGED <<session, user, round>>
    BY DEF svc_Closes, TypeOK
  <1>2. socket[k].life = "alive" /\ socket[k].refs \in Nat /\ socket[k].refs > 0
    BY <1>1, HeldSockets
  <1>3. CASE socket[k].closing_
    <2> DEFINE q == RemoveReference(socket[k])
               r == [q EXCEPT !.managed = "no"]
    <2>1. socket' = [socket EXCEPT ![k] = r] /\ UNCHANGED net
      BY <1>3 DEF svc_Closes
    <2>2. /\ q \in SocketRec
          /\ q.refs = socket[k].refs - 1
          /\ q.life = IF socket[k].refs = 1 THEN "freed" ELSE "alive"
          /\ q.opening = socket[k].opening /\ q.registered = socket[k].registered
          /\ q.closing_ = socket[k].closing_ /\ q.m_Session = socket[k].m_Session
      BY <1>2, Released
    <2> HIDE DEF q
    <2>3. /\ r \in SocketRec /\ r.refs = q.refs /\ r.life = q.life
          /\ r.opening = q.opening /\ r.managed = "no" /\ r.registered = q.registered
          /\ r.closing_ = q.closing_ /\ r.m_Session = q.m_Session
      BY <2>2 DEF SocketRec
    <2> HIDE DEF r
    <2>4. r.refs - Handles(r) = socket[k].refs - Handles(socket[k])
      BY <1>1, <1>2, <2>2, <2>3 DEF Handles, One
    <2>5. /\ r.life = "alive" <=> r.refs # 0
          /\ r.life # "new"
      BY <1>2, <2>2, <2>3
    <2>6. /\ socket[k].registered => r.registered
          /\ r.opening = "added" => ~r.registered /\ r.m_Session = NULL
      BY <2>2, <2>3 DEF Links, SocketsOpenEmpty
    <2> QED BY <1>1, <2>1, <2>2, <2>3, <2>4, <2>5, <2>6, HolderOnly
  <1>4. CASE ~socket[k].closing_
    <2> DEFINE r == [socket[k] EXCEPT !.closing_ = TRUE]
    <2>1. /\ socket' = [socket EXCEPT ![k] = r] /\ net' = [at |-> "drop", on |-> k]
          /\ socket[k].registered
      BY <1>4 DEF svc_Closes, NetGoes
    <2>2. /\ r \in SocketRec /\ r.refs = socket[k].refs /\ r.life = socket[k].life
          /\ r.opening = socket[k].opening /\ r.managed = socket[k].managed
          /\ r.registered = socket[k].registered /\ r.closing_
          /\ r.m_Session = socket[k].m_Session
      BY <1>1 DEF SocketRec
    <2> HIDE DEF r
    <2>3. r.refs - Handles(r) = socket[k].refs - Handles(socket[k])
      BY <1>1, <1>2, <2>2 DEF Handles, One
    <2>4. r.life = "alive" /\ r.refs # 0 /\ r.managed = "yes"
      BY <1>1, <1>2, <2>2
    <2>5. r.opening = "added" => ~r.registered /\ r.m_Session = NULL
      BY <2>2 DEF Links, SocketsOpenEmpty
    <2> QED BY <1>1, <2>1, <2>2, <2>3, <2>4, <2>5, NetCloses
  <1> QED BY <1>3, <1>4

LEMMA svc_DropsPreservesInvariant ==
    ASSUME IInv, NEW k \in Sockets, svc_Drops(k)
    PROVE  IInv'
  <1> USE DEF IInv
  <1> DEFINE q == RemoveReference(socket[k])
             r == [q EXCEPT !.m_Session = NULL, !.managed = "no"]
  <1>1. /\ net = [at |-> "drop", on |-> k] /\ net' = Idle /\ socket[k] \in SocketRec
        /\ socket' = [socket EXCEPT ![k] = r] /\ UNCHANGED <<session, user, round>>
    BY DEF svc_Drops, NetGoes, TypeOK
  <1>2. socket[k].managed = "yes" /\ socket[k].closing_
    BY <1>1 DEF Links, NetIsServing
  <1>3. socket[k].life = "alive" /\ socket[k].refs \in Nat /\ socket[k].refs > 0
    BY <1>2, HeldSockets
  <1>4. /\ q \in SocketRec
        /\ q.refs = socket[k].refs - 1
        /\ q.life = IF socket[k].refs = 1 THEN "freed" ELSE "alive"
        /\ q.opening = socket[k].opening /\ q.registered = socket[k].registered
        /\ q.closing_ = socket[k].closing_
    BY <1>3, Released
  <1> HIDE DEF q
  <1>5. /\ r \in SocketRec /\ r.refs = q.refs /\ r.life = q.life
        /\ r.opening = q.opening /\ r.managed = "no" /\ r.registered = q.registered
        /\ r.closing_ = q.closing_ /\ r.m_Session = NULL
    BY <1>4 DEF SocketRec
  <1> HIDE DEF r
  <1>6. r.refs - Handles(r) = socket[k].refs - Handles(socket[k])
    BY <1>2, <1>3, <1>4, <1>5 DEF Handles, One
  <1>7. /\ r.life = "alive" <=> r.refs # 0
        /\ r.life # "new"
    BY <1>3, <1>4, <1>5
  <1>8. /\ r.closing_
        /\ r.opening = "added" => ~r.registered
    BY <1>2, <1>4, <1>5 DEF Links, SocketsOpenEmpty
  <1>9. net'.at = "idle"
    BY <1>1 DEF Idle
  <1> QED BY <1>1, <1>5, <1>6, <1>7, <1>8, <1>9, NetCloses

LEMMA HandleAuthSessionPreservesInvariant ==
    ASSUME IInv, NEW k \in Sockets, HandleAuthSession(k)
    PROVE  IInv'
  <1>1. CASE net'.at # "authed"
    <2>1. /\ net = [at |-> "packet", on |-> k] /\ net' = [at |-> "close", on |-> k]
          /\ UNCHANGED <<socket, session, user, round>>
      BY <1>1 DEF HandleAuthSession, NetGoes
    <2>2. socket[k].registered
      BY <2>1 DEF IInv, Links, NetIsServing
    <2> QED BY <2>1, <2>2, NetOnly
  <1>2. CASE net'.at = "authed"
    <2>1. PICK s \in Sessions :
          /\ socket[k].m_Session = NULL
          /\ session[s].life = "none"
          /\ session' = [session EXCEPT ![s] = [life |-> "made", m_Socket |-> k]]
          /\ socket' = [socket EXCEPT ![k] = [AddReference(@) EXCEPT !.m_Session = s]]
          /\ net = [at |-> "packet", on |-> k] /\ net' = [at |-> "authed", on |-> k]
          /\ UNCHANGED <<user, round>>
      BY <1>2 DEF HandleAuthSession, NetGoes
    <2> DEFINE r == [AddReference(socket[k]) EXCEPT !.m_Session = s]
    <2>2. /\ socket[k].registered /\ socket[k].life = "alive"
          /\ socket[k].refs \in Nat /\ socket[k].refs > 0
      <3>1. socket[k].registered
        BY <2>1 DEF IInv, Links, NetIsServing
      <3> QED BY <3>1, HeldSockets DEF IInv
    <2>3. /\ r \in SocketRec
          /\ r.refs = socket[k].refs + 1 /\ r.life = socket[k].life
          /\ r.opening = socket[k].opening /\ r.managed = socket[k].managed
          /\ r.registered = socket[k].registered /\ r.closing_ = socket[k].closing_
          /\ r.m_Session = s
      <3>1. socket[k] \in SocketRec
        BY DEF IInv, TypeOK
      <3> QED BY <3>1, References DEF SocketRec
    <2>4. socket' = [socket EXCEPT ![k] = r]
      BY <2>1
    <2> HIDE DEF r
    <2>5. /\ session' \in [Sessions -> SessionRec]
          /\ session'[s].life = "made" /\ session'[s].m_Socket = k
          /\ \A q \in Sessions \ {s} : session'[q] = session[q]
          /\ session[s].m_Socket = NULL
      BY <2>1 DEF IInv, TypeOK, SessionRec, Links, PointersMatch
    <2>6. /\ Cardinality(SessionsOf(k)') = Cardinality(SessionsOf(k)) + 1
          /\ \A j \in Sockets \ {k} : SessionsOf(j)' = SessionsOf(j)
      <3>1. k # NULL
        BY SocketSessionAssumption
      <3>2. SessionsOf(k)' = SessionsOf(k) \cup {s} /\ s \notin SessionsOf(k)
        BY <2>5, <3>1 DEF SessionsOf
      <3>3. \A j \in Sockets \ {k} : SessionsOf(j)' = SessionsOf(j)
        BY <2>5, SocketSessionAssumption DEF SessionsOf
      <3> QED BY <3>2, <3>3, SessionsAreCounted DEF SessionsOf
    <2>7. /\ ReferencesAreCounted' /\ socket' \in [Sockets -> SocketRec]
          /\ socket'[k] = r
          /\ \A j \in Sockets \ {k} : socket'[j] = socket[j]
      <3>1. r.life = "alive" <=> r.refs # 0
        BY <2>2, <2>3
      <3>2. Cardinality(SessionsOf(k)) \in Nat /\ Handles(socket[k]) \in Nat
        BY SessionsAreCounted DEF SessionsOf, Handles, One
      <3>3. Handles(r) = Handles(socket[k])
        BY <2>3 DEF Handles
      <3>4. r.refs - Handles(r) - Cardinality(SessionsOf(k)')
             = socket[k].refs - Handles(socket[k]) - Cardinality(SessionsOf(k))
        BY <2>2, <2>3, <2>6, <3>2, <3>3
      <3> QED BY <2>3, <2>4, <2>6, <3>1, <3>4, CountsFollow DEF IInv
    <2>8. TypeOK'
      BY <2>1, <2>5, <2>7 DEF IInv, TypeOK, NetAt
    <2>9. NetIsServing'
      BY <2>1, <2>2, <2>3, <2>7 DEF IInv, Links, NetIsServing
    <2>10. SocketsOpenEmpty'
      BY <2>2, <2>3, <2>7 DEF IInv, Links, SocketsOpenEmpty
    <2>11. TurnsAreKept'
      BY <2>1, <2>3, <2>5, <2>7, TurnsStay DEF IInv, Links
    <2>12. PointersMatch'
      BY <2>1, <2>3, <2>5, <2>7, SocketSessionAssumption
         DEF IInv, Links, PointersMatch, TypeOK, SocketRec, SessionRec
    <2>13. ClosersAreComing'
      BY <2>1, <2>3, <2>5, <2>7 DEF IInv, Links, ClosersAreComing, Closing
    <2>14. ClosersMeetTheirSession'
      BY <2>1, <2>3, <2>5, <2>7, SocketSessionAssumption
         DEF IInv, Links, ClosersMeetTheirSession, TurnsAreKept, Closing
    <2>15. NewSessionIsMade' /\ QueueingHasSession'
      BY <2>1, <2>3, <2>5, <2>7 DEF IInv, Links, NewSessionIsMade, QueueingHasSession
    <2> QED BY <2>7, <2>8, <2>9, <2>10, <2>11, <2>12, <2>13, <2>14, <2>15 DEF IInv, Links
  <1> QED BY <1>1, <1>2

LEMMA handle_inputPreservesInvariant ==
    ASSUME IInv, NEW k \in Sockets,
           handle_input(k) \/ ProcessIncoming(k) \/ QueuePacket(k)
    PROVE  IInv'
  <1>1. UNCHANGED <<socket, session, user, round>>
    BY DEF handle_input, ProcessIncoming, QueuePacket
  <1>2. CASE handle_input(k)
    <2>1. /\ net.at = "idle" /\ socket[k].registered
          /\ \/ net' = [at |-> "packet", on |-> k] /\ ~socket[k].closing_
             \/ net' = [at |-> "close", on |-> k]
      BY <1>2 DEF handle_input, NetGoes
    <2> QED BY <1>1, <2>1, NetOnly
  <1>3. CASE ProcessIncoming(k)
    <2>1. /\ net = [at |-> "packet", on |-> k]
          /\ \/ net' = [at |-> "queueing", on |-> k] /\ socket[k].m_Session # NULL
             \/ net' = [at |-> "close", on |-> k]
             \/ net' = Idle /\ ~socket[k].closing_
      BY <1>3 DEF ProcessIncoming, NetGoes, Handled
    <2>2. socket[k].registered
      BY <2>1 DEF IInv, Links, NetIsServing
    <2> QED BY <1>1, <2>1, <2>2, NetOnly
  <1>4. CASE QueuePacket(k)
    <2>1. /\ net = [at |-> "queueing", on |-> k]
          /\ \/ net' = [at |-> "close", on |-> k]
             \/ net' = Idle /\ ~socket[k].closing_
      BY <1>4 DEF QueuePacket, NetGoes, Handled
    <2>2. socket[k].registered
      BY <2>1 DEF IInv, Links, NetIsServing
    <2> QED BY <1>1, <2>1, <2>2, NetOnly
  <1> QED BY <1>2, <1>3, <1>4

LEMMA AddSessionPreservesInvariant ==
    ASSUME IInv, NEW k \in Sockets, AddSession(k)
    PROVE  IInv'
  <1> USE DEF IInv
  <1>1. /\ net = [at |-> "authed", on |-> k]
        /\ net' = [at |-> "close", on |-> k] \/ (net' = Idle /\ ~socket[k].closing_)
        /\ UNCHANGED <<socket, user, round>>
    BY DEF AddSession, Handled, NetGoes
  <1>2. PICK s \in Sessions :
          socket[k].m_Session = s /\ session[s] = [life |-> "made", m_Socket |-> k]
    BY <1>1 DEF Links, NewSessionIsMade
  <1>3. session' = [session EXCEPT ![s].life = "handed"]
    BY <1>2 DEF AddSession
  <1>4. /\ session' \in [Sessions -> SessionRec]
        /\ session'[s].life = "handed" /\ session'[s].m_Socket = k
        /\ \A q \in Sessions \ {s} : session'[q] = session[q]
        /\ session[s].life = "made" /\ session[s].m_Socket = k
    BY <1>2, <1>3 DEF TypeOK, SessionRec
  <1>5. \A q \in Sessions : session'[q].m_Socket = session[q].m_Socket
    BY <1>4
  <1>6. ReferencesAreCounted'
    <2>1. \A j \in Sockets : Holders(j)' = Holders(j)
      BY <1>1, <1>5 DEF Holders, One
    <2> QED BY <1>1, <2>1 DEF ReferencesAreCounted
  <1>7. \/ net'.at = "idle" /\ net'.on = NULL /\ ~socket[k].closing_
        \/ net'.at = "close" /\ net'.on = k
    BY <1>1 DEF Idle
  <1>8. TypeOK'
    <2>1. net' \in [at : NetAt, on : Sockets \cup {NULL}]
      BY <1>1 DEF NetAt, Idle
    <2> QED BY <1>1, <1>4, <2>1 DEF TypeOK
  <1>9. NetIsServing' /\ SocketsOpenEmpty'
    BY <1>1, <1>7, SocketSessionAssumption DEF Links, NetIsServing, SocketsOpenEmpty
  <1>10. TurnsAreKept'
    BY <1>1, <1>4, TurnsStay DEF Links
  <1>11. PointersMatch'
    BY <1>1, <1>4, <1>5, SocketSessionAssumption DEF Links, PointersMatch
  <1>12. ClosersAreComing'
    BY <1>1, <1>7, SocketSessionAssumption DEF Links, ClosersAreComing, Closing
  <1>13. ClosersMeetTheirSession' /\ NewSessionIsMade' /\ QueueingHasSession'
    BY <1>7 DEF ClosersMeetTheirSession, NewSessionIsMade, QueueingHasSession
  <1> QED BY <1>6, <1>8, <1>9, <1>10, <1>11, <1>12, <1>13 DEF Links

LEMMA handle_closePreservesInvariant ==
    ASSUME IInv, NEW k \in Sockets, handle_close(k)
    PROVE  IInv'
  <1> USE DEF IInv
  <1>1. socket[k].registered
    BY DEF handle_close, Links, NetIsServing
  <1>2. /\ socket[k] \in SocketRec /\ socket[k].life = "alive"
        /\ socket[k].refs \in Nat /\ socket[k].refs > 0
    BY <1>1, HeldSockets DEF TypeOK
  <1>3. socket[k].opening # "added"
    BY <1>1 DEF Links, SocketsOpenEmpty
  <1>4. CASE net.at = "close"
    <2> DEFINE r == [socket[k] EXCEPT !.closing_ = TRUE]
    <2>1. /\ socket' = [socket EXCEPT ![k] = r] /\ UNCHANGED <<session, user, round>>
          /\ net.on = k /\ net' = [at |-> "unbind", on |-> k]
      BY <1>4 DEF handle_close, NetGoes
    <2>2. /\ r \in SocketRec /\ r.refs = socket[k].refs /\ r.life = socket[k].life
          /\ r.opening = socket[k].opening /\ r.managed = socket[k].managed
          /\ r.registered = socket[k].registered /\ r.closing_
          /\ r.m_Session = socket[k].m_Session
      BY <1>2 DEF SocketRec
    <2> HIDE DEF r
    <2>3. r.refs - Handles(r) = socket[k].refs - Handles(socket[k])
      BY <1>2, <2>2 DEF Handles, One
    <2>4. r.life = "alive" /\ r.refs # 0 /\ r.registered
      BY <1>1, <1>2, <2>2
    <2> QED BY <1>3, <2>1, <2>2, <2>3, <2>4, NetCloses
  <1>5. CASE net.at = "unbind"
    <2> DEFINE r == [socket[k] EXCEPT !.m_Session = NULL]
    <2>1. /\ socket' = [socket EXCEPT ![k] = r] /\ UNCHANGED <<session, user, round>>
          /\ net.on = k /\ net' = [at |-> "remove", on |-> k]
      BY <1>5 DEF handle_close, NetGoes
    <2>2. /\ r \in SocketRec /\ r.refs = socket[k].refs /\ r.life = socket[k].life
          /\ r.opening = socket[k].opening /\ r.managed = socket[k].managed
          /\ r.registered = socket[k].registered /\ r.closing_ = socket[k].closing_
          /\ r.m_Session = NULL
      BY <1>2 DEF SocketRec
    <2> HIDE DEF r
    <2>3. r.refs - Handles(r) = socket[k].refs - Handles(socket[k])
      BY <1>2, <2>2 DEF Handles, One
    <2>4. r.life = "alive" /\ r.refs # 0 /\ r.registered /\ r.closing_
      BY <1>1, <1>2, <1>5, <2>1, <2>2 DEF Links, NetIsServing
    <2> QED BY <1>3, <2>1, <2>2, <2>3, <2>4, NetCloses
  <1>6. CASE net.at = "remove"
    <2> DEFINE q == RemoveReference(socket[k])
               r == [q EXCEPT !.registered = FALSE]
    <2>1. /\ socket' = [socket EXCEPT ![k] = r] /\ UNCHANGED <<session, user, round>>
          /\ net.on = k /\ net' = Idle
      BY <1>6 DEF handle_close, NetGoes
    <2>2. /\ q \in SocketRec
          /\ q.refs = socket[k].refs - 1
          /\ q.life = IF socket[k].refs = 1 THEN "freed" ELSE "alive"
          /\ q.opening = socket[k].opening /\ q.managed = socket[k].managed
          /\ q.closing_ = socket[k].closing_ /\ q.m_Session = socket[k].m_Session
      BY <1>2, Released
    <2> HIDE DEF q
    <2>3. /\ r \in SocketRec /\ r.refs = q.refs /\ r.life = q.life
          /\ r.opening = q.opening /\ r.managed = q.managed /\ ~r.registered
          /\ r.closing_ = q.closing_ /\ r.m_Session = q.m_Session
      BY <2>2 DEF SocketRec
    <2> HIDE DEF r
    <2>4. r.refs - Handles(r) = socket[k].refs - Handles(socket[k])
      BY <1>1, <1>2, <2>2, <2>3 DEF Handles, One
    <2>5. /\ r.life = "alive" <=> r.refs # 0
          /\ r.life # "new" /\ net'.at = "idle" /\ r.opening # "added"
      BY <1>2, <1>3, <2>1, <2>2, <2>3 DEF Idle
    <2>6. r.closing_
      BY <1>6, <2>1, <2>2, <2>3 DEF Links, NetIsServing
    <2>7. r.m_Session = NULL
      BY <1>6, <2>1, <2>2, <2>3 DEF Links, NetIsServing
    <2> QED BY <2>1, <2>3, <2>4, <2>5, <2>6, <2>7, NetCloses
  <1> QED BY <1>4, <1>5, <1>6 DEF handle_close

(***************************************************************************)
(* The threads that update sessions.                                       *)
(***************************************************************************)
\* A thread whose turn it is is the only one that has begun anything.
LEMMA OneUser ==
    ASSUME IInv, NEW u \in Users, user[u].at # "idle" \/ round = u
    PROVE  \A v \in Users \ {u} : user[v].at = "idle"
  BY DEF IInv, Links, TurnsAreKept

\* A thread marks a socket as closed, under a session it keeps.
LEMMA UserMarks ==
    ASSUME IInv, UNCHANGED <<session, net, round>>,
           NEW u \in Users, NEW s \in Sessions, NEW k \in Sockets, NEW at \in {"kick", "close", "delete"},
           round = u, user[u].at = "idle",
           session[s].m_Socket = k, session[s].life \in {"handed", "live"},
           socket' = [socket EXCEPT ![k].closing_ = TRUE],
           user' = [user EXCEPT ![u] = [at |-> at, on |-> s]],
           at = "delete" <=> socket[k].closing_
    PROVE  IInv'
  <1> USE DEF IInv
  <1> DEFINE r == [socket[k] EXCEPT !.closing_ = TRUE]
  <1>1. socket' = [socket EXCEPT ![k] = r] /\ socket[k] \in SocketRec
    BY DEF TypeOK
  <1>2. /\ r \in SocketRec /\ r.refs = socket[k].refs /\ r.life = socket[k].life
        /\ r.opening = socket[k].opening /\ r.managed = socket[k].managed
        /\ r.registered = socket[k].registered /\ r.closing_
        /\ r.m_Session = socket[k].m_Session
    BY <1>1 DEF SocketRec
  <1> HIDE DEF r
  <1>3. socket[k].life = "alive" /\ socket[k].refs \in Nat /\ socket[k].refs > 0
    BY HeldSockets DEF SessionsOf
  <1>4. /\ ReferencesAreCounted'
        /\ socket' \in [Sockets -> SocketRec]
        /\ socket'[k] = r
        /\ \A j \in Sockets \ {k} : socket'[j] = socket[j]
    <2>1. r.refs - Handles(r) = socket[k].refs - Handles(socket[k])
      BY <1>2, <1>3 DEF Handles, One
    <2>2. r.life = "alive" <=> r.refs # 0
      BY <1>2, <1>3
    <2> QED BY <1>1, <1>2, <2>1, <2>2, CountsStay
  <1>5. /\ user' \in [Users -> [at : UserAt, on : Sessions \cup {NULL}]]
        /\ user'[u].at = at /\ user'[u].on = s
        /\ \A v \in Users \ {u} : user'[v] = user[v] /\ user[v].at = "idle"
    BY OneUser DEF TypeOK, UserAt
  <1>6. TypeOK'
    BY <1>4, <1>5 DEF TypeOK
  <1>7. NetIsServing' /\ SocketsOpenEmpty'
    BY <1>2, <1>4 DEF Links, NetIsServing, SocketsOpenEmpty
  <1>8. TurnsAreKept'
    <2>1. socket'[k].closing_ /\ session'[s].m_Socket = k /\ session'[s].life \in {"handed", "live"}
      BY <1>2, <1>4
    <2> QED BY <1>5, <2>1 DEF TurnsAreKept
  <1>9. PointersMatch'
    BY <1>2, <1>4 DEF Links, PointersMatch
  <1>10. \A q \in Sessions : ~Closing(q) /\ (Closing(q)' <=> q = s /\ at # "delete")
    BY <1>5 DEF Closing
  <1>11. ClosersAreComing'
    BY <1>2, <1>4, <1>10 DEF Links, ClosersAreComing, PointersMatch
  <1>12. ClosersMeetTheirSession'
    BY <1>2, <1>4, <1>10 DEF Links, ClosersMeetTheirSession, PointersMatch, NewSessionIsMade
  <1>13. NewSessionIsMade' /\ QueueingHasSession'
    BY <1>2, <1>4 DEF Links, NewSessionIsMade, QueueingHasSession, NetIsServing
  <1> QED BY <1>4, <1>6, <1>7, <1>8, <1>9, <1>11, <1>12, <1>13 DEF Links

LEMMA KickPlayerPreservesInvariant ==
    ASSUME IInv, NEW u \in Users, NEW s \in Sessions, KickPlayer(u, s)
    PROVE  IInv'
  <1>1. /\ round = u /\ user[u].at = "idle" /\ session[s].life = "live"
        /\ user' = [user EXCEPT ![u] = [at |-> "kick", on |-> s]]
        /\ UNCHANGED <<session, net, round>>
    BY DEF KickPlayer, Turn, UserGoes
  <1>2. PICK k \in Sockets :
          /\ session[s].m_Socket = k /\ ~socket[k].closing_
          /\ socket' = [socket EXCEPT ![k].closing_ = TRUE]
    BY DEF KickPlayer
  <1>3. "kick" \in {"kick", "close", "delete"} /\ ("kick" = "delete" <=> socket[k].closing_)
    BY <1>2
  <1> QED BY <1>1, <1>2, <1>3, UserMarks

LEMMA DeleteSessionPreservesInvariant ==
    ASSUME IInv, NEW s \in Sessions, DeleteSession(s)
    PROVE  IInv'
  <1>1. /\ round = "world" /\ user["world"].at = "idle" /\ session[s].life \in {"handed", "live"}
        /\ UNCHANGED <<session, net, round>>
    BY DEF DeleteSession
  <1>2. PICK k \in Sockets :
          /\ session[s].m_Socket = k
          /\ socket' = [socket EXCEPT ![k].closing_ = TRUE]
          /\ UserGoes("world", IF socket[k].closing_ THEN "delete" ELSE "close", s)
    BY DEF DeleteSession
  <1> DEFINE at == IF socket[k].closing_ THEN "delete" ELSE "close"
  <1>3. /\ at \in {"kick", "close", "delete"} /\ (at = "delete" <=> socket[k].closing_)
        /\ user' = [user EXCEPT !["world"] = [at |-> at, on |-> s]]
    BY <1>2 DEF UserGoes
  <1>4. "world" \in Users
    BY DEF Users
  <1> HIDE DEF at
  <1> QED BY <1>1, <1>2, <1>3, <1>4, UserMarks

\* The second half clears the socket's pointer, under m_SessionLock.
LEMMA CloseSocketPreservesInvariant ==
    ASSUME IInv, NEW u \in Users, NEW s \in Sessions, CloseSocket(u, s)
    PROVE  IInv'
  <1> USE DEF IInv
  <1>1. PICK k \in Sockets :
          /\ session[s].m_Socket = k /\ ~SessionLocked(k)
          /\ socket' = [socket EXCEPT ![k].m_Session = NULL]
    BY DEF CloseSocket
  <1> DEFINE r == [socket[k] EXCEPT !.m_Session = NULL]
  <1>2. /\ round = u /\ user[u].at \in {"kick", "close"} /\ user[u].on = s
        /\ UNCHANGED <<session, net, round>>
        /\ user' = [user EXCEPT ![u] = IF user[u].at = "kick" THEN Idle
                                       ELSE [at |-> "delete", on |-> s]]
    BY DEF CloseSocket, UserGoes
  <1>3. socket' = [socket EXCEPT ![k] = r] /\ socket[k] \in SocketRec
    BY <1>1 DEF TypeOK
  <1>4. /\ r \in SocketRec /\ r.refs = socket[k].refs /\ r.life = socket[k].life
        /\ r.opening = socket[k].opening /\ r.managed = socket[k].managed
        /\ r.registered = socket[k].registered /\ r.closing_ = socket[k].closing_
        /\ r.m_Session = NULL
    BY <1>3 DEF SocketRec
  <1> HIDE DEF r
  <1>5. socket[k].life = "alive" /\ socket[k].refs \in Nat /\ socket[k].refs > 0
    BY <1>1, HeldSockets DEF SessionsOf
  <1>6. /\ ReferencesAreCounted'
        /\ socket' \in [Sockets -> SocketRec]
        /\ socket'[k] = r
        /\ \A j \in Sockets \ {k} : socket'[j] = socket[j]
    <2>1. r.refs - Handles(r) = socket[k].refs - Handles(socket[k])
      BY <1>4, <1>5 DEF Handles, One
    <2>2. r.life = "alive" <=> r.refs # 0
      BY <1>4, <1>5
    <2> QED BY <1>2, <1>3, <1>4, <2>1, <2>2, CountsStay
  <1>7. socket[k].closing_ /\ session[s].life \in {"handed", "live"}
    BY <1>1, <1>2 DEF Links, TurnsAreKept
  <1>8. /\ user' \in [Users -> [at : UserAt, on : Sessions \cup {NULL}]]
        /\ user'[u].at \in {"idle", "delete"} /\ (user'[u].at = "delete" => user'[u].on = s)
        /\ \A v \in Users \ {u} : user'[v] = user[v] /\ user[v].at = "idle"
    BY <1>2, OneUser DEF TypeOK, UserAt, Idle
  <1>9. TypeOK'
    BY <1>2, <1>6, <1>8 DEF TypeOK
  <1>10. NetIsServing' /\ SocketsOpenEmpty'
    BY <1>2, <1>4, <1>6 DEF Links, NetIsServing, SocketsOpenEmpty
  <1>11. TurnsAreKept'
    <2>1. socket'[k].closing_ /\ session'[s].m_Socket = k /\ session'[s].life \in {"handed", "live"}
      BY <1>1, <1>2, <1>4, <1>6, <1>7
    <2> QED BY <1>2, <1>8, <2>1 DEF TurnsAreKept
  <1>12. PointersMatch'
    <2>1. socket'[k].closing_ /\ socket'[k].m_Session = NULL /\ session' = session
      BY <1>2, <1>4, <1>6, <1>7
    <2> QED BY <1>6, <2>1, SocketSessionAssumption DEF Links, PointersMatch
  <1>13. \A q \in Sessions : (Closing(q) <=> q = s) /\ ~Closing(q)'
    BY <1>2, <1>8 DEF Closing
  <1>14. ClosersAreComing'
    <2> SUFFICES ASSUME NEW j \in Sockets, NEW q \in Sessions,
                        socket'[j].m_Session = q, socket'[j].closing_,
                        ~(net.on = j /\ net.at \in {"authed", "close", "unbind", "drop"})
                 PROVE  FALSE
      BY <1>2 DEF ClosersAreComing
    <2>1. j # k
      BY <1>4, <1>6, SocketSessionAssumption
    <2>2. Closing(q) /\ socket[j].m_Session = q
      BY <1>6, <2>1 DEF Links, ClosersAreComing
    <2>3. q = s
      BY <1>13, <2>2
    <2>4. session[s].m_Socket \in {j, NULL}
      BY <2>2, <2>3 DEF Links, PointersMatch
    <2> QED BY <1>1, <2>1, <2>4, SocketSessionAssumption
  <1>15. ClosersMeetTheirSession'
    BY <1>13 DEF ClosersMeetTheirSession
  <1>16. net.on = k => net.at \notin {"authed", "queueing"}
    BY <1>1, <1>13 DEF Links, ClosersMeetTheirSession, SessionLocked
  <1>17. NewSessionIsMade' /\ QueueingHasSession'
    BY <1>2, <1>6, <1>16 DEF Links, NewSessionIsMade, QueueingHasSession, NetIsServing
  <1> QED BY <1>6, <1>9, <1>10, <1>11, <1>12, <1>14, <1>15, <1>17 DEF Links

\* A session that lets go of its socket, of which it is or will be the last trace.
LEMMA SessionLetsGo ==
    ASSUME IInv, UNCHANGED <<net, round>>,
           NEW u \in Users, NEW s \in Sessions, NEW k \in Sockets, NEW life \in {"live", "deleted"},
           round = u, session[s].life \in {"handed", "live"},
           session[s].m_Socket = k, socket[k].closing_,
           socket' = [socket EXCEPT ![k] = RemoveReference(@)],
           session' \in [Sessions -> SessionRec],
           session'[s].life = life, session'[s].m_Socket = NULL,
           \A q \in Sessions \ {s} : session'[q] = session[q],
           \A q \in Sessions : ~Closing(q),
           user' \in [Users -> [at : UserAt, on : Sessions \cup {NULL}]],
           \A v \in Users : user'[v].at = "idle"
    PROVE  IInv'
  <1> USE DEF IInv
  <1> DEFINE r == RemoveReference(socket[k])
  <1>1. socket' = [socket EXCEPT ![k] = r]
    OBVIOUS
  <1>2. socket[k].life = "alive" /\ socket[k].refs \in Nat /\ socket[k].refs > 0
    BY HeldSockets DEF SessionsOf
  <1>3. /\ r \in SocketRec /\ r.refs = socket[k].refs - 1
        /\ r.life = IF socket[k].refs = 1 THEN "freed" ELSE "alive"
        /\ r.opening = socket[k].opening /\ r.managed = socket[k].managed
        /\ r.registered = socket[k].registered /\ r.closing_ = socket[k].closing_
        /\ r.m_Session = socket[k].m_Session
    BY <1>2, Released
  <1> HIDE DEF r
  <1>4. /\ session' \in [Sessions -> SessionRec]
        /\ session'[s].life = life /\ session'[s].m_Socket = NULL
        /\ \A q \in Sessions \ {s} : session'[q] = session[q]
    OBVIOUS
  <1>5. /\ Cardinality(SessionsOf(k)') = Cardinality(SessionsOf(k)) - 1
        /\ \A j \in Sockets \ {k} : SessionsOf(j)' = SessionsOf(j)
    <2>1. SessionsOf(k)' = SessionsOf(k) \ {s} /\ s \in SessionsOf(k)
      BY <1>4, SocketSessionAssumption DEF SessionsOf
    <2>2. \A j \in Sockets \ {k} : SessionsOf(j)' = SessionsOf(j)
      BY <1>4, SocketSessionAssumption DEF SessionsOf
    <2>3. SessionsOf(k) \in SUBSET Sessions
      BY DEF SessionsOf
    <2>4. Cardinality(SessionsOf(k) \ {s}) = Cardinality(SessionsOf(k)) - 1
      BY <2>1, <2>3, SessionsAreCounted
    <2> QED BY <2>1, <2>2, <2>4
  <1>6. /\ ReferencesAreCounted' /\ socket' \in [Sockets -> SocketRec]
        /\ socket'[k] = r
        /\ \A j \in Sockets \ {k} : socket'[j] = socket[j]
    <2>1. r.life = "alive" <=> r.refs # 0
      BY <1>2, <1>3
    <2>2. Cardinality(SessionsOf(k)) \in Nat /\ Handles(socket[k]) \in Nat
      BY SessionsAreCounted DEF SessionsOf, Handles, One
    <2>3. Handles(r) = Handles(socket[k])
      BY <1>3 DEF Handles
    <2>4. r.refs - Handles(r) - Cardinality(SessionsOf(k)')
            = socket[k].refs - Handles(socket[k]) - Cardinality(SessionsOf(k))
      BY <1>2, <1>3, <1>5, <2>2, <2>3
    <2> QED BY <1>1, <1>3, <1>5, <2>1, <2>4, CountsFollow
  <1>7. TypeOK'
    BY <1>4, <1>6 DEF TypeOK
  <1>8. NetIsServing' /\ SocketsOpenEmpty'
    <2>1. \A j \in Sockets : /\ socket'[j].registered = socket[j].registered
                             /\ socket'[j].managed = socket[j].managed
                             /\ socket'[j].opening = socket[j].opening
                             /\ socket'[j].closing_ = socket[j].closing_
                             /\ socket'[j].m_Session = socket[j].m_Session
                             /\ socket'[j].life = "new" => socket[j].life = "new"
      BY <1>2, <1>3, <1>6
    <2>2. NetIsServing'
      BY <2>1 DEF Links, NetIsServing
    <2>3. SocketsOpenEmpty'
      BY <2>1 DEF Links, SocketsOpenEmpty
    <2> QED BY <2>2, <2>3
  <1>9. TurnsAreKept' /\ \A q \in Sessions : ~Closing(q)'
    BY DEF TurnsAreKept, Closing
  <1>10. \A j \in Sockets : /\ socket'[j].closing_ = socket[j].closing_
                            /\ socket'[j].m_Session = socket[j].m_Session
    BY <1>3, <1>6
  <1>11. PointersMatch'
    BY <1>4, <1>10, SocketSessionAssumption DEF Links, PointersMatch
  <1>12. ClosersAreComing'
    BY <1>9, <1>10 DEF Links, ClosersAreComing
  <1>13. ClosersMeetTheirSession'
    BY <1>9 DEF ClosersMeetTheirSession
  <1>14. NewSessionIsMade' /\ QueueingHasSession'
    BY <1>4, <1>10 DEF Links, NewSessionIsMade, QueueingHasSession, NetIsServing
  <1> QED BY <1>6, <1>7, <1>8, <1>9, <1>11, <1>12, <1>13, <1>14 DEF Links

LEMMA UpdatePreservesInvariant ==
    ASSUME IInv, NEW u \in Users, NEW s \in Sessions, Update(u, s)
    PROVE  IInv'
  <1>1. /\ round = u /\ user[u].at = "idle" /\ session[s].life = "live"
        /\ session' = [session EXCEPT ![s].m_Socket = NULL]
        /\ UNCHANGED <<net, user, round>>
    BY DEF Update, Turn
  <1>2. PICK k \in Sockets :
          /\ session[s].m_Socket = k /\ socket[k].closing_
          /\ socket' = [socket EXCEPT ![k] = RemoveReference(@)]
    BY DEF Update
  <1>3. /\ session' \in [Sessions -> SessionRec]
        /\ session'[s].life = "live" /\ session'[s].m_Socket = NULL
        /\ \A q \in Sessions \ {s} : session'[q] = session[q]
    BY <1>1 DEF IInv, TypeOK, SessionRec
  <1>4. \A v \in Users : user[v].at = "idle"
    BY <1>1, OneUser
  <1>5. \A q \in Sessions : ~Closing(q)
    BY <1>4 DEF Closing
  <1>6. user' \in [Users -> [at : UserAt, on : Sessions \cup {NULL}]]
    BY <1>1 DEF IInv, TypeOK
  <1> QED BY <1>1, <1>2, <1>3, <1>4, <1>5, <1>6, SessionLetsGo

LEMMA DeleteSession_EndsPreservesInvariant ==
    ASSUME IInv, NEW s \in Sessions, DeleteSession_Ends(s)
    PROVE  IInv'
  <1>1. /\ user["world"].at = "delete" /\ user["world"].on = s /\ "world" \in Users
        /\ session' = [session EXCEPT ![s] = [life |-> "deleted", m_Socket |-> NULL]]
        /\ user' = [user EXCEPT !["world"] = Idle]
        /\ UNCHANGED <<net, round>>
    BY DEF DeleteSession_Ends, UserGoes, Users
  <1>2. PICK k \in Sockets :
          /\ session[s].m_Socket = k
          /\ socket' = [socket EXCEPT ![k] = RemoveReference(@)]
    BY DEF DeleteSession_Ends
  <1>3. round = "world" /\ session[s].life \in {"handed", "live"} /\ socket[k].closing_
    BY <1>1, <1>2 DEF IInv, Links, TurnsAreKept
  <1>4. \A v \in Users \ {"world"} : user[v].at = "idle"
    BY <1>1, OneUser
  <1>5. \A q \in Sessions : ~Closing(q)
    BY <1>1, <1>4 DEF Closing
  <1>6. /\ user' \in [Users -> [at : UserAt, on : Sessions \cup {NULL}]]
        /\ \A v \in Users : user'[v].at = "idle"
    BY <1>1, <1>4 DEF IInv, TypeOK, UserAt, Idle
  <1>7. /\ session' \in [Sessions -> SessionRec]
        /\ session'[s].life = "deleted" /\ session'[s].m_Socket = NULL
        /\ \A q \in Sessions \ {s} : session'[q] = session[q]
    BY <1>1 DEF IInv, TypeOK, SessionRec
  <1> QED BY <1>1, <1>2, <1>3, <1>5, <1>6, <1>7, SessionLetsGo

\* A session joins the others, or goes when it has let go of its socket.
LEMMA UpdateSessionsPreservesInvariant ==
    ASSUME IInv, NEW s \in Sessions, UpdateSessions(s)
    PROVE  IInv'
  <1> USE DEF IInv
  <1>1. /\ round = "world" /\ user["world"].at = "idle" /\ "world" \in Users
        /\ UNCHANGED <<socket, net, user, round>>
    BY DEF UpdateSessions, Users
  <1>2. \A v \in Users : user[v].at = "idle"
    BY <1>1, OneUser
  <1>3. PICK life \in {"live", "deleted"} :
          /\ session' = [session EXCEPT ![s].life = life]
          /\ session[s].life \in {"handed", "live"}
          /\ life = "deleted" => session[s].m_Socket = NULL
    BY DEF UpdateSessions
  <1>4. /\ session' \in [Sessions -> SessionRec]
        /\ session'[s].life = life
        /\ \A q \in Sessions : session'[q].m_Socket = session[q].m_Socket
        /\ \A q \in Sessions \ {s} : session'[q] = session[q]
    BY <1>3 DEF TypeOK, SessionRec
  <1>5. TypeOK'
    BY <1>1, <1>4 DEF TypeOK
  <1>6. ReferencesAreCounted'
    <2>1. \A j \in Sockets : Holders(j)' = Holders(j)
      BY <1>1, <1>4 DEF Holders, One
    <2> QED BY <1>1, <2>1 DEF ReferencesAreCounted
  <1>7. NetIsServing' /\ SocketsOpenEmpty'
    BY <1>1 DEF Links, NetIsServing, SocketsOpenEmpty
  <1>8. TurnsAreKept' /\ ClosersAreComing' /\ ClosersMeetTheirSession'
    BY <1>1, <1>2, <1>4 DEF Links, TurnsAreKept, ClosersAreComing, ClosersMeetTheirSession, Closing
  <1>9. PointersMatch'
    BY <1>1, <1>3, <1>4 DEF Links, PointersMatch
  <1>10. NewSessionIsMade' /\ QueueingHasSession'
    BY <1>1, <1>3, <1>4 DEF Links, NewSessionIsMade, QueueingHasSession
  <1> QED BY <1>5, <1>6, <1>7, <1>8, <1>9, <1>10 DEF Links

(***************************************************************************)
(* Theorems.                                                               *)
(***************************************************************************)
LEMMA InitEstablishesInvariant ==
    ASSUME Init
    PROVE  IInv
  <1>1. \A k \in Sockets : /\ socket[k] \in SocketRec
                           /\ socket[k].life = "new" /\ socket[k].refs = 0
                           /\ socket[k].opening = "no" /\ socket[k].managed = "no"
                           /\ ~socket[k].registered /\ ~socket[k].closing_
                           /\ socket[k].m_Session = NULL
    BY DEF Init, SocketRec
  <1>2. \A s \in Sessions : /\ session[s] \in SessionRec
                            /\ session[s].life = "none" /\ session[s].m_Socket = NULL
    BY DEF Init, SessionRec
  <1>3. /\ net.at = "idle" /\ net.on = NULL
        /\ \A u \in Users : user[u].at = "idle"
    BY DEF Init, Idle
  <1>4. TypeOK
    <2>1. socket \in [Sockets -> SocketRec] /\ session \in [Sessions -> SessionRec]
      BY <1>1, <1>2 DEF Init
    <2>2. /\ net \in [at : NetAt, on : Sockets \cup {NULL}]
          /\ user \in [Users -> [at : UserAt, on : Sessions \cup {NULL}]]
          /\ round \in Users
      BY DEF Init, Idle, NetAt, UserAt, Users
    <2> QED BY <2>1, <2>2 DEF TypeOK
  <1>5. ReferencesAreCounted
    <2> SUFFICES ASSUME NEW k \in Sockets
                 PROVE  Holders(k) = 0
      BY <1>1 DEF ReferencesAreCounted
    <2>1. SessionsOf(k) = {}
      BY <1>2, SocketSessionAssumption DEF SessionsOf
    <2>2. Cardinality(SessionsOf(k)) = 0
      BY <2>1, FS_EmptySet
    <2> QED BY <1>1, <2>2, HoldersByKind DEF One
  <1>6. Links
    BY <1>1, <1>2, <1>3, SocketSessionAssumption
       DEF Links, NetIsServing, SocketsOpenEmpty, TurnsAreKept, PointersMatch, ClosersAreComing,
           ClosersMeetTheirSession, NewSessionIsMade, QueueingHasSession, Closing
  <1> QED BY <1>4, <1>5, <1>6 DEF IInv

LEMMA RoundEndsPreservesInvariant ==
    ASSUME IInv, RoundEnds
    PROVE  IInv'
  <1>1. user[round].at = "idle" /\ round' \in Users /\ UNCHANGED <<socket, session, net, user>>
    BY DEF RoundEnds
  <1>2. round \in Users
    BY DEF IInv, TypeOK
  <1>3. \A v \in Users : user[v].at = "idle"
    BY <1>1, <1>2, OneUser
  <1>4. TypeOK' /\ ReferencesAreCounted'
    BY <1>1 DEF IInv, TypeOK, ReferencesAreCounted, Holders
  <1>5. TurnsAreKept'
    BY <1>1, <1>3 DEF TurnsAreKept
  <1>6. NetIsServing' /\ SocketsOpenEmpty' /\ PointersMatch'
    BY <1>1 DEF IInv, Links, NetIsServing, SocketsOpenEmpty, PointersMatch
  <1>7. ClosersAreComing' /\ ClosersMeetTheirSession'
    BY <1>1 DEF IInv, Links, ClosersAreComing, ClosersMeetTheirSession, Closing
  <1>8. NewSessionIsMade' /\ QueueingHasSession'
    BY <1>1 DEF IInv, Links, NewSessionIsMade, QueueingHasSession
  <1> QED BY <1>4, <1>5, <1>6, <1>7, <1>8 DEF IInv, Links

LEMMA StutterPreservesInvariant ==
    ASSUME IInv, UNCHANGED vars
    PROVE  IInv'
  BY DEF vars, IInv, TypeOK, ReferencesAreCounted, Holders, Links, NetIsServing, SocketsOpenEmpty,
         TurnsAreKept, PointersMatch, ClosersAreComing, ClosersMeetTheirSession, NewSessionIsMade,
         QueueingHasSession, Closing

\* The inductive invariant holds of every behaviour of the sockets and sessions.
THEOREM InvariantHolds == Spec => []IInv
  <1>1. Init => IInv
    BY InitEstablishesInvariant
  <1>2. IInv /\ [Next]_vars => IInv'
    <2> SUFFICES ASSUME IInv, [Next]_vars
                 PROVE  IInv'
      OBVIOUS
    <2>1. CASE RoundEnds
      BY <2>1, RoundEndsPreservesInvariant
    <2>2. ASSUME NEW k \in Sockets, OpenStep(k)
          PROVE  IInv'
      BY <2>2, OpenStepPreservesInvariant
    <2>3. ASSUME NEW k \in Sockets, NetStep(k)
          PROVE  IInv'
      BY <2>3, AddNewSocketsPreservesInvariant, svc_ClosesPreservesInvariant,
         svc_DropsPreservesInvariant, handle_inputPreservesInvariant,
         HandleAuthSessionPreservesInvariant, AddSessionPreservesInvariant,
         handle_closePreservesInvariant DEF NetStep
    <2>4. ASSUME NEW s \in Sessions, UserStep(s)
          PROVE  IInv'
      BY <2>4, KickPlayerPreservesInvariant, CloseSocketPreservesInvariant,
         UpdatePreservesInvariant, UpdateSessionsPreservesInvariant,
         DeleteSessionPreservesInvariant, DeleteSession_EndsPreservesInvariant DEF UserStep
    <2>5. CASE UNCHANGED vars
      BY <2>5, StutterPreservesInvariant
    <2> QED BY <2>1, <2>2, <2>3, <2>4, <2>5 DEF Next
  <1> QED BY <1>1, <1>2, PTL DEF Spec

\* Sockets, sessions and threads keep their types; a count of references is never negative.
THEOREM TypeCorrect == Spec => []TypeOK
  <1>1. IInv => TypeOK
    BY DEF IInv
  <1> QED BY <1>1, InvariantHolds, PTL

\* A socket has as many references as holders, and is freed with the last of them.
THEOREM ReferencesCounted == Spec => []ReferencesAreCounted
  <1>1. IInv => ReferencesAreCounted
    BY DEF IInv
  <1> QED BY <1>1, InvariantHolds, PTL

\* A session that is about to get a packet, or to be handed to the world, exists.
THEOREM PacketsFound == Spec => []PacketsFindTheirSession
  <1>1. IInv => PacketsFindTheirSession
    <2> SUFFICES ASSUME IInv, net.at \in {"queueing", "authed"}
                 PROVE  /\ socket[net.on].m_Session # NULL
                        /\ session[socket[net.on].m_Session].life \in {"made", "handed", "live"}
      BY DEF PacketsFindTheirSession
    <2> DEFINE k == net.on
    <2>1. k \in Sockets /\ socket[k].m_Session # NULL /\ socket[k].m_Session \in Sessions
      BY SocketSessionAssumption DEF IInv, TypeOK, SocketRec, Links, NetIsServing,
             NewSessionIsMade, QueueingHasSession
    <2> DEFINE s == socket[k].m_Session
    <2>2. session[s].life \in {"none", "made", "handed", "live", "deleted"} /\ session[s].life # "none"
      BY <2>1 DEF IInv, TypeOK, SessionRec, Links, PointersMatch
    <2>3. session[s].life # "deleted"
      <3>1. CASE net.at = "authed"
        BY <3>1 DEF IInv, Links, NewSessionIsMade
      <3>2. CASE net.at = "queueing" /\ ~socket[k].closing_
        BY <2>1, <3>2, SocketSessionAssumption DEF IInv, Links, PointersMatch
      <3>3. CASE net.at = "queueing" /\ socket[k].closing_
        <4>1. Closing(s)
          BY <2>1, <3>3 DEF IInv, Links, ClosersAreComing
        <4> QED BY <4>1 DEF IInv, Links, TurnsAreKept, Closing
      <3> QED BY <3>1, <3>2, <3>3
    <2> QED BY <2>1, <2>2, <2>3
  <1> QED BY <1>1, InvariantHolds, PTL
=============================================================================
