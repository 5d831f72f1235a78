------------------------ MODULE WorldSessionsProofs ------------------------
(***************************************************************************)
(* Proofs about WorldSessions: type correctness, no pointer to a deleted   *)
(* session, the agreement of the login queue with the sessions' flags, the *)
(* refinement of LoginQueue, what a login loads, and the player limit.     *)
(***************************************************************************)
EXTENDS WorldSessions, DataLemmas

(***************************************************************************)
(* The inductive invariant.  NoDanglingSession and QueueMatchesFlags are   *)
(* not inductive: they rest on each session being handed over once, on the *)
(* account of every session handed over, and on players being in the hands *)
(* of live sessions only, which inWorld counts.                            *)
(***************************************************************************)
SessionsLinked ==
    /\ \A a \in Accounts : m_sessions[a] # NULL =>
          session[m_sessions[a]].life = "live" /\ session[m_sessions[a]].account = a
    /\ \A s \in Sessions : session[s].life = "live" =>
          session[s].account \in Accounts /\ m_sessions[session[s].account] = s

HandedOverOnce ==
    /\ IsInjective(addSessQueue)
    /\ \A s \in Range(addSessQueue) : session[s].life = "added"
    /\ \A s \in Sessions : session[s].life = "added" => session[s].account \in Accounts

QueueLinked ==
    /\ IsInjective(m_QueuedSessions)
    /\ \A s \in Range(m_QueuedSessions) : session[s].life = "live" /\ session[s].inQueue
    /\ \A s \in Sessions : Open(s) /\ session[s].inQueue => s \in Range(m_QueuedSessions)

PlayersOfLive ==
    \A s \in Sessions : session[s].life # "live" => ~session[s].loading /\ session[s].player = NULL

Links == SessionsLinked /\ HandedOverOnce /\ QueueLinked /\ PlayersOfLive

PlayersCounted ==
    \A s \in Sessions : session[s].player # NULL => inWorld[session[s].account] >= 1

IInv == TypeOK /\ Links /\ PlayersCounted

\* The parts of the invariant say what the two properties say.
LEMMA LinksImplyProperties ==
    ASSUME TypeOK, Links
    PROVE  NoDanglingSession /\ QueueMatchesFlags
  <1>1. Range(m_QueuedSessions) \subseteq Sessions
    BY RangeOfSeq DEF TypeOK, Range
  <1>2. \A a \in Mapped : /\ session[m_sessions[a]].life = "live"
                          /\ session[m_sessions[a]].account = a
    BY DEF Mapped, Links, SessionsLinked
  <1>3. \A s \in Range(m_QueuedSessions) : m_sessions[session[s].account] = s
    BY <1>1 DEF Links, SessionsLinked, QueueLinked
  <1>4. ASSUME NEW s \in Sessions, session[s].life = "live"
        PROVE  s \in Range(m_sessions)
    <2>1. session[s].account \in DOMAIN m_sessions /\ m_sessions[session[s].account] = s
      BY <1>4 DEF Links, SessionsLinked, TypeOK
    <2> QED BY <2>1 DEF Range
  <1>5. NoDanglingSession
    BY <1>2, <1>3, <1>4 DEF NoDanglingSession, Links, HandedOverOnce
  <1>6. QueueMatchesFlags
    BY DEF QueueMatchesFlags, Links, QueueLinked
  <1> QED BY <1>5, <1>6

(***************************************************************************)
(* What the helpers do.                                                    *)
(***************************************************************************)
\* GetQueuedSessionPos finds a queued session.
LEMMA PositionIsFound ==
    ASSUME TypeOK, IsInjective(m_QueuedSessions), NEW s \in Sessions, Contains(m_QueuedSessions, s)
    PROVE  /\ GetQueuedSessionPos(s) \in 1..Len(m_QueuedSessions)
           /\ m_QueuedSessions[GetQueuedSessionPos(s)] = s
           /\ QueueWithout(s) = RemoveAt(m_QueuedSessions, GetQueuedSessionPos(s))
  <1> DEFINE q == m_QueuedSessions
             first(i) == q[i] = s /\ \A j \in 1..i - 1 : q[j] # s
  <1>1. q \in Seq(Sessions)
    BY DEF TypeOK
  <1>2. PICK i \in 1..Len(q) : q[i] = s
    BY DEF Contains
  <1>3. first(i)
    BY <1>1, <1>2 DEF IsInjective
  <1>4. GetQueuedSessionPos(s) = CHOOSE k \in 1..Len(q) : first(k)
    BY DEF GetQueuedSessionPos
  <1> HIDE DEF first
  <1>5. GetQueuedSessionPos(s) \in 1..Len(q) /\ first(GetQueuedSessionPos(s))
    BY <1>3, <1>4
  <1> QED BY <1>5 DEF first, QueueWithout

\* What is left of the queue without s.
LEMMA QueueWithoutTakesOne ==
    ASSUME TypeOK, IsInjective(m_QueuedSessions), NEW s \in Sessions
    PROVE  /\ QueueWithout(s) \in Seq(Sessions)
           /\ IsInjective(QueueWithout(s))
           /\ Range(QueueWithout(s)) = Range(m_QueuedSessions) \ {s}
           /\ QueueWithout(s) # <<>> => Head(QueueWithout(s)) # NULL
  <1> DEFINE q == m_QueuedSessions
             rest == QueueWithout(s)
  <1>1. q \in Seq(Sessions)
    BY DEF TypeOK
  <1>2. rest \in Seq(Sessions) /\ IsInjective(rest) /\ Range(rest) = Range(q) \ {s}
    <2>1. CASE Contains(q, s)
      BY <1>1, <2>1, PositionIsFound, RemoveAtKeepsOthers
    <2>2. CASE ~Contains(q, s)
      <3>1. s \notin Range(q)
        BY <1>1, <2>2, InRange DEF Contains
      <3>2. rest = q
        BY <2>2 DEF QueueWithout
      <3> QED BY <1>1, <3>1, <3>2
    <2> QED BY <2>1, <2>2
  <1> HIDE DEF rest
  <1>3. rest # <<>> => Head(rest) \in Sessions
    BY <1>2, HeadTailProperties
  <1> QED BY <1>2, <1>3, ConstantsAssumption DEF rest

\* RemoveQueuedSession(s) takes s and the session it admits off the queue,
\* and nothing else.
LEMMA RemoveQueuedSessionTakesTwo ==
    ASSUME TypeOK, IsInjective(m_QueuedSessions), NEW s \in Sessions
    PROVE  LET rm == RemoveQueuedSession(s)
           IN  /\ rm.queue \in Seq(Sessions)
               /\ IsInjective(rm.queue)
               /\ Range(rm.queue) = Range(m_QueuedSessions) \ {s, rm.next}
               /\ rm.next # NULL => rm.next \in Range(m_QueuedSessions) \ {s}
  <1> DEFINE q    == m_QueuedSessions
             rest == QueueWithout(s)
             rm   == RemoveQueuedSession(s)
  <1>1. q \in Seq(Sessions) /\ Range(q) \subseteq Sessions
    BY RangeOfSeq DEF TypeOK, Range
  <1>2. rest \in Seq(Sessions) /\ IsInjective(rest) /\ Range(rest) = Range(q) \ {s}
    BY QueueWithoutTakesOne
  <1>3. \/ rm.queue = rest /\ rm.next = NULL
        \/ rest # <<>> /\ rm.queue = Tail(rest) /\ rm.next = Head(rest)
    BY DEF RemoveQueuedSession
  <1> HIDE DEF rest, rm
  <1>4. CASE rm.queue = rest /\ rm.next = NULL
    <2>1. NULL \notin Range(q)
      BY <1>1, ConstantsAssumption
    <2> QED BY <1>2, <1>4, <2>1 DEF rm
  <1>5. CASE rest # <<>> /\ rm.queue = Tail(rest) /\ rm.next = Head(rest)
    <2>1. /\ Tail(rest) \in Seq(Sessions) /\ IsInjective(Tail(rest))
          /\ Head(rest) \in Range(rest) /\ Range(Tail(rest)) = Range(rest) \ {Head(rest)}
      BY <1>2, <1>5, TailKeepsOthers
    <2> QED BY <1>2, <1>5, <2>1 DEF rm
  <1> QED BY <1>3, <1>4, <1>5

\* The assignments to a session keep its type; what they change.
LEMMA RecordTypes ==
    ASSUME NEW r \in SessionRec
    PROVE  /\ Admitted(r) \in SessionRec /\ Admitted(r) = [r EXCEPT !.inQueue = FALSE]
           /\ Kicked(r) \in SessionRec /\ Kicked(r).sock # "open"
           /\ Kicked(r).life = r.life /\ Kicked(r).account = r.account
           /\ Kicked(r).inQueue = r.inQueue /\ Kicked(r).loading = r.loading
           /\ Kicked(r).player = r.player
           /\ LoggedOut(r) \in SessionRec
           /\ LoggedOut(r).life = r.life /\ LoggedOut(r).account = r.account
           /\ LoggedOut(r).inQueue = r.inQueue /\ LoggedOut(r).loading = r.loading
           /\ LoggedOut(r).sock = r.sock /\ LoggedOut(r).player = NULL
  <1>1. Admitted(r) \in SessionRec /\ Admitted(r) = [r EXCEPT !.inQueue = FALSE]
    BY DEF Admitted, SessionRec
  <1>2. /\ LoggedOut(r) \in SessionRec
        /\ LoggedOut(r).life = r.life /\ LoggedOut(r).account = r.account
        /\ LoggedOut(r).inQueue = r.inQueue /\ LoggedOut(r).loading = r.loading
        /\ LoggedOut(r).sock = r.sock /\ LoggedOut(r).player = NULL
    BY DEF LoggedOut, SessionRec
  <1>3. CASE r.sock = "open"
    <2>1. Kicked(r) = [r EXCEPT !.sock = "closed"]
      BY <1>3 DEF Kicked
    <2> QED BY <1>1, <2>1, <1>2 DEF SessionRec
  <1>4. CASE r.sock # "open"
    BY <1>1, <1>4, <1>2 DEF Kicked
  <1> QED BY <1>3, <1>4

LEMMA DeletedType ==
    ASSUME TypeOK, NEW s \in Sessions
    PROVE  /\ Deleted(s) \in SessionRec
           /\ Deleted(s).life = "deleted" /\ Deleted(s).player = NULL
           /\ ~Deleted(s).loading
  <1>1. session[s].account \in Accounts \cup {NULL}
    BY DEF TypeOK, SessionRec
  <1>2. <<>> \in Seq(Packets)
    OBVIOUS
  <1> QED BY <1>1, <1>2 DEF Deleted, NewSession, SessionRec

LEMMA TakenType ==
    ASSUME TypeOK, NEW s \in Sessions, HasPacket(s)
    PROVE  /\ Taken(s) \in SessionRec
           /\ Taken(s) = [session[s] EXCEPT !.recv = Tail(session[s].recv)]
  <1>1. session[s] \in SessionRec /\ session[s].recv \in Seq(Packets) /\ session[s].recv # <<>>
    BY DEF TypeOK, SessionRec, HasPacket
  <1>2. Tail(session[s].recv) \in Seq(Packets)
    BY <1>1, HeadTailProperties
  <1>3. Taken(s) = [session[s] EXCEPT !.recv = Tail(session[s].recv)]
    BY DEF Taken
  <1> QED BY <1>1, <1>2, <1>3 DEF SessionRec

\* A logout queues a save of its account and takes one player out of the
\* world: no other session's player is that one.
LEMMA LogoutKeepsOthers ==
    ASSUME IInv, NEW s \in Sessions, session[s].life = "live", LogoutPlayer(s)
    PROVE  /\ delayQueue' \in Seq(Request)
           /\ inWorld' \in [Accounts -> Nat]
           /\ lastSave' \in [Accounts -> 0..MaxProgress]
           /\ \A t \in Sessions \ {s} :
                 session[t].player # NULL => inWorld'[session[t].account] >= 1
  <1> DEFINE a == session[s].account
             p == session[s].player
  <1>1. a \in Accounts /\ m_sessions[a] = s
    BY DEF IInv, Links, SessionsLinked
  <1>2. p \in (0..MaxProgress) \cup {NULL}
    BY DEF IInv, TypeOK, SessionRec
  <1>3. CASE p = NULL
    <2>1. UNCHANGED <<delayQueue, inWorld, lastSave>>
      BY <1>3 DEF LogoutPlayer
    <2> QED BY <2>1 DEF IInv, TypeOK, PlayersCounted
  <1>4. CASE p # NULL
    <2>1. /\ delayQueue' = Append(delayQueue, [op |-> "save", account |-> a, state |-> p])
          /\ inWorld' = [inWorld EXCEPT ![a] = @ - 1]
          /\ lastSave' = [lastSave EXCEPT ![a] = p]
      BY <1>4 DEF LogoutPlayer
    <2>2. [op |-> "save", account |-> a, state |-> p] \in Request
      BY <1>1, <1>2, <1>4 DEF Request
    <2>3. delayQueue' \in Seq(Request)
      BY <2>1, <2>2, AppendProperties DEF IInv, TypeOK
    <2>4. inWorld[a] \in Nat /\ inWorld[a] >= 1
      BY <1>1, <1>4 DEF IInv, TypeOK, PlayersCounted
    <2>5. inWorld' \in [Accounts -> Nat]
      BY <1>1, <2>1, <2>4 DEF IInv, TypeOK
    <2>6. lastSave' \in [Accounts -> 0..MaxProgress]
      BY <1>1, <1>2, <1>4, <2>1 DEF IInv, TypeOK
    <2>7. ASSUME NEW t \in Sessions \ {s}, session[t].player # NULL
          PROVE  inWorld'[session[t].account] >= 1
      <3>1. session[t].account \in Accounts /\ m_sessions[session[t].account] = t
        BY <2>7 DEF IInv, Links, SessionsLinked, PlayersOfLive
      <3>2. session[t].account # a
        BY <1>1, <3>1
      <3> QED BY <2>1, <2>7, <3>1, <3>2 DEF IInv, TypeOK, PlayersCounted
    <2> QED BY <2>3, <2>5, <2>6, <2>7
  <1> QED BY <1>3, <1>4

(***************************************************************************)
(* Two kinds of steps: those that touch one session in place, and those    *)
(* that delete one.                                                        *)
(***************************************************************************)
\* r may take the place of session s in s's own life.
InPlace(r, s) ==
    /\ r \in SessionRec
    /\ r.life = session[s].life /\ r.account = session[s].account
    /\ r.inQueue = session[s].inQueue
    /\ r.sock = "open" => session[s].sock = "open"
    /\ r.life # "live" => ~r.loading /\ r.player = NULL

LEMMA InPlaceKeepsLinks ==
    ASSUME TypeOK, Links, NEW s \in Sessions, NEW r, InPlace(r, s),
           session' = [session EXCEPT ![s] = r],
           UNCHANGED <<addSessQueue, m_sessions, m_QueuedSessions>>
    PROVE  Links' /\ session' \in [Sessions -> SessionRec]
  <1>1. session' \in [Sessions -> SessionRec]
    BY DEF TypeOK, InPlace
  <1>2. \A t \in Sessions :
          /\ session'[t].life = session[t].life /\ session'[t].account = session[t].account
          /\ session'[t].inQueue = session[t].inQueue
          /\ session'[t].sock = "open" => session[t].sock = "open"
          /\ session'[t].life # "live" => ~session'[t].loading /\ session'[t].player = NULL
    BY DEF TypeOK, InPlace, Links, PlayersOfLive
  <1>3. /\ Range(m_QueuedSessions) \subseteq Sessions
        /\ Range(addSessQueue) \subseteq Sessions
        /\ \A a \in Accounts : m_sessions[a] # NULL => m_sessions[a] \in Sessions
    BY RangeOfSeq DEF TypeOK, Range
  <1>4. SessionsLinked'
    BY <1>2, <1>3 DEF Links, SessionsLinked
  <1>5. HandedOverOnce'
    BY <1>2, <1>3 DEF Links, HandedOverOnce
  <1>6. QueueLinked'
    BY <1>2, <1>3 DEF Links, QueueLinked, Open
  <1>7. PlayersOfLive'
    BY <1>2 DEF PlayersOfLive
  <1> QED BY <1>1, <1>4, <1>5, <1>6, <1>7 DEF Links

\* Every session but those in touched keeps everything, except that next, if
\* it is one of them, is admitted.
Survivors(touched, next) ==
    \A t \in Sessions \ touched :
        /\ session'[t].life = session[t].life /\ session'[t].account = session[t].account
        /\ session'[t].sock = session[t].sock /\ session'[t].loading = session[t].loading
        /\ session'[t].player = session[t].player
        /\ session'[t].inQueue = (session[t].inQueue /\ t # next)

\* A session that is mapped is live, and it is the session of its account.
LEMMA MappedIsLive ==
    ASSUME TypeOK, Links, NEW a \in Accounts, FindSession(a) # NULL
    PROVE  /\ FindSession(a) \in Sessions
           /\ session[FindSession(a)].life = "live" /\ session[FindSession(a)].account = a
  BY DEF FindSession, TypeOK, Links, SessionsLinked

\* The session at the head of the hand-over queue is added and has an account;
\* no other place of the queue holds it.
LEMMA HeadIsAdded ==
    ASSUME TypeOK, Links, addSessQueue # <<>>
    PROVE  LET s == Head(addSessQueue)
           IN  /\ s \in Sessions /\ session[s].life = "added"
               /\ session[s].account \in Accounts
               /\ Tail(addSessQueue) \in Seq(Sessions)
               /\ IsInjective(Tail(addSessQueue))
               /\ Range(Tail(addSessQueue)) = Range(addSessQueue) \ {s}
               /\ Range(addSessQueue) \subseteq Sessions
  <1>1. addSessQueue \in Seq(Sessions) /\ IsInjective(addSessQueue)
    BY DEF TypeOK, Links, HandedOverOnce
  <1>2. Range(addSessQueue) \subseteq Sessions
    BY <1>1, RangeOfSeq DEF Range
  <1> QED BY <1>1, <1>2, TailKeepsOthers DEF Links, HandedOverOnce

\* UpdateSessions deletes a session and nothing is left that refers to it.
LEMMA RemovalKeepsInvariant ==
    ASSUME IInv, NEW s \in Sessions, UpdateRemovesSession(s)
    PROVE  IInv'
  <1> DEFINE rm == RemoveQueuedSession(s)
  <1>1. /\ updating \in Accounts /\ FindSession(updating) = s /\ s # NULL
        /\ session' = [t \in Sessions |->
                 CASE t = s -> Deleted(s)
                   [] t = rm.next -> Admitted(session[t])
                   [] OTHER -> session[t]]
        /\ m_QueuedSessions' = rm.queue
        /\ m_sessions' = [m_sessions EXCEPT ![updating] = NULL]
        /\ LogoutPlayer(s)
        /\ updating' = NULL
        /\ UNCHANGED <<addSessQueue, m_playerLimit, phase, toUpdate, resultQueue, stored>>
    BY ConstantsAssumption DEF UpdateRemovesSession, IInv, TypeOK
  <1>2. session[s].life = "live" /\ session[s].account = updating
    BY <1>1, MappedIsLive DEF IInv
  <1>3. /\ rm.queue \in Seq(Sessions) /\ IsInjective(rm.queue)
        /\ Range(rm.queue) = Range(m_QueuedSessions) \ {s, rm.next}
        /\ rm.next # NULL => rm.next \in Range(m_QueuedSessions) \ {s}
    BY RemoveQueuedSessionTakesTwo DEF IInv, Links, QueueLinked
  <1> HIDE DEF rm
  <1>4. /\ Range(m_QueuedSessions) \subseteq Sessions
        /\ Range(addSessQueue) \subseteq Sessions
    BY RangeOfSeq DEF IInv, TypeOK, Range
  <1>5. session' \in [Sessions -> SessionRec] /\ Survivors({s}, rm.next)
    <2>1. \A t \in Sessions : session[t] \in SessionRec
      BY DEF IInv, TypeOK
    <2>2. ASSUME NEW t \in Sessions
          PROVE  session'[t] = IF t = s THEN Deleted(s)
                               ELSE IF t = rm.next THEN Admitted(session[t])
                               ELSE session[t]
      <3>1. session'[t] = CASE t = s -> Deleted(s)
                            [] t = rm.next -> Admitted(session[t])
                            [] OTHER -> session[t]
        BY <1>1
      <3>2. s # rm.next
        BY <1>1, <1>3
      <3> QED BY <3>1, <3>2
    <2>3. ASSUME NEW t \in Sessions
          PROVE  session'[t] \in SessionRec
      BY <2>1, <2>2, RecordTypes, DeletedType DEF IInv
    <2>4. Survivors({s}, rm.next)
      BY <2>1, <2>2, RecordTypes DEF Survivors, SessionRec
    <2> QED BY <1>1, <2>3, <2>4
  <1>6. session'[s].life = "deleted" /\ session'[s].player = NULL /\ ~session'[s].loading
    <2>1. session'[s] = Deleted(s)
      BY <1>1, <1>3
    <2> QED BY <2>1, DeletedType DEF IInv
  <1>7. SessionsLinked'
    <2>1. ASSUME NEW a \in Accounts, m_sessions'[a] # NULL
          PROVE  session'[m_sessions'[a]].life = "live" /\ session'[m_sessions'[a]].account = a
      <3>1. a # updating /\ m_sessions'[a] = m_sessions[a]
        BY <1>1, <2>1 DEF IInv, TypeOK
      <3>2. /\ m_sessions[a] \in Sessions \ {s}
            /\ session[m_sessions[a]].life = "live" /\ session[m_sessions[a]].account = a
        BY <1>2, <2>1, <3>1 DEF IInv, TypeOK, Links, SessionsLinked
      <3> QED BY <1>5, <3>1, <3>2 DEF Survivors
    <2>2. ASSUME NEW t \in Sessions, session'[t].life = "live"
          PROVE  session'[t].account \in Accounts /\ m_sessions'[session'[t].account] = t
      <3>1. t # s /\ session[t].life = "live" /\ session'[t].account = session[t].account
        BY <1>5, <1>6, <2>2 DEF Survivors
      <3>2. session[t].account \in Accounts /\ m_sessions[session[t].account] = t
        BY <3>1 DEF IInv, Links, SessionsLinked
      <3> QED BY <1>1, <3>1, <3>2 DEF IInv, TypeOK, FindSession
    <2> QED BY <2>1, <2>2 DEF SessionsLinked
  <1>8. HandedOverOnce'
    BY <1>1, <1>2, <1>4, <1>5, <1>6 DEF IInv, Links, HandedOverOnce, Survivors
  <1>9. QueueLinked'
    BY <1>1, <1>3, <1>4, <1>5, <1>6 DEF IInv, Links, QueueLinked, Open, Survivors
  <1>10. PlayersOfLive'
    BY <1>5, <1>6 DEF IInv, Links, PlayersOfLive, Survivors
  <1>11. /\ delayQueue' \in Seq(Request)
         /\ inWorld' \in [Accounts -> Nat]
         /\ lastSave' \in [Accounts -> 0..MaxProgress]
         /\ \A t \in Sessions \ {s} :
               session[t].player # NULL => inWorld'[session[t].account] >= 1
    BY <1>1, <1>2, LogoutKeepsOthers
  <1>12. PlayersCounted'
    BY <1>5, <1>6, <1>11 DEF PlayersCounted, Survivors
  <1>13. TypeOK'
    BY <1>1, <1>3, <1>5, <1>11 DEF IInv, TypeOK
  <1> QED BY <1>7, <1>8, <1>9, <1>10, <1>12, <1>13 DEF IInv, Links

\* AddSession_ puts the newcomer in the place of an older session: what
\* referred to the old one refers to the new one or to nobody.
LEMMA ReplacementKeepsInvariant ==
    ASSUME IInv, AddSession_Replace
    PROVE  IInv'
  <1> DEFINE s   == Head(addSessQueue)
             a   == session[s].account
             old == FindSession(a)
             rm  == RemoveQueuedSession(old)
             n   == IF rm.found THEN Cardinality(Mapped) ELSE Cardinality(Mapped) - 1
             queued == MustQueue(s, n)
  <1>1. /\ addSessQueue # <<>> /\ old # NULL /\ ~session[old].loading
        /\ m_sessions' = [m_sessions EXCEPT ![a] = s]
        /\ session' = [t \in Sessions |->
                 CASE t = s -> [session[s] EXCEPT !.life = "live", !.inQueue = queued]
                   [] t = old -> Deleted(old)
                   [] t = rm.next -> Admitted(session[t])
                   [] OTHER -> session[t]]
        /\ m_QueuedSessions' = IF queued THEN Append(rm.queue, s) ELSE rm.queue
        /\ LogoutPlayer(old)
        /\ addSessQueue' = Tail(addSessQueue)
        /\ UNCHANGED <<m_playerLimit, phase, toUpdate, updating, resultQueue, stored>>
    BY DEF AddSession_Replace, RemoveSession, worldVars
  <1>2. queued \in BOOLEAN
    BY DEF MustQueue
  <1> HIDE DEF n, queued
  <1>3. /\ s \in Sessions /\ session[s].life = "added" /\ a \in Accounts
        /\ Tail(addSessQueue) \in Seq(Sessions) /\ IsInjective(Tail(addSessQueue))
        /\ Range(Tail(addSessQueue)) = Range(addSessQueue) \ {s}
        /\ Range(addSessQueue) \subseteq Sessions
    BY <1>1, HeadIsAdded DEF IInv
  <1>4. old \in Sessions /\ session[old].life = "live" /\ session[old].account = a
    BY <1>1, <1>3, MappedIsLive DEF IInv
  <1>5. m_sessions[a] = old
    BY DEF FindSession
  <1> HIDE DEF s, old
  <1>6. /\ rm.queue \in Seq(Sessions) /\ IsInjective(rm.queue)
        /\ Range(rm.queue) = Range(m_QueuedSessions) \ {old, rm.next}
        /\ rm.next # NULL => rm.next \in Range(m_QueuedSessions) \ {old}
    BY <1>4, RemoveQueuedSessionTakesTwo DEF IInv, Links, QueueLinked
  <1> HIDE DEF rm
  <1>7. /\ Range(m_QueuedSessions) \subseteq Sessions
        /\ s \notin Range(m_QueuedSessions) /\ s # old /\ s # rm.next /\ old # rm.next
    <2>1. Range(m_QueuedSessions) \subseteq Sessions
      BY RangeOfSeq DEF IInv, TypeOK, Range
    <2>2. s \notin Range(m_QueuedSessions) /\ s # NULL /\ old # NULL
      BY <1>3, <1>4, ConstantsAssumption DEF IInv, Links, QueueLinked
    <2> QED BY <1>3, <1>4, <1>6, <2>1, <2>2
  <1>8. ASSUME NEW t \in Sessions
        PROVE  session'[t] = IF t = s THEN [session[s] EXCEPT !.life = "live", !.inQueue = queued]
                             ELSE IF t = old THEN Deleted(old)
                             ELSE IF t = rm.next THEN Admitted(session[t])
                             ELSE session[t]
    BY <1>1, <1>7
  <1>9. \A t \in Sessions : session[t] \in SessionRec
    BY DEF IInv, TypeOK
  <1>10. /\ session' \in [Sessions -> SessionRec]
         /\ Survivors({s, old}, rm.next)
    <2>1. [session[s] EXCEPT !.life = "live", !.inQueue = queued] \in SessionRec
      BY <1>2, <1>3, <1>9 DEF SessionRec
    <2>2. ASSUME NEW t \in Sessions
          PROVE  session'[t] \in SessionRec
      BY <1>4, <1>8, <1>9, <2>1, RecordTypes, DeletedType DEF IInv
    <2>3. Survivors({s, old}, rm.next)
      BY <1>8, <1>9, RecordTypes DEF Survivors, SessionRec
    <2> QED BY <1>1, <2>2, <2>3
  <1>11. session'[old].life = "deleted" /\ session'[old].player = NULL /\ ~session'[old].loading
    BY <1>4, <1>7, <1>8, DeletedType DEF IInv
  <1>12. /\ session'[s].life = "live" /\ session'[s].account = a
         /\ session'[s].inQueue = queued /\ session'[s].player = NULL
    <2>1. session[s].player = NULL
      BY <1>3 DEF IInv, Links, PlayersOfLive
    <2> QED BY <1>3, <1>8, <1>9, <2>1 DEF SessionRec
  <1>13. SessionsLinked'
    <2>1. ASSUME NEW b \in Accounts, m_sessions'[b] # NULL
          PROVE  session'[m_sessions'[b]].life = "live" /\ session'[m_sessions'[b]].account = b
      <3>1. CASE b = a
        <4>1. m_sessions'[b] = s
          BY <1>1, <1>3, <3>1 DEF IInv, TypeOK
        <4> QED BY <1>12, <3>1, <4>1
      <3>2. CASE b # a
        <4>1. m_sessions'[b] = m_sessions[b]
          BY <1>1, <3>2 DEF IInv, TypeOK
        <4>2. /\ m_sessions[b] \in Sessions
              /\ session[m_sessions[b]].life = "live" /\ session[m_sessions[b]].account = b
          BY <2>1, <4>1 DEF IInv, TypeOK, Links, SessionsLinked
        <4>3. m_sessions[b] \in Sessions \ {s, old}
          BY <1>3, <1>4, <3>2, <4>2
        <4> QED BY <1>10, <4>1, <4>2, <4>3 DEF Survivors
      <3> QED BY <3>1, <3>2
    <2>2. ASSUME NEW t \in Sessions, session'[t].life = "live"
          PROVE  session'[t].account \in Accounts /\ m_sessions'[session'[t].account] = t
      <3>1. CASE t = s
        BY <1>1, <1>3, <1>12, <3>1 DEF IInv, TypeOK
      <3>2. CASE t # s
        <4>1. t # old /\ session[t].life = "live" /\ session'[t].account = session[t].account
          BY <1>10, <1>11, <2>2, <3>2 DEF Survivors
        <4>2. session[t].account \in Accounts /\ m_sessions[session[t].account] = t
          BY <4>1 DEF IInv, Links, SessionsLinked
        <4> QED BY <1>1, <1>5, <4>1, <4>2 DEF IInv, TypeOK
      <3> QED BY <3>1, <3>2
    <2> QED BY <2>1, <2>2 DEF SessionsLinked
  <1>14. HandedOverOnce'
    <2>1. /\ IsInjective(addSessQueue') /\ Range(addSessQueue') = Range(addSessQueue) \ {s}
      BY <1>1, <1>3
    <2>2. \A t \in Range(addSessQueue') : t \in Sessions \ {s, old} /\ session[t].life = "added"
      BY <1>3, <1>4, <2>1 DEF IInv, Links, HandedOverOnce
    <2> QED BY <1>10, <1>11, <1>12, <2>1, <2>2 DEF IInv, Links, HandedOverOnce, Survivors
  <1>15. m_QueuedSessions' \in Seq(Sessions) /\ QueueLinked'
    <2>1. /\ m_QueuedSessions' \in Seq(Sessions)
          /\ IsInjective(m_QueuedSessions')
          /\ Range(m_QueuedSessions') =
                (Range(m_QueuedSessions) \ {old, rm.next}) \cup (IF queued THEN {s} ELSE {})
      BY <1>1, <1>3, <1>6, <1>7, AppendKeepsOthers
    <2>2. ASSUME NEW t \in Range(m_QueuedSessions')
          PROVE  session'[t].life = "live" /\ session'[t].inQueue
      <3>1. CASE queued /\ t = s
        BY <1>12, <3>1
      <3>2. CASE t \in Range(m_QueuedSessions) \ {old, rm.next}
        <4>1. t \in Sessions \ {s, old} /\ t # rm.next
          BY <1>7, <3>2
        <4>2. session[t].life = "live" /\ session[t].inQueue
          BY <3>2 DEF IInv, Links, QueueLinked
        <4> QED BY <1>10, <4>1, <4>2 DEF Survivors
      <3> QED BY <2>1, <3>1, <3>2
    <2>3. \A t \in Sessions : Open(t)' /\ session'[t].inQueue => t \in Range(m_QueuedSessions')
      BY <1>10, <1>11, <1>12, <2>1 DEF IInv, Links, QueueLinked, Survivors, Open
    <2> QED BY <2>1, <2>2, <2>3 DEF QueueLinked
  <1>16. PlayersOfLive'
    BY <1>10, <1>11, <1>12 DEF IInv, Links, PlayersOfLive, Survivors
  <1>17. /\ delayQueue' \in Seq(Request)
         /\ inWorld' \in [Accounts -> Nat]
         /\ lastSave' \in [Accounts -> 0..MaxProgress]
         /\ \A t \in Sessions \ {old} :
               session[t].player # NULL => inWorld'[session[t].account] >= 1
    BY <1>1, <1>4, LogoutKeepsOthers
  <1>18. PlayersCounted'
    BY <1>10, <1>11, <1>12, <1>17 DEF PlayersCounted, Survivors
  <1>19. TypeOK'
    <2>1. m_sessions' \in [Accounts -> Sessions \cup {NULL}]
      BY <1>1, <1>3 DEF IInv, TypeOK
    <2> QED BY <1>1, <1>3, <1>10, <1>15, <1>17, <2>1 DEF IInv, TypeOK
  <1> QED BY <1>13, <1>14, <1>15, <1>16, <1>18, <1>19 DEF IInv, Links

\* AddSession_ adds the newcomer beside the others, to wait or to play.
LEMMA NewcomerKeepsInvariant ==
    ASSUME IInv, AddSession_New
    PROVE  IInv'
  <1> DEFINE s == Head(addSessQueue)
             a == session[s].account
             queued == MustQueue(s, Cardinality(Mapped))
  <1>1. /\ addSessQueue # <<>> /\ m_sessions[a] = NULL
        /\ m_sessions' = [m_sessions EXCEPT ![a] = s]
        /\ session' = [session EXCEPT ![s].life = "live", ![s].inQueue = queued]
        /\ m_QueuedSessions' = IF queued THEN Append(m_QueuedSessions, s) ELSE m_QueuedSessions
        /\ addSessQueue' = Tail(addSessQueue)
        /\ UNCHANGED <<m_playerLimit, phase, toUpdate, updating, delayQueue, resultQueue,
                       stored, inWorld, lastSave>>
    BY DEF AddSession_New, FindSession, worldVars, dbVars, charVars
  <1>2. queued \in BOOLEAN
    BY DEF MustQueue
  <1> HIDE DEF queued
  <1>3. /\ s \in Sessions /\ session[s].life = "added" /\ a \in Accounts
        /\ Tail(addSessQueue) \in Seq(Sessions) /\ IsInjective(Tail(addSessQueue))
        /\ Range(Tail(addSessQueue)) = Range(addSessQueue) \ {s}
        /\ Range(addSessQueue) \subseteq Sessions
    BY <1>1, HeadIsAdded DEF IInv
  <1> HIDE DEF s
  <1>4. /\ Range(m_QueuedSessions) \subseteq Sessions
        /\ s \notin Range(m_QueuedSessions) /\ s # NULL
    <2>1. Range(m_QueuedSessions) \subseteq Sessions
      BY RangeOfSeq DEF IInv, TypeOK, Range
    <2> QED BY <1>3, <2>1, ConstantsAssumption DEF IInv, Links, QueueLinked
  <1>5. \A t \in Sessions : session[t] \in SessionRec
    BY DEF IInv, TypeOK
  <1>6. session' = [session EXCEPT ![s] = [session[s] EXCEPT !.life = "live", !.inQueue = queued]]
    BY <1>1, <1>3 DEF IInv, TypeOK
  <1>7. /\ session' \in [Sessions -> SessionRec]
        /\ Survivors({s}, NULL)
        /\ session'[s].life = "live" /\ session'[s].account = a
        /\ session'[s].inQueue = queued /\ session'[s].player = NULL
    <2>1. [session[s] EXCEPT !.life = "live", !.inQueue = queued] \in SessionRec
      BY <1>2, <1>3, <1>5 DEF SessionRec
    <2>2. session[s].player = NULL
      BY <1>3 DEF IInv, Links, PlayersOfLive
    <2>3. Survivors({s}, NULL)
      BY <1>5, <1>6, ConstantsAssumption DEF Survivors, SessionRec, IInv, TypeOK
    <2>4. session'[s] = [session[s] EXCEPT !.life = "live", !.inQueue = queued]
      BY <1>3, <1>6 DEF IInv, TypeOK
    <2>5. session' \in [Sessions -> SessionRec]
      BY <1>6, <2>1 DEF IInv, TypeOK
    <2> QED BY <1>3, <1>5, <2>2, <2>3, <2>4, <2>5 DEF SessionRec
  <1>8. SessionsLinked'
    <2>1. ASSUME NEW b \in Accounts, m_sessions'[b] # NULL
          PROVE  session'[m_sessions'[b]].life = "live" /\ session'[m_sessions'[b]].account = b
      <3>1. CASE b = a
        BY <1>1, <1>3, <1>7, <3>1 DEF IInv, TypeOK
      <3>2. CASE b # a
        <4>1. m_sessions'[b] = m_sessions[b]
          BY <1>1, <3>2 DEF IInv, TypeOK
        <4>2. /\ m_sessions[b] \in Sessions \ {s}
              /\ session[m_sessions[b]].life = "live" /\ session[m_sessions[b]].account = b
          BY <1>3, <2>1, <4>1 DEF IInv, TypeOK, Links, SessionsLinked
        <4> QED BY <1>7, <4>1, <4>2 DEF Survivors
      <3> QED BY <3>1, <3>2
    <2>2. ASSUME NEW t \in Sessions, session'[t].life = "live"
          PROVE  session'[t].account \in Accounts /\ m_sessions'[session'[t].account] = t
      <3>1. CASE t = s
        BY <1>1, <1>3, <1>7, <3>1 DEF IInv, TypeOK
      <3>2. CASE t # s
        <4>1. session[t].life = "live" /\ session'[t].account = session[t].account
          BY <1>7, <2>2, <3>2 DEF Survivors
        <4>2. session[t].account \in Accounts /\ m_sessions[session[t].account] = t
          BY <4>1 DEF IInv, Links, SessionsLinked
        <4>3. t # NULL
          BY ConstantsAssumption
        <4> QED BY <1>1, <4>1, <4>2, <4>3 DEF IInv, TypeOK
      <3> QED BY <3>1, <3>2
    <2> QED BY <2>1, <2>2 DEF SessionsLinked
  <1>9. HandedOverOnce'
    <2>1. /\ IsInjective(addSessQueue') /\ Range(addSessQueue') = Range(addSessQueue) \ {s}
      BY <1>1, <1>3
    <2>2. \A t \in Range(addSessQueue') : t \in Sessions \ {s} /\ session[t].life = "added"
      BY <1>3, <2>1 DEF IInv, Links, HandedOverOnce
    <2> QED BY <1>7, <2>1, <2>2 DEF IInv, Links, HandedOverOnce, Survivors
  <1>10. m_QueuedSessions' \in Seq(Sessions) /\ QueueLinked'
    <2>1. /\ m_QueuedSessions' \in Seq(Sessions)
          /\ IsInjective(m_QueuedSessions')
          /\ Range(m_QueuedSessions') = Range(m_QueuedSessions) \cup (IF queued THEN {s} ELSE {})
      <3>1. m_QueuedSessions \in Seq(Sessions) /\ IsInjective(m_QueuedSessions)
        BY DEF IInv, TypeOK, Links, QueueLinked
      <3> QED BY <1>1, <1>3, <1>4, <3>1, AppendKeepsOthers
    <2>2. ASSUME NEW t \in Range(m_QueuedSessions')
          PROVE  session'[t].life = "live" /\ session'[t].inQueue
      <3>1. CASE queued /\ t = s
        BY <1>7, <3>1
      <3>2. CASE t \in Range(m_QueuedSessions)
        <4>1. t \in Sessions \ {s} /\ t # NULL
          BY <1>4, <3>2, ConstantsAssumption
        <4>2. session[t].life = "live" /\ session[t].inQueue
          BY <3>2 DEF IInv, Links, QueueLinked
        <4> QED BY <1>7, <4>1, <4>2 DEF Survivors
      <3> QED BY <2>1, <3>1, <3>2
    <2>3. \A t \in Sessions : Open(t)' /\ session'[t].inQueue => t \in Range(m_QueuedSessions')
      BY <1>7, <2>1 DEF IInv, Links, QueueLinked, Survivors, Open
    <2> QED BY <2>1, <2>2, <2>3 DEF QueueLinked
  <1>11. PlayersOfLive'
    BY <1>7 DEF IInv, Links, PlayersOfLive, Survivors
  <1>12. PlayersCounted'
    BY <1>1, <1>7 DEF IInv, PlayersCounted, Survivors
  <1>13. TypeOK'
    <2>1. m_sessions' \in [Accounts -> Sessions \cup {NULL}]
      BY <1>1, <1>3 DEF IInv, TypeOK
    <2> QED BY <1>1, <1>3, <1>7, <1>10, <2>1 DEF IInv, TypeOK
  <1> QED BY <1>8, <1>9, <1>10, <1>11, <1>12, <1>13 DEF IInv, Links

\* AddSession_ turns a newcomer away: it was nowhere but in the hand-over queue.
LEMMA RefusalKeepsInvariant ==
    ASSUME IInv, AddSession_Refused
    PROVE  IInv'
  <1> DEFINE s == Head(addSessQueue)
  <1>1. /\ addSessQueue # <<>>
        /\ session' = [session EXCEPT ![s] = Deleted(s)]
        /\ addSessQueue' = Tail(addSessQueue)
        /\ UNCHANGED <<m_sessions, m_QueuedSessions, m_playerLimit, phase, toUpdate, updating,
                       delayQueue, resultQueue, stored, inWorld, lastSave>>
    BY DEF AddSession_Refused, worldVars, dbVars, charVars
  <1>2. /\ s \in Sessions /\ session[s].life = "added"
        /\ Tail(addSessQueue) \in Seq(Sessions) /\ IsInjective(Tail(addSessQueue))
        /\ Range(Tail(addSessQueue)) = Range(addSessQueue) \ {s}
        /\ Range(addSessQueue) \subseteq Sessions
    BY <1>1, HeadIsAdded DEF IInv
  <1> HIDE DEF s
  <1>3. Range(m_QueuedSessions) \subseteq Sessions /\ s \notin Range(m_QueuedSessions)
    <2>1. Range(m_QueuedSessions) \subseteq Sessions
      BY RangeOfSeq DEF IInv, TypeOK, Range
    <2> QED BY <1>2, <2>1 DEF IInv, Links, QueueLinked
  <1>4. /\ session' \in [Sessions -> SessionRec]
        /\ \A t \in Sessions \ {s} : session'[t] = session[t]
        /\ session'[s].life = "deleted" /\ session'[s].player = NULL /\ ~session'[s].loading
    BY <1>1, <1>2, DeletedType DEF IInv, TypeOK
  <1>5. SessionsLinked'
    BY <1>1, <1>2, <1>4 DEF IInv, TypeOK, Links, SessionsLinked
  <1>6. HandedOverOnce'
    <2>1. /\ IsInjective(addSessQueue') /\ Range(addSessQueue') = Range(addSessQueue) \ {s}
      BY <1>1, <1>2
    <2> QED BY <1>2, <1>4, <2>1 DEF IInv, Links, HandedOverOnce
  <1>7. QueueLinked'
    BY <1>1, <1>3, <1>4 DEF IInv, Links, QueueLinked, Open
  <1>8. PlayersOfLive' /\ PlayersCounted'
    BY <1>1, <1>4 DEF IInv, Links, PlayersOfLive, PlayersCounted
  <1>9. TypeOK'
    BY <1>1, <1>2, <1>4 DEF IInv, TypeOK
  <1> QED BY <1>5, <1>6, <1>7, <1>8, <1>9 DEF IInv, Links

\* A new session is handed over; it is in nobody's hands yet.
LEMMA HandOverKeepsInvariant ==
    ASSUME IInv, NEW s \in Sessions, NEW a \in Accounts, HandleAuthSession(s, a)
    PROVE  IInv'
  <1> DEFINE r == [session[s] EXCEPT !.life = "added", !.account = a, !.sock = "open"]
  <1>1. /\ session[s].life = "new"
        /\ addSessQueue' = Append(addSessQueue, s)
        /\ UNCHANGED <<m_sessions, m_QueuedSessions, m_playerLimit, phase, toUpdate, updating,
                       delayQueue, resultQueue, stored, inWorld, lastSave>>
    BY DEF HandleAuthSession, worldVars, dbVars, charVars
  <1>2. session' = [session EXCEPT ![s] = r]
    BY DEF HandleAuthSession, IInv, TypeOK
  <1>3. /\ r \in SessionRec /\ r.life = "added" /\ r.account = a
        /\ r.player = NULL /\ ~r.loading
    <2>1. session[s] \in SessionRec /\ session[s].player = NULL /\ ~session[s].loading
      BY <1>1 DEF IInv, TypeOK, Links, PlayersOfLive
    <2> QED BY <2>1 DEF SessionRec
  <1> HIDE DEF r
  <1>4. /\ session' \in [Sessions -> SessionRec] /\ session'[s] = r
        /\ \A t \in Sessions \ {s} : session'[t] = session[t]
    BY <1>2, <1>3 DEF IInv, TypeOK
  <1>5. /\ Range(m_QueuedSessions) \subseteq Sessions /\ s \notin Range(m_QueuedSessions)
        /\ Range(addSessQueue) \subseteq Sessions /\ s \notin Range(addSessQueue)
    <2>1. Range(m_QueuedSessions) \subseteq Sessions /\ Range(addSessQueue) \subseteq Sessions
      BY RangeOfSeq DEF IInv, TypeOK, Range
    <2> QED BY <1>1, <2>1 DEF IInv, Links, QueueLinked, HandedOverOnce
  <1>6. SessionsLinked'
    <2>1. \A b \in Accounts : m_sessions[b] # NULL => m_sessions[b] \in Sessions \ {s}
      BY <1>1 DEF IInv, TypeOK, Links, SessionsLinked
    <2> QED BY <1>1, <1>3, <1>4, <2>1 DEF IInv, Links, SessionsLinked
  <1>7. addSessQueue' \in Seq(Sessions) /\ HandedOverOnce'
    <2>1. addSessQueue \in Seq(Sessions) /\ IsInjective(addSessQueue)
      BY DEF IInv, TypeOK, Links, HandedOverOnce
    <2>2. /\ addSessQueue' \in Seq(Sessions) /\ IsInjective(addSessQueue')
          /\ Range(addSessQueue') = Range(addSessQueue) \cup {s}
      BY <1>1, <1>5, <2>1, AppendKeepsOthers
    <2> QED BY <1>3, <1>4, <1>5, <2>2 DEF IInv, Links, HandedOverOnce
  <1>8. QueueLinked'
    BY <1>1, <1>3, <1>4, <1>5 DEF IInv, Links, QueueLinked, Open
  <1>9. PlayersOfLive' /\ PlayersCounted'
    BY <1>1, <1>3, <1>4 DEF IInv, Links, PlayersOfLive, PlayersCounted
  <1>10. TypeOK'
    BY <1>1, <1>4, <1>7 DEF IInv, TypeOK
  <1> QED BY <1>6, <1>7, <1>8, <1>9, <1>10 DEF IInv, Links

\* KickAll empties the queue: nobody it leaves waiting is still connected.
LEMMA KickAllKeepsInvariant ==
    ASSUME IInv, KickAll
    PROVE  IInv'
  <1>1. /\ m_QueuedSessions' = <<>>
        /\ session' = [s \in Sessions |-> IF session[s].life = "live"
                                          THEN Kicked(session[s]) ELSE session[s]]
        /\ UNCHANGED <<addSessQueue, m_sessions, m_playerLimit, phase, toUpdate, updating,
                       delayQueue, resultQueue, stored, inWorld, lastSave>>
    BY DEF KickAll, worldVars, dbVars, charVars
  <1>2. session' \in [Sessions -> SessionRec]
    BY <1>1, RecordTypes DEF IInv, TypeOK
  <1>3. \A s \in Sessions :
          /\ session'[s].life = session[s].life /\ session'[s].account = session[s].account
          /\ session'[s].loading = session[s].loading /\ session'[s].player = session[s].player
          /\ session'[s].life = "live" => session'[s].sock # "open"
    BY <1>1, RecordTypes DEF IInv, TypeOK
  <1>4. /\ Range(addSessQueue) \subseteq Sessions
        /\ \A a \in Accounts : m_sessions[a] # NULL => m_sessions[a] \in Sessions
    BY RangeOfSeq DEF IInv, TypeOK, Range
  <1>5. SessionsLinked'
    BY <1>1, <1>3, <1>4 DEF IInv, Links, SessionsLinked
  <1>6. HandedOverOnce'
    BY <1>1, <1>3, <1>4 DEF IInv, Links, HandedOverOnce
  <1>7. QueueLinked'
    BY <1>1, <1>3 DEF QueueLinked, Open, IsInjective, Range
  <1>8. PlayersOfLive' /\ PlayersCounted'
    BY <1>1, <1>3 DEF IInv, Links, PlayersOfLive, PlayersCounted
  <1>9. TypeOK'
    BY <1>1, <1>2 DEF IInv, TypeOK
  <1> QED BY <1>5, <1>6, <1>7, <1>8, <1>9 DEF IInv, Links

\* A step of one session in place, when it brings no player into the world.
LEMMA InPlaceKeepsInvariant ==
    ASSUME IInv, NEW s \in Sessions, NEW r, InPlace(r, s),
           r.player # NULL => session[s].player # NULL,
           session' = [session EXCEPT ![s] = r],
           UNCHANGED <<addSessQueue, m_sessions, m_QueuedSessions, m_playerLimit, phase,
                       toUpdate, stored, inWorld, lastSave>>,
           updating' \in Accounts \cup {NULL},
           delayQueue' \in Seq(Request), resultQueue' \in Seq(Result)
    PROVE  IInv'
  <1>1. Links' /\ session' \in [Sessions -> SessionRec]
    BY InPlaceKeepsLinks DEF IInv
  <1>2. TypeOK'
    BY <1>1 DEF IInv, TypeOK
  <1>3. PlayersCounted'
    BY DEF IInv, TypeOK, PlayersCounted, InPlace
  <1> QED BY <1>1, <1>2, <1>3 DEF IInv

\* A logout of session s, in which r takes its place.
LEMMA LogoutKeepsInvariant ==
    ASSUME IInv, NEW s \in Sessions, NEW r, InPlace(r, s), r.player = NULL,
           session[s].life = "live", LogoutPlayer(s),
           session' = [session EXCEPT ![s] = r],
           UNCHANGED <<addSessQueue, m_sessions, m_QueuedSessions, m_playerLimit, phase,
                       toUpdate, resultQueue, stored>>,
           updating' \in Accounts \cup {NULL}
    PROVE  IInv'
  <1>1. Links' /\ session' \in [Sessions -> SessionRec]
    BY InPlaceKeepsLinks DEF IInv
  <1>2. /\ delayQueue' \in Seq(Request)
        /\ inWorld' \in [Accounts -> Nat]
        /\ lastSave' \in [Accounts -> 0..MaxProgress]
        /\ \A t \in Sessions \ {s} :
              session[t].player # NULL => inWorld'[session[t].account] >= 1
    BY LogoutKeepsOthers
  <1>3. TypeOK'
    BY <1>1, <1>2 DEF IInv, TypeOK
  <1>4. PlayersCounted'
    BY <1>2 DEF IInv, TypeOK, PlayersCounted, InPlace
  <1> QED BY <1>1, <1>3, <1>4 DEF IInv

\* A step that touches no session.
LEMMA ElsewhereKeepsInvariant ==
    ASSUME IInv, TypeOK',
           UNCHANGED <<addSessQueue, m_sessions, m_QueuedSessions, session, inWorld>>
    PROVE  IInv'
  BY DEF IInv, Links, SessionsLinked, HandedOverOnce, QueueLinked, PlayersOfLive,
         PlayersCounted, Open

(***************************************************************************)
(* The steps, thread by thread.                                            *)
(***************************************************************************)
LEMMA NetworkStepKeepsInvariant ==
    ASSUME IInv, NetworkStep
    PROVE  IInv'
  <1>1. PICK s \in Sessions : \/ \E a \in Accounts : HandleAuthSession(s, a)
                              \/ \E p \in Packets : QueuePacket(s, p)
                              \/ handle_close(s)
    BY DEF NetworkStep
  <1>2. /\ session[s] \in SessionRec /\ updating \in Accounts \cup {NULL}
        /\ delayQueue \in Seq(Request) /\ resultQueue \in Seq(Result)
        /\ session[s].life # "live" => ~session[s].loading /\ session[s].player = NULL
    BY DEF IInv, TypeOK, Links, PlayersOfLive
  <1>3. CASE \E a \in Accounts : HandleAuthSession(s, a)
    BY <1>3, HandOverKeepsInvariant
  <1>4. ASSUME NEW p \in Packets, QueuePacket(s, p)
        PROVE  IInv'
    <2> DEFINE r(scr) == [session[s] EXCEPT !.recv = Append(session[s].recv, p), !.screen = scr]
    <2>1. PICK scr \in {"start", "asked", "list", "clicked", "world"} :
             session' = [session EXCEPT ![s] = r(scr)]
      <3>1. session[s].screen \in {"start", "asked", "list", "clicked", "world"}
        BY <1>2 DEF SessionRec
      <3>2. CASE session' = [session EXCEPT ![s].recv = Append(@, p), ![s].screen = "asked"]
        BY <3>2 DEF IInv, TypeOK
      <3>3. CASE session' = [session EXCEPT ![s].recv = Append(@, p), ![s].screen = "clicked"]
        BY <3>3 DEF IInv, TypeOK
      <3>4. CASE session' = [session EXCEPT ![s].recv = Append(@, p)]
        <4>1. r(session[s].screen) = [session[s] EXCEPT !.recv = Append(session[s].recv, p)]
          BY <1>2 DEF SessionRec
        <4>2. session' = [session EXCEPT ![s] = r(session[s].screen)]
          BY <3>4, <4>1 DEF IInv, TypeOK
        <4> QED BY <3>1, <4>2
      <3> QED BY <1>4, <3>2, <3>3, <3>4 DEF QueuePacket
    <2>2. Append(session[s].recv, p) \in Seq(Packets)
      BY <1>2, AppendProperties DEF SessionRec
    <2>3. InPlace(r(scr), s) /\ r(scr).player = session[s].player
      BY <1>2, <2>2 DEF InPlace, SessionRec
    <2> HIDE DEF r
    <2> QED BY <1>2, <1>4, <2>1, <2>3, InPlaceKeepsInvariant
            DEF QueuePacket, worldVars, dbVars, charVars
  <1>5. CASE handle_close(s)
    <2> DEFINE r == [session[s] EXCEPT !.sock = "closed"]
    <2>1. session' = [session EXCEPT ![s] = r]
      BY <1>5 DEF handle_close, IInv, TypeOK
    <2>2. InPlace(r, s) /\ r.player = session[s].player
      BY <1>2 DEF InPlace, SessionRec
    <2> HIDE DEF r
    <2> QED BY <1>2, <1>5, <2>1, <2>2, InPlaceKeepsInvariant
            DEF handle_close, worldVars, dbVars, charVars
  <1> QED BY <1>1, <1>3, <1>4, <1>5

LEMMA ProcessRequestKeepsInvariant ==
    ASSUME IInv, ProcessRequest
    PROVE  IInv'
  <1> DEFINE r == Head(delayQueue)
  <1>1. /\ delayQueue # <<>> /\ delayQueue' = Tail(delayQueue)
        /\ UNCHANGED <<addSessQueue, m_sessions, m_QueuedSessions, session, m_playerLimit,
                       phase, toUpdate, updating, inWorld, lastSave>>
    BY DEF ProcessRequest, worldVars, charVars
  <1>2. r \in Request /\ Tail(delayQueue) \in Seq(Request)
    BY <1>1, HeadTailProperties DEF IInv, TypeOK
  <1> HIDE DEF r
  <1>3. stored' \in [Accounts -> 0..MaxProgress] /\ resultQueue' \in Seq(Result)
    <2>1. CASE r.op = "save" /\ stored' = [stored EXCEPT ![r.account] = r.state]
               /\ UNCHANGED resultQueue
      <3>1. r.account \in Accounts /\ r.state \in 0..MaxProgress
        BY <1>2, <2>1 DEF Request
      <3> QED BY <2>1, <3>1 DEF IInv, TypeOK
    <2>2. CASE /\ r.op \in {"enum", "login"}
               /\ resultQueue' = Append(resultQueue,
                     [op |-> r.op, account |-> r.account, state |-> stored[r.account]])
               /\ UNCHANGED stored
      <3>1. r.account \in Accounts /\ stored[r.account] \in 0..MaxProgress
        BY <1>2, <2>2 DEF Request, IInv, TypeOK
      <3>2. [op |-> r.op, account |-> r.account, state |-> stored[r.account]] \in Result
        BY <2>2, <3>1 DEF Result
      <3> QED BY <2>2, <3>2, AppendProperties DEF IInv, TypeOK
    <2> QED BY <2>1, <2>2 DEF ProcessRequest, r
  <1>4. TypeOK'
    BY <1>1, <1>2, <1>3 DEF IInv, TypeOK
  <1> QED BY <1>1, <1>4, ElsewhereKeepsInvariant

LEMMA UpdateStepKeepsInvariant ==
    ASSUME IInv, NEW s \in Sessions, UpdateStep(s)
    PROVE  IInv'
  <1>1. /\ session[s] \in SessionRec /\ updating \in Accounts \cup {NULL}
        /\ delayQueue \in Seq(Request) /\ resultQueue \in Seq(Result)
    BY DEF IInv, TypeOK
  <1>2. HasPacket(s) /\ updating \in Accounts /\ FindSession(updating) = s
    BY DEF UpdateStep, DropWhileQueued, HandleCharEnumOpcode, HandlePlayerLoginOpcode,
           SkipNotLoggedIn, HandleLogoutRequestOpcode, HandleLogoutCancelOpcode, Handling,
           IInv, TypeOK
  <1>3. session[s].life = "live" /\ session[s].account \in Accounts
    BY <1>2, ConstantsAssumption, MappedIsLive DEF IInv
  <1>4. /\ Taken(s) \in SessionRec
        /\ Taken(s) = [session[s] EXCEPT !.recv = Tail(session[s].recv)]
    BY <1>2, TakenType DEF IInv
  <1>5. /\ Taken(s).life = "live" /\ Taken(s).account = session[s].account
        /\ Taken(s).inQueue = session[s].inQueue /\ Taken(s).sock = session[s].sock
        /\ Taken(s).player = session[s].player
    BY <1>1, <1>3, <1>4 DEF SessionRec
  <1>6. CASE DropWhileQueued(s)
    <2> DEFINE r == [Taken(s) EXCEPT !.screen = "start"]
    <2>1. InPlace(r, s) /\ r.player = session[s].player
      BY <1>3, <1>4, <1>5 DEF InPlace, SessionRec
    <2>2. session' = [session EXCEPT ![s] = r]
      BY <1>6 DEF DropWhileQueued
    <2> HIDE DEF r
    <2> QED BY <1>1, <1>6, <2>1, <2>2, InPlaceKeepsInvariant
            DEF DropWhileQueued, worldVars, dbVars, charVars
  <1>7. InPlace(Taken(s), s)
    BY <1>3, <1>4, <1>5 DEF InPlace
  <1>8. CASE HandleCharEnumOpcode(s)
    <2>1. delayQueue' \in Seq(Request)
      <3>1. [op |-> "enum", account |-> session[s].account] \in Request
        BY <1>3 DEF Request
      <3> QED BY <1>1, <1>8, <3>1, AppendProperties DEF HandleCharEnumOpcode
    <2> QED BY <1>1, <1>5, <1>7, <1>8, <2>1, InPlaceKeepsInvariant
            DEF HandleCharEnumOpcode, worldVars, charVars
  <1>9. CASE HandlePlayerLoginOpcode(s)
    <2> DEFINE r == [Taken(s) EXCEPT !.loading = TRUE]
    <2>1. InPlace(r, s) /\ r.player = session[s].player
      BY <1>3, <1>4, <1>5 DEF InPlace, SessionRec
    <2>2. \/ session' = [session EXCEPT ![s] = r]
             /\ delayQueue' = Append(delayQueue, [op |-> "login", account |-> session[s].account])
          \/ session' = [session EXCEPT ![s] = Taken(s)] /\ UNCHANGED delayQueue
      BY <1>9 DEF HandlePlayerLoginOpcode
    <2>3. UNCHANGED <<addSessQueue, m_sessions, m_QueuedSessions, m_playerLimit, phase,
                      toUpdate, updating, resultQueue, stored, inWorld, lastSave>>
      BY <1>9 DEF HandlePlayerLoginOpcode, worldVars, charVars
    <2> HIDE DEF r
    <2>4. delayQueue' \in Seq(Request)
      <3> DEFINE e == [op |-> "login", account |-> session[s].account]
      <3>1. e \in Request
        BY <1>3 DEF Request
      <3>2. delayQueue' = Append(delayQueue, e) \/ delayQueue' = delayQueue
        BY <2>2
      <3> HIDE DEF e
      <3> QED BY <1>1, <3>1, <3>2, AppendProperties
    <2>5. CASE session' = [session EXCEPT ![s] = r]
      BY <1>1, <2>1, <2>3, <2>4, <2>5, InPlaceKeepsInvariant
    <2>6. CASE session' = [session EXCEPT ![s] = Taken(s)]
      BY <1>1, <1>5, <1>7, <2>3, <2>4, <2>6, InPlaceKeepsInvariant
    <2> QED BY <2>2, <2>5, <2>6
  <1>10. CASE SkipNotLoggedIn(s)
    BY <1>1, <1>5, <1>7, <1>10, InPlaceKeepsInvariant
       DEF SkipNotLoggedIn, worldVars, dbVars, charVars
  <1>11. CASE HandleLogoutRequestOpcode(s)
    <2>1. UNCHANGED <<addSessQueue, m_sessions, m_QueuedSessions, m_playerLimit, phase,
                      toUpdate, updating, resultQueue, stored>>
      BY <1>11 DEF HandleLogoutRequestOpcode, worldVars
    <2>2. ASSUME NEW timed \in BOOLEAN,
                 session' = [session EXCEPT ![s] = [Taken(s) EXCEPT !.logout = timed]],
                 UNCHANGED <<delayQueue, inWorld, lastSave>>
          PROVE  IInv'
      <3> DEFINE r == [Taken(s) EXCEPT !.logout = timed]
      <3>1. InPlace(r, s) /\ r.player = session[s].player
        BY <1>3, <1>4, <1>5 DEF InPlace, SessionRec
      <3>2. session' = [session EXCEPT ![s] = r]
        BY <2>2
      <3> HIDE DEF r
      <3> QED BY <1>1, <2>1, <2>2, <3>1, <3>2, InPlaceKeepsInvariant
    <2>3. CASE session' = [session EXCEPT ![s] = LoggedOut(Taken(s))] /\ LogoutPlayer(s)
      <3>1. InPlace(LoggedOut(Taken(s)), s) /\ LoggedOut(Taken(s)).player = NULL
        BY <1>3, <1>4, <1>5, RecordTypes DEF InPlace
      <3> QED BY <1>1, <1>3, <2>1, <2>3, <3>1, LogoutKeepsInvariant
    <2> QED BY <1>11, <2>2, <2>3 DEF HandleLogoutRequestOpcode
  <1>12. CASE HandleLogoutCancelOpcode(s)
    <2> DEFINE r == [Taken(s) EXCEPT !.logout = FALSE]
    <2>1. InPlace(r, s) /\ r.player = session[s].player
      BY <1>3, <1>4, <1>5 DEF InPlace, SessionRec
    <2>2. session' = [session EXCEPT ![s] = r]
      BY <1>12 DEF HandleLogoutCancelOpcode
    <2> HIDE DEF r
    <2> QED BY <1>1, <1>12, <2>1, <2>2, InPlaceKeepsInvariant
            DEF HandleLogoutCancelOpcode, worldVars, dbVars, charVars
  <1> QED BY <1>6, <1>8, <1>9, <1>10, <1>11, <1>12 DEF UpdateStep

LEMMA UpdateEndsKeepsInvariant ==
    ASSUME IInv, NEW s \in Sessions, UpdateEnds(s)
    PROVE  IInv'
  <1>1. CASE UpdateRemovesSession(s)
    BY <1>1, RemovalKeepsInvariant
  <1>2. CASE UpdateKeepsSession(s)
    <2>1. /\ session[s] \in SessionRec /\ updating \in Accounts
          /\ delayQueue \in Seq(Request) /\ resultQueue \in Seq(Result)
          /\ session \in [Sessions -> SessionRec]
          /\ FindSession(updating) = s
      BY <1>2 DEF UpdateKeepsSession, IInv, TypeOK
    <2>2. session[s].life = "live"
      BY <2>1, ConstantsAssumption, MappedIsLive DEF IInv
    <2>3. /\ updating' = NULL
          /\ UNCHANGED <<addSessQueue, m_sessions, m_QueuedSessions, m_playerLimit, phase,
                         toUpdate, resultQueue, stored>>
      BY <1>2 DEF UpdateKeepsSession
    <2>4. CASE UNCHANGED <<session, delayQueue, inWorld, lastSave>>
      <3>1. TypeOK'
        BY <2>3, <2>4 DEF IInv, TypeOK
      <3> QED BY <2>3, <2>4, <3>1, ElsewhereKeepsInvariant
    <2>5. CASE session' = [session EXCEPT ![s] = LoggedOut(@)] /\ LogoutPlayer(s)
      <3>1. InPlace(LoggedOut(session[s]), s) /\ LoggedOut(session[s]).player = NULL
        BY <2>1, <2>2, RecordTypes DEF InPlace
      <3>2. session' = [session EXCEPT ![s] = LoggedOut(session[s])]
        BY <2>1, <2>5
      <3> QED BY <2>2, <2>3, <2>5, <3>1, <3>2, LogoutKeepsInvariant
    <2> QED BY <1>2, <2>4, <2>5 DEF UpdateKeepsSession
  <1> QED BY <1>1, <1>2 DEF UpdateEnds

LEMMA ResultStepKeepsInvariant ==
    ASSUME IInv, ResultStep
    PROVE  IInv'
  <1>1. resultQueue # <<>> /\ resultQueue' = Tail(resultQueue)
    BY DEF ResultStep, DropResult, HandleCharEnumCallback, HandlePlayerLogin,
           HandlePlayerLogin_LoadFails, Answering
  <1>2. /\ Answer \in Result /\ Tail(resultQueue) \in Seq(Result)
        /\ delayQueue \in Seq(Request) /\ updating \in Accounts \cup {NULL}
    BY <1>1, HeadTailProperties DEF Answer, IInv, TypeOK
  <1>3. Answer.account \in Accounts /\ Answer.state \in 0..MaxProgress
    BY <1>2 DEF Result
  <1>4. CASE DropResult
    <2>1. TypeOK'
      BY <1>1, <1>2, <1>4 DEF DropResult, worldVars, charVars, IInv, TypeOK
    <2> QED BY <1>4, <2>1, ElsewhereKeepsInvariant DEF DropResult, charVars
  <1>5. ASSUME NEW s \in Sessions, NEW op, Answering(s, op)
        PROVE  /\ session[s] \in SessionRec /\ session[s].life = "live"
               /\ session[s].account = Answer.account
    <2>1. FindSession(Answer.account) = s /\ s # NULL
      BY <1>5, ConstantsAssumption DEF Answering
    <2>2. session[s].life = "live" /\ session[s].account = Answer.account
      BY <1>3, <2>1, MappedIsLive DEF IInv
    <2> QED BY <2>2 DEF IInv, TypeOK
  <1>6. ASSUME NEW s \in Sessions, HandleCharEnumCallback(s)
        PROVE  IInv'
    <2>1. session[s] \in SessionRec /\ session[s].life = "live"
      BY <1>5, <1>6 DEF HandleCharEnumCallback
    <2> DEFINE scr == IF session[s].sock = "open" /\ session[s].player = NULL
                      THEN "list" ELSE session[s].screen
               r   == [session[s] EXCEPT !.screen = scr]
    <2>2. scr \in {"start", "asked", "list", "clicked", "world"}
      BY <2>1 DEF SessionRec
    <2>3. session' = [session EXCEPT ![s] = r]
      BY <1>6 DEF HandleCharEnumCallback, IInv, TypeOK
    <2> HIDE DEF scr
    <2>4. InPlace(r, s) /\ r.player = session[s].player
      BY <2>1, <2>2 DEF InPlace, SessionRec
    <2> HIDE DEF r
    <2> QED BY <1>1, <1>2, <1>6, <2>3, <2>4, InPlaceKeepsInvariant
            DEF HandleCharEnumCallback, worldVars, charVars
  <1>7. ASSUME NEW s \in Sessions, HandlePlayerLogin(s)
        PROVE  IInv'
    <2>1. /\ session[s] \in SessionRec /\ session[s].life = "live"
          /\ session[s].account = Answer.account
      BY <1>5, <1>7 DEF HandlePlayerLogin
    <2> DEFINE r == [session[s] EXCEPT !.player = Answer.state, !.loading = FALSE, !.screen = "world"]
    <2>2. /\ session' = [session EXCEPT ![s] = r]
          /\ inWorld' = [inWorld EXCEPT ![Answer.account] = @ + 1]
          /\ UNCHANGED <<addSessQueue, m_sessions, m_QueuedSessions, m_playerLimit, phase,
                         toUpdate, updating, delayQueue, stored, lastSave>>
      BY <1>7 DEF HandlePlayerLogin, worldVars
    <2>3. InPlace(r, s)
      BY <1>3, <2>1 DEF InPlace, SessionRec
    <2> HIDE DEF r
    <2>4. Links' /\ session' \in [Sessions -> SessionRec]
      BY <2>2, <2>3, InPlaceKeepsLinks DEF IInv
    <2>5. /\ inWorld' \in [Accounts -> Nat]
          /\ \A a \in Accounts : inWorld'[a] >= inWorld[a]
          /\ inWorld'[Answer.account] >= 1
      BY <1>3, <2>2 DEF IInv, TypeOK
    <2>6. TypeOK'
      BY <1>1, <1>2, <2>2, <2>4, <2>5 DEF IInv, TypeOK
    <2>7. PlayersCounted'
      <3>1. session'[s].account = Answer.account
        BY <2>1, <2>2, <2>3 DEF InPlace, IInv, TypeOK
      <3>2. ASSUME NEW t \in Sessions \ {s}, session'[t].player # NULL
            PROVE  inWorld'[session'[t].account] >= 1
        <4>1. session'[t] = session[t]
          BY <2>2 DEF IInv, TypeOK
        <4>2. session[t].account \in Accounts /\ inWorld[session[t].account] >= 1
          BY <3>2, <4>1 DEF IInv, Links, PlayersOfLive, SessionsLinked, PlayersCounted
        <4> QED BY <2>5, <4>1, <4>2 DEF IInv, TypeOK
      <3> QED BY <2>5, <3>1, <3>2 DEF PlayersCounted
    <2> QED BY <2>4, <2>6, <2>7 DEF IInv
  <1>8. ASSUME NEW s \in Sessions, HandlePlayerLogin_LoadFails(s)
        PROVE  IInv'
    <2>1. session[s] \in SessionRec /\ session[s].life = "live"
      BY <1>5, <1>8 DEF HandlePlayerLogin_LoadFails
    <2> DEFINE r == [Kicked(session[s]) EXCEPT !.loading = FALSE]
    <2>2. session' = [session EXCEPT ![s] = r]
      BY <1>8 DEF HandlePlayerLogin_LoadFails, IInv, TypeOK
    <2>3. InPlace(r, s) /\ r.player = session[s].player
      <3> DEFINE k == Kicked(session[s])
      <3>1. /\ k \in SessionRec /\ k.sock # "open" /\ k.life = "live"
            /\ k.account = session[s].account /\ k.inQueue = session[s].inQueue
            /\ k.player = session[s].player
        BY <2>1, RecordTypes
      <3> HIDE DEF k
      <3>2. r = [k EXCEPT !.loading = FALSE]
        BY DEF k
      <3> HIDE DEF r
      <3> QED BY <2>1, <3>1, <3>2 DEF InPlace, SessionRec
    <2> HIDE DEF r
    <2> QED BY <1>1, <1>2, <1>8, <2>2, <2>3, InPlaceKeepsInvariant
            DEF HandlePlayerLogin_LoadFails, worldVars, charVars
  <1> QED BY <1>4, <1>6, <1>7, <1>8 DEF ResultStep

LEMMA WorldStepKeepsInvariant ==
    ASSUME IInv, WorldStep
    PROVE  IInv'
  <1>1. CASE AddSession_Refused \/ AddSession_New \/ AddSession_Replace
    BY <1>1, RefusalKeepsInvariant, NewcomerKeepsInvariant, ReplacementKeepsInvariant
  <1>2. CASE BeginUpdateSessions \/ EndUpdateSessions \/ EndTick \/ \E a \in Accounts : BeginUpdate(a)
    <2>1. UNCHANGED <<addSessQueue, m_sessions, m_QueuedSessions, session, m_playerLimit,
                      delayQueue, resultQueue, stored, inWorld, lastSave>>
      BY <1>2 DEF BeginUpdateSessions, EndUpdateSessions, EndTick, BeginUpdate, dbVars, charVars
    <2>2. /\ phase' \in {"add", "update", "results"}
          /\ toUpdate' \subseteq Accounts
          /\ updating' \in Accounts \cup {NULL}
      BY <1>2 DEF BeginUpdateSessions, EndUpdateSessions, EndTick, BeginUpdate, Mapped, IInv, TypeOK
    <2>3. TypeOK'
      BY <2>1, <2>2 DEF IInv, TypeOK
    <2> QED BY <2>1, <2>3, ElsewhereKeepsInvariant
  <1>3. CASE \E s \in Sessions : UpdateStep(s) \/ UpdateEnds(s)
    BY <1>3, UpdateStepKeepsInvariant, UpdateEndsKeepsInvariant
  <1>4. CASE ResultStep
    BY <1>4, ResultStepKeepsInvariant
  <1> QED BY <1>1, <1>2, <1>3, <1>4 DEF WorldStep

LEMMA CommandStepKeepsInvariant ==
    ASSUME IInv, CommandStep
    PROVE  IInv'
  <1>1. /\ updating \in Accounts \cup {NULL}
        /\ delayQueue \in Seq(Request) /\ resultQueue \in Seq(Result)
        /\ \A s \in Sessions : /\ session[s] \in SessionRec
                               /\ session[s].player # NULL => session[s].life = "live"
    BY DEF IInv, TypeOK, Links, PlayersOfLive
  <1>2. ASSUME NEW s \in Sessions, PlayCharacter(s)
        PROVE  IInv'
    <2> DEFINE r == [session[s] EXCEPT !.player = session[s].player + 1]
    <2>1. session[s].player \in 0..MaxProgress /\ session[s].player + 1 \in 0..MaxProgress
      BY <1>1, <1>2, ConstantsAssumption DEF PlayCharacter, SessionRec
    <2>2. session' = [session EXCEPT ![s] = r]
      BY <1>2 DEF PlayCharacter, IInv, TypeOK
    <2>3. InPlace(r, s)
      BY <1>1, <1>2, <2>1 DEF InPlace, SessionRec, PlayCharacter
    <2>4. session[s].player # NULL
      BY <1>2 DEF PlayCharacter
    <2> HIDE DEF r
    <2> QED BY <1>1, <1>2, <2>2, <2>3, <2>4, InPlaceKeepsInvariant
            DEF PlayCharacter, worldVars, dbVars, charVars
  <1>3. ASSUME NEW s \in Sessions, KickPlayer(s)
        PROVE  IInv'
    <2>1. session' = [session EXCEPT ![s] = Kicked(session[s])]
      BY <1>3 DEF KickPlayer, IInv, TypeOK
    <2>2. InPlace(Kicked(session[s]), s) /\ Kicked(session[s]).player = session[s].player
      BY <1>1, <1>3, RecordTypes DEF InPlace, KickPlayer
    <2> QED BY <1>1, <1>3, <2>1, <2>2, InPlaceKeepsInvariant
            DEF KickPlayer, worldVars, dbVars, charVars
  <1>4. ASSUME NEW l \in Limits, SetPlayerLimit(l)
        PROVE  IInv'
    <2>1. TypeOK'
      BY <1>4 DEF SetPlayerLimit, dbVars, charVars, IInv, TypeOK
    <2> QED BY <1>4, <2>1, ElsewhereKeepsInvariant DEF SetPlayerLimit, charVars
  <1> QED BY <1>2, <1>3, <1>4, KickAllKeepsInvariant DEF CommandStep

(***************************************************************************)
(* The theorems.                                                           *)
(***************************************************************************)
LEMMA InitEstablishesInvariant ==
    ASSUME Init
    PROVE  IInv
  <1>1. TypeOK
    <2>1. NewSession \in SessionRec
      BY DEF NewSession, SessionRec
    <2>2. session \in [Sessions -> SessionRec]
      BY <2>1 DEF Init
    <2> QED BY <2>2, ConstantsAssumption DEF Init, TypeOK
  <1>2. \A s \in Sessions : session[s].life = "new" /\ session[s].player = NULL /\ ~session[s].loading
    BY DEF Init, NewSession
  <1>3. SessionsLinked /\ PlayersOfLive /\ PlayersCounted
    BY <1>2 DEF Init, SessionsLinked, PlayersOfLive, PlayersCounted
  <1>4. HandedOverOnce
    BY <1>2 DEF Init, HandedOverOnce, IsInjective, Range
  <1>5. QueueLinked
    BY <1>2 DEF Init, QueueLinked, Open, IsInjective, Range
  <1> QED BY <1>1, <1>3, <1>4, <1>5 DEF IInv, Links

\* The invariant holds whatever the threads do: every step of the network, the
\* database and the world thread, and every command, keeps it.
THEOREM InvariantHolds == Spec => []IInv
  <1>1. Init => IInv
    BY InitEstablishesInvariant
  <1>2. IInv /\ [Next]_vars => IInv'
    <2>1. ASSUME IInv, Next PROVE IInv'
      BY <2>1, NetworkStepKeepsInvariant, ProcessRequestKeepsInvariant,
         WorldStepKeepsInvariant, CommandStepKeepsInvariant DEF Next
    <2>2. ASSUME IInv, UNCHANGED vars PROVE IInv'
      <3>1. TypeOK'
        BY <2>2 DEF vars, worldVars, dbVars, charVars, IInv, TypeOK
      <3> QED BY <2>2, <3>1, ElsewhereKeepsInvariant DEF vars, charVars
    <2> QED BY <2>1, <2>2
  <1> QED BY <1>1, <1>2, PTL DEF Spec

\* Type correctness; in particular inWorld, decremented by every logout, never
\* goes below zero.
THEOREM TypeCorrect == Spec => []TypeOK
  <1>1. IInv => TypeOK
    BY DEF IInv
  <1> QED BY <1>1, InvariantHolds, PTL

\* Whatever UpdateSessions and AddSession_ delete, nothing still refers to it.
THEOREM NothingDangles == Spec => []NoDanglingSession
  <1>1. IInv => NoDanglingSession
    BY LinksImplyProperties DEF IInv
  <1> QED BY <1>1, InvariantHolds, PTL

\* m_inQueue and m_QueuedSessions stay together through kicks, replacements
\* and admissions in any order.
THEOREM QueueAgrees == Spec => []QueueMatchesFlags
  <1>1. IInv => QueueMatchesFlags
    BY LinksImplyProperties DEF IInv
  <1> QED BY <1>1, InvariantHolds, PTL

(***************************************************************************)
(* Who deletes a session.                                                  *)
(***************************************************************************)
\* What the session map and the login queue see of a session.
SameStanding(new, old) ==
    /\ new.life = old.life /\ new.inQueue = old.inQueue /\ new.account = old.account
    /\ new.sock = "open" => old.sock = "open"

\* No character begins to load, and none enters the world.
Calm(new, old) ==
    /\ new.loading => old.loading /\ new.account = old.account
    /\ old.player = NULL => new.player = NULL

\* The steps that update sessions in place leave each its standing, and but for two
\* they are calm.
LEMMA InPlaceStepsKeepStanding ==
    ASSUME TypeOK, NEW s \in Sessions, NEW t \in Sessions,
           \/ \E p \in Packets : QueuePacket(s, p)
           \/ handle_close(s) \/ UpdateStep(s) \/ UpdateKeepsSession(s)
           \/ HandleCharEnumCallback(s) \/ HandlePlayerLogin(s)
           \/ HandlePlayerLogin_LoadFails(s) \/ PlayCharacter(s) \/ KickPlayer(s)
    PROVE  /\ SameStanding(session'[t], session[t])
           /\ \/ Calm(session'[t], session[t])
              \/ HandlePlayerLogin(s)
              \/ HandlePlayerLoginOpcode(s) /\ MayStartLogin(s)
  <1> DEFINE Calmly(new, old) == SameStanding(new, old) /\ Calm(new, old)
  <1>1. session \in [Sessions -> SessionRec] /\ session[s] \in SessionRec
    BY DEF TypeOK
  <1>2. /\ Calmly(LoggedOut(session[s]), session[s])
        /\ Calmly(Kicked(session[s]), session[s])
    BY <1>1 DEF LoggedOut, Kicked, SessionRec, SameStanding, Calm
  <1>3. ASSUME NEW r, session' = [session EXCEPT ![s] = r]
        PROVE  /\ SameStanding(r, session[s]) => SameStanding(session'[t], session[t])
               /\ Calmly(r, session[s]) => Calmly(session'[t], session[t])
    BY <1>1, <1>3 DEF SameStanding, Calm
  <1> HIDE DEF Calmly
  <1>4. CASE (\E p \in Packets : QueuePacket(s, p)) \/ handle_close(s)
    <2>1. ASSUME NEW p, NEW scr
          PROVE  /\ Calmly([session[s] EXCEPT !.recv = p, !.screen = scr], session[s])
                 /\ Calmly([session[s] EXCEPT !.recv = p], session[s])
                 /\ Calmly([session[s] EXCEPT !.sock = "closed"], session[s])
      BY <1>1 DEF SessionRec, SameStanding, Calm, Calmly
    <2>2. CASE handle_close(s)
      <3>1. session' = [session EXCEPT ![s] = [session[s] EXCEPT !.sock = "closed"]]
        BY <1>1, <2>2 DEF handle_close
      <3>2. Calmly(session'[t], session[t])
        BY <1>3, <2>1, <3>1
      <3> QED BY <3>2 DEF Calmly
    <2>3. ASSUME NEW p \in Packets, QueuePacket(s, p)
          PROVE  Calmly(session'[t], session[t])
      <3> DEFINE q == Append(session[s].recv, p)
      <3>1. \/ session' = [session EXCEPT ![s] = [session[s] EXCEPT !.recv = q, !.screen = "asked"]]
            \/ session' = [session EXCEPT ![s] = [session[s] EXCEPT !.recv = q, !.screen = "clicked"]]
            \/ session' = [session EXCEPT ![s] = [session[s] EXCEPT !.recv = q]]
        BY <1>1, <2>3 DEF QueuePacket
      <3> HIDE DEF q
      <3>2. /\ Calmly([session[s] EXCEPT !.recv = q, !.screen = "asked"], session[s])
            /\ Calmly([session[s] EXCEPT !.recv = q, !.screen = "clicked"], session[s])
            /\ Calmly([session[s] EXCEPT !.recv = q], session[s])
        BY <2>1
      <3> QED BY <1>3, <3>1, <3>2
    <2> QED BY <1>4, <2>2, <2>3 DEF Calmly
  <1>5. CASE UpdateStep(s)
    <2>1. HasPacket(s)
      BY <1>5 DEF UpdateStep, DropWhileQueued, HandleCharEnumOpcode, HandlePlayerLoginOpcode,
             SkipNotLoggedIn, HandleLogoutRequestOpcode, HandleLogoutCancelOpcode, Handling
    <2>2. Taken(s) \in SessionRec /\ Calmly(Taken(s), session[s])
      BY <1>1, <2>1, TakenType DEF SessionRec, SameStanding, Calm, Calmly
    <2>3. /\ Calmly([Taken(s) EXCEPT !.screen = "start"], session[s])
          /\ SameStanding([Taken(s) EXCEPT !.loading = TRUE], session[s])
          /\ \A b \in BOOLEAN : Calmly([Taken(s) EXCEPT !.logout = b], session[s])
          /\ Calmly(LoggedOut(Taken(s)), session[s])
      BY <2>2 DEF SessionRec, SameStanding, Calm, Calmly, LoggedOut
    <2>4. \/ session' = [session EXCEPT ![s] = [Taken(s) EXCEPT !.screen = "start"]]
          \/ /\ HandlePlayerLoginOpcode(s) /\ MayStartLogin(s)
             /\ session' = [session EXCEPT ![s] = [Taken(s) EXCEPT !.loading = TRUE]]
          \/ \E b \in BOOLEAN : session' = [session EXCEPT ![s] = [Taken(s) EXCEPT !.logout = b]]
          \/ session' = [session EXCEPT ![s] = LoggedOut(Taken(s))]
          \/ session' = [session EXCEPT ![s] = Taken(s)]
      BY <1>5 DEF UpdateStep, DropWhileQueued, HandleCharEnumOpcode, HandlePlayerLoginOpcode,
             SkipNotLoggedIn, HandleLogoutRequestOpcode, HandleLogoutCancelOpcode
    <2>5. \/ Calmly(session'[t], session[t])
          \/ SameStanding(session'[t], session[t]) /\ HandlePlayerLoginOpcode(s) /\ MayStartLogin(s)
      BY <1>3, <2>2, <2>3, <2>4
    <2> QED BY <2>5 DEF Calmly
  <1>6. CASE UpdateKeepsSession(s)
    <2>1. \/ session' = session
          \/ session' = [session EXCEPT ![s] = LoggedOut(session[s])]
      BY <1>1, <1>6 DEF UpdateKeepsSession
    <2>2. Calmly(session'[t], session[t])
      BY <1>2, <1>3, <2>1 DEF SameStanding, Calm, Calmly
    <2> QED BY <2>2 DEF Calmly
  <1>7. CASE HandleCharEnumCallback(s)
    <2> DEFINE scr == IF session[s].sock = "open" /\ session[s].player = NULL
                      THEN "list" ELSE session[s].screen
    <2>1. session' = [session EXCEPT ![s] = [session[s] EXCEPT !.screen = scr]]
      BY <1>1, <1>7 DEF HandleCharEnumCallback
    <2> HIDE DEF scr
    <2>2. Calmly([session[s] EXCEPT !.screen = scr], session[s])
      BY <1>1 DEF SessionRec, SameStanding, Calm, Calmly
    <2>3. Calmly(session'[t], session[t])
      BY <1>3, <2>1, <2>2
    <2> QED BY <2>3 DEF Calmly
  <1>8. CASE HandlePlayerLogin(s)
    <2> DEFINE r == [session[s] EXCEPT !.player = Answer.state, !.loading = FALSE,
                                       !.screen = "world"]
    <2>1. session' = [session EXCEPT ![s] = r]
      BY <1>8 DEF HandlePlayerLogin
    <2>2. SameStanding(r, session[s])
      BY <1>1 DEF SessionRec, SameStanding
    <2> HIDE DEF r
    <2> QED BY <1>3, <1>8, <2>1, <2>2
  <1>9. CASE HandlePlayerLogin_LoadFails(s) \/ KickPlayer(s)
    <2>1. Kicked(session[s]) \in SessionRec
      BY <1>1, RecordTypes
    <2>2. Calmly([Kicked(session[s]) EXCEPT !.loading = FALSE], session[s])
      BY <1>2, <2>1 DEF SessionRec, SameStanding, Calm, Calmly
    <2>3. \/ session' = [session EXCEPT ![s] = [Kicked(session[s]) EXCEPT !.loading = FALSE]]
          \/ session' = [session EXCEPT ![s] = Kicked(session[s])]
      BY <1>1, <1>9 DEF HandlePlayerLogin_LoadFails, KickPlayer
    <2>4. Calmly(session'[t], session[t])
      BY <1>2, <1>3, <2>2, <2>3
    <2> QED BY <2>4 DEF Calmly
  <1>10. CASE PlayCharacter(s)
    <2>1. session[s].player # NULL
      BY <1>10 DEF PlayCharacter
    <2>2. session' = [session EXCEPT ![s] = [session[s] EXCEPT !.player = session[s].player + 1]]
      BY <1>1, <1>10 DEF PlayCharacter
    <2>3. Calmly([session[s] EXCEPT !.player = session[s].player + 1], session[s])
      BY <1>1, <2>1 DEF SessionRec, SameStanding, Calm, Calmly
    <2>4. Calmly(session'[t], session[t])
      BY <1>3, <2>2, <2>3
    <2> QED BY <2>4 DEF Calmly
  <1> QED BY <1>4, <1>5, <1>6, <1>7, <1>8, <1>9, <1>10

\* A session is deleted while its character loads only when its client is gone:
\* RemoveSession lets a loading session stand, and AddSession_ refuses only
\* newcomers, which load nothing.
THEOREM LoadingIsNotInterrupted == Spec => ReplacementNeverInterruptsLoading
  <1> DEFINE Step == \A s \in Sessions :
                session[s].loading /\ session'[s].life = "deleted" => session[s].sock # "open"
  <1>1. ASSUME IInv, Next, NEW s \in Sessions, session[s].loading, session'[s].life = "deleted"
        PROVE  session[s].sock # "open"
    <2>1. session[s] \in SessionRec /\ session[s].life = "live"
      BY <1>1 DEF IInv, TypeOK, Links, PlayersOfLive
    <2>2. \A t \in Sessions : session[t] \in SessionRec
      BY <1>1 DEF IInv, TypeOK
    <2>3. CASE UNCHANGED session
      BY <1>1, <2>1, <2>3
    <2>4. ASSUME NEW t \in Sessions, NEW a \in Accounts, HandleAuthSession(t, a)
          PROVE  FALSE
      BY <1>1, <2>1, <2>4 DEF HandleAuthSession, IInv, TypeOK
    <2>5. CASE AddSession_Refused
      <3>1. Head(addSessQueue) # s
        BY <1>1, <2>1, <2>5, HeadIsAdded DEF AddSession_Refused, IInv
      <3> QED BY <1>1, <2>1, <2>5, <3>1 DEF AddSession_Refused, IInv, TypeOK
    <2>6. CASE AddSession_New
      BY <1>1, <2>1, <2>6 DEF AddSession_New, IInv, TypeOK
    <2>7. CASE AddSession_Replace
      <3> DEFINE old == FindSession(session[Head(addSessQueue)].account)
                 next == RemoveQueuedSession(old).next
      <3>1. old # s
        BY <1>1, <2>7 DEF AddSession_Replace, RemoveSession
      <3>2. Head(addSessQueue) # s
        BY <1>1, <2>1, <2>7, HeadIsAdded DEF AddSession_Replace, IInv
      <3>3. session'[s] = IF s = next THEN Admitted(session[s]) ELSE session[s]
        BY <2>7, <3>1, <3>2 DEF AddSession_Replace
      <3> HIDE DEF next
      <3> QED BY <1>1, <2>1, <3>3 DEF Admitted, SessionRec
    <2>8. ASSUME NEW t \in Sessions, UpdateRemovesSession(t)
          PROVE  session[s].sock # "open"
      <3> DEFINE next == RemoveQueuedSession(t).next
      <3>1. session[t].sock # "open"
        BY <2>8 DEF UpdateRemovesSession
      <3>2. CASE s = t
        BY <3>1, <3>2
      <3>3. CASE s # t
        <4>1. session'[s] = IF s = next THEN Admitted(session[s]) ELSE session[s]
          BY <2>8, <3>3 DEF UpdateRemovesSession
        <4> HIDE DEF next
        <4> QED BY <1>1, <2>1, <4>1 DEF Admitted, SessionRec
      <3> QED BY <3>2, <3>3
    <2>9. CASE KickAll
      <3>1. session'[s] = Kicked(session[s])
        BY <2>1, <2>9 DEF KickAll
      <3> QED BY <1>1, <2>1, <3>1, RecordTypes
    <2>10. CASE NetworkStep
      BY <1>1, <2>1, <2>4, <2>10, InPlaceStepsKeepStanding DEF SameStanding, NetworkStep, IInv
    <2>11. CASE ProcessRequest
      BY <2>3, <2>11 DEF ProcessRequest
    <2>12. CASE ResultStep
      <3>1. CASE DropResult
        BY <2>3, <3>1 DEF DropResult
      <3> QED BY <1>1, <2>1, <2>12, <3>1, InPlaceStepsKeepStanding DEF SameStanding, ResultStep, IInv
    <2>13. CASE WorldStep
      <3>1. CASE BeginUpdateSessions \/ EndUpdateSessions \/ EndTick \/ \E a \in Accounts : BeginUpdate(a)
        BY <2>3, <3>1 DEF BeginUpdateSessions, EndUpdateSessions, EndTick, BeginUpdate
      <3>2. CASE \E t \in Sessions : UpdateStep(t) \/ UpdateEnds(t)
        BY <1>1, <2>1, <2>8, <3>2, InPlaceStepsKeepStanding DEF SameStanding, UpdateEnds, IInv
      <3> QED BY <2>5, <2>6, <2>7, <2>12, <2>13, <3>1, <3>2 DEF WorldStep
    <2>14. CASE CommandStep
      <3>1. CASE \E l \in Limits : SetPlayerLimit(l)
        BY <2>3, <3>1 DEF SetPlayerLimit
      <3> QED BY <1>1, <2>1, <2>9, <2>14, <3>1, InPlaceStepsKeepStanding DEF SameStanding, CommandStep, IInv
    <2> QED BY <1>1, <2>10, <2>11, <2>13, <2>14 DEF Next
  <1>2. IInv /\ [Next]_vars => [Step]_vars
    BY <1>1
  <1>3. ReplacementNeverInterruptsLoading <=> [][Step]_vars
    BY PTL DEF ReplacementNeverInterruptsLoading
  <1> QED BY <1>2, <1>3, InvariantHolds, PTL DEF Spec

(***************************************************************************)
(* The refinement: the sessions implement LoginQueue.                      *)
(***************************************************************************)
Inside == {s \in Sessions : session[s].life = "live" /\ ~session[s].inQueue}
Before == [inside |-> Inside, waiting |-> m_QueuedSessions]

\* What a session leaves when it is taken off the map is a departure.
LEMMA LeavingIsDeparture ==
    ASSUME TypeOK, Links, NEW s \in Sessions
    PROVE  [inside |-> Inside \ {s}, waiting |-> QueueWithout(s)] \in LQ!Departures(Before)
  <1> DEFINE q == [inside |-> Inside \ {s}, waiting |-> QueueWithout(s)]
  <1>1. CASE Contains(m_QueuedSessions, s)
    <2> DEFINE i == GetQueuedSessionPos(s)
    <2>1. m_QueuedSessions \in Seq(Sessions) /\ IsInjective(m_QueuedSessions)
      BY DEF TypeOK, Links, QueueLinked
    <2>2. /\ i \in 1..Len(m_QueuedSessions) /\ m_QueuedSessions[i] = s
          /\ QueueWithout(s) = RemoveAt(m_QueuedSessions, i)
      BY <1>1, <2>1, PositionIsFound
    <2>3. s \in Range(m_QueuedSessions)
      BY <2>1, <2>2, InRange
    <2>4. Inside \ {s} = Inside
      BY <2>3 DEF Inside, Links, QueueLinked
    <2> HIDE DEF i
    <2>5. LQ!RemoveAt(m_QueuedSessions, i) = RemoveAt(m_QueuedSessions, i)
      BY DEF LQ!RemoveAt, RemoveAt
    <2> DEFINE rest == LQ!RemoveAt(m_QueuedSessions, i)
    <2>6. q = [inside |-> Inside, waiting |-> rest] /\ Before.waiting = m_QueuedSessions
      BY <2>2, <2>4, <2>5 DEF Before
    <2> HIDE DEF rest
    <2>7. [Before EXCEPT !.waiting = rest] = [inside |-> Inside, waiting |-> rest]
      BY DEF Before
    <2>8. q = [Before EXCEPT !.waiting = LQ!RemoveAt(Before.waiting, i)]
      BY <2>6, <2>7 DEF rest
    <2> QED BY <2>2, <2>6, <2>8 DEF LQ!Departures
  <1>2. CASE ~Contains(m_QueuedSessions, s)
    <2>1. QueueWithout(s) = m_QueuedSessions
      BY <1>2 DEF QueueWithout
    <2>2. CASE s \in Inside
      <3>1. q = [Before EXCEPT !.inside = @ \ {s}] /\ s \in Before.inside
        BY <2>1, <2>2 DEF Before
      <3> QED BY <3>1 DEF LQ!Departures
    <2>3. CASE s \notin Inside
      <3>1. q = Before
        BY <2>1, <2>3 DEF Before
      <3> QED BY <3>1 DEF LQ!Departures
    <2> QED BY <2>2, <2>3
  <1> QED BY <1>1, <1>2

\* What RemoveQueuedSession makes of the rest is an admission.
LEMMA PoppingIsAdmission ==
    ASSUME TypeOK, Links, NEW s \in Sessions, NEW I
    PROVE  LET rm == RemoveQueuedSession(s)
           IN  [inside |-> I \cup ({rm.next} \ {NULL}), waiting |-> rm.queue]
                  \in LQ!Admissions([inside |-> I, waiting |-> QueueWithout(s)])
  <1> DEFINE rm   == RemoveQueuedSession(s)
             rest == QueueWithout(s)
             q    == [inside |-> I, waiting |-> rest]
             r    == [inside |-> I \cup ({rm.next} \ {NULL}), waiting |-> rm.queue]
  <1>1. \/ rm.queue = rest /\ rm.next = NULL
        \/ rest # <<>> /\ rm.queue = Tail(rest) /\ rm.next = Head(rest)
    BY DEF RemoveQueuedSession
  <1>a. rest # <<>> => Head(rest) # NULL
    BY QueueWithoutTakesOne DEF Links, QueueLinked
  <1> HIDE DEF rm, rest
  <1>2. q.inside = I /\ q.waiting = rest
    OBVIOUS
  <1>3. CASE rm.queue = rest /\ rm.next = NULL
    <2>1. I \cup ({rm.next} \ {NULL}) = I
      BY <1>3
    <2>2. r = q
      BY <1>3, <2>1
    <2> QED BY <2>2 DEF LQ!Admissions, rm, rest
  <1>4. CASE rest # <<>> /\ rm.queue = Tail(rest) /\ rm.next = Head(rest)
    <2>1. {rm.next} \ {NULL} = {Head(rest)}
      BY <1>a, <1>4
    <2>2. r = [inside |-> q.inside \cup {Head(q.waiting)}, waiting |-> Tail(q.waiting)]
      BY <1>2, <1>4, <2>1
    <2>3. r \in LQ!Admissions(q)
      BY <1>2, <1>4, <2>2 DEF LQ!Admissions
    <2> QED BY <2>3 DEF rm, rest
  <1> QED BY <1>1, <1>3, <1>4

\* A session that is not live is not present to the queue.
LEMMA NewcomerIsAbsent ==
    ASSUME TypeOK, Links, NEW s \in Sessions, session[s].life # "live"
    PROVE  s \in Sessions \ LQ!Present(Before)
  <1>1. LQ!Present(Before) = Inside \cup Range(m_QueuedSessions)
    BY DEF LQ!Present, LQ!Range, Range, Before
  <1> QED BY <1>1 DEF Inside, Links, QueueLinked

\* The two ways to arrive.
LEMMA SomebodyWaits ==
    ASSUME NEW I, NEW w, NEW N, NEW s \in N
    PROVE  [inside |-> I, waiting |-> Append(w, s)]
              \in LQ!Arrivals([inside |-> I, waiting |-> w], N)
  <1> DEFINE q == [inside |-> I, waiting |-> w]
             v == Append(w, s)
  <1>1. q.waiting = w
    OBVIOUS
  <1> HIDE DEF v
  <1>2. [q EXCEPT !.waiting = v] = [inside |-> I, waiting |-> v]
    OBVIOUS
  <1> HIDE DEF q
  <1>3. [q EXCEPT !.waiting = Append(q.waiting, s)] = [inside |-> I, waiting |-> v]
    BY <1>1, <1>2 DEF v
  <1>4. [inside |-> I, waiting |-> v] \in LQ!Arrivals(q, N)
    BY <1>3 DEF LQ!Arrivals
  <1> QED BY <1>4 DEF q, v

LEMMA SomebodyEnters ==
    ASSUME NEW I, NEW w, NEW N, NEW s \in N
    PROVE  [inside |-> I \cup {s}, waiting |-> w]
              \in LQ!Arrivals([inside |-> I, waiting |-> w], N)
  <1> DEFINE q == [inside |-> I, waiting |-> w]
             J == I \cup {s}
  <1>1. q.inside = I
    OBVIOUS
  <1> HIDE DEF J
  <1>2. [q EXCEPT !.inside = J] = [inside |-> J, waiting |-> w]
    OBVIOUS
  <1> HIDE DEF q
  <1>3. [q EXCEPT !.inside = q.inside \cup {s}] = [inside |-> J, waiting |-> w]
    BY <1>1, <1>2 DEF J
  <1>4. [inside |-> J, waiting |-> w] \in LQ!Arrivals(q, N)
    BY <1>3 DEF LQ!Arrivals
  <1> QED BY <1>4 DEF q, J

\* Three steps that make a turn make a step of the abstract queue.
LEMMA TurnIsStep ==
    ASSUME NEW q \in LQ!Departures(Before), NEW r \in LQ!Admissions(q),
           NEW t \in LQ!Arrivals(r, Sessions \ LQ!Present(Before)),
           Inside' = t.inside, m_QueuedSessions' = t.waiting
    PROVE  LQ!Next
  BY DEF LQ!Next, LQ!Turn, Before, Inside

LEMMA RemovalIsTurn ==
    ASSUME IInv, NEW s \in Sessions, UpdateRemovesSession(s)
    PROVE  LQ!Next
  <1> DEFINE rm == RemoveQueuedSession(s)
             I  == Inside \ {s}
             q  == [inside |-> I, waiting |-> QueueWithout(s)]
             r  == [inside |-> I \cup ({rm.next} \ {NULL}), waiting |-> rm.queue]
  <1>1. /\ session' = [t \in Sessions |->
                 CASE t = s -> Deleted(s)
                   [] t = rm.next -> Admitted(session[t])
                   [] OTHER -> session[t]]
        /\ m_QueuedSessions' = rm.queue
    BY DEF UpdateRemovesSession
  <1>2. q \in LQ!Departures(Before) /\ r \in LQ!Admissions(q)
    BY LeavingIsDeparture, PoppingIsAdmission DEF IInv
  <1>3. r \in LQ!Arrivals(r, Sessions \ LQ!Present(Before))
    BY DEF LQ!Arrivals
  <1>4. rm.next # NULL => /\ rm.next \in Sessions \ {s}
                          /\ session[rm.next].life = "live"
    BY RemoveQueuedSessionTakesTwo, RangeOfSeq DEF IInv, TypeOK, Links, QueueLinked, Range
  <1> HIDE DEF rm
  <1>5. ASSUME NEW t \in Sessions
        PROVE  t \in Inside' <=> t \in I \cup ({rm.next} \ {NULL})
    <2>1. session'[t] = IF t = s THEN Deleted(s)
                        ELSE IF t = rm.next THEN Admitted(session[t]) ELSE session[t]
      BY <1>1, <1>4, ConstantsAssumption
    <2>2. session[t] \in SessionRec /\ Deleted(s).life = "deleted"
      BY DeletedType DEF IInv, TypeOK
    <2>3. Admitted(session[t]).life = session[t].life /\ ~Admitted(session[t]).inQueue
      BY <2>2 DEF Admitted, SessionRec
    <2>4. t # NULL
      BY ConstantsAssumption
    <2> QED BY <1>4, <2>1, <2>2, <2>3, <2>4 DEF Inside
  <1>6. Inside' = r.inside
    BY <1>4, <1>5 DEF Inside
  <1> HIDE DEF q
  <1>7. m_QueuedSessions' = r.waiting
    BY <1>1
  <1> HIDE DEF r
  <1> QED BY <1>2, <1>3, <1>6, <1>7, TurnIsStep

LEMMA ReplacementIsTurn ==
    ASSUME IInv, AddSession_Replace
    PROVE  LQ!Next
  <1> DEFINE s   == Head(addSessQueue)
             a   == session[s].account
             old == FindSession(a)
             rm  == RemoveQueuedSession(old)
             n   == IF rm.found THEN Cardinality(Mapped) ELSE Cardinality(Mapped) - 1
             queued == MustQueue(s, n)
             I   == Inside \ {old}
             q   == [inside |-> I, waiting |-> QueueWithout(old)]
             J   == I \cup ({rm.next} \ {NULL})
             r   == [inside |-> J, waiting |-> rm.queue]
             t   == IF queued THEN [inside |-> J, waiting |-> Append(rm.queue, s)]
                    ELSE [inside |-> J \cup {s}, waiting |-> rm.queue]
  <1>1. /\ addSessQueue # <<>> /\ old # NULL
        /\ session' = [u \in Sessions |->
                 CASE u = s -> [session[s] EXCEPT !.life = "live", !.inQueue = queued]
                   [] u = old -> Deleted(old)
                   [] u = rm.next -> Admitted(session[u])
                   [] OTHER -> session[u]]
        /\ m_QueuedSessions' = IF queued THEN Append(rm.queue, s) ELSE rm.queue
    BY DEF AddSession_Replace
  <1>2. queued \in BOOLEAN
    BY DEF MustQueue
  <1> HIDE DEF n, queued
  <1>3. s \in Sessions /\ session[s].life = "added" /\ a \in Accounts
    BY <1>1, HeadIsAdded DEF IInv
  <1>4. old \in Sessions /\ session[old].life = "live"
    BY <1>1, <1>3, MappedIsLive DEF IInv
  <1> HIDE DEF s, old
  <1>5. q \in LQ!Departures(Before) /\ r \in LQ!Admissions(q)
    BY <1>4, LeavingIsDeparture, PoppingIsAdmission DEF IInv
  <1>6. t \in LQ!Arrivals(r, Sessions \ LQ!Present(Before))
    <2>1. s \in Sessions \ LQ!Present(Before)
      BY <1>3, NewcomerIsAbsent DEF IInv
    <2> HIDE DEF J, rm
    <2>2. CASE queued
      BY <2>1, <2>2, SomebodyWaits
    <2>3. CASE ~queued
      BY <2>1, <2>3, SomebodyEnters
    <2> QED BY <1>2, <2>2, <2>3
  <1>7. rm.next # NULL => /\ rm.next \in Sessions \ {old, s}
                          /\ session[rm.next].life = "live"
    BY <1>3, <1>4, RemoveQueuedSessionTakesTwo, RangeOfSeq
       DEF IInv, TypeOK, Links, QueueLinked, Range
  <1> HIDE DEF rm
  <1>8. ASSUME NEW u \in Sessions
        PROVE  u \in Inside' <=> u \in J \/ (u = s /\ ~queued)
    <2>1. session'[u] = IF u = s THEN [session[s] EXCEPT !.life = "live", !.inQueue = queued]
                        ELSE IF u = old THEN Deleted(old)
                        ELSE IF u = rm.next THEN Admitted(session[u]) ELSE session[u]
      BY <1>1, <1>3, <1>4, <1>7, ConstantsAssumption
    <2>2. /\ session[u] \in SessionRec /\ session[s] \in SessionRec
          /\ Deleted(old).life = "deleted"
      BY <1>3, <1>4, DeletedType DEF IInv, TypeOK
    <2>3. Admitted(session[u]).life = session[u].life /\ ~Admitted(session[u]).inQueue
      BY <2>2 DEF Admitted, SessionRec
    <2>4. u # NULL /\ s \notin J
      BY <1>3, <1>7, ConstantsAssumption DEF Inside
    <2>5. u = s => session'[u].life = "live" /\ session'[u].inQueue = queued
      BY <2>1, <2>2 DEF SessionRec
    <2>6. CASE u = s
      BY <2>4, <2>5, <2>6 DEF Inside
    <2>7. CASE u = old
      BY <1>3, <1>4, <1>7, <2>1, <2>2, <2>7 DEF Inside
    <2>8. CASE u = rm.next
      BY <1>7, <2>1, <2>2, <2>3, <2>4, <2>8 DEF Inside
    <2>9. CASE u \notin {s, old, rm.next}
      BY <2>1, <2>9 DEF Inside
    <2> QED BY <2>6, <2>7, <2>8, <2>9
  <1>9. J \subseteq Sessions /\ Inside' \subseteq Sessions
    BY <1>7 DEF Inside
  <1>10. Inside' = t.inside
    <2>1. t.inside = IF queued THEN J ELSE J \cup {s}
      OBVIOUS
    <2> HIDE DEF J, t
    <2> QED BY <1>3, <1>8, <1>9, <2>1
  <1>11. m_QueuedSessions' = t.waiting
    BY <1>1
  <1> HIDE DEF q, r, t
  <1> QED BY <1>5, <1>6, <1>10, <1>11, TurnIsStep

LEMMA ArrivalIsTurn ==
    ASSUME IInv, AddSession_New
    PROVE  LQ!Next
  <1> DEFINE s == Head(addSessQueue)
             queued == MustQueue(s, Cardinality(Mapped))
             w == m_QueuedSessions
             t == IF queued THEN [inside |-> Inside, waiting |-> Append(w, s)]
                  ELSE [inside |-> Inside \cup {s}, waiting |-> w]
  <1>1. /\ addSessQueue # <<>>
        /\ session' = [session EXCEPT ![s].life = "live", ![s].inQueue = queued]
        /\ m_QueuedSessions' = IF queued THEN Append(w, s) ELSE w
    BY DEF AddSession_New
  <1>2. queued \in BOOLEAN
    BY DEF MustQueue
  <1> HIDE DEF queued
  <1>3. s \in Sessions /\ session[s].life = "added"
    BY <1>1, HeadIsAdded DEF IInv
  <1> HIDE DEF s
  <1>4. Before \in LQ!Departures(Before) /\ Before \in LQ!Admissions(Before)
    BY DEF LQ!Departures, LQ!Admissions
  <1>5. t \in LQ!Arrivals(Before, Sessions \ LQ!Present(Before))
    <2>1. s \in Sessions \ LQ!Present(Before)
      BY <1>3, NewcomerIsAbsent DEF IInv
    <2>2. CASE queued
      BY <2>1, <2>2, SomebodyWaits DEF Before
    <2>3. CASE ~queued
      BY <2>1, <2>3, SomebodyEnters DEF Before
    <2> QED BY <1>2, <2>2, <2>3
  <1>6. ASSUME NEW u \in Sessions
        PROVE  u \in Inside' <=> u \in Inside \/ (u = s /\ ~queued)
    <2>1. session[u] \in SessionRec /\ session[s] \in SessionRec
      BY <1>3 DEF IInv, TypeOK
    <2>2. session' = [session EXCEPT ![s] = [session[s] EXCEPT !.life = "live", !.inQueue = queued]]
      BY <1>1, <1>3 DEF IInv, TypeOK
    <2>3. /\ u = s => session'[u].life = "live" /\ session'[u].inQueue = queued
          /\ u # s => session'[u] = session[u]
      BY <1>3, <2>1, <2>2 DEF IInv, TypeOK, SessionRec
    <2>4. s \notin Inside
      BY <1>3 DEF Inside
    <2> QED BY <2>3, <2>4 DEF Inside
  <1>7. Inside \subseteq Sessions /\ Inside' \subseteq Sessions
    BY DEF Inside
  <1>8. Inside' = t.inside
    <2>1. t.inside = IF queued THEN Inside ELSE Inside \cup {s}
      OBVIOUS
    <2> HIDE DEF t
    <2> QED BY <1>3, <1>6, <1>7, <2>1
  <1>9. m_QueuedSessions' = t.waiting
    BY <1>1
  <1> HIDE DEF t
  <1> QED BY <1>4, <1>5, <1>8, <1>9, TurnIsStep

\* KickAll gives the queue up; nobody inside leaves until its session is removed.
LEMMA KickAllIsTurn ==
    ASSUME IInv, KickAll
    PROVE  LQ!Next
  <1> DEFINE q == [inside |-> Inside, waiting |-> <<>>]
  <1>1. q \in LQ!Departures(Before)
    <2>1. q = [Before EXCEPT !.waiting = <<>>]
      BY DEF Before
    <2> HIDE DEF q
    <2> QED BY <2>1 DEF LQ!Departures
  <1>2. q \in LQ!Admissions(q) /\ q \in LQ!Arrivals(q, Sessions \ LQ!Present(Before))
    BY DEF LQ!Admissions, LQ!Arrivals
  <1>3. m_QueuedSessions' = <<>>
    BY DEF KickAll
  <1>4. ASSUME NEW s \in Sessions
        PROVE  SameStanding(session'[s], session[s])
    BY RecordTypes DEF KickAll, SameStanding, IInv, TypeOK
  <1>5. Inside' = Inside
    BY <1>4 DEF Inside, SameStanding
  <1>6. Inside' = q.inside /\ m_QueuedSessions' = q.waiting
    BY <1>3, <1>5
  <1> HIDE DEF q
  <1> QED BY <1>1, <1>2, <1>6, TurnIsStep

\* A step that leaves the queue and the standing of every session is a stutter.
LEMMA SameStandingStutters ==
    ASSUME \A s \in Sessions : SameStanding(session'[s], session[s]),
           UNCHANGED m_QueuedSessions
    PROVE  UNCHANGED LQ!vars
  BY DEF LQ!vars, SameStanding

LEMMA NetworkStepRefines ==
    ASSUME IInv, NetworkStep
    PROVE  UNCHANGED LQ!vars
  <1>1. PICK s \in Sessions : \/ \E a \in Accounts : HandleAuthSession(s, a)
                              \/ \E p \in Packets : QueuePacket(s, p)
                              \/ handle_close(s)
    BY DEF NetworkStep
  <1>2. CASE \E a \in Accounts : HandleAuthSession(s, a)
    <2>1. PICK a \in Accounts : HandleAuthSession(s, a)
      BY <1>2
    <2>2. session' = [session EXCEPT ![s].life = "added", ![s].account = a, ![s].sock = "open"]
          /\ session[s].life = "new" /\ m_QueuedSessions' = m_QueuedSessions
      BY <2>1 DEF HandleAuthSession
    <2>3. ASSUME NEW u \in Sessions
          PROVE  /\ u # s => session'[u] = session[u]
                 /\ u = s => session'[u].life = "added"
      BY <2>2 DEF IInv, TypeOK, SessionRec
    <2>4. Inside' = Inside
      BY <2>2, <2>3 DEF Inside
    <2> QED BY <2>2, <2>4 DEF LQ!vars, Inside
  <1>3. CASE (\E p \in Packets : QueuePacket(s, p)) \/ handle_close(s)
    <2>1. UNCHANGED m_QueuedSessions
      BY <1>3 DEF QueuePacket, handle_close
    <2> QED BY <1>3, <2>1, InPlaceStepsKeepStanding, SameStandingStutters DEF IInv
  <1> QED BY <1>1, <1>2, <1>3

LEMMA UpdateRefines ==
    ASSUME IInv, NEW s \in Sessions, UpdateStep(s) \/ UpdateEnds(s)
    PROVE  LQ!Next \/ UNCHANGED LQ!vars
  <1>1. CASE UpdateRemovesSession(s)
    BY <1>1, RemovalIsTurn
  <1>2. CASE UpdateStep(s) \/ UpdateKeepsSession(s)
    <2>1. UNCHANGED m_QueuedSessions
      BY <1>2 DEF UpdateStep, DropWhileQueued, HandleCharEnumOpcode, HandlePlayerLoginOpcode,
         SkipNotLoggedIn, HandleLogoutRequestOpcode, HandleLogoutCancelOpcode, UpdateKeepsSession
    <2> QED BY <1>2, <2>1, InPlaceStepsKeepStanding, SameStandingStutters DEF IInv
  <1> QED BY <1>1, <1>2 DEF UpdateEnds

LEMMA WorldStepRefines ==
    ASSUME IInv, WorldStep
    PROVE  LQ!Next \/ UNCHANGED LQ!vars
  <1>1. CASE AddSession_New \/ AddSession_Replace
    BY <1>1, ArrivalIsTurn, ReplacementIsTurn
  <1>2. CASE AddSession_Refused
    <2> DEFINE s == Head(addSessQueue)
    <2>1. addSessQueue # <<>> /\ session' = [session EXCEPT ![s] = Deleted(s)]
          /\ m_QueuedSessions' = m_QueuedSessions
      BY <1>2 DEF AddSession_Refused
    <2>2. s \in Sessions /\ session[s].life = "added"
      BY <2>1, HeadIsAdded DEF IInv
    <2> HIDE DEF s
    <2>3. Deleted(s).life = "deleted"
      BY <2>2, DeletedType DEF IInv
    <2>4. Inside' = Inside
      BY <2>1, <2>2, <2>3 DEF Inside, IInv, TypeOK
    <2> QED BY <2>1, <2>4 DEF LQ!vars, Inside
  <1>3. CASE BeginUpdateSessions \/ EndUpdateSessions \/ EndTick \/ \E a \in Accounts : BeginUpdate(a)
    BY <1>3 DEF BeginUpdateSessions, EndUpdateSessions, EndTick, BeginUpdate, LQ!vars
  <1>4. CASE \E s \in Sessions : UpdateStep(s) \/ UpdateEnds(s)
    BY <1>4, UpdateRefines
  <1>5. CASE ResultStep
    <2>1. CASE DropResult
      BY <2>1 DEF DropResult, LQ!vars
    <2>2. ASSUME NEW s \in Sessions, \/ HandleCharEnumCallback(s) \/ HandlePlayerLogin(s)
                                     \/ HandlePlayerLogin_LoadFails(s)
          PROVE  UNCHANGED LQ!vars
      <3>1. UNCHANGED m_QueuedSessions
        BY <2>2 DEF HandleCharEnumCallback, HandlePlayerLogin, HandlePlayerLogin_LoadFails
      <3> QED BY <2>2, <3>1, InPlaceStepsKeepStanding, SameStandingStutters DEF IInv
    <2> QED BY <1>5, <2>1, <2>2 DEF ResultStep
  <1> QED BY <1>1, <1>2, <1>3, <1>4, <1>5 DEF WorldStep

LEMMA CommandStepRefines ==
    ASSUME IInv, CommandStep
    PROVE  LQ!Next \/ UNCHANGED LQ!vars
  <1>1. ASSUME NEW s \in Sessions, PlayCharacter(s) \/ KickPlayer(s)
        PROVE  UNCHANGED LQ!vars
    <2>1. UNCHANGED m_QueuedSessions
      BY <1>1 DEF PlayCharacter, KickPlayer
    <2> QED BY <1>1, <2>1, InPlaceStepsKeepStanding, SameStandingStutters DEF IInv
  <1>2. ASSUME NEW l \in Limits, SetPlayerLimit(l)
        PROVE  UNCHANGED LQ!vars
    BY <1>2 DEF SetPlayerLimit, LQ!vars
  <1> QED BY <1>1, <1>2, KickAllIsTurn DEF CommandStep

\* The sessions of the server are a login queue as LoginQueue promises it: every
\* replacement, removal, kick and admission is one of its turns, whatever the limits
\* and their changes.
THEOREM SessionsImplementLoginQueue == Spec => ImplementsLoginQueue
  <1>1. Init => LQ!Init
    <2>1. ASSUME Init, NEW s \in Sessions
          PROVE  session[s].life = "new"
      BY <2>1 DEF Init, NewSession
    <2> QED BY <2>1 DEF Init, LQ!Init
  <1>2. IInv /\ [Next]_vars => [LQ!Next]_(LQ!vars)
    <2>1. CASE UNCHANGED vars
      BY <2>1 DEF vars, LQ!vars
    <2>2. ASSUME IInv, ProcessRequest
          PROVE  UNCHANGED LQ!vars
      BY <2>2 DEF ProcessRequest, LQ!vars
    <2> QED BY <2>1, <2>2, NetworkStepRefines, WorldStepRefines, CommandStepRefines DEF Next
  <1> QED BY <1>1, <1>2, InvariantHolds, PTL DEF Spec, ImplementsLoginQueue, LQ!Spec

(***************************************************************************)
(* What a login sees.  The saves of an account reach the table in their    *)
(* order, so that after all requests the table has the last one.  From the *)
(* moment its session starts to load, nobody saves the account: only live  *)
(* sessions have players, an account has one live session, and one that    *)
(* loads has no player.  So the saves under way are all in front of a      *)
(* login, and once no login is left in the queue no save is.               *)
(***************************************************************************)
IsFor(r, op, a) == r.op = op /\ r.account = a

LoadersHaveNoPlayer == \A s \in Sessions : session[s].loading => session[s].player = NULL

\* The requests bring what is stored of a to its last save.
SavesArrive(requests, a, onDisk, last) ==
    \/ /\ onDisk = last
       /\ \A i \in 1..Len(requests) : ~IsFor(requests[i], "save", a)
    \/ \E i \in 1..Len(requests) :
          /\ IsFor(requests[i], "save", a) /\ requests[i].state = last
          /\ \A j \in i + 1..Len(requests) : ~IsFor(requests[j], "save", a)

\* Every save of a has a login of a behind it.
SavesComeFirst(requests, a) ==
    \A i \in 1..Len(requests) : IsFor(requests[i], "save", a) =>
        \E j \in i + 1..Len(requests) : IsFor(requests[j], "login", a)

\* The last answer to a login of a is onDisk.
LastAnswerIs(answers, a, onDisk) ==
    \A k \in 1..Len(answers) :
        IsFor(answers[k], "login", a) /\ (\A j \in k + 1..Len(answers) : ~IsFor(answers[j], "login", a))
            => answers[k].state = onDisk

\* Once the logins of a are answered, the last answer is what is stored.
AnswerIsFresh(requests, answers, a, onDisk) ==
    (\A i \in 1..Len(requests) : ~IsFor(requests[i], "login", a)) => LastAnswerIs(answers, a, onDisk)

EveryAccountSaved == \A a \in Accounts : SavesArrive(delayQueue, a, stored[a], lastSave[a])

LoadersAwait ==
    \A s \in Sessions : session[s].loading =>
        /\ SavesComeFirst(delayQueue, session[s].account)
        /\ AnswerIsFresh(delayQueue, resultQueue, session[s].account, stored[session[s].account])

LoginsInv == LoadersHaveNoPlayer /\ EveryAccountSaved /\ LoadersAwait

\* A request is queued.
LEMMA QueuedRequest ==
    ASSUME NEW q \in Seq(Request), NEW e \in Request, NEW a, NEW onDisk, NEW last
    PROVE  /\ ~IsFor(e, "save", a) /\ SavesArrive(q, a, onDisk, last) => SavesArrive(Append(q, e), a, onDisk, last)
           /\ IsFor(e, "save", a) => SavesArrive(Append(q, e), a, onDisk, e.state)
           /\ ~IsFor(e, "save", a) /\ SavesComeFirst(q, a) => SavesComeFirst(Append(q, e), a)
           /\ IsFor(e, "login", a) => SavesComeFirst(Append(q, e), a)
           /\ \A r : AnswerIsFresh(q, r, a, onDisk) => AnswerIsFresh(Append(q, e), r, a, onDisk)
           /\ \A r : IsFor(e, "login", a) => AnswerIsFresh(Append(q, e), r, a, onDisk)
  <1> DEFINE p == Append(q, e)
             n == Len(q)
  <1>1. n \in Nat /\ Len(p) = n + 1 /\ p[n + 1] = e /\ \A i \in 1..n : p[i] = q[i]
    BY AppendProperties
  <1> HIDE DEF p, n
  <1>2. /\ 1..n + 1 = 1..n \cup {n + 1} /\ \A i \in 1..n : i + 1..n + 1 = i + 1..n \cup {n + 1}
        /\ n + 1 + 1..n + 1 = {}
    BY <1>1
  <1>3. ASSUME ~IsFor(e, "save", a), SavesArrive(q, a, onDisk, last)
        PROVE  SavesArrive(p, a, onDisk, last)
    <2>1. CASE onDisk = last /\ \A i \in 1..n : ~IsFor(q[i], "save", a)
      BY <1>1, <1>2, <1>3, <2>1 DEF SavesArrive
    <2>2. CASE \E i \in 1..n : /\ IsFor(q[i], "save", a) /\ q[i].state = last
                               /\ \A j \in i + 1..n : ~IsFor(q[j], "save", a)
      <3>1. PICK i \in 1..n : /\ IsFor(q[i], "save", a) /\ q[i].state = last
                              /\ \A j \in i + 1..n : ~IsFor(q[j], "save", a)
        BY <2>2
      <3>2. i \in 1..n + 1 /\ IsFor(p[i], "save", a) /\ p[i].state = last
        BY <1>1, <3>1
      <3>3. \A j \in i + 1..n + 1 : ~IsFor(p[j], "save", a)
        BY <1>1, <1>2, <1>3, <3>1
      <3> QED BY <1>1, <3>2, <3>3 DEF SavesArrive
    <2> QED BY <1>3, <2>1, <2>2 DEF SavesArrive, n
  <1>4. ASSUME IsFor(e, "save", a) PROVE SavesArrive(p, a, onDisk, e.state)
    <2>1. n + 1 \in 1..Len(p) /\ IsFor(p[n + 1], "save", a) /\ p[n + 1].state = e.state
      BY <1>1, <1>4
    <2>2. \A j \in n + 1 + 1..Len(p) : ~IsFor(p[j], "save", a)
      BY <1>1, <1>2
    <2> QED BY <2>1, <2>2 DEF SavesArrive
  <1>5. ASSUME ~IsFor(e, "save", a), SavesComeFirst(q, a) PROVE SavesComeFirst(p, a)
    <2> SUFFICES ASSUME NEW i \in 1..Len(p), IsFor(p[i], "save", a)
                 PROVE  \E j \in i + 1..Len(p) : IsFor(p[j], "login", a)
      BY DEF SavesComeFirst
    <2>1. i \in 1..n
      BY <1>1, <1>2, <1>5
    <2>2. PICK j \in i + 1..n : IsFor(q[j], "login", a)
      BY <1>1, <1>5, <2>1 DEF SavesComeFirst, n
    <2>3. j \in i + 1..Len(p) /\ p[j] = q[j]
      BY <1>1, <2>1, <2>2
    <2> QED BY <2>2, <2>3
  <1>6. ASSUME IsFor(e, "login", a) PROVE SavesComeFirst(p, a)
    <2> SUFFICES ASSUME NEW i \in 1..Len(p), IsFor(p[i], "save", a)
                 PROVE  \E j \in i + 1..Len(p) : IsFor(p[j], "login", a)
      BY DEF SavesComeFirst
    <2>1. i # n + 1
      BY <1>1, <1>6 DEF IsFor
    <2>2. n + 1 \in i + 1..Len(p) /\ IsFor(p[n + 1], "login", a)
      BY <1>1, <1>6, <2>1
    <2> QED BY <2>2
  <1>7. (\A i \in 1..Len(p) : ~IsFor(p[i], "login", a)) =>
            ~IsFor(e, "login", a) /\ \A i \in 1..n : ~IsFor(q[i], "login", a)
    BY <1>1, <1>2
  <1>8. /\ \A r : AnswerIsFresh(q, r, a, onDisk) => AnswerIsFresh(p, r, a, onDisk)
        /\ \A r : IsFor(e, "login", a) => AnswerIsFresh(p, r, a, onDisk)
    BY <1>7 DEF AnswerIsFresh, n
  <1> QED BY <1>3, <1>4, <1>5, <1>6, <1>8 DEF p

\* The first request is executed.
LEMMA ExecutedRequest ==
    ASSUME NEW q \in Seq(Request), q # <<>>, NEW a, NEW onDisk, NEW last
    PROVE  /\ ~IsFor(Head(q), "save", a) /\ SavesArrive(q, a, onDisk, last) => SavesArrive(Tail(q), a, onDisk, last)
           /\ IsFor(Head(q), "save", a) /\ SavesArrive(q, a, onDisk, last) => SavesArrive(Tail(q), a, Head(q).state, last)
           /\ SavesComeFirst(q, a) => SavesComeFirst(Tail(q), a)
           /\ SavesComeFirst(q, a) /\ IsFor(Head(q), "save", a) =>
                 \E i \in 1..Len(Tail(q)) : IsFor(Tail(q)[i], "login", a)
           /\ (\A i \in 1..Len(Tail(q)) : ~IsFor(Tail(q)[i], "login", a)) /\ ~IsFor(Head(q), "login", a) =>
                 \A i \in 1..Len(q) : ~IsFor(q[i], "login", a)
  <1> DEFINE p == Tail(q)
             n == Len(p)
             e == Head(q)
  <1>1. n \in Nat /\ Len(q) = n + 1 /\ q[1] = e /\ \A i \in 1..n : p[i] = q[i + 1]
    BY HeadTailProperties
  <1> HIDE DEF p, n, e
  <1>2. \A i \in 1..n : i + 1 \in 1..n + 1
    BY <1>1
  <1>3. \A i \in 1..n + 1 : i = 1 \/ (i - 1 \in 1..n /\ q[i] = p[i - 1])
    <2> SUFFICES ASSUME NEW i \in 1..n + 1, i # 1
                 PROVE  i - 1 \in 1..n /\ q[i] = p[i - 1]
      OBVIOUS
    <2>1. i - 1 \in 1..n /\ i - 1 + 1 = i
      BY <1>1
    <2> QED BY <1>1, <2>1
  <1>4. ASSUME SavesArrive(q, a, onDisk, last), NEW new,
               IsFor(e, "save", a) => new = e.state, ~IsFor(e, "save", a) => new = onDisk
        PROVE  SavesArrive(p, a, new, last)
    <2>1. CASE onDisk = last /\ \A i \in 1..n + 1 : ~IsFor(q[i], "save", a)
      <3>1. 1 \in 1..n + 1 /\ ~IsFor(e, "save", a)
        BY <1>1, <2>1
      <3>2. \A i \in 1..n : ~IsFor(p[i], "save", a)
        BY <1>1, <1>2, <2>1
      <3> QED BY <1>4, <2>1, <3>1, <3>2 DEF SavesArrive, n
    <2>2. CASE \E i \in 1..n + 1 : /\ IsFor(q[i], "save", a) /\ q[i].state = last
                                   /\ \A j \in i + 1..n + 1 : ~IsFor(q[j], "save", a)
      <3>1. PICK i \in 1..n + 1 : /\ IsFor(q[i], "save", a) /\ q[i].state = last
                                  /\ \A j \in i + 1..n + 1 : ~IsFor(q[j], "save", a)
        BY <2>2
      <3>2. CASE i = 1
        <4>1. new = last
          BY <1>1, <1>4, <3>1, <3>2
        <4>2. \A j \in 1..n : ~IsFor(p[j], "save", a)
          BY <1>1, <3>1, <3>2
        <4> QED BY <4>1, <4>2 DEF SavesArrive, n
      <3>3. CASE i # 1
        <4>1. i - 1 \in 1..n /\ IsFor(p[i - 1], "save", a) /\ p[i - 1].state = last
          BY <1>3, <3>1, <3>3
        <4>2. \A j \in i - 1 + 1..n : j + 1 \in i + 1..n + 1 /\ j \in 1..n
          BY <1>1, <3>1, <3>3
        <4>3. \A j \in i - 1 + 1..n : ~IsFor(p[j], "save", a)
          BY <1>1, <3>1, <4>2
        <4> QED BY <4>1, <4>3 DEF SavesArrive, n
      <3> QED BY <3>2, <3>3
    <2> QED BY <1>1, <1>4, <2>1, <2>2 DEF SavesArrive
  <1>5. ASSUME SavesComeFirst(q, a), NEW i \in 1..n + 1, IsFor(q[i], "save", a)
        PROVE  \E j \in i..n : IsFor(p[j], "login", a)
    <2>1. PICK j \in i + 1..n + 1 : IsFor(q[j], "login", a)
      BY <1>1, <1>5 DEF SavesComeFirst
    <2>2. j - 1 \in i..n /\ q[j] = p[j - 1]
      BY <1>1, <1>3, <2>1
    <2> QED BY <2>1, <2>2
  <1>6. ASSUME SavesComeFirst(q, a) PROVE SavesComeFirst(p, a)
    <2> SUFFICES ASSUME NEW i \in 1..n, IsFor(p[i], "save", a)
                 PROVE  \E j \in i + 1..n : IsFor(p[j], "login", a)
      BY DEF SavesComeFirst, n
    <2> QED BY <1>1, <1>2, <1>5, <1>6
  <1>7. SavesComeFirst(q, a) /\ IsFor(e, "save", a) => \E i \in 1..n : IsFor(p[i], "login", a)
    BY <1>1, <1>5
  <1>8. (\A i \in 1..n : ~IsFor(p[i], "login", a)) /\ ~IsFor(e, "login", a) =>
            \A i \in 1..Len(q) : ~IsFor(q[i], "login", a)
    BY <1>1, <1>3
  <1> QED BY <1>4, <1>6, <1>7, <1>8 DEF p, n, e

\* A result is queued for its callback.
LEMMA QueuedAnswer ==
    ASSUME NEW q \in Seq(Result), NEW e \in Result, NEW a, NEW onDisk
    PROVE  /\ IsFor(e, "login", a) /\ e.state = onDisk => LastAnswerIs(Append(q, e), a, onDisk)
           /\ ~IsFor(e, "login", a) /\ LastAnswerIs(q, a, onDisk) => LastAnswerIs(Append(q, e), a, onDisk)
  <1> DEFINE p == Append(q, e)
             n == Len(q)
  <1>1. n \in Nat /\ Len(p) = n + 1 /\ p[n + 1] = e /\ \A i \in 1..n : p[i] = q[i]
    BY AppendProperties
  <1> HIDE DEF p, n
  <1>2. \A i \in 1..n : n + 1 \in i + 1..n + 1
    BY <1>1
  <1>3. \A i \in 1..n + 1 : i \in 1..n \/ i = n + 1
    BY <1>1
  <1>4. ASSUME IsFor(e, "login", a), e.state = onDisk
        PROVE  LastAnswerIs(p, a, onDisk)
    <2> SUFFICES ASSUME NEW k \in 1..n + 1, \A j \in k + 1..n + 1 : ~IsFor(p[j], "login", a)
                 PROVE  p[k].state = onDisk
      BY <1>1 DEF LastAnswerIs
    <2>1. k = n + 1
      BY <1>1, <1>2, <1>3, <1>4
    <2> QED BY <1>1, <1>4, <2>1
  <1>5. ASSUME ~IsFor(e, "login", a), LastAnswerIs(q, a, onDisk)
        PROVE  LastAnswerIs(p, a, onDisk)
    <2> SUFFICES ASSUME NEW k \in 1..n + 1, IsFor(p[k], "login", a),
                        \A j \in k + 1..n + 1 : ~IsFor(p[j], "login", a)
                 PROVE  p[k].state = onDisk
      BY <1>1 DEF LastAnswerIs
    <2>1. k \in 1..n /\ p[k] = q[k]
      BY <1>1, <1>3, <1>5
    <2>2. \A j \in k + 1..n : j \in k + 1..n + 1 /\ p[j] = q[j]
      BY <1>1, <2>1
    <2>3. \A j \in k + 1..n : ~IsFor(q[j], "login", a)
      BY <2>2
    <2> QED BY <1>5, <2>1, <2>3 DEF LastAnswerIs, n
  <1> QED BY <1>4, <1>5 DEF p

\* A result is taken.
LEMMA TakenAnswer ==
    ASSUME NEW q \in Seq(Result), q # <<>>, NEW a, NEW onDisk, LastAnswerIs(q, a, onDisk)
    PROVE  LastAnswerIs(Tail(q), a, onDisk)
  <1> DEFINE p == Tail(q)
             n == Len(p)
  <1>1. n \in Nat /\ Len(q) = n + 1 /\ \A i \in 1..n : p[i] = q[i + 1]
    BY HeadTailProperties
  <1> HIDE DEF p, n
  <1> SUFFICES ASSUME NEW k \in 1..n, IsFor(p[k], "login", a),
                      \A j \in k + 1..n : ~IsFor(p[j], "login", a)
               PROVE  p[k].state = onDisk
    BY DEF LastAnswerIs, p, n
  <1>2. k + 1 \in 1..n + 1 /\ p[k] = q[k + 1]
    BY <1>1
  <1>3. \A j \in k + 1 + 1..n + 1 : j - 1 \in k + 1..n /\ j - 1 \in 1..n /\ j - 1 + 1 = j
    BY <1>1
  <1>4. \A j \in k + 1 + 1..n + 1 : ~IsFor(q[j], "login", a)
    BY <1>1, <1>3
  <1> QED BY <1>1, <1>2, <1>4 DEF LastAnswerIs

(***************************************************************************)
(* The invariant.                                                          *)
(***************************************************************************)
\* Nobody begins to load in the step.
CalmStep == \A t \in Sessions : Calm(session'[t], session[t])

LEMMA CalmLoaders ==
    ASSUME LoadersHaveNoPlayer, CalmStep
    PROVE  /\ LoadersHaveNoPlayer'
           /\ \A t \in Sessions : session'[t].loading =>
                 session[t].loading /\ session'[t].account = session[t].account
  BY DEF LoadersHaveNoPlayer, CalmStep, Calm

\* A session that loads is that of its account.
LEMMA LoaderIsMapped ==
    ASSUME IInv, NEW t \in Sessions, session[t].loading
    PROVE  /\ session[t].life = "live" /\ session[t].account \in Accounts
           /\ m_sessions[session[t].account] = t
  BY DEF IInv, Links, SessionsLinked, PlayersOfLive

\* Nothing happens to the requests but that one is added for nobody's sake.
LEMMA CalmKeepsLogins ==
    ASSUME IInv, LoginsInv, CalmStep, UNCHANGED <<delayQueue, stored, lastSave>>,
           \/ UNCHANGED resultQueue
           \/ resultQueue # <<>> /\ resultQueue' = Tail(resultQueue)
    PROVE  LoginsInv'
  <1>1. EveryAccountSaved'
    BY DEF LoginsInv, EveryAccountSaved
  <1>2. resultQueue \in Seq(Result)
    BY DEF IInv, TypeOK
  <1>3. \A a, d : AnswerIsFresh(delayQueue, resultQueue, a, d) => AnswerIsFresh(delayQueue, resultQueue', a, d)
    BY <1>2, TakenAnswer DEF AnswerIsFresh
  <1>4. LoadersAwait'
    BY <1>3, CalmLoaders DEF LoginsInv, LoadersAwait
  <1> QED BY <1>1, <1>4, CalmLoaders DEF LoginsInv

\* A logout saves an account that nobody loads.
LEMMA LogoutKeepsLogins ==
    ASSUME IInv, LoginsInv, CalmStep, NEW s \in Sessions, session[s].life = "live", LogoutPlayer(s),
           UNCHANGED <<resultQueue, stored>>
    PROVE  LoginsInv'
  <1> DEFINE a == session[s].account
             p == session[s].player
             e == [op |-> "save", account |-> a, state |-> p]
  <1>1. CASE p = NULL
    BY <1>1, CalmKeepsLogins DEF LogoutPlayer
  <1>2. CASE p # NULL
    <2>1. /\ delayQueue' = Append(delayQueue, e)
          /\ lastSave' = [lastSave EXCEPT ![a] = p]
      BY <1>2 DEF LogoutPlayer
    <2>2. a \in Accounts /\ m_sessions[a] = s /\ p \in (0..MaxProgress) \cup {NULL}
      BY DEF IInv, TypeOK, SessionRec, Links, SessionsLinked
    <2>3. /\ e \in Request /\ IsFor(e, "save", a) /\ e.state = p
          /\ \A b \in Accounts : b # a => ~IsFor(e, "save", b)
      BY <1>2, <2>2 DEF Request, IsFor
    <2>4. delayQueue \in Seq(Request) /\ lastSave \in [Accounts -> 0..MaxProgress]
      BY DEF IInv, TypeOK
    <2> HIDE DEF e, a
    <2>5. ASSUME NEW b \in Accounts
          PROVE  SavesArrive(delayQueue', b, stored[b], lastSave'[b])
      <3>1. CASE b = a
        BY <2>1, <2>2, <2>3, <2>4, <3>1, QueuedRequest
      <3>2. CASE b # a
        <4>1. SavesArrive(delayQueue, b, stored[b], lastSave[b]) /\ lastSave'[b] = lastSave[b]
          BY <2>1, <2>2, <2>4, <3>2 DEF LoginsInv, EveryAccountSaved
        <4> QED BY <2>1, <2>3, <2>4, <3>2, <4>1, QueuedRequest
      <3> QED BY <3>1, <3>2
    <2>6. ASSUME NEW t \in Sessions, session'[t].loading
          PROVE  LET b == session'[t].account
                 IN  SavesComeFirst(delayQueue', b) /\ AnswerIsFresh(delayQueue', resultQueue, b, stored[b])
      <3> DEFINE b == session[t].account
      <3>1. session[t].loading /\ session'[t].account = b /\ session[t].player = NULL
        BY <2>6, CalmLoaders DEF LoginsInv, LoadersHaveNoPlayer
      <3>2. b \in Accounts /\ b # a
        BY <1>2, <2>2, <3>1, LoaderIsMapped
      <3>3. SavesComeFirst(delayQueue, b) /\ AnswerIsFresh(delayQueue, resultQueue, b, stored[b])
        BY <3>1 DEF LoginsInv, LoadersAwait
      <3> HIDE DEF b
      <3>4. SavesComeFirst(delayQueue', b) /\ AnswerIsFresh(delayQueue', resultQueue, b, stored[b])
        BY <2>1, <2>3, <2>4, <3>2, <3>3, QueuedRequest
      <3> QED BY <3>1, <3>4
    <2> QED BY <2>5, <2>6, CalmLoaders DEF LoginsInv, EveryAccountSaved, LoadersAwait
  <1> QED BY <1>1, <1>2

\* The database thread: once a save of a is executed, a login of a is still to be;
\* a login finds what is stored.
LEMMA ProcessRequestKeepsLogins ==
    ASSUME IInv, LoginsInv, ProcessRequest
    PROVE  LoginsInv'
  <1> DEFINE e == Head(delayQueue)
             q == delayQueue
             answer == [op |-> e.op, account |-> e.account, state |-> stored[e.account]]
  <1>1. /\ q # <<>> /\ q \in Seq(Request) /\ e \in Request /\ q' = Tail(q)
        /\ resultQueue \in Seq(Result) /\ stored \in [Accounts -> 0..MaxProgress]
        /\ UNCHANGED <<session, lastSave>>
    BY HeadTailProperties DEF ProcessRequest, charVars, IInv, TypeOK
  <1>2. \/ /\ e.op = "save" /\ stored' = [stored EXCEPT ![e.account] = e.state]
           /\ UNCHANGED resultQueue
        \/ /\ e.op \in {"enum", "login"} /\ UNCHANGED stored
           /\ resultQueue' = Append(resultQueue, answer)
    BY DEF ProcessRequest
  <1>3. e.account \in Accounts
    BY <1>1 DEF Request
  <1>4. CalmStep
    BY <1>1 DEF CalmStep, Calm
  <1>5. ASSUME NEW b \in Accounts
        PROVE  SavesArrive(q', b, stored'[b], lastSave[b])
    <2>1. SavesArrive(q, b, stored[b], lastSave[b])
      BY DEF LoginsInv, EveryAccountSaved
    <2>2. CASE IsFor(e, "save", b)
      <3>1. stored'[b] = e.state
        BY <1>1, <1>2, <2>2 DEF IsFor
      <3> QED BY <1>1, <2>1, <2>2, <3>1, ExecutedRequest
    <2>3. CASE ~IsFor(e, "save", b)
      <3>1. stored'[b] = stored[b]
        BY <1>1, <1>2, <1>3, <2>3 DEF IsFor
      <3> QED BY <1>1, <2>1, <2>3, <3>1, ExecutedRequest
    <2> QED BY <2>2, <2>3
  <1>6. ASSUME NEW b \in Accounts, SavesComeFirst(q, b), AnswerIsFresh(q, resultQueue, b, stored[b])
        PROVE  SavesComeFirst(q', b) /\ AnswerIsFresh(q', resultQueue', b, stored'[b])
    <2>1. SavesComeFirst(q', b)
      BY <1>1, <1>6, ExecutedRequest
    <2>2. CASE IsFor(e, "save", b)
      <3>1. \E i \in 1..Len(q') : IsFor(q'[i], "login", b)
        BY <1>1, <1>6, <2>2, ExecutedRequest
      <3> QED BY <2>1, <3>1 DEF AnswerIsFresh
    <2>3. CASE IsFor(e, "login", b)
      <3>1. /\ resultQueue' = Append(resultQueue, answer) /\ stored' = stored
            /\ IsFor(answer, "login", b) /\ answer.state = stored[b]
        BY <1>2, <2>3 DEF IsFor
      <3>2. answer \in Result
        BY <1>1, <1>3, <2>3 DEF IsFor, Result
      <3> HIDE DEF answer
      <3>3. LastAnswerIs(resultQueue', b, stored'[b])
        BY <1>1, <3>1, <3>2, QueuedAnswer
      <3> QED BY <2>1, <3>3 DEF AnswerIsFresh
    <2>4. CASE ~IsFor(e, "save", b) /\ ~IsFor(e, "login", b)
      <3>1. stored'[b] = stored[b]
        BY <1>1, <1>2, <1>3, <2>4 DEF IsFor
      <3>2. LastAnswerIs(resultQueue, b, stored[b]) => LastAnswerIs(resultQueue', b, stored[b])
        <4>1. CASE UNCHANGED resultQueue
          BY <4>1
        <4>2. CASE e.op \in {"enum", "login"} /\ resultQueue' = Append(resultQueue, answer)
          <5>1. answer \in Result /\ ~IsFor(answer, "login", b)
            BY <1>1, <1>3, <2>4, <4>2 DEF IsFor, Result
          <5> HIDE DEF answer
          <5> QED BY <1>1, <4>2, <5>1, QueuedAnswer
        <4> QED BY <1>2, <4>1, <4>2
      <3>3. (\A i \in 1..Len(q') : ~IsFor(q'[i], "login", b)) => \A i \in 1..Len(q) : ~IsFor(q[i], "login", b)
        BY <1>1, <2>4, ExecutedRequest
      <3> QED BY <1>6, <2>1, <3>1, <3>2, <3>3 DEF AnswerIsFresh
    <2> QED BY <2>2, <2>3, <2>4
  <1>7. LoadersAwait'
    BY <1>1, <1>6, LoaderIsMapped DEF LoginsInv, LoadersAwait
  <1> QED BY <1>1, <1>4, <1>5, <1>7, CalmLoaders DEF LoginsInv, EveryAccountSaved

\* A list of characters is asked for, or a login that is ignored.
LEMMA AskingKeepsLogins ==
    ASSUME IInv, LoginsInv, CalmStep, NEW a \in Accounts,
           delayQueue' = Append(delayQueue, [op |-> "enum", account |-> a]),
           UNCHANGED <<resultQueue, stored, lastSave>>
    PROVE  LoginsInv'
  <1> DEFINE e == [op |-> "enum", account |-> a]
  <1>1. e \in Request /\ delayQueue \in Seq(Request) /\ \A b : ~IsFor(e, "save", b)
    BY DEF Request, IsFor, IInv, TypeOK
  <1>2. delayQueue' = Append(delayQueue, e)
    OBVIOUS
  <1> HIDE DEF e
  <1>3. EveryAccountSaved'
    BY <1>1, <1>2, QueuedRequest DEF LoginsInv, EveryAccountSaved
  <1>4. \A b \in Accounts : SavesComeFirst(delayQueue, b) => SavesComeFirst(delayQueue', b)
    BY <1>1, <1>2, QueuedRequest
  <1>5. \A b \in Accounts : AnswerIsFresh(delayQueue, resultQueue, b, stored[b])
                               => AnswerIsFresh(delayQueue', resultQueue, b, stored[b])
    BY <1>1, <1>2, QueuedRequest
  <1>6. LoadersAwait'
    BY <1>4, <1>5, CalmLoaders, LoaderIsMapped DEF LoginsInv, LoadersAwait
  <1> QED BY <1>3, <1>6, CalmLoaders DEF LoginsInv

\* A login is queued: every save of the account is in front of it.
LEMMA LoginKeepsLogins ==
    ASSUME IInv, LoginsInv, NEW s \in Sessions, HandlePlayerLoginOpcode(s), MayStartLogin(s)
    PROVE  LoginsInv'
  <1> DEFINE a == session[s].account
             e == [op |-> "login", account |-> a]
  <1>1. /\ session' = [session EXCEPT ![s] = [Taken(s) EXCEPT !.loading = TRUE]]
        /\ delayQueue' = Append(delayQueue, e)
        /\ UNCHANGED <<resultQueue, stored, lastSave>>
    BY DEF HandlePlayerLoginOpcode, charVars
  <1>2. HasPacket(s) /\ updating \in Accounts /\ FindSession(updating) = s
    BY DEF HandlePlayerLoginOpcode, Handling, IInv, TypeOK
  <1>3. a \in Accounts
    BY <1>2, ConstantsAssumption, MappedIsLive DEF IInv
  <1>4. /\ session'[s].player = NULL /\ session'[s].account = a
        /\ \A t \in Sessions \ {s} : session'[t] = session[t]
    <2>1. Taken(s) = [session[s] EXCEPT !.recv = Tail(session[s].recv)] /\ session[s] \in SessionRec
      BY <1>2, TakenType DEF IInv, TypeOK
    <2>2. Taken(s).player = session[s].player /\ Taken(s).account = a /\ Taken(s) \in SessionRec
      BY <1>2, <2>1, TakenType DEF IInv, SessionRec
    <2>3. session[s].player = NULL
      BY DEF MayStartLogin
    <2>4. /\ [Taken(s) EXCEPT !.loading = TRUE].player = NULL
          /\ [Taken(s) EXCEPT !.loading = TRUE].account = a
      BY <2>2, <2>3 DEF SessionRec
    <2> QED BY <1>1, <2>4 DEF IInv, TypeOK
  <1>5. /\ e \in Request /\ delayQueue \in Seq(Request) /\ IsFor(e, "login", a)
        /\ \A b : ~IsFor(e, "save", b)
    BY <1>3 DEF Request, IsFor, IInv, TypeOK
  <1> HIDE DEF e
  <1>6. EveryAccountSaved'
    BY <1>1, <1>5, QueuedRequest DEF LoginsInv, EveryAccountSaved
  <1>7. SavesComeFirst(delayQueue', a) /\ AnswerIsFresh(delayQueue', resultQueue, a, stored[a])
    BY <1>1, <1>5, QueuedRequest
  <1>8. \A b \in Accounts : /\ SavesComeFirst(delayQueue, b) => SavesComeFirst(delayQueue', b)
                            /\ AnswerIsFresh(delayQueue, resultQueue, b, stored[b])
                                  => AnswerIsFresh(delayQueue', resultQueue, b, stored[b])
    BY <1>1, <1>5, QueuedRequest
  <1> HIDE DEF a
  <1>9. LoadersAwait'
    BY <1>1, <1>4, <1>7, <1>8, LoaderIsMapped DEF LoginsInv, LoadersAwait
  <1>10. LoadersHaveNoPlayer'
    BY <1>4 DEF LoginsInv, LoadersHaveNoPlayer
  <1> QED BY <1>6, <1>9, <1>10 DEF LoginsInv

\* The character enters the world: its session loads no longer.
LEMMA ArrivalKeepsLogins ==
    ASSUME IInv, LoginsInv, NEW s \in Sessions, HandlePlayerLogin(s)
    PROVE  LoginsInv'
  <1>1. /\ session' = [session EXCEPT ![s] = [session[s] EXCEPT
                            !.player = Answer.state, !.loading = FALSE, !.screen = "world"]]
        /\ resultQueue # <<>> /\ resultQueue' = Tail(resultQueue)
        /\ UNCHANGED <<delayQueue, stored, lastSave>>
    BY DEF HandlePlayerLogin, Answering
  <1>2. ~session'[s].loading /\ \A t \in Sessions \ {s} : session'[t] = session[t]
    BY <1>1 DEF IInv, TypeOK, SessionRec
  <1>3. resultQueue \in Seq(Result)
    BY DEF IInv, TypeOK
  <1>4. \A a, d : AnswerIsFresh(delayQueue, resultQueue, a, d) => AnswerIsFresh(delayQueue, resultQueue', a, d)
    BY <1>1, <1>3, TakenAnswer DEF AnswerIsFresh
  <1>5. LoadersAwait'
    BY <1>1, <1>2, <1>4 DEF LoginsInv, LoadersAwait
  <1> QED BY <1>1, <1>2, <1>5 DEF LoginsInv, LoadersHaveNoPlayer, EveryAccountSaved

\* Three steps apart, nobody begins to load and nobody enters the world.
LEMMA DeletedIsCalm ==
    ASSUME IInv, NEW s \in Sessions
    PROVE  /\ Calm(Deleted(s), session[s])
           /\ Calm(Admitted(session[s]), session[s])
           /\ Calm(Kicked(session[s]), session[s])
           /\ Calm(session[s], session[s])
  <1>1. session[s] \in SessionRec
    BY DEF IInv, TypeOK
  <1>2. ~Deleted(s).loading /\ Deleted(s).player = NULL
    BY DeletedType DEF IInv
  <1>3. Calm(Admitted(session[s]), session[s])
    BY <1>1, RecordTypes DEF Calm, SessionRec
  <1>4. Calm(Kicked(session[s]), session[s])
    BY <1>1, RecordTypes DEF Calm
  <1> QED BY <1>2, <1>3, <1>4 DEF Calm

LEMMA AddingIsCalm ==
    ASSUME IInv, AddSession_Refused \/ AddSession_New \/ AddSession_Replace
    PROVE  CalmStep
  <1> DEFINE s == Head(addSessQueue)
  <1>1. addSessQueue # <<>>
    BY DEF AddSession_Refused, AddSession_New, AddSession_Replace
  <1>2. s \in Sessions /\ session[s].life = "added"
    BY <1>1, HeadIsAdded DEF IInv
  <1>3. ~session[s].loading /\ session[s].player = NULL
    BY <1>2 DEF IInv, Links, PlayersOfLive
  <1>4. \A b \in BOOLEAN : Calm([session[s] EXCEPT !.life = "live", !.inQueue = b], session[s])
    BY <1>2, <1>3 DEF IInv, TypeOK, SessionRec, Calm
  <1>5. \A t \in Sessions : Calm(session[t], session[t])
    BY DEF Calm
  <1>6. CASE AddSession_Refused
    <2>1. session' = [session EXCEPT ![s] = Deleted(s)]
      BY <1>6 DEF AddSession_Refused
    <2> HIDE DEF s
    <2> QED BY <1>2, <1>5, <2>1, DeletedIsCalm DEF CalmStep, IInv, TypeOK
  <1>7. CASE AddSession_New
    <2> DEFINE queued == MustQueue(s, Cardinality(Mapped))
    <2>1. session' = [session EXCEPT ![s] = [session[s] EXCEPT !.life = "live", !.inQueue = queued]]
      BY <1>2, <1>7 DEF AddSession_New, IInv, TypeOK
    <2>2. queued \in BOOLEAN
      BY DEF MustQueue
    <2> HIDE DEF s, queued
    <2> QED BY <1>2, <1>4, <1>5, <2>1, <2>2 DEF CalmStep, IInv, TypeOK
  <1>8. CASE AddSession_Replace
    <2> DEFINE old == FindSession(session[s].account)
               rm  == RemoveQueuedSession(old)
               n   == IF rm.found THEN Cardinality(Mapped) ELSE Cardinality(Mapped) - 1
               queued == MustQueue(s, n)
    <2>1. session' = [t \in Sessions |->
                 CASE t = s -> [session[s] EXCEPT !.life = "live", !.inQueue = queued]
                   [] t = old -> Deleted(old)
                   [] t = rm.next -> Admitted(session[t])
                   [] OTHER -> session[t]]
      BY <1>8 DEF AddSession_Replace
    <2>2. queued \in BOOLEAN
      BY DEF MustQueue
    <2> HIDE DEF s, n, queued, rm, old
    <2>3. ASSUME NEW t \in Sessions PROVE Calm(session'[t], session[t])
      <3>1. \/ t = s /\ session'[t] = [session[s] EXCEPT !.life = "live", !.inQueue = queued]
            \/ t = old /\ session'[t] = Deleted(t)
            \/ session'[t] = Admitted(session[t])
            \/ session'[t] = session[t]
        BY <2>1
      <3> QED BY <1>4, <2>2, <3>1, DeletedIsCalm
    <2> QED BY <2>3 DEF CalmStep
  <1> QED BY <1>6, <1>7, <1>8

LEMMA RemovalIsCalm ==
    ASSUME IInv, NEW s \in Sessions, UpdateRemovesSession(s)
    PROVE  CalmStep
  <1> DEFINE rm == RemoveQueuedSession(s)
  <1>1. session' = [t \in Sessions |->
                 CASE t = s -> Deleted(s)
                   [] t = rm.next -> Admitted(session[t])
                   [] OTHER -> session[t]]
    BY DEF UpdateRemovesSession
  <1> HIDE DEF rm
  <1>2. ASSUME NEW t \in Sessions PROVE Calm(session'[t], session[t])
    <2>1. \/ session'[t] = Deleted(t)
          \/ session'[t] = Admitted(session[t])
          \/ session'[t] = session[t]
      BY <1>1
    <2> QED BY <2>1, DeletedIsCalm
  <1> QED BY <1>2 DEF CalmStep

StartsLogin(s) == HandlePlayerLoginOpcode(s) /\ MayStartLogin(s)

LEMMA InPlaceIsCalm ==
    ASSUME IInv, NEW s \in Sessions,
           \/ \E p \in Packets : QueuePacket(s, p)
           \/ handle_close(s) \/ UpdateStep(s) \/ UpdateKeepsSession(s)
           \/ HandleCharEnumCallback(s) \/ HandlePlayerLogin(s)
           \/ HandlePlayerLogin_LoadFails(s) \/ PlayCharacter(s) \/ KickPlayer(s)
    PROVE  CalmStep \/ HandlePlayerLogin(s) \/ StartsLogin(s)
  <1>1. TypeOK
    BY DEF IInv
  <1> QED BY <1>1, InPlaceStepsKeepStanding DEF CalmStep, StartsLogin

LEMMA AuthIsCalm ==
    ASSUME IInv, NEW s \in Sessions, NEW a \in Accounts, HandleAuthSession(s, a)
    PROVE  CalmStep
  <1> DEFINE r == [session[s] EXCEPT !.life = "added", !.account = a, !.sock = "open"]
  <1>1. session[s].life = "new" /\ session' = [session EXCEPT ![s] = r]
    BY DEF HandleAuthSession, IInv, TypeOK
  <1>2. ~session[s].loading /\ session[s].player = NULL
    BY <1>1 DEF IInv, Links, PlayersOfLive
  <1>3. Calm(r, session[s])
    BY <1>2 DEF IInv, TypeOK, SessionRec, Calm
  <1> HIDE DEF r
  <1> QED BY <1>1, <1>3 DEF CalmStep, Calm, IInv, TypeOK

LEMMA KickAllIsCalm ==
    ASSUME IInv, KickAll
    PROVE  CalmStep
  <1>1. ASSUME NEW t \in Sessions PROVE Calm(session'[t], session[t])
    <2>1. session'[t] = Kicked(session[t]) \/ session'[t] = session[t]
      BY DEF KickAll
    <2> QED BY <2>1, DeletedIsCalm
  <1> QED BY <1>1 DEF CalmStep

(***************************************************************************)
(* The steps.                                                              *)
(***************************************************************************)
\* What every step is to those who load.
KeepsLogins == LoginsInv' /\ (CalmStep \/ \E s \in Sessions : HandlePlayerLogin(s) \/ StartsLogin(s))

\* The steps that are far from the database.
LEMMA CalmStepsKeepLogins ==
    ASSUME IInv, LoginsInv, CalmStep, UNCHANGED <<delayQueue, stored, lastSave>>,
           \/ UNCHANGED resultQueue
           \/ resultQueue # <<>> /\ resultQueue' = Tail(resultQueue)
    PROVE  KeepsLogins
  BY CalmKeepsLogins DEF KeepsLogins

LEMMA StartKeepsLogins ==
    ASSUME IInv, LoginsInv, NEW s \in Sessions, HandlePlayerLogin(s) \/ StartsLogin(s)
    PROVE  KeepsLogins
  BY ArrivalKeepsLogins, LoginKeepsLogins DEF KeepsLogins, StartsLogin

LEMMA NetworkKeepsLogins ==
    ASSUME IInv, LoginsInv, NetworkStep
    PROVE  KeepsLogins
  <1>1. PICK s \in Sessions : \/ \E a \in Accounts : HandleAuthSession(s, a)
                              \/ \E p \in Packets : QueuePacket(s, p)
                              \/ handle_close(s)
    BY DEF NetworkStep
  <1>2. UNCHANGED <<delayQueue, stored, lastSave, resultQueue>>
    BY <1>1 DEF HandleAuthSession, QueuePacket, handle_close, dbVars, charVars
  <1>3. CalmStep \/ HandlePlayerLogin(s) \/ StartsLogin(s)
    BY <1>1, AuthIsCalm, InPlaceIsCalm
  <1> QED BY <1>2, <1>3, CalmStepsKeepLogins, StartKeepsLogins

LEMMA UpdateStepKeepsLogins ==
    ASSUME IInv, LoginsInv, NEW s \in Sessions, UpdateStep(s)
    PROVE  KeepsLogins
  <1>1. CalmStep \/ HandlePlayerLogin(s) \/ StartsLogin(s)
    BY InPlaceIsCalm
  <1>2. HandlePlayerLogin(s) \/ StartsLogin(s) => KeepsLogins
    BY StartKeepsLogins
  <1> SUFFICES ASSUME CalmStep PROVE KeepsLogins
    BY <1>1, <1>2
  <1>3. updating \in Accounts /\ FindSession(updating) = s
    BY DEF UpdateStep, DropWhileQueued, HandleCharEnumOpcode, HandlePlayerLoginOpcode,
           SkipNotLoggedIn, HandleLogoutRequestOpcode, HandleLogoutCancelOpcode, Handling,
           IInv, TypeOK
  <1>4. session[s].life = "live" /\ session[s].account \in Accounts
    BY <1>3, ConstantsAssumption, MappedIsLive DEF IInv
  <1>5. CASE DropWhileQueued(s) \/ SkipNotLoggedIn(s) \/ HandleLogoutCancelOpcode(s)
    <2>1. UNCHANGED <<delayQueue, stored, lastSave, resultQueue>>
      BY <1>5 DEF DropWhileQueued, SkipNotLoggedIn, HandleLogoutCancelOpcode, dbVars, charVars
    <2> QED BY <2>1, CalmStepsKeepLogins
  <1>6. CASE HandleCharEnumOpcode(s)
    <2>1. /\ delayQueue' = Append(delayQueue, [op |-> "enum", account |-> session[s].account])
          /\ UNCHANGED <<resultQueue, stored, lastSave>>
      BY <1>6 DEF HandleCharEnumOpcode, charVars
    <2>2. LoginsInv'
      BY <1>4, <2>1, AskingKeepsLogins
    <2> QED BY <2>2 DEF KeepsLogins
  <1>7. CASE HandlePlayerLoginOpcode(s)
    <2>1. CASE MayStartLogin(s)
      BY <1>2, <1>7, <2>1 DEF StartsLogin
    <2>2. CASE ~MayStartLogin(s)
      <3>1. UNCHANGED <<delayQueue, stored, lastSave, resultQueue>>
        BY <1>7, <2>2 DEF HandlePlayerLoginOpcode, charVars
      <3> QED BY <3>1, CalmStepsKeepLogins
    <2> QED BY <2>1, <2>2
  <1>8. CASE HandleLogoutRequestOpcode(s)
    <2>1. /\ UNCHANGED <<resultQueue, stored>>
          /\ LogoutPlayer(s) \/ UNCHANGED <<delayQueue, lastSave>>
      BY <1>8 DEF HandleLogoutRequestOpcode
    <2>2. LoginsInv'
      BY <1>4, <2>1, LogoutKeepsLogins, CalmKeepsLogins
    <2> QED BY <2>2 DEF KeepsLogins
  <1> QED BY <1>5, <1>6, <1>7, <1>8 DEF UpdateStep

LEMMA UpdateEndsKeepsLogins ==
    ASSUME IInv, LoginsInv, NEW s \in Sessions, UpdateEnds(s)
    PROVE  KeepsLogins
  <1>1. CalmStep \/ HandlePlayerLogin(s) \/ StartsLogin(s)
    BY RemovalIsCalm, InPlaceIsCalm DEF UpdateEnds
  <1>2. HandlePlayerLogin(s) \/ StartsLogin(s) => KeepsLogins
    BY StartKeepsLogins
  <1>3. updating \in Accounts /\ FindSession(updating) = s
    BY DEF UpdateEnds, UpdateKeepsSession, UpdateRemovesSession, IInv, TypeOK
  <1>4. session[s].life = "live"
    BY <1>3, ConstantsAssumption, MappedIsLive DEF IInv
  <1>5. /\ UNCHANGED <<resultQueue, stored>>
        /\ LogoutPlayer(s) \/ UNCHANGED <<delayQueue, lastSave>>
    BY DEF UpdateEnds, UpdateKeepsSession, UpdateRemovesSession
  <1>6. CalmStep => LoginsInv'
    BY <1>4, <1>5, LogoutKeepsLogins, CalmKeepsLogins
  <1> QED BY <1>1, <1>2, <1>6 DEF KeepsLogins

LEMMA AddingKeepsLogins ==
    ASSUME IInv, LoginsInv, AddSession_Refused \/ AddSession_New \/ AddSession_Replace
    PROVE  KeepsLogins
  <1>1. CalmStep
    BY AddingIsCalm
  <1>2. CASE AddSession_Refused \/ AddSession_New
    <2>1. UNCHANGED <<delayQueue, stored, lastSave, resultQueue>>
      BY <1>2 DEF AddSession_Refused, AddSession_New, dbVars, charVars
    <2> QED BY <1>1, <2>1, CalmStepsKeepLogins
  <1>3. CASE AddSession_Replace
    <2> DEFINE old == FindSession(session[Head(addSessQueue)].account)
    <2>1. addSessQueue # <<>> /\ old # NULL /\ LogoutPlayer(old) /\ UNCHANGED <<resultQueue, stored>>
      BY <1>3 DEF AddSession_Replace
    <2>2. session[Head(addSessQueue)].account \in Accounts
      BY <2>1, HeadIsAdded DEF IInv
    <2>3. old \in Sessions /\ session[old].life = "live"
      BY <2>1, <2>2, MappedIsLive DEF IInv
    <2> HIDE DEF old
    <2>4. LoginsInv'
      BY <1>1, <2>1, <2>3, LogoutKeepsLogins
    <2> QED BY <1>1, <2>4 DEF KeepsLogins
  <1> QED BY <1>2, <1>3

LEMMA ResultsKeepLogins ==
    ASSUME IInv, LoginsInv, ResultStep
    PROVE  KeepsLogins
  <1>1. resultQueue # <<>> /\ resultQueue' = Tail(resultQueue) /\ UNCHANGED <<delayQueue, stored, lastSave>>
    BY DEF ResultStep, DropResult, HandleCharEnumCallback, HandlePlayerLogin,
           HandlePlayerLogin_LoadFails, Answering, charVars
  <1>2. CASE DropResult
    <2>1. CalmStep
      BY <1>2 DEF DropResult, CalmStep, Calm
    <2> QED BY <1>1, <2>1, CalmStepsKeepLogins
  <1>3. CASE \E s \in Sessions : \/ HandleCharEnumCallback(s) \/ HandlePlayerLogin(s)
                                 \/ HandlePlayerLogin_LoadFails(s)
    <2>1. PICK s \in Sessions : \/ HandleCharEnumCallback(s) \/ HandlePlayerLogin(s)
                                \/ HandlePlayerLogin_LoadFails(s)
      BY <1>3
    <2>2. CalmStep \/ HandlePlayerLogin(s) \/ StartsLogin(s)
      BY <2>1, InPlaceIsCalm
    <2> QED BY <1>1, <2>2, CalmStepsKeepLogins, StartKeepsLogins
  <1> QED BY <1>2, <1>3 DEF ResultStep

LEMMA CommandsKeepLogins ==
    ASSUME IInv, LoginsInv, CommandStep
    PROVE  KeepsLogins
  <1>1. UNCHANGED <<delayQueue, stored, lastSave, resultQueue>>
    BY DEF CommandStep, PlayCharacter, KickPlayer, KickAll, SetPlayerLimit, dbVars, charVars
  <1>2. CASE \E s \in Sessions : PlayCharacter(s) \/ KickPlayer(s)
    <2>1. PICK s \in Sessions : PlayCharacter(s) \/ KickPlayer(s)
      BY <1>2
    <2>2. CalmStep \/ HandlePlayerLogin(s) \/ StartsLogin(s)
      BY <2>1, InPlaceIsCalm
    <2> QED BY <1>1, <2>2, CalmStepsKeepLogins, StartKeepsLogins
  <1>3. CASE KickAll
    BY <1>1, <1>3, KickAllIsCalm, CalmStepsKeepLogins
  <1>4. CASE \E l \in Limits : SetPlayerLimit(l)
    <2>1. CalmStep
      BY <1>4 DEF SetPlayerLimit, CalmStep, Calm
    <2> QED BY <1>1, <2>1, CalmStepsKeepLogins
  <1> QED BY <1>2, <1>3, <1>4 DEF CommandStep

LEMMA StepKeepsLogins ==
    ASSUME IInv, LoginsInv, Next
    PROVE  KeepsLogins
  <1>1. CASE ProcessRequest
    <2>1. CalmStep
      BY <1>1 DEF ProcessRequest, CalmStep, Calm
    <2> QED BY <1>1, <2>1, ProcessRequestKeepsLogins DEF KeepsLogins
  <1>2. CASE BeginUpdateSessions \/ EndUpdateSessions \/ EndTick \/ \E a \in Accounts : BeginUpdate(a)
    <2>1. UNCHANGED <<session, delayQueue, stored, lastSave, resultQueue>>
      BY <1>2 DEF BeginUpdateSessions, EndUpdateSessions, EndTick, BeginUpdate, dbVars, charVars
    <2>2. CalmStep
      BY <2>1 DEF CalmStep, Calm
    <2> QED BY <2>1, <2>2, CalmStepsKeepLogins
  <1> QED BY <1>1, <1>2, NetworkKeepsLogins, UpdateStepKeepsLogins, UpdateEndsKeepsLogins,
             AddingKeepsLogins, ResultsKeepLogins, CommandsKeepLogins DEF Next, WorldStep

LEMMA LoginsInvHolds == Spec => []LoginsInv
  <1>1. Init => LoginsInv
    <2> SUFFICES ASSUME Init PROVE LoginsInv
      OBVIOUS
    <2>1. \A s \in Sessions : ~session[s].loading
      BY DEF Init, NewSession
    <2>2. delayQueue = <<>> /\ \A a \in Accounts : stored[a] = lastSave[a]
      BY DEF Init
    <2>3. \A a \in Accounts : SavesArrive(delayQueue, a, stored[a], lastSave[a])
      BY <2>2 DEF SavesArrive
    <2> QED BY <2>1, <2>3 DEF LoginsInv, LoadersHaveNoPlayer, EveryAccountSaved, LoadersAwait
  <1>2. IInv /\ LoginsInv /\ [Next]_vars => LoginsInv'
    <2> SUFFICES ASSUME IInv, LoginsInv, [Next]_vars PROVE LoginsInv'
      OBVIOUS
    <2>1. CASE Next
      BY <2>1, StepKeepsLogins DEF KeepsLogins
    <2>2. CASE UNCHANGED vars
      BY <2>2 DEF vars, dbVars, charVars, LoginsInv, LoadersHaveNoPlayer, EveryAccountSaved, LoadersAwait
    <2> QED BY <2>1, <2>2
  <1> QED BY <1>1, <1>2, InvariantHolds, PTL DEF Spec

\* The answer to the only login under way of an account that is being loaded is
\* its last save: no login is left in the queue of requests, so no save is.
LEMMA OnlyAnswerIsLastSave ==
    ASSUME IInv, LoginsInv, NEW s \in Sessions, session[s].loading, HandlePlayerLogin(s),
           LoginsUnderWay(session[s].account) = 1
    PROVE  Answer.state = lastSave[session[s].account]
  <1> DEFINE a == session[s].account
             waiting  == Logins(delayQueue, a)
             answered == Logins(resultQueue, a)
  <1>1. /\ resultQueue # <<>> /\ resultQueue \in Seq(Result) /\ delayQueue \in Seq(Request)
        /\ Answer = resultQueue[1] /\ Answer.op = "login" /\ m_sessions[Answer.account] = s
        /\ Len(resultQueue) \in Nat /\ Len(delayQueue) \in Nat /\ Len(resultQueue) > 0
    BY DEF HandlePlayerLogin, Answering, FindSession, Answer, IInv, TypeOK
  <1>2. Answer.account \in Accounts
    <2>1. Answer \in Result
      BY <1>1 DEF Answer
    <2> QED BY <2>1 DEF Result
  <1>3. Answer.account = a /\ a \in Accounts
    BY <1>1, <1>2, LoaderIsMapped, MappedIsLive, ConstantsAssumption DEF IInv, FindSession
  <1>4. IsFiniteSet(waiting) /\ IsFiniteSet(answered)
    <2>1. IsFiniteSet(1..Len(delayQueue)) /\ IsFiniteSet(1..Len(resultQueue))
      BY <1>1, FS_Interval
    <2>2. waiting \in SUBSET (1..Len(delayQueue)) /\ answered \in SUBSET (1..Len(resultQueue))
      BY DEF Logins
    <2> HIDE DEF waiting, answered
    <2> QED BY <2>1, <2>2, FS_Subset
  <1>5. 1 \in answered
    BY <1>1, <1>3 DEF Logins
  <1>6. Cardinality(waiting) \in Nat /\ Cardinality(answered) \in Nat
        /\ Cardinality(waiting) + Cardinality(answered) = 1
    BY <1>4, FS_CardinalityType DEF LoginsUnderWay
  <1> HIDE DEF waiting, answered
  <1>7. Cardinality(answered) # 0
    BY <1>4, <1>5, FS_EmptySet
  <1>8. Cardinality(waiting) = 0 /\ Cardinality(answered) = 1
    BY <1>6, <1>7
  <1>9. waiting = {}
    BY <1>4, <1>8, FS_EmptySet
  <1>10. answered = {1}
    <2>1. PICK x : answered = {x}
      BY <1>4, <1>8, FS_Singleton
    <2> QED BY <1>5, <2>1
  <1>11. \A i \in 1..Len(delayQueue) : ~IsFor(delayQueue[i], "login", a)
    BY <1>9 DEF waiting, Logins, IsFor
  <1>12. \A j \in 1 + 1..Len(resultQueue) : ~IsFor(resultQueue[j], "login", a)
    <2>1. \A j \in 1 + 1..Len(resultQueue) : j \in 1..Len(resultQueue) /\ j # 1
      BY <1>1
    <2> QED BY <1>10, <2>1 DEF answered, Logins, IsFor
  <1>13. SavesComeFirst(delayQueue, a) /\ AnswerIsFresh(delayQueue, resultQueue, a, stored[a])
         /\ SavesArrive(delayQueue, a, stored[a], lastSave[a])
    BY <1>3 DEF LoginsInv, LoadersAwait, EveryAccountSaved
  <1>14. Answer.state = stored[a]
    <2>1. LastAnswerIs(resultQueue, a, stored[a])
      BY <1>11, <1>13 DEF AnswerIsFresh
    <2>2. 1 \in 1..Len(resultQueue) /\ IsFor(resultQueue[1], "login", a)
      BY <1>1, <1>3 DEF IsFor
    <2> QED BY <1>1, <1>12, <2>1, <2>2 DEF LastAnswerIs
  <1>15. \A i \in 1..Len(delayQueue) : ~IsFor(delayQueue[i], "save", a)
    <2> SUFFICES ASSUME NEW i \in 1..Len(delayQueue), IsFor(delayQueue[i], "save", a) PROVE FALSE
      OBVIOUS
    <2>1. PICK j \in i + 1..Len(delayQueue) : IsFor(delayQueue[j], "login", a)
      BY <1>13 DEF SavesComeFirst
    <2>2. j \in 1..Len(delayQueue)
      BY <1>1, <2>1
    <2> QED BY <1>11, <2>1, <2>2
  <1>16. stored[a] = lastSave[a]
    BY <1>13, <1>15 DEF SavesArrive
  <1> QED BY <1>14, <1>16

\* LoginSeesLastSave: a login that its session waits for finds the last state the
\* character was saved in, whoever saved it and however far the saves are behind.
THEOREM LoginsSeeTheLastSave == Spec => LoginSeesLastSave
  <1> DEFINE Step ==
                \A s \in Sessions :
                    session[s].loading /\ LoginsUnderWay(session[s].account) = 1
                    /\ session[s].player = NULL /\ session'[s].player # NULL
                       => session'[s].player = lastSave[session[s].account]
  <1>1. ASSUME IInv, LoginsInv, Next, NEW s \in Sessions,
               session[s].loading, LoginsUnderWay(session[s].account) = 1,
               session[s].player = NULL, session'[s].player # NULL
        PROVE  session'[s].player = lastSave[session[s].account]
    <2>1. ~Calm(session'[s], session[s])
      BY <1>1 DEF Calm
    <2>2. ~CalmStep
      BY <2>1 DEF CalmStep
    <2>3. PICK t \in Sessions : HandlePlayerLogin(t) \/ StartsLogin(t)
      BY <1>1, <2>2, StepKeepsLogins DEF KeepsLogins
    <2>4. session'[s] # session[s]
      BY <1>1
    <2>5. CASE HandlePlayerLogin(t)
      <3>1. session' = [session EXCEPT ![t] = [session[t] EXCEPT
                            !.player = Answer.state, !.loading = FALSE, !.screen = "world"]]
        BY <2>5 DEF HandlePlayerLogin
      <3>2. s = t /\ session'[s].player = Answer.state
        BY <1>1, <2>4, <3>1 DEF IInv, TypeOK, SessionRec
      <3> QED BY <1>1, <2>5, <3>2, OnlyAnswerIsLastSave
    <2>6. CASE StartsLogin(t)
      <3>1. /\ session' = [session EXCEPT ![t] = [Taken(t) EXCEPT !.loading = TRUE]]
            /\ ~session[t].loading
        BY <2>6 DEF StartsLogin, HandlePlayerLoginOpcode, MayStartLogin
      <3>2. session'[s] = session[s]
        BY <1>1, <3>1 DEF IInv, TypeOK
      <3> QED BY <2>4, <3>2
    <2> QED BY <2>3, <2>5, <2>6
  <1>2. ASSUME UNCHANGED vars, NEW s \in Sessions, session[s].player = NULL, session'[s].player # NULL
        PROVE  FALSE
    BY <1>2 DEF vars
  <1>3. IInv /\ LoginsInv /\ [Next]_vars => [Step]_vars
    BY <1>1
  <1>4. LoginSeesLastSave <=> [][Step]_vars
    BY PTL DEF LoginSeesLastSave, Step
  <1> QED BY <1>3, <1>4, InvariantHolds, LoginsInvHolds, PTL DEF Spec

(***************************************************************************)
(* Counting.  The server counts the accounts in its map and the places in  *)
(* its queue; both are counts of sessions, because an account has one live *)
(* session and a session has one place.                                    *)
(***************************************************************************)
Live   == {s \in Sessions : session[s].life = "live"}
Queued == Range(m_QueuedSessions)

\* The sessions that have passed the login queue.
Passed == Live \ Queued

\* The players among them who are connected.
Active == {s \in Sessions : Open(s) /\ ~session[s].inQueue /\ session[s].account \notin Staff}

\* As many as the server counts.
LEMMA CountsAreRight ==
    ASSUME IInv
    PROVE  /\ IsFiniteSet(Live) /\ Cardinality(Live) = Cardinality(Mapped)
           /\ Queued \subseteq Live /\ Active \subseteq Passed
           /\ Passed \subseteq Live /\ IsFiniteSet(Passed)
           /\ GetActiveSessionCount = Cardinality(Passed)
           /\ GetActiveSessionCount \in Nat /\ Cardinality(Mapped) \in Nat
  <1> DEFINE f == [a \in Mapped |-> m_sessions[a]]
             q == m_QueuedSessions
  <1>1. IsFiniteSet(Mapped) /\ Cardinality(Mapped) \in Nat
    BY ConstantsAssumption, FS_Subset, FS_CardinalityType DEF Mapped
  <1>2. ExistsBijection(Mapped, Live)
    <2>1. \A a \in Mapped : m_sessions[a] \in Live /\ session[m_sessions[a]].account = a
      BY DEF Mapped, Live, IInv, TypeOK, Links, SessionsLinked
    <2>2. \A s \in Live : session[s].account \in Mapped /\ m_sessions[session[s].account] = s
      BY ConstantsAssumption DEF Mapped, Live, IInv, Links, SessionsLinked
    <2>3. f \in [Mapped -> Live] /\ \A a \in Mapped : f[a] = m_sessions[a]
      BY <2>1
    <2> HIDE DEF f
    <2>4. f \in Bijection(Mapped, Live)
      BY <2>1, <2>2, <2>3 DEF Bijection, Injection, Surjection, IsInjective
    <2> QED BY <2>4 DEF ExistsBijection
  <1>3. IsFiniteSet(Live) /\ Cardinality(Live) = Cardinality(Mapped)
    BY <1>1, <1>2, FS_Bijection
  <1>4. q \in Seq(Sessions) /\ IsInjective(q) /\ Range(q) \subseteq Sessions
    BY RangeOfSeq DEF IInv, TypeOK, Links, QueueLinked, Range
  <1>5. Queued \subseteq Live
    BY <1>4 DEF Queued, Live, IInv, Links, QueueLinked
  <1>6. Active \subseteq Passed /\ Passed \subseteq Live
    BY <1>5 DEF Active, Passed, Live, Queued, Open, IInv, Links, QueueLinked
  <1>7. IsFiniteSet(Queued) /\ Cardinality(Queued) = Len(q) /\ Len(q) \in Nat
    <2>1. Len(q) \in Nat /\ DOMAIN q = 1..Len(q) /\ \A i \in 1..Len(q) : q[i] \in Queued
      BY <1>4, InRange DEF Queued
    <2>2. IsFiniteSet(1..Len(q)) /\ Cardinality(1..Len(q)) = Len(q)
      BY <2>1, FS_Interval
    <2>3. \A s \in Queued : \E i \in 1..Len(q) : q[i] = s
      BY <1>4, <2>1 DEF Queued, Range
    <2>4. q \in [1..Len(q) -> Queued]
      BY <1>4, <2>1
    <2>5. \A i, j \in 1..Len(q) : q[i] = q[j] => i = j
      BY <1>4, <2>1 DEF IsInjective
    <2>6. q \in Bijection(1..Len(q), Queued)
      BY <2>1, <2>3, <2>4, <2>5 DEF Bijection, Injection, Surjection, IsInjective
    <2>7. ExistsBijection(1..Len(q), Queued)
      BY <2>6 DEF ExistsBijection
    <2> QED BY <2>1, <2>2, <2>7, FS_Bijection
  <1>8. /\ IsFiniteSet(Passed)
        /\ Cardinality(Passed) = Cardinality(Live) - Cardinality(Live \cap Queued)
        /\ Cardinality(Passed) \in Nat
    BY <1>3, FS_Difference, FS_CardinalityType DEF Passed
  <1>9. Live \cap Queued = Queued
    BY <1>5
  <1>10. GetActiveSessionCount = Cardinality(Passed)
    BY <1>3, <1>7, <1>8, <1>9 DEF GetActiveSessionCount
  <1> QED BY <1>1, <1>3, <1>5, <1>6, <1>8, <1>10

\* What RemoveQueuedSession(s) decides: it fills the place s leaves, if any, when
\* there is room among those who remain and somebody waits.
LEMMA RemovalAdmits ==
    ASSUME IInv, NEW s \in Live
    PROVE  LET rm == RemoveQueuedSession(s)
               n  == Cardinality(Passed \ {s})
           IN  /\ n \in Nat
               /\ rm.found <=> s \in Queued
               /\ rm.next # NULL => RoomFor(n)
               /\ rm.next = NULL => ~RoomFor(n) \/ Queued \subseteq {s}
               /\ s \in Queued => n = Cardinality(Passed)
               /\ s \notin Queued => n = Cardinality(Passed) - 1
  <1> DEFINE rm     == RemoveQueuedSession(s)
             n      == Cardinality(Passed \ {s})
             active == GetActiveSessionCount
             found  == Contains(m_QueuedSessions, s)
             rest   == QueueWithout(s)
  <1>1. s \in Sessions /\ s # NULL
    BY ConstantsAssumption DEF Live
  <1>2. /\ active = Cardinality(Passed) /\ active \in Nat /\ IsFiniteSet(Passed)
    BY CountsAreRight
  <1>3. /\ rest \in Seq(Sessions) /\ Range(rest) = Queued \ {s}
        /\ rest # <<>> => Head(rest) # NULL
    BY <1>1, QueueWithoutTakesOne DEF IInv, Links, QueueLinked, Queued
  <1>4. found <=> s \in Queued
    <2>1. m_QueuedSessions \in Seq(Sessions)
      BY DEF IInv, TypeOK
    <2> QED BY <2>1, InRange DEF Contains, Queued
  <1>5. /\ n \in Nat
        /\ s \in Queued => n = Cardinality(Passed)
        /\ s \notin Queued => n = Cardinality(Passed) - 1 /\ active > 0
    <2>1. s \in Passed <=> s \notin Queued
      BY DEF Passed
    <2>2. IsFiniteSet(Passed \ {s})
          /\ n = IF s \in Passed THEN Cardinality(Passed) - 1 ELSE Cardinality(Passed)
      BY <1>2, FS_RemoveElement
    <2>3. n \in Nat
      BY <2>2, FS_CardinalityType
    <2> QED BY <1>2, <2>1, <2>2, <2>3
  <1> DEFINE k == IF ~found /\ active > 0 THEN active - 1 ELSE active
             pop == RoomFor(k) /\ rest # <<>>
  <1>6. /\ rm.found = found
        /\ rm.next = IF pop THEN Head(rest) ELSE NULL
    BY DEF RemoveQueuedSession
  <1> HIDE DEF rm, n, active, found, rest
  <1>7. k = n
    BY <1>2, <1>4, <1>5
  <1>8. rest = <<>> => Queued \subseteq {s}
    <2>1. rest = <<>> => Range(rest) = {}
      BY DEF Range
    <2> QED BY <1>3, <2>1
  <1> HIDE DEF k
  <1>9. rm.found <=> s \in Queued
    BY <1>4, <1>6
  <1> QED BY <1>3, <1>5, <1>6, <1>7, <1>8, <1>9 DEF rm, n

(***************************************************************************)
(* How a step moves the sessions.  One session may leave, at most one may  *)
(* be admitted, at most one may come.                                      *)
(***************************************************************************)
\* leaver and newcomer are sets of at most one session; admitted is what is admitted
\* in the leaver's stead.
Moves(leaver, admitted, newcomer, waits) ==
    /\ Live' = (Live \ leaver) \cup newcomer
    /\ Queued' = (Queued \ (leaver \cup admitted)) \cup (IF waits THEN newcomer ELSE {})
    /\ Active' \subseteq ((Active \ leaver) \cup admitted)
                            \cup {s \in newcomer : ~waits /\ session[s].account \notin Staff}

LEMMA RemovalMoves ==
    ASSUME IInv, NEW s \in Sessions, UpdateRemovesSession(s)
    PROVE  LET rm == RemoveQueuedSession(s)
           IN  /\ s \in Live
               /\ Moves({s}, {rm.next} \ {NULL}, {}, FALSE)
               /\ rm.next # NULL => rm.next \in Queued \ {s}
               /\ m_playerLimit' = m_playerLimit
  <1> DEFINE rm == RemoveQueuedSession(s)
             admitted == {rm.next} \ {NULL}
  <1>1. /\ updating \in Accounts /\ FindSession(updating) = s /\ s # NULL
        /\ session' = [t \in Sessions |->
                 CASE t = s -> Deleted(s)
                   [] t = rm.next -> Admitted(session[t])
                   [] OTHER -> session[t]]
        /\ m_QueuedSessions' = rm.queue
        /\ m_playerLimit' = m_playerLimit
    BY ConstantsAssumption DEF UpdateRemovesSession, IInv, TypeOK
  <1>2. session[s].life = "live"
    BY <1>1, MappedIsLive DEF IInv
  <1>3. /\ Range(rm.queue) = Queued \ {s, rm.next}
        /\ rm.next # NULL => rm.next \in Queued \ {s}
        /\ Queued \subseteq Sessions
    <2>1. TypeOK /\ IsInjective(m_QueuedSessions)
      BY DEF IInv, Links, QueueLinked
    <2>2. Queued \subseteq Sessions
      BY <2>1, RangeOfSeq DEF TypeOK, Queued, Range
    <2> QED BY <2>1, <2>2, RemoveQueuedSessionTakesTwo DEF Queued
  <1> HIDE DEF rm
  <1>4. ASSUME NEW t \in Sessions
        PROVE  /\ t = s => session'[t] = Deleted(s)
               /\ t # s /\ t = rm.next => session'[t] = Admitted(session[t])
               /\ t # s /\ t # rm.next => session'[t] = session[t]
    BY <1>1, <1>3
  <1>5. Deleted(s).life = "deleted"
    BY DeletedType DEF IInv
  <1>6. \A t \in Sessions : Admitted(session[t]).life = session[t].life
    BY RecordTypes DEF IInv, TypeOK, SessionRec
  <1>7. Live' = Live \ {s}
    BY <1>4, <1>5, <1>6 DEF Live
  <1>8. NULL \notin Queued
    BY <1>3, ConstantsAssumption
  <1>9. Queued' = Queued \ ({s} \cup admitted)
    BY <1>1, <1>3, <1>8 DEF Queued
  <1>10. Active' \subseteq (Active \ {s}) \cup admitted
    <2> SUFFICES ASSUME NEW t \in Active' PROVE t \in (Active \ {s}) \cup admitted
      OBVIOUS
    <2>1. t \in Sessions /\ Open(t)'
      BY DEF Active
    <2>2. t # s
      BY <1>4, <1>5, <2>1 DEF Open
    <2>3. CASE t = rm.next
      BY <2>1, <2>3, ConstantsAssumption
    <2>4. CASE t # rm.next
      BY <1>4, <2>1, <2>2, <2>4 DEF Active, Open
    <2> QED BY <2>3, <2>4
  <1> QED BY <1>1, <1>2, <1>3, <1>7, <1>9, <1>10 DEF Moves, Live, rm

LEMMA ReplacementMoves ==
    ASSUME IInv, AddSession_Replace
    PROVE  LET s   == Head(addSessQueue)
               old == FindSession(session[s].account)
               rm  == RemoveQueuedSession(old)
               n   == IF rm.found THEN Cardinality(Mapped) ELSE Cardinality(Mapped) - 1
           IN  /\ old \in Live /\ s \in Sessions \ Live
               /\ Moves({old}, {rm.next} \ {NULL}, {s}, MustQueue(s, n))
               /\ rm.next # NULL => rm.next \in Queued \ {old}
               /\ m_playerLimit' = m_playerLimit
  <1> DEFINE s   == Head(addSessQueue)
             a   == session[s].account
             old == FindSession(a)
             rm  == RemoveQueuedSession(old)
             n   == IF rm.found THEN Cardinality(Mapped) ELSE Cardinality(Mapped) - 1
             waits == MustQueue(s, n)
             admitted == {rm.next} \ {NULL}
  <1>1. /\ addSessQueue # <<>> /\ old # NULL
        /\ session' = [t \in Sessions |->
                 CASE t = s -> [session[s] EXCEPT !.life = "live", !.inQueue = waits]
                   [] t = old -> Deleted(old)
                   [] t = rm.next -> Admitted(session[t])
                   [] OTHER -> session[t]]
        /\ m_QueuedSessions' = IF waits THEN Append(rm.queue, s) ELSE rm.queue
        /\ m_playerLimit' = m_playerLimit
    BY DEF AddSession_Replace, worldVars
  <1>2. s \in Sessions /\ session[s].life = "added" /\ a \in Accounts
    BY <1>1, HeadIsAdded DEF IInv
  <1>3. old \in Sessions /\ session[old].life = "live"
    BY <1>1, <1>2, MappedIsLive DEF IInv
  <1>4. waits \in BOOLEAN
    BY DEF MustQueue
  <1> HIDE DEF s, old, n, waits
  <1>5. /\ rm.queue \in Seq(Sessions)
        /\ IsInjective(rm.queue)
        /\ Range(rm.queue) = Queued \ {old, rm.next}
        /\ rm.next # NULL => rm.next \in Queued \ {old}
        /\ Queued \subseteq Sessions
    <2>1. TypeOK /\ IsInjective(m_QueuedSessions)
      BY DEF IInv, Links, QueueLinked
    <2>2. Queued \subseteq Sessions
      BY <2>1, RangeOfSeq DEF TypeOK, Queued, Range
    <2> QED BY <1>3, <2>1, <2>2, RemoveQueuedSessionTakesTwo DEF Queued
  <1> HIDE DEF rm
  <1>6. Queued \subseteq Live
    BY CountsAreRight
  <1>7. s \notin Live /\ old \in Live /\ s # old
    BY <1>2, <1>3 DEF Live
  <1>8. rm.next # s
    BY <1>2, <1>5, <1>6, <1>7, ConstantsAssumption
  <1>9. ASSUME NEW t \in Sessions
        PROVE  /\ t = s => session'[t] = [session[s] EXCEPT !.life = "live", !.inQueue = waits]
               /\ t = old => session'[t] = Deleted(old)
               /\ t # s /\ t # old /\ t = rm.next => session'[t] = Admitted(session[t])
               /\ t # s /\ t # old /\ t # rm.next => session'[t] = session[t]
    BY <1>1, <1>5, <1>7, <1>8
  <1>10. Deleted(old).life = "deleted"
    BY <1>3, DeletedType DEF IInv
  <1>11. \A t \in Sessions : Admitted(session[t]).life = session[t].life
    BY RecordTypes DEF IInv, TypeOK, SessionRec
  <1>12. session'[s].life = "live" /\ session'[s].inQueue = waits /\ session'[s].account = session[s].account
    BY <1>2, <1>9 DEF IInv, TypeOK, SessionRec
  <1>13. Live' = (Live \ {old}) \cup {s}
    BY <1>2, <1>9, <1>10, <1>11, <1>12 DEF Live
  <1>14. NULL \notin Queued
    BY <1>5, ConstantsAssumption
  <1>15. Queued' = (Queued \ ({old} \cup admitted)) \cup (IF waits THEN {s} ELSE {})
    <2>1. CASE waits
      <3>1. Range(Append(rm.queue, s)) = Range(rm.queue) \cup {s}
        <4>1. s \notin Range(rm.queue)
          BY <1>5, <1>6, <1>7
        <4> QED BY <1>2, <1>5, <4>1, AppendKeepsOthers
      <3> QED BY <1>1, <1>5, <1>14, <2>1, <3>1 DEF Queued
    <2>2. CASE ~waits
      BY <1>1, <1>5, <1>14, <2>2 DEF Queued
    <2> QED BY <2>1, <2>2
  <1>16. Active' \subseteq ((Active \ {old}) \cup admitted)
                               \cup {t \in {s} : ~waits /\ session[t].account \notin Staff}
    <2> SUFFICES ASSUME NEW t \in Active', t \notin admitted, t # s PROVE t \in Active \ {old}
      BY <1>12 DEF Active
    <2>1. t \in Sessions /\ Open(t)'
      BY DEF Active
    <2>2. t # old /\ t # rm.next
      BY <1>9, <1>10, <2>1, ConstantsAssumption DEF Open
    <2> QED BY <1>9, <2>1, <2>2 DEF Active, Open
  <1>17. Moves({old}, admitted, {s}, waits)
    BY <1>13, <1>15, <1>16 DEF Moves
  <1> QED BY <1>1, <1>2, <1>5, <1>7, <1>17 DEF rm, s, old, n, waits

LEMMA NewcomerMoves ==
    ASSUME IInv, AddSession_New
    PROVE  LET s == Head(addSessQueue)
           IN  /\ s \in Sessions \ Live
               /\ Moves({}, {}, {s}, MustQueue(s, Cardinality(Mapped)))
               /\ m_playerLimit' = m_playerLimit
  <1> DEFINE s     == Head(addSessQueue)
             waits == MustQueue(s, Cardinality(Mapped))
  <1>1. /\ addSessQueue # <<>>
        /\ session' = [session EXCEPT ![s].life = "live", ![s].inQueue = waits]
        /\ m_QueuedSessions' = IF waits THEN Append(m_QueuedSessions, s) ELSE m_QueuedSessions
        /\ m_playerLimit' = m_playerLimit
    BY DEF AddSession_New, worldVars
  <1>2. s \in Sessions /\ session[s].life = "added"
    BY <1>1, HeadIsAdded DEF IInv
  <1>3. waits \in BOOLEAN
    BY DEF MustQueue
  <1> HIDE DEF s, waits
  <1>4. s \notin Live /\ Queued \subseteq Live
    BY <1>2, CountsAreRight DEF Live
  <1>5. /\ session'[s].life = "live" /\ session'[s].inQueue = waits
        /\ session'[s].account = session[s].account
        /\ \A t \in Sessions \ {s} : session'[t] = session[t]
    BY <1>1, <1>2 DEF IInv, TypeOK, SessionRec
  <1>6. Live' = Live \cup {s}
    BY <1>2, <1>5 DEF Live
  <1>7. Queued' = Queued \cup (IF waits THEN {s} ELSE {})
    <2>1. CASE waits
      <3>1. Range(Append(m_QueuedSessions, s)) = Range(m_QueuedSessions) \cup {s}
        <4>1. s \notin Range(m_QueuedSessions)
          BY <1>4 DEF Queued
        <4>2. m_QueuedSessions \in Seq(Sessions) /\ IsInjective(m_QueuedSessions)
          BY DEF IInv, TypeOK, Links, QueueLinked
        <4> QED BY <1>2, <4>1, <4>2, AppendKeepsOthers
      <3> QED BY <1>1, <2>1, <3>1 DEF Queued
    <2>2. CASE ~waits
      BY <1>1, <2>2 DEF Queued
    <2> QED BY <2>1, <2>2
  <1>8. Active' \subseteq Active \cup {t \in {s} : ~waits /\ session[t].account \notin Staff}
    BY <1>5 DEF Active, Open
  <1>9. Moves({}, {}, {s}, waits)
    BY <1>6, <1>7, <1>8 DEF Moves
  <1> QED BY <1>1, <1>2, <1>4, <1>9 DEF s, waits

\* Every other step leaves everybody where he is, or only empties the queue.
Stays ==
    /\ Live' = Live /\ Active' \subseteq Active
    /\ Queued' = Queued \/ Queued' = {}

LEMMA SameStandingStays ==
    ASSUME IInv, \A t \in Sessions : SameStanding(session'[t], session[t]),
           UNCHANGED m_QueuedSessions
    PROVE  Stays
  BY DEF Stays, Live, Queued, Active, Open, SameStanding

LEMMA InPlaceStays ==
    ASSUME IInv, NEW s \in Sessions,
           \/ \E p \in Packets : QueuePacket(s, p)
           \/ handle_close(s) \/ UpdateStep(s) \/ UpdateKeepsSession(s)
           \/ HandleCharEnumCallback(s) \/ HandlePlayerLogin(s)
           \/ HandlePlayerLogin_LoadFails(s) \/ PlayCharacter(s) \/ KickPlayer(s)
    PROVE  Stays /\ m_playerLimit' = m_playerLimit
  <1>1. TypeOK
    BY DEF IInv
  <1>2. \A t \in Sessions : SameStanding(session'[t], session[t])
    BY <1>1, InPlaceStepsKeepStanding
  <1>3. UNCHANGED m_QueuedSessions /\ m_playerLimit' = m_playerLimit
    BY DEF QueuePacket, handle_close, UpdateStep, DropWhileQueued, HandleCharEnumOpcode,
           HandlePlayerLoginOpcode, SkipNotLoggedIn, HandleLogoutRequestOpcode,
           HandleLogoutCancelOpcode, UpdateKeepsSession, HandleCharEnumCallback,
           HandlePlayerLogin, HandlePlayerLogin_LoadFails, PlayCharacter, KickPlayer, worldVars
  <1> QED BY <1>2, <1>3, SameStandingStays

LEMMA OutsideStays ==
    ASSUME IInv,
           \/ \E s \in Sessions, a \in Accounts : HandleAuthSession(s, a)
           \/ AddSession_Refused \/ KickAll
    PROVE  Stays /\ m_playerLimit' = m_playerLimit
  <1>1. CASE \E s \in Sessions, a \in Accounts : HandleAuthSession(s, a)
    <2>1. PICK s \in Sessions, a \in Accounts : HandleAuthSession(s, a)
      BY <1>1
    <2>2. /\ session[s].life = "new" /\ session'[s].life = "added"
          /\ \A t \in Sessions \ {s} : session'[t] = session[t]
          /\ UNCHANGED m_QueuedSessions /\ m_playerLimit' = m_playerLimit
      BY <2>1 DEF HandleAuthSession, IInv, TypeOK, SessionRec, worldVars
    <2> QED BY <2>2 DEF Stays, Live, Queued, Active, Open
  <1>2. CASE AddSession_Refused
    <2> DEFINE s == Head(addSessQueue)
    <2>1. /\ addSessQueue # <<>> /\ session' = [session EXCEPT ![s] = Deleted(s)]
          /\ UNCHANGED m_QueuedSessions /\ m_playerLimit' = m_playerLimit
      BY <1>2 DEF AddSession_Refused, worldVars
    <2>2. s \in Sessions /\ session[s].life = "added"
      BY <2>1, HeadIsAdded DEF IInv
    <2> HIDE DEF s
    <2>3. Deleted(s).life = "deleted"
      BY <2>2, DeletedType DEF IInv
    <2>4. /\ session'[s].life = "deleted"
          /\ \A t \in Sessions \ {s} : session'[t] = session[t]
      BY <2>1, <2>2, <2>3 DEF IInv, TypeOK
    <2> QED BY <2>1, <2>2, <2>4 DEF Stays, Live, Queued, Active, Open
  <1>3. CASE KickAll
    <2>1. /\ m_QueuedSessions' = <<>> /\ m_playerLimit' = m_playerLimit
          /\ \A t \in Sessions : \/ session'[t] = Kicked(session[t])
                                 \/ session'[t] = session[t]
      BY <1>3 DEF KickAll, worldVars
    <2>2. ASSUME NEW t \in Sessions
          PROVE  SameStanding(session'[t], session[t])
      <3>1. session[t] \in SessionRec
        BY DEF IInv, TypeOK
      <3> QED BY <2>1, <3>1, RecordTypes DEF SameStanding
    <2>3. Queued' = {}
      BY <2>1 DEF Queued, Range
    <2> QED BY <2>1, <2>2, <2>3 DEF Stays, Live, Active, Open, SameStanding
  <1> QED BY <1>1, <1>2, <1>3

(***************************************************************************)
(* What the steps do to the counts.                                        *)
(***************************************************************************)
Counts ==
    /\ IsFiniteSet(Passed) /\ Cardinality(Passed) \in Nat
    /\ Queued \subseteq Live /\ Active \subseteq Passed
    /\ IsFiniteSet(Active) /\ Cardinality(Active) \in Nat
    /\ ActivePlayers = Cardinality(Active)
    /\ m_playerLimit \in Int
    /\ QueueIdles <=> /\ m_playerLimit = 0 \/ Cardinality(Passed) < m_playerLimit
                      /\ Queued # {}

LEMMA CountsHold ==
    ASSUME IInv
    PROVE  Counts
  <1>1. /\ Queued \subseteq Live /\ Active \subseteq Passed
        /\ IsFiniteSet(Passed) /\ Cardinality(Passed) \in Nat
        /\ GetActiveSessionCount = Cardinality(Passed)
    BY CountsAreRight
  <1>2. IsFiniteSet(Active) /\ Cardinality(Active) \in Nat
    BY <1>1, FS_Subset, FS_CardinalityType
  <1>3. ActivePlayers = Cardinality(Active)
    BY DEF ActivePlayers, Active
  <1>4. m_playerLimit \in Int
    BY ConstantsAssumption DEF IInv, TypeOK
  <1>5. m_QueuedSessions # <<>> <=> Queued # {}
    <2>1. m_QueuedSessions \in Seq(Sessions)
      BY DEF IInv, TypeOK
    <2>2. m_QueuedSessions # <<>> => Head(m_QueuedSessions) \in Queued
      BY <2>1, InRange, HeadTailProperties DEF Queued
    <2>3. m_QueuedSessions = <<>> => Queued = {}
      BY DEF Queued, Range
    <2> QED BY <2>2, <2>3
  <1>6. QueueIdles <=> /\ m_playerLimit = 0 \/ Cardinality(Passed) < m_playerLimit
                       /\ Queued # {}
    BY <1>1, <1>5 DEF QueueIdles
  <1> QED BY <1>1, <1>2, <1>3, <1>4, <1>6 DEF Counts

\* One who was not among them makes one more.
LEMMA OneMore ==
    ASSUME NEW S, IsFiniteSet(S), NEW x, x \notin S
    PROVE  Cardinality(S \cup {x}) = Cardinality(S) + 1 /\ Cardinality(S) \in Nat
  BY FS_AddElement, FS_CardinalityType

\* What a step may do to the counts while the limit stays as it is.
Bounded ==
    /\ QueueIdles' => QueueIdles
    /\ m_playerLimit > 0 /\ ActivePlayers' > m_playerLimit => ActivePlayers' <= ActivePlayers

LEMMA StaysIsBounded ==
    ASSUME Counts, Counts', Stays, m_playerLimit' = m_playerLimit
    PROVE  Bounded
  <1>1. Cardinality(Active') <= Cardinality(Active)
    BY FS_Subset DEF Counts, Stays
  <1>2. /\ ActivePlayers = Cardinality(Active)
        /\ ActivePlayers' = Cardinality(Active')
        /\ Cardinality(Active) \in Nat /\ Cardinality(Active') \in Nat
    BY DEF Counts
  <1>3. Queued' # {} => Queued' = Queued /\ Passed' = Passed
    BY DEF Stays, Passed
  <1>4. QueueIdles' => QueueIdles
    BY <1>3 DEF Counts
  <1> QED BY <1>1, <1>2, <1>4 DEF Bounded, Counts

LEMMA RemovalIsBounded ==
    ASSUME IInv, Counts, Counts', NEW s \in Sessions, UpdateRemovesSession(s)
    PROVE  Bounded
  <1> DEFINE rm  == RemoveQueuedSession(s)
             adm == {rm.next} \ {NULL}
             n   == Cardinality(Passed \ {s})
  <1>1. /\ s \in Live
        /\ Moves({s}, adm, {}, FALSE)
        /\ rm.next # NULL => rm.next \in Queued \ {s}
        /\ m_playerLimit' = m_playerLimit
    BY RemovalMoves
  <1>2. /\ n \in Nat
        /\ rm.next # NULL => RoomFor(n)
        /\ rm.next = NULL => ~RoomFor(n) \/ Queued \subseteq {s}
        /\ s \in Queued => n = Cardinality(Passed)
        /\ s \notin Queued => n = Cardinality(Passed) - 1
    BY <1>1, RemovalAdmits
  <1> HIDE DEF rm, n
  <1>3. Passed' = (Passed \ {s}) \cup adm
    <2>1. adm \subseteq Queued \ {s}
      BY <1>1
    <2>2. Live' = Live \ {s} /\ Queued' = Queued \ ({s} \cup adm)
      BY <1>1 DEF Moves
    <2>3. Queued \subseteq Live
      BY DEF Counts
    <2> HIDE DEF adm
    <2> QED BY <2>1, <2>2, <2>3 DEF Passed
  <1>4. Queued' = Queued \ ({s} \cup adm) /\ Active' \subseteq (Active \ {s}) \cup adm
    BY <1>1 DEF Moves
  <1>5. /\ ActivePlayers = Cardinality(Active) /\ ActivePlayers' = Cardinality(Active')
        /\ Cardinality(Active) \in Nat /\ Cardinality(Active') \in Nat
        /\ Cardinality(Passed') \in Nat /\ m_playerLimit \in Int
        /\ IsFiniteSet(Passed \ {s}) /\ IsFiniteSet(Active) /\ IsFiniteSet(Passed')
        /\ Active \subseteq Passed /\ Active' \subseteq Passed'
    BY FS_Difference DEF Counts
  <1>6. CASE rm.next = NULL
    <2>1. adm = {}
      BY <1>6
    <2>2. Passed' = Passed \ {s} /\ Queued' = Queued \ {s} /\ Active' \subseteq Active
      BY <1>3, <1>4, <2>1
    <2>3. Cardinality(Active') <= Cardinality(Active)
      BY <1>5, <2>2, FS_Subset
    <2>4. ~QueueIdles'
      <3>1. Cardinality(Passed') = n
        BY <2>2 DEF n
      <3> QED BY <1>1, <1>2, <1>6, <2>2, <3>1 DEF Counts, RoomFor
    <2> QED BY <1>5, <2>3, <2>4 DEF Bounded
  <1>7. CASE rm.next # NULL
    <2>1. adm = {rm.next} /\ rm.next \notin Passed
      BY <1>1, <1>7 DEF Passed
    <2>2. Cardinality(Passed') = n + 1
      BY <1>3, <1>5, <2>1, OneMore DEF n
    <2>3. QueueIdles' => QueueIdles
      <3>1. Cardinality(Passed') >= Cardinality(Passed)
        BY <1>2, <2>2 DEF Counts
      <3>2. Queued' # {} => Queued # {}
        BY <1>4
      <3> QED BY <1>1, <1>5, <3>1, <3>2 DEF Counts
    <2>4. m_playerLimit > 0 => Cardinality(Active') <= m_playerLimit
      <3>1. Cardinality(Active') <= Cardinality(Passed')
        BY <1>5, FS_Subset
      <3> QED BY <1>2, <1>5, <1>7, <2>2, <3>1 DEF RoomFor
    <2> QED BY <1>5, <2>3, <2>4 DEF Bounded
  <1> QED BY <1>6, <1>7

\* A newcomer who comes in, or waits, without anybody's leaving.
LEMMA NewcomerIsBounded ==
    ASSUME IInv, Counts, Counts', AddSession_New
    PROVE  Bounded
  <1> DEFINE s == Head(addSessQueue)
             M == Cardinality(Mapped)
             waits == MustQueue(s, M)
             comes == {t \in {s} : ~waits /\ session[t].account \notin Staff}
  <1>1. /\ s \in Sessions \ Live
        /\ Moves({}, {}, {s}, waits)
        /\ m_playerLimit' = m_playerLimit
    BY NewcomerMoves
  <1>2. /\ M = Cardinality(Live) /\ M \in Nat /\ IsFiniteSet(Live)
    BY CountsAreRight
  <1>3. waits <=> m_playerLimit > 0 /\ M >= m_playerLimit /\ session[s].account \notin Staff
    BY <1>2 DEF MustQueue, GetPlayerAmountLimit, Counts
  <1> HIDE DEF s, M, waits
  <1>4. /\ Live' = Live \cup {s}
        /\ Queued' = Queued \cup (IF waits THEN {s} ELSE {})
        /\ Active' \subseteq Active \cup comes
    BY <1>1 DEF Moves
  <1>5. /\ Queued \subseteq Live /\ Active \subseteq Passed /\ Passed \subseteq Live
        /\ Active' \subseteq Passed' /\ Passed' \subseteq Live'
    BY DEF Counts, Passed
  <1>6. /\ ActivePlayers = Cardinality(Active) /\ ActivePlayers' = Cardinality(Active')
        /\ Cardinality(Active) \in Nat /\ Cardinality(Active') \in Nat
        /\ Cardinality(Passed) \in Nat /\ Cardinality(Passed') \in Nat
        /\ m_playerLimit \in Int
        /\ IsFiniteSet(Active) /\ IsFiniteSet(Passed) /\ IsFiniteSet(Passed')
    BY DEF Counts
  <1>7. Cardinality(Live') = M + 1 /\ IsFiniteSet(Live')
    BY <1>1, <1>2, <1>4, OneMore, FS_AddElement
  <1>8. CASE waits
    <2>1. Passed' = Passed /\ Active' \subseteq Active
      BY <1>1, <1>4, <1>5, <1>8 DEF Passed
    <2>2. Cardinality(Active') <= Cardinality(Active)
      BY <1>6, <2>1, FS_Subset
    <2>3. QueueIdles' => QueueIdles
      <3>1. CASE Queued = {}
        <4>1. Passed = Live
          BY <3>1 DEF Passed
        <4>2. Cardinality(Passed') >= m_playerLimit /\ m_playerLimit > 0
          BY <1>2, <1>3, <1>8, <2>1, <4>1
        <4> QED BY <1>1, <1>6, <4>2 DEF Counts
      <3>2. CASE Queued # {}
        BY <1>1, <2>1, <3>2 DEF Counts
      <3> QED BY <3>1, <3>2
    <2> QED BY <1>6, <2>2, <2>3 DEF Bounded
  <1>9. CASE ~waits
    <2>1. Queued' = Queued /\ Passed' = Passed \cup {s}
      BY <1>1, <1>4, <1>5, <1>9 DEF Passed
    <2>2. Cardinality(Passed') >= Cardinality(Passed)
      BY <1>6, <2>1, FS_Subset
    <2>3. QueueIdles' => QueueIdles
      BY <1>1, <1>6, <2>1, <2>2 DEF Counts
    <2>4. CASE session[s].account \in Staff
      <3>1. Active' \subseteq Active
        BY <1>4, <2>4
      <3>2. Cardinality(Active') <= Cardinality(Active)
        BY <1>6, <3>1, FS_Subset
      <3> QED BY <1>6, <2>3, <3>2 DEF Bounded
    <2>5. CASE session[s].account \notin Staff
      <3>1. Cardinality(Active') <= Cardinality(Live')
        BY <1>5, <1>7, FS_Subset
      <3>2. m_playerLimit > 0 => Cardinality(Active') <= m_playerLimit
        BY <1>2, <1>3, <1>6, <1>7, <1>9, <2>5, <3>1
      <3> QED BY <1>6, <2>3, <3>2 DEF Bounded
    <2> QED BY <2>4, <2>5
  <1> QED BY <1>8, <1>9

\* A newcomer in an older session's stead.  The older session gives its place to the
\* first who waits, and the newcomer comes in besides only when there is room for two.
LEMMA ReplacementIsBounded ==
    ASSUME IInv, Counts, Counts', AddSession_Replace
    PROVE  Bounded
  <1> DEFINE s   == Head(addSessQueue)
             old == FindSession(session[s].account)
             rm  == RemoveQueuedSession(old)
             M   == Cardinality(Mapped)
             m   == IF rm.found THEN Cardinality(Mapped) ELSE Cardinality(Mapped) - 1
             waits == MustQueue(s, m)
             adm   == {rm.next} \ {NULL}
             comes == {t \in {s} : ~waits /\ session[t].account \notin Staff}
             n     == Cardinality(Passed \ {old})
  <1>1. /\ old \in Live /\ s \in Sessions \ Live
        /\ Moves({old}, adm, {s}, waits)
        /\ rm.next # NULL => rm.next \in Queued \ {old}
        /\ m_playerLimit' = m_playerLimit
    BY ReplacementMoves
  <1>2. /\ n \in Nat
        /\ rm.found <=> old \in Queued
        /\ rm.next # NULL => RoomFor(n)
        /\ rm.next = NULL => ~RoomFor(n) \/ Queued \subseteq {old}
        /\ old \in Queued => n = Cardinality(Passed)
        /\ old \notin Queued => n = Cardinality(Passed) - 1
    BY <1>1, RemovalAdmits
  <1>3. /\ M = Cardinality(Live) /\ M \in Nat /\ IsFiniteSet(Live)
    BY CountsAreRight
  <1>4. /\ old \in Queued => m = M
        /\ old \notin Queued => m = M - 1
        /\ m \in Int
    BY <1>2, <1>3
  <1> HIDE DEF m
  <1>5. waits <=> m_playerLimit > 0 /\ m >= m_playerLimit /\ session[s].account \notin Staff
    BY <1>4 DEF MustQueue, GetPlayerAmountLimit, Counts
  <1> HIDE DEF s, old, rm, M, waits, n
  <1>6. /\ Live' = (Live \ {old}) \cup {s}
        /\ Queued' = (Queued \ ({old} \cup adm)) \cup (IF waits THEN {s} ELSE {})
        /\ Active' \subseteq ((Active \ {old}) \cup adm) \cup comes
        /\ adm \subseteq Queued \ {old}
    BY <1>1 DEF Moves
  <1>7. /\ Queued \subseteq Live /\ Active \subseteq Passed /\ Passed \subseteq Live
        /\ Active' \subseteq Passed' /\ Passed' \subseteq Live'
    BY DEF Counts, Passed
  <1>8. /\ ActivePlayers = Cardinality(Active) /\ ActivePlayers' = Cardinality(Active')
        /\ Cardinality(Active) \in Nat /\ Cardinality(Active') \in Nat
        /\ Cardinality(Passed) \in Nat /\ Cardinality(Passed') \in Nat
        /\ m_playerLimit \in Int
        /\ IsFiniteSet(Active) /\ IsFiniteSet(Passed) /\ IsFiniteSet(Passed')
        /\ IsFiniteSet(Passed \ {old})
    BY FS_Difference DEF Counts
  <1>9. Cardinality(Live') = M /\ IsFiniteSet(Live')
    <2>1. /\ IsFiniteSet(Live \ {old})
          /\ Cardinality(Live \ {old}) = M - 1
      BY <1>1, <1>3, FS_RemoveElement
    <2>2. s \notin Live \ {old}
      BY <1>1
    <2>3. /\ IsFiniteSet((Live \ {old}) \cup {s})
          /\ Cardinality((Live \ {old}) \cup {s}) = Cardinality(Live \ {old}) + 1
      BY <2>1, <2>2, FS_AddElement, OneMore
    <2> QED BY <1>3, <1>6, <2>1, <2>3
  <1>10. s # old /\ s \notin Passed \ {old} /\ s \notin Queued
    BY <1>1, <1>7
  <1>11. Passed' = ((Passed \ {old}) \cup adm) \cup (IF waits THEN {} ELSE {s})
    BY <1>1, <1>6, <1>7 DEF Passed
  <1>12. rm.next = NULL => adm = {}
    OBVIOUS
  <1>13. ASSUME rm.next # NULL
         PROVE  /\ adm = {rm.next} /\ rm.next \in Queued
                /\ IsFiniteSet((Passed \ {old}) \cup {rm.next})
                /\ Cardinality((Passed \ {old}) \cup {rm.next}) = n + 1
    <2>1. adm = {rm.next} /\ rm.next \in Queued /\ rm.next \notin Passed \ {old}
      BY <1>1, <1>13 DEF Passed
    <2> HIDE DEF adm
    <2> QED BY <1>8, <2>1, OneMore, FS_AddElement DEF n
  <1> HIDE DEF adm
  <1>14. m_playerLimit > 0 /\ ActivePlayers' > m_playerLimit => ActivePlayers' <= ActivePlayers
    <2>1. CASE ~waits /\ session[s].account \notin Staff
      <3>1. Cardinality(Active') <= Cardinality(Live')
        <4>1. Active' \subseteq Live'
          BY <1>7
        <4> QED BY <1>9, <4>1, FS_Subset
      <3> QED BY <1>3, <1>4, <1>5, <1>8, <1>9, <2>1, <3>1
    <2>2. CASE ~(~waits /\ session[s].account \notin Staff)
      <3>1. Active' \subseteq (Active \ {old}) \cup adm
        BY <1>6, <2>2
      <3>2. CASE rm.next = NULL
        <4>1. Active' \subseteq Active
          BY <1>12, <3>1, <3>2
        <4>2. Cardinality(Active') <= Cardinality(Active)
          BY <1>8, <4>1, FS_Subset
        <4> QED BY <1>8, <4>2
      <3>3. CASE rm.next # NULL
        <4>1. Active' \subseteq (Passed \ {old}) \cup {rm.next}
          BY <1>7, <1>13, <3>1, <3>3
        <4>2. Cardinality(Active') <= n + 1
          BY <1>13, <3>3, <4>1, FS_Subset
        <4> QED BY <1>2, <1>8, <3>3, <4>2 DEF RoomFor
      <3> QED BY <3>2, <3>3
    <2> QED BY <2>1, <2>2
  <1>15. QueueIdles' => QueueIdles
    <2>1. CASE rm.next # NULL
      <3>1. (Passed \ {old}) \cup {rm.next} \subseteq Passed'
        BY <1>11, <1>13, <2>1
      <3>2. n + 1 <= Cardinality(Passed')
        BY <1>8, <1>13, <2>1, <3>1, FS_Subset
      <3>3. Cardinality(Passed) <= Cardinality(Passed') /\ Queued # {}
        BY <1>2, <1>8, <1>13, <2>1, <3>2
      <3> QED BY <1>1, <1>8, <3>3 DEF Counts
    <2>2. CASE rm.next = NULL /\ ~waits
      <3>1. Passed' = (Passed \ {old}) \cup {s} /\ Queued' = Queued \ {old}
        BY <1>6, <1>11, <1>12, <2>2
      <3>2. Cardinality(Passed') = n + 1
        BY <1>8, <1>10, <3>1, OneMore DEF n
      <3>3. Cardinality(Passed) <= Cardinality(Passed')
        BY <1>2, <1>8, <3>2
      <3>4. Queued' # {} => Queued # {}
        BY <3>1
      <3> QED BY <1>1, <1>8, <3>3, <3>4 DEF Counts
    <2>3. CASE rm.next = NULL /\ waits
      <3>1. Passed' = Passed \ {old}
        BY <1>11, <1>12, <2>3
      <3>2. Cardinality(Passed') = n
        BY <3>1 DEF n
      <3>3. CASE ~RoomFor(n)
        BY <1>1, <3>2, <3>3 DEF Counts, RoomFor
      <3>4. CASE old \in Queued
        BY <1>1, <1>2, <3>2, <3>4 DEF Counts
      <3>5. CASE Queued = {}
        <4>1. Passed = Live
          BY <3>5 DEF Passed
        <4>2. n >= m_playerLimit /\ m_playerLimit > 0
          BY <1>2, <1>3, <1>4, <1>5, <2>3, <3>5, <4>1
        <4> QED BY <1>1, <1>8, <3>2, <4>2 DEF Counts
      <3> QED BY <1>2, <2>3, <3>3, <3>4, <3>5
    <2> QED BY <2>1, <2>2, <2>3
  <1> QED BY <1>14, <1>15 DEF Bounded

\* Every step is one of these.
LEMMA StepIsBounded ==
    ASSUME IInv, Counts, Counts', [Next]_vars, m_playerLimit' = m_playerLimit
    PROVE  Bounded
  <1>1. CASE UNCHANGED vars
    <2>1. UNCHANGED <<session, m_QueuedSessions>>
      BY <1>1 DEF vars
    <2> QED BY <2>1, StaysIsBounded DEF Stays, Live, Queued, Active, Open
  <1>2. CASE NetworkStep
    <2>1. PICK s \in Sessions : \/ \E a \in Accounts : HandleAuthSession(s, a)
                                \/ \E p \in Packets : QueuePacket(s, p)
                                \/ handle_close(s)
      BY <1>2 DEF NetworkStep
    <2> QED BY <2>1, InPlaceStays, OutsideStays, StaysIsBounded
  <1>3. CASE ProcessRequest
    BY <1>3, StaysIsBounded DEF ProcessRequest, Stays, Live, Queued, Active, Open
  <1>4. CASE WorldStep
    <2>1. CASE AddSession_Refused
      BY <2>1, OutsideStays, StaysIsBounded
    <2>2. CASE AddSession_New
      BY <2>2, NewcomerIsBounded
    <2>3. CASE AddSession_Replace
      BY <2>3, ReplacementIsBounded
    <2>4. CASE BeginUpdateSessions \/ EndUpdateSessions \/ EndTick \/ DropResult
               \/ \E a \in Accounts : BeginUpdate(a)
      <3>1. UNCHANGED <<session, m_QueuedSessions>>
        BY <2>4 DEF BeginUpdateSessions, EndUpdateSessions, EndTick, DropResult, BeginUpdate
      <3> QED BY <3>1, StaysIsBounded DEF Stays, Live, Queued, Active, Open
    <2>5. ASSUME NEW s \in Sessions,
                 \/ UpdateStep(s) \/ UpdateKeepsSession(s)
                 \/ HandleCharEnumCallback(s) \/ HandlePlayerLogin(s)
                 \/ HandlePlayerLogin_LoadFails(s)
          PROVE  Bounded
      BY <2>5, InPlaceStays, StaysIsBounded
    <2>6. ASSUME NEW s \in Sessions, UpdateRemovesSession(s)
          PROVE  Bounded
      BY <2>6, RemovalIsBounded
    <2> QED BY <1>4, <2>1, <2>2, <2>3, <2>4, <2>5, <2>6 DEF WorldStep, UpdateEnds, ResultStep
  <1>5. CASE CommandStep
    <2>1. CASE \E s \in Sessions : PlayCharacter(s) \/ KickPlayer(s)
      BY <2>1, InPlaceStays, StaysIsBounded
    <2>2. CASE KickAll
      BY <2>2, OutsideStays, StaysIsBounded
    <2>3. CASE \E l \in Limits : SetPlayerLimit(l)
      BY <2>3, StaysIsBounded DEF SetPlayerLimit, Stays, Live, Queued, Active, Open
    <2> QED BY <1>5, <2>1, <2>2, <2>3 DEF CommandStep
  <1> QED BY <1>1, <1>2, <1>3, <1>4, <1>5 DEF Next

\* PlayerLimit holds through reconnects: no step but the administrator's takes the
\* connected players that have passed the queue above it.
THEOREM LimitHolds == Spec => ActiveWithinLimit
  <1> DEFINE Step == m_playerLimit' = m_playerLimit /\ m_playerLimit > 0
                     /\ ActivePlayers' > m_playerLimit => ActivePlayers' <= ActivePlayers
  <1>1. IInv /\ Counts /\ Counts' /\ [Next]_vars => [Step]_vars
    BY StepIsBounded DEF Bounded
  <1>2. IInv => Counts
    BY CountsHold
  <1>3. ActiveWithinLimit <=> [][Step]_vars
    BY PTL DEF ActiveWithinLimit, Step
  <1> QED BY <1>1, <1>2, <1>3, InvariantHolds, PTL DEF Spec

\* Nobody waits while there is room: each way a session leaves the map admits the next
\* in the queue, and only a raise of the limit leaves room and admits nobody.
THEOREM NobodyWaitsForNothing == Spec => QueueNeverIdles
  <1> DEFINE Step == m_playerLimit' = m_playerLimit /\ QueueIdles' => QueueIdles
  <1>1. IInv /\ Counts /\ Counts' /\ [Next]_vars => [Step]_vars
    BY StepIsBounded DEF Bounded
  <1>2. IInv => Counts
    BY CountsHold
  <1>3. QueueNeverIdles <=> [][Step]_vars
    BY PTL DEF QueueNeverIdles, Step
  <1> QED BY <1>1, <1>2, <1>3, InvariantHolds, PTL DEF Spec
=============================================================================
