--------------------------- MODULE WorldSessions ---------------------------
(***************************************************************************)
(* The sessions of the world server: World.cpp's session map and login     *)
(* queue, WorldSession's update, logout and kick, the character login of   *)
(* CharacterHandler.cpp and the asynchronous database behind it.           *)
(*                                                                         *)
(* Three kinds of threads meet here.  The network threads create sessions, *)
(* queue packets and close sockets at any moment.  The world thread runs   *)
(* ticks of three phases: it takes the new sessions, updates every session *)
(* and drains the results of asynchronous queries.  The database thread    *)
(* executes requests in the order they were queued.                        *)
(***************************************************************************)
EXTENDS Integers, Sequences, FiniteSets, SequencesExt

CONSTANTS
    Accounts,       \* account ids; an account has one character here
    Staff,          \* the accounts whose security is above SEC_PLAYER
    Sessions,       \* identities of WorldSession objects, each used once
    Limits,         \* the values SetPlayerLimit is called with
    MaxPackets,     \* bound: packets waiting in one _recvQueue
    MaxProgress,    \* bound: how often a character changes in the world
    NULL

ASSUME ConstantsAssumption ==
    /\ Staff \subseteq Accounts
    /\ IsFiniteSet(Accounts)
    /\ Limits \subseteq Int /\ Limits # {}
    /\ MaxPackets \in Nat
    /\ MaxProgress \in Nat
    /\ NULL \notin Sessions \cup Nat \cup Accounts

VARIABLES
    addSessQueue,       \* sessions the network threads hand over
    m_sessions,         \* account -> its session, or NULL
    m_QueuedSessions,   \* the login queue
    m_playerLimit,
    session,            \* the WorldSession objects
    phase,              \* what the world thread is doing in this tick
    toUpdate,           \* accounts UpdateSessions has still to visit
    updating,           \* the account whose session is in Update, or NULL
    delayQueue,         \* requests of the database thread, oldest first
    resultQueue,        \* results waiting for their callbacks
    stored,             \* account -> the state of its character on disk
    inWorld,            \* account -> number of its Player objects
    lastSave            \* account -> what the last SaveToDB saved (history)

worldVars == <<m_playerLimit, phase, toUpdate, updating>>
dbVars    == <<delayQueue, resultQueue, stored>>
charVars  == <<inWorld, lastSave>>
vars == <<addSessQueue, m_sessions, m_QueuedSessions, session,
          worldVars, dbVars, charVars>>

Packets == {"enum", "login", "logout", "cancel"}

Request == [op: {"enum", "login"}, account: Accounts]
             \cup [op: {"save"}, account: Accounts, state: 0..MaxProgress]
Result  == [op: {"enum", "login"}, account: Accounts, state: 0..MaxProgress]

SessionRec ==
    [ life:    {"new", "added", "live", "deleted"},
      account: Accounts \cup {NULL},
      sock:    {"open", "closed", "null"},      \* m_Socket, IsClosed()
      inQueue: BOOLEAN,                         \* m_inQueue
      loading: BOOLEAN,                         \* m_playerLoading
      player:  (0..MaxProgress) \cup {NULL},    \* _player and its state
      logout:  BOOLEAN,                         \* _logoutTime > 0
      recv:    Seq(Packets),                    \* _recvQueue
      screen:  {"start", "asked", "list", "clicked", "world"} ]  \* what the client shows

NewSession == [ life |-> "new", account |-> NULL, sock |-> "null",
                inQueue |-> FALSE, loading |-> FALSE, player |-> NULL,
                logout |-> FALSE, recv |-> <<>>, screen |-> "start" ]

Deleted(s) == [NewSession EXCEPT !.life = "deleted", !.account = session[s].account]

TypeOK ==
    /\ addSessQueue \in Seq(Sessions)
    /\ m_sessions \in [Accounts -> Sessions \cup {NULL}]
    /\ m_QueuedSessions \in Seq(Sessions)
    /\ m_playerLimit \in Limits
    /\ session \in [Sessions -> SessionRec]
    /\ phase \in {"add", "update", "results"}
    /\ toUpdate \subseteq Accounts
    /\ updating \in Accounts \cup {NULL}
    /\ delayQueue \in Seq(Request)
    /\ resultQueue \in Seq(Result)
    /\ stored \in [Accounts -> 0..MaxProgress]
    /\ inWorld \in [Accounts -> Nat]
    /\ lastSave \in [Accounts -> 0..MaxProgress]

Init ==
    /\ addSessQueue = <<>>
    /\ m_sessions = [a \in Accounts |-> NULL]
    /\ m_QueuedSessions = <<>>
    /\ m_playerLimit \in Limits
    /\ session = [s \in Sessions |-> NewSession]
    /\ phase = "add"
    /\ toUpdate = {}
    /\ updating = NULL
    /\ delayQueue = <<>>
    /\ resultQueue = <<>>
    /\ stored = [a \in Accounts |-> 0]
    /\ inWorld = [a \in Accounts |-> 0]
    /\ lastSave = [a \in Accounts |-> 0]

(***************************************************************************)
(* Helpers.                                                                *)
(***************************************************************************)
FindSession(a) == m_sessions[a]
Mapped == {a \in Accounts : m_sessions[a] # NULL}
GetActiveSessionCount == Cardinality(Mapped) - Len(m_QueuedSessions)

\* Mutant: the leaving session is still counted.
RoomFor_CountsLeaver(n) == m_playerLimit = 0 \/ n + 1 < m_playerLimit
\* A limit below zero is a security limit: it never admits from the queue
\* and never fills it.
RoomFor(n) == m_playerLimit = 0 \/ n < m_playerLimit
GetPlayerAmountLimit == IF m_playerLimit >= 0 THEN m_playerLimit ELSE 0

Kicked(rec) == IF rec.sock = "open" THEN [rec EXCEPT !.sock = "closed"] ELSE rec

\* Mutant: the admitted session is still told to wait.
Admitted_StillFlagged(rec) == rec
Admitted(rec) == [rec EXCEPT !.inQueue = FALSE]

\* Mutant: the session keeps its pointer to the deleted player.
LoggedOut_KeepsPlayer(rec) == [rec EXCEPT !.logout = FALSE, !.screen = "start"]
\* Mutant: the player leaves the world unsaved.
LogoutPlayer_Unsaved(s) ==
    /\ UNCHANGED delayQueue
    /\ inWorld' = IF session[s].player = NULL THEN inWorld
                  ELSE [inWorld EXCEPT ![session[s].account] = @ - 1]
    /\ lastSave' = IF session[s].player = NULL THEN lastSave
                   ELSE [lastSave EXCEPT ![session[s].account] = session[s].player]
\* LogoutPlayer(true) saves the player, if there is one, and takes it out of
\* the world.
LoggedOut(rec) == [rec EXCEPT !.player = NULL, !.logout = FALSE, !.screen = "start"]
LogoutPlayer(s) ==
    LET a == session[s].account
        p == session[s].player
    IN  IF p = NULL THEN UNCHANGED <<delayQueue, inWorld, lastSave>>
        ELSE /\ delayQueue' = Append(delayQueue, [op |-> "save", account |-> a, state |-> p])
             /\ inWorld' = [inWorld EXCEPT ![a] = @ - 1]
             /\ lastSave' = [lastSave EXCEPT ![a] = p]

\* Mutant: the session is looked for but never taken off the queue.
RemoveQueuedSession_Leaves(s) ==
    [found |-> Contains(m_QueuedSessions, s), queue |-> m_QueuedSessions, next |-> NULL]
\* The place of s in the queue, which holds no session twice; 0 if it is not there.
GetQueuedSessionPos(s) ==
    IF Contains(m_QueuedSessions, s)
    THEN CHOOSE i \in 1..Len(m_QueuedSessions) :
            /\ m_QueuedSessions[i] = s
            /\ \A j \in 1..i - 1 : m_QueuedSessions[j] # s
    ELSE 0

QueueWithout(s) ==
    IF Contains(m_QueuedSessions, s)
    THEN RemoveAt(m_QueuedSessions, GetQueuedSessionPos(s)) ELSE m_QueuedSessions

\* Mutant: the last in the queue is admitted instead of the first.
RemoveQueuedSession_AdmitsLast(s) ==
    LET rest == QueueWithout(s)
        n    == IF rest = m_QueuedSessions THEN GetActiveSessionCount - 1
                ELSE GetActiveSessionCount
        pop  == RoomFor(n) /\ rest # <<>>
    IN  [ found |-> rest # m_QueuedSessions,
          queue |-> IF pop THEN Front(rest) ELSE rest,
          next  |-> IF pop THEN Last(rest) ELSE NULL ]
\* What RemoveQueuedSession(s) returns and leaves: whether s was queued, the
\* queue, and the session it admits in s's stead (or NULL).
RemoveQueuedSession(s) ==
    LET found  == Contains(m_QueuedSessions, s)
        rest   == QueueWithout(s)
        active == GetActiveSessionCount
        n      == IF ~found /\ active > 0 THEN active - 1 ELSE active
        pop    == RoomFor(n) /\ rest # <<>>
    IN  [ found |-> found,
          queue |-> IF pop THEN Tail(rest) ELSE rest,
          next  |-> IF pop THEN Head(rest) ELSE NULL ]

(***************************************************************************)
(* Network threads.                                                        *)
(***************************************************************************)
\* A client passes the authentication: a session is made and handed over.
HandleAuthSession(s, a) ==
    /\ session[s].life = "new"
    /\ session' = [session EXCEPT ![s].life = "added", ![s].account = a,
                                  ![s].sock = "open"]
    /\ addSessQueue' = Append(addSessQueue, s)
    /\ UNCHANGED <<m_sessions, m_QueuedSessions, worldVars, dbVars, charVars>>

\* The client asks for its characters, picks one from the list it was sent
\* (perhaps twice), or uses the logout button.
QueuePacket(s, p) ==
    /\ session[s].sock = "open"
    /\ Len(session[s].recv) < MaxPackets
    /\ LET shown == session[s].screen
       IN  \/ /\ p = "enum" /\ shown = "start"
              /\ session' = [session EXCEPT ![s].recv = Append(@, p), ![s].screen = "asked"]
           \/ /\ p = "login" /\ shown = "list"
              /\ session' = [session EXCEPT ![s].recv = Append(@, p), ![s].screen = "clicked"]
           \/ /\ p = "login" /\ shown = "clicked"
              /\ session' = [session EXCEPT ![s].recv = Append(@, p), ![s].screen = "asked"]
           \/ /\ p \in {"logout", "cancel"} /\ session[s].player # NULL
              /\ session' = [session EXCEPT ![s].recv = Append(@, p)]
    /\ UNCHANGED <<addSessQueue, m_sessions, m_QueuedSessions, worldVars, dbVars, charVars>>

\* The connection is lost, or the peer closes it.
handle_close(s) ==
    /\ session[s].sock = "open"
    /\ session' = [session EXCEPT ![s].sock = "closed"]
    /\ UNCHANGED <<addSessQueue, m_sessions, m_QueuedSessions, worldVars, dbVars, charVars>>

(***************************************************************************)
(* The database thread: one request at a time, in the order of the queue.  *)
(***************************************************************************)
ProcessRequest ==
    /\ delayQueue # <<>>
    /\ LET r == Head(delayQueue)
       IN  \/ /\ r.op = "save"
              /\ stored' = [stored EXCEPT ![r.account] = r.state]
              /\ UNCHANGED resultQueue
           \/ /\ r.op \in {"enum", "login"}
              /\ resultQueue' = Append(resultQueue,
                     [op |-> r.op, account |-> r.account, state |-> stored[r.account]])
              /\ UNCHANGED stored
    /\ delayQueue' = Tail(delayQueue)
    /\ UNCHANGED <<addSessQueue, m_sessions, m_QueuedSessions, session, worldVars, charVars>>

(***************************************************************************)
(* World thread, first phase: AddSession_ for every session handed over.   *)
(***************************************************************************)
\* Mutant: the session in the way is kicked even while it loads.
RemoveSession_Always(old) == TRUE
\* A session that is loading a character stays; any other gives way.
RemoveSession(old) == ~session[old].loading

\* The account is loading a character: the newcomer is turned away.
AddSession_Refused ==
    /\ phase = "add" /\ addSessQueue # <<>>
    /\ LET s   == Head(addSessQueue)
           old == FindSession(session[s].account)
       IN  /\ old # NULL /\ ~RemoveSession(old)
           /\ session' = [session EXCEPT ![s] = Deleted(s)]
    /\ addSessQueue' = Tail(addSessQueue)
    /\ UNCHANGED <<m_sessions, m_QueuedSessions, worldVars, dbVars, charVars>>

\* Mutant: the limit is off by one.
MustQueue_OneTooMany(s, n) ==
    GetPlayerAmountLimit > 0 /\ n > GetPlayerAmountLimit /\ session[s].account \notin Staff
\* Where a session joining n mapped sessions goes: the login queue when the
\* limit is reached, unless the account is staff.
MustQueue(s, n) ==
    GetPlayerAmountLimit > 0 /\ n >= GetPlayerAmountLimit
        /\ session[s].account \notin Staff

AddSession_New ==
    /\ phase = "add" /\ addSessQueue # <<>>
    /\ LET s == Head(addSessQueue)
           a == session[s].account
           queued == MustQueue(s, Cardinality(Mapped))
       IN  /\ FindSession(a) = NULL
           /\ m_sessions' = [m_sessions EXCEPT ![a] = s]
           /\ session' = [session EXCEPT ![s].life = "live", ![s].inQueue = queued]
           /\ m_QueuedSessions' = IF queued THEN Append(m_QueuedSessions, s)
                                  ELSE m_QueuedSessions
    /\ addSessQueue' = Tail(addSessQueue)
    /\ UNCHANGED <<worldVars, dbVars, charVars>>

\* The account has a session: it is kicked, leaves the queue (which may admit
\* the next one), is logged out and deleted, and the newcomer takes its place.
\* A newcomer replacing an active session is not counted against the limit.
AddSession_Replace ==
    /\ phase = "add" /\ addSessQueue # <<>>
    /\ LET s   == Head(addSessQueue)
           a   == session[s].account
           old == FindSession(a)
           rm  == RemoveQueuedSession(old)
           n   == IF rm.found THEN Cardinality(Mapped) ELSE Cardinality(Mapped) - 1
           queued == MustQueue(s, n)
       IN  /\ old # NULL /\ RemoveSession(old)
           /\ m_sessions' = [m_sessions EXCEPT ![a] = s]
           /\ session' = [t \in Sessions |->
                 CASE t = s -> [session[s] EXCEPT !.life = "live", !.inQueue = queued]
                   [] t = old -> Deleted(old)
                   [] t = rm.next -> Admitted(session[t])
                   [] OTHER -> session[t]]
           /\ m_QueuedSessions' = IF queued THEN Append(rm.queue, s) ELSE rm.queue
           /\ LogoutPlayer(old)
    /\ addSessQueue' = Tail(addSessQueue)
    /\ UNCHANGED <<worldVars, resultQueue, stored>>

\* Mutant: sessions in the login queue are not updated.
BeginUpdateSessions_ActiveOnly ==
    /\ phase = "add" /\ addSessQueue = <<>>
    /\ phase' = "update"
    /\ toUpdate' = {a \in Mapped : m_sessions[a] \notin Range(m_QueuedSessions)}
    /\ UNCHANGED <<addSessQueue, m_sessions, m_QueuedSessions, session, m_playerLimit,
                   updating, dbVars, charVars>>

BeginUpdateSessions ==
    /\ phase = "add" /\ addSessQueue = <<>>
    /\ phase' = "update"
    /\ toUpdate' = Mapped
    /\ UNCHANGED <<addSessQueue, m_sessions, m_QueuedSessions, session, m_playerLimit,
                   updating, dbVars, charVars>>

(***************************************************************************)
(* World thread, second phase: Update of each session in turn.             *)
(***************************************************************************)
BeginUpdate(a) ==
    /\ phase = "update" /\ updating = NULL /\ a \in toUpdate
    /\ updating' = a
    /\ toUpdate' = toUpdate \ {a}
    /\ UNCHANGED <<addSessQueue, m_sessions, m_QueuedSessions, session, m_playerLimit,
                   phase, dbVars, charVars>>

HasPacket(s) == session[s].sock = "open" /\ session[s].recv # <<>>

\* The packet at the head of the session in Update, taken off its queue.
Handling(s, p) ==
    /\ updating # NULL /\ s = FindSession(updating)
    /\ HasPacket(s) /\ Head(session[s].recv) = p
Taken(s) == [session[s] EXCEPT !.recv = Tail(@)]

\* STATUS_AUTHED packets are dropped while the session is in the login queue;
\* the client, left without an answer, will ask again.
DropWhileQueued(s) ==
    /\ \E p \in {"enum", "login"} : Handling(s, p)
    /\ session[s].inQueue
    /\ session' = [session EXCEPT ![s] = [Taken(s) EXCEPT !.screen = "start"]]
    /\ UNCHANGED <<addSessQueue, m_sessions, m_QueuedSessions, worldVars, dbVars, charVars>>

HandleCharEnumOpcode(s) ==
    /\ Handling(s, "enum") /\ ~session[s].inQueue
    /\ session' = [session EXCEPT ![s] = Taken(s)]
    /\ delayQueue' = Append(delayQueue, [op |-> "enum", account |-> session[s].account])
    /\ UNCHANGED <<addSessQueue, m_sessions, m_QueuedSessions, worldVars,
                   resultQueue, stored, charVars>>

\* A login while a character is loading or present is ignored.
MayStartLogin(s) == ~session[s].loading /\ session[s].player = NULL

HandlePlayerLoginOpcode(s) ==
    /\ Handling(s, "login") /\ ~session[s].inQueue
    /\ \/ /\ MayStartLogin(s)
          /\ session' = [session EXCEPT ![s] = [Taken(s) EXCEPT !.loading = TRUE]]
          /\ delayQueue' = Append(delayQueue, [op |-> "login", account |-> session[s].account])
       \/ /\ ~MayStartLogin(s)
          /\ session' = [session EXCEPT ![s] = Taken(s)]
          /\ UNCHANGED delayQueue
    /\ UNCHANGED <<addSessQueue, m_sessions, m_QueuedSessions, worldVars,
                   resultQueue, stored, charVars>>

\* STATUS_LOGGEDIN packets of a session without a player are skipped.
SkipNotLoggedIn(s) ==
    /\ \E p \in {"logout", "cancel"} : Handling(s, p)
    /\ session[s].player = NULL
    /\ session' = [session EXCEPT ![s] = Taken(s)]
    /\ UNCHANGED <<addSessQueue, m_sessions, m_QueuedSessions, worldVars, dbVars, charVars>>

\* Refused in combat, a duel or a fall; at once when resting or flying;
\* otherwise after twenty seconds.
HandleLogoutRequestOpcode(s) ==
    /\ Handling(s, "logout") /\ session[s].player # NULL
    /\ \/ /\ \E timed \in BOOLEAN :
                 session' = [session EXCEPT ![s] = [Taken(s) EXCEPT !.logout = timed]]
          /\ UNCHANGED <<delayQueue, inWorld, lastSave>>
       \/ /\ session' = [session EXCEPT ![s] = LoggedOut(Taken(s))]
          /\ LogoutPlayer(s)
    /\ UNCHANGED <<addSessQueue, m_sessions, m_QueuedSessions, worldVars,
                   resultQueue, stored>>

HandleLogoutCancelOpcode(s) ==
    /\ Handling(s, "cancel") /\ session[s].player # NULL
    /\ session' = [session EXCEPT ![s] = [Taken(s) EXCEPT !.logout = FALSE]]
    /\ UNCHANGED <<addSessQueue, m_sessions, m_QueuedSessions, worldVars, dbVars, charVars>>

\* The end of Update for a session that still has its socket: logged out when
\* its twenty seconds are over and nothing is loading.
UpdateKeepsSession(s) ==
    /\ updating # NULL /\ s = FindSession(updating)
    /\ session[s].sock = "open" /\ session[s].recv = <<>>
    /\ \/ UNCHANGED <<session, delayQueue, inWorld, lastSave>>
       \/ /\ session[s].logout /\ ~session[s].loading
          /\ session' = [session EXCEPT ![s] = LoggedOut(@)]
          /\ LogoutPlayer(s)
    /\ updating' = NULL
    /\ UNCHANGED <<addSessQueue, m_sessions, m_QueuedSessions, m_playerLimit, phase,
                   toUpdate, resultQueue, stored>>

\* A session whose socket is closed is logged out, taken off the login queue
\* (which may admit the next one), removed from the map and deleted.
UpdateRemovesSession(s) ==
    /\ updating # NULL /\ s = FindSession(updating)
    /\ session[s].sock # "open"
    /\ LET rm == RemoveQueuedSession(s)
       IN  /\ session' = [t \in Sessions |->
                 CASE t = s -> Deleted(s)
                   [] t = rm.next -> Admitted(session[t])
                   [] OTHER -> session[t]]
           /\ m_QueuedSessions' = rm.queue
    /\ m_sessions' = [m_sessions EXCEPT ![updating] = NULL]
    /\ LogoutPlayer(s)
    /\ updating' = NULL
    /\ UNCHANGED <<addSessQueue, m_playerLimit, phase, toUpdate, resultQueue, stored>>

EndUpdateSessions ==
    /\ phase = "update" /\ updating = NULL /\ toUpdate = {}
    /\ phase' = "results"
    /\ UNCHANGED <<addSessQueue, m_sessions, m_QueuedSessions, session, m_playerLimit,
                   toUpdate, updating, dbVars, charVars>>

(***************************************************************************)
(* World thread, third phase: the callbacks of finished requests.  They    *)
(* find their session by account id, whichever session that is now.        *)
(***************************************************************************)
Answer == Head(resultQueue)
Answering(s, op) ==
    /\ phase = "results" /\ resultQueue # <<>>
    /\ Answer.op = op /\ FindSession(Answer.account) = s

DropResult ==
    /\ Answering(NULL, "enum") \/ Answering(NULL, "login")
    /\ resultQueue' = Tail(resultQueue)
    /\ UNCHANGED <<addSessQueue, m_sessions, m_QueuedSessions, session, worldVars,
                   delayQueue, stored, charVars>>

HandleCharEnumCallback(s) ==
    /\ Answering(s, "enum")
    /\ session' = [session EXCEPT ![s].screen =
                        IF session[s].sock = "open" /\ session[s].player = NULL
                        THEN "list" ELSE @]
    /\ resultQueue' = Tail(resultQueue)
    /\ UNCHANGED <<addSessQueue, m_sessions, m_QueuedSessions, worldVars,
                   delayQueue, stored, charVars>>

\* Mutant: the loading flag is not reset.
HandlePlayerLogin_StaysLoading(s) ==
    /\ Answering(s, "login")
    /\ session' = [session EXCEPT ![s].player = Answer.state, ![s].screen = "world"]
    /\ inWorld' = [inWorld EXCEPT ![Answer.account] = @ + 1]
    /\ resultQueue' = Tail(resultQueue)
    /\ UNCHANGED <<addSessQueue, m_sessions, m_QueuedSessions, worldVars,
                   delayQueue, stored, lastSave>>
\* The character is loaded into the session and enters the world.
HandlePlayerLogin(s) ==
    /\ Answering(s, "login")
    /\ session' = [session EXCEPT ![s] = [@ EXCEPT
          !.player = Answer.state, !.loading = FALSE, !.screen = "world"]]
    /\ inWorld' = [inWorld EXCEPT ![Answer.account] = @ + 1]
    /\ resultQueue' = Tail(resultQueue)
    /\ UNCHANGED <<addSessQueue, m_sessions, m_QueuedSessions, worldVars,
                   delayQueue, stored, lastSave>>

\* LoadFromDB fails: the client is disconnected.
HandlePlayerLogin_LoadFails(s) ==
    /\ Answering(s, "login")
    /\ session' = [session EXCEPT ![s] = [Kicked(@) EXCEPT !.loading = FALSE]]
    /\ resultQueue' = Tail(resultQueue)
    /\ UNCHANGED <<addSessQueue, m_sessions, m_QueuedSessions, worldVars,
                   delayQueue, stored, charVars>>

EndTick ==
    /\ phase = "results" /\ resultQueue = <<>>
    /\ phase' = "add"
    /\ UNCHANGED <<addSessQueue, m_sessions, m_QueuedSessions, session, m_playerLimit,
                   toUpdate, updating, dbVars, charVars>>

(***************************************************************************)
(* World thread, commands and the life of the characters.                  *)
(***************************************************************************)
\* What happens to a character in the world: its state moves on.
PlayCharacter(s) ==
    /\ session[s].player # NULL /\ session[s].player < MaxProgress
    /\ session' = [session EXCEPT ![s].player = @ + 1]
    /\ UNCHANGED <<addSessQueue, m_sessions, m_QueuedSessions, worldVars, dbVars, charVars>>

KickPlayer(s) ==
    /\ session[s].life = "live" /\ session[s].sock = "open"
    /\ session' = [session EXCEPT ![s] = Kicked(@)]
    /\ UNCHANGED <<addSessQueue, m_sessions, m_QueuedSessions, worldVars, dbVars, charVars>>

KickAll ==
    /\ Mapped # {}
    /\ m_QueuedSessions' = <<>>
    /\ session' = [s \in Sessions |-> IF session[s].life = "live"
                                      THEN Kicked(session[s]) ELSE session[s]]
    /\ UNCHANGED <<addSessQueue, m_sessions, worldVars, dbVars, charVars>>

SetPlayerLimit(l) ==
    /\ l # m_playerLimit
    /\ m_playerLimit' = l
    /\ UNCHANGED <<addSessQueue, m_sessions, m_QueuedSessions, session, phase, toUpdate,
                   updating, dbVars, charVars>>

NetworkStep == \E s \in Sessions :
    \/ \E a \in Accounts : HandleAuthSession(s, a)
    \/ \E p \in Packets : QueuePacket(s, p)
    \/ handle_close(s)

UpdateStep(s) ==
    \/ DropWhileQueued(s)
    \/ HandleCharEnumOpcode(s)
    \/ HandlePlayerLoginOpcode(s)
    \/ SkipNotLoggedIn(s)
    \/ HandleLogoutRequestOpcode(s)
    \/ HandleLogoutCancelOpcode(s)

UpdateEnds(s) == UpdateKeepsSession(s) \/ UpdateRemovesSession(s)

ResultStep ==
    \/ DropResult
    \/ \E s \in Sessions : \/ HandleCharEnumCallback(s)
                           \/ HandlePlayerLogin(s)
                           \/ HandlePlayerLogin_LoadFails(s)

WorldStep ==
    \/ AddSession_Refused \/ AddSession_New \/ AddSession_Replace
    \/ BeginUpdateSessions \/ EndUpdateSessions \/ EndTick
    \/ \E a \in Accounts : BeginUpdate(a)
    \/ \E s \in Sessions : UpdateStep(s) \/ UpdateEnds(s)
    \/ ResultStep

CommandStep ==
    \/ \E s \in Sessions : PlayCharacter(s) \/ KickPlayer(s)
    \/ KickAll
    \/ \E l \in Limits : SetPlayerLimit(l)

Next == NetworkStep \/ ProcessRequest \/ WorldStep \/ CommandStep

Spec == Init /\ [][Next]_vars

(***************************************************************************)
(* Fairness: the world thread keeps ticking and the database thread keeps  *)
(* executing.  A client cannot refill its queue so fast for ever that the  *)
(* packet loop of Update never finds it empty.                             *)
(***************************************************************************)
Fairness ==
    /\ WF_vars(WorldStep)
    /\ WF_vars(ProcessRequest)
    /\ \A s \in Sessions : SF_vars(UpdateEnds(s))
    /\ SF_vars(EndTick)

FairSpec == Spec /\ Fairness

(***************************************************************************)
(* Properties.                                                             *)
(***************************************************************************)
Open(s)   == session[s].life = "live" /\ session[s].sock = "open"

\* No pointer outlives its session: AddSession_ and UpdateSessions delete
\* sessions that the map, the login queue and the hand-over queue refer to.
NoDanglingSession ==
    /\ \A a \in Mapped : /\ session[m_sessions[a]].life = "live"
                         /\ session[m_sessions[a]].account = a
    /\ \A s \in Range(m_QueuedSessions) : m_sessions[session[s].account] = s
    /\ \A s \in Range(addSessQueue) : session[s].life = "added"
    /\ \A s \in Sessions : session[s].life = "live" => s \in Range(m_sessions)

\* m_inQueue and m_QueuedSessions agree: a connected session that is told to
\* wait is in the queue exactly once, and one in the queue is told to wait.
\* Kicks, replacements and admissions in any order must keep them together.
QueueMatchesFlags ==
    /\ IsInjective(m_QueuedSessions)
    /\ \A s \in Range(m_QueuedSessions) : session[s].inQueue
    /\ \A s \in Sessions : Open(s) /\ session[s].inQueue => s \in Range(m_QueuedSessions)

\* PlayerLimit holds through reconnects: no step but the administrator's takes the
\* connected accounts that are not staff and have passed the queue above it.
ActivePlayers ==
    Cardinality({s \in Sessions : /\ Open(s) /\ ~session[s].inQueue
                                  /\ session[s].account \notin Staff})

ActiveWithinLimit ==
    [][m_playerLimit' = m_playerLimit /\ m_playerLimit > 0 /\ ActivePlayers' > m_playerLimit
          => ActivePlayers' <= ActivePlayers]_vars

\* Nobody waits while there is room: each way a session leaves the map admits the
\* next in the queue.  (Only a raise of the limit leaves room and admits nobody.)
QueueIdles ==
    /\ m_playerLimit = 0 \/ GetActiveSessionCount < m_playerLimit
    /\ m_QueuedSessions # <<>>

QueueNeverIdles == [][m_playerLimit' = m_playerLimit /\ QueueIdles' => QueueIdles]_vars

\* A login that its session waits for, with no other login of the account under
\* way, finds the last state the character ever reached: it never overtakes a
\* save queued by the logout or the replacement of an earlier session.
Logins(queue, a) == {k \in 1..Len(queue) : queue[k].op = "login" /\ queue[k].account = a}
LoginsUnderWay(a) == Cardinality(Logins(delayQueue, a)) + Cardinality(Logins(resultQueue, a))

LoginSeesLastSave ==
    [][\A s \in Sessions :
         session[s].loading /\ LoginsUnderWay(session[s].account) = 1
         /\ session[s].player = NULL /\ session'[s].player # NULL
            => session'[s].player = lastSave[session[s].account]]_vars

\* A session is deleted while its character loads only when its client is gone.
ReplacementNeverInterruptsLoading ==
    [][\A s \in Sessions :
         session[s].loading /\ session'[s].life = "deleted" => session[s].sock # "open"]_vars

\* The server keeps the promise of a login queue to its clients: those in
\* m_QueuedSessions wait, the sessions of the map that are not told to wait are in.
\* Replacements, lost connections, kicks and limits that change meanwhile may not
\* let anyone overtake.
LQ == INSTANCE LoginQueue WITH
        Clients <- Sessions,
        inside  <- {s \in Sessions : session[s].life = "live" /\ ~session[s].inQueue},
        waiting <- m_QueuedSessions

ImplementsLoginQueue == LQ!Spec

\* A session whose connection is lost is removed, whatever it was doing.
LostSessionsAreRemoved ==
    \A s \in Sessions :
        session[s].sock = "closed" ~> session[s].life = "deleted"

\* A session does not stay in the loading state for ever.
LoadingEnds ==
    \A s \in Sessions : session[s].loading ~> ~session[s].loading

\* "is found stored in Map object store, but trying to be addes!": a character
\* has at most one Player in the world.
OnePlayerPerCharacter == \A a \in Accounts : inWorld[a] <= 1
=============================================================================
