------------------------------ MODULE MapUpdate ------------------------------
(***************************************************************************)
(* The update of the maps: MapManager::Update and the pool of threads      *)
(* behind it, ObjectUpdateTaskBase and MapUpdater.                         *)
(*                                                                         *)
(* In each tick the world thread first updates the sessions, then puts a   *)
(* request for every map into a queue and waits until the pool has served  *)
(* them all: a round.  Threads of the pool take requests and enter         *)
(* themselves in m_threadsMap while they update a map.  A thread too long  *)
(* at one map is "killed": ACE cancels cooperatively and svc() never asks, *)
(* so only the books say that it is gone.                                  *)
(***************************************************************************)
EXTENDS Integers, Sequences, FiniteSets

CONSTANTS
    Maps,
    MapOrder,       \* the order in which m_maps is walked
    NumThreads,     \* MapUpdate.Threads
    Dynamic,        \* MapUpdate.DynamicThreadsCount
    DetectsFreezes, \* whether VMSS.MapFreezeDetectTime is not 0
    MaxQueue,       \* bound: requests in the queue (its high water mark)
    NULL

ASSUME MapUpdateAssumption ==
    /\ MapOrder \in Seq(Maps)
    /\ NumThreads \in Nat \ {0}
    /\ Dynamic \in BOOLEAN
    /\ DetectsFreezes \in BOOLEAN
    /\ MaxQueue \in Nat
    /\ NULL \notin Maps

Threads == 1..NumThreads    \* thread ids; m_threadsMap is ordered by them
World == 0                  \* the id of the world thread

VARIABLES
    m_queue,                        \* requests; a request is its map
    m_threadsMap,                   \* thread id -> the request it works at
    m_currentThreadsCount,          \* a size_t, as the next:
    m_currentActiveThreadsCount,    \* below zero it is huge, not zero
    m_threadsCountPreferred,
    worker,     \* what each thread of the pool is doing, and its request
    world,      \* what the world thread is doing
    late,       \* the waiting time of the round is over
    frozen,     \* the thread freeze_hook has found
    killed      \* the threads freeze_hook killed since the pool last started with an
                \* empty queue (history)

counts == <<m_currentThreadsCount, m_currentActiveThreadsCount>>
vars == <<m_queue, m_threadsMap, counts, m_threadsCountPreferred, worker, world,
          late, frozen, killed>>

WorkerRec == [at: {"off", "dequeue", "begin", "update", "signal"}, rq: Maps \cup {NULL}]

InRound == {"check", "wait", "waiting", "hook", "kill", "hooked"}

TypeOK ==
    /\ m_queue \in Seq(Maps)
    /\ m_threadsMap \in [Threads \cup {World} -> Maps \cup {NULL}]
    /\ m_currentThreadsCount \in Int
    /\ world # "deactivate" => m_currentThreadsCount \in 0..NumThreads
    /\ m_currentActiveThreadsCount \in Int
    /\ m_threadsCountPreferred \in 0..NumThreads
    /\ worker \in [Threads -> WorkerRec]
    /\ world \in {"sessions", "deactivate", "activate", "schedule"} \cup InRound
    /\ late \in BOOLEAN
    /\ frozen \in Threads \cup {NULL}
    /\ killed \subseteq Threads

\* The threads 1..n are at the top of svc(), the others do not exist.
Started(n) ==
    [t \in Threads |-> [at |-> IF t <= n THEN "signal" ELSE "off", rq |-> NULL]]

Init ==
    LET n == IF Dynamic THEN 1 ELSE NumThreads
    IN  /\ m_threadsCountPreferred = n
        /\ m_currentThreadsCount = n
        /\ worker = Started(n)
        /\ m_queue = <<>>
        /\ m_threadsMap = [t \in Threads \cup {World} |-> NULL]
        /\ m_currentActiveThreadsCount = 0
        /\ world = "sessions"
        /\ late = FALSE /\ frozen = NULL /\ killed = {}

(***************************************************************************)
(* Helpers.                                                                *)
(***************************************************************************)
\* Mutant: the old entry is looked up after it is overwritten.
setThreadInfo_Late(t, rq) ==
    /\ m_threadsMap' = [m_threadsMap EXCEPT ![t] = rq]
    /\ m_currentActiveThreadsCount' = m_currentActiveThreadsCount
          + (IF rq # NULL /\ m_threadsMap'[t] = NULL THEN 1 ELSE 0)
          - (IF rq = NULL /\ m_threadsMap'[t] # NULL THEN 1 ELSE 0)
\* Thread t enters rq for itself.
setThreadInfo(t, rq) ==
    /\ m_threadsMap' = [m_threadsMap EXCEPT ![t] = rq]
    /\ m_currentActiveThreadsCount' = m_currentActiveThreadsCount
          + (IF rq # NULL /\ m_threadsMap[t] = NULL THEN 1 ELSE 0)
          - (IF rq = NULL /\ m_threadsMap[t] # NULL THEN 1 ELSE 0)

\* The numbers of threads the load balancer may come to prefer.
UpdateLoadBalancer ==
    m_threadsCountPreferred' \in
        IF Dynamic
        THEN { m_threadsCountPreferred,
               IF m_threadsCountPreferred < NumThreads THEN m_threadsCountPreferred + 1 ELSE NumThreads,
               IF m_threadsCountPreferred > 1 THEN m_threadsCountPreferred - 1 ELSE 1,
               m_currentThreadsCount }
        ELSE {NumThreads}

(***************************************************************************)
(* The threads of the pool: svc().                                         *)
(***************************************************************************)
dequeue(t) ==
    /\ worker[t].at = "dequeue" /\ world # "deactivate" /\ m_queue # <<>>
    /\ worker' = [worker EXCEPT ![t] = [at |-> "begin", rq |-> Head(m_queue)]]
    /\ m_queue' = Tail(m_queue)
    /\ UNCHANGED <<m_threadsMap, counts, m_threadsCountPreferred, world, late, frozen, killed>>

\* The thread enters its request and starts Map::Update.
call(t) ==
    /\ worker[t].at = "begin"
    /\ setThreadInfo(t, worker[t].rq)
    /\ worker' = [worker EXCEPT ![t].at = "update"]
    /\ UNCHANGED <<m_queue, m_currentThreadsCount, m_threadsCountPreferred, world, late,
                   frozen, killed>>

\* Map::Update is over.
call_Returns(t) ==
    /\ worker[t].at = "update"
    /\ setThreadInfo(t, NULL)
    /\ worker' = [worker EXCEPT ![t] = [at |-> "signal", rq |-> NULL]]
    /\ UNCHANGED <<m_queue, m_currentThreadsCount, m_threadsCountPreferred, world, late,
                   frozen, killed>>

\* m_condition.broadcast(), without m_mutex: the world thread hears it only when it
\* sleeps already.
broadcast(t) ==
    /\ worker[t].at = "signal"
    /\ world' = IF world = "waiting" THEN "check" ELSE world
    /\ worker' = [worker EXCEPT ![t].at = "dequeue"]
    /\ UNCHANGED <<m_queue, m_threadsMap, counts, m_threadsCountPreferred, late, frozen, killed>>

\* The queue is deactivated: dequeue() fails, whatever is left in it.
svc_Ends(t) ==
    /\ worker[t].at = "dequeue" /\ world = "deactivate"
    /\ worker' = [worker EXCEPT ![t].at = "off"]
    /\ m_currentThreadsCount' = m_currentThreadsCount - 1
    /\ UNCHANGED <<m_queue, m_threadsMap, m_currentActiveThreadsCount,
                   m_threadsCountPreferred, world, late, frozen, killed>>

(***************************************************************************)
(* The world thread, a tick: MapManager::Update.                           *)
(***************************************************************************)
Running == {t \in Threads : worker[t].at # "off"}
Busy    == {t \in Threads : m_threadsMap[t] # NULL}

\* The pool is restarted when its size is not the preferred one: deactivate() kills
\* every thread, unless all are killed, and waits for their ends.
ReactivateIfNeed ==
    /\ world = "sessions"
    /\ \/ /\ (Dynamic \/ NumThreads >= 2) /\ m_currentThreadsCount # m_threadsCountPreferred
          /\ world' = "deactivate"
          /\ \/ /\ m_currentThreadsCount > 0
                /\ m_currentThreadsCount' = m_currentThreadsCount - Cardinality(Running)
                /\ m_currentActiveThreadsCount' =
                      m_currentActiveThreadsCount - Cardinality(Busy \cap Running)
                /\ m_threadsMap' = [m_threadsMap EXCEPT ![World] = NULL]
             \/ m_currentThreadsCount = 0 /\ UNCHANGED <<counts, m_threadsMap>>
       \/ /\ (Dynamic \/ NumThreads >= 2) => m_currentThreadsCount = m_threadsCountPreferred
          /\ world' = "schedule"
          /\ UNCHANGED <<counts, m_threadsMap>>
    /\ UNCHANGED <<m_queue, m_threadsCountPreferred, worker, late, frozen, killed>>

\* Mutant: what is left in the queue is flushed.
reactivate_Flushes ==
    /\ world = "deactivate" /\ Running = {}
    /\ worker' = Started(m_threadsCountPreferred)
    /\ m_threadsMap' = [t \in Threads \cup {World} |-> NULL]
    /\ m_currentThreadsCount' = 0 /\ m_currentActiveThreadsCount' = 0
    /\ killed' = {}
    /\ m_queue' = <<>>
    /\ world' = "activate"
    /\ UNCHANGED <<m_threadsCountPreferred, late, frozen>>
\* The last thread has ended: the books are cleared, and activate() starts others, who
\* find what the last round has left in the queue.  (It would refuse to start none,
\* but the preferred number is 0 only while the counted one is, and then nothing is
\* restarted.)
reactivate ==
    /\ world = "deactivate" /\ Running = {}
    /\ m_threadsCountPreferred >= 1
    /\ worker' = Started(m_threadsCountPreferred)
    /\ m_threadsMap' = [t \in Threads \cup {World} |-> NULL]
    /\ m_currentThreadsCount' = 0 /\ m_currentActiveThreadsCount' = 0
    /\ killed' = IF m_queue = <<>> THEN {} ELSE killed
    /\ world' = "activate"
    /\ UNCHANGED <<m_queue, m_threadsCountPreferred, late, frozen>>

\* activate() clears the books again, whatever the new threads have entered.
activate ==
    /\ world = "activate"
    /\ m_threadsMap' = [t \in Threads \cup {World} |-> NULL]
    /\ m_currentThreadsCount' = m_threadsCountPreferred
    /\ m_currentActiveThreadsCount' = 0
    /\ world' = "schedule"
    /\ UNCHANGED <<m_queue, m_threadsCountPreferred, worker, late, frozen, killed>>

\* A request for every map, and queue_wait begins its round.
schedule_update ==
    /\ world = "schedule"
    /\ Len(m_queue) + Len(MapOrder) <= MaxQueue
    /\ m_queue' = m_queue \o MapOrder
    /\ UpdateLoadBalancer
    /\ late' = FALSE
    /\ world' = "check"
    /\ UNCHANGED <<m_threadsMap, counts, worker, frozen, killed>>

\* Mutant: threads at work do not matter.
Working_Queued == m_queue # <<>>
Working == m_queue # <<>> \/ m_currentActiveThreadsCount # 0

RoundOver == world' = "sessions" /\ UpdateLoadBalancer

\* Mutant: the number of threads is not asked for.
queue_wait_Uncounted ==
    /\ world = "check"
    /\ \/ /\ Working
          /\ world' = "wait"
          /\ UNCHANGED m_threadsCountPreferred
       \/ ~Working /\ RoundOver
    /\ UNCHANGED <<m_queue, m_threadsMap, counts, worker, late, frozen, killed>>
\* The condition of the loop of queue_wait.
queue_wait ==
    /\ world = "check"
    /\ \/ /\ m_currentThreadsCount > 0 /\ Working
          /\ world' = "wait"
          /\ UNCHANGED m_threadsCountPreferred
       \/ /\ ~(m_currentThreadsCount > 0 /\ Working)
          /\ RoundOver
    /\ UNCHANGED <<m_queue, m_threadsMap, counts, worker, late, frozen, killed>>

\* The world thread sleeps on m_condition until a broadcast or until its time is
\* over; once that is, it does not sleep at all.
wait ==
    /\ \/ /\ world = "wait"
          /\ world' = IF late THEN "hook" ELSE "waiting"
          /\ UNCHANGED late
       \/ /\ world = "waiting" /\ DetectsFreezes
          /\ world' = "hook" /\ late' = TRUE
    /\ UNCHANGED <<m_queue, m_threadsMap, counts, m_threadsCountPreferred, worker, frozen, killed>>

\* The first thread at work is frozen: all requests of the round are as old as
\* the round, which is late.
freeze_hook ==
    /\ world = "hook"
    /\ \/ /\ m_currentActiveThreadsCount # 0
          /\ \E t \in Busy : frozen' = t /\ \A u \in Busy : t <= u
          /\ world' = "kill"
       \/ /\ m_currentActiveThreadsCount = 0 \/ Busy = {}
          /\ world' = "hooked"
          /\ UNCHANGED frozen
    /\ UNCHANGED <<m_queue, m_threadsMap, counts, m_threadsCountPreferred, worker, late, killed>>

\* setThreadInfo for another thread: NULL is entered for the world thread itself.  The
\* entry is looked up and the count changed under different locks: in between the
\* thread may have finished.
kill_thread ==
    /\ world = "kill"
    /\ m_currentActiveThreadsCount' \in
          {m_currentActiveThreadsCount - 1}
             \cup (IF m_threadsMap[frozen] = NULL THEN {m_currentActiveThreadsCount} ELSE {})
    /\ m_threadsMap' = [m_threadsMap EXCEPT ![World] = NULL]
    /\ m_currentThreadsCount' = m_currentThreadsCount - 1
    /\ killed' = killed \cup {frozen}
    /\ frozen' = NULL
    /\ world' = "hooked"
    /\ UNCHANGED <<m_queue, m_threadsCountPreferred, worker, late>>

\* Mutant: after the hook the world thread waits on.
queue_wait_HookedWaits ==
    /\ world = "hooked"
    /\ world' = "wait"
    /\ UNCHANGED <<m_queue, m_threadsMap, counts, m_threadsCountPreferred, worker, late,
                   frozen, killed>>
\* After the hook the round ends only when nothing is left to do.
queue_wait_Hooked ==
    /\ world = "hooked"
    /\ \/ Working /\ world' = "check" /\ UNCHANGED m_threadsCountPreferred
       \/ ~Working /\ RoundOver
    /\ UNCHANGED <<m_queue, m_threadsMap, counts, worker, late, frozen, killed>>

WorkerStep(t) == dequeue(t) \/ call(t) \/ call_Returns(t) \/ broadcast(t) \/ svc_Ends(t)

WorldStep ==
    \/ ReactivateIfNeed \/ reactivate \/ activate \/ schedule_update
    \/ queue_wait \/ wait
    \/ freeze_hook \/ kill_thread \/ queue_wait_Hooked

Next == WorldStep \/ \E t \in Threads : WorkerStep(t)

Spec == Init /\ [][Next]_vars

\* Every thread is scheduled, every Map::Update returns, and the clock runs.
FairSpec == Spec /\ WF_vars(WorldStep) /\ \A t \in Threads : WF_vars(WorkerStep(t))

(***************************************************************************)
(* Properties.                                                             *)
(***************************************************************************)
\* While no thread has been killed the books of the pool are right: a thread is
\* entered with its own request exactly while it updates a map, and the counts
\* that queue_wait and ReactivateIfNeed decide by are those of the threads.
BooksAreRight ==
    killed = {} =>
        /\ \A t \in Threads :
              m_threadsMap[t] = IF worker[t].at = "update" THEN worker[t].rq ELSE NULL
        /\ world \notin {"deactivate", "activate"} =>
              /\ m_currentActiveThreadsCount = Cardinality(Busy)
              /\ m_currentThreadsCount = Cardinality(Running)

\* A round of a pool nobody was killed in ends with an empty queue and with no
\* thread inside Map::Update.  (One that has only just taken its request is missed.)
AtRest == m_queue = <<>> /\ \A t \in Threads : worker[t].at # "update"

RoundsEndAtRest ==
    [][(world \in InRound) /\ world' = "sessions" /\ killed = {} => AtRest]_vars

\* The world thread leaves every round, unless a thread was killed: the waiting time
\* makes up for broadcasts that come between its check and its sleep.
RoundsEnd == world \in InRound ~> world = "sessions" \/ killed # {}

\* A scheduled map is updated, whatever threads are killed and pools restarted.
Queued(m)  == \E i \in 1..Len(m_queue) : m_queue[i] = m
Updates(m) == \E t \in Threads : worker[t].at = "update" /\ worker[t].rq = m

ScheduledMapsAreUpdated == \A m \in Maps : Queued(m) ~> Updates(m)

\* Opcodes.h: "packet is not thread-safe - process it in World::UpdateSessions()".
\* While the world thread updates the sessions no thread updates a map.
MapsRestInSessions == world = "sessions" => \A m \in Maps : ~Updates(m)
=============================================================================
