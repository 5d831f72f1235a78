-------------------------- MODULE MapUpdateProofs --------------------------
(***************************************************************************)
(* Proofs about MapUpdate, for any number of maps and threads: the types,  *)
(* the books of the pool, and what holds at the end of a round.            *)
(***************************************************************************)
EXTENDS MapUpdate, FiniteSetTheorems, SequenceTheorems, TLAPS

(***************************************************************************)
(* The inductive invariant.  The books are right at the end of a round     *)
(* because the round has seen the queue empty; that makes the queue empty  *)
(* when the pool is restarted, so that none of the new threads is at a map *)
(* when activate() clears the books once more.                             *)
(***************************************************************************)
\* Nobody waits for a pool without threads, so there is one to be killed.
Waited == world \in {"wait", "waiting", "hook", "kill"} => m_currentThreadsCount > 0

FrozenIsThread == world = "kill" => frozen \in Threads

RequestsAreMaps ==
    \A t \in Threads : worker[t].at \in {"begin", "update"} => worker[t].rq \in Maps

PoolIsManned ==
    /\ world # "deactivate" => Running # {}
    /\ world = "activate" => Running = 1..m_threadsCountPreferred

BetweenRounds == {"sessions", "deactivate", "activate", "schedule"}

QueueIsServed ==
    killed = {} =>
        /\ world \in BetweenRounds => m_queue = <<>>
        /\ world = "activate" => \A t \in Threads : worker[t].at \notin {"begin", "update"}

EntriesAreRight ==
    killed = {} =>
        \A t \in Threads :
            m_threadsMap[t] = IF worker[t].at = "update" THEN worker[t].rq ELSE NULL

CountsAreRight ==
    killed = {} /\ world \notin {"deactivate", "activate"} =>
        /\ m_currentActiveThreadsCount = Cardinality(Busy)
        /\ m_currentThreadsCount = Cardinality(Running)

IInv ==
    /\ TypeOK
    /\ Waited /\ FrozenIsThread /\ RequestsAreMaps /\ PoolIsManned
    /\ QueueIsServed /\ EntriesAreRight /\ CountsAreRight

LEMMA BooksFollow == EntriesAreRight /\ CountsAreRight => BooksAreRight
  BY DEF EntriesAreRight, CountsAreRight, BooksAreRight

(***************************************************************************)
(* Counting threads.                                                       *)
(***************************************************************************)
LEMMA ThreadsAreFinite ==
    /\ IsFiniteSet(Threads)
    /\ \A S \in SUBSET Threads :
          /\ IsFiniteSet(S) /\ Cardinality(S) \in 0..NumThreads
          /\ Cardinality(S) = 0 <=> S = {}
          /\ \A t \in Threads \ S : Cardinality(S \cup {t}) = Cardinality(S) + 1
          /\ \A t \in S : Cardinality(S \ {t}) = Cardinality(S) - 1
    /\ \A n \in 0..NumThreads : Cardinality(1..n) = n
  <1>1. NumThreads \in Nat
    BY MapUpdateAssumption
  <1>2. IsFiniteSet(Threads) /\ Cardinality(Threads) = NumThreads
    BY <1>1, FS_Interval DEF Threads
  <1>3. \A n \in 0..NumThreads : Cardinality(1..n) = n
    BY <1>1, FS_Interval
  <1>4. ASSUME NEW S \in SUBSET Threads
        PROVE  /\ IsFiniteSet(S) /\ Cardinality(S) \in 0..NumThreads
               /\ Cardinality(S) = 0 <=> S = {}
               /\ \A t \in Threads \ S : Cardinality(S \cup {t}) = Cardinality(S) + 1
               /\ \A t \in S : Cardinality(S \ {t}) = Cardinality(S) - 1
    <2>1. IsFiniteSet(S) /\ Cardinality(S) <= NumThreads
      BY <1>2, FS_Subset
    <2>2. Cardinality(S) \in Nat /\ (Cardinality(S) = 0 <=> S = {})
      BY <2>1, FS_CardinalityType, FS_EmptySet
    <2>3. \A t \in Threads \ S : Cardinality(S \cup {t}) = Cardinality(S) + 1
      BY <2>1, FS_AddElement
    <2>4. \A t \in S : Cardinality(S \ {t}) = Cardinality(S) - 1
      BY <2>1, FS_RemoveElement
    <2> QED BY <1>1, <2>1, <2>2, <2>3, <2>4
  <1> QED BY <1>2, <1>3, <1>4

LEMMA StartedThreads ==
    ASSUME NEW n \in 0..NumThreads
    PROVE  /\ Started(n) \in [Threads -> WorkerRec]
           /\ {t \in Threads : Started(n)[t].at # "off"} = 1..n
           /\ \A t \in Threads : Started(n)[t].at \notin {"begin", "update"}
  <1>1. \A t \in Threads : Started(n)[t] = [at |-> IF t <= n THEN "signal" ELSE "off", rq |-> NULL]
    BY DEF Started
  <1>2. Started(n) \in [Threads -> WorkerRec]
    BY DEF Started, WorkerRec
  <1>3. ASSUME NEW t \in Threads
        PROVE  /\ t <= n => Started(n)[t].at = "signal"
               /\ ~(t <= n) => Started(n)[t].at = "off"
    <2>1. CASE t <= n
      <3>1. Started(n)[t] = [at |-> "signal", rq |-> NULL]
        BY <1>1, <2>1
      <3> QED BY <2>1, <3>1
    <2>2. CASE ~(t <= n)
      <3>1. Started(n)[t] = [at |-> "off", rq |-> NULL]
        BY <1>1, <2>2
      <3> QED BY <2>2, <3>1
    <2> QED BY <2>1, <2>2
  <1>4. {t \in Threads : Started(n)[t].at # "off"} = 1..n
    BY <1>3, MapUpdateAssumption DEF Threads
  <1> QED BY <1>2, <1>3, <1>4

LEMMA InitEstablishesInvariant ==
    ASSUME Init
    PROVE  IInv
  <1> DEFINE n == IF Dynamic THEN 1 ELSE NumThreads
  <1>1. n \in 1..NumThreads
    BY MapUpdateAssumption
  <1>2. /\ m_threadsCountPreferred = n /\ m_currentThreadsCount = n
        /\ worker = Started(n) /\ m_queue = <<>>
        /\ m_threadsMap = [t \in Threads \cup {World} |-> NULL]
        /\ m_currentActiveThreadsCount = 0 /\ world = "sessions"
        /\ late = FALSE /\ frozen = NULL /\ killed = {}
    BY DEF Init
  <1> HIDE DEF n
  <1>3. /\ worker \in [Threads -> WorkerRec] /\ Running = 1..n
        /\ \A t \in Threads : worker[t].at \notin {"begin", "update"}
    BY <1>1, <1>2, StartedThreads DEF Running
  <1>4. Busy = {}
    BY <1>2 DEF Busy
  <1>5. TypeOK
    <2>1. <<>> \in Seq(Maps)
      OBVIOUS
    <2>2. m_threadsMap \in [Threads \cup {World} -> Maps \cup {NULL}]
      BY <1>2
    <2>3. n \in Int /\ n \in 0..NumThreads
      BY <1>1, MapUpdateAssumption
    <2>4. late \in BOOLEAN /\ killed \subseteq Threads /\ frozen \in Threads \cup {NULL}
      BY <1>2
    <2>5. world \in {"sessions", "deactivate", "activate", "schedule"} \cup InRound
      BY <1>2
    <2>6. /\ m_queue \in Seq(Maps)
          /\ m_currentActiveThreadsCount \in Int
          /\ m_currentThreadsCount \in Int /\ m_currentThreadsCount \in 0..NumThreads
          /\ m_threadsCountPreferred \in 0..NumThreads
      BY <1>2, <2>1, <2>3
    <2> QED BY <1>3, <2>2, <2>4, <2>5, <2>6 DEF TypeOK
  <1>6. CountsAreRight
    BY <1>1, <1>2, <1>3, <1>4, ThreadsAreFinite, FS_EmptySet DEF CountsAreRight
  <1>7. Waited /\ FrozenIsThread /\ RequestsAreMaps /\ QueueIsServed /\ EntriesAreRight
    BY <1>2, <1>3 DEF Waited, FrozenIsThread, RequestsAreMaps, QueueIsServed, EntriesAreRight
  <1>8. PoolIsManned
    BY <1>1, <1>2, <1>3 DEF PoolIsManned
  <1> QED BY <1>5, <1>6, <1>7, <1>8 DEF IInv

(***************************************************************************)
(* The threads of the pool.                                                *)
(***************************************************************************)
\* What a worker's step leaves alone.  A worker that goes on from one place in its
\* loop to the next is running before and after.
WorkerGoesOn(t, at, rq) ==
    /\ worker[t].at # "off" /\ at \in {"dequeue", "begin", "update", "signal"}
    /\ rq \in Maps \cup {NULL}
    /\ worker' = [worker EXCEPT ![t] = [at |-> at, rq |-> rq]]

LEMMA GoingOn ==
    ASSUME TypeOK, NEW t \in Threads, NEW at, NEW rq, WorkerGoesOn(t, at, rq)
    PROVE  /\ worker' \in [Threads -> WorkerRec]
           /\ Running' = Running
           /\ worker'[t].at = at /\ worker'[t].rq = rq
           /\ \A u \in Threads \ {t} : worker'[u] = worker[u]
  <1> DEFINE r == [at |-> at, rq |-> rq]
  <1>1. r \in WorkerRec /\ r.at = at /\ r.rq = rq
    BY DEF WorkerGoesOn, WorkerRec
  <1>2. worker' = [worker EXCEPT ![t] = r]
    BY DEF WorkerGoesOn
  <1> HIDE DEF r
  <1>3. worker' \in [Threads -> WorkerRec] /\ worker'[t] = r
        /\ \A u \in Threads \ {t} : worker'[u] = worker[u]
    BY <1>1, <1>2 DEF TypeOK
  <1>4. Running' = Running
    BY <1>1, <1>3 DEF Running, WorkerGoesOn
  <1> QED BY <1>1, <1>3, <1>4

LEMMA dequeueKeepsInvariant ==
    ASSUME IInv, NEW t \in Threads, dequeue(t)
    PROVE  IInv'
  <1> DEFINE m == Head(m_queue)
  <1>1. /\ worker[t].at = "dequeue" /\ world # "deactivate" /\ m_queue # <<>>
        /\ worker' = [worker EXCEPT ![t] = [at |-> "begin", rq |-> m]]
        /\ m_queue' = Tail(m_queue)
        /\ UNCHANGED <<m_threadsMap, m_currentThreadsCount, m_currentActiveThreadsCount,
                       m_threadsCountPreferred, world, late, frozen, killed>>
    BY DEF dequeue, counts
  <1>2. m \in Maps /\ Tail(m_queue) \in Seq(Maps)
    BY <1>1, HeadTailProperties DEF IInv, TypeOK
  <1> HIDE DEF m
  <1>3. WorkerGoesOn(t, "begin", m)
    BY <1>1, <1>2 DEF WorkerGoesOn
  <1>4. /\ worker' \in [Threads -> WorkerRec] /\ Running' = Running /\ Busy' = Busy
        /\ worker'[t].at = "begin" /\ worker'[t].rq = m
        /\ \A u \in Threads \ {t} : worker'[u] = worker[u]
    BY <1>1, <1>3, GoingOn DEF IInv, Busy
  <1>5. killed = {} => world \notin BetweenRounds
    BY <1>1 DEF IInv, QueueIsServed
  <1>6. TypeOK'
    BY <1>1, <1>2, <1>4 DEF IInv, TypeOK
  <1>7. QueueIsServed' /\ EntriesAreRight' /\ CountsAreRight'
    BY <1>1, <1>4, <1>5
       DEF IInv, QueueIsServed, EntriesAreRight, CountsAreRight, BetweenRounds
  <1>8. Waited' /\ FrozenIsThread' /\ RequestsAreMaps' /\ PoolIsManned'
    BY <1>1, <1>2, <1>4 DEF IInv, Waited, FrozenIsThread, RequestsAreMaps, PoolIsManned
  <1> QED BY <1>6, <1>7, <1>8 DEF IInv

LEMMA callKeepsInvariant ==
    ASSUME IInv, NEW t \in Threads, call(t)
    PROVE  IInv'
  <1> DEFINE m == worker[t].rq
             n == m_currentActiveThreadsCount
                    + (IF m # NULL /\ m_threadsMap[t] = NULL THEN 1 ELSE 0)
                    - (IF m = NULL /\ m_threadsMap[t] # NULL THEN 1 ELSE 0)
  <1>1. /\ worker[t].at = "begin"
        /\ worker' = [worker EXCEPT ![t].at = "update"]
        /\ m_threadsMap' = [m_threadsMap EXCEPT ![t] = m]
        /\ m_currentActiveThreadsCount' = n
        /\ UNCHANGED <<m_queue, m_currentThreadsCount, m_threadsCountPreferred, world, late,
                       frozen, killed>>
    BY DEF call, setThreadInfo
  <1>2. m \in Maps /\ m # NULL /\ worker[t] \in WorkerRec
    BY <1>1, MapUpdateAssumption DEF IInv, RequestsAreMaps, TypeOK
  <1>3. WorkerGoesOn(t, "update", m)
    <2>1. [worker[t] EXCEPT !.at = "update"] = [at |-> "update", rq |-> m]
      BY <1>2 DEF WorkerRec
    <2>2. worker' = [worker EXCEPT ![t] = [worker[t] EXCEPT !.at = "update"]]
      BY <1>1 DEF IInv, TypeOK
    <2> QED BY <1>1, <1>2, <2>1, <2>2 DEF WorkerGoesOn
  <1>4. n \in Int /\ (m_threadsMap[t] = NULL => n = m_currentActiveThreadsCount + 1)
    BY <1>2 DEF IInv, TypeOK
  <1> HIDE DEF m, n
  <1>5. /\ worker' \in [Threads -> WorkerRec] /\ Running' = Running
        /\ worker'[t].at = "update" /\ worker'[t].rq = m
        /\ \A u \in Threads \ {t} : worker'[u] = worker[u]
    BY <1>3, GoingOn DEF IInv
  <1>6. /\ m_threadsMap' \in [Threads \cup {World} -> Maps \cup {NULL}]
        /\ m_threadsMap'[t] = m
        /\ \A u \in Threads \ {t} : m_threadsMap'[u] = m_threadsMap[u]
    BY <1>1, <1>2 DEF IInv, TypeOK
  <1>7. TypeOK'
    BY <1>1, <1>4, <1>5, <1>6 DEF IInv, TypeOK
  <1>8. killed = {} => m_threadsMap[t] = NULL /\ world # "activate"
    BY <1>1 DEF IInv, EntriesAreRight, QueueIsServed
  <1>9. EntriesAreRight'
    BY <1>1, <1>5, <1>6 DEF IInv, EntriesAreRight
  <1>10. CountsAreRight'
    <2> SUFFICES ASSUME killed = {}, world \notin {"deactivate", "activate"}
                 PROVE  /\ m_currentActiveThreadsCount' = Cardinality(Busy')
                        /\ m_currentThreadsCount' = Cardinality(Running')
      BY <1>1 DEF CountsAreRight
    <2>1. Busy' = Busy \cup {t} /\ t \in Threads \ Busy /\ Busy \in SUBSET Threads
      BY <1>2, <1>6, <1>8 DEF Busy
    <2>2. Cardinality(Busy') = Cardinality(Busy) + 1
      BY <2>1, ThreadsAreFinite
    <2>3. /\ m_currentActiveThreadsCount = Cardinality(Busy)
          /\ m_currentThreadsCount = Cardinality(Running)
      BY DEF IInv, CountsAreRight
    <2> QED BY <1>1, <1>4, <1>5, <1>8, <2>2, <2>3
  <1>11. QueueIsServed'
    BY <1>1, <1>5, <1>8 DEF IInv, QueueIsServed
  <1>12. Waited' /\ FrozenIsThread' /\ RequestsAreMaps' /\ PoolIsManned'
    BY <1>1, <1>2, <1>5 DEF IInv, Waited, FrozenIsThread, RequestsAreMaps, PoolIsManned
  <1> QED BY <1>7, <1>9, <1>10, <1>11, <1>12 DEF IInv

LEMMA call_ReturnsKeepsInvariant ==
    ASSUME IInv, NEW t \in Threads, call_Returns(t)
    PROVE  IInv'
  <1> DEFINE n == m_currentActiveThreadsCount
                    + (IF NULL # NULL /\ m_threadsMap[t] = NULL THEN 1 ELSE 0)
                    - (IF NULL = NULL /\ m_threadsMap[t] # NULL THEN 1 ELSE 0)
  <1>1. /\ worker[t].at = "update"
        /\ worker' = [worker EXCEPT ![t] = [at |-> "signal", rq |-> NULL]]
        /\ m_threadsMap' = [m_threadsMap EXCEPT ![t] = NULL]
        /\ m_currentActiveThreadsCount' = n
        /\ UNCHANGED <<m_queue, m_currentThreadsCount, m_threadsCountPreferred, world, late,
                       frozen, killed>>
    BY DEF call_Returns, setThreadInfo
  <1>2. n \in Int /\ (m_threadsMap[t] # NULL => n = m_currentActiveThreadsCount - 1)
    BY DEF IInv, TypeOK
  <1> HIDE DEF n
  <1>3. WorkerGoesOn(t, "signal", NULL)
    BY <1>1 DEF WorkerGoesOn
  <1>4. /\ worker' \in [Threads -> WorkerRec] /\ Running' = Running
        /\ worker'[t].at = "signal"
        /\ \A u \in Threads \ {t} : worker'[u] = worker[u]
    BY <1>3, GoingOn DEF IInv
  <1>5. /\ m_threadsMap' \in [Threads \cup {World} -> Maps \cup {NULL}]
        /\ m_threadsMap'[t] = NULL
        /\ \A u \in Threads \ {t} : m_threadsMap'[u] = m_threadsMap[u]
    BY <1>1 DEF IInv, TypeOK
  <1>6. TypeOK'
    BY <1>1, <1>2, <1>4, <1>5 DEF IInv, TypeOK
  <1>7. killed = {} => m_threadsMap[t] # NULL
    BY <1>1, MapUpdateAssumption DEF IInv, EntriesAreRight, RequestsAreMaps
  <1>8. EntriesAreRight'
    BY <1>1, <1>4, <1>5 DEF IInv, EntriesAreRight
  <1>9. CountsAreRight'
    <2> SUFFICES ASSUME killed = {}, world \notin {"deactivate", "activate"}
                 PROVE  /\ m_currentActiveThreadsCount' = Cardinality(Busy')
                        /\ m_currentThreadsCount' = Cardinality(Running')
      BY <1>1 DEF CountsAreRight
    <2>1. Busy' = Busy \ {t} /\ t \in Busy /\ Busy \in SUBSET Threads
      BY <1>5, <1>7 DEF Busy
    <2>2. Cardinality(Busy') = Cardinality(Busy) - 1
      BY <2>1, ThreadsAreFinite
    <2>3. /\ m_currentActiveThreadsCount = Cardinality(Busy)
          /\ m_currentThreadsCount = Cardinality(Running)
      BY DEF IInv, CountsAreRight
    <2> QED BY <1>1, <1>2, <1>4, <1>7, <2>2, <2>3
  <1>10. QueueIsServed'
    BY <1>1, <1>4 DEF IInv, QueueIsServed
  <1>11. Waited' /\ FrozenIsThread' /\ RequestsAreMaps' /\ PoolIsManned'
    BY <1>1, <1>4 DEF IInv, Waited, FrozenIsThread, RequestsAreMaps, PoolIsManned
  <1> QED BY <1>6, <1>8, <1>9, <1>10, <1>11 DEF IInv

LEMMA broadcastKeepsInvariant ==
    ASSUME IInv, NEW t \in Threads, broadcast(t)
    PROVE  IInv'
  <1> DEFINE w == IF world = "waiting" THEN "check" ELSE world
  <1>1. /\ worker[t].at = "signal" /\ world' = w
        /\ worker' = [worker EXCEPT ![t].at = "dequeue"]
        /\ UNCHANGED <<m_queue, m_threadsMap, m_currentThreadsCount, m_currentActiveThreadsCount,
                       m_threadsCountPreferred, late, frozen, killed>>
    BY DEF broadcast, counts
  <1>2. worker[t] \in WorkerRec
    BY DEF IInv, TypeOK
  <1>3. WorkerGoesOn(t, "dequeue", worker[t].rq)
    <2>1. [worker[t] EXCEPT !.at = "dequeue"] = [at |-> "dequeue", rq |-> worker[t].rq]
      BY <1>2 DEF WorkerRec
    <2>2. worker' = [worker EXCEPT ![t] = [worker[t] EXCEPT !.at = "dequeue"]]
      BY <1>1 DEF IInv, TypeOK
    <2> QED BY <1>1, <1>2, <2>1, <2>2 DEF WorkerGoesOn, WorkerRec
  <1>4. /\ worker' \in [Threads -> WorkerRec] /\ Running' = Running /\ Busy' = Busy
        /\ worker'[t].at = "dequeue"
        /\ \A u \in Threads \ {t} : worker'[u] = worker[u]
    BY <1>1, <1>3, GoingOn DEF IInv, Busy
  <1>5. /\ w \in {"sessions", "deactivate", "activate", "schedule"} \cup InRound
        /\ w \in BetweenRounds <=> world \in BetweenRounds
        /\ w = world \/ (world = "waiting" /\ w = "check")
    BY DEF IInv, TypeOK, InRound, BetweenRounds
  <1> HIDE DEF w
  <1>6. TypeOK'
    BY <1>1, <1>4, <1>5 DEF IInv, TypeOK
  <1>7. QueueIsServed' /\ EntriesAreRight' /\ CountsAreRight'
    BY <1>1, <1>4, <1>5 DEF IInv, QueueIsServed, EntriesAreRight, CountsAreRight
  <1>8. Waited' /\ FrozenIsThread' /\ RequestsAreMaps' /\ PoolIsManned'
    BY <1>1, <1>4, <1>5 DEF IInv, Waited, FrozenIsThread, RequestsAreMaps, PoolIsManned
  <1> QED BY <1>6, <1>7, <1>8 DEF IInv

\* A thread ends; the world thread waits for the others, and no count is right.
LEMMA svc_EndsKeepsInvariant ==
    ASSUME IInv, NEW t \in Threads, svc_Ends(t)
    PROVE  IInv'
  <1>1. /\ worker[t].at = "dequeue" /\ world = "deactivate"
        /\ worker' = [worker EXCEPT ![t].at = "off"]
        /\ m_currentThreadsCount' = m_currentThreadsCount - 1
        /\ UNCHANGED <<m_queue, m_threadsMap, m_currentActiveThreadsCount,
                       m_threadsCountPreferred, world, late, frozen, killed>>
    BY DEF svc_Ends
  <1>2. /\ worker' \in [Threads -> WorkerRec]
        /\ worker'[t].at = "off" /\ \A u \in Threads \ {t} : worker'[u] = worker[u]
    <2>1. worker[t] \in WorkerRec
      BY DEF IInv, TypeOK
    <2> DEFINE r == [worker[t] EXCEPT !.at = "off"]
    <2>2. r \in WorkerRec /\ r.at = "off"
      BY <2>1 DEF WorkerRec
    <2>3. worker' = [worker EXCEPT ![t] = r]
      BY <1>1 DEF IInv, TypeOK
    <2> HIDE DEF r
    <2> QED BY <2>2, <2>3 DEF IInv, TypeOK
  <1>3. m_currentThreadsCount - 1 \in Int
    BY DEF IInv, TypeOK
  <1>4. TypeOK'
    BY <1>1, <1>2, <1>3 DEF IInv, TypeOK
  <1>5. QueueIsServed' /\ EntriesAreRight' /\ CountsAreRight'
    BY <1>1, <1>2 DEF IInv, QueueIsServed, EntriesAreRight, CountsAreRight
  <1>6. Waited' /\ FrozenIsThread' /\ RequestsAreMaps' /\ PoolIsManned'
    BY <1>1, <1>2 DEF IInv, Waited, FrozenIsThread, RequestsAreMaps, PoolIsManned
  <1> QED BY <1>4, <1>5, <1>6 DEF IInv

(***************************************************************************)
(* The world thread.                                                       *)
(***************************************************************************)
LEMMA ReactivateIfNeedKeepsInvariant ==
    ASSUME IInv, ReactivateIfNeed
    PROVE  IInv'
  <1>1. /\ world = "sessions" /\ world' \in {"deactivate", "schedule"}
        /\ UNCHANGED <<m_queue, m_threadsCountPreferred, worker, late, frozen, killed>>
        /\ world' = "schedule" =>
              UNCHANGED <<m_threadsMap, m_currentThreadsCount, m_currentActiveThreadsCount>>
        /\ \/ UNCHANGED <<m_threadsMap, m_currentThreadsCount, m_currentActiveThreadsCount>>
           \/ /\ m_currentThreadsCount' = m_currentThreadsCount - Cardinality(Running)
              /\ m_currentActiveThreadsCount' =
                    m_currentActiveThreadsCount - Cardinality(Busy \cap Running)
              /\ m_threadsMap' = [m_threadsMap EXCEPT ![World] = NULL]
    BY DEF ReactivateIfNeed, counts
  <1>2. Running' = Running
    BY <1>1 DEF Running
  <1>3. /\ m_currentThreadsCount' \in Int /\ m_currentActiveThreadsCount' \in Int
        /\ world' # "deactivate" => m_currentThreadsCount' \in 0..NumThreads
    <2>1. Cardinality(Running) \in Int /\ Cardinality(Busy \cap Running) \in Int
      BY ThreadsAreFinite, MapUpdateAssumption DEF Running, Busy
    <2> QED BY <1>1, <2>1 DEF IInv, TypeOK
  <1>4. /\ m_threadsMap' \in [Threads \cup {World} -> Maps \cup {NULL}]
        /\ \A t \in Threads : m_threadsMap'[t] = m_threadsMap[t]
    BY <1>1, MapUpdateAssumption DEF IInv, TypeOK, Threads, World
  <1>5. Busy' = Busy
    BY <1>4 DEF Busy
  <1>6. TypeOK'
    BY <1>1, <1>3, <1>4 DEF IInv, TypeOK
  <1>7. QueueIsServed' /\ EntriesAreRight' /\ CountsAreRight'
    BY <1>1, <1>2, <1>4, <1>5
       DEF IInv, QueueIsServed, EntriesAreRight, CountsAreRight, BetweenRounds
  <1>8. Waited' /\ FrozenIsThread' /\ RequestsAreMaps' /\ PoolIsManned'
    BY <1>1, <1>2 DEF IInv, Waited, FrozenIsThread, RequestsAreMaps, PoolIsManned
  <1> QED BY <1>6, <1>7, <1>8 DEF IInv

LEMMA reactivateKeepsInvariant ==
    ASSUME IInv, reactivate
    PROVE  IInv'
  <1> DEFINE n == m_threadsCountPreferred
             k == IF m_queue = <<>> THEN {} ELSE killed
  <1>1. /\ world = "deactivate" /\ Running = {} /\ n >= 1
        /\ worker' = Started(n)
        /\ m_threadsMap' = [t \in Threads \cup {World} |-> NULL]
        /\ m_currentThreadsCount' = 0 /\ m_currentActiveThreadsCount' = 0
        /\ killed' = k /\ world' = "activate"
        /\ UNCHANGED <<m_queue, m_threadsCountPreferred, late, frozen>>
    BY DEF reactivate
  <1>2. n \in 0..NumThreads /\ k \subseteq Threads
    BY DEF IInv, TypeOK
  <1>3. /\ worker' \in [Threads -> WorkerRec] /\ Running' = 1..n
        /\ \A t \in Threads : worker'[t].at \notin {"begin", "update"}
    BY <1>1, <1>2, StartedThreads DEF Running
  <1>4. m_threadsMap' \in [Threads \cup {World} -> Maps \cup {NULL}]
    BY <1>1
  <1>5. k = {} => m_queue = <<>>
    BY <1>1 DEF IInv, QueueIsServed, BetweenRounds
  <1>6. 0 \in Int /\ 0 \in 0..NumThreads
    BY MapUpdateAssumption
  <1> HIDE DEF k
  <1>7. TypeOK'
    BY <1>1, <1>2, <1>3, <1>4, <1>6 DEF IInv, TypeOK
  <1>8. QueueIsServed' /\ EntriesAreRight' /\ CountsAreRight'
    BY <1>1, <1>3, <1>5 DEF QueueIsServed, EntriesAreRight, CountsAreRight
  <1>9. Running' # {}
    BY <1>1, <1>2, <1>3
  <1>10. Waited' /\ FrozenIsThread' /\ RequestsAreMaps' /\ PoolIsManned'
    BY <1>1, <1>3, <1>9 DEF Waited, FrozenIsThread, RequestsAreMaps, PoolIsManned
  <1> QED BY <1>7, <1>8, <1>10 DEF IInv

LEMMA activateKeepsInvariant ==
    ASSUME IInv, activate
    PROVE  IInv'
  <1> DEFINE n == m_threadsCountPreferred
  <1>1. /\ world = "activate"
        /\ m_threadsMap' = [t \in Threads \cup {World} |-> NULL]
        /\ m_currentThreadsCount' = n /\ m_currentActiveThreadsCount' = 0
        /\ world' = "schedule"
        /\ UNCHANGED <<m_queue, m_threadsCountPreferred, worker, late, frozen, killed>>
    BY DEF activate
  <1>2. n \in 0..NumThreads /\ n \in Int /\ Running = 1..n /\ Running # {}
    BY <1>1, MapUpdateAssumption DEF IInv, TypeOK, PoolIsManned
  <1>3. Running' = Running /\ Busy' = {}
    BY <1>1 DEF Running, Busy
  <1>4. Cardinality(Running) = n /\ Cardinality({}) = 0
    BY <1>2, ThreadsAreFinite, FS_EmptySet
  <1>5. m_threadsMap' \in [Threads \cup {World} -> Maps \cup {NULL}]
    BY <1>1
  <1>6. TypeOK'
    BY <1>1, <1>2, <1>5 DEF IInv, TypeOK
  <1>7. QueueIsServed' /\ EntriesAreRight' /\ CountsAreRight'
    BY <1>1, <1>3, <1>4
       DEF IInv, QueueIsServed, EntriesAreRight, CountsAreRight, BetweenRounds
  <1>8. Waited' /\ FrozenIsThread' /\ RequestsAreMaps' /\ PoolIsManned'
    BY <1>1, <1>2, <1>3 DEF IInv, Waited, FrozenIsThread, RequestsAreMaps, PoolIsManned
  <1> QED BY <1>6, <1>7, <1>8 DEF IInv

LEMMA BalancerStaysInRange ==
    ASSUME IInv, world # "deactivate", UpdateLoadBalancer
    PROVE  m_threadsCountPreferred' \in 0..NumThreads
  BY MapUpdateAssumption DEF UpdateLoadBalancer, IInv, TypeOK

LEMMA schedule_updateKeepsInvariant ==
    ASSUME IInv, schedule_update
    PROVE  IInv'
  <1>1. /\ world = "schedule" /\ world' = "check" /\ late' = FALSE
        /\ m_queue' = m_queue \o MapOrder
        /\ UNCHANGED <<m_threadsMap, m_currentThreadsCount, m_currentActiveThreadsCount,
                       worker, frozen, killed>>
    BY DEF schedule_update, counts
  <1>2. m_threadsCountPreferred' \in 0..NumThreads
    BY <1>1, BalancerStaysInRange DEF schedule_update
  <1>3. m_queue' \in Seq(Maps)
    BY <1>1, MapUpdateAssumption, ConcatProperties DEF IInv, TypeOK
  <1>4. late' \in BOOLEAN
    BY <1>1
  <1>5. Running' = Running /\ Busy' = Busy
    BY <1>1 DEF Running, Busy
  <1>6. TypeOK'
    BY <1>1, <1>2, <1>3, <1>4 DEF IInv, TypeOK, InRound
  <1>7. QueueIsServed' /\ EntriesAreRight' /\ CountsAreRight'
    BY <1>1, <1>5
       DEF IInv, QueueIsServed, EntriesAreRight, CountsAreRight, BetweenRounds
  <1>8. Waited' /\ FrozenIsThread' /\ RequestsAreMaps' /\ PoolIsManned'
    BY <1>1, <1>5 DEF IInv, Waited, FrozenIsThread, RequestsAreMaps, PoolIsManned
  <1> QED BY <1>6, <1>7, <1>8 DEF IInv

\* A pool nobody was killed in has threads, so a round that ends has served them all.
LEMMA RoundOverAtRest ==
    ASSUME IInv, killed = {}, world \in InRound,
           ~(m_currentThreadsCount > 0 /\ Working)
    PROVE  AtRest
  <1>1. /\ m_currentActiveThreadsCount = Cardinality(Busy)
        /\ m_currentThreadsCount = Cardinality(Running) /\ Running # {}
    BY DEF IInv, CountsAreRight, PoolIsManned, InRound
  <1>2. Running \in SUBSET Threads /\ Busy \in SUBSET Threads
    BY DEF Running, Busy
  <1>3. m_currentThreadsCount > 0
    BY <1>1, <1>2, ThreadsAreFinite, MapUpdateAssumption
  <1>4. m_queue = <<>> /\ Busy = {}
    BY <1>1, <1>2, <1>3, ThreadsAreFinite DEF Working
  <1>5. ASSUME NEW t \in Threads
        PROVE  worker[t].at # "update"
    <2>1. m_threadsMap[t] = NULL
      BY <1>4 DEF Busy
    <2> QED BY <2>1, MapUpdateAssumption DEF IInv, EntriesAreRight, RequestsAreMaps
  <1> QED BY <1>4, <1>5 DEF AtRest

\* The steps inside a round that touch nothing but the world thread's own state.
LEMMA RoundStepKeepsInvariant ==
    ASSUME IInv, world \in InRound,
           world' \in {"wait", "waiting", "hook", "kill"} => m_currentThreadsCount > 0,
           world' = "kill" => frozen' \in Threads,
           world' \in InRound \/ (world' = "sessions" /\ (killed = {} => AtRest)),
           m_threadsCountPreferred' \in 0..NumThreads,
           late' \in BOOLEAN, frozen' \in Threads \cup {NULL},
           UNCHANGED <<m_queue, m_threadsMap, m_currentThreadsCount,
                       m_currentActiveThreadsCount, worker, killed>>
    PROVE  IInv'
  <1>1. Running' = Running /\ Busy' = Busy
    BY DEF Running, Busy
  <1>2. /\ world \notin BetweenRounds /\ world # "deactivate"
        /\ world' \in {"sessions", "deactivate", "activate", "schedule"} \cup InRound
        /\ world' \notin {"deactivate", "activate"}
        /\ world' \in BetweenRounds /\ killed = {} => m_queue = <<>>
    BY DEF InRound, BetweenRounds, AtRest
  <1>3. TypeOK'
    BY <1>2 DEF IInv, TypeOK, InRound
  <1>4. QueueIsServed' /\ EntriesAreRight' /\ CountsAreRight'
    BY <1>1, <1>2
       DEF IInv, QueueIsServed, EntriesAreRight, CountsAreRight, BetweenRounds
  <1>5. Waited' /\ FrozenIsThread' /\ RequestsAreMaps' /\ PoolIsManned'
    BY <1>1, <1>2 DEF IInv, Waited, FrozenIsThread, RequestsAreMaps, PoolIsManned
  <1> QED BY <1>3, <1>4, <1>5 DEF IInv

LEMMA queue_waitKeepsInvariant ==
    ASSUME IInv, queue_wait \/ queue_wait_Hooked
    PROVE  IInv'
  <1>1. /\ world \in {"check", "hooked"}
        /\ UNCHANGED <<m_queue, m_threadsMap, m_currentThreadsCount,
                       m_currentActiveThreadsCount, worker, late, frozen, killed>>
        /\ \/ /\ world' \in {"wait", "check"}
              /\ world' = "wait" => m_currentThreadsCount > 0
              /\ UNCHANGED m_threadsCountPreferred
           \/ ~(m_currentThreadsCount > 0 /\ Working) /\ RoundOver
    BY DEF queue_wait, queue_wait_Hooked, counts
  <1>2. world \in InRound /\ world # "deactivate"
    BY <1>1 DEF InRound
  <1>3. late \in BOOLEAN /\ frozen \in Threads \cup {NULL}
        /\ m_threadsCountPreferred \in 0..NumThreads
    BY DEF IInv, TypeOK
  <1>4. CASE world' \in {"wait", "check"} /\ UNCHANGED m_threadsCountPreferred
             /\ (world' = "wait" => m_currentThreadsCount > 0)
    BY <1>1, <1>2, <1>3, <1>4, RoundStepKeepsInvariant DEF InRound
  <1>5. CASE ~(m_currentThreadsCount > 0 /\ Working) /\ RoundOver
    <2>1. world' = "sessions" /\ UpdateLoadBalancer
      BY <1>5 DEF RoundOver
    <2>2. m_threadsCountPreferred' \in 0..NumThreads
      BY <1>2, <2>1, BalancerStaysInRange
    <2>3. killed = {} => AtRest
      BY <1>2, <1>5, RoundOverAtRest
    <2> QED BY <1>1, <1>2, <1>3, <2>1, <2>2, <2>3, RoundStepKeepsInvariant
  <1> QED BY <1>1, <1>4, <1>5

LEMMA waitKeepsInvariant ==
    ASSUME IInv, wait
    PROVE  IInv'
  <1>1. /\ world \in {"wait", "waiting"} /\ world' \in {"hook", "waiting"}
        /\ late' = late \/ late' = TRUE
        /\ UNCHANGED <<m_queue, m_threadsMap, m_currentThreadsCount, m_threadsCountPreferred,
                       m_currentActiveThreadsCount, worker, frozen, killed>>
    <2>1. (IF late THEN "hook" ELSE "waiting") \in {"hook", "waiting"}
      OBVIOUS
    <2> QED BY <2>1 DEF wait, counts
  <1>2. late \in BOOLEAN /\ frozen \in Threads \cup {NULL}
        /\ m_threadsCountPreferred \in 0..NumThreads
    BY DEF IInv, TypeOK
  <1>3. late' \in BOOLEAN
    BY <1>1, <1>2
  <1>4. m_currentThreadsCount > 0
    BY <1>1 DEF IInv, Waited
  <1> QED BY <1>1, <1>2, <1>3, <1>4, RoundStepKeepsInvariant DEF InRound

LEMMA freeze_hookKeepsInvariant ==
    ASSUME IInv, freeze_hook
    PROVE  IInv'
  <1>1. /\ world = "hook"
        /\ UNCHANGED <<m_queue, m_threadsMap, m_currentThreadsCount, m_threadsCountPreferred,
                       m_currentActiveThreadsCount, worker, late, killed>>
        /\ \/ world' = "kill" /\ frozen' \in Busy
           \/ world' = "hooked" /\ UNCHANGED frozen
    BY DEF freeze_hook, counts
  <1>2. late \in BOOLEAN /\ frozen \in Threads \cup {NULL} /\ Busy \subseteq Threads
        /\ m_threadsCountPreferred \in 0..NumThreads
    BY DEF IInv, TypeOK, Busy
  <1>3. m_currentThreadsCount > 0
    BY <1>1 DEF IInv, Waited
  <1> QED BY <1>1, <1>2, <1>3, RoundStepKeepsInvariant DEF InRound

\* A thread is killed: from here on the books are not right, and only the types stay.
LEMMA kill_threadKeepsInvariant ==
    ASSUME IInv, kill_thread
    PROVE  IInv'
  <1>1. /\ world = "kill" /\ world' = "hooked"
        /\ m_currentActiveThreadsCount' \in
              {m_currentActiveThreadsCount - 1, m_currentActiveThreadsCount}
        /\ m_threadsMap' = [m_threadsMap EXCEPT ![World] = NULL]
        /\ m_currentThreadsCount' = m_currentThreadsCount - 1
        /\ killed' = killed \cup {frozen} /\ frozen' = NULL
        /\ UNCHANGED <<m_queue, m_threadsCountPreferred, worker, late>>
    BY DEF kill_thread
  <1>2. frozen \in Threads /\ m_currentThreadsCount > 0
    BY <1>1 DEF IInv, FrozenIsThread, Waited
  <1>3. /\ m_currentThreadsCount' \in Int /\ m_currentThreadsCount' \in 0..NumThreads
        /\ m_currentActiveThreadsCount' \in Int
    BY <1>1, <1>2, MapUpdateAssumption DEF IInv, TypeOK
  <1>4. /\ m_threadsMap' \in [Threads \cup {World} -> Maps \cup {NULL}]
        /\ killed' \subseteq Threads /\ killed' # {}
    BY <1>1, <1>2 DEF IInv, TypeOK
  <1>5. TypeOK'
    BY <1>1, <1>3, <1>4 DEF IInv, TypeOK, InRound
  <1>6. QueueIsServed' /\ EntriesAreRight' /\ CountsAreRight'
    BY <1>4 DEF QueueIsServed, EntriesAreRight, CountsAreRight
  <1>7. Running' = Running
    BY <1>1 DEF Running
  <1>8. Waited' /\ FrozenIsThread' /\ RequestsAreMaps' /\ PoolIsManned'
    BY <1>1, <1>7 DEF IInv, Waited, FrozenIsThread, RequestsAreMaps, PoolIsManned
  <1> QED BY <1>5, <1>6, <1>8 DEF IInv

(***************************************************************************)
(* The theorems.                                                           *)
(***************************************************************************)
LEMMA StepKeepsInvariant ==
    ASSUME IInv, [Next]_vars
    PROVE  IInv'
  <1>1. CASE WorldStep
    BY <1>1, ReactivateIfNeedKeepsInvariant, reactivateKeepsInvariant,
       activateKeepsInvariant, schedule_updateKeepsInvariant, queue_waitKeepsInvariant,
       waitKeepsInvariant, freeze_hookKeepsInvariant, kill_threadKeepsInvariant
       DEF WorldStep
  <1>2. ASSUME NEW t \in Threads, WorkerStep(t)
        PROVE  IInv'
    BY <1>2, dequeueKeepsInvariant, callKeepsInvariant, call_ReturnsKeepsInvariant,
       broadcastKeepsInvariant, svc_EndsKeepsInvariant DEF WorkerStep
  <1>3. CASE UNCHANGED vars
    <2>1. UNCHANGED <<m_queue, m_threadsMap, m_currentThreadsCount, m_threadsCountPreferred,
                      m_currentActiveThreadsCount, worker, world, late, frozen, killed>>
      BY <1>3 DEF vars, counts
    <2>2. Running' = Running /\ Busy' = Busy
      BY <2>1 DEF Running, Busy
    <2> QED BY <2>1, <2>2 DEF IInv, TypeOK, Waited, FrozenIsThread, RequestsAreMaps, PoolIsManned,
            QueueIsServed, EntriesAreRight, CountsAreRight
  <1> QED BY <1>1, <1>2, <1>3 DEF Next

THEOREM InvariantHolds == Spec => []IInv
  BY InitEstablishesInvariant, StepKeepsInvariant, PTL DEF Spec

\* No count and no entry leaves its type; above all m_currentThreadsCount, a size_t,
\* does not go below zero outside a restart of the pool, whatever threads are killed:
\* there is always one left to kill.
THEOREM TypeCorrect == Spec => []TypeOK
  <1>1. IInv => TypeOK
    BY DEF IInv
  <1> QED BY <1>1, InvariantHolds, PTL

\* While nobody is killed the pool's books are those of its threads.
THEOREM BooksStayRight == Spec => []BooksAreRight
  <1>1. IInv => BooksAreRight
    BY BooksFollow DEF IInv
  <1> QED BY <1>1, InvariantHolds, PTL

\* A round of a pool nobody was killed in leaves no request and no thread in a map.
THEOREM RoundsLeaveNothing == Spec => RoundsEndAtRest
  <1> DEFINE Step == world \in InRound /\ world' = "sessions" /\ killed = {} => AtRest
  <1>1. ASSUME IInv, Next, world \in InRound, world' = "sessions", killed = {}
        PROVE  AtRest
    <2>1. CASE queue_wait
      <3>1. ~(m_currentThreadsCount > 0 /\ Working)
        BY <1>1, <2>1 DEF queue_wait
      <3> QED BY <1>1, <3>1, RoundOverAtRest
    <2>2. CASE queue_wait_Hooked
      <3>1. ~Working
        BY <1>1, <2>2 DEF queue_wait_Hooked
      <3> QED BY <1>1, <3>1, RoundOverAtRest
    <2>3. CASE \E t \in Threads : WorkerStep(t)
      BY <1>1, <2>3 DEF WorkerStep, dequeue, call, call_Returns, broadcast, svc_Ends, InRound
    <2>4. CASE wait
      <3>1. world' \in {"hook", "waiting"}
        BY <2>4 DEF wait
      <3> QED BY <1>1, <3>1
    <2>5. CASE \/ ReactivateIfNeed \/ reactivate \/ activate \/ schedule_update
               \/ freeze_hook \/ kill_thread
      BY <1>1, <2>5 DEF ReactivateIfNeed, reactivate, activate, schedule_update,
         freeze_hook, kill_thread, InRound
    <2> QED BY <1>1, <2>1, <2>2, <2>3, <2>4, <2>5 DEF Next, WorldStep
  <1>2. IInv /\ [Next]_vars => [Step]_vars
    BY <1>1
  <1>3. RoundsEndAtRest <=> [][Step]_vars
    BY PTL DEF RoundsEndAtRest
  <1> QED BY <1>2, <1>3, InvariantHolds, PTL DEF Spec
=============================================================================
