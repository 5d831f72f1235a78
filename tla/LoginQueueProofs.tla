-------------------------- MODULE LoginQueueProofs --------------------------
(***************************************************************************)
(* Proofs about LoginQueue: each client is present once, and nobody        *)
(* overtakes.                                                              *)
(***************************************************************************)
EXTENDS LoginQueue, DataLemmas

\* A state of the queue in which each client is present once.
Proper(q) ==
    /\ q \in [inside: SUBSET Clients, waiting: Seq(Clients)]
    /\ IsInjective(q.waiting)
    /\ q.inside \cap Range(q.waiting) = {}

LEMMA EmptyQueue ==
    /\ <<>> \in Seq(Clients) /\ Len(<<>>) = 0
    /\ IsInjective(<<>>)
    /\ Range(<<>>) = {}
  <1>1. <<>> \in Seq(Clients) /\ Len(<<>>) = 0
    OBVIOUS
  <1>2. Range(<<>>) = {}
    BY DEF Range
  <1> QED BY <1>1, <1>2 DEF IsInjective

\* Who is left after a departure was there before, in the same order.
LEMMA DepartureKeepsOrder ==
    ASSUME NEW q, Proper(q), NEW r \in Departures(q)
    PROVE  /\ Proper(r)
           /\ Suborder(r.waiting, q.waiting)
           /\ r.inside \subseteq q.inside /\ Range(r.waiting) \subseteq Range(q.waiting)
  <1> DEFINE w == q.waiting
  <1>1. w \in Seq(Clients) /\ IsInjective(w) /\ Suborder(w, w)
    BY DEF Proper, Suborder
  <1>2. CASE r = q
    BY <1>1, <1>2
  <1>3. CASE \E c \in q.inside : r = [q EXCEPT !.inside = @ \ {c}]
    <2>1. /\ r \in [inside: SUBSET Clients, waiting: Seq(Clients)]
          /\ r.inside \subseteq q.inside /\ r.waiting = w
      BY <1>3 DEF Proper
    <2> QED BY <1>1, <2>1 DEF Proper
  <1>4. ASSUME NEW i \in 1..Len(w), r = [q EXCEPT !.waiting = RemoveAt(@, i)]
        PROVE  /\ Proper(r) /\ r.inside = q.inside
               /\ Range(r.waiting) \subseteq Range(w) /\ Suborder(r.waiting, w)
    <2> DEFINE rest == RemoveAt(w, i)
    <2>1. /\ rest \in Seq(Clients) /\ IsInjective(rest) /\ Range(rest) \subseteq Range(w)
          /\ Suborder(rest, w)
      BY <1>1, RemoveAtKeepsOthers, RemoveAtKeepsOrder
    <2> HIDE DEF rest
    <2>2. r = [q EXCEPT !.waiting = rest]
      BY <1>4 DEF rest
    <2>3. /\ r \in [inside: SUBSET Clients, waiting: Seq(Clients)]
          /\ r.inside = q.inside /\ r.waiting = rest
      BY <2>1, <2>2 DEF Proper
    <2> QED BY <2>1, <2>3 DEF Proper
  <1>5. CASE r = [q EXCEPT !.waiting = <<>>]
    <2>1. /\ r \in [inside: SUBSET Clients, waiting: Seq(Clients)]
          /\ r.inside = q.inside /\ r.waiting = <<>>
      BY <1>5, EmptyQueue DEF Proper
    <2> QED BY <1>1, <2>1, EmptyQueue DEF Proper, Suborder
  <1>6. CASE \E i \in 1..Len(w) : r = [q EXCEPT !.waiting = RemoveAt(@, i)]
    BY <1>4, <1>6
  <1> QED BY <1>2, <1>3, <1>5, <1>6 DEF Departures

\* An admission takes the head of the queue in, which was before all the others.
LEMMA AdmissionTakesTheFirst ==
    ASSUME NEW q, Proper(q), NEW r \in Admissions(q)
    PROVE  /\ Proper(r)
           /\ Suborder(r.waiting, q.waiting)
           /\ Range(r.waiting) \subseteq Range(q.waiting)
           /\ \A c \in r.inside : c \in q.inside \/ c \in Range(q.waiting)
           /\ \A c \in r.inside \ q.inside : \A k \in 1..Len(r.waiting) :
                \E i, j \in 1..Len(q.waiting) :
                    i < j /\ q.waiting[i] = c /\ q.waiting[j] = r.waiting[k]
  <1> DEFINE w == q.waiting
  <1>1. w \in Seq(Clients) /\ IsInjective(w) /\ Suborder(w, w)
    BY DEF Proper, Suborder
  <1>2. CASE r = q
    BY <1>1, <1>2
  <1>3. CASE w # <<>> /\ r = [inside |-> q.inside \cup {Head(w)}, waiting |-> Tail(w)]
    <2>1. r.inside = q.inside \cup {Head(w)} /\ r.waiting = Tail(w)
      BY <1>3
    <2>2. /\ r.waiting \in Seq(Clients) /\ IsInjective(r.waiting)
          /\ Head(w) \in Range(w) /\ Range(r.waiting) = Range(w) \ {Head(w)}
      BY <1>1, <1>3, <2>1, TailKeepsOthers
    <2>3. Range(w) \subseteq Clients
      BY <1>1, InRange
    <2>4. Proper(r)
      <3>1. q.inside \cup {Head(w)} \in SUBSET Clients /\ Tail(w) \in Seq(Clients)
        BY <2>1, <2>2, <2>3 DEF Proper
      <3>2. r \in [inside: SUBSET Clients, waiting: Seq(Clients)]
        BY <1>3, <3>1
      <3>3. r.inside \cap Range(r.waiting) = {}
        BY <2>1, <2>2 DEF Proper
      <3> QED BY <2>2, <3>2, <3>3 DEF Proper
    <2>5. /\ Suborder(r.waiting, w)
          /\ \A k \in 1..Len(r.waiting) : \E j \in 1..Len(w) : j > 1 /\ w[j] = r.waiting[k]
          /\ 1 \in 1..Len(w) /\ w[1] = Head(w)
      BY <1>1, <1>3, <2>1, TailKeepsOrder
    <2>6. \A c \in r.inside \ q.inside : \A k \in 1..Len(r.waiting) :
             \E i, j \in 1..Len(w) : i < j /\ w[i] = c /\ w[j] = r.waiting[k]
      BY <2>1, <2>5
    <2> QED BY <2>1, <2>2, <2>4, <2>5, <2>6
  <1> QED BY <1>2, <1>3 DEF Admissions

\* An arrival adds one newcomer, at the end if it has to wait.
LEMMA ArrivalComesLast ==
    ASSUME NEW q, Proper(q), NEW N \in SUBSET Clients, N \cap Present(q) = {},
           NEW r \in Arrivals(q, N)
    PROVE  /\ Proper(r)
           /\ r.inside \subseteq q.inside \cup N
           /\ Len(r.waiting) >= Len(q.waiting)
           /\ \A k \in 1..Len(q.waiting) : r.waiting[k] = q.waiting[k]
           /\ \A k \in 1..Len(r.waiting) : k > Len(q.waiting) => r.waiting[k] \in N
  <1> DEFINE w == q.waiting
  <1>1. w \in Seq(Clients) /\ IsInjective(w) /\ Len(w) \in Nat
    BY DEF Proper
  <1>2. CASE r = q
    BY <1>1, <1>2
  <1>3. ASSUME NEW c \in N, r = [q EXCEPT !.inside = @ \cup {c}]
        PROVE  Proper(r) /\ r.inside = q.inside \cup {c} /\ r.waiting = w
    <2>1. /\ r \in [inside: SUBSET Clients, waiting: Seq(Clients)]
          /\ r.inside = q.inside \cup {c} /\ r.waiting = w
      BY <1>3 DEF Proper
    <2> QED BY <2>1 DEF Proper, Present
  <1>4. ASSUME NEW c \in N, r = [q EXCEPT !.waiting = Append(@, c)]
        PROVE  /\ Proper(r) /\ r.inside = q.inside
               /\ Len(r.waiting) = Len(w) + 1 /\ r.waiting[Len(w) + 1] = c
               /\ \A k \in 1..Len(w) : r.waiting[k] = w[k]
    <2> DEFINE v == Append(w, c)
    <2>1. c \in Clients /\ c \notin Range(w) /\ c \notin q.inside
      BY DEF Present
    <2>2. v \in Seq(Clients) /\ IsInjective(v) /\ Range(v) = Range(w) \cup {c}
      BY <1>1, <2>1, AppendKeepsOthers
    <2>3. Len(v) = Len(w) + 1 /\ v[Len(w) + 1] = c /\ \A k \in 1..Len(w) : v[k] = w[k]
      BY <1>1, <2>1, AppendProperties
    <2> HIDE DEF v
    <2>4. r = [q EXCEPT !.waiting = v]
      BY <1>4 DEF v
    <2>5. /\ r \in [inside: SUBSET Clients, waiting: Seq(Clients)]
          /\ r.inside = q.inside /\ r.waiting = v
      BY <2>2, <2>4 DEF Proper
    <2>6. Proper(r)
      BY <2>1, <2>2, <2>5 DEF Proper
    <2> QED BY <2>3, <2>5, <2>6
  <1>5. CASE \E c \in N : r = [q EXCEPT !.inside = @ \cup {c}]
    <2>1. PICK c \in N : Proper(r) /\ r.inside = q.inside \cup {c} /\ r.waiting = w
      BY <1>3, <1>5
    <2> QED BY <1>1, <2>1
  <1>6. CASE \E c \in N : r = [q EXCEPT !.waiting = Append(@, c)]
    <2>1. PICK c \in N : /\ Proper(r) /\ r.inside = q.inside
                         /\ Len(r.waiting) = Len(w) + 1 /\ r.waiting[Len(w) + 1] = c
                         /\ \A k \in 1..Len(w) : r.waiting[k] = w[k]
      BY <1>4, <1>6
    <2> QED BY <1>1, <2>1
  <1> QED BY <1>2, <1>5, <1>6 DEF Arrivals
\* A turn leaves each client present once, and lets nobody overtake.
LEMMA TurnKeepsOrder ==
    ASSUME NEW p, Proper(p), NEW q \in Departures(p), NEW r \in Admissions(q),
           NEW t \in Arrivals(r, Clients \ Present(p))
    PROVE  /\ Proper(t)
           /\ \A i, j \in 1..Len(p.waiting) : i < j =>
                \A k \in 1..Len(t.waiting) : t.waiting[k] = p.waiting[i] =>
                   /\ p.waiting[j] \notin t.inside
                   /\ \A l \in 1..k : t.waiting[l] # p.waiting[j]
  <1> DEFINE N == Clients \ Present(p)
             u == p.waiting
  <1>1. /\ Proper(q) /\ Suborder(q.waiting, u)
        /\ q.inside \subseteq p.inside /\ Range(q.waiting) \subseteq Range(u)
    BY DepartureKeepsOrder
  <1>2. /\ Proper(r) /\ Suborder(r.waiting, q.waiting)
        /\ Range(r.waiting) \subseteq Range(q.waiting)
        /\ \A c \in r.inside : c \in q.inside \/ c \in Range(q.waiting)
        /\ \A c \in r.inside \ q.inside : \A k \in 1..Len(r.waiting) :
             \E i, j \in 1..Len(q.waiting) :
                 i < j /\ q.waiting[i] = c /\ q.waiting[j] = r.waiting[k]
    BY <1>1, AdmissionTakesTheFirst
  <1>3. N \cap Present(r) = {}
    BY <1>1, <1>2 DEF Present
  <1>4. /\ Proper(t)
        /\ t.inside \subseteq r.inside \cup N
        /\ Len(t.waiting) >= Len(r.waiting)
        /\ \A k \in 1..Len(r.waiting) : t.waiting[k] = r.waiting[k]
        /\ \A k \in 1..Len(t.waiting) : k > Len(r.waiting) => t.waiting[k] \in N
    BY <1>2, <1>3, ArrivalComesLast
  <1>5. /\ u \in Seq(Clients) /\ \A k \in 1..Len(u) : u[k] \in Range(u)
        /\ Len(q.waiting) \in Nat /\ Len(r.waiting) \in Nat
        /\ \A a, b \in 1..Len(u) : u[a] = u[b] => a = b
        /\ p.inside \cap Range(u) = {}
    BY <1>1, <1>2, InRange DEF Proper, IsInjective
  <1>6. \A k \in 1..Len(u) : u[k] \notin N
    BY <1>5 DEF Present
  <1>7. ASSUME NEW i \in 1..Len(u), NEW j \in 1..Len(u), i < j,
               NEW k \in 1..Len(t.waiting), t.waiting[k] = u[i]
        PROVE  k \in 1..Len(r.waiting) /\ r.waiting[k] = u[i]
    BY <1>2, <1>4, <1>5, <1>6, <1>7
  <1>8. ASSUME NEW i \in 1..Len(u), NEW j \in 1..Len(u), i < j,
               NEW k \in 1..Len(t.waiting), t.waiting[k] = u[i]
        PROVE  u[j] \notin t.inside
    <2> SUFFICES ASSUME u[j] \in t.inside PROVE FALSE
      OBVIOUS
    <2>1. u[j] \in r.inside \ q.inside
      BY <1>1, <1>4, <1>5, <1>6
    <2>2. PICK a, b \in 1..Len(q.waiting) :
             a < b /\ q.waiting[a] = u[j] /\ q.waiting[b] = u[i]
      BY <1>2, <1>7, <1>8, <2>1
    <2>3. PICK c, d \in 1..Len(u) : c < d /\ u[c] = q.waiting[a] /\ u[d] = q.waiting[b]
      BY <1>1, <2>2 DEF Suborder
    <2>4. c < d /\ u[c] = u[j] /\ u[d] = u[i]
      BY <2>2, <2>3
    <2>5. c = j /\ d = i
      BY <1>5, <2>4
    <2> QED BY <1>5, <1>8, <2>4, <2>5
  <1>9. ASSUME NEW i \in 1..Len(u), NEW j \in 1..Len(u), i < j,
               NEW k \in 1..Len(t.waiting), t.waiting[k] = u[i], NEW l \in 1..k
        PROVE  t.waiting[l] # u[j]
    <2> SUFFICES ASSUME t.waiting[l] = u[j] PROVE FALSE
      OBVIOUS
    <2>1. k \in 1..Len(r.waiting) /\ r.waiting[k] = u[i]
      BY <1>7, <1>9
    <2>2. l \in 1..Len(r.waiting) /\ r.waiting[l] = u[j] /\ l # k
      BY <1>4, <1>5, <1>9, <2>1
    <2>3. PICK a, b \in 1..Len(q.waiting) :
             a < b /\ q.waiting[a] = u[j] /\ q.waiting[b] = u[i]
      BY <1>2, <1>5, <2>1, <2>2 DEF Suborder
    <2>4. PICK c, d \in 1..Len(u) : c < d /\ u[c] = q.waiting[a] /\ u[d] = q.waiting[b]
      BY <1>1, <2>3 DEF Suborder
    <2>5. c < d /\ u[c] = u[j] /\ u[d] = u[i]
      BY <2>3, <2>4
    <2>6. c = j /\ d = i
      BY <1>5, <2>5
    <2> QED BY <1>5, <1>9, <2>5, <2>6
  <1> QED BY <1>4, <1>8, <1>9

LEMMA StepIsTurn ==
    ASSUME PresentOnce, [Next]_vars
    PROVE  /\ PresentOnce'
           /\ \A i, j \in 1..Len(waiting) : i < j => ~Overtakes(j, i)
  <1> DEFINE p == [inside |-> inside, waiting |-> waiting]
  <1>1. Proper(p) /\ p.inside = inside /\ p.waiting = waiting
    BY DEF PresentOnce, Proper
  <1> HIDE DEF p
  <1>2. CASE Next
    <2>1. \E q \in Departures(p) : \E r \in Admissions(q) :
             \E t \in Arrivals(r, Clients \ Present(p)) :
                inside' = t.inside /\ waiting' = t.waiting
      BY <1>2 DEF Next, Turn, p
    <2>2. PICK q \in Departures(p) : \E r \in Admissions(q) :
             \E t \in Arrivals(r, Clients \ Present(p)) :
                inside' = t.inside /\ waiting' = t.waiting
      BY <2>1
    <2>3. PICK r \in Admissions(q) : \E t \in Arrivals(r, Clients \ Present(p)) :
             inside' = t.inside /\ waiting' = t.waiting
      BY <2>2
    <2>4. PICK t \in Arrivals(r, Clients \ Present(p)) :
             inside' = t.inside /\ waiting' = t.waiting
      BY <2>3
    <2>5. /\ Proper(t)
          /\ \A i, j \in 1..Len(p.waiting) : i < j =>
               \A k \in 1..Len(t.waiting) : t.waiting[k] = p.waiting[i] =>
                  /\ p.waiting[j] \notin t.inside
                  /\ \A l \in 1..k : t.waiting[l] # p.waiting[j]
      BY <1>1, TurnKeepsOrder
    <2>6. PresentOnce'
      BY <2>4, <2>5 DEF PresentOnce, Proper
    <2> QED BY <1>1, <2>4, <2>5, <2>6 DEF Overtakes
  <1>3. CASE UNCHANGED vars
    <2>1. inside' = inside /\ waiting' = waiting
      BY <1>3 DEF vars
    <2>2. \A a, b \in 1..Len(waiting) : waiting[a] = waiting[b] => a = b
      BY DEF PresentOnce, IsInjective
    <2>3. \A k \in 1..Len(waiting) : waiting[k] \notin inside
      BY InRange DEF PresentOnce
    <2>4. Len(waiting) \in Nat
      BY DEF PresentOnce
    <2> QED BY <2>1, <2>2, <2>3, <2>4 DEF PresentOnce, Overtakes
  <1> QED BY <1>2, <1>3

\* In every behaviour of the abstract queue each client is present once.
THEOREM EachIsPresentOnce == Spec => []PresentOnce
  <1>1. Init => PresentOnce
    BY EmptyQueue DEF Init, PresentOnce
  <1>2. PresentOnce /\ [Next]_vars => PresentOnce'
    BY StepIsTurn
  <1> QED BY <1>1, <1>2, PTL DEF Spec

\* What the refinement is worth: in a queue that keeps this promise no client ever
\* overtakes one that arrived before it, inside the queue or on the way in.
THEOREM FirstComeFirstServed == Spec => NobodyOvertakes
  <1>1. PresentOnce /\ [Next]_vars
           => [\A i, j \in 1..Len(waiting) : i < j => ~Overtakes(j, i)]_vars
    BY StepIsTurn
  <1> QED BY <1>1, EachIsPresentOnce, PTL DEF Spec, NobodyOvertakes
=============================================================================
