----------------------------- MODULE LoginQueue -----------------------------
(***************************************************************************)
(* What a login queue promises its clients: whoever has to wait is served  *)
(* in the order of arrival.  Nobody is inside and waiting at once, and     *)
(* only the head of the queue is let in.                                   *)
(*                                                                         *)
(* A turn is made of at most one departure, one admission and one arrival, *)
(* in this order; when the server kicks everyone the queue is given up.    *)
(***************************************************************************)
EXTENDS Naturals, Sequences, SequencesExt

CONSTANT Clients

VARIABLES inside, waiting

vars == <<inside, waiting>>

Init == inside = {} /\ waiting = <<>>

Present(q) == q.inside \cup Range(q.waiting)

\* Somebody leaves, from the inside or from any place of the queue.
Departures(q) ==
    {q}
    \cup {[q EXCEPT !.inside = @ \ {c}] : c \in q.inside}
    \cup {[q EXCEPT !.waiting = RemoveAt(@, i)] : i \in 1..Len(q.waiting)}
    \cup {[q EXCEPT !.waiting = <<>>]}

\* The head of the queue is let in.
Admissions(q) ==
    {q} \cup IF q.waiting = <<>> THEN {}
             ELSE {[inside |-> q.inside \cup {Head(q.waiting)}, waiting |-> Tail(q.waiting)]}

\* One of the newcomers is let in or has to wait.
Arrivals(q, newcomers) ==
    {q} \cup {[q EXCEPT !.inside = @ \cup {c}] : c \in newcomers}
        \cup {[q EXCEPT !.waiting = Append(@, c)] : c \in newcomers}

\* Nobody leaves and comes back in one turn.
Turn(old) ==
    \E q \in Departures(old) : \E r \in Admissions(q) :
        \E new \in Arrivals(r, Clients \ Present(old)) :
            inside' = new.inside /\ waiting' = new.waiting

Next == Turn([inside |-> inside, waiting |-> waiting])

Spec == Init /\ [][Next]_vars

(***************************************************************************)
(* What follows from it.                                                   *)
(***************************************************************************)
\* Each client is present once.
PresentOnce ==
    /\ inside \subseteq Clients
    /\ waiting \in Seq(Clients)
    /\ IsInjective(waiting)
    /\ inside \cap Range(waiting) = {}

\* The clients that wait never overtake each other: as long as one waits, those
\* behind it are not let in, and are still behind it if they are still there.
Overtakes(j, i) ==
    \E k \in 1..Len(waiting') :
       /\ waiting'[k] = waiting[i]
       /\ \/ waiting[j] \in inside'
          \/ \E l \in 1..k : waiting'[l] = waiting[j]

NobodyOvertakes ==
    [][\A i, j \in 1..Len(waiting) : i < j => ~Overtakes(j, i)]_vars
=============================================================================
