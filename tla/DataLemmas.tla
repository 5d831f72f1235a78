----------------------------- MODULE DataLemmas -----------------------------
(***************************************************************************)
(* Lemmas about data that the proofs of several modules need: queues       *)
(* without repetitions, and sums over finite sets.                         *)
(***************************************************************************)
EXTENDS Integers, Sequences, SequencesExt, SequenceTheorems, FiniteSets, FiniteSetTheorems, TLAPS

(***************************************************************************)
(* Queues without repetitions: what removing a place, taking the head and  *)
(* appending a newcomer leave of them, and of the order in them.           *)
(***************************************************************************)
\* What it means to be in the range of a sequence.
LEMMA InRange ==
    ASSUME NEW S, NEW q \in Seq(S)
    PROVE  \A x : x \in Range(q) <=> \E i \in 1..Len(q) : q[i] = x
  BY DEF Range

\* Removing one place of a sequence without repetitions leaves one without
\* repetitions that holds everything but the element of that place.
LEMMA RemoveAtKeepsOthers ==
    ASSUME NEW S, NEW q \in Seq(S), IsInjective(q), NEW i \in 1..Len(q)
    PROVE  /\ RemoveAt(q, i) \in Seq(S)
           /\ IsInjective(RemoveAt(q, i))
           /\ Range(RemoveAt(q, i)) = Range(q) \ {q[i]}
  <1> DEFINE front == SubSeq(q, 1, i - 1)
             rear  == SubSeq(q, i + 1, Len(q))
             r     == RemoveAt(q, i)
  <1>1. /\ front \in Seq(S) /\ Len(front) = i - 1
        /\ \A j \in 1..i - 1 : front[j] = q[j]
    BY SubSeqProperties
  <1>2. /\ rear \in Seq(S) /\ Len(rear) = Len(q) - i
        /\ \A j \in 1..Len(q) - i : rear[j] = q[i + j]
    BY SubSeqProperties
  <1>3. r = front \o rear
    BY DEF RemoveAt
  <1> HIDE DEF front, rear
  <1>4. /\ r \in Seq(S) /\ Len(r) = Len(q) - 1
        /\ \A j \in 1..Len(r) : r[j] = IF j < i THEN q[j] ELSE q[j + 1]
    <2> HIDE DEF r
    <2>1. /\ r \in Seq(S) /\ Len(r) = Len(front) + Len(rear)
          /\ \A j \in 1..Len(front) + Len(rear) :
                r[j] = IF j <= Len(front) THEN front[j] ELSE rear[j - Len(front)]
      BY <1>1, <1>2, <1>3, ConcatProperties
    <2> QED BY <1>1, <1>2, <2>1
  <1> HIDE DEF r
  <1>5. IsInjective(r)
    BY <1>4 DEF IsInjective
  <1>6. \A x : x \in Range(q) \ {q[i]} => x \in Range(r)
    <2> SUFFICES ASSUME NEW j \in 1..Len(q), j # i
                 PROVE  \E k \in 1..Len(r) : r[k] = q[j]
      BY <1>4, InRange
    <2>1. CASE j < i
      BY <2>1, <1>4
    <2>2. CASE j > i
      <3>1. j - 1 \in 1..Len(r) /\ r[j - 1] = q[j]
        BY <2>2, <1>4
      <3> QED BY <3>1
    <2> QED BY <2>1, <2>2
  <1>7. \A x : x \in Range(r) => x \in Range(q) \ {q[i]}
    BY <1>4, InRange DEF IsInjective
  <1> QED BY <1>4, <1>5, <1>6, <1>7 DEF r

\* The same for the first element.
LEMMA TailKeepsOthers ==
    ASSUME NEW S, NEW q \in Seq(S), q # <<>>, IsInjective(q)
    PROVE  /\ Tail(q) \in Seq(S)
           /\ IsInjective(Tail(q))
           /\ Head(q) \in Range(q)
           /\ Range(Tail(q)) = Range(q) \ {Head(q)}
  <1>1. /\ Tail(q) \in Seq(S) /\ Len(Tail(q)) = Len(q) - 1
        /\ \A j \in 1..Len(Tail(q)) : Tail(q)[j] = q[j + 1]
        /\ Head(q) = q[1] /\ 1 \in 1..Len(q)
    BY HeadTailProperties
  <1> DEFINE r == Tail(q)
  <1> HIDE DEF r
  <1>2. /\ r \in Seq(S) /\ Len(r) = Len(q) - 1
        /\ \A j \in 1..Len(r) : r[j] = q[j + 1]
    BY <1>1 DEF r
  <1>3. IsInjective(r)
    <2> SUFFICES ASSUME NEW a \in 1..Len(r), NEW b \in 1..Len(r), r[a] = r[b]
                 PROVE  a = b
      BY <1>2 DEF IsInjective
    <2>1. a + 1 \in 1..Len(q) /\ b + 1 \in 1..Len(q) /\ q[a + 1] = q[b + 1]
      BY <1>2
    <2>2. a + 1 = b + 1
      BY <2>1 DEF IsInjective
    <2> QED BY <2>2
  <1>4. \A x : x \in Range(q) \ {q[1]} => x \in Range(r)
    <2> SUFFICES ASSUME NEW j \in 1..Len(q), j # 1
                 PROVE  \E k \in 1..Len(r) : r[k] = q[j]
      BY <1>2, InRange
    <2>1. j - 1 \in 1..Len(r) /\ r[j - 1] = q[j]
      BY <1>2
    <2> QED BY <2>1
  <1>5. \A x : x \in Range(r) => x \in Range(q) \ {q[1]}
    BY <1>1, <1>2, InRange DEF IsInjective
  <1>6. Head(q) \in Range(q)
    BY <1>1, InRange
  <1> QED BY <1>1, <1>2, <1>3, <1>4, <1>5, <1>6 DEF r

\* Appending a newcomer to a sequence without repetitions.
LEMMA AppendKeepsOthers ==
    ASSUME NEW S, NEW q \in Seq(S), IsInjective(q), NEW e \in S, e \notin Range(q)
    PROVE  /\ Append(q, e) \in Seq(S)
           /\ IsInjective(Append(q, e))
           /\ Range(Append(q, e)) = Range(q) \cup {e}
  <1> DEFINE r == Append(q, e)
  <1> HIDE DEF r
  <1>1. /\ r \in Seq(S) /\ Len(r) = Len(q) + 1
        /\ \A i \in 1..Len(q) : r[i] = q[i]
        /\ r[Len(q) + 1] = e
    BY AppendProperties DEF r
  <1>2. IsInjective(r)
    BY <1>1, InRange DEF IsInjective
  <1>3. \A x : x \in Range(r) => x \in Range(q) \cup {e}
    BY <1>1, InRange
  <1>4. \A x : x \in Range(q) \cup {e} => x \in Range(r)
    BY <1>1, InRange
  <1> QED BY <1>1, <1>2, <1>3, <1>4 DEF r

\* The elements of w are elements of q, in the same order.
Suborder(w, q) ==
    \A k, l \in 1..Len(w) : k < l =>
        \E i, j \in 1..Len(q) : i < j /\ q[i] = w[k] /\ q[j] = w[l]

\* Removing a place keeps the order of the others.
LEMMA RemoveAtKeepsOrder ==
    ASSUME NEW S, NEW q \in Seq(S), NEW i \in 1..Len(q)
    PROVE  Suborder(RemoveAt(q, i), q)
  <1> DEFINE front == SubSeq(q, 1, i - 1)
             rear  == SubSeq(q, i + 1, Len(q))
             r     == RemoveAt(q, i)
  <1>1. /\ front \in Seq(S) /\ Len(front) = i - 1
        /\ \A j \in 1..i - 1 : front[j] = q[j]
    BY SubSeqProperties
  <1>2. /\ rear \in Seq(S) /\ Len(rear) = Len(q) - i
        /\ \A j \in 1..Len(q) - i : rear[j] = q[i + j]
    BY SubSeqProperties
  <1>3. r = front \o rear
    BY DEF RemoveAt
  <1> HIDE DEF front, rear, r
  <1>4. /\ Len(r) = Len(front) + Len(rear)
        /\ \A j \in 1..Len(front) + Len(rear) :
              r[j] = IF j <= Len(front) THEN front[j] ELSE rear[j - Len(front)]
    BY <1>1, <1>2, <1>3, ConcatProperties
  <1>5. /\ Len(r) = Len(q) - 1
        /\ \A j \in 1..Len(r) : r[j] = IF j < i THEN q[j] ELSE q[j + 1]
    BY <1>1, <1>2, <1>4
  <1>6. ASSUME NEW k \in 1..Len(r), NEW l \in 1..Len(r), k < l
        PROVE  \E a, b \in 1..Len(q) : a < b /\ q[a] = r[k] /\ q[b] = r[l]
    <2> DEFINE a == IF k < i THEN k ELSE k + 1
               b == IF l < i THEN l ELSE l + 1
    <2>1. a \in 1..Len(q) /\ b \in 1..Len(q) /\ a < b
      BY <1>5, <1>6
    <2>2. q[a] = r[k] /\ q[b] = r[l]
      BY <1>5, <1>6
    <2> HIDE DEF a, b
    <2> QED BY <2>1, <2>2
  <1> QED BY <1>6 DEF Suborder, r

\* Taking the head keeps the order of the others, and the head was before them.
LEMMA TailKeepsOrder ==
    ASSUME NEW S, NEW q \in Seq(S), q # <<>>
    PROVE  /\ Suborder(Tail(q), q)
           /\ \A k \in 1..Len(Tail(q)) : \E j \in 1..Len(q) : j > 1 /\ q[j] = Tail(q)[k]
           /\ 1 \in 1..Len(q) /\ q[1] = Head(q)
  <1> DEFINE r == Tail(q)
  <1>1. /\ Len(q) \in Nat /\ Len(r) = Len(q) - 1 /\ 1 \in 1..Len(q) /\ q[1] = Head(q)
        /\ \A j \in 1..Len(r) : r[j] = q[j + 1]
    BY HeadTailProperties
  <1> HIDE DEF r
  <1>2. ASSUME NEW k \in 1..Len(r)
        PROVE  k + 1 \in 1..Len(q) /\ k + 1 > 1 /\ q[k + 1] = r[k]
    BY <1>1
  <1>3. Suborder(r, q)
    BY <1>1, <1>2 DEF Suborder
  <1> QED BY <1>1, <1>2, <1>3 DEF r

(***************************************************************************)
(* Sums.  SumFunctionOnSet is a fold, a recursive function of the subsets  *)
(* of a set that takes out a chosen element at each step.  What it returns *)
(* is shown by induction over the subsets of a finite set, in the form     *)
(* that needs no operator as a parameter: a set of subsets that contains   *)
(* whatever all smaller subsets of which it contains is all of them.       *)
(***************************************************************************)
\* Induction over the subsets of a finite set, stated with the set of those that
\* have the property.
LEMMA SubsetInduction ==
    ASSUME NEW S, IsFiniteSet(S), NEW P,
           \A T \in SUBSET S : (\A U \in SUBSET T : U # T => U \in P) => T \in P
    PROVE  \A T \in SUBSET S : T \in P
  <1> DEFINE Bad == {T \in SUBSET S : T \notin P}
             R   == StrictSubsetOrdering(S)
  <1>1. SUFFICES ASSUME Bad # {} PROVE FALSE
    OBVIOUS
  <1>2. IsWellFoundedOn(R, SUBSET S)
    BY FS_StrictSubsetOrderingWellFounded, FS_FiniteSubsetsOfFinite
  <1>3. PICK T \in Bad : \A U \in Bad : <<U, T>> \notin R
    <2> HIDE DEF R
    <2>1. Bad \subseteq SUBSET S
      OBVIOUS
    <2> HIDE DEF Bad
    <2> QED BY <1>1, <1>2, <2>1, WFMin
  <1>4. \A U \in SUBSET T : U # T => <<U, T>> \in R
    BY DEF StrictSubsetOrdering
  <1>5. ASSUME NEW U \in SUBSET T, U # T
        PROVE  U \in P
    <2>1. U \in SUBSET S /\ <<U, T>> \in R
      BY <1>4, <1>5
    <2>2. U \notin Bad
      BY <1>3, <2>1
    <2> QED BY <2>1, <2>2
  <1> QED BY <1>5

\* Induction along 0..n, for a property that is a set.
LEMMA SegmentInduction ==
    ASSUME NEW n \in Nat, NEW P, 0 \in P,
           \A k \in 0..n : k < n /\ k \in P => k + 1 \in P
    PROVE  \A k \in 0..n : k \in P
  <1> DEFINE Q == {T \in SUBSET (1..n) : \A k \in 0..n : T = 1..k => k \in P}
  <1>1. ASSUME NEW T \in SUBSET (1..n), \A U \in SUBSET T : U # T => U \in Q
        PROVE  T \in Q
    <2> SUFFICES ASSUME NEW k \in 0..n, T = 1..k
                 PROVE  k \in P
      OBVIOUS
    <2>1. CASE k = 0
      BY <2>1
    <2>2. CASE k # 0
      <3>1. k - 1 \in 0..n /\ k - 1 < n
        BY <2>2
      <3>2. 1..(k - 1) \in SUBSET T /\ 1..(k - 1) # T
        <4>1. k \in T /\ k \notin 1..(k - 1)
          BY <2>2
        <4> QED BY <4>1
      <3>3. k - 1 \in P
        BY <1>1, <3>1, <3>2
      <3> QED BY <3>1, <3>3
    <2> QED BY <2>1, <2>2
  <1>2. IsFiniteSet(1..n)
    BY FS_Interval
  <1>3. \A T \in SUBSET (1..n) : T \in Q
    <2> HIDE DEF Q
    <2> QED BY <1>1, <1>2, SubsetInduction
  <1>4. \A k \in 0..n : 1..k \in SUBSET (1..n)
    OBVIOUS
  <1> QED BY <1>3, <1>4

\* The choice the sum makes.
Chosen(S) == CHOOSE x \in S : TRUE

\* h is the function of the subsets of S that the sum of f is defined by.
Sums(h, f, S) ==
    h = [s \in SUBSET S |-> IF s = {} THEN 0 ELSE f[Chosen(s)] + h[s \ {Chosen(s)}]]

LEMMA SumIs ==
    ASSUME NEW f, NEW S
    PROVE  SumFunctionOnSet(f, S) = (CHOOSE h : Sums(h, f, S))[S]
  BY DEF SumFunctionOnSet, FoldFunctionOnSet, MapThenFoldSet, Sums, Chosen

\* There is at most one such function.
LEMMA SumsUnique ==
    ASSUME NEW f, NEW S, IsFiniteSet(S), NEW g, NEW h, Sums(g, f, S), Sums(h, f, S)
    PROVE  g = h
  <1> DEFINE Same == {s \in SUBSET S : g[s] = h[s]}
  <1>1. ASSUME NEW s \in SUBSET S, \A u \in SUBSET s : u # s => u \in Same
        PROVE  s \in Same
    <2>1. CASE s = {}
      BY <2>1 DEF Sums
    <2>2. CASE s # {}
      <3>1. Chosen(s) \in s
        BY <2>2 DEF Chosen
      <3>2. g[s \ {Chosen(s)}] = h[s \ {Chosen(s)}]
        BY <1>1, <3>1
      <3> QED BY <2>2, <3>2 DEF Sums
    <2> QED BY <2>1, <2>2
  <1>2. \A s \in SUBSET S : s \in Same
    <2> HIDE DEF Same
    <2> QED BY <1>1, SubsetInduction
  <1>3. /\ g = [s \in SUBSET S |-> g[s]]
        /\ h = [s \in SUBSET S |-> h[s]]
    BY DEF Sums
  <1> QED BY <1>2, <1>3

\* What such a function says of the subsets of S is the sum over them.
LEMMA SumsRestrict ==
    ASSUME NEW f, NEW S, IsFiniteSet(S), NEW h, Sums(h, f, S), NEW T \in SUBSET S
    PROVE  SumFunctionOnSet(f, T) = h[T]
  <1> DEFINE g == [s \in SUBSET T |-> h[s]]
  <1>1. Sums(g, f, T)
    <2>1. \A s \in SUBSET T :
             g[s] = IF s = {} THEN 0 ELSE f[Chosen(s)] + g[s \ {Chosen(s)}]
      BY DEF Sums
    <2> HIDE DEF g
    <2>2. g = [s \in SUBSET T |-> g[s]]
      BY DEF g
    <2> QED BY <2>1, <2>2 DEF Sums
  <1>2. IsFiniteSet(T)
    BY FS_Subset
  <1> DEFINE c == CHOOSE k : Sums(k, f, T)
  <1>3. Sums(c, f, T)
    <2> HIDE DEF g
    <2> QED BY <1>1
  <1>4. c = g
    <2> HIDE DEF c, g
    <2> QED BY <1>1, <1>2, <1>3, SumsUnique
  <1> QED BY <1>4, SumIs

\* There is one: the sum itself.
LEMMA SumsExist ==
    ASSUME NEW f, NEW S, IsFiniteSet(S)
    PROVE  \E h : Sums(h, f, S)
  <1> DEFINE Sum(s) == SumFunctionOnSet(f, s)
             Good == {T \in SUBSET S : \E h : Sums(h, f, T)}
  <1>1. ASSUME NEW T \in SUBSET S, \A U \in SUBSET T : U # T => U \in Good
        PROVE  T \in Good
    <2> DEFINE h == [s \in SUBSET T |-> IF s = {} THEN 0 ELSE f[Chosen(s)] + Sum(s \ {Chosen(s)})]
    <2>1. ASSUME NEW U \in SUBSET T, U # T
          PROVE  Sum(U) = h[U]
      <3>1. PICK k : Sums(k, f, U)
        BY <1>1, <2>1
      <3>2. IsFiniteSet(U) /\ U \in SUBSET U
        BY FS_Subset
      <3>3. \A s \in SUBSET U : Sum(s) = k[s]
        BY <3>1, <3>2, SumsRestrict
      <3>4. k[U] = IF U = {} THEN 0 ELSE f[Chosen(U)] + k[U \ {Chosen(U)}]
        BY <3>1, <3>2 DEF Sums
      <3> HIDE DEF Sum
      <3> QED BY <3>2, <3>3, <3>4
    <2>2. ASSUME NEW s \in SUBSET T, s # {}
          PROVE  Sum(s \ {Chosen(s)}) = h[s \ {Chosen(s)}]
      <3>1. Chosen(s) \in s
        BY <2>2 DEF Chosen
      <3> HIDE DEF h, Sum
      <3> QED BY <2>1, <3>1
    <2>3. \A s \in SUBSET T : h[s] = IF s = {} THEN 0 ELSE f[Chosen(s)] + Sum(s \ {Chosen(s)})
      OBVIOUS
    <2>4. h = [s \in SUBSET T |-> h[s]]
      OBVIOUS
    <2> HIDE DEF h, Sum
    <2>5. Sums(h, f, T)
      BY <2>2, <2>3, <2>4 DEF Sums
    <2> QED BY <2>5
  <1>2. \A T \in SUBSET S : T \in Good
    <2> HIDE DEF Good
    <2> QED BY <1>1, SubsetInduction
  <1> QED BY <1>2

\* The definition of a sum, unfolded once.
LEMMA SumUnfold ==
    ASSUME NEW f, NEW S, IsFiniteSet(S)
    PROVE  SumFunctionOnSet(f, S) =
              IF S = {} THEN 0
              ELSE f[Chosen(S)] + SumFunctionOnSet(f, S \ {Chosen(S)})
  <1>1. PICK h : Sums(h, f, S)
    BY SumsExist
  <1>2. \A T \in SUBSET S : SumFunctionOnSet(f, T) = h[T]
    BY <1>1, SumsRestrict
  <1>3. h[S] = IF S = {} THEN 0 ELSE f[Chosen(S)] + h[S \ {Chosen(S)}]
    BY <1>1 DEF Sums
  <1> QED BY <1>2, <1>3

LEMMA SumEmpty ==
    ASSUME NEW f
    PROVE  SumFunctionOnSet(f, {}) = 0
  BY SumUnfold, FS_EmptySet

\* Any element may be taken out of a sum.
LEMMA SumTakeOut ==
    ASSUME NEW f, NEW S, IsFiniteSet(S), \A x \in S : f[x] \in Int
    PROVE  /\ SumFunctionOnSet(f, S) \in Int
           /\ \A x \in S : SumFunctionOnSet(f, S) = f[x] + SumFunctionOnSet(f, S \ {x})
  <1> DEFINE Sum(s) == SumFunctionOnSet(f, s)
             Good == {T \in SUBSET S : /\ Sum(T) \in Int
                                       /\ \A x \in T : Sum(T) = f[x] + Sum(T \ {x})}
  <1>1. \A T \in SUBSET S : IsFiniteSet(T)
    BY FS_Subset
  <1>2. ASSUME NEW T \in SUBSET S, \A U \in SUBSET T : U # T => U \in Good
        PROVE  T \in Good
    <2>1. CASE T = {}
      <3>1. Sum(T) = 0
        BY <1>1, <2>1, SumUnfold
      <3> HIDE DEF Sum
      <3> QED BY <2>1, <3>1
    <2>2. CASE T # {}
      <3> DEFINE c == Chosen(T)
      <3>1. c \in T /\ f[c] \in Int
        BY <2>2 DEF Chosen
      <3>2. Sum(T) = f[c] + Sum(T \ {c})
        BY <1>1, <2>2, SumUnfold
      <3> HIDE DEF Sum, c
      <3>3. T \ {c} \in Good
        BY <1>2, <3>1
      <3>4. Sum(T) \in Int
        BY <3>1, <3>2, <3>3
      <3>5. ASSUME NEW x \in T, x # c
            PROVE  Sum(T) = f[x] + Sum(T \ {x})
        <4>1. /\ T \ {x} \in Good /\ (T \ {c}) \ {x} \in Good
              /\ (T \ {c}) \ {x} = (T \ {x}) \ {c}
          BY <1>2, <3>1, <3>5
        <4>2. /\ Sum(T \ {c}) = f[x] + Sum((T \ {c}) \ {x})
              /\ Sum(T \ {x}) = f[c] + Sum((T \ {x}) \ {c})
          BY <3>1, <3>3, <3>5, <4>1
        <4>3. f[x] \in Int /\ Sum((T \ {x}) \ {c}) \in Int
          BY <4>1
        <4>4. Sum((T \ {c}) \ {x}) = Sum((T \ {x}) \ {c})
          BY <4>1
        <4>5. f[c] \in Int
          BY <3>1
        <4> QED BY <3>2, <4>2, <4>3, <4>4, <4>5
      <3> QED BY <3>2, <3>4, <3>5
    <2> QED BY <2>1, <2>2
  <1>3. \A T \in SUBSET S : T \in Good
    <2> HIDE DEF Good
    <2> QED BY <1>2, SubsetInduction
  <1> QED BY <1>3

\* Two sums agree when their terms do.
LEMMA SumEqual ==
    ASSUME NEW S, IsFiniteSet(S), NEW f, NEW g,
           \A x \in S : f[x] \in Int /\ g[x] = f[x]
    PROVE  SumFunctionOnSet(g, S) = SumFunctionOnSet(f, S)
  <1> DEFINE Good == {T \in SUBSET S : SumFunctionOnSet(g, T) = SumFunctionOnSet(f, T)}
  <1>1. \A T \in SUBSET S : IsFiniteSet(T)
    BY FS_Subset
  <1>2. ASSUME NEW T \in SUBSET S, \A U \in SUBSET T : U # T => U \in Good
        PROVE  T \in Good
    <2>1. CASE T = {}
      BY <2>1, SumEmpty
    <2>2. CASE T # {}
      <3>1. PICK x \in T : T \ {x} \in Good
        BY <1>2, <2>2
      <3>2. /\ SumFunctionOnSet(f, T) = f[x] + SumFunctionOnSet(f, T \ {x})
            /\ SumFunctionOnSet(g, T) = g[x] + SumFunctionOnSet(g, T \ {x})
        BY <1>1, SumTakeOut
      <3> QED BY <3>1, <3>2
    <2> QED BY <2>1, <2>2
  <1>3. \A T \in SUBSET S : T \in Good
    <2> HIDE DEF Good
    <2> QED BY <1>2, SubsetInduction
  <1> QED BY <1>3

\* The sum of the sums of two functions.
LEMMA SumAdd ==
    ASSUME NEW S, IsFiniteSet(S), NEW f, NEW g, NEW h,
           \A x \in S : f[x] \in Int /\ g[x] \in Int /\ h[x] = f[x] + g[x]
    PROVE  SumFunctionOnSet(h, S) = SumFunctionOnSet(f, S) + SumFunctionOnSet(g, S)
  <1> DEFINE Good == {T \in SUBSET S :
                SumFunctionOnSet(h, T) = SumFunctionOnSet(f, T) + SumFunctionOnSet(g, T)}
  <1>1. \A T \in SUBSET S : IsFiniteSet(T)
    BY FS_Subset
  <1>2. ASSUME NEW T \in SUBSET S, \A U \in SUBSET T : U # T => U \in Good
        PROVE  T \in Good
    <2>1. CASE T = {}
      BY <2>1, SumEmpty
    <2>2. CASE T # {}
      <3>1. PICK x \in T : T \ {x} \in Good
        BY <1>2, <2>2
      <3>2. /\ SumFunctionOnSet(f, T) = f[x] + SumFunctionOnSet(f, T \ {x})
            /\ SumFunctionOnSet(g, T) = g[x] + SumFunctionOnSet(g, T \ {x})
            /\ SumFunctionOnSet(h, T) = h[x] + SumFunctionOnSet(h, T \ {x})
        BY <1>1, SumTakeOut
      <3>3. /\ f[x] \in Int /\ g[x] \in Int /\ h[x] = f[x] + g[x]
            /\ SumFunctionOnSet(f, T \ {x}) \in Int
            /\ SumFunctionOnSet(g, T \ {x}) \in Int
        BY <1>1, SumTakeOut
      <3> QED BY <3>1, <3>2, <3>3
    <2> QED BY <2>1, <2>2
  <1>3. \A T \in SUBSET S : T \in Good
    <2> HIDE DEF Good
    <2> QED BY <1>2, SubsetInduction
  <1> QED BY <1>3

\* The sum of naturals is a natural.
LEMMA SumNat ==
    ASSUME NEW S, IsFiniteSet(S), NEW f, \A x \in S : f[x] \in Nat
    PROVE  SumFunctionOnSet(f, S) \in Nat
  <1> DEFINE Good == {T \in SUBSET S : SumFunctionOnSet(f, T) \in Nat}
  <1>1. \A T \in SUBSET S : IsFiniteSet(T)
    BY FS_Subset
  <1>2. ASSUME NEW T \in SUBSET S, \A U \in SUBSET T : U # T => U \in Good
        PROVE  T \in Good
    <2>1. CASE T = {}
      BY <2>1, SumEmpty
    <2>2. CASE T # {}
      <3>1. PICK x \in T : T \ {x} \in Good
        BY <1>2, <2>2
      <3>2. SumFunctionOnSet(f, T) = f[x] + SumFunctionOnSet(f, T \ {x})
        BY <1>1, SumTakeOut
      <3> QED BY <3>1, <3>2
    <2> QED BY <2>1, <2>2
  <1>3. \A T \in SUBSET S : T \in Good
    <2> HIDE DEF Good
    <2> QED BY <1>2, SubsetInduction
  <1> QED BY <1>3

\* A sum of nothing but zeros.
LEMMA SumZero ==
    ASSUME NEW S, IsFiniteSet(S), NEW f, \A x \in S : f[x] = 0
    PROVE  SumFunctionOnSet(f, S) = 0
  <1>1. \A x \in S : f[x] \in Int /\ f[x] \in Int /\ f[x] = f[x] + f[x]
    OBVIOUS
  <1>2. SumFunctionOnSet(f, S) = SumFunctionOnSet(f, S) + SumFunctionOnSet(f, S)
    BY <1>1, SumAdd
  <1>3. SumFunctionOnSet(f, S) \in Int
    BY <1>1, SumTakeOut
  <1>4. \A n \in Int : n = n + n => n = 0
    OBVIOUS
  <1> QED BY <1>2, <1>3, <1>4

\* A sum is at most another when its terms are.
LEMMA SumMonotone ==
    ASSUME NEW S, IsFiniteSet(S), NEW f, NEW g,
           \A x \in S : f[x] \in Int /\ g[x] \in Int /\ f[x] <= g[x]
    PROVE  SumFunctionOnSet(f, S) <= SumFunctionOnSet(g, S)
  <1> DEFINE d == [x \in S |-> g[x] - f[x]]
  <1>1. \A x \in S : d[x] \in Nat /\ g[x] = f[x] + d[x]
    OBVIOUS
  <1> HIDE DEF d
  <1>2. SumFunctionOnSet(g, S) = SumFunctionOnSet(f, S) + SumFunctionOnSet(d, S)
    BY <1>1, SumAdd
  <1>3. SumFunctionOnSet(d, S) \in Nat /\ SumFunctionOnSet(f, S) \in Int
    BY <1>1, SumNat, SumTakeOut
  <1> QED BY <1>2, <1>3

\* The integer functions f and g on S differ at most at x, or at x and y.
ChangesAt(f, g, S, x) ==
    \A z \in S : f[z] \in Int /\ g[z] \in Int /\ (z = x \/ g[z] = f[z])
ChangesAtTwo(f, g, S, x, y) ==
    \A z \in S : f[z] \in Int /\ g[z] \in Int /\ (z = x \/ z = y \/ g[z] = f[z])

\* One term of a sum changes.
LEMMA SumChangeOne ==
    ASSUME NEW S, IsFiniteSet(S), NEW f, NEW g, NEW x \in S, ChangesAt(f, g, S, x)
    PROVE  SumFunctionOnSet(g, S) = SumFunctionOnSet(f, S) + g[x] - f[x]
  <1>1. IsFiniteSet(S \ {x})
    BY FS_Subset
  <1>2. \A y \in S : f[y] \in Int /\ g[y] \in Int
    BY DEF ChangesAt
  <1>3. /\ SumFunctionOnSet(f, S) = f[x] + SumFunctionOnSet(f, S \ {x})
        /\ SumFunctionOnSet(g, S) = g[x] + SumFunctionOnSet(g, S \ {x})
        /\ SumFunctionOnSet(f, S) \in Int /\ SumFunctionOnSet(f, S \ {x}) \in Int
    BY <1>1, <1>2, SumTakeOut
  <1>4. \A y \in S \ {x} : f[y] \in Int /\ g[y] = f[y]
    BY DEF ChangesAt
  <1>5. SumFunctionOnSet(g, S \ {x}) = SumFunctionOnSet(f, S \ {x})
    BY <1>1, <1>4, SumEqual
  <1> QED BY <1>2, <1>3, <1>5

\* Two terms of a sum change.
LEMMA SumChangeTwo ==
    ASSUME NEW S, IsFiniteSet(S), NEW f, NEW g, NEW x \in S, NEW y \in S, x # y,
           ChangesAtTwo(f, g, S, x, y)
    PROVE  SumFunctionOnSet(g, S) = SumFunctionOnSet(f, S) + (g[x] - f[x]) + (g[y] - f[y])
  <1> DEFINE m == [z \in S |-> IF z = x THEN g[z] ELSE f[z]]
  <1>1. m[x] = g[x] /\ m[y] = f[y]
    OBVIOUS
  <1>2. ChangesAt(f, m, S, x)
    BY DEF ChangesAt, ChangesAtTwo
  <1>3. ChangesAt(m, g, S, y)
    BY DEF ChangesAt, ChangesAtTwo
  <1>4. f[x] \in Int /\ g[x] \in Int /\ f[y] \in Int /\ g[y] \in Int
        /\ \A z \in S : f[z] \in Int
    BY DEF ChangesAtTwo
  <1> HIDE DEF m
  <1>5. SumFunctionOnSet(m, S) = SumFunctionOnSet(f, S) + m[x] - f[x]
    BY <1>2, SumChangeOne
  <1>6. SumFunctionOnSet(g, S) = SumFunctionOnSet(m, S) + g[y] - m[y]
    BY <1>3, SumChangeOne
  <1>7. SumFunctionOnSet(f, S) \in Int
    BY <1>4, SumTakeOut
  <1> QED BY <1>1, <1>4, <1>5, <1>6, <1>7

\* The sum over a part is the sum of what is zero elsewhere.
LEMMA SumPart ==
    ASSUME NEW S, IsFiniteSet(S), NEW T \in SUBSET S, NEW f, NEW g,
           \A x \in S : g[x] \in Int /\ g[x] = IF x \in T THEN f[x] ELSE 0
    PROVE  SumFunctionOnSet(f, T) = SumFunctionOnSet(g, S)
  <1> DEFINE Good == {U \in SUBSET S : SumFunctionOnSet(f, U \cap T) = SumFunctionOnSet(g, U)}
  <1>1. \A U \in SUBSET S : IsFiniteSet(U) /\ IsFiniteSet(U \cap T)
    BY FS_Subset
  <1>2. ASSUME NEW U \in SUBSET S, \A V \in SUBSET U : V # U => V \in Good
        PROVE  U \in Good
    <2>1. CASE U = {}
      BY <2>1, SumEmpty
    <2>2. CASE U # {}
      <3>1. PICK x \in U : TRUE
        BY <2>2
      <3> DEFINE V == U \ {x}
      <3>2. SumFunctionOnSet(f, V \cap T) = SumFunctionOnSet(g, V)
        BY <1>2, <3>1
      <3>3. \A y \in U : g[y] \in Int
        OBVIOUS
      <3>4. SumFunctionOnSet(g, U) = g[x] + SumFunctionOnSet(g, V)
        BY <1>1, <3>1, <3>3, SumTakeOut
      <3>5. CASE x \in T
        <4>1. x \in U \cap T /\ (U \cap T) \ {x} = V \cap T /\ g[x] = f[x]
          BY <3>1, <3>5
        <4>2. \A y \in U \cap T : f[y] \in Int
          OBVIOUS
        <4>3. SumFunctionOnSet(f, U \cap T) = f[x] + SumFunctionOnSet(f, (U \cap T) \ {x})
          BY <1>1, <4>1, <4>2, SumTakeOut
        <4> QED BY <3>2, <3>4, <4>1, <4>3
      <3>6. CASE x \notin T
        <4>1. U \cap T = V \cap T /\ g[x] = 0
          BY <3>1, <3>6
        <4>2. SumFunctionOnSet(g, V) \in Int
          <5>1. IsFiniteSet(V)
            BY <1>1
          <5> QED BY <5>1, <3>3, SumTakeOut
        <4>3. SumFunctionOnSet(g, U) = SumFunctionOnSet(g, V)
          BY <3>4, <4>1, <4>2
        <4>4. SumFunctionOnSet(f, U \cap T) = SumFunctionOnSet(f, V \cap T)
          BY <4>1
        <4> QED BY <3>2, <4>3, <4>4
      <3> QED BY <3>5, <3>6
    <2> QED BY <2>1, <2>2
  <1> HIDE DEF Good
  <1>3. \A U \in SUBSET S : U \in Good
    BY <1>2, SubsetInduction
  <1>4. S \cap T = T
    OBVIOUS
  <1> QED BY <1>3, <1>4 DEF Good
=============================================================================
