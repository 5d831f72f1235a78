----------------------------- MODULE MailProofs -----------------------------
(***************************************************************************)
(* Proofs about Mail.                                                      *)
(***************************************************************************)
EXTENDS Mail, DataLemmas

(***************************************************************************)
(* What a queue of requests makes of the tables.                           *)
(***************************************************************************)
\* f is the tables d after each of the requests.
Runs(f, d, requests) ==
    f = [k \in 0..Len(requests) |-> IF k = 0 THEN d ELSE Executed(f[k - 1], requests[k])]

LEMMA AfterIs ==
    ASSUME NEW d, NEW requests
    PROVE  After(d, requests) = CHOOSE f : Runs(f, d, requests)
  BY DEF After, Runs

\* Shorter queues have such a function, and so has the whole one.
LEMMA RunsExist ==
    ASSUME NEW d, NEW requests, Len(requests) \in Nat
    PROVE  \E f : Runs(f, d, requests)
  <1> DEFINE n == Len(requests)
             Upto(f, m) == f = [k \in 0..m |-> IF k = 0 THEN d ELSE Executed(f[k - 1], requests[k])]
             P == {m \in 0..n : \E f : Upto(f, m)}
  <1>1. 0 \in P
    <2> DEFINE g == [k \in 0..0 |-> d]
    <2>1. g = [k \in 0..0 |-> g[k]] /\ \A k \in 0..0 : k = 0 /\ g[k] = d
      OBVIOUS
    <2> HIDE DEF g
    <2>2. Upto(g, 0)
      BY <2>1
    <2> QED BY <2>2
  <1>2. ASSUME NEW m \in 0..n, m < n, m \in P
        PROVE  m + 1 \in P
    <2>1. PICK f : Upto(f, m)
      BY <1>2
    <2> DEFINE g == [k \in 0..(m + 1) |-> IF k <= m THEN f[k] ELSE Executed(f[m], requests[m + 1])]
    <2>2. \A k \in 0..m : g[k] = f[k]
      OBVIOUS
    <2>3. \A k \in 0..m : f[k] = IF k = 0 THEN d ELSE Executed(f[k - 1], requests[k])
      BY <2>1
    <2>4. g[m + 1] = Executed(f[m], requests[m + 1])
      OBVIOUS
    <2>5. \A k \in 0..(m + 1) : g[k] = IF k = 0 THEN d ELSE Executed(g[k - 1], requests[k])
      <3> SUFFICES ASSUME NEW k \in 0..(m + 1)
                   PROVE  g[k] = IF k = 0 THEN d ELSE Executed(g[k - 1], requests[k])
        OBVIOUS
      <3>1. CASE k <= m
        <4>1. k \in 0..m /\ (k # 0 => k - 1 \in 0..m)
          BY <3>1
        <4> HIDE DEF g
        <4> QED BY <4>1, <2>2, <2>3
      <3>2. CASE k = m + 1
        <4>1. k # 0 /\ k - 1 = m /\ m \in 0..m
          BY <3>2
        <4> HIDE DEF g
        <4> QED BY <4>1, <3>2, <2>2, <2>4
      <3> QED BY <3>1, <3>2
    <2>6. Upto(g, m + 1)
      <3>1. g = [k \in 0..(m + 1) |-> g[k]]
        OBVIOUS
      <3> HIDE DEF g
      <3> QED BY <2>5, <3>1
    <2> HIDE DEF g
    <2>7. \E h : Upto(h, m + 1)
      BY <2>6
    <2> QED BY <2>7, <1>2
  <1>3. \A m \in 0..n : m \in P
    <2> HIDE DEF P
    <2> QED BY <1>1, <1>2, SegmentInduction
  <1>4. n \in P
    BY <1>3
  <1> QED BY <1>4 DEF Runs

\* The tables after each of the requests, one by one.
LEMMA AfterStep ==
    ASSUME NEW d, NEW requests, Len(requests) \in Nat
    PROVE  /\ DOMAIN After(d, requests) = 0..Len(requests)
           /\ After(d, requests)[0] = d
           /\ \A k \in 1..Len(requests) :
                 After(d, requests)[k] = Executed(After(d, requests)[k - 1], requests[k])
  <1>1. Runs(After(d, requests), d, requests)
    BY AfterIs, RunsExist
  <1> DEFINE f == After(d, requests)
  <1> HIDE DEF f
  <1>2. f = [k \in 0..Len(requests) |-> IF k = 0 THEN d ELSE Executed(f[k - 1], requests[k])]
    BY <1>1 DEF f, Runs
  <1>3. DOMAIN f = 0..Len(requests) /\ f[0] = d
    BY <1>2
  <1>4. \A k \in 1..Len(requests) : f[k] = Executed(f[k - 1], requests[k])
    BY <1>2
  <1> QED BY <1>3, <1>4 DEF f

\* Whatever goes from tables to tables as the requests do is what they make.
LEMMA AfterUnique ==
    ASSUME NEW d, NEW requests, Len(requests) \in Nat, NEW f, f[0] = d,
           \A k \in 1..Len(requests) : f[k] = Executed(f[k - 1], requests[k])
    PROVE  \A k \in 0..Len(requests) : After(d, requests)[k] = f[k]
  <1> DEFINE g == After(d, requests)
             P == {k \in 0..Len(requests) : g[k] = f[k]}
  <1>1. g[0] = d /\ \A k \in 1..Len(requests) : g[k] = Executed(g[k - 1], requests[k])
    BY AfterStep
  <1> HIDE DEF g
  <1>2. 0 \in P
    BY <1>1
  <1>3. ASSUME NEW k \in 0..Len(requests), k < Len(requests), k \in P
        PROVE  k + 1 \in P
    <2>1. k + 1 \in 1..Len(requests) /\ (k + 1) - 1 = k
      BY <1>3
    <2>2. f[k + 1] = Executed(f[k], requests[k + 1]) /\ g[k + 1] = Executed(g[k], requests[k + 1])
      BY <1>1, <2>1
    <2> QED BY <2>1, <2>2, <1>3
  <1>4. \A k \in 0..Len(requests) : k \in P
    <2> HIDE DEF P
    <2> QED BY <1>2, <1>3, SegmentInduction
  <1> QED BY <1>4 DEF g

\* After the first request the others do what they would have done.
LEMMA AfterTail ==
    ASSUME NEW d, NEW S, NEW requests \in Seq(S), requests # <<>>
    PROVE  \A k \in 0..Len(requests) - 1 :
              After(Executed(d, Head(requests)), Tail(requests))[k] = After(d, requests)[k + 1]
  <1> DEFINE g == After(d, requests)
             rest == Tail(requests)
             f == [k \in 0..Len(requests) - 1 |-> g[k + 1]]
  <1>1. /\ Len(rest) = Len(requests) - 1 /\ Len(rest) \in Nat /\ Len(requests) \in Nat
        /\ 1 \in 1..Len(requests) /\ Head(requests) = requests[1]
        /\ \A k \in 1..Len(rest) : rest[k] = requests[k + 1]
    BY HeadTailProperties
  <1>2. g[0] = d /\ \A k \in 1..Len(requests) : g[k] = Executed(g[k - 1], requests[k])
    BY AfterStep, <1>1
  <1> HIDE DEF g, rest
  <1>3. g[1] = Executed(d, Head(requests))
    <2>1. 1 - 1 = 0
      OBVIOUS
    <2> QED BY <1>1, <1>2, <2>1
  <1>4. f[0] = Executed(d, Head(requests))
    BY <1>1, <1>3
  <1>5. \A k \in 1..Len(rest) : f[k] = Executed(f[k - 1], rest[k])
    <2> TAKE k \in 1..Len(rest)
    <2>1. /\ k + 1 \in 1..Len(requests) /\ (k + 1) - 1 = k /\ (k - 1) + 1 = k
          /\ k \in 0..Len(requests) - 1 /\ k - 1 \in 0..Len(requests) - 1
      BY <1>1
    <2>2. f[k] = g[k + 1] /\ f[k - 1] = g[k]
      BY <2>1
    <2>3. g[k + 1] = Executed(g[k], requests[k + 1])
      BY <1>2, <2>1
    <2> QED BY <1>1, <2>2, <2>3
  <1>6. \A k \in 0..Len(requests) - 1 : f[k] = g[k + 1]
    OBVIOUS
  <1> HIDE DEF f
  <1>7. \A k \in 0..Len(rest) : After(Executed(d, Head(requests)), rest)[k] = f[k]
    BY <1>1, <1>4, <1>5, AfterUnique
  <1> QED BY <1>1, <1>6, <1>7 DEF g, rest

\* Requests that are queued later act on what the earlier ones make.
LEMMA AfterConcat ==
    ASSUME NEW d, NEW S, NEW r \in Seq(S), NEW q \in Seq(S)
    PROVE  /\ Len(r \o q) = Len(r) + Len(q)
           /\ \A k \in 0..Len(r) : After(d, r \o q)[k] = After(d, r)[k]
           /\ \A k \in 0..Len(q) :
                 After(d, r \o q)[Len(r) + k] = After(After(d, r)[Len(r)], q)[k]
  <1> DEFINE n == Len(r)
             g == After(d, r)
             h == After(g[n], q)
             f == [k \in 0..n + Len(q) |-> IF k <= n THEN g[k] ELSE h[k - n]]
             both == r \o q
  <1>1. /\ Len(both) = n + Len(q) /\ n \in Nat /\ Len(q) \in Nat /\ Len(both) \in Nat
        /\ \A k \in 1..n : both[k] = r[k]
        /\ \A k \in n + 1..n + Len(q) : both[k] = q[k - n]
    BY ConcatProperties, LenProperties
  <1>2. g[0] = d /\ \A k \in 1..n : g[k] = Executed(g[k - 1], r[k])
    BY AfterStep, <1>1
  <1>3. h[0] = g[n] /\ \A k \in 1..Len(q) : h[k] = Executed(h[k - 1], q[k])
    BY AfterStep, <1>1
  <1> HIDE DEF g, h, both, n
  <1>4. \A k \in 0..n : f[k] = g[k]
    BY <1>1
  <1>5. \A k \in 0..Len(q) : f[n + k] = h[k]
    <2> TAKE k \in 0..Len(q)
    <2>1. CASE k = 0
      BY <1>1, <1>3, <2>1
    <2>2. CASE k # 0
      <3>1. n + k \in 0..n + Len(q) /\ ~(n + k <= n) /\ (n + k) - n = k
        BY <1>1, <2>2
      <3> QED BY <3>1
    <2> QED BY <2>1, <2>2
  <1> HIDE DEF f
  <1>6. f[0] = d
    BY <1>1, <1>2, <1>4
  <1>7. \A k \in 1..Len(both) : f[k] = Executed(f[k - 1], both[k])
    <2> TAKE k \in 1..Len(both)
    <2>1. CASE k <= n
      <3>1. k \in 1..n /\ k \in 0..n /\ k - 1 \in 0..n
        BY <1>1, <2>1
      <3> QED BY <1>1, <1>2, <1>4, <3>1
    <2>2. CASE ~(k <= n)
      <3> DEFINE j == k - n
      <3>1. /\ j \in 1..Len(q) /\ j \in 0..Len(q) /\ j - 1 \in 0..Len(q)
            /\ n + j = k /\ n + (j - 1) = k - 1 /\ k \in n + 1..n + Len(q)
        BY <1>1, <2>2
      <3>2. both[k] = q[j]
        BY <1>1, <3>1
      <3> HIDE DEF j
      <3>3. f[k] = h[j] /\ f[k - 1] = h[j - 1]
        BY <1>5, <3>1
      <3> QED BY <1>3, <3>1, <3>2, <3>3
    <2> QED BY <2>1, <2>2
  <1>8. \A k \in 0..Len(both) : After(d, both)[k] = f[k]
    BY <1>1, <1>6, <1>7, AfterUnique
  <1>9. \A k \in 0..n : After(d, both)[k] = g[k]
    BY <1>1, <1>4, <1>8
  <1>10. \A k \in 0..Len(q) : After(d, both)[n + k] = h[k]
    <2> TAKE k \in 0..Len(q)
    <2>1. n + k \in 0..Len(both)
      BY <1>1
    <2> QED BY <1>5, <1>8, <2>1
  <1> QED BY <1>1, <1>9, <1>10 DEF g, h, both, n

\* No request, one request, two requests.
LEMMA AfterFew ==
    ASSUME NEW d
    PROVE  /\ After(d, <<>>)[0] = d
           /\ \A r : After(d, <<r>>)[0] = d /\ After(d, <<r>>)[1] = Executed(d, r)
  <1>1. After(d, <<>>)[0] = d
    <2>1. Len(<<>>) \in Nat
      OBVIOUS
    <2> QED BY <2>1, AfterStep
  <1>2. ASSUME NEW r
        PROVE  After(d, <<r>>)[0] = d /\ After(d, <<r>>)[1] = Executed(d, r)
    <2> DEFINE s == <<r>>
    <2>1. Len(s) = 1 /\ Len(s) \in Nat /\ s[1] = r /\ 1 \in 1..Len(s) /\ 1 - 1 = 0
      OBVIOUS
    <2> HIDE DEF s
    <2>2. After(d, s)[0] = d /\ After(d, s)[1] = Executed(After(d, s)[1 - 1], s[1])
      BY <2>1, AfterStep
    <2> QED BY <2>1, <2>2 DEF s
  <1> QED BY <1>1, <1>2

LEMMA AfterTwo ==
    ASSUME NEW d, NEW s, Len(s) = 2
    PROVE  /\ After(d, s)[0] = d
           /\ After(d, s)[1] = Executed(d, s[1])
           /\ After(d, s)[2] = Executed(Executed(d, s[1]), s[2])
  <1>1. Len(s) \in Nat /\ 1 \in 1..Len(s) /\ 1 - 1 = 0 /\ 2 \in 1..Len(s) /\ 2 - 1 = 1
    OBVIOUS
  <1>2. /\ After(d, s)[0] = d /\ After(d, s)[1] = Executed(After(d, s)[1 - 1], s[1])
        /\ After(d, s)[2] = Executed(After(d, s)[2 - 1], s[2])
    BY <1>1, AfterStep
  <1> QED BY <1>1, <1>2

(***************************************************************************)
(* The types of the tables, of what is written, and of the players.        *)
(***************************************************************************)
LEMMA RowsIntro ==
    ASSUME NEW R, NEW V, NEW D \in SUBSET R, NEW f \in [D -> V]
    PROVE  f \in Rows(R, V)
  BY DEF Rows

LEMMA WrittenType ==
    ASSUME NEW R, NEW V, NEW c \in [R -> V], NEW f \in Rows(R, V)
    PROVE  Written(c, f) \in [R -> V]
  BY DEF Rows, Written

\* No column of Writes or of Tables but is typed.
LEMMA StoredType ==
    ASSUME NEW d \in Tables, NEW w \in Writes
    PROVE  Stored(d, w) \in Tables
  <1>1. d \in Columns /\ w \in WriteColumns /\ Paired(d) /\ Paired(w)
    BY DEF Tables, Writes
  <1>2. /\ Written(d.money, w.money) \in [Players -> 0..MaxGold]
        /\ Written(d.bag, w.bag) \in [Items -> Players \cup {NULL}]
        /\ Written(d.instance, w.instance) \in [Items -> BOOLEAN]
        /\ Written(d.inMail, w.inMail) \in [Items -> Ids \cup {NULL}]
        /\ Written(d.receiver, w.receiver) \in [Ids -> Players \cup {NULL}]
        /\ Written(d.sender, w.sender) \in [Ids -> Players \cup {NULL}]
        /\ Written(d.mailMoney, w.mailMoney) \in [Ids -> 0..ColumnSize - 1]
        /\ Written(d.cod, w.cod) \in [Ids -> 0..ColumnSize - 1]
        /\ Written(d.checked, w.checked) \in [Ids -> {"normal", "payment", "returned"}]
    BY WrittenType, <1>1 DEF Columns, WriteColumns
  <1>3. Stored(d, w) \in Columns
    BY <1>2 DEF Columns, Stored
  <1>4. Paired(Stored(d, w))
    BY <1>1 DEF Paired, Stored, Written, Columns
  <1> QED BY <1>3, <1>4 DEF Tables

LEMMA ExecutedType ==
    ASSUME NEW d \in Tables, NEW r \in Request
    PROVE  Executed(d, r) \in Tables
  BY StoredType DEF Request, Executed

LEMMA AfterType ==
    ASSUME NEW d \in Tables, NEW requests \in Seq(Request)
    PROVE  \A k \in 0..Len(requests) : After(d, requests)[k] \in Tables
  <1> DEFINE g == After(d, requests)
             P == {k \in 0..Len(requests) : g[k] \in Tables}
  <1>1. /\ Len(requests) \in Nat
        /\ g[0] = d /\ \A k \in 1..Len(requests) : g[k] = Executed(g[k - 1], requests[k])
        /\ \A k \in 1..Len(requests) : requests[k] \in Request
    BY AfterStep
  <1> HIDE DEF g
  <1>2. 0 \in P
    BY <1>1
  <1>3. ASSUME NEW k \in 0..Len(requests), k < Len(requests), k \in P
        PROVE  k + 1 \in P
    <2>1. k + 1 \in 1..Len(requests) /\ (k + 1) - 1 = k
      BY <1>3
    <2>2. g[k + 1] = Executed(g[k], requests[k + 1]) /\ requests[k + 1] \in Request
      BY <1>1, <2>1
    <2> QED BY <2>1, <2>2, <1>3, ExecutedType
  <1>4. \A k \in 0..Len(requests) : k \in P
    <2> HIDE DEF P
    <2> QED BY <1>1, <1>2, <1>3, SegmentInduction
  <1> QED BY <1>4 DEF g

LEMMA NoRowType == \A R, V : NoRow \in Rows(R, V)
  BY DEF NoRow, Rows

LEMMA RowType ==
    ASSUME NEW R, NEW V, NEW r \in R, NEW v \in V
    PROVE  Row(r, v) \in Rows(R, V)
  <1>1. Row(r, v) \in [{r} -> V]
    BY DEF Row
  <1> QED BY <1>1, RowsIntro

LEMMA ModuloType == \A n \in Nat : n % ColumnSize \in 0..ColumnSize - 1
  BY MailAssumption

LEMMA SentType ==
    ASSUME NEW m \in Ids, NEW r \in Players, NEW mail \in Mail
    PROVE  SentRows(m, r, mail) \in Writes
  <1> DEFINE w == SentRows(m, r, mail)
  <1>1. /\ w.receiver = Row(m, r) /\ w.sender = Row(m, mail.sender)
        /\ w.instance = NoRow
    BY DEF SentRows, Untouched
  <1>2. [i \in mail.items |-> m] \in Rows(Items, Ids \cup {NULL})
    <2>1. [i \in mail.items |-> m] \in [mail.items -> Ids \cup {NULL}] /\ mail.items \in SUBSET Items
      BY DEF Mail
    <2> QED BY <2>1, RowsIntro
  <1>3. /\ mail.money % ColumnSize \in 0..ColumnSize - 1 /\ mail.cod % ColumnSize \in 0..ColumnSize - 1
        /\ mail.sender \in Players /\ mail.checked \in {"normal", "payment", "returned"}
    BY ModuloType DEF Mail
  <1>4. /\ Row(m, r) \in Rows(Ids, Players \cup {NULL})
        /\ Row(m, mail.sender) \in Rows(Ids, Players \cup {NULL})
        /\ Row(m, mail.money % ColumnSize) \in Rows(Ids, 0..ColumnSize - 1)
        /\ Row(m, mail.cod % ColumnSize) \in Rows(Ids, 0..ColumnSize - 1)
        /\ Row(m, mail.checked) \in Rows(Ids, {"normal", "payment", "returned"})
    BY <1>3, RowType
  <1>5. w \in WriteColumns
    BY <1>2, <1>4, NoRowType DEF SentRows, Untouched, WriteColumns
  <1>6. Paired(w)
    BY <1>1, <1>3, MailAssumption DEF Paired, Row
  <1>7. DOMAIN w.instance = {}
    BY <1>1 DEF NoRow
  <1> QED BY <1>5, <1>6, <1>7 DEF Writes

LEMMA DeletedType ==
    ASSUME NEW M \in SUBSET Ids, NEW I \in SUBSET Items
    PROVE  DeletedRows(M, I) \in Writes
  <1> DEFINE w == DeletedRows(M, I)
  <1>1. /\ w.receiver = [m \in M |-> NULL] /\ w.sender = [m \in M |-> NULL]
        /\ w.instance = NoRow
    BY DEF DeletedRows, Untouched
  <1>2. /\ [i \in I |-> NULL] \in Rows(Items, Ids \cup {NULL})
        /\ [m \in M |-> NULL] \in Rows(Ids, Players \cup {NULL})
        /\ [m \in M |-> 0] \in Rows(Ids, 0..ColumnSize - 1)
        /\ [m \in M |-> "normal"] \in Rows(Ids, {"normal", "payment", "returned"})
    <2>1. /\ [i \in I |-> NULL] \in [I -> Ids \cup {NULL}]
          /\ [m \in M |-> NULL] \in [M -> Players \cup {NULL}]
          /\ [m \in M |-> 0] \in [M -> 0..ColumnSize - 1]
          /\ [m \in M |-> "normal"] \in [M -> {"normal", "payment", "returned"}]
      BY MailAssumption
    <2> QED BY <2>1, RowsIntro
  <1>3. w \in WriteColumns
    BY <1>2, NoRowType DEF DeletedRows, Untouched, WriteColumns
  <1>4. Paired(w)
    BY <1>1 DEF Paired
  <1>5. DOMAIN w.instance = {}
    BY <1>1 DEF NoRow
  <1> QED BY <1>3, <1>4, <1>5 DEF Writes

LEMMA GoldType ==
    ASSUME NEW p \in Players, NEW pl, pl.gold \in 0..MaxGold
    PROVE  SaveGold(p, pl) \in Writes
  <1> DEFINE w == SaveGold(p, pl)
  <1>1. /\ w.receiver = NoRow /\ w.sender = NoRow /\ w.instance = NoRow
    BY DEF SaveGold, Untouched
  <1>2. Row(p, pl.gold) \in Rows(Players, 0..MaxGold)
    BY RowType
  <1>3. w \in WriteColumns
    BY <1>2, NoRowType DEF SaveGold, Untouched, WriteColumns
  <1>4. Paired(w) /\ DOMAIN w.instance = {}
    BY <1>1 DEF Paired, NoRow
  <1> QED BY <1>3, <1>4 DEF Writes

LEMMA TakenOutType ==
    ASSUME NEW i \in Items
    PROVE  TakenOut(i) \in Writes
  <1> DEFINE w == TakenOut(i)
  <1>1. /\ w.receiver = NoRow /\ w.sender = NoRow /\ w.instance = NoRow
    BY DEF TakenOut, Untouched
  <1>2. Row(i, NULL) \in Rows(Items, Players \cup {NULL})
    BY RowType
  <1>3. w \in WriteColumns
    BY <1>2, NoRowType DEF TakenOut, Untouched, WriteColumns
  <1>4. Paired(w) /\ DOMAIN w.instance = {}
    BY <1>1 DEF Paired, NoRow
  <1> QED BY <1>3, <1>4 DEF Writes

LEMMA InStateType ==
    ASSUME NEW pl \in Player
    PROVE  /\ \A s : \A m \in InState(pl, s) :
                 m \in Ids /\ pl.mails[m] \in Mail /\ pl.mails[m].state = s
           /\ InState(pl, "changed") \cap InState(pl, "deleted") = {}
           /\ InState(pl, "changed") \subseteq Ids /\ InState(pl, "deleted") \subseteq Ids
           /\ Gone(pl) \subseteq Items
  <1>1. \A s : \A m \in InState(pl, s) : m \in Ids /\ pl.mails[m] \in Mail /\ pl.mails[m].state = s
    BY DEF InState, Player
  <1>2. \A m \in InState(pl, "deleted") : pl.mails[m].items \in SUBSET Items
    BY <1>1 DEF Mail
  <1> QED BY <1>1, <1>2 DEF Gone

\* The columns of SavedRows one by one.
LEMMA SavedIs ==
    ASSUME NEW pl
    PROVE  LET w       == SavedRows(pl)
               changed == InState(pl, "changed")
               deleted == InState(pl, "deleted")
           IN  /\ w.money = NoRow /\ w.bag = NoRow
               /\ w.instance = [i \in Gone(pl) |-> FALSE]
               /\ w.inMail = [i \in Gone(pl) |-> NULL]
               /\ w.receiver = [m \in deleted |-> NULL]
               /\ w.sender = [m \in deleted |-> NULL]
               /\ DOMAIN w.mailMoney = changed \cup deleted /\ DOMAIN w.cod = changed \cup deleted
               /\ \A m \in changed : /\ w.mailMoney[m] = pl.mails[m].money % ColumnSize
                                     /\ w.cod[m] = pl.mails[m].cod % ColumnSize
               /\ \A m \in deleted \ changed : w.mailMoney[m] = 0
  <1> DEFINE w == SavedRows(pl)
             changed == InState(pl, "changed")
             deleted == InState(pl, "deleted")
  <1>1. w.money = NoRow /\ w.bag = NoRow
    BY DEF SavedRows, DeletedRows, Untouched
  <1>2. w.inMail = [i \in Gone(pl) |-> NULL]
    BY DEF SavedRows, DeletedRows, Untouched
  <1>3. w.instance = [i \in Gone(pl) |-> FALSE]
    BY DEF SavedRows, DeletedRows, Untouched
  <1>4. w.receiver = [m \in deleted |-> NULL]
    BY DEF SavedRows, DeletedRows, Untouched
  <1>5. w.sender = [m \in deleted |-> NULL]
    BY DEF SavedRows, DeletedRows, Untouched
  <1>6. w.mailMoney = [m \in changed \cup deleted |->
                         IF m \in changed THEN pl.mails[m].money % ColumnSize ELSE 0]
    BY DEF SavedRows, DeletedRows, Untouched
  <1>7. w.cod = [m \in changed \cup deleted |->
                   IF m \in changed THEN pl.mails[m].cod % ColumnSize ELSE 0]
    BY DEF SavedRows, DeletedRows, Untouched
  <1> HIDE DEF w, changed, deleted
  <1>8. DOMAIN w.mailMoney = changed \cup deleted /\ DOMAIN w.cod = changed \cup deleted
    BY <1>6, <1>7
  <1>9. \A m \in changed : /\ w.mailMoney[m] = pl.mails[m].money % ColumnSize
                          /\ w.cod[m] = pl.mails[m].cod % ColumnSize
    BY <1>6, <1>7
  <1>10. \A m \in deleted \ changed : w.mailMoney[m] = 0
    BY <1>6
  <1> QED BY <1>1, <1>2, <1>3, <1>4, <1>5, <1>8, <1>9, <1>10 DEF w, changed, deleted

LEMMA SavedType ==
    ASSUME NEW pl \in Player
    PROVE  SavedRows(pl) \in WriteColumns
  <1> DEFINE changed == InState(pl, "changed")
             deleted == InState(pl, "deleted")
  <1>1. /\ changed \subseteq Ids /\ deleted \subseteq Ids /\ Gone(pl) \subseteq Items
        /\ \A m \in changed : pl.mails[m] \in Mail
    BY InStateType
  <1>2. DeletedRows(deleted, Gone(pl)) \in WriteColumns
    BY <1>1, DeletedType DEF Writes
  <1>3. changed \cup deleted \in SUBSET Ids /\ Gone(pl) \in SUBSET Items
    BY <1>1
  <1>4. [m \in changed \cup deleted |-> IF m \in changed THEN pl.mails[m].money % ColumnSize ELSE 0]
           \in Rows(Ids, 0..ColumnSize - 1)
    <2>1. \A m \in changed : pl.mails[m].money % ColumnSize \in 0..ColumnSize - 1
      BY <1>1, ModuloType DEF Mail
    <2>2. 0 \in 0..ColumnSize - 1
      BY MailAssumption
    <2> HIDE DEF changed, deleted
    <2>3. [m \in changed \cup deleted |-> IF m \in changed THEN pl.mails[m].money % ColumnSize ELSE 0]
             \in [changed \cup deleted -> 0..ColumnSize - 1]
      BY <2>1, <2>2
    <2> QED BY <1>3, <2>3, RowsIntro
  <1>5. [m \in changed \cup deleted |-> IF m \in changed THEN pl.mails[m].cod % ColumnSize ELSE 0]
           \in Rows(Ids, 0..ColumnSize - 1)
    <2>1. \A m \in changed : pl.mails[m].cod % ColumnSize \in 0..ColumnSize - 1
      BY <1>1, ModuloType DEF Mail
    <2>2. 0 \in 0..ColumnSize - 1
      BY MailAssumption
    <2> HIDE DEF changed, deleted
    <2>3. [m \in changed \cup deleted |-> IF m \in changed THEN pl.mails[m].cod % ColumnSize ELSE 0]
             \in [changed \cup deleted -> 0..ColumnSize - 1]
      BY <2>1, <2>2
    <2> QED BY <1>3, <2>3, RowsIntro
  <1>6. [m \in changed \cup deleted |-> IF m \in changed THEN pl.mails[m].checked ELSE "normal"]
           \in Rows(Ids, {"normal", "payment", "returned"})
    <2>1. \A m \in changed : pl.mails[m].checked \in {"normal", "payment", "returned"}
      BY <1>1 DEF Mail
    <2> HIDE DEF changed, deleted
    <2>3. [m \in changed \cup deleted |-> IF m \in changed THEN pl.mails[m].checked ELSE "normal"]
             \in [changed \cup deleted -> {"normal", "payment", "returned"}]
      BY <2>1
    <2> QED BY <1>3, <2>3, RowsIntro
  <1>7. [i \in Gone(pl) |-> FALSE] \in Rows(Items, BOOLEAN)
    <2>1. [i \in Gone(pl) |-> FALSE] \in [Gone(pl) -> BOOLEAN]
      OBVIOUS
    <2> QED BY <1>3, <2>1, RowsIntro
  <1> QED BY <1>2, <1>4, <1>5, <1>6, <1>7 DEF SavedRows, WriteColumns

\* SaveRows and TakenRows column by column.
LEMMA SaveIs ==
    ASSUME NEW p \in Players, NEW pl \in Player
    PROVE  LET w == SaveRows(p, pl)
               s == SavedRows(pl)
           IN  /\ w \in Writes
               /\ w.money = Row(p, pl.gold) /\ w.bag = NoRow
               /\ w.instance = s.instance /\ w.inMail = s.inMail
               /\ w.receiver = s.receiver /\ w.sender = s.sender
               /\ w.mailMoney = s.mailMoney /\ w.cod = s.cod /\ w.checked = s.checked
  <1> DEFINE w == SaveRows(p, pl)
             s == SavedRows(pl)
  <1>1. s \in WriteColumns
    BY SavedType
  <1>2. Row(p, pl.gold) \in Rows(Players, 0..MaxGold)
    BY RowType DEF Player
  <1>3. /\ w.money = Row(p, pl.gold) /\ w.bag = s.bag
        /\ w.instance = s.instance /\ w.inMail = s.inMail
        /\ w.receiver = s.receiver /\ w.sender = s.sender
        /\ w.mailMoney = s.mailMoney /\ w.cod = s.cod /\ w.checked = s.checked
        /\ w \in WriteColumns
    <2> HIDE DEF s
    <2> QED BY <1>1, <1>2 DEF SaveRows, WriteColumns, s
  <1>4. /\ s.bag = NoRow /\ s.instance = [i \in Gone(pl) |-> FALSE]
        /\ s.receiver = [m \in InState(pl, "deleted") |-> NULL]
        /\ s.sender = [m \in InState(pl, "deleted") |-> NULL]
    BY SavedIs
  <1> HIDE DEF w, s
  <1>5. Paired(w) /\ \A i \in DOMAIN w.instance : ~w.instance[i]
    BY <1>3, <1>4 DEF Paired
  <1> QED BY <1>3, <1>4, <1>5 DEF Writes, w, s

LEMMA TakenIs ==
    ASSUME NEW p \in Players, NEW pl \in Player, NEW i \in Items
    PROVE  LET w == TakenRows(p, pl, i)
               s == SaveRows(p, pl)
           IN  /\ w \in Writes
               /\ w.money = s.money /\ w.bag = Row(i, p)
               /\ w.instance = WithRow(s.instance, i, i \notin Gone(pl))
               /\ w.inMail = WithRow(s.inMail, i, NULL)
               /\ w.receiver = s.receiver /\ w.sender = s.sender
               /\ w.mailMoney = s.mailMoney /\ w.cod = s.cod /\ w.checked = s.checked
  <1> DEFINE w == TakenRows(p, pl, i)
             s == SaveRows(p, pl)
  <1>1. s \in Writes
    BY SaveIs
  <1>2. s \in WriteColumns /\ Paired(s)
    BY <1>1 DEF Writes
  <1>3. Row(i, p) \in Rows(Items, Players \cup {NULL})
    BY RowType
  <1>4. s.instance = [j \in Gone(pl) |-> FALSE] /\ s.inMail = [j \in Gone(pl) |-> NULL]
    BY SaveIs, SavedIs
  <1>5. Gone(pl) \cup {i} \in SUBSET Items
    BY InStateType
  <1>6. WithRow(s.instance, i, i \notin Gone(pl)) \in Rows(Items, BOOLEAN)
    <2> HIDE DEF s
    <2>1. (i \notin Gone(pl)) \in BOOLEAN
      OBVIOUS
    <2>2. \A v \in BOOLEAN : WithRow(s.instance, i, v) \in [Gone(pl) \cup {i} -> BOOLEAN]
      BY <1>4 DEF WithRow
    <2>3. WithRow(s.instance, i, i \notin Gone(pl)) \in [Gone(pl) \cup {i} -> BOOLEAN]
      BY <2>1, <2>2
    <2> QED BY <1>5, <2>3, RowsIntro
  <1>7. WithRow(s.inMail, i, NULL) \in Rows(Items, Ids \cup {NULL})
    <2> HIDE DEF s
    <2>1. WithRow(s.inMail, i, NULL) \in [Gone(pl) \cup {i} -> Ids \cup {NULL}]
      BY <1>4 DEF WithRow
    <2> QED BY <1>5, <2>1, RowsIntro
  <1>8. /\ w.money = s.money /\ w.bag = Row(i, p)
        /\ w.instance = WithRow(s.instance, i, i \notin Gone(pl))
        /\ w.inMail = WithRow(s.inMail, i, NULL)
        /\ w.receiver = s.receiver /\ w.sender = s.sender
        /\ w.mailMoney = s.mailMoney /\ w.cod = s.cod /\ w.checked = s.checked
        /\ w \in WriteColumns
    <2> HIDE DEF s
    <2> QED BY <1>2, <1>3, <1>6, <1>7 DEF TakenRows, WriteColumns, s
  <1> HIDE DEF w, s
  <1>9. Paired(w)
    BY <1>2, <1>8 DEF Paired
  <1>10. DOMAIN w.instance \subseteq DOMAIN w.inMail
    BY <1>4, <1>8 DEF WithRow
  <1> QED BY <1>8, <1>9, <1>10 DEF Writes, w, s

\* The rows that are written when old mails go back or are destroyed.
LEMMA ReturnedType ==
    ASSUME db \in Tables, NEW M \in SUBSET Existing(db)
    PROVE  ReturnedRows(M) \in Writes
  <1> DEFINE w == ReturnedRows(M)
  <1>1. /\ w.receiver = [m \in M |-> db.sender[m]] /\ w.sender = [m \in M |-> db.receiver[m]]
        /\ w.instance = NoRow
    BY DEF ReturnedRows, Untouched
  <1>2. db \in Columns /\ Paired(db) /\ M \in SUBSET Ids
    BY DEF Tables, Existing
  <1>3. /\ [m \in M |-> db.sender[m]] \in Rows(Ids, Players \cup {NULL})
        /\ [m \in M |-> db.receiver[m]] \in Rows(Ids, Players \cup {NULL})
        /\ [m \in M |-> 0] \in Rows(Ids, 0..ColumnSize - 1)
        /\ [m \in M |-> "returned"] \in Rows(Ids, {"normal", "payment", "returned"})
    <2>1. /\ [m \in M |-> db.sender[m]] \in [M -> Players \cup {NULL}]
          /\ [m \in M |-> db.receiver[m]] \in [M -> Players \cup {NULL}]
          /\ [m \in M |-> 0] \in [M -> 0..ColumnSize - 1]
          /\ [m \in M |-> "returned"] \in [M -> {"normal", "payment", "returned"}]
      BY <1>2, MailAssumption DEF Columns
    <2> QED BY <1>2, <2>1, RowsIntro
  <1>4. w \in WriteColumns
    BY <1>3, NoRowType DEF ReturnedRows, Untouched, WriteColumns
  <1>5. Paired(w)
    BY <1>1, <1>2 DEF Paired, Columns
  <1>6. DOMAIN w.instance = {}
    BY <1>1 DEF NoRow
  <1> QED BY <1>4, <1>5, <1>6 DEF Writes

LEMMA DestroyedType ==
    ASSUME NEW M
    PROVE  DestroyedRows(M) \in Writes
  <1> DEFINE w == DestroyedRows(M)
             I == UNION {Attached(db, m) : m \in M}
  <1>1. /\ w.receiver = NoRow /\ w.sender = NoRow /\ w.instance = [i \in I |-> FALSE]
    BY DEF DestroyedRows, Untouched
  <1>2. I \in SUBSET Items
    BY DEF Attached
  <1>3. [i \in I |-> FALSE] \in Rows(Items, BOOLEAN)
    <2>1. [i \in I |-> FALSE] \in [I -> BOOLEAN]
      OBVIOUS
    <2> QED BY <1>2, <2>1, RowsIntro
  <1>4. w \in WriteColumns
    BY <1>3, NoRowType DEF DestroyedRows, Untouched, WriteColumns
  <1>5. Paired(w) /\ \A i \in DOMAIN w.instance : ~w.instance[i]
    BY <1>1 DEF Paired
  <1> QED BY <1>4, <1>5 DEF Writes

(***************************************************************************)
(* The inductive invariant.                                                *)
(***************************************************************************)
\* No item is both in an inventory and in a mail.
OnePlace(d) ==
    \A i \in Items : d.instance[i] /\ d.bag[i] # NULL => d.inMail[i] \notin Existing(d)

\* The mail in memory is the one that tables d hold for p.
InTables(p, m, mail, d) ==
    /\ d.receiver[m] = p /\ d.sender[m] = mail.sender
    /\ d.mailMoney[m] = mail.money % ColumnSize /\ d.cod[m] = mail.cod % ColumnSize
    /\ Attached(d, m) = mail.items

\* What player pl has in memory is what tables d have of p.
Remembers(p, pl, d) ==
    /\ pl.gold = d.money[p]
    /\ pl.bag = InBag(d, p)
    /\ \A m \in Ids : pl.mails[m] # NULL => InTables(p, m, pl.mails[m], d)

\* The mails p has in tables d are the same in tables e.
MailsKept(p, d, e) ==
    \A m \in Ids : d.receiver[m] = p =>
       /\ e.receiver[m] = p /\ e.sender[m] = d.sender[m]
       /\ e.mailMoney[m] = d.mailMoney[m] /\ e.cod[m] = d.cod[m]
       /\ Attached(e, m) = Attached(d, m)

\* What tables d have of p is still so in tables e, where p may have more mails.
Kept(p, d, e) ==
    /\ e.money[p] = d.money[p]
    /\ InBag(e, p) = InBag(d, p)
    /\ MailsKept(p, d, e)

\* The requests make tables e of d, and no item is in two places on the way.
Leads(d, requests, e) ==
    /\ e = After(d, requests)[Len(requests)]
    /\ \A k \in 0..Len(requests) : OnePlace(After(d, requests)[k])

\* Each query is the only one of a player who waits for it, and what it will find
\* is not changed by the requests behind it.
Loads(st, d, requests, e) ==
    \A k \in 1..Len(requests) : requests[k].op = "query" =>
        LET p == requests[k].player
        IN  /\ st[p] = "asked"
            /\ Kept(p, After(d, requests)[k - 1], e)
            /\ \A j \in 1..Len(requests) : requests[j] = requests[k] => j = k

Memory(players, d) ==
    \A p \in Players : players[p] # NULL => Remembers(p, players[p], d)

MailInv ==
    /\ TypeOK
    /\ Leads(db, delay, settled)
    /\ Loads(status, db, delay, settled)
    /\ Memory(player, settled)

LEMMA KeptIsTransitive ==
    ASSUME NEW q, NEW d, NEW e, NEW f, Kept(q, d, e), Kept(q, e, f)
    PROVE  Kept(q, d, f)
  BY DEF Kept, MailsKept

LEMMA KeptIsReflexive == \A q, d : Kept(q, d, d)
  BY DEF Kept, MailsKept

LEMMA RememberedIsKept ==
    ASSUME NEW q \in Players, NEW pl \in Player, NEW d, NEW e, Remembers(q, pl, d), Kept(q, d, e)
    PROVE  Remembers(q, pl, e)
  <1>1. e.money[q] = pl.gold /\ InBag(e, q) = pl.bag
    BY DEF Remembers, Kept
  <1>2. ASSUME NEW m \in Ids, pl.mails[m] # NULL
        PROVE  InTables(q, m, pl.mails[m], e)
    <2>1. InTables(q, m, pl.mails[m], d) /\ MailsKept(q, d, e)
      BY <1>2 DEF Remembers, Kept
    <2> QED BY <2>1 DEF InTables, MailsKept
  <1> QED BY <1>1, <1>2 DEF Remembers

(***************************************************************************)
(* Queueing and executing requests.                                        *)
(***************************************************************************)
LEMMA LeadsConcat ==
    ASSUME NEW d, NEW e, NEW f, NEW r \in Seq(Request), NEW q \in Seq(Request),
           Leads(d, r, e), Leads(e, q, f)
    PROVE  Leads(d, r \o q, f)
  <1> DEFINE n == Len(r)
             g == After(d, r \o q)
             h == After(e, q)
  <1>1. /\ Len(r \o q) = n + Len(q) /\ n \in Nat /\ Len(q) \in Nat
        /\ \A k \in 0..n : g[k] = After(d, r)[k]
        /\ \A k \in 0..Len(q) : g[n + k] = h[k]
    BY AfterConcat DEF Leads
  <1>2. /\ \A k \in 0..n : OnePlace(After(d, r)[k])
        /\ \A k \in 0..Len(q) : OnePlace(h[k])
        /\ f = h[Len(q)]
    BY DEF Leads
  <1> HIDE DEF g, h, n
  <1>3. f = g[Len(r \o q)]
    BY <1>1, <1>2
  <1>4. ASSUME NEW k \in 0..Len(r \o q)
        PROVE  OnePlace(g[k])
    <2>1. CASE k <= n
      <3>1. k \in 0..n
        BY <1>1, <2>1
      <3> QED BY <3>1, <1>1, <1>2
    <2>2. CASE ~(k <= n)
      <3>1. k - n \in 0..Len(q) /\ n + (k - n) = k
        BY <1>1, <2>2
      <3>2. g[n + (k - n)] = h[k - n]
        BY <1>1, <3>1
      <3> QED BY <3>1, <3>2, <1>2
    <2> QED BY <2>1, <2>2
  <1> QED BY <1>3, <1>4 DEF Leads, g

\* More requests, none of them a query, which change nothing a player waits for.
LEMMA LoadsConcat ==
    ASSUME NEW d, NEW e, NEW f, NEW r \in Seq(Request), NEW q \in Seq(Request),
           NEW st, NEW st2, Leads(d, r, e), Loads(st, d, r, e),
           \A k \in 1..Len(q) : q[k].op # "query",
           \A p \in Players : st[p] = "asked" => st2[p] = "asked" /\ Kept(p, e, f)
    PROVE  Loads(st2, d, r \o q, f)
  <1> DEFINE s == r \o q
  <1>1. /\ Len(s) = Len(r) + Len(q) /\ Len(r) \in Nat /\ Len(q) \in Nat
        /\ \A k \in 1..Len(r) : s[k] = r[k]
        /\ \A k \in Len(r) + 1..Len(r) + Len(q) : s[k] = q[k - Len(r)]
    BY ConcatProperties, LenProperties
  <1>2. \A k \in 0..Len(r) : After(d, s)[k] = After(d, r)[k]
    BY AfterConcat
  <1> HIDE DEF s
  <1>3. \A k \in 1..Len(s) : s[k].op = "query" => k \in 1..Len(r)
    <2> TAKE k \in 1..Len(s)
    <2>1. CASE k \in 1..Len(r)
      BY <2>1
    <2>2. CASE k \notin 1..Len(r)
      <3>1. k \in Len(r) + 1..Len(r) + Len(q) /\ k - Len(r) \in 1..Len(q)
        BY <1>1, <2>2
      <3> QED BY <1>1, <3>1
    <2> QED BY <2>1, <2>2
  <1>4. ASSUME NEW k \in 1..Len(s), s[k].op = "query"
        PROVE  /\ st2[s[k].player] = "asked"
               /\ Kept(s[k].player, After(d, s)[k - 1], f)
               /\ \A j \in 1..Len(s) : s[j] = s[k] => j = k
    <2>1. k \in 1..Len(r) /\ s[k] = r[k] /\ k - 1 \in 0..Len(r)
      BY <1>1, <1>3, <1>4
    <2>2. /\ st[r[k].player] = "asked"
          /\ Kept(r[k].player, After(d, r)[k - 1], e)
          /\ \A j \in 1..Len(r) : r[j] = r[k] => j = k
      BY <1>4, <2>1 DEF Loads
    <2>3. r[k].player \in Players
      <3>1. r[k] \in Request /\ r[k].op = "query"
        BY <2>1, <1>4
      <3> QED BY <3>1 DEF Request
    <2>4. st2[r[k].player] = "asked" /\ Kept(r[k].player, e, f)
      BY <2>2, <2>3
    <2>5. Kept(r[k].player, After(d, r)[k - 1], f)
      BY <2>2, <2>4, KeptIsTransitive
    <2>6. ASSUME NEW j \in 1..Len(s), s[j] = s[k]
          PROVE  j = k
      <3>1. j \in 1..Len(r) /\ s[j] = r[j]
        BY <1>1, <1>3, <1>4, <2>6
      <3> QED BY <2>1, <2>2, <2>6, <3>1
    <2> QED BY <1>2, <2>1, <2>4, <2>5, <2>6
  <1> QED BY <1>4 DEF Loads, s

\* The first request is executed.
LEMMA LeadsTail ==
    ASSUME NEW d \in Tables, NEW e, NEW r \in Seq(Request), r # <<>>, Leads(d, r, e)
    PROVE  Leads(Executed(d, Head(r)), Tail(r), e)
  <1>1. /\ Len(Tail(r)) = Len(r) - 1 /\ Len(r) \in Nat /\ Len(r) > 0
        /\ \A k \in 0..Len(r) - 1 :
              After(Executed(d, Head(r)), Tail(r))[k] = After(d, r)[k + 1]
    BY AfterTail, HeadTailProperties
  <1>2. e = After(d, r)[Len(r)] /\ \A k \in 0..Len(r) : OnePlace(After(d, r)[k])
    BY DEF Leads
  <1>3. Len(r) - 1 \in 0..Len(r) - 1 /\ (Len(r) - 1) + 1 = Len(r)
    BY <1>1
  <1>4. \A k \in 0..Len(r) - 1 : k + 1 \in 0..Len(r)
    BY <1>1
  <1> QED BY <1>1, <1>2, <1>3, <1>4 DEF Leads

LEMMA LoadsTail ==
    ASSUME NEW d \in Tables, NEW e, NEW r \in Seq(Request), r # <<>>, NEW st, NEW st2,
           Loads(st, d, r, e),
           \A p \in Players : st[p] = "asked" => st2[p] = "asked" \/ Head(r) = Query(p)
    PROVE  Loads(st2, Executed(d, Head(r)), Tail(r), e)
  <1> DEFINE s == Tail(r)
             c == Executed(d, Head(r))
  <1>1. /\ Len(s) = Len(r) - 1 /\ Len(r) \in Nat /\ Len(r) > 0
        /\ \A k \in 0..Len(r) - 1 : After(c, s)[k] = After(d, r)[k + 1]
        /\ \A k \in 1..Len(s) : s[k] = r[k + 1]
        /\ Head(r) = r[1]
    BY AfterTail, HeadTailProperties
  <1> HIDE DEF s, c
  <1>2. ASSUME NEW k \in 1..Len(s), s[k].op = "query"
        PROVE  /\ st2[s[k].player] = "asked"
               /\ Kept(s[k].player, After(c, s)[k - 1], e)
               /\ \A j \in 1..Len(s) : s[j] = s[k] => j = k
    <2> DEFINE n == k + 1
    <2>1. n \in 1..Len(r) /\ s[k] = r[n] /\ k - 1 \in 0..Len(r) - 1 /\ n - 1 = (k - 1) + 1 /\ n # 1
          /\ 1 \in 1..Len(r)
      BY <1>1
    <2> HIDE DEF n
    <2>2. /\ st[r[n].player] = "asked"
          /\ Kept(r[n].player, After(d, r)[n - 1], e)
          /\ \A j \in 1..Len(r) : r[j] = r[n] => j = n
      BY <1>2, <2>1 DEF Loads
    <2>3. r[n] \in Request /\ r[n].op = "query"
      BY <2>1, <1>2
    <2>4. r[n].player \in Players /\ r[n] = Query(r[n].player)
      BY <2>3 DEF Request, Query
    <2>5. Head(r) # Query(r[n].player)
      BY <1>1, <2>1, <2>2, <2>4
    <2>6. st2[r[n].player] = "asked"
      BY <2>2, <2>4, <2>5
    <2>7. After(c, s)[k - 1] = After(d, r)[n - 1]
      BY <1>1, <2>1
    <2>8. ASSUME NEW j \in 1..Len(s), s[j] = s[k]
          PROVE  j = k
      <3>1. j + 1 \in 1..Len(r) /\ s[j] = r[j + 1]
        BY <1>1
      <3>2. j + 1 = n
        BY <2>1, <2>2, <2>8, <3>1
      <3> QED BY <3>2 DEF n
    <2> QED BY <2>1, <2>2, <2>6, <2>7, <2>8
  <1> QED BY <1>2 DEF Loads, s, c

(***************************************************************************)
(* What each transaction makes of the tables.                              *)
(***************************************************************************)
LEMMA TableTypes ==
    ASSUME NEW d \in Tables
    PROVE  /\ d.money \in [Players -> 0..MaxGold]
           /\ d.bag \in [Items -> Players \cup {NULL}]
           /\ d.instance \in [Items -> BOOLEAN]
           /\ d.inMail \in [Items -> Ids \cup {NULL}]
           /\ d.receiver \in [Ids -> Players \cup {NULL}]
           /\ d.sender \in [Ids -> Players \cup {NULL}]
           /\ d.mailMoney \in [Ids -> 0..ColumnSize - 1]
           /\ d.cod \in [Ids -> 0..ColumnSize - 1]
           /\ d.checked \in [Ids -> {"normal", "payment", "returned"}]
           /\ \A m \in Ids : d.receiver[m] = NULL <=> d.sender[m] = NULL
  BY DEF Tables, Columns, Paired

LEMMA NullIsNoKey == NULL \notin Players /\ NULL \notin Ids /\ NULL \notin Mail /\ NULL \notin Player
  BY MailAssumption

\* A column of which no row is written.
LEMMA NothingWritten ==
    ASSUME NEW R, NEW V, NEW c \in [R -> V]
    PROVE  Written(c, NoRow) = c
  BY DEF Written, NoRow

\* The tables after a transaction, row by row.
LEMMA StoredAt ==
    ASSUME NEW d \in Tables, NEW w \in Writes
    PROVE  LET e == Stored(d, w)
           IN  /\ e \in Tables
               /\ \A p \in Players : e.money[p] = IF p \in DOMAIN w.money THEN w.money[p] ELSE d.money[p]
               /\ \A i \in Items :
                    /\ e.bag[i] = IF i \in DOMAIN w.bag THEN w.bag[i] ELSE d.bag[i]
                    /\ i \in DOMAIN w.instance => (e.instance[i] <=> w.instance[i])
                    /\ i \notin DOMAIN w.instance => (e.instance[i] <=> d.instance[i])
                    /\ e.inMail[i] = IF i \in DOMAIN w.inMail THEN w.inMail[i] ELSE d.inMail[i]
               /\ \A m \in Ids :
                    /\ e.receiver[m] = IF m \in DOMAIN w.receiver THEN w.receiver[m] ELSE d.receiver[m]
                    /\ e.sender[m] = IF m \in DOMAIN w.sender THEN w.sender[m] ELSE d.sender[m]
                    /\ e.mailMoney[m] = IF m \in DOMAIN w.mailMoney THEN w.mailMoney[m] ELSE d.mailMoney[m]
                    /\ e.cod[m] = IF m \in DOMAIN w.cod THEN w.cod[m] ELSE d.cod[m]
                    /\ e.checked[m] = IF m \in DOMAIN w.checked THEN w.checked[m] ELSE d.checked[m]
  <1> DEFINE e == Stored(d, w)
  <1>1. e \in Tables
    BY StoredType
  <1>2. /\ e.money = Written(d.money, w.money) /\ e.bag = Written(d.bag, w.bag)
        /\ e.instance = Written(d.instance, w.instance) /\ e.inMail = Written(d.inMail, w.inMail)
        /\ e.receiver = Written(d.receiver, w.receiver) /\ e.sender = Written(d.sender, w.sender)
        /\ e.mailMoney = Written(d.mailMoney, w.mailMoney) /\ e.cod = Written(d.cod, w.cod)
        /\ e.checked = Written(d.checked, w.checked)
    BY DEF Stored
  <1> HIDE DEF e
  <1>3. /\ DOMAIN d.money = Players /\ DOMAIN d.bag = Items /\ DOMAIN d.instance = Items
        /\ DOMAIN d.inMail = Items /\ DOMAIN d.receiver = Ids /\ DOMAIN d.sender = Ids
        /\ DOMAIN d.mailMoney = Ids /\ DOMAIN d.cod = Ids /\ DOMAIN d.checked = Ids
    BY TableTypes
  <1>4. \A p \in Players : e.money[p] = IF p \in DOMAIN w.money THEN w.money[p] ELSE d.money[p]
    BY <1>2, <1>3 DEF Written
  <1>5. \A i \in Items :
           /\ e.bag[i] = IF i \in DOMAIN w.bag THEN w.bag[i] ELSE d.bag[i]
           /\ i \in DOMAIN w.instance => (e.instance[i] <=> w.instance[i])
           /\ i \notin DOMAIN w.instance => (e.instance[i] <=> d.instance[i])
           /\ e.inMail[i] = IF i \in DOMAIN w.inMail THEN w.inMail[i] ELSE d.inMail[i]
    BY <1>2, <1>3 DEF Written
  <1>6. \A m \in Ids :
           /\ e.receiver[m] = IF m \in DOMAIN w.receiver THEN w.receiver[m] ELSE d.receiver[m]
           /\ e.sender[m] = IF m \in DOMAIN w.sender THEN w.sender[m] ELSE d.sender[m]
           /\ e.mailMoney[m] = IF m \in DOMAIN w.mailMoney THEN w.mailMoney[m] ELSE d.mailMoney[m]
           /\ e.cod[m] = IF m \in DOMAIN w.cod THEN w.cod[m] ELSE d.cod[m]
           /\ e.checked[m] = IF m \in DOMAIN w.checked THEN w.checked[m] ELSE d.checked[m]
    BY <1>2, <1>3 DEF Written
  <1> QED BY <1>1, <1>4, <1>5, <1>6 DEF e

LEMMA SentIs ==
    ASSUME NEW d \in Tables, NEW m \in Ids, NEW r \in Players, NEW mail \in Mail
    PROVE  LET e == Stored(d, SentRows(m, r, mail))
           IN  /\ e \in Tables
               /\ e.money = d.money /\ e.bag = d.bag /\ e.instance = d.instance
               /\ \A i \in Items : e.inMail[i] = IF i \in mail.items THEN m ELSE d.inMail[i]
               /\ \A n \in Ids : /\ e.receiver[n] = IF n = m THEN r ELSE d.receiver[n]
                                 /\ e.sender[n] = IF n = m THEN mail.sender ELSE d.sender[n]
                                 /\ e.mailMoney[n] = IF n = m THEN mail.money % ColumnSize ELSE d.mailMoney[n]
                                 /\ e.cod[n] = IF n = m THEN mail.cod % ColumnSize ELSE d.cod[n]
  <1> DEFINE w == SentRows(m, r, mail)
             e == Stored(d, w)
  <1>1. w \in Writes
    BY SentType
  <1>2. /\ w.money = NoRow /\ w.bag = NoRow /\ w.instance = NoRow
        /\ w.inMail = [i \in mail.items |-> m]
    BY DEF SentRows, Untouched
  <1>3. /\ w.receiver = Row(m, r) /\ w.sender = Row(m, mail.sender)
        /\ w.mailMoney = Row(m, mail.money % ColumnSize) /\ w.cod = Row(m, mail.cod % ColumnSize)
    BY DEF SentRows, Untouched
  <1> HIDE DEF w
  <1>4. e.money = d.money /\ e.bag = d.bag /\ e.instance = d.instance
    BY <1>2, TableTypes, NothingWritten DEF Stored
  <1>5. e \in Tables /\ \A i \in Items : e.inMail[i] = IF i \in mail.items THEN m ELSE d.inMail[i]
    BY <1>1, <1>2, StoredAt
  <1>6. \A n \in Ids : /\ e.receiver[n] = IF n = m THEN r ELSE d.receiver[n]
                       /\ e.sender[n] = IF n = m THEN mail.sender ELSE d.sender[n]
                       /\ e.mailMoney[n] = IF n = m THEN mail.money % ColumnSize ELSE d.mailMoney[n]
                       /\ e.cod[n] = IF n = m THEN mail.cod % ColumnSize ELSE d.cod[n]
    BY <1>1, <1>3, StoredAt DEF Row
  <1> QED BY <1>4, <1>5, <1>6 DEF w

\* A mail is stored under an id nothing refers to, with items that are nowhere else.
LEMMA SentEffect ==
    ASSUME NEW d \in Tables, NEW m \in Ids, NEW r \in Players, NEW mail \in Mail,
           OnePlace(d), d.receiver[m] = NULL, Attached(d, m) = {},
           \A i \in mail.items : d.instance[i] /\ d.bag[i] = NULL /\ d.inMail[i] \notin Existing(d)
    PROVE  LET e == Stored(d, SentRows(m, r, mail))
           IN  /\ OnePlace(e)
               /\ InTables(r, m, mail, e)
               /\ \A q \in Players : Kept(q, d, e)
  <1> DEFINE e == Stored(d, SentRows(m, r, mail))
  <1>1. /\ e.money = d.money /\ e.bag = d.bag /\ e.instance = d.instance
        /\ \A i \in Items : e.inMail[i] = IF i \in mail.items THEN m ELSE d.inMail[i]
        /\ \A n \in Ids : /\ e.receiver[n] = IF n = m THEN r ELSE d.receiver[n]
                          /\ e.sender[n] = IF n = m THEN mail.sender ELSE d.sender[n]
                          /\ e.mailMoney[n] = IF n = m THEN mail.money % ColumnSize ELSE d.mailMoney[n]
                          /\ e.cod[n] = IF n = m THEN mail.cod % ColumnSize ELSE d.cod[n]
    BY SentIs
  <1> HIDE DEF e
  <1>2. mail.items \subseteq Items
    BY DEF Mail
  <1>3. \A q : InBag(e, q) = InBag(d, q)
    BY <1>1 DEF InBag
  <1>4. Attached(e, m) = mail.items
    BY <1>1, <1>2 DEF Attached
  <1>5. \A n \in Ids : d.receiver[n] # NULL => n # m /\ Attached(e, n) = Attached(d, n)
    BY <1>1 DEF Attached, Existing
  <1>6. OnePlace(e)
    <2> SUFFICES ASSUME NEW i \in Items, e.instance[i], e.bag[i] # NULL
                 PROVE  e.inMail[i] \notin Existing(e)
      BY DEF OnePlace
    <2>1. d.instance[i] /\ d.bag[i] # NULL /\ i \notin mail.items /\ d.inMail[i] \notin Existing(d)
      BY <1>1 DEF OnePlace
    <2>2. e.inMail[i] = d.inMail[i] /\ d.inMail[i] # m
      BY <1>1, <2>1 DEF Attached
    <2> QED BY <1>1, <2>1, <2>2 DEF Existing
  <1>7. InTables(r, m, mail, e)
    BY <1>1, <1>4 DEF InTables
  <1>8. ASSUME NEW q \in Players
        PROVE  Kept(q, d, e)
    <2>1. MailsKept(q, d, e)
      BY <1>1, <1>5, NullIsNoKey DEF MailsKept
    <2> QED BY <1>1, <1>3, <2>1 DEF Kept
  <1> QED BY <1>6, <1>7, <1>8 DEF e

\* The gold alone is stored.
LEMMA GoldIs ==
    ASSUME NEW d \in Tables, NEW p \in Players, NEW pl, pl.gold \in 0..MaxGold
    PROVE  LET e == Stored(d, SaveGold(p, pl))
           IN  /\ e \in Tables
               /\ \A q \in Players : e.money[q] = IF q = p THEN pl.gold ELSE d.money[q]
               /\ e.bag = d.bag /\ e.instance = d.instance /\ e.inMail = d.inMail
               /\ e.receiver = d.receiver /\ e.sender = d.sender
               /\ e.mailMoney = d.mailMoney /\ e.cod = d.cod
  <1> DEFINE w == SaveGold(p, pl)
             e == Stored(d, w)
  <1>1. w \in Writes
    BY GoldType
  <1>2. /\ w.money = Row(p, pl.gold) /\ w.bag = NoRow /\ w.instance = NoRow /\ w.inMail = NoRow
        /\ w.receiver = NoRow /\ w.sender = NoRow /\ w.mailMoney = NoRow /\ w.cod = NoRow
    BY DEF SaveGold, Untouched
  <1> HIDE DEF w
  <1>3. e \in Tables /\ \A q \in Players : e.money[q] = IF q = p THEN pl.gold ELSE d.money[q]
    BY <1>1, <1>2, StoredAt DEF Row
  <1>4. e.bag = d.bag /\ e.instance = d.instance /\ e.inMail = d.inMail
    BY <1>2, TableTypes, NothingWritten DEF Stored
  <1>5. e.receiver = d.receiver /\ e.sender = d.sender /\ e.mailMoney = d.mailMoney /\ e.cod = d.cod
    BY <1>2, TableTypes, NothingWritten DEF Stored
  <1> QED BY <1>3, <1>4, <1>5 DEF w

LEMMA GoldEffect ==
    ASSUME NEW d \in Tables, NEW p \in Players, NEW pl, pl.gold \in 0..MaxGold, OnePlace(d)
    PROVE  LET e == Stored(d, SaveGold(p, pl))
           IN  /\ OnePlace(e) /\ e.money[p] = pl.gold
               /\ \A q \in Players : q # p => Kept(q, d, e)
               /\ \A q : InBag(e, q) = InBag(d, q) /\ MailsKept(q, d, e)
  <1> DEFINE e == Stored(d, SaveGold(p, pl))
  <1>1. /\ \A q \in Players : e.money[q] = IF q = p THEN pl.gold ELSE d.money[q]
        /\ e.bag = d.bag /\ e.instance = d.instance /\ e.inMail = d.inMail
        /\ e.receiver = d.receiver /\ e.sender = d.sender
        /\ e.mailMoney = d.mailMoney /\ e.cod = d.cod
    BY GoldIs
  <1> HIDE DEF e
  <1>2. OnePlace(e)
    BY <1>1 DEF OnePlace, Existing
  <1>3. \A q : InBag(e, q) = InBag(d, q)
    BY <1>1 DEF InBag
  <1>4. \A q : MailsKept(q, d, e)
    BY <1>1 DEF MailsKept, Attached
  <1> QED BY <1>1, <1>2, <1>3, <1>4 DEF Kept, e

\* Tables d with another inventory.
WithBag(d, b) ==
    [ money |-> d.money, bag |-> b, instance |-> d.instance, inMail |-> d.inMail,
      receiver |-> d.receiver, sender |-> d.sender, mailMoney |-> d.mailMoney,
      cod |-> d.cod, checked |-> d.checked ]

Without(d, I) == WithBag(d, [i \in Items |-> IF i \in I THEN NULL ELSE d.bag[i]])

LEMMA WithoutIs ==
    ASSUME NEW d \in Tables, NEW I
    PROVE  LET e == Without(d, I)
           IN  /\ e \in Tables
               /\ e.money = d.money /\ e.instance = d.instance /\ e.inMail = d.inMail
               /\ e.receiver = d.receiver /\ e.sender = d.sender
               /\ e.mailMoney = d.mailMoney /\ e.cod = d.cod
               /\ \A i \in Items : e.bag[i] = IF i \in I THEN NULL ELSE d.bag[i]
               /\ OnePlace(d) => OnePlace(e)
               /\ I = {} => e = d
  <1> DEFINE e == Without(d, I)
  <1>1. d \in Columns /\ Paired(d)
    BY DEF Tables
  <1>2. /\ e.money = d.money /\ e.instance = d.instance /\ e.inMail = d.inMail
        /\ e.receiver = d.receiver /\ e.sender = d.sender
        /\ e.mailMoney = d.mailMoney /\ e.cod = d.cod
        /\ \A i \in Items : e.bag[i] = IF i \in I THEN NULL ELSE d.bag[i]
    BY DEF Without, WithBag
  <1>3. [i \in Items |-> IF i \in I THEN NULL ELSE d.bag[i]] \in [Items -> Players \cup {NULL}]
    BY TableTypes
  <1>4. e \in Columns
    BY <1>1, <1>3 DEF Without, WithBag, Columns
  <1>5. I = {} => e = d
    <2> SUFFICES ASSUME I = {} PROVE e = d
      OBVIOUS
    <2>1. [i \in Items |-> IF i \in I THEN NULL ELSE d.bag[i]] = d.bag
      BY TableTypes
    <2>2. WithBag(d, d.bag) = d
      BY <1>1 DEF WithBag, Columns
    <2> QED BY <2>1, <2>2 DEF Without
  <1> HIDE DEF e
  <1>6. Paired(e)
    BY <1>1, <1>2 DEF Paired
  <1>7. OnePlace(d) => OnePlace(e)
    BY <1>2 DEF OnePlace, Existing
  <1> QED BY <1>2, <1>4, <1>5, <1>6, <1>7 DEF Tables, e

\* One more item leaves.
LEMMA WithoutOneMore ==
    ASSUME NEW d \in Tables, NEW I, NEW i \in Items
    PROVE  Executed(Without(d, I), Transaction(TakenOut(i))) = Without(d, I \cup {i})
  <1> DEFINE w == TakenOut(i)
             c == Without(d, I)
             b == [j \in Items |-> IF j \in I THEN NULL ELSE d.bag[j]]
             e == Stored(c, w)
  <1>1. Executed(c, Transaction(w)) = e
    BY DEF Executed, Transaction
  <1>2. /\ w.money = NoRow /\ w.bag = Row(i, NULL) /\ w.instance = NoRow /\ w.inMail = NoRow
        /\ w.receiver = NoRow /\ w.sender = NoRow /\ w.mailMoney = NoRow /\ w.cod = NoRow
        /\ w.checked = NoRow
    BY DEF TakenOut, Untouched
  <1>3. /\ c.money = d.money /\ c.bag = b /\ c.instance = d.instance /\ c.inMail = d.inMail
        /\ c.receiver = d.receiver /\ c.sender = d.sender
        /\ c.mailMoney = d.mailMoney /\ c.cod = d.cod /\ c.checked = d.checked
    BY DEF Without, WithBag
  <1>4. Written(b, Row(i, NULL)) = [j \in Items |-> IF j \in I \cup {i} THEN NULL ELSE d.bag[j]]
    BY DEF Written, Row
  <1>5. /\ Written(d.money, NoRow) = d.money /\ Written(d.instance, NoRow) = d.instance
        /\ Written(d.inMail, NoRow) = d.inMail /\ Written(d.receiver, NoRow) = d.receiver
        /\ Written(d.sender, NoRow) = d.sender /\ Written(d.mailMoney, NoRow) = d.mailMoney
        /\ Written(d.cod, NoRow) = d.cod
    BY TableTypes, NothingWritten
  <1>6. Written(d.checked, NoRow) = d.checked
    <2>1. d.checked \in [Ids -> {"normal", "payment", "returned"}]
      BY DEF Tables, Columns
    <2> QED BY <2>1, NothingWritten
  <1> HIDE DEF w, c, b
  <1>7. e = Without(d, I \cup {i})
    BY <1>2, <1>3, <1>4, <1>5, <1>6 DEF Stored, Without, WithBag
  <1> QED BY <1>1, <1>7 DEF w, c

\* Sending: the items leave the inventory in some order.
LEMMA ItemsEnumerated ==
    ASSUME NEW I \in SUBSET Items
    PROVE  LET n == Cardinality(I)
               s == SetToSeq(I)
           IN  n \in Nat /\ s \in [1..n -> I] /\ \A i \in I : \E j \in 1..n : s[j] = i
  <1> DEFINE n == Cardinality(I)
             s == SetToSeq(I)
  <1>1. IsFiniteSet(I) /\ n \in Nat
    BY MailAssumption, FS_Subset, FS_CardinalityType
  <1>2. s \in [1..n -> I] /\ IsInjective(s)
    <2>1. ExistsBijection(1..n, I)
      BY <1>1, FS_CardinalityType
    <2>2. \E g \in [1..n -> I] : IsInjective(g)
      BY <2>1 DEF ExistsBijection, Bijection, Injection
    <2> QED BY <2>2 DEF SetToSeq
  <1>3. \A i \in I : \E j \in 1..n : s[j] = i
    <2>1. s \in Injection(1..n, I)
      BY <1>2 DEF Injection
    <2>2. Cardinality(1..n) = n
      BY <1>1, FS_Interval
    <2>3. s \in Surjection(1..n, I)
      BY <1>1, <2>1, <2>2, FS_Injection
    <2> QED BY <2>3 DEF Surjection
  <1> QED BY <1>1, <1>2, <1>3

LEMMA ItemsLeaveType ==
    ASSUME NEW I \in SUBSET Items
    PROVE  LET q == [k \in 1..Cardinality(I) |-> Transaction(TakenOut(SetToSeq(I)[k]))]
           IN  /\ q \in Seq(Request) /\ Len(q) = Cardinality(I)
               /\ \A k \in 1..Len(q) : q[k].op # "query"
  <1> DEFINE n == Cardinality(I)
             s == SetToSeq(I)
             q == [k \in 1..n |-> Transaction(TakenOut(s[k]))]
  <1>1. n \in Nat /\ s \in [1..n -> I]
    BY ItemsEnumerated
  <1> HIDE DEF n, s
  <1>2. \A k \in 1..n : Transaction(TakenOut(s[k])) \in Request
    BY <1>1, TakenOutType DEF Request, Transaction
  <1>3. q \in Seq(Request) /\ Len(q) = n
    BY <1>1, <1>2
  <1>4. \A k \in 1..Len(q) : q[k].op # "query"
    BY <1>3 DEF Transaction
  <1> QED BY <1>3, <1>4 DEF n, s

LEMMA ItemsLeave ==
    ASSUME NEW d \in Tables, OnePlace(d), NEW I \in SUBSET Items
    PROVE  LET q == [k \in 1..Cardinality(I) |-> Transaction(TakenOut(SetToSeq(I)[k]))]
           IN  Leads(d, q, Without(d, I))
  <1> DEFINE n == Cardinality(I)
             s == SetToSeq(I)
             q == [k \in 1..n |-> Transaction(TakenOut(s[k]))]
             f == [k \in 0..n |-> Without(d, {s[j] : j \in 1..k})]
  <1>1. n \in Nat
    BY ItemsEnumerated
  <1>2. s \in [1..n -> I]
    BY ItemsEnumerated
  <1>3. \A i \in I : \E j \in 1..n : s[j] = i
    BY ItemsEnumerated
  <1>4. q \in Seq(Request) /\ Len(q) = n
    BY ItemsLeaveType
  <1> HIDE DEF s, n
  <1>5. /\ Len(q) = n /\ q \in Seq(Request)
        /\ \A k \in 1..n : q[k] = Transaction(TakenOut(s[k]))
    BY <1>4
  <1> HIDE DEF q
  <1>7. f[0] = d
    <2>1. {s[j] : j \in 1..0} = {}
      OBVIOUS
    <2>2. f[0] = Without(d, {})
      BY <1>1, <2>1
    <2> QED BY <2>2, WithoutIs
  <1>8. \A k \in 1..Len(q) : f[k] = Executed(f[k - 1], q[k])
    <2> TAKE k \in 1..Len(q)
    <2>1. k \in 1..n /\ k \in 0..n /\ k - 1 \in 0..n /\ s[k] \in Items
      BY <1>1, <1>2, <1>5
    <2>2. {s[j] : j \in 1..k} = {s[j] : j \in 1..(k - 1)} \cup {s[k]}
      <3>1. 1..k = 1..(k - 1) \cup {k}
        BY <1>1, <2>1
      <3> QED BY <3>1
    <2>3. Executed(Without(d, {s[j] : j \in 1..(k - 1)}), Transaction(TakenOut(s[k])))
            = Without(d, {s[j] : j \in 1..(k - 1)} \cup {s[k]})
      BY <2>1, WithoutOneMore
    <2> QED BY <1>5, <2>1, <2>2, <2>3
  <1>9. \A k \in 0..Len(q) : OnePlace(f[k])
    BY <1>5, WithoutIs
  <1>10. f[n] = Without(d, I)
    <2>1. {s[j] : j \in 1..n} = I
      BY <1>2, <1>3
    <2> QED BY <1>1, <2>1
  <1> HIDE DEF f
  <1>11. \A k \in 0..Len(q) : After(d, q)[k] = f[k]
    BY <1>1, <1>5, <1>7, <1>8, AfterUnique
  <1>12. Leads(d, q, Without(d, I))
    BY <1>1, <1>5, <1>9, <1>10, <1>11 DEF Leads
  <1> QED BY <1>12 DEF q, s, n

LEMMA SaveMailIs ==
    ASSUME NEW pl \in Player
    PROVE  LET s == _SaveMail(pl)
           IN  /\ s \in Player /\ s.gold = pl.gold /\ s.bag = pl.bag
               /\ \A m \in Ids : s.mails[m] # NULL =>
                     /\ pl.mails[m] # NULL /\ m \notin InState(pl, "deleted")
                     /\ s.mails[m].sender = pl.mails[m].sender /\ s.mails[m].items = pl.mails[m].items
                     /\ s.mails[m].money = pl.mails[m].money /\ s.mails[m].cod = pl.mails[m].cod
  <1> DEFINE mails == [m \in Ids |->
                         CASE m \in InState(pl, "deleted") -> NULL
                           [] m \in InState(pl, "changed") -> [pl.mails[m] EXCEPT !.state = "unchanged"]
                           [] OTHER -> pl.mails[m]]
             s == _SaveMail(pl)
  <1>1. s.gold = pl.gold /\ s.bag = pl.bag /\ s.mails = mails /\ (mails \in [Ids -> Mail \cup {NULL}] => s \in Player)
    BY DEF _SaveMail, Player
  <1>2. ASSUME NEW m \in Ids
        PROVE  /\ mails[m] \in Mail \cup {NULL}
               /\ mails[m] # NULL =>
                     /\ pl.mails[m] # NULL /\ m \notin InState(pl, "deleted")
                     /\ mails[m].sender = pl.mails[m].sender /\ mails[m].items = pl.mails[m].items
                     /\ mails[m].money = pl.mails[m].money /\ mails[m].cod = pl.mails[m].cod
    <2>1. pl.mails[m] \in Mail \cup {NULL}
      BY DEF Player
    <2>2. CASE m \in InState(pl, "deleted")
      <3>1. m \notin InState(pl, "changed")
        BY <2>2, InStateType
      <3> QED BY <2>2, <3>1
    <2>3. CASE m \in InState(pl, "changed")
      <3>1. m \notin InState(pl, "deleted") /\ pl.mails[m] \in Mail
        BY <2>3, InStateType
      <3>2. mails[m] = [pl.mails[m] EXCEPT !.state = "unchanged"]
        BY <2>3, <3>1
      <3>3. mails[m] \in Mail
        BY <3>1, <3>2 DEF Mail
      <3> HIDE DEF mails
      <3> QED BY <3>1, <3>2, <3>3, NullIsNoKey DEF Mail
    <2>4. CASE m \notin InState(pl, "deleted") \cup InState(pl, "changed")
      <3>1. mails[m] = pl.mails[m]
        BY <2>4
      <3> HIDE DEF mails
      <3> QED BY <2>1, <2>4, <3>1
    <2> QED BY <2>2, <2>3, <2>4
  <1>3. mails \in [Ids -> Mail \cup {NULL}]
    BY <1>2
  <1> HIDE DEF mails
  <1> QED BY <1>1, <1>2, <1>3

\* Player pl may be stored in tables d: only what is marked as changed differs.
Storable(p, pl, d) ==
    /\ pl.bag = InBag(d, p)
    /\ \A m \in Ids : pl.mails[m] # NULL =>
          /\ d.receiver[m] = p /\ d.sender[m] = pl.mails[m].sender
          /\ Attached(d, m) = pl.mails[m].items
          /\ pl.mails[m].state = "unchanged" =>
                /\ d.mailMoney[m] = pl.mails[m].money % ColumnSize
                /\ d.cod[m] = pl.mails[m].cod % ColumnSize

\* Mail m is the same in tables d and e.
SameMail(m, d, e) ==
    /\ e.receiver[m] = d.receiver[m] /\ e.sender[m] = d.sender[m]
    /\ e.mailMoney[m] = d.mailMoney[m] /\ e.cod[m] = d.cod[m]
    /\ Attached(e, m) = Attached(d, m)

LEMMA SaveEffect ==
    ASSUME NEW d \in Tables, OnePlace(d), NEW p \in Players, NEW pl \in Player, Storable(p, pl, d)
    PROVE  LET e == Stored(d, SaveRows(p, pl))
           IN  /\ e \in Tables /\ OnePlace(e)
               /\ Remembers(p, _SaveMail(pl), e)
               /\ \A q \in Players : q # p => Kept(q, d, e)
               /\ \A m \in Ids : pl.mails[m] = NULL => SameMail(m, d, e)
  <1> DEFINE w == SaveRows(p, pl)
             e == Stored(d, w)
             changed == InState(pl, "changed")
             deleted == InState(pl, "deleted")
             saved == _SaveMail(pl)
             gone == Gone(pl)
  <1>1. /\ w \in Writes /\ w.money = Row(p, pl.gold) /\ w.bag = NoRow
        /\ w.instance = [i \in gone |-> FALSE] /\ w.inMail = [i \in gone |-> NULL]
        /\ w.receiver = [m \in deleted |-> NULL] /\ w.sender = [m \in deleted |-> NULL]
        /\ DOMAIN w.mailMoney = changed \cup deleted /\ DOMAIN w.cod = changed \cup deleted
        /\ \A m \in changed : /\ w.mailMoney[m] = pl.mails[m].money % ColumnSize
                              /\ w.cod[m] = pl.mails[m].cod % ColumnSize
    BY SaveIs, SavedIs
  <1>2. /\ changed \cap deleted = {} /\ changed \subseteq Ids /\ deleted \subseteq Ids
        /\ \A m \in changed \cup deleted : pl.mails[m] # NULL
        /\ gone = UNION {pl.mails[m].items : m \in deleted}
    BY InStateType DEF InState, Gone
  <1> HIDE DEF w, changed, deleted, gone
  <1>3. e.bag = d.bag
    BY <1>1, TableTypes, NothingWritten DEF Stored
  <1>4. /\ e \in Tables
        /\ \A q \in Players : e.money[q] = IF q = p THEN pl.gold ELSE d.money[q]
    BY <1>1, StoredAt DEF Row
  <1>5. \A i \in Items : /\ e.instance[i] <=> d.instance[i] /\ i \notin gone
                         /\ i \notin gone => e.inMail[i] = d.inMail[i]
    <2> TAKE i \in Items
    <2>1. /\ i \in DOMAIN w.instance => (e.instance[i] <=> w.instance[i])
          /\ i \notin DOMAIN w.instance => (e.instance[i] <=> d.instance[i])
      BY <1>1, StoredAt
    <2>3. e.inMail[i] = IF i \in DOMAIN w.inMail THEN w.inMail[i] ELSE d.inMail[i]
      BY <1>1, StoredAt
    <2>2. DOMAIN w.instance = gone /\ DOMAIN w.inMail = gone /\ (i \in gone => ~w.instance[i])
      BY <1>1
    <2> QED BY <2>1, <2>2, <2>3
  <1>6. \A m \in Ids :
           /\ e.receiver[m] = IF m \in deleted THEN NULL ELSE d.receiver[m]
           /\ e.sender[m] = IF m \in deleted THEN NULL ELSE d.sender[m]
    BY <1>1, StoredAt
  <1>7. \A m \in Ids :
           /\ m \in changed => /\ e.mailMoney[m] = pl.mails[m].money % ColumnSize
                              /\ e.cod[m] = pl.mails[m].cod % ColumnSize
           /\ m \notin changed \cup deleted => e.mailMoney[m] = d.mailMoney[m] /\ e.cod[m] = d.cod[m]
    BY <1>1, StoredAt
  <1> HIDE DEF e
  <1>8. \A m \in deleted \cup changed : d.receiver[m] = p
    BY <1>2 DEF Storable
  <1>9. \A i \in Items : i \in gone <=> d.instance[i] /\ d.inMail[i] \in deleted
    <2>1. \A m \in deleted : Attached(d, m) = pl.mails[m].items
      BY <1>2 DEF Storable
    <2> QED BY <1>2, <2>1 DEF Attached
  <1>10. \A i \in Items : i \in gone => d.bag[i] = NULL
    BY <1>2, <1>8, <1>9, NullIsNoKey DEF OnePlace, Existing
  <1>11. OnePlace(e)
    BY <1>3, <1>5, <1>6 DEF OnePlace, Existing
  <1>12. \A q \in Players : InBag(e, q) = InBag(d, q)
    BY <1>3, <1>5, <1>10, NullIsNoKey DEF InBag
  <1>13. \A m \in Ids : m \notin deleted => Attached(e, m) = Attached(d, m)
    BY <1>5, <1>9, NullIsNoKey DEF Attached
  <1>14. ASSUME NEW q \in Players, q # p
         PROVE  Kept(q, d, e)
    <2>1. \A m \in Ids : d.receiver[m] = q => m \notin changed \cup deleted
      BY <1>8, <1>14
    <2>2. MailsKept(q, d, e)
      BY <1>6, <1>7, <1>13, <2>1 DEF MailsKept
    <2> QED BY <1>4, <1>12, <1>14, <2>2 DEF Kept
  <1>15. Remembers(p, saved, e)
    <2>1. saved.gold = e.money[p] /\ saved.bag = InBag(e, p)
      BY <1>4, <1>12, SaveMailIs DEF Storable
    <2>2. ASSUME NEW m \in Ids, saved.mails[m] # NULL
          PROVE  InTables(p, m, saved.mails[m], e)
      <3>1. /\ pl.mails[m] # NULL /\ m \notin deleted
            /\ saved.mails[m].sender = pl.mails[m].sender /\ saved.mails[m].items = pl.mails[m].items
            /\ saved.mails[m].money = pl.mails[m].money /\ saved.mails[m].cod = pl.mails[m].cod
        BY <2>2, SaveMailIs DEF deleted
      <3>2. /\ d.receiver[m] = p /\ d.sender[m] = pl.mails[m].sender
            /\ Attached(d, m) = pl.mails[m].items
            /\ pl.mails[m].state = "unchanged" =>
                  /\ d.mailMoney[m] = pl.mails[m].money % ColumnSize
                  /\ d.cod[m] = pl.mails[m].cod % ColumnSize
        BY <3>1 DEF Storable
      <3>3. m \notin changed => pl.mails[m].state = "unchanged"
        BY <3>1 DEF InState, changed, deleted, Player, Mail
      <3>4. e.mailMoney[m] = pl.mails[m].money % ColumnSize /\ e.cod[m] = pl.mails[m].cod % ColumnSize
        BY <1>7, <3>1, <3>2, <3>3
      <3> HIDE DEF saved
      <3> QED BY <1>6, <1>13, <3>1, <3>2, <3>4 DEF InTables
    <2> HIDE DEF saved
    <2> QED BY <2>1, <2>2 DEF Remembers
  <1>16. \A m \in Ids : pl.mails[m] = NULL => SameMail(m, d, e)
    <2>1. \A m \in Ids : pl.mails[m] = NULL => m \notin changed \cup deleted
      BY <1>2
    <2> QED BY <1>6, <1>7, <1>13, <2>1 DEF SameMail
  <1> QED BY <1>4, <1>11, <1>14, <1>15, <1>16 DEF e, w

\* Two tables with the same rows are the same.
LEMMA SameTables ==
    ASSUME NEW d \in Tables, NEW e \in Tables,
           \A p \in Players : d.money[p] = e.money[p],
           \A i \in Items : d.bag[i] = e.bag[i] /\ (d.instance[i] <=> e.instance[i]) /\ d.inMail[i] = e.inMail[i],
           \A m \in Ids : /\ d.receiver[m] = e.receiver[m] /\ d.sender[m] = e.sender[m]
                          /\ d.mailMoney[m] = e.mailMoney[m] /\ d.cod[m] = e.cod[m]
                          /\ d.checked[m] = e.checked[m]
    PROVE  d = e
  <1>1. d.money = e.money
    BY TableTypes
  <1>2. d.bag = e.bag
    BY TableTypes
  <1>3. d.instance = e.instance
    BY TableTypes
  <1>4. d.inMail = e.inMail
    BY TableTypes
  <1>5. d.receiver = e.receiver
    BY TableTypes
  <1>6. d.sender = e.sender
    BY TableTypes
  <1>7. d.mailMoney = e.mailMoney
    BY TableTypes
  <1>8. d.cod = e.cod
    BY TableTypes
  <1>9. d.checked = e.checked
    BY TableTypes
  <1> QED BY <1>1, <1>2, <1>3, <1>4, <1>5, <1>6, <1>7, <1>8, <1>9 DEF Tables, Columns

\* An item that goes from a mail to the inventory of p.
Moved(i, p) ==
    [Untouched EXCEPT !.bag = Row(i, p), !.instance = Row(i, TRUE), !.inMail = Row(i, NULL)]

LEMMA MovedIs ==
    ASSUME NEW d \in Tables, NEW p \in Players, NEW i \in Items
    PROVE  LET e == Stored(d, Moved(i, p))
           IN  /\ e \in Tables
               /\ \A j \in Items : /\ e.bag[j] = IF j = i THEN p ELSE d.bag[j]
                                   /\ e.instance[j] <=> j = i \/ d.instance[j]
                                   /\ e.inMail[j] = IF j = i THEN NULL ELSE d.inMail[j]
               /\ e.money = d.money /\ e.receiver = d.receiver /\ e.sender = d.sender
               /\ e.mailMoney = d.mailMoney /\ e.cod = d.cod /\ e.checked = d.checked
  <1> DEFINE w == Moved(i, p)
             e == Stored(d, w)
  <1>1. /\ w.money = NoRow /\ w.bag = Row(i, p) /\ w.instance = Row(i, TRUE) /\ w.inMail = Row(i, NULL)
        /\ w.receiver = NoRow /\ w.sender = NoRow /\ w.mailMoney = NoRow /\ w.cod = NoRow
        /\ w.checked = NoRow
    BY DEF Moved, Untouched
  <1>2. /\ Row(i, p) \in Rows(Items, Players \cup {NULL}) /\ Row(i, TRUE) \in Rows(Items, BOOLEAN)
        /\ Row(i, NULL) \in Rows(Items, Ids \cup {NULL})
    BY RowType
  <1>3. w \in WriteColumns
    BY <1>2, NoRowType DEF Moved, Untouched, WriteColumns
  <1>4. Paired(w) /\ DOMAIN w.instance = {i} /\ DOMAIN w.inMail = {i}
    BY <1>1 DEF Paired, NoRow, Row
  <1>5. w \in Writes
    BY <1>3, <1>4 DEF Writes
  <1> HIDE DEF w
  <1>6. e \in Tables
    BY <1>5, StoredAt
  <1>7. ASSUME NEW j \in Items
        PROVE  /\ e.bag[j] = IF j = i THEN p ELSE d.bag[j]
               /\ e.instance[j] <=> j = i \/ d.instance[j]
               /\ e.inMail[j] = IF j = i THEN NULL ELSE d.inMail[j]
    BY <1>1, <1>5, StoredAt DEF Row
  <1>8. d.checked \in [Ids -> {"normal", "payment", "returned"}]
    BY TableTypes
  <1>9. /\ e.money = d.money /\ e.receiver = d.receiver /\ e.sender = d.sender
        /\ e.mailMoney = d.mailMoney /\ e.cod = d.cod /\ e.checked = d.checked
    BY <1>1, <1>8, TableTypes, NothingWritten DEF Stored
  <1> QED BY <1>6, <1>7, <1>9 DEF w

LEMMA MovedEffect ==
    ASSUME NEW d \in Tables, OnePlace(d), NEW p \in Players, NEW m \in Ids, d.receiver[m] = p,
           NEW i \in Attached(d, m)
    PROVE  LET e == Stored(d, Moved(i, p))
           IN  /\ OnePlace(e)
               /\ \A q \in Players : q # p => Kept(q, d, e)
               /\ InBag(e, p) = InBag(d, p) \cup {i}
               /\ \A n \in Ids : Attached(e, n) = Attached(d, n) \ {i}
  <1> DEFINE e == Stored(d, Moved(i, p))
  <1>1. i \in Items /\ d.instance[i] /\ d.inMail[i] = m /\ d.bag[i] = NULL
    BY NullIsNoKey DEF Attached, OnePlace, Existing
  <1>2a. \A j \in Items : e.bag[j] = IF j = i THEN p ELSE d.bag[j]
    BY <1>1, MovedIs
  <1>2b. \A j \in Items : e.instance[j] <=> j = i \/ d.instance[j]
    BY <1>1, MovedIs
  <1>2c. \A j \in Items : e.inMail[j] = IF j = i THEN NULL ELSE d.inMail[j]
    BY <1>1, MovedIs
  <1>2. /\ e.money = d.money /\ e.receiver = d.receiver /\ e.sender = d.sender
        /\ e.mailMoney = d.mailMoney /\ e.cod = d.cod
    BY <1>1, MovedIs
  <1> HIDE DEF e
  <1>3. OnePlace(e)
    BY <1>2a, <1>2b, <1>2c, <1>2, NullIsNoKey DEF OnePlace, Existing
  <1>4. \A q \in Players : q # p => InBag(e, q) = InBag(d, q)
    BY <1>1, <1>2a, <1>2b, <1>2c, <1>2, NullIsNoKey DEF InBag
  <1>5. InBag(e, p) = InBag(d, p) \cup {i}
    BY <1>1, <1>2a, <1>2b, <1>2 DEF InBag
  <1>6. \A n \in Ids : Attached(e, n) = Attached(d, n) \ {i}
    BY <1>1, <1>2a, <1>2b, <1>2c, <1>2, NullIsNoKey DEF Attached
  <1>7. \A q \in Players : q # p => MailsKept(q, d, e)
    <2>1. \A n \in Ids : n # m => Attached(e, n) = Attached(d, n)
      BY <1>1, <1>6 DEF Attached
    <2> QED BY <1>2, <2>1 DEF MailsKept
  <1> QED BY <1>2, <1>3, <1>4, <1>5, <1>6, <1>7 DEF Kept, e

\* Taking an item is to move it and to save.
LEMMA TakenIsMovedAndSaved ==
    ASSUME NEW d \in Tables, NEW p \in Players, NEW pl \in Player, NEW i \in Items, i \notin Gone(pl)
    PROVE  Stored(d, TakenRows(p, pl, i)) = Stored(Stored(d, Moved(i, p)), SaveRows(p, pl))
  <1> DEFINE t == TakenRows(p, pl, i)
             w == SaveRows(p, pl)
             f == Stored(d, Moved(i, p))
             e == Stored(d, t)
             g == Stored(f, w)
  <1>1. /\ w \in Writes /\ w.bag = NoRow
        /\ DOMAIN w.instance = Gone(pl) /\ DOMAIN w.inMail = Gone(pl)
        /\ \A j \in Gone(pl) : ~w.instance[j]
    <2> DEFINE sd == SavedRows(pl)
    <2>1. /\ w \in Writes /\ w.bag = NoRow /\ w.instance = sd.instance /\ w.inMail = sd.inMail
      BY SaveIs
    <2>2. sd.instance = [j \in Gone(pl) |-> FALSE] /\ sd.inMail = [j \in Gone(pl) |-> NULL]
      BY SavedIs
    <2> HIDE DEF w, sd
    <2> QED BY <2>1, <2>2
  <1>2. /\ t \in Writes /\ t.money = w.money /\ t.bag = Row(i, p)
        /\ t.instance = WithRow(w.instance, i, TRUE) /\ t.inMail = WithRow(w.inMail, i, NULL)
        /\ t.receiver = w.receiver /\ t.sender = w.sender
        /\ t.mailMoney = w.mailMoney /\ t.cod = w.cod /\ t.checked = w.checked
    BY TakenIs
  <1> HIDE DEF t, w
  <1>3. /\ f \in Tables
        /\ \A j \in Items : /\ f.bag[j] = IF j = i THEN p ELSE d.bag[j]
                            /\ f.instance[j] <=> j = i \/ d.instance[j]
                            /\ f.inMail[j] = IF j = i THEN NULL ELSE d.inMail[j]
        /\ f.money = d.money /\ f.receiver = d.receiver /\ f.sender = d.sender
        /\ f.mailMoney = d.mailMoney /\ f.cod = d.cod /\ f.checked = d.checked
    BY MovedIs
  <1> HIDE DEF f
  <1>4. e \in Tables /\ g \in Tables
    BY <1>1, <1>2, <1>3, StoredAt
  <1>5. \A q \in Players : e.money[q] = g.money[q]
    BY <1>1, <1>2, <1>3, StoredAt
  <1>6. ASSUME NEW j \in Items
        PROVE  e.bag[j] = g.bag[j] /\ (e.instance[j] <=> g.instance[j]) /\ e.inMail[j] = g.inMail[j]
    <2>1. e.bag[j] = g.bag[j]
      <3>1. e.bag[j] = IF j = i THEN p ELSE d.bag[j]
        BY <1>2, StoredAt DEF Row
      <3>2. g.bag[j] = f.bag[j]
        BY <1>1, <1>3, StoredAt DEF NoRow
      <3> QED BY <1>3, <3>1, <3>2
    <2>2. /\ j \in DOMAIN t.instance <=> j = i \/ j \in Gone(pl)
          /\ j \in DOMAIN t.inMail <=> j = i \/ j \in Gone(pl)
          /\ j = i => t.instance[j] /\ t.inMail[j] = NULL
          /\ j # i /\ j \in Gone(pl) => ~t.instance[j] /\ t.inMail[j] = w.inMail[j]
      BY <1>1, <1>2 DEF WithRow
    <2>3. /\ j \in DOMAIN t.instance => (e.instance[j] <=> t.instance[j])
          /\ j \notin DOMAIN t.instance => (e.instance[j] <=> d.instance[j])
          /\ e.inMail[j] = IF j \in DOMAIN t.inMail THEN t.inMail[j] ELSE d.inMail[j]
      BY <1>2, StoredAt
    <2>4. /\ j \in DOMAIN w.instance => (g.instance[j] <=> w.instance[j])
          /\ j \notin DOMAIN w.instance => (g.instance[j] <=> f.instance[j])
          /\ g.inMail[j] = IF j \in DOMAIN w.inMail THEN w.inMail[j] ELSE f.inMail[j]
      BY <1>1, <1>3, StoredAt
    <2> HIDE DEF e, g
    <2>5. e.instance[j] <=> g.instance[j]
      BY <1>1, <1>3, <2>2, <2>3, <2>4
    <2>6. e.inMail[j] = g.inMail[j]
      BY <1>1, <1>3, <2>2, <2>3, <2>4
    <2> QED BY <2>1, <2>5, <2>6
  <1>7. \A m \in Ids : /\ e.receiver[m] = g.receiver[m] /\ e.sender[m] = g.sender[m]
                       /\ e.mailMoney[m] = g.mailMoney[m] /\ e.cod[m] = g.cod[m]
                       /\ e.checked[m] = g.checked[m]
    BY <1>1, <1>2, <1>3, StoredAt
  <1> HIDE DEF e, g
  <1>8. e = g
    BY <1>4, <1>5, <1>6, <1>7, SameTables
  <1> QED BY <1>8 DEF e, g, f, t, w

\* A mail and the rows of its items are deleted; the items are still there.
LEMMA DeletedIs ==
    ASSUME NEW d \in Tables, NEW M \in SUBSET Ids, NEW I \in SUBSET Items
    PROVE  LET e == Stored(d, DeletedRows(M, I))
           IN  /\ e \in Tables
               /\ e.money = d.money /\ e.bag = d.bag /\ e.instance = d.instance
               /\ \A i \in Items : e.inMail[i] = IF i \in I THEN NULL ELSE d.inMail[i]
               /\ \A m \in Ids : /\ e.receiver[m] = IF m \in M THEN NULL ELSE d.receiver[m]
                                 /\ e.sender[m] = IF m \in M THEN NULL ELSE d.sender[m]
                                 /\ e.mailMoney[m] = IF m \in M THEN 0 ELSE d.mailMoney[m]
                                 /\ e.cod[m] = IF m \in M THEN 0 ELSE d.cod[m]
  <1> DEFINE w == DeletedRows(M, I)
             e == Stored(d, w)
  <1>1. w \in Writes
    BY DeletedType
  <1>2. /\ w.money = NoRow /\ w.bag = NoRow /\ w.instance = NoRow
        /\ w.inMail = [i \in I |-> NULL]
    BY DEF DeletedRows, Untouched
  <1>3. /\ w.receiver = [m \in M |-> NULL] /\ w.sender = [m \in M |-> NULL]
        /\ w.mailMoney = [m \in M |-> 0] /\ w.cod = [m \in M |-> 0]
    BY DEF DeletedRows, Untouched
  <1> HIDE DEF w
  <1>4. e.money = d.money /\ e.bag = d.bag /\ e.instance = d.instance
    BY <1>2, TableTypes, NothingWritten DEF Stored
  <1>5. e \in Tables /\ \A i \in Items : e.inMail[i] = IF i \in I THEN NULL ELSE d.inMail[i]
    BY <1>1, <1>2, StoredAt
  <1>6. \A m \in Ids : /\ e.receiver[m] = IF m \in M THEN NULL ELSE d.receiver[m]
                       /\ e.sender[m] = IF m \in M THEN NULL ELSE d.sender[m]
                       /\ e.mailMoney[m] = IF m \in M THEN 0 ELSE d.mailMoney[m]
                       /\ e.cod[m] = IF m \in M THEN 0 ELSE d.cod[m]
    BY <1>1, <1>3, StoredAt
  <1> QED BY <1>4, <1>5, <1>6 DEF w

LEMMA DeletedEffect ==
    ASSUME NEW d \in Tables, OnePlace(d), NEW M \in SUBSET Ids, NEW I \in SUBSET Items,
           \A i \in I : d.instance[i] => d.inMail[i] \in M
    PROVE  LET e == Stored(d, DeletedRows(M, I))
           IN  /\ OnePlace(e)
               /\ \A q \in Players : (\A m \in M : d.receiver[m] # q) => Kept(q, d, e)
               /\ \A q : InBag(e, q) = InBag(d, q)
               /\ e.money = d.money /\ e.bag = d.bag /\ e.instance = d.instance
               /\ \A i \in I : e.inMail[i] = NULL
               /\ \A m \in Ids : m \notin M =>
                     /\ e.receiver[m] = d.receiver[m] /\ e.sender[m] = d.sender[m]
                     /\ e.mailMoney[m] = d.mailMoney[m] /\ e.cod[m] = d.cod[m]
                     /\ Attached(e, m) = Attached(d, m)
  <1> DEFINE e == Stored(d, DeletedRows(M, I))
  <1>1. /\ e.money = d.money /\ e.bag = d.bag /\ e.instance = d.instance
        /\ \A i \in Items : e.inMail[i] = IF i \in I THEN NULL ELSE d.inMail[i]
        /\ \A m \in Ids : /\ e.receiver[m] = IF m \in M THEN NULL ELSE d.receiver[m]
                          /\ m \notin M => /\ e.sender[m] = d.sender[m]
                                          /\ e.mailMoney[m] = d.mailMoney[m]
                                          /\ e.cod[m] = d.cod[m]
    <2>0. M \in SUBSET Ids /\ I \in SUBSET Items
      OBVIOUS
    <2>1. e.money = d.money /\ e.bag = d.bag /\ e.instance = d.instance
      <3>1. e.money = d.money
        BY <2>0, DeletedIs
      <3>2. e.bag = d.bag
        BY <2>0, DeletedIs
      <3>3. e.instance = d.instance
        BY <2>0, DeletedIs
      <3> QED BY <3>1, <3>2, <3>3
    <2>2. \A i \in Items : e.inMail[i] = IF i \in I THEN NULL ELSE d.inMail[i]
      BY DeletedIs
    <2>3. \A m \in Ids : /\ e.receiver[m] = IF m \in M THEN NULL ELSE d.receiver[m]
                         /\ e.sender[m] = IF m \in M THEN NULL ELSE d.sender[m]
                         /\ e.mailMoney[m] = IF m \in M THEN 0 ELSE d.mailMoney[m]
                         /\ e.cod[m] = IF m \in M THEN 0 ELSE d.cod[m]
      BY DeletedIs
    <2> HIDE DEF e
    <2> QED BY <2>1, <2>2, <2>3
  <1> HIDE DEF e
  <1>2. OnePlace(e)
    BY <1>1, NullIsNoKey DEF OnePlace, Existing
  <1>3. \A q : InBag(e, q) = InBag(d, q)
    BY <1>1 DEF InBag
  <1>4. \A m \in Ids : m \notin M => Attached(e, m) = Attached(d, m)
    BY <1>1, NullIsNoKey DEF Attached
  <1>5. ASSUME NEW q \in Players, \A m \in M : d.receiver[m] # q
        PROVE  Kept(q, d, e)
    <2>1. MailsKept(q, d, e)
      BY <1>1, <1>4, <1>5 DEF MailsKept
    <2> QED BY <1>1, <1>3, <2>1 DEF Kept
  <1> QED BY <1>1, <1>2, <1>3, <1>4, <1>5 DEF e

(***************************************************************************)
(* Old mails.                                                              *)
(***************************************************************************)
LEMMA ReturnedEffect ==
    ASSUME db \in Tables, OnePlace(db), NEW M \in SUBSET Existing(db)
    PROVE  LET e == Stored(db, ReturnedRows(M))
           IN  /\ e \in Tables /\ OnePlace(e)
               /\ e.bag = db.bag /\ e.instance = db.instance /\ e.inMail = db.inMail
               /\ \A n \in Ids : e.receiver[n] = IF n \in M THEN db.sender[n] ELSE db.receiver[n]
               /\ \A q \in Players : (\A n \in M : db.receiver[n] # q) => Kept(q, db, e)
  <1> DEFINE w == ReturnedRows(M)
             e == Stored(db, w)
  <1>1. w \in Writes
    BY ReturnedType
  <1>2. /\ w.money = NoRow /\ w.bag = NoRow /\ w.instance = NoRow /\ w.inMail = NoRow
        /\ w.mailMoney = NoRow /\ w.receiver = [n \in M |-> db.sender[n]]
    BY DEF ReturnedRows, Untouched
  <1>3. w.sender = [n \in M |-> db.receiver[n]] /\ w.cod = [n \in M |-> 0]
    BY DEF ReturnedRows, Untouched
  <1> HIDE DEF w
  <1>4. e.money = db.money /\ e.bag = db.bag /\ e.instance = db.instance
    BY <1>2, TableTypes, NothingWritten DEF Stored
  <1>5. e.inMail = db.inMail /\ e.mailMoney = db.mailMoney
    BY <1>2, TableTypes, NothingWritten DEF Stored
  <1>6. e \in Tables
    BY <1>1, StoredAt
  <1>7. \A n \in Ids : e.receiver[n] = IF n \in M THEN db.sender[n] ELSE db.receiver[n]
    BY <1>1, <1>2, StoredAt
  <1>8. \A n \in Ids : n \notin M => e.sender[n] = db.sender[n] /\ e.cod[n] = db.cod[n]
    BY <1>1, <1>3, StoredAt
  <1> HIDE DEF e
  <1>9. OnePlace(e)
    BY <1>4, <1>5, <1>7, TableTypes DEF OnePlace, Existing
  <1>10. ASSUME NEW q \in Players, \A n \in M : db.receiver[n] # q
         PROVE  Kept(q, db, e)
    BY <1>4, <1>5, <1>7, <1>8, <1>10 DEF Kept, MailsKept, InBag, Attached
  <1> QED BY <1>4, <1>5, <1>6, <1>7, <1>9, <1>10 DEF e, w

\* The items of the mails M, as the tables db tell, are destroyed in tables d.
LEMMA DestroyedEffect ==
    ASSUME db \in Tables, NEW M \in SUBSET Ids, NEW d \in Tables, OnePlace(d),
           d.instance = db.instance, d.inMail = db.inMail, \A m \in M : d.receiver[m] # NULL
    PROVE  LET e == Stored(d, DestroyedRows(M))
           IN  /\ e \in Tables /\ OnePlace(e)
               /\ e.receiver = d.receiver
               /\ \A q \in Players : (\A m \in M : d.receiver[m] # q) => Kept(q, d, e)
  <1> DEFINE w == DestroyedRows(M)
             e == Stored(d, w)
             I == UNION {Attached(db, m) : m \in M}
  <1>1. w \in Writes
    BY DestroyedType
  <1>2. /\ w.money = NoRow /\ w.bag = NoRow /\ w.inMail = NoRow /\ w.receiver = NoRow
        /\ w.sender = NoRow /\ w.mailMoney = NoRow /\ w.cod = NoRow
        /\ w.instance = [i \in I |-> FALSE]
    BY DEF DestroyedRows, Untouched
  <1> HIDE DEF w
  <1>3. /\ e.money = d.money /\ e.bag = d.bag /\ e.inMail = d.inMail
    BY <1>2, TableTypes, NothingWritten DEF Stored
  <1>4. e.receiver = d.receiver /\ e.sender = d.sender /\ e.mailMoney = d.mailMoney /\ e.cod = d.cod
    BY <1>2, TableTypes, NothingWritten DEF Stored
  <1>5. e \in Tables
    BY <1>1, StoredAt
  <1>6. \A i \in Items : i \in I <=> d.instance[i] /\ d.inMail[i] \in M
    BY DEF Attached
  <1>7. \A i \in Items : e.instance[i] <=> d.instance[i] /\ d.inMail[i] \notin M
    <2> TAKE i \in Items
    <2>1. /\ i \in DOMAIN w.instance => (e.instance[i] <=> w.instance[i])
          /\ i \notin DOMAIN w.instance => (e.instance[i] <=> d.instance[i])
      BY <1>1, StoredAt
    <2>2. DOMAIN w.instance = I /\ (i \in I => ~w.instance[i])
      BY <1>2
    <2> HIDE DEF I, e
    <2> QED BY <1>6, <2>1, <2>2
  <1> HIDE DEF e, I
  <1>8. OnePlace(e)
    BY <1>3, <1>4, <1>7 DEF OnePlace, Existing
  <1>9. \A i \in Items : d.instance[i] /\ d.inMail[i] \in M => d.bag[i] = NULL
    BY DEF OnePlace, Existing
  <1>10. \A q \in Players : InBag(e, q) = InBag(d, q)
    BY <1>3, <1>7, <1>9, NullIsNoKey DEF InBag
  <1>11. \A m \in Ids : m \notin M => Attached(e, m) = Attached(d, m)
    BY <1>3, <1>7 DEF Attached
  <1>12. ASSUME NEW q \in Players, \A m \in M : d.receiver[m] # q
         PROVE  Kept(q, d, e)
    <2>1. MailsKept(q, d, e)
      BY <1>4, <1>11, <1>12 DEF MailsKept
    <2> QED BY <1>3, <1>10, <2>1 DEF Kept
  <1> QED BY <1>4, <1>5, <1>8, <1>12 DEF e, w

\* GenerateMailID: nothing in the tables refers to the id, nor will it once the
\* requests are executed.
LEMMA IdIsNew ==
    ASSUME db \in Tables, delay \in Seq(Request), NEW m \in GenerateMailID,
           Leads(db, delay, settled)
    PROVE  m \in Ids /\ settled.receiver[m] = NULL /\ Attached(settled, m) = {}
  <1> DEFINE n == Len(delay)
             g == After(db, delay)
             Free(d) == d.receiver[m] = NULL /\ \A i \in Items : ~(d.instance[i] /\ d.inMail[i] = m)
             P == {k \in 0..n : Free(g[k])}
  <1>1. /\ n \in Nat /\ g[0] = db
        /\ \A k \in 1..n : g[k] = Executed(g[k - 1], delay[k])
        /\ \A k \in 1..n : delay[k] \in Request
    BY AfterStep
  <1>2. \A k \in 0..n : g[k] \in Tables
    BY AfterType
  <1>3. settled = g[n]
    BY DEF Leads
  <1>4. m \in Ids /\ Free(db)
    BY DEF GenerateMailID, Attached
  <1>5. \A k \in 1..n : delay[k].op = "transaction" =>
           /\ m \notin DOMAIN delay[k].writes.receiver
           /\ \A i \in DOMAIN delay[k].writes.inMail : delay[k].writes.inMail[i] # m
    BY DEF GenerateMailID
  <1> HIDE DEF n, g
  <1>6. 0 \in P
    BY <1>1, <1>4
  <1>7. ASSUME NEW k \in 0..n, k < n, k \in P
        PROVE  k + 1 \in P
    <2> DEFINE r == delay[k + 1]
               w == r.writes
               d == g[k]
               e == g[k + 1]
    <2>1. k + 1 \in 1..n /\ (k + 1) - 1 = k
      BY <1>1, <1>7
    <2>2. e = Executed(d, r) /\ r \in Request /\ d \in Tables /\ Free(d)
      BY <1>1, <1>2, <1>7, <2>1
    <2>3. r.op = "transaction" =>
             /\ m \notin DOMAIN w.receiver
             /\ \A i \in DOMAIN w.inMail : w.inMail[i] # m
      BY <1>5, <2>1
    <2> HIDE DEF r, d, e
    <2>4. CASE r.op # "transaction"
      BY <2>1, <2>2, <2>4 DEF Executed, e
    <2>5. CASE r.op = "transaction"
      <3>1. e = Stored(d, w) /\ w \in Writes
        BY <2>2, <2>5 DEF Executed, Request
      <3> HIDE DEF w
      <3>2. e.receiver[m] = NULL
        BY <1>4, <2>2, <2>3, <2>5, <3>1, StoredAt
      <3>3. ASSUME NEW i \in Items, e.instance[i], e.inMail[i] = m
            PROVE  FALSE
        <4>1. /\ i \in DOMAIN w.instance => (e.instance[i] <=> w.instance[i])
              /\ i \notin DOMAIN w.instance => (e.instance[i] <=> d.instance[i])
          BY <2>2, <3>1, StoredAt
        <4>2. e.inMail[i] = IF i \in DOMAIN w.inMail THEN w.inMail[i] ELSE d.inMail[i]
          BY <2>2, <3>1, StoredAt
        <4>3. i \in DOMAIN w.instance /\ w.instance[i] => i \in DOMAIN w.inMail
          BY <3>1 DEF Writes
        <4>4. i \notin DOMAIN w.inMail
          BY <2>3, <2>5, <3>3, <4>2
        <4> QED BY <2>2, <3>3, <4>1, <4>2, <4>3, <4>4
      <3> QED BY <2>1, <3>2, <3>3 DEF e
    <2> QED BY <2>4, <2>5
  <1>8. \A k \in 0..n : k \in P
    <2> HIDE DEF P
    <2> QED BY <1>1, <1>6, <1>7, SegmentInduction
  <1>9. Free(settled)
    BY <1>1, <1>3, <1>8
  <1> QED BY <1>4, <1>9 DEF Attached

(***************************************************************************)
(* What the actions have in common.                                        *)
(***************************************************************************)
LEMMA TransactionIs ==
    ASSUME NEW w \in Writes
    PROVE  /\ Transaction(w) \in Request /\ Transaction(w).op # "query"
           /\ \A d : Executed(d, Transaction(w)) = Stored(d, w)
  BY DEF Transaction, Request, Executed

\* One transaction, and two.
LEMMA LeadsOne ==
    ASSUME NEW d, NEW w \in Writes, OnePlace(d), OnePlace(Stored(d, w))
    PROVE  LET q == <<Transaction(w)>>
           IN  /\ q \in Seq(Request) /\ \A k \in 1..Len(q) : q[k].op # "query"
               /\ Leads(d, q, Stored(d, w))
  <1> DEFINE r == Transaction(w)
             q == <<r>>
  <1>1. r \in Request /\ r.op # "query" /\ Executed(d, r) = Stored(d, w)
    BY TransactionIs
  <1> HIDE DEF r
  <1>2. q \in Seq(Request) /\ Len(q) = 1 /\ q[1] = r
    BY <1>1
  <1>3. After(d, q)[0] = d /\ After(d, q)[1] = Stored(d, w)
    BY <1>1, AfterFew
  <1> HIDE DEF q
  <1>4. Leads(d, q, Stored(d, w))
    BY <1>2, <1>3 DEF Leads
  <1> QED BY <1>1, <1>2, <1>4 DEF q, r

LEMMA LeadsTwo ==
    ASSUME NEW d, NEW v \in Writes, NEW w \in Writes, OnePlace(d), OnePlace(Stored(d, v)),
           OnePlace(Stored(Stored(d, v), w))
    PROVE  LET q == <<Transaction(v), Transaction(w)>>
           IN  /\ q \in Seq(Request) /\ \A k \in 1..Len(q) : q[k].op # "query"
               /\ Leads(d, q, Stored(Stored(d, v), w))
  <1> DEFINE r == Transaction(v)
             s == Transaction(w)
             q == <<r, s>>
  <1>1. /\ r \in Request /\ r.op # "query" /\ Executed(d, r) = Stored(d, v)
        /\ s \in Request /\ s.op # "query"
        /\ Executed(Stored(d, v), s) = Stored(Stored(d, v), w)
    BY TransactionIs
  <1> HIDE DEF r, s
  <1>2. q \in Seq(Request) /\ Len(q) = 2 /\ q[1] = r /\ q[2] = s
    BY <1>1
  <1>3. /\ After(d, q)[0] = d /\ After(d, q)[1] = Stored(d, v)
        /\ After(d, q)[2] = Stored(Stored(d, v), w)
    <2>1. /\ After(d, q)[0] = d /\ After(d, q)[1] = Executed(d, q[1])
          /\ After(d, q)[2] = Executed(Executed(d, q[1]), q[2])
      BY <1>2, AfterTwo
    <2>2. Executed(Executed(d, r), s) = Stored(Stored(d, v), w)
      BY <1>1
    <2>3. Executed(d, r) = Stored(d, v)
      BY <1>1
    <2> HIDE DEF q
    <2> QED BY <1>2, <2>1, <2>2, <2>3
  <1> HIDE DEF q
  <1>4. Leads(d, q, Stored(Stored(d, v), w))
    BY <1>2, <1>3 DEF Leads
  <1>5. \A k \in 1..Len(q) : q[k].op # "query"
    BY <1>1, <1>2
  <1> QED BY <1>2, <1>4, <1>5 DEF q, r, s

LEMMA QueuedType ==
    ASSUME TypeOK, NEW q \in Seq(Request), Queued(q), db' = db
    PROVE  delay' \in Seq(Request) /\ db' \in Tables /\ settled' \in Tables
  <1>1. Len(q) \in 0..Len(q)
    BY LenProperties
  <1>2. settled' \in Tables
    BY <1>1, AfterType DEF TypeOK, Queued
  <1>3. delay' \in Seq(Request)
    BY ConcatProperties DEF TypeOK, Queued
  <1> QED BY <1>2, <1>3 DEF TypeOK

\* Transactions that keep what every player waits for.
LEMMA QueuedInv ==
    ASSUME TypeOK, Leads(db, delay, settled), Loads(status, db, delay, settled),
           NEW q \in Seq(Request), Queued(q), db' = db,
           NEW e, Leads(settled, q, e), \A k \in 1..Len(q) : q[k].op # "query",
           \A p \in Players : status[p] = "asked" => status'[p] = "asked" /\ Kept(p, settled, e)
    PROVE  settled' = e /\ Leads(db', delay', settled') /\ Loads(status', db', delay', settled')
  <1>1. settled' = e /\ delay' = delay \o q
    BY DEF Queued, Leads
  <1>2. delay \in Seq(Request)
    BY DEF TypeOK
  <1>3. Leads(db, delay \o q, e)
    BY <1>2, LeadsConcat
  <1>4. Loads(status', db, delay \o q, e)
    BY <1>2, LoadsConcat
  <1> QED BY <1>1, <1>3, <1>4

\* The one who acts remembers what he stored, the others what they had.
LEMMA MemoryOfAll ==
    ASSUME NEW players \in [Players -> Player \cup {NULL}], NEW d, NEW e, Memory(players, d),
           NEW p \in Players, NEW pl, Remembers(p, pl, e),
           \A q \in Players : q # p => Kept(q, d, e)
    PROVE  Memory([players EXCEPT ![p] = pl], e)
  <1> SUFFICES ASSUME NEW q \in Players, [players EXCEPT ![p] = pl][q] # NULL
               PROVE  Remembers(q, [players EXCEPT ![p] = pl][q], e)
    BY DEF Memory
  <1>1. CASE q = p
    BY <1>1
  <1>2. CASE q # p
    <2>1. [players EXCEPT ![p] = pl][q] = players[q] /\ players[q] # NULL
      BY <1>2
    <2>2. players[q] \in Player /\ Remembers(q, players[q], d) /\ Kept(q, d, e)
      BY <1>2, <2>1 DEF Memory
    <2> QED BY <2>1, <2>2, RememberedIsKept
  <1> QED BY <1>1, <1>2

\* SendMailTo gives the receiver who is online his copy.
LEMMA AddMailIs ==
    ASSUME NEW players \in [Players -> Player \cup {NULL}], NEW r \in Players,
           r \in Online => players[r] # NULL, NEW m \in Ids, NEW mail \in Mail
    PROVE  LET a == AddMail(players, m, r, mail)
           IN  /\ a \in [Players -> Player \cup {NULL}]
               /\ \A q \in Players : a[q] = NULL <=> players[q] = NULL
               /\ \A q \in Players : q # r => a[q] = players[q]
               /\ a[r] = players[r] \/
                     /\ players[r] # NULL /\ a[r] # NULL
                     /\ a[r].gold = players[r].gold /\ a[r].bag = players[r].bag
                     /\ \A n \in Ids : a[r].mails[n] = IF n = m THEN mail ELSE players[r].mails[n]
  <1> DEFINE a == AddMail(players, m, r, mail)
             pl == [players[r] EXCEPT !.mails = [players[r].mails EXCEPT ![m] = mail],
                                      !.mitems = @ \cup mail.items]
  <1>1. CASE r \notin Online
    <2>1. a = players
      BY <1>1 DEF AddMail
    <2> QED BY <2>1
  <1>2. CASE r \in Online
    <2>1. players[r] \in Player
      BY <1>2
    <2>2. /\ players[r].mails \in [Ids -> Mail \cup {NULL}]
          /\ players[r].mitems \cup mail.items \in SUBSET Items
      BY <2>1 DEF Player, Mail
    <2>3. /\ pl \in Player /\ pl.gold = players[r].gold /\ pl.bag = players[r].bag
          /\ pl.mails = [players[r].mails EXCEPT ![m] = mail]
      BY <2>1, <2>2 DEF Player
    <2>4. a = [players EXCEPT ![r] = pl]
      BY <1>2 DEF AddMail
    <2> HIDE DEF a, pl
    <2>5. a \in [Players -> Player \cup {NULL}] /\ a[r] = pl /\ \A q \in Players : q # r => a[q] = players[q]
      BY <2>3, <2>4
    <2>6. pl # NULL /\ players[r] # NULL
      BY <1>2, <2>3, NullIsNoKey
    <2>7. \A q \in Players : a[q] = NULL <=> players[q] = NULL
      BY <2>5, <2>6
    <2>8. \A n \in Ids : pl.mails[n] = IF n = m THEN mail ELSE players[r].mails[n]
      BY <2>2, <2>3
    <2> QED BY <2>3, <2>5, <2>6, <2>7, <2>8 DEF a
  <1> QED BY <1>1, <1>2

LEMMA AddMailRemembered ==
    ASSUME NEW players \in [Players -> Player \cup {NULL}], NEW r \in Players,
           r \in Online => players[r] # NULL, NEW m \in Ids, NEW mail \in Mail,
           NEW d, Memory(players, d), InTables(r, m, mail, d)
    PROVE  Memory(AddMail(players, m, r, mail), d)
  <1> DEFINE a == AddMail(players, m, r, mail)
  <1>1. /\ \A q \in Players : a[q] = NULL <=> players[q] = NULL
        /\ \A q \in Players : q # r => a[q] = players[q]
        /\ a[r] = players[r] \/
              /\ players[r] # NULL /\ a[r] # NULL
              /\ a[r].gold = players[r].gold /\ a[r].bag = players[r].bag
              /\ \A n \in Ids : a[r].mails[n] = IF n = m THEN mail ELSE players[r].mails[n]
    BY AddMailIs
  <1> HIDE DEF a
  <1> SUFFICES ASSUME NEW q \in Players, a[q] # NULL PROVE Remembers(q, a[q], d)
    BY DEF Memory, a
  <1>2. players[q] # NULL /\ Remembers(q, players[q], d)
    BY <1>1 DEF Memory
  <1>3. CASE a[q] = players[q]
    BY <1>2, <1>3
  <1>4. CASE a[q] # players[q]
    <2>1. q = r /\ a[r].gold = players[r].gold /\ a[r].bag = players[r].bag
      BY <1>1, <1>4
    <2>2. \A n \in Ids : a[r].mails[n] = IF n = m THEN mail ELSE players[r].mails[n]
      BY <1>1, <1>4
    <2>3. ASSUME NEW n \in Ids, a[r].mails[n] # NULL
          PROVE  InTables(r, n, a[r].mails[n], d)
      <3>1. CASE n = m
        BY <2>2, <3>1
      <3>2. CASE n # m
        BY <1>2, <2>1, <2>2, <2>3, <3>2 DEF Remembers
      <3> QED BY <3>1, <3>2
    <2> QED BY <1>2, <2>1, <2>3 DEF Remembers
  <1> QED BY <1>3, <1>4

\* The mails of players in memory.
LEMMA MailType ==
    ASSUME TypeOK, NEW p \in Players, NEW m \in Ids, Has(p, m)
    PROVE  /\ status[p] = "online" /\ player[p] # NULL /\ player[p] \in Player
           /\ player[p].mails[m] # NULL /\ player[p].mails[m] \in Mail
           /\ player[p].mails[m].sender \in Players
           /\ player[p].mails[m].items \in SUBSET Items
           /\ player[p].mails[m].money \in Nat /\ player[p].mails[m].cod \in Nat
           /\ player[p].gold \in 0..MaxGold /\ player[p].bag \in SUBSET Items
  <1>1. status[p] = "online" /\ player[p].mails[m] # NULL
    BY DEF Has
  <1>2. player[p] # NULL /\ player[p] \in Player
    BY <1>1 DEF TypeOK
  <1>3. player[p].mails[m] \in Mail /\ player[p].gold \in 0..MaxGold /\ player[p].bag \in SUBSET Items
    BY <1>1, <1>2 DEF Player
  <1> QED BY <1>1, <1>2, <1>3 DEF Mail

LEMMA NewMailType ==
    ASSUME NEW s \in Players, NEW money \in Nat, NEW cod \in Nat, NEW I \in SUBSET Items,
           NEW checked \in {"normal", "payment", "returned"}
    PROVE  /\ NewMail(s, money, cod, I, checked) \in Mail
           /\ NewMail(s, money, cod, I, checked).items = I
  BY DEF NewMail, Mail

\* Who is online is in memory.
LEMMA OnlineType ==
    ASSUME TypeOK
    PROVE  /\ \A p \in Players : status[p] = "online" => player[p] # NULL /\ player[p] \in Player
           /\ \A p \in Online : p \in Players /\ status[p] = "online" /\ player[p] # NULL
  BY DEF TypeOK, Online

\* What a step makes of the players; whose memory is there, is there still.
LEMMA PlayersType ==
    ASSUME TypeOK, status' = status, player' \in [Players -> Player \cup {NULL}],
           \A q \in Players : player'[q] = NULL <=> player[q] = NULL,
           delay' \in Seq(Request) /\ db' \in Tables /\ settled' \in Tables
    PROVE  TypeOK'
  BY DEF TypeOK

(***************************************************************************)
(* Types.                                                                  *)
(***************************************************************************)
LEMMA OneTransaction ==
    ASSUME NEW w \in Writes
    PROVE  <<Transaction(w)>> \in Seq(Request)
  BY TransactionIs

LEMMA TwoTransactions ==
    ASSUME NEW v \in Writes, NEW w \in Writes
    PROVE  <<Transaction(v), Transaction(w)>> \in Seq(Request)
  <1>1. Transaction(v) \in Request /\ Transaction(w) \in Request
    BY TransactionIs
  <1> HIDE DEF Transaction
  <1> QED BY <1>1

LEMMA InitType ==
    ASSUME Init
    PROVE  TypeOK
  <1>1. db \in Columns
    <2>1. [i \in Items |-> IF \E p \in Players : i \in InitItems[p]
                           THEN CHOOSE p \in Players : i \in InitItems[p] ELSE NULL]
            \in [Items -> Players \cup {NULL}]
      OBVIOUS
    <2>2. [i \in Items |-> \E p \in Players : i \in InitItems[p]] \in [Items -> BOOLEAN]
      OBVIOUS
    <2>3. InitGold \in [Players -> 0..MaxGold] /\ 0 \in 0..ColumnSize - 1
      BY MailAssumption
    <2> QED BY <2>1, <2>2, <2>3 DEF Init, Columns
  <1>2. Paired(db)
    BY DEF Init, Paired
  <1>3. delay \in Seq(Request)
    BY DEF Init
  <1>4. /\ status \in [Players -> {"offline", "asked", "loaded", "online"}]
        /\ player \in [Players -> Player \cup {NULL}]
        /\ \A p \in Players : player[p] # NULL <=> status[p] \in {"loaded", "online"}
        /\ settled = db
    BY DEF Init
  <1> QED BY <1>1, <1>2, <1>3, <1>4 DEF TypeOK, Tables

LEMMA LoginOpcodeType ==
    ASSUME TypeOK, NEW p \in Players, HandlePlayerLoginOpcode(p)
    PROVE  TypeOK'
  <1>1. <<Query(p)>> \in Seq(Request)
    BY DEF Query, Request
  <1>2. delay' \in Seq(Request) /\ db' \in Tables /\ settled' \in Tables
    BY <1>1, QueuedType DEF HandlePlayerLoginOpcode
  <1> QED BY <1>2 DEF TypeOK, HandlePlayerLoginOpcode

LEMMA LoginType ==
    ASSUME TypeOK, NEW p \in Players, HandlePlayerLogin(p)
    PROVE  TypeOK'
  BY DEF TypeOK, HandlePlayerLogin

LEMMA SaveToDBType ==
    ASSUME NEW p \in Players, NEW pl \in Player
    PROVE  /\ SaveRows(p, pl) \in Writes
           /\ <<Transaction(SaveRows(p, pl))>> \in Seq(Request)
  BY SaveIs, OneTransaction

LEMMA LogoutType ==
    ASSUME TypeOK, NEW p \in Players, LogoutPlayer(p)
    PROVE  TypeOK'
  <1>1. player[p] \in Player
    BY OnlineType DEF LogoutPlayer
  <1>2. delay' \in Seq(Request) /\ db' \in Tables /\ settled' \in Tables
    BY <1>1, SaveToDBType, QueuedType DEF LogoutPlayer, SaveToDB
  <1> QED BY <1>2 DEF TypeOK, LogoutPlayer

LEMMA SaveType ==
    ASSUME TypeOK, NEW p \in Players, Save(p)
    PROVE  TypeOK'
  <1>1. player[p] \in Player /\ player[p] # NULL
    BY OnlineType DEF Save
  <1>2. delay' \in Seq(Request) /\ db' \in Tables /\ settled' \in Tables
    BY <1>1, SaveToDBType, QueuedType DEF Save, SaveToDB
  <1>3. _SaveMail(player[p]) \in Player /\ _SaveMail(player[p]) # NULL
    BY <1>1, SaveMailIs, NullIsNoKey
  <1>4. /\ player' \in [Players -> Player \cup {NULL}]
        /\ \A q \in Players : player'[q] = NULL <=> player[q] = NULL
    BY <1>1, <1>3 DEF Save, TypeOK
  <1>5. status' = status
    BY DEF Save
  <1> QED BY <1>2, <1>4, <1>5, PlayersType

LEMMA PostageType ==
    ASSUME NEW I \in SUBSET Items
    PROVE  Postage(I) \in Nat
  <1>1. Cardinality(I) \in Nat
    BY MailAssumption, FS_Subset, FS_CardinalityType
  <1>2. Max1(Cardinality(I)) \in Nat
    BY <1>1 DEF Max1
  <1>3. \A a, b \in Nat : a * b \in Nat
    OBVIOUS
  <1> QED BY <1>2, <1>3, MailAssumption DEF Postage

LEMMA RequiredType ==
    ASSUME NEW I \in SUBSET Items, NEW money \in Amounts
    PROVE  /\ Required(I, money) \in Nat
           /\ Postage(I) + money < WordSize => Required(I, money) = Postage(I) + money
  <1>1. Postage(I) \in Nat /\ money \in Nat /\ WordSize \in Nat \ {0}
    BY PostageType, MailAssumption
  <1>2. \A n \in Nat : \A w \in Nat \ {0} : n % w \in Nat /\ (n < w => n % w = n)
    OBVIOUS
  <1>3. Postage(I) + money \in Nat
    BY <1>1
  <1> QED BY <1>1, <1>2, <1>3 DEF Required

\* The sender once the items and the gold are gone.
LEMMA SenderIs ==
    ASSUME TypeOK, NEW p \in Players, NEW r, NEW I \in SUBSET Items, NEW money \in Amounts,
           CanSend(p, r, I, money)
    PROVE  LET s == [player[p] EXCEPT !.gold = @ - Required(I, money), !.bag = @ \ I]
           IN  /\ s \in Player /\ s # NULL
               /\ s.gold = player[p].gold - Required(I, money)
               /\ s.bag = player[p].bag \ I /\ s.mails = player[p].mails
  <1> DEFINE s == [player[p] EXCEPT !.gold = @ - Required(I, money), !.bag = @ \ I]
  <1>1. player[p] \in Player /\ player[p].gold >= Required(I, money)
    BY OnlineType DEF CanSend
  <1>2. player[p].gold \in 0..MaxGold /\ Required(I, money) \in Nat /\ MaxGold \in Nat
    BY <1>1, RequiredType, MailAssumption DEF Player
  <1>3. player[p].gold - Required(I, money) \in 0..MaxGold
    BY <1>1, <1>2
  <1>4. /\ s.gold = player[p].gold - Required(I, money)
        /\ s.bag = player[p].bag \ I /\ s.mails = player[p].mails
    BY <1>1 DEF Player
  <1>5. s \in Player
    BY <1>1, <1>3 DEF Player
  <1> QED BY <1>4, <1>5, NullIsNoKey

LEMMA SendRequestsType ==
    ASSUME NEW p \in Players, NEW r \in Players, NEW m \in Ids, NEW mail \in Mail, NEW pl \in Player
    PROVE  SendRequests(p, pl, m, r, mail) \in Seq(Request)
  <1> DEFINE s == <<Transaction(SentRows(m, r, mail)), Transaction(SaveGold(p, pl))>>
             q == [k \in 1..Cardinality(mail.items) |-> Transaction(TakenOut(SetToSeq(mail.items)[k]))]
  <1>1. mail.items \in SUBSET Items /\ pl.gold \in 0..MaxGold
    BY DEF Mail, Player
  <1>2. q \in Seq(Request)
    BY <1>1, ItemsLeaveType
  <1>3. s \in Seq(Request)
    <2>1. SentRows(m, r, mail) \in Writes
      BY SentType
    <2>2. SaveGold(p, pl) \in Writes
      BY <1>1, GoldType
    <2> QED BY <2>1, <2>2, TwoTransactions
  <1> HIDE DEF s, q
  <1>4. q \o s \in Seq(Request)
    BY <1>2, <1>3, ConcatProperties
  <1> QED BY <1>4 DEF SendRequests, s, q

LEMMA SendMailType ==
    ASSUME TypeOK, NEW p \in Players, NEW r \in Players, NEW I \in SUBSET Items,
           NEW money \in Amounts, NEW cod \in Amounts, HandleSendMail(p, r, I, money, cod)
    PROVE  TypeOK'
  <1> DEFINE mail == NewMail(p, money, cod, I, "normal")
             s == [player[p] EXCEPT !.gold = @ - Required(I, money), !.bag = @ \ I]
             players == [player EXCEPT ![p] = s]
  <1>1. CanSend(p, r, I, money) /\ status' = status /\ db' = db
    BY DEF HandleSendMail
  <1>2. PICK m \in GenerateMailID : /\ player' = AddMail(players, m, r, mail)
                                    /\ Queued(SendRequests(p, s, m, r, mail))
    BY DEF HandleSendMail
  <1>3. mail \in Mail
    BY NewMailType, MailAssumption
  <1>4. s \in Player /\ s # NULL
    <2>1. s \in Player
      BY <1>1, SenderIs
    <2> QED BY <2>1, NullIsNoKey
  <1>5. m \in Ids
    BY DEF GenerateMailID
  <1>6. player \in [Players -> Player \cup {NULL}] /\ player[p] # NULL /\ db \in Tables
    BY <1>1, OnlineType DEF TypeOK, CanSend
  <1> HIDE DEF mail, s
  <1>7. SendRequests(p, s, m, r, mail) \in Seq(Request)
    BY <1>3, <1>4, <1>5, <1>6, SendRequestsType
  <1>8. delay' \in Seq(Request) /\ db' \in Tables /\ settled' \in Tables
    BY <1>1, <1>2, <1>7, QueuedType
  <1>9. /\ players \in [Players -> Player \cup {NULL}]
        /\ \A q \in Players : players[q] = NULL <=> player[q] = NULL
    BY <1>4, <1>6
  <1>10. r \in Online => players[r] # NULL
    BY <1>9, OnlineType
  <1> HIDE DEF players
  <1>11. /\ player' \in [Players -> Player \cup {NULL}]
         /\ \A q \in Players : player'[q] = NULL <=> players[q] = NULL
    BY <1>2, <1>3, <1>5, <1>9, <1>10, AddMailIs
  <1> QED BY <1>1, <1>8, <1>9, <1>11, PlayersType

\* Marking a mail, and taking it away.
Marked(p, m, st) ==
    LET mail == [player[p].mails[m] EXCEPT !.state = st]
    IN  [player[p] EXCEPT !.mails = [player[p].mails EXCEPT ![m] = mail]]

NoMail(p, m) ==
    [player[p] EXCEPT !.mails = [player[p].mails EXCEPT ![m] = NULL],
                      !.mitems = @ \ player[p].mails[m].items]

\* The items that a mail is returned with.
Found(p, m) == player[p].mails[m].items \cap player[p].mitems

LEMMA OnePlayerChanges ==
    ASSUME TypeOK, NEW p \in Players, player[p] # NULL, NEW s \in Player
    PROVE  /\ [player EXCEPT ![p] = s] \in [Players -> Player \cup {NULL}]
           /\ \A q \in Players : [player EXCEPT ![p] = s][q] = NULL <=> player[q] = NULL
  BY NullIsNoKey DEF TypeOK

LEMMA MarkedIs ==
    ASSUME TypeOK, NEW p \in Players, NEW m \in Ids, Has(p, m), NEW st \in {"changed", "deleted"}
    PROVE  LET s == Marked(p, m, st)
               mail == player[p].mails[m]
           IN  /\ s \in Player /\ s.gold = player[p].gold /\ s.bag = player[p].bag
               /\ \A n \in Ids : n # m => s.mails[n] = player[p].mails[n]
               /\ s.mails[m].sender = mail.sender /\ s.mails[m].money = mail.money
               /\ s.mails[m].cod = mail.cod /\ s.mails[m].items = mail.items
  <1> DEFINE mail == [player[p].mails[m] EXCEPT !.state = st]
             s == [player[p] EXCEPT !.mails = [player[p].mails EXCEPT ![m] = mail]]
  <1>1. player[p] \in Player /\ player[p].mails[m] \in Mail
    BY MailType
  <1>2. player[p].mails \in [Ids -> Mail \cup {NULL}]
    BY <1>1 DEF Player
  <1>3. /\ mail \in Mail /\ mail.sender = player[p].mails[m].sender
        /\ mail.money = player[p].mails[m].money /\ mail.cod = player[p].mails[m].cod
        /\ mail.items = player[p].mails[m].items
    BY <1>1 DEF Mail
  <1>4. s = Marked(p, m, st)
    BY DEF Marked
  <1> HIDE DEF mail
  <1>5. /\ s \in Player /\ s.gold = player[p].gold /\ s.bag = player[p].bag
        /\ s.mails = [player[p].mails EXCEPT ![m] = mail]
    BY <1>1, <1>2, <1>3 DEF Player
  <1> HIDE DEF s
  <1>6. \A n \in Ids : s.mails[n] = IF n = m THEN mail ELSE player[p].mails[n]
    BY <1>2, <1>5
  <1> QED BY <1>3, <1>4, <1>5, <1>6

LEMMA MarkIs ==
    ASSUME NEW p \in Players, NEW m \in Ids, HandleMailMarkAsRead(p, m) \/ HandleMailDelete(p, m)
    PROVE  /\ Has(p, m) /\ UNCHANGED <<status, delay, db, settled>>
           /\ \E st \in {"changed", "deleted"} : player' = [player EXCEPT ![p] = Marked(p, m, st)]
  BY DEF HandleMailMarkAsRead, HandleMailDelete, Marked

LEMMA MarkType ==
    ASSUME TypeOK, NEW p \in Players, NEW m \in Ids,
           HandleMailMarkAsRead(p, m) \/ HandleMailDelete(p, m)
    PROVE  TypeOK'
  <1>1. Has(p, m) /\ UNCHANGED <<status, delay, db, settled>>
    BY MarkIs
  <1>2. PICK st \in {"changed", "deleted"} : player' = [player EXCEPT ![p] = Marked(p, m, st)]
    BY MarkIs
  <1>3. Marked(p, m, st) \in Player /\ player[p] # NULL
    BY <1>1, MarkedIs, MailType
  <1>4. /\ player' \in [Players -> Player \cup {NULL}]
        /\ \A q \in Players : player'[q] = NULL <=> player[q] = NULL
    BY <1>2, <1>3, OnePlayerChanges
  <1>5. delay \in Seq(Request) /\ db \in Tables /\ settled \in Tables
    BY DEF TypeOK
  <1> QED BY <1>1, <1>4, <1>5, PlayersType

LEMMA NoMailIs ==
    ASSUME TypeOK, NEW p \in Players, NEW m \in Ids, Has(p, m)
    PROVE  LET s == NoMail(p, m)
           IN  /\ s \in Player /\ s.gold = player[p].gold /\ s.bag = player[p].bag
               /\ \A n \in Ids : s.mails[n] = IF n = m THEN NULL ELSE player[p].mails[n]
  <1> DEFINE s == NoMail(p, m)
  <1>1. player[p] \in Player
    BY MailType
  <1>2. /\ player[p].mails \in [Ids -> Mail \cup {NULL}]
        /\ player[p].mitems \ player[p].mails[m].items \in SUBSET Items
    BY <1>1 DEF Player
  <1>3. /\ s \in Player /\ s.gold = player[p].gold /\ s.bag = player[p].bag
        /\ s.mails = [player[p].mails EXCEPT ![m] = NULL]
    BY <1>1, <1>2 DEF Player, NoMail
  <1> HIDE DEF s
  <1>4. \A n \in Ids : s.mails[n] = IF n = m THEN NULL ELSE player[p].mails[n]
    BY <1>2, <1>3
  <1> QED BY <1>3, <1>4 DEF s

\* HandleMailReturnToSender in these terms.
LEMMA ReturnIs ==
    ASSUME NEW p \in Players, NEW m \in Ids, HandleMailReturnToSender(p, m)
    PROVE  LET mail == player[p].mails[m]
               returned == NewMail(p, mail.money, 0, Found(p, m), "returned")
               players == [player EXCEPT ![p] = NoMail(p, m)]
           IN  /\ Has(p, m) /\ status' = status /\ db' = db
               /\ \E n \in GenerateMailID :
                     /\ player' = AddMail(players, n, mail.sender, returned)
                     /\ Queued(<< Transaction(DeletedRows({m}, mail.items)),
                                  Transaction(SentRows(n, mail.sender, returned)) >>)
  <1>1. [player[p] EXCEPT !.mails[m] = NULL, !.mitems = @ \ player[p].mails[m].items] = NoMail(p, m)
    BY DEF NoMail
  <1> QED BY <1>1, Zenon DEF HandleMailReturnToSender, Usable, Found

LEMMA ReturnType ==
    ASSUME TypeOK, NEW p \in Players, NEW m \in Ids, HandleMailReturnToSender(p, m)
    PROVE  TypeOK'
  <1> DEFINE mail == player[p].mails[m]
             returned == NewMail(p, mail.money, 0, Found(p, m), "returned")
             players == [player EXCEPT ![p] = NoMail(p, m)]
  <1>1. Has(p, m) /\ status' = status /\ db' = db
    BY ReturnIs
  <1>2. PICK n \in GenerateMailID :
           /\ player' = AddMail(players, n, mail.sender, returned)
           /\ Queued(<< Transaction(DeletedRows({m}, mail.items)),
                        Transaction(SentRows(n, mail.sender, returned)) >>)
    BY ReturnIs
  <1>3. /\ mail \in Mail /\ mail.sender \in Players /\ mail.items \in SUBSET Items
        /\ mail.money \in Nat /\ player[p] # NULL
    BY <1>1, MailType
  <1>4. returned \in Mail
    <2>1. Found(p, m) \in SUBSET Items
      BY <1>3 DEF Found
    <2> QED BY <1>3, <2>1, NewMailType
  <1>5. n \in Ids
    BY DEF GenerateMailID
  <1>6. /\ players \in [Players -> Player \cup {NULL}]
        /\ \A q \in Players : players[q] = NULL <=> player[q] = NULL
    BY <1>1, <1>3, NoMailIs, OnePlayerChanges
  <1> HIDE DEF mail, returned, players
  <1>7. DeletedRows({m}, mail.items) \in Writes /\ SentRows(n, mail.sender, returned) \in Writes
    BY <1>3, <1>4, <1>5, DeletedType, SentType
  <1>8. delay' \in Seq(Request) /\ db' \in Tables /\ settled' \in Tables
    BY <1>1, <1>2, <1>7, TwoTransactions, QueuedType
  <1>9. mail.sender \in Online => players[mail.sender] # NULL
    BY <1>6, OnlineType
  <1>10. /\ player' \in [Players -> Player \cup {NULL}]
         /\ \A q \in Players : player'[q] = NULL <=> players[q] = NULL
    BY <1>2, <1>3, <1>4, <1>5, <1>6, <1>9, AddMailIs
  <1> QED BY <1>1, <1>6, <1>8, <1>10, PlayersType

\* The player who has taken an item or the money out of a mail.
LEMMA WithItemIs ==
    ASSUME TypeOK, NEW p \in Players, NEW m \in Ids, NEW i \in Items, Has(p, m),
           player[p].gold >= player[p].mails[m].cod
    PROVE  LET pl == WithItem(p, m, i)
               mail == player[p].mails[m]
           IN  /\ pl \in Player
               /\ pl.gold = player[p].gold - mail.cod /\ pl.bag = player[p].bag \cup {i}
               /\ \A n \in Ids : n # m => pl.mails[n] = player[p].mails[n]
               /\ pl.mails[m] \in Mail
               /\ pl.mails[m].sender = mail.sender /\ pl.mails[m].money = mail.money
               /\ pl.mails[m].cod = 0 /\ pl.mails[m].items = mail.items \ {i}
               /\ pl.mails[m].state = "changed"
  <1> DEFINE mail == player[p].mails[m]
             new == [mail EXCEPT !.items = @ \ {i}, !.cod = 0, !.state = "changed"]
             gold == player[p].gold - mail.cod
             bag == player[p].bag \cup {i}
             pl == WithItem(p, m, i)
  <1>1. player[p] \in Player /\ mail \in Mail
    BY MailType
  <1>2. gold \in 0..MaxGold
    <2>1. player[p].gold \in 0..MaxGold /\ mail.cod \in Nat
      BY MailType
    <2> QED BY <2>1, MailAssumption
  <1>3. bag \in SUBSET Items /\ player[p].mitems \ {i} \in SUBSET Items
    BY <1>1, MailType DEF Player
  <1>4. /\ new \in Mail /\ new.sender = mail.sender /\ new.money = mail.money
        /\ new.cod = 0 /\ new.items = mail.items \ {i} /\ new.state = "changed"
    BY <1>1 DEF Mail
  <1>5. player[p].mails \in [Ids -> Mail \cup {NULL}]
    BY <1>1 DEF Player
  <1>6. /\ pl.gold = gold /\ pl.bag = bag /\ pl.mails = [player[p].mails EXCEPT ![m] = new]
        /\ (gold \in 0..MaxGold /\ bag \in SUBSET Items /\ pl.mails \in [Ids -> Mail \cup {NULL}]
              => pl \in Player)
    <2>1. player[p].mails \in [Ids -> Mail \cup {NULL}] /\ player[p] \in Player
      BY <1>1 DEF Player
    <2>2. pl.gold = gold
      BY <2>1 DEF WithItem, Player
    <2>3. pl.bag = bag
      BY <2>1 DEF WithItem, Player
    <2>4. pl.mails = [player[p].mails EXCEPT ![m] = new]
      BY <2>1 DEF WithItem, Player
    <2>5. (gold \in 0..MaxGold /\ bag \in SUBSET Items /\ pl.mails \in [Ids -> Mail \cup {NULL}]
              => pl \in Player)
      BY <2>1 DEF WithItem, Player
    <2> QED BY <2>2, <2>3, <2>4, <2>5
  <1> HIDE DEF pl, new
  <1>7. /\ pl.mails \in [Ids -> Mail \cup {NULL}]
        /\ \A n \in Ids : pl.mails[n] = IF n = m THEN new ELSE player[p].mails[n]
    BY <1>4, <1>5, <1>6
  <1> QED BY <1>2, <1>3, <1>4, <1>6, <1>7 DEF pl

LEMMA TakeItemType ==
    ASSUME TypeOK, NEW p \in Players, NEW m \in Ids, NEW i \in Items, HandleMailTakeItem(p, m, i)
    PROVE  TypeOK'
  <1> DEFINE mail == player[p].mails[m]
             pl == WithItem(p, m, i)
             rest == [player EXCEPT ![p] = _SaveMail(pl)]
             w == TakenRows(p, pl, i)
             payment == NewMail(p, mail.cod, 0, {}, "payment")
  <1>1. Has(p, m) /\ status' = status /\ db' = db /\ player[p].gold >= mail.cod
    BY DEF HandleMailTakeItem, Usable
  <1>2. pl \in Player
    BY <1>1, WithItemIs
  <1>3. /\ rest \in [Players -> Player \cup {NULL}]
        /\ \A q \in Players : rest[q] = NULL <=> player[q] = NULL
    <2>1. _SaveMail(pl) \in Player
      BY <1>2, SaveMailIs
    <2>2. player \in [Players -> Player \cup {NULL}] /\ player[p] # NULL
      BY <1>1, MailType DEF TypeOK
    <2> QED BY <2>1, <2>2, NullIsNoKey
  <1>4. w \in Writes
    BY <1>2, TakenIs
  <1>5. mail.sender \in Players /\ mail.cod \in Nat
    BY <1>1, MailType
  <1>6. payment \in Mail
    BY <1>5, NewMailType
  <1>7. \/ player' = rest /\ Queued(<<Transaction(w)>>)
        \/ \E n \in GenerateMailID :
              /\ player' = AddMail(rest, n, mail.sender, payment)
              /\ Queued(<<Transaction(SentRows(n, mail.sender, payment)), Transaction(w)>>)
    BY DEF HandleMailTakeItem
  <1> HIDE DEF mail, pl, rest, w, payment
  <1>8. CASE player' = rest /\ Queued(<<Transaction(w)>>)
    <2>1. delay' \in Seq(Request) /\ db' \in Tables /\ settled' \in Tables
      BY <1>1, <1>4, <1>8, OneTransaction, QueuedType
    <2> QED BY <1>1, <1>3, <1>8, <2>1, PlayersType
  <1>9. CASE \E n \in GenerateMailID :
                /\ player' = AddMail(rest, n, mail.sender, payment)
                /\ Queued(<<Transaction(SentRows(n, mail.sender, payment)), Transaction(w)>>)
    <2>1. PICK n \in GenerateMailID :
                /\ player' = AddMail(rest, n, mail.sender, payment)
                /\ Queued(<<Transaction(SentRows(n, mail.sender, payment)), Transaction(w)>>)
      BY <1>9
    <2>2. n \in Ids
      BY DEF GenerateMailID
    <2>3. SentRows(n, mail.sender, payment) \in Writes
      BY <1>5, <1>6, <2>2, SentType
    <2>4. delay' \in Seq(Request) /\ db' \in Tables /\ settled' \in Tables
      BY <1>1, <1>4, <2>1, <2>3, TwoTransactions, QueuedType
    <2>5. mail.sender \in Online => rest[mail.sender] # NULL
      BY <1>3, OnlineType
    <2>6. /\ player' \in [Players -> Player \cup {NULL}]
          /\ \A q \in Players : player'[q] = NULL <=> rest[q] = NULL
      BY <1>3, <1>5, <1>6, <2>1, <2>2, <2>5, AddMailIs
    <2> QED BY <1>1, <1>3, <2>4, <2>6, PlayersType
  <1> QED BY <1>7, <1>8, <1>9

\* Gold that is received stays within the limit.
LEMMA SignedType == ASSUME NEW n \in Nat PROVE Signed(n) \in Int
  <1>1. \A w \in Nat \ {0} : n % w \in 0..w - 1
    OBVIOUS
  <1> QED BY <1>1, MailAssumption DEF Signed

LEMMA ReceiveType ==
    ASSUME NEW g \in 0..MaxGold, NEW n \in Nat
    PROVE  Receive(g, n) \in 0..MaxGold
  <1> DEFINE d == Signed(n)
  <1>1. d \in Int /\ MaxGold \in Nat
    BY SignedType, MailAssumption
  <1>2. Receive(g, n) = IF d < 0 THEN IF g > -d THEN g + d ELSE 0
                        ELSE IF g < MaxGold - d THEN g + d ELSE MaxGold
    BY DEF Receive
  <1> HIDE DEF d
  <1> QED BY <1>1, <1>2

\* HandleMailTakeMoney in these terms.
WithMoney(p, m) ==
    [player[p] EXCEPT !.gold = Receive(player[p].gold, player[p].mails[m].money),
                      !.mails = [player[p].mails EXCEPT
                         ![m] = [player[p].mails[m] EXCEPT !.money = 0, !.state = "changed"]]]

LEMMA TakeMoneyIs ==
    ASSUME NEW p \in Players, NEW m \in Ids, HandleMailTakeMoney(p, m)
    PROVE  /\ Has(p, m) /\ status' = status /\ db' = db
           /\ player' = [player EXCEPT ![p] = _SaveMail(WithMoney(p, m))]
           /\ Queued(<<Transaction(SaveRows(p, WithMoney(p, m)))>>)
  BY DEF HandleMailTakeMoney, Usable, WithMoney

LEMMA WithMoneyIs ==
    ASSUME TypeOK, NEW p \in Players, NEW m \in Ids, Has(p, m)
    PROVE  LET pl == WithMoney(p, m)
               mail == player[p].mails[m]
           IN  /\ pl \in Player
               /\ pl.gold = Receive(player[p].gold, mail.money) /\ pl.bag = player[p].bag
               /\ \A n \in Ids : n # m => pl.mails[n] = player[p].mails[n]
               /\ pl.mails[m] \in Mail
               /\ pl.mails[m].sender = mail.sender /\ pl.mails[m].money = 0
               /\ pl.mails[m].cod = mail.cod /\ pl.mails[m].items = mail.items
               /\ pl.mails[m].state = "changed"
  <1> DEFINE mail == player[p].mails[m]
             new == [mail EXCEPT !.money = 0, !.state = "changed"]
             gold == Receive(player[p].gold, mail.money)
             pl == WithMoney(p, m)
  <1>1. player[p] \in Player /\ mail \in Mail
    BY MailType
  <1>2. gold \in 0..MaxGold
    <2>1. player[p].gold \in 0..MaxGold /\ mail.money \in Nat
      BY MailType
    <2> QED BY <2>1, ReceiveType
  <1>3. /\ new \in Mail /\ new.sender = mail.sender /\ new.money = 0
        /\ new.cod = mail.cod /\ new.items = mail.items /\ new.state = "changed"
    BY <1>1 DEF Mail
  <1>4. player[p].mails \in [Ids -> Mail \cup {NULL}]
    BY <1>1 DEF Player
  <1>5. pl = [player[p] EXCEPT !.gold = gold, !.mails = [player[p].mails EXCEPT ![m] = new]]
    BY DEF WithMoney
  <1> HIDE DEF pl, new, gold
  <1>6. /\ pl \in Player /\ pl.gold = gold /\ pl.bag = player[p].bag
        /\ pl.mails = [player[p].mails EXCEPT ![m] = new]
    BY <1>1, <1>2, <1>3, <1>4, <1>5 DEF Player
  <1>7. \A n \in Ids : pl.mails[n] = IF n = m THEN new ELSE player[p].mails[n]
    BY <1>4, <1>6
  <1> QED BY <1>3, <1>6, <1>7 DEF pl, gold

LEMMA TakeMoneyType ==
    ASSUME TypeOK, NEW p \in Players, NEW m \in Ids, HandleMailTakeMoney(p, m)
    PROVE  TypeOK'
  <1> DEFINE pl == WithMoney(p, m)
  <1>1. /\ Has(p, m) /\ status' = status /\ db' = db
        /\ player' = [player EXCEPT ![p] = _SaveMail(pl)]
        /\ Queued(<<Transaction(SaveRows(p, pl))>>)
    BY TakeMoneyIs
  <1>2. pl \in Player
    BY <1>1, WithMoneyIs
  <1> HIDE DEF pl
  <1>3. delay' \in Seq(Request) /\ db' \in Tables /\ settled' \in Tables
    BY <1>1, <1>2, SaveToDBType, QueuedType
  <1>4. _SaveMail(pl) \in Player /\ player[p] # NULL
    BY <1>1, <1>2, SaveMailIs, MailType
  <1>5. /\ player' \in [Players -> Player \cup {NULL}]
        /\ \A q \in Players : player'[q] = NULL <=> player[q] = NULL
    BY <1>1, <1>4, OnePlayerChanges
  <1> QED BY <1>1, <1>3, <1>5, PlayersType

\* _LoadMails, _LoadMailedItems.
LEMMA LoadIs ==
    ASSUME db \in Tables, NEW p \in Players
    PROVE  LET pl == LoadFromDB(p)
           IN  /\ pl \in Player /\ pl.gold = db.money[p] /\ pl.bag = InBag(db, p)
               /\ \A m \in Ids : pl.mails[m] # NULL =>
                     /\ db.receiver[m] = p /\ pl.mails[m].sender = db.sender[m]
                     /\ pl.mails[m].money = db.mailMoney[m] /\ pl.mails[m].cod = db.cod[m]
                     /\ pl.mails[m].items = Attached(db, m)
  <1> DEFINE row(m) == [ sender |-> db.sender[m], money |-> db.mailMoney[m], cod |-> db.cod[m],
                         items |-> Attached(db, m), checked |-> db.checked[m],
                         state |-> "unchanged" ]
             mails == [m \in Ids |-> IF db.receiver[m] # p THEN NULL ELSE row(m)]
             held == {i \in Items : \E m \in Existing(db) : db.receiver[m] = p /\ i \in Attached(db, m)}
             pl == LoadFromDB(p)
  <1>1. pl = [gold |-> db.money[p], bag |-> InBag(db, p), mitems |-> held, mails |-> mails]
    BY DEF LoadFromDB
  <1>2. db.money[p] \in 0..MaxGold /\ InBag(db, p) \in SUBSET Items /\ held \in SUBSET Items
    BY TableTypes DEF InBag
  <1>3. ASSUME NEW m \in Ids, db.receiver[m] = p
        PROVE  row(m) \in Mail
    <2>1. db.sender[m] \in Players
      BY <1>3, TableTypes, NullIsNoKey
    <2>2. db.mailMoney[m] \in Nat /\ db.cod[m] \in Nat
      BY TableTypes, MailAssumption
    <2>3. db.checked[m] \in {"normal", "payment", "returned"} /\ Attached(db, m) \in SUBSET Items
      BY TableTypes DEF Attached
    <2> QED BY <2>1, <2>2, <2>3 DEF Mail
  <1>4. \A m \in Ids : /\ row(m).sender = db.sender[m] /\ row(m).money = db.mailMoney[m]
                       /\ row(m).cod = db.cod[m] /\ row(m).items = Attached(db, m)
    OBVIOUS
  <1>5. \A m \in Ids : mails[m] = IF db.receiver[m] # p THEN NULL ELSE row(m)
    OBVIOUS
  <1> HIDE DEF row
  <1>6. mails \in [Ids -> Mail \cup {NULL}]
    BY <1>3
  <1> HIDE DEF mails, pl, held
  <1>7. pl \in Player /\ pl.gold = db.money[p] /\ pl.bag = InBag(db, p) /\ pl.mails = mails
    BY <1>1, <1>2, <1>6 DEF Player
  <1>8. \A m \in Ids : mails[m] # NULL => db.receiver[m] = p /\ mails[m] = row(m)
    BY <1>5
  <1> QED BY <1>4, <1>7, <1>8 DEF pl

LEMMA RequestIs ==
    ASSUME TypeOK, ProcessRequest
    PROVE  /\ delay # <<>> /\ delay \in Seq(Request) /\ Head(delay) \in Request
           /\ delay' = Tail(delay) /\ settled' = settled /\ db' = Executed(db, Head(delay))
           /\ \/ status' = status /\ player' = player /\ Head(delay).op = "transaction"
              \/ \E p \in Players : /\ Head(delay) = Query(p) /\ db' = db
                                    /\ status' = [status EXCEPT ![p] = "loaded"]
                                    /\ player' = [player EXCEPT ![p] = LoadFromDB(p)]
  <1>1. delay # <<>> /\ delay \in Seq(Request) /\ delay' = Tail(delay) /\ settled' = settled
    BY DEF ProcessRequest, TypeOK
  <1>2. Head(delay) \in Request
    BY <1>1, HeadTailProperties
  <1>3. CASE Head(delay).op = "transaction"
    <2>1. db' = Stored(db, Head(delay).writes) /\ status' = status /\ player' = player
      BY <1>3 DEF ProcessRequest
    <2> QED BY <1>1, <1>2, <1>3, <2>1 DEF Executed
  <1>4. CASE Head(delay).op # "transaction"
    <2> DEFINE p == Head(delay).player
    <2>1. p \in Players /\ Head(delay) = Query(p)
      BY <1>2, <1>4 DEF Request, Query
    <2>2. /\ db' = db /\ status' = [status EXCEPT ![p] = "loaded"]
          /\ player' = [player EXCEPT ![p] = LoadFromDB(p)]
      BY <1>4 DEF ProcessRequest
    <2>3. db' = Executed(db, Head(delay))
      BY <1>4, <2>2 DEF Executed
    <2> HIDE DEF p
    <2> QED BY <1>1, <1>2, <2>1, <2>2, <2>3
  <1> QED BY <1>3, <1>4

LEMMA RequestType ==
    ASSUME TypeOK, ProcessRequest
    PROVE  TypeOK'
  <1>1. delay' \in Seq(Request) /\ settled' \in Tables /\ db' \in Tables
    <2>1. delay' = Tail(delay) /\ delay \in Seq(Request) /\ delay # <<>>
      BY RequestIs
    <2>2. delay' \in Seq(Request)
      BY <2>1, HeadTailProperties
    <2>3. settled' \in Tables
      BY RequestIs DEF TypeOK
    <2>4. db' \in Tables
      BY RequestIs, ExecutedType DEF TypeOK
    <2> QED BY <2>2, <2>3, <2>4
  <1>2. CASE status' = status /\ player' = player
    BY <1>1, <1>2 DEF TypeOK
  <1>3. CASE \E p \in Players : /\ status' = [status EXCEPT ![p] = "loaded"]
                                /\ player' = [player EXCEPT ![p] = LoadFromDB(p)]
    <2>1. PICK p \in Players : /\ status' = [status EXCEPT ![p] = "loaded"]
                               /\ player' = [player EXCEPT ![p] = LoadFromDB(p)]
      BY <1>3
    <2>2. LoadFromDB(p) \in Player /\ LoadFromDB(p) # NULL
      <3>1. LoadFromDB(p) \in Player
        BY LoadIs DEF TypeOK
      <3> QED BY <3>1, NullIsNoKey
    <2> HIDE DEF LoadFromDB
    <2> QED BY <1>1, <2>1, <2>2 DEF TypeOK
  <1> QED BY <1>2, <1>3, RequestIs

\* The statements about an old mail.
LEMMA OldMailsType ==
    ASSUME TypeOK, NEW m \in Ids, ReturnOrDeleteOldMails(m)
    PROVE  TypeOK'
  <1>1. /\ m \in Existing(db) /\ Queued(ReturnOrDelete(m))
        /\ status' = status /\ player' = player /\ db' = db
    BY DEF ReturnOrDeleteOldMails
  <1>2. db \in Tables
    BY DEF TypeOK
  <1>3. ReturnedRows({m}) \in Writes
    BY <1>1, <1>2, ReturnedType
  <1>4. DestroyedRows({m}) \in Writes /\ DeletedRows({m}, {}) \in Writes
    BY DestroyedType, DeletedType
  <1>5. /\ <<Transaction(ReturnedRows({m}))>> \in Seq(Request)
        /\ <<Transaction(DestroyedRows({m})), Transaction(DeletedRows({m}, {}))>> \in Seq(Request)
    BY <1>3, <1>4, OneTransaction, TwoTransactions
  <1>6. ReturnOrDelete(m) \in Seq(Request)
    BY <1>5 DEF ReturnOrDelete
  <1>7. delay' \in Seq(Request) /\ db' \in Tables /\ settled' \in Tables
    BY <1>1, <1>6, QueuedType
  <1> QED BY <1>1, <1>7 DEF TypeOK

\* The tables after a restart.
LEMMA RestartIs ==
    ASSUME db \in Tables, NEW old, Restart(old)
    PROVE  /\ db' \in Tables /\ settled' = db' /\ delay' = <<>>
           /\ status' = [p \in Players |-> "offline"] /\ player' = [p \in Players |-> NULL]
           /\ OnePlace(db) => OnePlace(db')
  <1> DEFINE back == {m \in old : Returnable(m)}
             d == Stored(db, ReturnedRows(back))
             e == Stored(d, DestroyedRows(old \ back))
             f == Stored(e, DeletedRows(old \ back, {}))
  <1>1. /\ db' = f /\ old \subseteq Existing(db)
        /\ settled' = db' /\ delay' = <<>>
        /\ status' = [p \in Players |-> "offline"] /\ player' = [p \in Players |-> NULL]
    BY DEF Restart
  <1>2. back \in SUBSET Existing(db) /\ old \ back \in SUBSET Ids /\ {} \in SUBSET Items
    BY <1>1 DEF Existing
  <1>3. ReturnedRows(back) \in Writes
    BY <1>2, ReturnedType
  <1>4. DestroyedRows(old \ back) \in Writes /\ DeletedRows(old \ back, {}) \in Writes
    BY <1>2, DestroyedType, DeletedType
  <1>5. d \in Tables
    BY <1>3, StoredType
  <1>6. e \in Tables
    BY <1>4, <1>5, StoredType
  <1>7. f \in Tables
    BY <1>4, <1>6, StoredType
  <1>8. ASSUME OnePlace(db)
        PROVE  OnePlace(f)
    <2>1. /\ OnePlace(d) /\ d.instance = db.instance /\ d.inMail = db.inMail
          /\ \A n \in Ids : d.receiver[n] = IF n \in back THEN db.sender[n] ELSE db.receiver[n]
      BY <1>2, <1>8, ReturnedEffect
    <2>2. \A m \in old \ back : d.receiver[m] # NULL
      BY <1>1, <2>1 DEF Existing
    <2> HIDE DEF d, back
    <2>3. OnePlace(e)
      BY <1>2, <1>5, <2>1, <2>2, DestroyedEffect
    <2> HIDE DEF e
    <2> QED BY <1>2, <1>6, <2>3, DeletedEffect
  <1> HIDE DEF f
  <1> QED BY <1>1, <1>7, <1>8

LEMMA RestartType ==
    ASSUME TypeOK, NEW old, Restart(old)
    PROVE  TypeOK'
  <1>1. db' \in Tables /\ settled' \in Tables /\ delay' = <<>>
    BY RestartIs DEF TypeOK
  <1>2. status' = [p \in Players |-> "offline"] /\ player' = [p \in Players |-> NULL]
    BY DEF Restart
  <1>3. delay' \in Seq(Request)
    BY <1>1
  <1> QED BY <1>1, <1>2, <1>3 DEF TypeOK

\* TypeOK: the tables, the requests and the memory stay of their types, whatever
\* the players, the database thread, the daily return of old mails and crashes do.
THEOREM TypeCorrect == Spec => []TypeOK
  <1>1. Init => TypeOK
    BY InitType
  <1>2. TypeOK /\ [Next]_vars => TypeOK'
    <2> SUFFICES ASSUME TypeOK, [Next]_vars PROVE TypeOK'
      OBVIOUS
    <2>1. CASE UNCHANGED vars
      BY <2>1 DEF TypeOK, vars
    <2>2. CASE \E p \in Players : PlayerStep(p)
      <3>1. PICK p \in Players : PlayerStep(p)
        BY <2>2
      <3>2. CASE OtherStep(p)
        BY <3>2, LoginOpcodeType, LoginType, LogoutType, SaveType, SendMailType, MarkType,
           ReturnType, TakeMoneyType DEF OtherStep
      <3>3. CASE \E m \in Ids, i \in Items : HandleMailTakeItem(p, m, i)
        BY <3>3, TakeItemType
      <3> QED BY <3>1, <3>2, <3>3 DEF PlayerStep
    <2>3. CASE ProcessRequest
      BY <2>3, RequestType
    <2>4. CASE \E m \in Ids : ReturnOrDeleteOldMails(m)
      BY <2>4, OldMailsType
    <2>5. CASE CrashStep
      BY <2>5, RestartType DEF CrashStep
    <2> QED BY <2>1, <2>2, <2>3, <2>4, <2>5 DEF Next
  <1> QED BY <1>1, <1>2, PTL DEF Spec

(***************************************************************************)
(* MailInv is kept by every action of QuietNext.                           *)
(***************************************************************************)
LEMMA InitInv ==
    ASSUME Init
    PROVE  MailInv
  <1>1. TypeOK
    BY InitType
  <1>2. OnePlace(db)
    BY NullIsNoKey DEF OnePlace, Existing, Init
  <1>3. delay = <<>> /\ settled = db /\ Len(<<>>) = 0
    BY DEF Init
  <1>4. Leads(db, delay, settled)
    BY <1>2, <1>3, AfterFew DEF Leads
  <1>5. Loads(status, db, delay, settled)
    BY <1>3 DEF Loads
  <1>6. Memory(player, settled)
    BY DEF Init, Memory
  <1> QED BY <1>1, <1>4, <1>5, <1>6 DEF MailInv

\* No item is in two places in the tables as they are, nor as they will be.
LEMMA NowAndSettled ==
    ASSUME MailInv
    PROVE  /\ db \in Tables /\ settled \in Tables /\ delay \in Seq(Request)
           /\ OnePlace(db) /\ OnePlace(settled)
           /\ delay = <<>> => settled = db
           /\ \A p \in Players : player[p] # NULL => player[p] \in Player /\ Remembers(p, player[p], settled)
           /\ player \in [Players -> Player \cup {NULL}]
  <1>1. TypeOK /\ Leads(db, delay, settled) /\ Memory(player, settled)
    BY DEF MailInv
  <1>2. db \in Tables /\ settled \in Tables /\ delay \in Seq(Request)
    BY <1>1 DEF TypeOK
  <1>3. /\ settled = After(db, delay)[Len(delay)]
        /\ \A k \in 0..Len(delay) : OnePlace(After(db, delay)[k])
    BY <1>1 DEF Leads
  <1>4. Len(delay) \in Nat /\ 0 \in 0..Len(delay) /\ Len(delay) \in 0..Len(delay)
    BY <1>2, LenProperties
  <1>5. After(db, delay)[0] = db
    BY <1>4, AfterStep
  <1>6. OnePlace(db) /\ OnePlace(settled)
    BY <1>3, <1>4, <1>5
  <1>7. delay = <<>> => settled = db
    BY <1>3, <1>5
  <1>8. /\ \A p \in Players : player[p] # NULL => player[p] \in Player /\ Remembers(p, player[p], settled)
        /\ player \in [Players -> Player \cup {NULL}]
    BY <1>1 DEF TypeOK, Memory
  <1> QED BY <1>2, <1>6, <1>7, <1>8

\* A query is queued behind everything else.
LEMMA LoadsQuery ==
    ASSUME NEW d, NEW e, NEW r \in Seq(Request), NEW p \in Players, NEW st, NEW st2,
           Leads(d, r, e), Loads(st, d, r, e), st[p] # "asked", st2[p] = "asked",
           \A q \in Players : st[q] = "asked" => st2[q] = "asked"
    PROVE  Loads(st2, d, r \o <<Query(p)>>, e)
  <1> DEFINE q == <<Query(p)>>
             s == r \o q
             n == Len(r)
  <1>1. q \in Seq(Request) /\ Len(q) = 1 /\ q[1] = Query(p)
    BY DEF Query, Request
  <1> HIDE DEF q
  <1>2. /\ Len(s) = n + 1 /\ n \in Nat
        /\ \A k \in 1..n : s[k] = r[k]
        /\ s[n + 1] = Query(p)
    <2>0. q \in Seq(Request)
      BY <1>1
    <2>1. /\ Len(s) = n + Len(q) /\ n \in Nat
          /\ \A k \in 1..n : s[k] = r[k]
          /\ \A k \in n + 1..n + Len(q) : s[k] = q[k - n]
      BY <2>0, ConcatProperties, LenProperties
    <2>2. n + 1 \in n + 1..n + Len(q) /\ (n + 1) - n = 1
      BY <1>1, <2>1
    <2> HIDE DEF n, s
    <2> QED BY <1>1, <2>1, <2>2
  <1>3. /\ \A k \in 0..n : After(d, s)[k] = After(d, r)[k]
        /\ After(d, r)[n] = e
    BY <1>1, AfterConcat DEF Leads
  <1>4. \A k \in 1..n : r[k] \in Request
    BY ElementOfSeq
  <1> HIDE DEF s, n
  <1>5. ASSUME NEW k \in 1..n, r[k].op = "query"
        PROVE  /\ st[r[k].player] = "asked" /\ r[k].player # p /\ r[k].player \in Players
               /\ Kept(r[k].player, After(d, r)[k - 1], e)
               /\ \A j \in 1..n : r[j] = r[k] => j = k
    <2>1. r[k].player \in Players
      BY <1>4, <1>5 DEF Request
    <2>2. /\ st[r[k].player] = "asked"
          /\ Kept(r[k].player, After(d, r)[k - 1], e)
          /\ \A j \in 1..n : r[j] = r[k] => j = k
      BY <1>5 DEF Loads, n
    <2> QED BY <2>1, <2>2
  <1>6. \A k \in 1..n : r[k] # Query(p)
    BY <1>5 DEF Query
  <1>7. ASSUME NEW k \in 1..Len(s), s[k].op = "query"
        PROVE  /\ st2[s[k].player] = "asked"
               /\ Kept(s[k].player, After(d, s)[k - 1], e)
               /\ \A j \in 1..Len(s) : s[j] = s[k] => j = k
    <2>1. CASE k = n + 1
      <3>1. s[k] = Query(p) /\ s[k].player = p /\ After(d, s)[k - 1] = e
        <4>1. k - 1 = n /\ n \in 0..n
          BY <1>2, <2>1
        <4> QED BY <1>2, <1>3, <2>1, <4>1 DEF Query
      <3>2. \A j \in 1..Len(s) : s[j] = s[k] => j = k
        BY <1>2, <1>6, <2>1, <3>1
      <3> QED BY <3>1, <3>2, KeptIsReflexive
    <2>2. CASE k \in 1..n
      <3>1. s[k] = r[k] /\ k - 1 \in 0..n
        BY <1>2, <2>2
      <3>2. /\ st[r[k].player] = "asked" /\ r[k].player \in Players
            /\ Kept(r[k].player, After(d, r)[k - 1], e)
            /\ \A j \in 1..n : r[j] = r[k] => j = k
        BY <1>5, <1>7, <2>2, <3>1
      <3>3. ASSUME NEW j \in 1..Len(s), s[j] = s[k]
            PROVE  j = k
        <4>1. j \in 1..n
          BY <1>2, <1>6, <2>2, <3>1, <3>3
        <4> QED BY <1>2, <3>1, <3>2, <3>3, <4>1
      <3> QED BY <1>3, <3>1, <3>2, <3>3
    <2> QED BY <1>2, <2>1, <2>2
  <1> QED BY <1>7 DEF Loads, s, q

LEMMA LoginOpcodeInv ==
    ASSUME MailInv, NEW p \in Players, HandlePlayerLoginOpcode(p)
    PROVE  MailInv'
  <1> DEFINE q == <<Query(p)>>
  <1>1. TypeOK /\ Leads(db, delay, settled) /\ Loads(status, db, delay, settled) /\ Memory(player, settled)
    BY DEF MailInv
  <1>2. /\ status[p] = "offline" /\ status' = [status EXCEPT ![p] = "asked"]
        /\ Queued(q) /\ player' = player /\ db' = db
    BY DEF HandlePlayerLoginOpcode
  <1>3. TypeOK'
    BY <1>1, LoginOpcodeType
  <1>4. q \in Seq(Request) /\ Len(q) = 1
    BY DEF Query, Request
  <1>5. After(settled, q)[0] = settled /\ After(settled, q)[1] = settled
    BY AfterFew DEF Query, Executed
  <1> HIDE DEF q
  <1>6. Leads(settled, q, settled)
    <2>1. OnePlace(settled)
      BY NowAndSettled
    <2> QED BY <1>4, <1>5, <2>1 DEF Leads
  <1>7. settled' = settled /\ delay' = delay \o q
    BY <1>2, <1>4, <1>5 DEF Queued
  <1>8. delay \in Seq(Request)
    BY <1>1 DEF TypeOK
  <1>9. Leads(db', delay', settled')
    BY <1>1, <1>2, <1>4, <1>6, <1>7, <1>8, LeadsConcat
  <1>10. Loads(status', db', delay', settled')
    <2>1. /\ status[p] # "asked" /\ status'[p] = "asked"
          /\ \A r \in Players : status[r] = "asked" => status'[r] = "asked"
      BY <1>1, <1>2 DEF TypeOK
    <2>2. Loads(status', db, delay \o <<Query(p)>>, settled)
      BY <1>1, <1>8, <2>1, LoadsQuery
    <2> QED BY <1>2, <1>7, <2>2 DEF q
  <1> QED BY <1>1, <1>2, <1>3, <1>7, <1>9, <1>10 DEF MailInv

LEMMA LoginInv ==
    ASSUME MailInv, NEW p \in Players, HandlePlayerLogin(p)
    PROVE  MailInv'
  <1>1. TypeOK /\ Leads(db, delay, settled) /\ Loads(status, db, delay, settled) /\ Memory(player, settled)
    BY DEF MailInv
  <1>2. /\ status[p] = "loaded" /\ status' = [status EXCEPT ![p] = "online"]
        /\ player' = player /\ delay' = delay /\ db' = db /\ settled' = settled
    BY DEF HandlePlayerLogin
  <1>3. TypeOK'
    BY <1>1, LoginType
  <1>4. \A q : status[q] = "asked" => q # p
    BY <1>2
  <1>5. \A k \in 1..Len(delay) : delay[k].op = "query" => delay[k].player \in Players
    <2>1. \A k \in 1..Len(delay) : delay[k] \in Request
      BY <1>1, ElementOfSeq DEF TypeOK
    <2> QED BY <2>1 DEF Request
  <1>6. \A q \in Players : status[q] = "asked" => status'[q] = "asked"
    BY <1>1, <1>2 DEF TypeOK
  <1>7. Loads(status', db, delay, settled)
    BY <1>1, <1>5, <1>6 DEF Loads
  <1> QED BY <1>1, <1>2, <1>3, <1>7 DEF MailInv

LEMMA MarkInv ==
    ASSUME MailInv, NEW p \in Players, NEW m \in Ids,
           HandleMailMarkAsRead(p, m) \/ HandleMailDelete(p, m)
    PROVE  MailInv'
  <1>1. TypeOK /\ Leads(db, delay, settled) /\ Loads(status, db, delay, settled) /\ Memory(player, settled)
    BY DEF MailInv
  <1>2. Has(p, m) /\ UNCHANGED <<status, delay, db, settled>>
    BY MarkIs
  <1>3. PICK st \in {"changed", "deleted"} : player' = [player EXCEPT ![p] = Marked(p, m, st)]
    BY MarkIs
  <1> DEFINE s == Marked(p, m, st)
  <1>4. /\ s.gold = player[p].gold /\ s.bag = player[p].bag
        /\ \A n \in Ids : n # m => s.mails[n] = player[p].mails[n]
        /\ s.mails[m].sender = player[p].mails[m].sender /\ s.mails[m].money = player[p].mails[m].money
        /\ s.mails[m].cod = player[p].mails[m].cod /\ s.mails[m].items = player[p].mails[m].items
    BY <1>1, <1>2, MarkedIs
  <1>5. player[p] # NULL /\ player[p].mails[m] # NULL /\ Remembers(p, player[p], settled)
    BY <1>1, <1>2, MailType DEF Memory
  <1> HIDE DEF s
  <1>6. ASSUME NEW n \in Ids, s.mails[n] # NULL
        PROVE  InTables(p, n, s.mails[n], settled)
    <2>1. CASE n = m
      <3>1. InTables(p, m, player[p].mails[m], settled)
        BY <1>5 DEF Remembers
      <3> QED BY <1>4, <2>1, <3>1 DEF InTables
    <2>2. CASE n # m
      BY <1>4, <1>5, <1>6, <2>2 DEF Remembers
    <2> QED BY <2>1, <2>2
  <1>7. Remembers(p, s, settled)
    BY <1>4, <1>5, <1>6 DEF Remembers
  <1>8. Memory([player EXCEPT ![p] = s], settled)
    BY <1>1, <1>7, KeptIsReflexive, MemoryOfAll DEF TypeOK
  <1>9. TypeOK'
    BY <1>1, MarkType
  <1> QED BY <1>1, <1>2, <1>3, <1>8, <1>9 DEF MailInv, s

\* What is in memory can be stored.
LEMMA RememberedIsStorable ==
    ASSUME NEW p \in Players, NEW pl \in Player, NEW d, Remembers(p, pl, d)
    PROVE  Storable(p, pl, d)
  BY DEF Remembers, InTables, Storable

\* SaveToDB, as the last transaction of a player who stays and of one who leaves.
LEMMA SavedInv ==
    ASSUME MailInv, NEW p \in Players, status[p] = "online", NEW pl \in Player,
           Storable(p, pl, settled), Queued(<<Transaction(SaveRows(p, pl))>>), db' = db,
           \A q \in Players : status[q] = "asked" => status'[q] = "asked"
    PROVE  /\ Leads(db', delay', settled') /\ Loads(status', db', delay', settled')
           /\ Remembers(p, _SaveMail(pl), settled')
           /\ \A q \in Players : q # p => Kept(q, settled, settled')
  <1> DEFINE w == SaveRows(p, pl)
             q == <<Transaction(w)>>
             e == Stored(settled, w)
  <1>1. TypeOK /\ Leads(db, delay, settled) /\ Loads(status, db, delay, settled)
    BY DEF MailInv
  <1>2. settled \in Tables /\ OnePlace(settled)
    BY NowAndSettled
  <1>3. /\ OnePlace(e) /\ Remembers(p, _SaveMail(pl), e)
        /\ \A r \in Players : r # p => Kept(r, settled, e)
    BY <1>2, SaveEffect
  <1>4. w \in Writes /\ Queued(q)
    BY SaveToDBType
  <1> HIDE DEF w
  <1>5. q \in Seq(Request) /\ (\A k \in 1..Len(q) : q[k].op # "query") /\ Leads(settled, q, e)
    BY <1>2, <1>3, <1>4, LeadsOne
  <1>6. \A r \in Players : status[r] = "asked" => status'[r] = "asked" /\ Kept(r, settled, e)
    BY <1>3
  <1> HIDE DEF q, e
  <1>7. settled' = e /\ Leads(db', delay', settled') /\ Loads(status', db', delay', settled')
    BY <1>1, <1>4, <1>5, <1>6, QueuedInv
  <1> QED BY <1>3, <1>7

LEMMA LogoutInv ==
    ASSUME MailInv, NEW p \in Players, LogoutPlayer(p)
    PROVE  MailInv'
  <1> DEFINE pl == player[p]
  <1>1. TypeOK /\ Memory(player, settled)
    BY DEF MailInv
  <1>2. /\ status[p] = "online" /\ status' = [status EXCEPT ![p] = "offline"]
        /\ player' = [player EXCEPT ![p] = NULL]
        /\ Queued(<<Transaction(SaveRows(p, pl))>>) /\ db' = db
    BY DEF LogoutPlayer, SaveToDB
  <1>3. pl \in Player /\ Remembers(p, pl, settled)
    BY <1>1, <1>2, OnlineType, NowAndSettled
  <1>4. Storable(p, pl, settled)
    BY <1>3, RememberedIsStorable
  <1>5. \A q \in Players : status[q] = "asked" => status'[q] = "asked"
    BY <1>1, <1>2 DEF TypeOK
  <1>6. /\ Leads(db', delay', settled') /\ Loads(status', db', delay', settled')
        /\ \A q \in Players : q # p => Kept(q, settled, settled')
    BY <1>2, <1>3, <1>4, <1>5, SavedInv
  <1>7. Memory(player', settled')
    <2> SUFFICES ASSUME NEW q \in Players, player'[q] # NULL
                 PROVE  Remembers(q, player'[q], settled')
      BY DEF Memory
    <2>1. q # p /\ player'[q] = player[q]
      BY <1>1, <1>2 DEF TypeOK
    <2>2. player[q] \in Player /\ Remembers(q, player[q], settled) /\ Kept(q, settled, settled')
      BY <1>6, <2>1, NowAndSettled
    <2> QED BY <2>1, <2>2, RememberedIsKept
  <1>8. TypeOK'
    BY <1>1, LogoutType
  <1> QED BY <1>6, <1>7, <1>8 DEF MailInv

LEMMA SaveInv ==
    ASSUME MailInv, NEW p \in Players, Save(p)
    PROVE  MailInv'
  <1> DEFINE pl == player[p]
  <1>1. TypeOK /\ Memory(player, settled)
    BY DEF MailInv
  <1>2. /\ status[p] = "online" /\ status' = status
        /\ player' = [player EXCEPT ![p] = _SaveMail(pl)]
        /\ Queued(<<Transaction(SaveRows(p, pl))>>) /\ db' = db
    BY DEF Save, SaveToDB
  <1>3. pl \in Player /\ Remembers(p, pl, settled)
    BY <1>1, <1>2, OnlineType, NowAndSettled
  <1>4. Storable(p, pl, settled)
    BY <1>3, RememberedIsStorable
  <1>5. /\ Leads(db', delay', settled') /\ Loads(status', db', delay', settled')
        /\ Remembers(p, _SaveMail(pl), settled')
        /\ \A q \in Players : q # p => Kept(q, settled, settled')
    BY <1>2, <1>3, <1>4, SavedInv
  <1>6. Memory(player', settled')
    BY <1>1, <1>2, <1>5, MemoryOfAll, NowAndSettled
  <1>7. TypeOK'
    BY <1>1, SaveType
  <1> QED BY <1>5, <1>6, <1>7 DEF MailInv

\* Taking the money marks the mail as changed and saves it.
LEMMA TakeMoneyInv ==
    ASSUME MailInv, NEW p \in Players, NEW m \in Ids, HandleMailTakeMoney(p, m)
    PROVE  MailInv'
  <1> DEFINE pl == WithMoney(p, m)
  <1>1. TypeOK /\ Memory(player, settled)
    BY DEF MailInv
  <1>2. /\ Has(p, m) /\ status' = status /\ db' = db
        /\ player' = [player EXCEPT ![p] = _SaveMail(pl)]
        /\ Queued(<<Transaction(SaveRows(p, pl))>>)
    BY TakeMoneyIs
  <1>3. /\ pl \in Player /\ pl.bag = player[p].bag
        /\ \A n \in Ids : n # m => pl.mails[n] = player[p].mails[n]
        /\ pl.mails[m].sender = player[p].mails[m].sender
        /\ pl.mails[m].items = player[p].mails[m].items /\ pl.mails[m].state = "changed"
    BY <1>1, <1>2, WithMoneyIs
  <1>4. /\ status[p] = "online" /\ player[p].mails[m] # NULL /\ player[p] \in Player
        /\ Remembers(p, player[p], settled)
    BY <1>1, <1>2, MailType, NowAndSettled
  <1> HIDE DEF pl
  <1>5. Storable(p, pl, settled)
    <2>1. pl.bag = InBag(settled, p)
      BY <1>3, <1>4 DEF Remembers
    <2>2. ASSUME NEW n \in Ids, pl.mails[n] # NULL
          PROVE  /\ settled.receiver[n] = p /\ settled.sender[n] = pl.mails[n].sender
                 /\ Attached(settled, n) = pl.mails[n].items
                 /\ pl.mails[n].state = "unchanged" =>
                       /\ settled.mailMoney[n] = pl.mails[n].money % ColumnSize
                       /\ settled.cod[n] = pl.mails[n].cod % ColumnSize
      <3>1. player[p].mails[n] # NULL
        BY <1>3, <1>4, <2>2
      <3>2. InTables(p, n, player[p].mails[n], settled)
        BY <1>4, <3>1 DEF Remembers
      <3>3. CASE n = m
        BY <1>3, <3>2, <3>3 DEF InTables
      <3>4. CASE n # m
        BY <1>3, <3>2, <3>4 DEF InTables
      <3> QED BY <3>3, <3>4
    <2> QED BY <2>1, <2>2 DEF Storable
  <1>6. /\ Leads(db', delay', settled') /\ Loads(status', db', delay', settled')
        /\ Remembers(p, _SaveMail(pl), settled')
        /\ \A q \in Players : q # p => Kept(q, settled, settled')
    BY <1>2, <1>3, <1>4, <1>5, SavedInv
  <1>7. Memory(player', settled')
    BY <1>1, <1>2, <1>6, MemoryOfAll, NowAndSettled
  <1>8. TypeOK'
    BY <1>1, TakeMoneyType
  <1> QED BY <1>6, <1>7, <1>8 DEF MailInv

\* Sending: what the sender's items leave.
LEMMA WithoutEffect ==
    ASSUME NEW d \in Tables, NEW p \in Players, NEW I \in SUBSET InBag(d, p)
    PROVE  LET e == Without(d, I)
           IN  /\ \A q : MailsKept(q, d, e)
               /\ \A q \in Players : q # p => Kept(q, d, e)
               /\ InBag(e, p) = InBag(d, p) \ I
  <1> DEFINE e == Without(d, I)
  <1>1. /\ e.money = d.money /\ e.instance = d.instance /\ e.inMail = d.inMail
        /\ e.receiver = d.receiver /\ e.sender = d.sender
        /\ e.mailMoney = d.mailMoney /\ e.cod = d.cod
        /\ \A i \in Items : e.bag[i] = IF i \in I THEN NULL ELSE d.bag[i]
    BY WithoutIs
  <1> HIDE DEF e
  <1>2. \A q : MailsKept(q, d, e)
    BY <1>1 DEF MailsKept, Attached
  <1>3. \A i \in I : d.instance[i] /\ d.bag[i] = p
    BY DEF InBag
  <1>4. \A q \in Players : q # p => InBag(e, q) = InBag(d, q)
    BY <1>1, <1>3, NullIsNoKey DEF InBag
  <1>5. InBag(e, p) = InBag(d, p) \ I
    BY <1>1, NullIsNoKey DEF InBag
  <1> QED BY <1>1, <1>2, <1>4, <1>5 DEF Kept, e

LEMMA SendEffect ==
    ASSUME NEW d \in Tables, OnePlace(d), NEW p \in Players, NEW r \in Players, r # p,
           NEW m \in Ids, d.receiver[m] = NULL, Attached(d, m) = {},
           NEW mail \in Mail, mail.items \subseteq InBag(d, p), NEW pl \in Player
    PROVE  LET requests == SendRequests(p, pl, m, r, mail)
           IN  /\ requests \in Seq(Request) /\ \A k \in 1..Len(requests) : requests[k].op # "query"
               /\ \E e : /\ Leads(d, requests, e)
                         /\ e.money[p] = pl.gold /\ InBag(e, p) = InBag(d, p) \ mail.items
                         /\ MailsKept(p, d, e) /\ InTables(r, m, mail, e)
                         /\ \A q \in Players : q # p => Kept(q, d, e)
                         /\ \A n \in Ids : n # m => e.receiver[n] = d.receiver[n]
  <1> DEFINE I == mail.items
             s == <<Transaction(SentRows(m, r, mail)), Transaction(SaveGold(p, pl))>>
             t == [k \in 1..Cardinality(I) |-> Transaction(TakenOut(SetToSeq(I)[k]))]
             b == Without(d, I)
             c == Stored(b, SentRows(m, r, mail))
             e == Stored(c, SaveGold(p, pl))
  <1>1. I \in SUBSET Items /\ I \in SUBSET InBag(d, p) /\ pl.gold \in 0..MaxGold
    BY DEF Mail, Player
  <1>2. SentRows(m, r, mail) \in Writes /\ SaveGold(p, pl) \in Writes
    BY <1>1, SentType, GoldType
  <1>3. t \in Seq(Request) /\ \A k \in 1..Len(t) : t[k].op # "query"
    BY <1>1, ItemsLeaveType
  <1>4. Leads(d, t, b)
    BY <1>1, ItemsLeave
  <1>5. /\ b \in Tables /\ OnePlace(b) /\ b.instance = d.instance /\ b.inMail = d.inMail
        /\ b.receiver = d.receiver
        /\ \A i \in Items : b.bag[i] = IF i \in I THEN NULL ELSE d.bag[i]
    BY WithoutIs
  <1>6. /\ MailsKept(p, d, b) /\ InBag(b, p) = InBag(d, p) \ I
        /\ \A q \in Players : q # p => Kept(q, d, b)
    BY <1>1, WithoutEffect
  <1> HIDE DEF b, t
  <1>7. b.receiver[m] = NULL /\ Attached(b, m) = {}
    BY <1>5 DEF Attached
  <1>8. \A i \in I : b.instance[i] /\ b.bag[i] = NULL /\ b.inMail[i] \notin Existing(b)
    <2> TAKE i \in I
    <2>1. i \in Items /\ d.instance[i] /\ d.bag[i] = p
      BY <1>1 DEF InBag
    <2>2. d.inMail[i] \notin Existing(d)
      BY <2>1, NullIsNoKey DEF OnePlace
    <2> QED BY <1>5, <2>1, <2>2 DEF Existing
  <1>9. OnePlace(c) /\ InTables(r, m, mail, c) /\ \A q \in Players : Kept(q, b, c)
    BY <1>5, <1>7, <1>8, SentEffect
  <1>10. c \in Tables /\ \A n \in Ids : n # m => c.receiver[n] = b.receiver[n]
    BY <1>5, SentIs
  <1> HIDE DEF c
  <1>11. /\ OnePlace(e) /\ e.money[p] = pl.gold
         /\ \A q \in Players : q # p => Kept(q, c, e)
         /\ \A q : InBag(e, q) = InBag(c, q) /\ MailsKept(q, c, e)
    BY <1>1, <1>9, <1>10, GoldEffect
  <1>21. e.receiver = c.receiver
    BY <1>1, <1>10, GoldIs
  <1>12. s \in Seq(Request) /\ (\A k \in 1..Len(s) : s[k].op # "query") /\ Leads(b, s, e)
    <2>1. OnePlace(Stored(b, SentRows(m, r, mail)))
      BY <1>9 DEF c
    <2>2. OnePlace(Stored(Stored(b, SentRows(m, r, mail)), SaveGold(p, pl)))
      BY <1>11 DEF c
    <2>3. s \in Seq(Request) /\ \A k \in 1..Len(s) : s[k].op # "query"
      BY <1>2, <1>5, <2>1, <2>2, LeadsTwo
    <2>4. Leads(b, s, Stored(Stored(b, SentRows(m, r, mail)), SaveGold(p, pl)))
      BY <1>2, <1>5, <2>1, <2>2, LeadsTwo
    <2> QED BY <2>3, <2>4 DEF c
  <1> HIDE DEF s, e
  <1>13. t \o s = SendRequests(p, pl, m, r, mail)
    BY DEF SendRequests, t, s
  <1>14. Leads(d, t \o s, e)
    BY <1>3, <1>4, <1>12, LeadsConcat
  <1>15. t \o s \in Seq(Request) /\ \A k \in 1..Len(t \o s) : (t \o s)[k].op # "query"
    <2>1. /\ t \o s \in Seq(Request) /\ Len(t \o s) = Len(t) + Len(s) /\ Len(t) \in Nat /\ Len(s) \in Nat
          /\ \A k \in 1..Len(t) : (t \o s)[k] = t[k]
          /\ \A k \in Len(t) + 1..Len(t) + Len(s) : (t \o s)[k] = s[k - Len(t)]
      BY <1>3, <1>12, ConcatProperties, LenProperties
    <2>2. ASSUME NEW k \in 1..Len(t \o s), k > Len(t)
          PROVE  k \in Len(t) + 1..Len(t) + Len(s) /\ k - Len(t) \in 1..Len(s)
      BY <2>1, <2>2
    <2>3. ASSUME NEW k \in 1..Len(t \o s), ~(k > Len(t))
          PROVE  k \in 1..Len(t)
      BY <2>1, <2>3
    <2> QED BY <1>3, <1>12, <2>1, <2>2, <2>3
  <1>16. \A q \in Players : q # p => Kept(q, d, e)
    BY <1>6, <1>9, <1>11, KeptIsTransitive
  <1>17. MailsKept(p, d, e)
    BY <1>6, <1>9, <1>11 DEF Kept, MailsKept
  <1>18. InTables(r, m, mail, e)
    <2>1. c.receiver[m] = r
      BY <1>9 DEF InTables
    <2> QED BY <1>9, <1>11, <2>1 DEF InTables, MailsKept
  <1>19. InBag(e, p) = InBag(d, p) \ I
    BY <1>6, <1>9, <1>11 DEF Kept
  <1>20. \E f : /\ Leads(d, t \o s, f)
                /\ f.money[p] = pl.gold /\ InBag(f, p) = InBag(d, p) \ mail.items
                /\ MailsKept(p, d, f) /\ InTables(r, m, mail, f)
                /\ \A q \in Players : q # p => Kept(q, d, f)
                /\ \A n \in Ids : n # m => f.receiver[n] = d.receiver[n]
    BY <1>5, <1>10, <1>11, <1>14, <1>16, <1>17, <1>18, <1>19, <1>21
  <1> QED BY <1>13, <1>15, <1>20

LEMMA SendMailInv ==
    ASSUME MailInv, NEW p \in Players, NEW r \in Players, NEW I \in SUBSET Items,
           NEW money \in Amounts, NEW cod \in Amounts, HandleSendMail(p, r, I, money, cod)
    PROVE  MailInv'
  <1> DEFINE mail == NewMail(p, money, cod, I, "normal")
             s == [player[p] EXCEPT !.gold = @ - Required(I, money), !.bag = @ \ I]
             players == [player EXCEPT ![p] = s]
  <1>1. CanSend(p, r, I, money) /\ status' = status /\ db' = db
    BY DEF HandleSendMail
  <1>2. PICK m \in GenerateMailID : /\ player' = AddMail(players, m, r, mail)
                                    /\ Queued(SendRequests(p, s, m, r, mail))
    BY DEF HandleSendMail
  <1>3. mail \in Mail /\ mail.items = I
    BY NewMailType, MailAssumption
  <1>4. /\ s \in Player /\ s.bag = player[p].bag \ I /\ s.mails = player[p].mails
        /\ TypeOK
    <2>1. TypeOK
      BY DEF MailInv
    <2>2. s \in Player
      BY <1>1, <2>1, SenderIs
    <2>3. player[p] \in Player
      BY <1>1, <2>1, OnlineType DEF CanSend
    <2>4. s.bag = player[p].bag \ I /\ s.mails = player[p].mails
      BY <2>3 DEF Player
    <2> QED BY <2>1, <2>2, <2>4
  <1>5. /\ Leads(db, delay, settled) /\ Loads(status, db, delay, settled) /\ Memory(player, settled)
        /\ settled \in Tables /\ OnePlace(settled) /\ player \in [Players -> Player \cup {NULL}]
    BY NowAndSettled DEF MailInv
  <1>6. m \in Ids /\ settled.receiver[m] = NULL /\ Attached(settled, m) = {}
    BY <1>5, NowAndSettled, IdIsNew
  <1>7. /\ player[p] # NULL /\ Remembers(p, player[p], settled)
        /\ status[p] = "online" /\ r # p /\ I \subseteq InBag(settled, p)
    <2>1. status[p] = "online" /\ r # p /\ I \subseteq player[p].bag
      BY <1>1 DEF CanSend
    <2>2. player[p] # NULL
      BY <1>4, <2>1, OnlineType
    <2>3. Remembers(p, player[p], settled)
      BY <2>2, NowAndSettled
    <2> QED BY <2>1, <2>2, <2>3 DEF Remembers
  <1> HIDE DEF mail, s
  <1> DEFINE requests == SendRequests(p, s, m, r, mail)
  <1>8. /\ requests \in Seq(Request) /\ \A k \in 1..Len(requests) : requests[k].op # "query"
        /\ \E e : /\ Leads(settled, requests, e)
                  /\ e.money[p] = s.gold /\ InBag(e, p) = InBag(settled, p) \ mail.items
                  /\ MailsKept(p, settled, e) /\ InTables(r, m, mail, e)
                  /\ \A q \in Players : q # p => Kept(q, settled, e)
    BY <1>3, <1>4, <1>5, <1>6, <1>7, SendEffect
  <1>9. PICK e : /\ Leads(settled, requests, e)
                 /\ e.money[p] = s.gold /\ InBag(e, p) = InBag(settled, p) \ mail.items
                 /\ MailsKept(p, settled, e) /\ InTables(r, m, mail, e)
                 /\ \A q \in Players : q # p => Kept(q, settled, e)
    BY <1>8
  <1>10. settled' = e /\ Leads(db', delay', settled') /\ Loads(status', db', delay', settled')
    <2>1. \A q \in Players : status[q] = "asked" => status'[q] = "asked" /\ Kept(q, settled, e)
      BY <1>1, <1>7, <1>9
    <2> QED BY <1>1, <1>2, <1>4, <1>5, <1>8, <1>9, <2>1, QueuedInv
  <1> HIDE DEF requests
  <1>11. Remembers(p, s, e)
    <2>1. s.bag = InBag(e, p) /\ s.gold = e.money[p]
      BY <1>3, <1>4, <1>7, <1>9 DEF Remembers
    <2>2. ASSUME NEW n \in Ids, s.mails[n] # NULL
          PROVE  InTables(p, n, s.mails[n], e)
      <3>1. InTables(p, n, player[p].mails[n], settled)
        BY <1>4, <1>7, <2>2 DEF Remembers
      <3> QED BY <1>4, <1>9, <3>1 DEF InTables, MailsKept
    <2> QED BY <2>1, <2>2 DEF Remembers
  <1>12. Memory(players, e)
    BY <1>5, <1>9, <1>11, MemoryOfAll
  <1>13. /\ players \in [Players -> Player \cup {NULL}]
         /\ r \in Online => players[r] # NULL
    <2>1. s # NULL
      BY <1>4, NullIsNoKey
    <2> QED BY <1>4, <1>5, <2>1, OnlineType
  <1> HIDE DEF players
  <1>14. Memory(player', settled')
    BY <1>2, <1>3, <1>6, <1>9, <1>10, <1>12, <1>13, AddMailRemembered
  <1>15. TypeOK'
    BY <1>4, SendMailType
  <1> QED BY <1>10, <1>14, <1>15 DEF MailInv

\* Returning: the mail is deleted for the receiver and sent to the sender.
LEMMA ReturnInv ==
    ASSUME MailInv, NEW p \in Players, NEW m \in Ids, HandleMailReturnToSender(p, m)
    PROVE  MailInv'
  <1> DEFINE mail == player[p].mails[m]
             I == mail.items
             r == mail.sender
             J == Found(p, m)
             returned == NewMail(p, mail.money, 0, J, "returned")
             s == NoMail(p, m)
             players == [player EXCEPT ![p] = s]
             v == DeletedRows({m}, I)
  <1>1. Has(p, m) /\ status' = status /\ db' = db
    BY ReturnIs
  <1>2. PICK n \in GenerateMailID :
           /\ player' = AddMail(players, n, r, returned)
           /\ Queued(<<Transaction(v), Transaction(SentRows(n, r, returned))>>)
    BY ReturnIs
  <1>3. /\ TypeOK /\ Leads(db, delay, settled) /\ Loads(status, db, delay, settled)
        /\ Memory(player, settled) /\ settled \in Tables /\ OnePlace(settled)
        /\ player \in [Players -> Player \cup {NULL}]
    BY NowAndSettled DEF MailInv
  <1>4. /\ mail \in Mail /\ r \in Players /\ I \in SUBSET Items /\ mail.money \in Nat
        /\ player[p] # NULL /\ mail # NULL /\ status[p] = "online"
    BY <1>1, <1>3, MailType
  <1>4a. J \subseteq I
    BY DEF Found
  <1>5. Remembers(p, player[p], settled)
    BY <1>4, NowAndSettled
  <1>6. /\ settled.receiver[m] = p /\ Attached(settled, m) = I
    BY <1>4, <1>5 DEF Remembers, InTables
  <1>7. returned \in Mail /\ returned.items = J
    BY <1>4, <1>4a, NewMailType
  <1>8. n \in Ids /\ settled.receiver[n] = NULL /\ Attached(settled, n) = {}
    BY <1>3, NowAndSettled, IdIsNew
  <1>9. /\ s \in Player /\ s.gold = player[p].gold /\ s.bag = player[p].bag
        /\ \A k \in Ids : s.mails[k] = IF k = m THEN NULL ELSE player[p].mails[k]
    BY <1>1, <1>3, NoMailIs
  <1>10. players \in [Players -> Player \cup {NULL}] /\ (r \in Online => players[r] # NULL)
    BY <1>3, <1>9, NullIsNoKey, OnlineType
  <1> HIDE DEF mail, I, J, r, returned, s
  <1> DEFINE d == Stored(settled, v)
             e == Stored(d, SentRows(n, r, returned))
  <1>11. \A i \in I : settled.instance[i] /\ settled.inMail[i] = m
    BY <1>6 DEF Attached
  <1>12. {m} \in SUBSET Ids
    OBVIOUS
  <1>13. /\ OnePlace(d)
         /\ \A q \in Players : (\A k \in {m} : settled.receiver[k] # q) => Kept(q, settled, d)
         /\ \A q : InBag(d, q) = InBag(settled, q)
         /\ d.money = settled.money /\ d.bag = settled.bag /\ d.instance = settled.instance
         /\ \A i \in I : d.inMail[i] = NULL
         /\ \A k \in Ids : k \notin {m} =>
               /\ d.receiver[k] = settled.receiver[k] /\ d.sender[k] = settled.sender[k]
               /\ d.mailMoney[k] = settled.mailMoney[k] /\ d.cod[k] = settled.cod[k]
               /\ Attached(d, k) = Attached(settled, k)
    <2>1. \A i \in I : settled.instance[i] => settled.inMail[i] \in {m}
      BY <1>11
    <2> QED BY <1>3, <1>4, <1>12, <2>1, DeletedEffect
  <1>14. v \in Writes /\ SentRows(n, r, returned) \in Writes
    BY <1>4, <1>7, <1>8, <1>12, DeletedType, SentType
  <1>15. d \in Tables
    BY <1>3, <1>14, StoredType
  <1> HIDE DEF d, v
  <1>16. \A q \in Players : q # p => Kept(q, settled, d)
    BY <1>6, <1>13
  <1>17. n # m /\ d.receiver[n] = NULL /\ Attached(d, n) = {}
    BY <1>6, <1>8, <1>13, NullIsNoKey
  <1>18. \A i \in I : d.instance[i] /\ d.bag[i] = NULL /\ d.inMail[i] \notin Existing(d)
    <2> TAKE i \in I
    <2>1. i \in Items /\ settled.instance[i] /\ settled.inMail[i] \in Existing(settled)
      BY <1>4, <1>6, <1>11, NullIsNoKey DEF Existing
    <2>2. settled.bag[i] = NULL
      BY <1>3, <2>1 DEF OnePlace
    <2>3. d.instance[i] /\ d.bag[i] = NULL /\ d.inMail[i] = NULL
      BY <1>13, <2>1, <2>2
    <2> QED BY <2>3, NullIsNoKey DEF Existing
  <1>19. /\ OnePlace(e) /\ InTables(r, n, returned, e)
         /\ \A q \in Players : Kept(q, d, e)
    BY <1>4, <1>4a, <1>7, <1>8, <1>13, <1>15, <1>17, <1>18, SentEffect
  <1> DEFINE q2 == <<Transaction(v), Transaction(SentRows(n, r, returned))>>
  <1>20. q2 \in Seq(Request) /\ (\A k \in 1..Len(q2) : q2[k].op # "query") /\ Leads(settled, q2, e)
    <2>1. OnePlace(Stored(settled, v)) /\ OnePlace(Stored(Stored(settled, v), SentRows(n, r, returned)))
      BY <1>13, <1>19 DEF d
    <2>2. q2 \in Seq(Request) /\ \A k \in 1..Len(q2) : q2[k].op # "query"
      BY <1>3, <1>14, <2>1, LeadsTwo
    <2>3. Leads(settled, q2, Stored(Stored(settled, v), SentRows(n, r, returned)))
      BY <1>3, <1>14, <2>1, LeadsTwo
    <2> QED BY <2>2, <2>3 DEF d
  <1>21. \A q \in Players : q # p => Kept(q, settled, e)
    BY <1>16, <1>19, KeptIsTransitive
  <1> HIDE DEF e, q2
  <1>22. settled' = e /\ Leads(db', delay', settled') /\ Loads(status', db', delay', settled')
    <2>1. \A q \in Players : status[q] = "asked" => status'[q] = "asked" /\ Kept(q, settled, e)
      BY <1>1, <1>4, <1>21
    <2>2. Queued(q2)
      BY <1>2 DEF q2
    <2> QED BY <1>1, <1>3, <1>20, <2>1, <2>2, QueuedInv
  <1>23. Remembers(p, s, d)
    <2>1. s.gold = d.money[p] /\ s.bag = InBag(d, p)
      BY <1>5, <1>9, <1>13 DEF Remembers
    <2>2. ASSUME NEW k \in Ids, s.mails[k] # NULL
          PROVE  InTables(p, k, s.mails[k], d)
      <3>1. k # m /\ s.mails[k] = player[p].mails[k]
        BY <1>9, <2>2
      <3>2. InTables(p, k, player[p].mails[k], settled)
        BY <1>5, <2>2, <3>1 DEF Remembers
      <3> QED BY <1>13, <3>1, <3>2 DEF InTables
    <2> QED BY <2>1, <2>2 DEF Remembers
  <1>24. Remembers(p, s, e)
    BY <1>9, <1>19, <1>23, RememberedIsKept
  <1>25. Memory(players, e)
    BY <1>3, <1>21, <1>24, MemoryOfAll
  <1> HIDE DEF players
  <1>26. Memory(player', settled')
    BY <1>2, <1>4, <1>7, <1>8, <1>10, <1>19, <1>22, <1>25, AddMailRemembered
  <1>27. TypeOK'
    BY <1>3, ReturnType
  <1> QED BY <1>22, <1>26, <1>27 DEF MailInv

\* Taking an item: it is moved, the mail and the gold are saved.
LEMMA TakeEffect ==
    ASSUME TypeOK, NEW p \in Players, NEW m \in Ids, NEW i \in Items, Has(p, m),
           i \in player[p].mails[m].items, player[p].gold >= player[p].mails[m].cod,
           NEW d \in Tables, OnePlace(d), Remembers(p, player[p], d)
    PROVE  LET pl == WithItem(p, m, i)
               e == Stored(d, TakenRows(p, pl, i))
           IN  /\ OnePlace(e) /\ Remembers(p, _SaveMail(pl), e)
               /\ \A q \in Players : q # p => Kept(q, d, e)
               /\ \A n \in Ids : player[p].mails[n] = NULL => SameMail(n, d, e)
  <1> DEFINE pl == WithItem(p, m, i)
             mails == player[p].mails
             c == Stored(d, Moved(i, p))
             e == Stored(c, SaveRows(p, pl))
  <1>1. /\ pl \in Player /\ pl.bag = player[p].bag \cup {i}
        /\ \A n \in Ids : n # m => pl.mails[n] = mails[n]
        /\ pl.mails[m].sender = mails[m].sender /\ pl.mails[m].items = mails[m].items \ {i}
        /\ pl.mails[m].state = "changed"
    BY WithItemIs
  <1>2. player[p] \in Player /\ mails[m] # NULL
    BY MailType
  <1> HIDE DEF pl
  <1>3. \A n \in Ids : mails[n] # NULL => InTables(p, n, mails[n], d)
    BY DEF Remembers
  <1>4. d.receiver[m] = p /\ i \in Attached(d, m)
    BY <1>2, <1>3 DEF InTables
  <1>5. \A n \in Ids : n # m => i \notin Attached(d, n)
    BY <1>4 DEF Attached
  <1>6. i \notin Gone(pl)
    <2> SUFFICES ASSUME NEW n \in InState(pl, "deleted") PROVE i \notin pl.mails[n].items
      BY DEF Gone
    <2>1. n \in Ids /\ pl.mails[n] # NULL /\ n # m
      BY <1>1 DEF InState
    <2>2. pl.mails[n].items = Attached(d, n)
      BY <1>1, <1>3, <2>1 DEF InTables
    <2> QED BY <1>5, <2>1, <2>2
  <1>7. c \in Tables
    BY MovedIs
  <1>7a. /\ c.receiver = d.receiver /\ c.sender = d.sender
         /\ c.mailMoney = d.mailMoney /\ c.cod = d.cod
    BY MovedIs
  <1>8. /\ OnePlace(c) /\ InBag(c, p) = InBag(d, p) \cup {i}
        /\ \A q \in Players : q # p => Kept(q, d, c)
        /\ \A n \in Ids : Attached(c, n) = Attached(d, n) \ {i}
    BY <1>4, MovedEffect
  <1> HIDE DEF c
  <1>9. Storable(p, pl, c)
    <2>1. pl.bag = InBag(c, p)
      BY <1>1, <1>8 DEF Remembers
    <2>2. ASSUME NEW n \in Ids, pl.mails[n] # NULL
          PROVE  /\ c.receiver[n] = p /\ c.sender[n] = pl.mails[n].sender
                 /\ Attached(c, n) = pl.mails[n].items
                 /\ pl.mails[n].state = "unchanged" =>
                       /\ c.mailMoney[n] = pl.mails[n].money % ColumnSize
                       /\ c.cod[n] = pl.mails[n].cod % ColumnSize
      <3>1. CASE n = m
        BY <1>1, <1>2, <1>3, <1>7a, <1>8, <3>1 DEF InTables
      <3>2. CASE n # m
        <4>1. pl.mails[n] = mails[n] /\ InTables(p, n, mails[n], d)
          BY <1>1, <1>3, <2>2, <3>2
        <4>2. Attached(c, n) = Attached(d, n)
          BY <1>5, <1>8, <3>2
        <4> QED BY <1>7a, <4>1, <4>2 DEF InTables
      <3> QED BY <3>1, <3>2
    <2> QED BY <2>1, <2>2 DEF Storable
  <1>10. /\ OnePlace(e) /\ Remembers(p, _SaveMail(pl), e)
         /\ \A q \in Players : q # p => Kept(q, c, e)
         /\ \A n \in Ids : pl.mails[n] = NULL => SameMail(n, c, e)
    BY <1>1, <1>7, <1>8, <1>9, SaveEffect
  <1>11. \A q \in Players : q # p => Kept(q, d, e)
    BY <1>8, <1>10, KeptIsTransitive
  <1>12. Stored(d, TakenRows(p, pl, i)) = e
    BY <1>1, <1>6, TakenIsMovedAndSaved DEF c
  <1> HIDE DEF e
  <1>13. \A n \in Ids : mails[n] = NULL => SameMail(n, d, e)
    <2> TAKE n \in Ids
    <2> HAVE mails[n] = NULL
    <2>1. n # m /\ pl.mails[n] = NULL
      BY <1>1, <1>2
    <2>2. SameMail(n, c, e) /\ Attached(c, n) = Attached(d, n)
      BY <1>5, <1>8, <1>10, <2>1
    <2> QED BY <1>7a, <2>2 DEF SameMail
  <1> QED BY <1>10, <1>11, <1>12, <1>13 DEF pl

LEMMA TakeItemInv ==
    ASSUME MailInv, NEW p \in Players, NEW m \in Ids, NEW i \in Items, OwnTake(p, m, i)
    PROVE  MailInv'
  <1> DEFINE mail == player[p].mails[m]
             r == mail.sender
             pl == WithItem(p, m, i)
             rest == [player EXCEPT ![p] = _SaveMail(pl)]
             w == TakenRows(p, pl, i)
             payment == NewMail(p, mail.cod, 0, {}, "payment")
  <1>1. /\ Has(p, m) /\ i \in mail.items /\ status' = status /\ db' = db
        /\ player[p].gold >= mail.cod
    BY DEF OwnTake, HandleMailTakeItem, Usable
  <1>2. /\ TypeOK /\ Leads(db, delay, settled) /\ Loads(status, db, delay, settled)
        /\ Memory(player, settled) /\ settled \in Tables /\ OnePlace(settled)
        /\ player \in [Players -> Player \cup {NULL}]
    BY NowAndSettled DEF MailInv
  <1>3. /\ status[p] = "online" /\ player[p] # NULL /\ player[p] \in Player
        /\ r \in Players /\ mail.cod \in Nat
    BY <1>1, <1>2, MailType
  <1>4. pl \in Player
    BY <1>1, <1>2, WithItemIs
  <1>5. w \in Writes
    BY <1>4, TakenIs
  <1>6. Remembers(p, player[p], settled)
    BY <1>3, NowAndSettled
  <1>7. \A d \in Tables : OnePlace(d) /\ Remembers(p, player[p], d) =>
           /\ OnePlace(Stored(d, w)) /\ Remembers(p, _SaveMail(pl), Stored(d, w))
           /\ \A q \in Players : q # p => Kept(q, d, Stored(d, w))
           /\ \A n \in Ids : player[p].mails[n] = NULL => SameMail(n, d, Stored(d, w))
    BY <1>1, <1>2, TakeEffect
  <1>8. payment \in Mail /\ payment.items = {}
    BY <1>3, NewMailType
  <1>9. \/ player' = rest /\ Queued(<<Transaction(w)>>)
        \/ \E n \in GenerateMailID :
              /\ player' = AddMail(rest, n, r, payment)
              /\ Queued(<<Transaction(SentRows(n, r, payment)), Transaction(w)>>)
    BY DEF OwnTake, HandleMailTakeItem
  <1>10. TypeOK'
    BY <1>2, TakeItemType DEF OwnTake
  <1>11. rest \in [Players -> Player \cup {NULL}] /\ (r \in Online => rest[r] # NULL)
    <2>1. _SaveMail(pl) \in Player
      BY <1>4, SaveMailIs
    <2> QED BY <1>2, <2>1, NullIsNoKey, OnlineType
  <1> HIDE DEF mail, r, pl, w, payment
  <1>12. CASE player' = rest /\ Queued(<<Transaction(w)>>)
    <2> DEFINE e == Stored(settled, w)
               q1 == <<Transaction(w)>>
    <2>1. /\ OnePlace(e) /\ Remembers(p, _SaveMail(pl), e)
          /\ \A q \in Players : q # p => Kept(q, settled, e)
      BY <1>2, <1>6, <1>7
    <2>2. q1 \in Seq(Request) /\ (\A k \in 1..Len(q1) : q1[k].op # "query") /\ Leads(settled, q1, e)
      BY <1>2, <1>5, <2>1, LeadsOne
    <2>3. \A q \in Players : status[q] = "asked" => status'[q] = "asked" /\ Kept(q, settled, e)
      BY <1>1, <1>3, <2>1
    <2>4. Queued(q1)
      BY <1>12
    <2>5. Memory(rest, e)
      BY <1>2, <2>1, MemoryOfAll
    <2> HIDE DEF e, q1, rest
    <2>6. settled' = e /\ Leads(db', delay', settled') /\ Loads(status', db', delay', settled')
      BY <1>1, <1>2, <2>2, <2>3, <2>4, QueuedInv
    <2> QED BY <1>10, <1>12, <2>5, <2>6 DEF MailInv
  <1>13. CASE \E n \in GenerateMailID :
                 /\ player' = AddMail(rest, n, r, payment)
                 /\ Queued(<<Transaction(SentRows(n, r, payment)), Transaction(w)>>)
    <2>1. PICK n \in GenerateMailID :
                 /\ player' = AddMail(rest, n, r, payment)
                 /\ Queued(<<Transaction(SentRows(n, r, payment)), Transaction(w)>>)
      BY <1>13
    <2> DEFINE v == SentRows(n, r, payment)
               d == Stored(settled, v)
               e == Stored(d, w)
               q2 == <<Transaction(v), Transaction(w)>>
    <2>2. n \in Ids /\ settled.receiver[n] = NULL /\ Attached(settled, n) = {}
      BY <1>2, NowAndSettled, IdIsNew
    <2>3. v \in Writes
      BY <1>3, <1>8, <2>2, SentType
    <2>4. /\ OnePlace(d) /\ InTables(r, n, payment, d)
          /\ \A q \in Players : Kept(q, settled, d)
      BY <1>2, <1>3, <1>8, <2>2, SentEffect
    <2>5. d \in Tables
      BY <1>2, <2>3, StoredType
    <2>6. Remembers(p, player[p], d)
      BY <1>3, <1>6, <2>4, RememberedIsKept
    <2>7. /\ OnePlace(e) /\ Remembers(p, _SaveMail(pl), e)
          /\ \A q \in Players : q # p => Kept(q, d, e)
          /\ \A k \in Ids : player[p].mails[k] = NULL => SameMail(k, d, e)
      BY <1>7, <2>4, <2>5, <2>6
    <2>8. q2 \in Seq(Request) /\ (\A k \in 1..Len(q2) : q2[k].op # "query") /\ Leads(settled, q2, e)
      <3>1. q2 \in Seq(Request) /\ \A k \in 1..Len(q2) : q2[k].op # "query"
        BY <1>2, <1>5, <2>3, <2>4, <2>7, LeadsTwo
      <3>2. Leads(settled, q2, e)
        BY <1>2, <1>5, <2>3, <2>4, <2>7, LeadsTwo
      <3> QED BY <3>1, <3>2
    <2>9. Queued(q2)
      BY <2>1
    <2> HIDE DEF e, d, v, q2
    <2>10. \A q \in Players : q # p => Kept(q, settled, e)
      BY <2>4, <2>7, KeptIsTransitive
    <2>11. settled' = e /\ Leads(db', delay', settled') /\ Loads(status', db', delay', settled')
      <3>1. \A q \in Players : status[q] = "asked" => status'[q] = "asked" /\ Kept(q, settled, e)
        BY <1>1, <1>3, <2>10
      <3> QED BY <1>1, <1>2, <2>8, <2>9, <3>1, QueuedInv
    <2>12. Memory(rest, e)
      BY <1>2, <2>7, <2>10, MemoryOfAll
    <2>13. InTables(r, n, payment, e)
      <3>1. player[p].mails[n] = NULL
        BY <1>6, <2>2, <1>3, NullIsNoKey DEF Remembers, InTables
      <3>2. SameMail(n, d, e)
        BY <2>2, <2>7, <3>1
      <3> QED BY <2>4, <3>2 DEF InTables, SameMail
    <2> HIDE DEF rest
    <2>14. Memory(player', settled')
      BY <1>3, <1>8, <1>11, <2>1, <2>2, <2>11, <2>12, <2>13, AddMailRemembered
    <2> QED BY <1>10, <2>11, <2>14 DEF MailInv
  <1> QED BY <1>9, <1>12, <1>13

\* The database thread: what the first request does was on the way all along, and
\* what a query finds is what the tables will have of the player.
LEMMA RequestInv ==
    ASSUME MailInv, ProcessRequest
    PROVE  MailInv'
  <1>1. /\ TypeOK /\ Leads(db, delay, settled) /\ Loads(status, db, delay, settled)
        /\ Memory(player, settled) /\ db \in Tables /\ settled \in Tables
        /\ player \in [Players -> Player \cup {NULL}]
    BY NowAndSettled DEF MailInv
  <1>2. /\ delay # <<>> /\ delay \in Seq(Request) /\ delay' = Tail(delay)
        /\ settled' = settled /\ db' = Executed(db, Head(delay))
        /\ \/ status' = status /\ player' = player
           \/ \E p \in Players : /\ Head(delay) = Query(p)
                                 /\ status' = [status EXCEPT ![p] = "loaded"]
                                 /\ player' = [player EXCEPT ![p] = LoadFromDB(p)]
    BY <1>1, RequestIs
  <1>3. Leads(db', delay', settled')
    BY <1>1, <1>2, LeadsTail
  <1>4. TypeOK'
    BY <1>1, RequestType
  <1>5. CASE status' = status /\ player' = player
    <2>1. Loads(status, Executed(db, Head(delay)), Tail(delay), settled)
      BY <1>1, <1>2, LoadsTail
    <2> QED BY <1>1, <1>2, <1>3, <1>4, <1>5, <2>1 DEF MailInv
  <1>6. CASE \E p \in Players : /\ Head(delay) = Query(p)
                                /\ status' = [status EXCEPT ![p] = "loaded"]
                                /\ player' = [player EXCEPT ![p] = LoadFromDB(p)]
    <2>1. PICK p \in Players : /\ Head(delay) = Query(p)
                               /\ status' = [status EXCEPT ![p] = "loaded"]
                               /\ player' = [player EXCEPT ![p] = LoadFromDB(p)]
      BY <1>6
    <2>2. \A q \in Players : status[q] = "asked" => status'[q] = "asked" \/ Head(delay) = Query(q)
      BY <1>1, <2>1 DEF TypeOK
    <2>3. Loads(status', Executed(db, Head(delay)), Tail(delay), settled)
      BY <1>1, <1>2, <2>2, LoadsTail
    <2>4. Kept(p, db, settled)
      <3>1. 1 \in 1..Len(delay) /\ delay[1] = Query(p) /\ Len(delay) \in Nat
        BY <1>2, <2>1, HeadTailProperties, LenProperties
      <3>2. delay[1].op = "query" /\ delay[1].player = p
        BY <3>1 DEF Query
      <3>3. Kept(p, After(db, delay)[1 - 1], settled)
        BY <1>1, <3>1, <3>2 DEF Loads
      <3>4. After(db, delay)[0] = db
        BY <3>1, AfterStep
      <3> QED BY <3>3, <3>4
    <2> DEFINE pl == LoadFromDB(p)
    <2>5. /\ pl \in Player /\ pl.gold = db.money[p] /\ pl.bag = InBag(db, p)
          /\ \A m \in Ids : pl.mails[m] # NULL =>
                /\ db.receiver[m] = p /\ pl.mails[m].sender = db.sender[m]
                /\ pl.mails[m].money = db.mailMoney[m] /\ pl.mails[m].cod = db.cod[m]
                /\ pl.mails[m].items = Attached(db, m)
      BY <1>1, LoadIs
    <2> HIDE DEF pl
    <2>6. \A n \in 0..ColumnSize - 1 : n % ColumnSize = n
      BY MailAssumption
    <2>7. ASSUME NEW m \in Ids, pl.mails[m] # NULL
          PROVE  InTables(p, m, pl.mails[m], db)
      <3>1. db.mailMoney[m] \in 0..ColumnSize - 1 /\ db.cod[m] \in 0..ColumnSize - 1
        BY <1>1, TableTypes
      <3> QED BY <2>5, <2>6, <2>7, <3>1 DEF InTables
    <2>8. Remembers(p, pl, db)
      BY <2>5, <2>7 DEF Remembers
    <2>9. Remembers(p, pl, settled)
      BY <2>4, <2>5, <2>8, RememberedIsKept
    <2>10. Memory([player EXCEPT ![p] = pl], settled)
      BY <1>1, <2>9, KeptIsReflexive, MemoryOfAll
    <2> QED BY <1>2, <1>3, <1>4, <2>1, <2>3, <2>10 DEF MailInv, pl
  <1> QED BY <1>2, <1>5, <1>6

\* An old mail, once the database has caught up and while its receiver is away.
LEMMA QuietReturnInv ==
    ASSUME MailInv, NEW m \in Ids, QuietReturn(m)
    PROVE  MailInv'
  <1> DEFINE r == db.receiver[m]
  <1>1. /\ TypeOK /\ Leads(db, delay, settled) /\ Loads(status, db, delay, settled)
        /\ Memory(player, settled) /\ db \in Tables /\ OnePlace(db)
        /\ player \in [Players -> Player \cup {NULL}]
    BY NowAndSettled DEF MailInv
  <1>2. /\ m \in Existing(db) /\ Queued(ReturnOrDelete(m)) /\ ReturnOrDeleteOldMails(m)
        /\ status' = status /\ player' = player /\ db' = db
        /\ status[r] = "offline" /\ settled = db
    BY NowAndSettled DEF QuietReturn, ReturnOrDeleteOldMails
  <1>3. r \in Players /\ r # NULL /\ {m} \in SUBSET Existing(db) /\ {m} \in SUBSET Ids
    BY <1>1, <1>2, TableTypes DEF Existing
  <1>4. TypeOK'
    BY <1>1, <1>2, OldMailsType
  <1> HIDE DEF r
  <1>5. \E e : /\ ReturnOrDelete(m) \in Seq(Request)
               /\ \A k \in 1..Len(ReturnOrDelete(m)) : ReturnOrDelete(m)[k].op # "query"
               /\ Leads(db, ReturnOrDelete(m), e)
               /\ \A q \in Players : q # r => Kept(q, db, e)
    <2>1. CASE Returnable(m)
      <3> DEFINE w == ReturnedRows({m})
                 e == Stored(db, w)
                 q1 == <<Transaction(w)>>
      <3>1. w \in Writes
        BY <1>1, <1>3, ReturnedType
      <3>2. OnePlace(e) /\ \A q \in Players : (\A k \in {m} : db.receiver[k] # q) => Kept(q, db, e)
        BY <1>1, <1>3, ReturnedEffect
      <3>3. \A q \in Players : q # r => Kept(q, db, e)
        BY <3>2 DEF r
      <3>4. q1 \in Seq(Request) /\ (\A k \in 1..Len(q1) : q1[k].op # "query") /\ Leads(db, q1, e)
        BY <1>1, <3>1, <3>2, LeadsOne
      <3>5. ReturnOrDelete(m) = q1
        BY <2>1 DEF ReturnOrDelete
      <3> HIDE DEF q1, e
      <3> QED BY <3>3, <3>4, <3>5
    <2>2. CASE ~Returnable(m)
      <3> DEFINE v == DestroyedRows({m})
                 w == DeletedRows({m}, {})
                 d == Stored(db, v)
                 e == Stored(d, w)
                 q2 == <<Transaction(v), Transaction(w)>>
      <3>1. v \in Writes /\ w \in Writes
        BY <1>3, DestroyedType, DeletedType
      <3>2. d \in Tables
        BY <1>1, <3>1, StoredType
      <3>3. /\ OnePlace(d) /\ d.receiver = db.receiver
            /\ \A q \in Players : (\A k \in {m} : db.receiver[k] # q) => Kept(q, db, d)
        <4>1. \A k \in {m} : db.receiver[k] # NULL
          BY <1>3 DEF r
        <4> QED BY <1>1, <1>3, <4>1, DestroyedEffect
      <3> HIDE DEF d
      <3>4. /\ OnePlace(e)
            /\ \A q \in Players : (\A k \in {m} : d.receiver[k] # q) => Kept(q, d, e)
        BY <1>3, <3>2, <3>3, DeletedEffect
      <3>5. \A q \in Players : q # r => Kept(q, db, d) /\ Kept(q, d, e)
        BY <3>3, <3>4 DEF r
      <3>6. \A q \in Players : q # r => Kept(q, db, e)
        BY <3>5, KeptIsTransitive
      <3>7. q2 \in Seq(Request) /\ (\A k \in 1..Len(q2) : q2[k].op # "query") /\ Leads(db, q2, e)
        <4>1. OnePlace(Stored(db, v)) /\ OnePlace(Stored(Stored(db, v), w))
          BY <3>3, <3>4 DEF d
        <4>2. q2 \in Seq(Request) /\ \A k \in 1..Len(q2) : q2[k].op # "query"
          BY <1>1, <3>1, <4>1, LeadsTwo
        <4>3. Leads(db, q2, Stored(Stored(db, v), w))
          BY <1>1, <3>1, <4>1, LeadsTwo
        <4> QED BY <4>2, <4>3 DEF d
      <3>8. ReturnOrDelete(m) = q2
        BY <2>2 DEF ReturnOrDelete
      <3> HIDE DEF q2, e
      <3> QED BY <3>6, <3>7, <3>8
    <2> QED BY <2>1, <2>2
  <1>6. PICK e : /\ ReturnOrDelete(m) \in Seq(Request)
                 /\ \A k \in 1..Len(ReturnOrDelete(m)) : ReturnOrDelete(m)[k].op # "query"
                 /\ Leads(db, ReturnOrDelete(m), e)
                 /\ \A q \in Players : q # r => Kept(q, db, e)
    BY <1>5
  <1>7. \A q \in Players : status[q] = "asked" => status'[q] = "asked" /\ Kept(q, settled, e)
    BY <1>2, <1>6
  <1>8. settled' = e /\ Leads(db', delay', settled') /\ Loads(status', db', delay', settled')
    <2>1. Leads(settled, ReturnOrDelete(m), e)
      BY <1>2, <1>6
    <2> QED BY <1>1, <1>2, <1>6, <1>7, <2>1, QueuedInv
  <1>9. Memory(player', settled')
    <2> SUFFICES ASSUME NEW q \in Players, player[q] # NULL
                 PROVE  Remembers(q, player[q], e)
      BY <1>2, <1>8 DEF Memory
    <2>1. q # r /\ player[q] \in Player /\ Remembers(q, player[q], db)
      BY <1>1, <1>2 DEF TypeOK, Memory
    <2> QED BY <1>6, <2>1, RememberedIsKept
  <1> QED BY <1>4, <1>8, <1>9 DEF MailInv

LEMMA RestartInv ==
    ASSUME MailInv, NEW old, Restart(old)
    PROVE  MailInv'
  <1>1. TypeOK /\ db \in Tables /\ OnePlace(db)
    BY NowAndSettled DEF MailInv
  <1>2. /\ OnePlace(db') /\ settled' = db' /\ delay' = <<>>
        /\ player' = [p \in Players |-> NULL]
    BY <1>1, RestartIs
  <1>3. TypeOK'
    BY <1>1, RestartType
  <1>4. Len(<<>>) = 0
    OBVIOUS
  <1>5. Leads(db', delay', settled')
    BY <1>2, <1>4, AfterFew DEF Leads
  <1>6. Loads(status', db', delay', settled')
    BY <1>2, <1>4 DEF Loads
  <1>7. Memory(player', settled')
    BY <1>2 DEF Memory
  <1> QED BY <1>3, <1>5, <1>6, <1>7 DEF MailInv

LEMMA MailInvCorrect == QuietSpec => []MailInv
  <1>1. Init => MailInv
    BY InitInv
  <1>2. MailInv /\ [QuietNext]_vars => MailInv'
    <2> SUFFICES ASSUME MailInv, [QuietNext]_vars PROVE MailInv'
      OBVIOUS
    <2>1. CASE UNCHANGED vars
      <3>1. TypeOK'
        BY <2>1 DEF MailInv, TypeOK, vars
      <3> QED BY <2>1, <3>1 DEF MailInv, vars
    <2>2. CASE \E p \in Players : OtherStep(p)
      BY <2>2, LoginOpcodeInv, LoginInv, LogoutInv, SaveInv, SendMailInv, MarkInv,
         ReturnInv, TakeMoneyInv DEF OtherStep
    <2>2a. CASE \E p \in Players, m \in Ids, i \in Items : OwnTake(p, m, i)
      BY <2>2a, TakeItemInv
    <2>3. CASE ProcessRequest
      BY <2>3, RequestInv
    <2>4. CASE \E m \in Ids : QuietReturn(m)
      BY <2>4, QuietReturnInv
    <2>5. CASE CrashStep
      BY <2>5, RestartInv DEF CrashStep
    <2> QED BY <2>1, <2>2, <2>2a, <2>3, <2>4, <2>5 DEF QuietNext
  <1> QED BY <1>1, <1>2, PTL DEF QuietSpec

\* NoItemTwice: however many requests are under way, no item is in two inventories
\* or mails in memory, nor in an inventory and a mail on disk.
THEOREM NoItemTwiceCorrect == QuietSpec => []NoItemTwice
  <1>1. MailInv => NoItemTwice
    <2> SUFFICES ASSUME MailInv PROVE NoItemTwice
      OBVIOUS
    <2>1. OnePlace(db) /\ OnePlace(settled) /\ settled \in Tables
      BY NowAndSettled
    <2>2. \A p \in Present : p \in Players /\ Remembers(p, player[p], settled)
      BY NowAndSettled DEF Present
    <2>3. ASSUME NEW p \in Present
          PROVE  /\ \A i \in player[p].bag : i \in Items /\ settled.instance[i] /\ settled.bag[i] = p
                 /\ \A m \in Mails(p) : /\ m \in Ids /\ settled.receiver[m] = p
                                        /\ \A i \in player[p].mails[m].items :
                                              i \in Items /\ settled.instance[i] /\ settled.inMail[i] = m
      <3>1. player[p].bag = InBag(settled, p)
        BY <2>2 DEF Remembers
      <3>2. \A m \in Mails(p) : m \in Ids /\ InTables(p, m, player[p].mails[m], settled)
        BY <2>2 DEF Remembers, Mails
      <3> QED BY <3>1, <3>2 DEF InBag, InTables, Attached
    <2>4. ASSUME NEW p \in Present, NEW i \in Held(p)
          PROVE  \E m \in Mails(p) : /\ i \in player[p].mails[m].items
                                     /\ i \in Items /\ settled.instance[i] /\ settled.inMail[i] = m
                                     /\ settled.receiver[m] = p
      BY <2>3 DEF Held
    <2>5. ASSUME NEW p \in Present, NEW q \in Present, NEW i \in player[p].bag, i \in Held(q)
          PROVE  FALSE
      <3>1. i \in Items /\ settled.instance[i] /\ settled.bag[i] = p /\ p \in Players
        BY <2>2, <2>3
      <3>2. settled.inMail[i] \in Existing(settled)
        <4>1. PICK m \in Mails(q) : settled.inMail[i] = m /\ settled.receiver[m] = q
          BY <2>4, <2>5
        <4>2. m \in Ids /\ q \in Players
          BY <2>2 DEF Mails
        <4> QED BY <4>1, <4>2, NullIsNoKey DEF Existing
      <3> QED BY <2>1, <3>1, <3>2, NullIsNoKey DEF OnePlace
    <2>6. ASSUME NEW p \in Present, NEW q \in Present, p # q
          PROVE  (player[p].bag \cup Held(p)) \cap (player[q].bag \cup Held(q)) = {}
      <3>1. player[p].bag \cap player[q].bag = {}
        BY <2>3, <2>6
      <3>2. Held(p) \cap Held(q) = {}
        BY <2>4, <2>6
      <3> QED BY <2>5, <3>1, <3>2
    <2>7. ASSUME NEW p \in Present
          PROVE  /\ player[p].bag \cap Held(p) = {}
                 /\ \A m, n \in Mails(p) : m # n =>
                       player[p].mails[m].items \cap player[p].mails[n].items = {}
      BY <2>3, <2>5
    <2>8. \A i \in Items : db.instance[i] /\ db.bag[i] # NULL => db.inMail[i] \notin Existing(db)
      BY <2>1 DEF OnePlace
    <2> QED BY <2>6, <2>7, <2>8 DEF NoItemTwice
  <1> QED BY <1>1, MailInvCorrect, PTL

(***************************************************************************)
(* The sums in memory.                                                     *)
(***************************************************************************)
\* The sums clients enter fit the columns they are stored in, and a column half a word.
AmountsFit ==
    /\ ColumnSize <= WordSize \div 2
    /\ \A n \in Amounts : n < ColumnSize
    /\ \A n \in Amounts, I \in SUBSET Items : Postage(I) + n < WordSize

Fits(pl) ==
    \A m \in Ids : pl.mails[m] # NULL => pl.mails[m].money < ColumnSize /\ pl.mails[m].cod < ColumnSize

SumsFit == \A p \in Players : player[p] # NULL => Fits(player[p])

LEMMA OthersFit ==
    ASSUME TypeOK, SumsFit, NEW p \in Players, NEW pl, Fits(pl), player' = [player EXCEPT ![p] = pl]
    PROVE  SumsFit'
  BY DEF TypeOK, SumsFit

LEMMA SavedFits ==
    ASSUME NEW pl \in Player, Fits(pl)
    PROVE  Fits(_SaveMail(pl))
  <1> DEFINE s == _SaveMail(pl)
  <1>1. \A m \in Ids : s.mails[m] # NULL =>
           /\ pl.mails[m] # NULL
           /\ s.mails[m].money = pl.mails[m].money /\ s.mails[m].cod = pl.mails[m].cod
    BY SaveMailIs
  <1> HIDE DEF s
  <1>2. Fits(s)
    BY <1>1 DEF Fits
  <1> QED BY <1>2 DEF s

\* The mail that is added fits as well.
LEMMA AddedFits ==
    ASSUME NEW players \in [Players -> Player \cup {NULL}], NEW r \in Players,
           r \in Online => players[r] # NULL, NEW m \in Ids, NEW mail \in Mail,
           \A p \in Players : players[p] # NULL => Fits(players[p]),
           mail.money < ColumnSize, mail.cod < ColumnSize, player' = AddMail(players, m, r, mail)
    PROVE  SumsFit'
  <1> DEFINE a == AddMail(players, m, r, mail)
  <1>1. /\ \A q \in Players : a[q] = NULL <=> players[q] = NULL
        /\ \A q \in Players : q # r => a[q] = players[q]
        /\ a[r] = players[r] \/
              \A n \in Ids : a[r].mails[n] = IF n = m THEN mail ELSE players[r].mails[n]
    BY AddMailIs
  <1> HIDE DEF a
  <1>2. ASSUME NEW p \in Players, a[p] # NULL
        PROVE  Fits(a[p])
    <2>1. Fits(players[p])
      BY <1>1, <1>2
    <2>2. CASE a[p] = players[p]
      BY <2>1, <2>2
    <2>3. CASE a[p] # players[p]
      <3>1. \A n \in Ids : a[p].mails[n] = IF n = m THEN mail ELSE players[p].mails[n]
        BY <1>1, <2>3
      <3>2. ASSUME NEW n \in Ids, a[p].mails[n] # NULL
            PROVE  a[p].mails[n].money < ColumnSize /\ a[p].mails[n].cod < ColumnSize
        <4>1. CASE n = m
          BY <3>1, <4>1
        <4>2. CASE n # m
          BY <2>1, <3>1, <3>2, <4>2 DEF Fits
        <4> QED BY <4>1, <4>2
      <3> QED BY <3>2 DEF Fits
    <2> QED BY <2>2, <2>3
  <1> QED BY <1>2 DEF SumsFit, a

LEMMA LoginFits ==
    ASSUME TypeOK, SumsFit, ProcessRequest
    PROVE  SumsFit'
  <1>1. CASE player' = player
    BY <1>1 DEF SumsFit
  <1>2. CASE \E p \in Players : player' = [player EXCEPT ![p] = LoadFromDB(p)]
    <2>1. PICK p \in Players : player' = [player EXCEPT ![p] = LoadFromDB(p)]
      BY <1>2
    <2> DEFINE pl == LoadFromDB(p)
    <2>2. db \in Tables
      BY DEF TypeOK
    <2>3. \A m \in Ids : pl.mails[m] # NULL =>
             pl.mails[m].money = db.mailMoney[m] /\ pl.mails[m].cod = db.cod[m]
      BY <2>2, LoadIs
    <2>4. \A m \in Ids : db.mailMoney[m] < ColumnSize /\ db.cod[m] < ColumnSize
      BY <2>2, TableTypes, MailAssumption
    <2> HIDE DEF pl
    <2>5. Fits(pl)
      BY <2>3, <2>4 DEF Fits
    <2> QED BY <2>1, <2>5, OthersFit DEF pl
  <1> QED BY <1>1, <1>2, RequestIs

LEMMA SendFits ==
    ASSUME TypeOK, SumsFit, AmountsFit, NEW p \in Players, NEW r \in Players, NEW I \in SUBSET Items,
           NEW money \in Amounts, NEW cod \in Amounts, HandleSendMail(p, r, I, money, cod)
    PROVE  SumsFit'
  <1> DEFINE mail == NewMail(p, money, cod, I, "normal")
             s == [player[p] EXCEPT !.gold = @ - Required(I, money), !.bag = @ \ I]
             players == [player EXCEPT ![p] = s]
  <1>1. CanSend(p, r, I, money)
    BY DEF HandleSendMail
  <1>2. PICK m \in GenerateMailID : player' = AddMail(players, m, r, mail)
    BY DEF HandleSendMail
  <1>3. mail \in Mail /\ mail.money = money /\ mail.cod = cod
    BY NewMailType, MailAssumption DEF NewMail
  <1>4. s \in Player
    BY <1>1, SenderIs
  <1>5. player[p] \in Player /\ player[p] # NULL
    BY <1>1, OnlineType DEF CanSend
  <1>6. s.mails = player[p].mails
    BY <1>5 DEF Player
  <1> HIDE DEF s, mail
  <1>7. player \in [Players -> Player \cup {NULL}] /\ m \in Ids
    BY DEF TypeOK, GenerateMailID
  <1>8. players \in [Players -> Player \cup {NULL}] /\ (r \in Online => players[r] # NULL)
    BY <1>4, <1>7, NullIsNoKey, OnlineType
  <1>9. \A q \in Players : players[q] # NULL => Fits(players[q])
    BY <1>5, <1>6, <1>7 DEF SumsFit, Fits
  <1> HIDE DEF players
  <1> QED BY <1>2, <1>3, <1>7, <1>8, <1>9, AddedFits DEF AmountsFit

LEMMA MarkFits ==
    ASSUME TypeOK, SumsFit, NEW p \in Players, NEW m \in Ids,
           HandleMailMarkAsRead(p, m) \/ HandleMailDelete(p, m)
    PROVE  SumsFit'
  <1>1. Has(p, m)
    BY MarkIs
  <1>2. PICK st \in {"changed", "deleted"} : player' = [player EXCEPT ![p] = Marked(p, m, st)]
    BY MarkIs
  <1> DEFINE s == Marked(p, m, st)
  <1>3. /\ \A n \in Ids : n # m => s.mails[n] = player[p].mails[n]
        /\ s.mails[m].money = player[p].mails[m].money /\ s.mails[m].cod = player[p].mails[m].cod
    BY <1>1, MarkedIs
  <1>4. player[p] # NULL /\ player[p].mails[m] # NULL
    BY <1>1, MailType
  <1> HIDE DEF s
  <1>5. Fits(s)
    BY <1>3, <1>4 DEF SumsFit, Fits
  <1> QED BY <1>2, <1>5, OthersFit DEF s

LEMMA ReturnFits ==
    ASSUME TypeOK, SumsFit, NEW p \in Players, NEW m \in Ids, HandleMailReturnToSender(p, m)
    PROVE  SumsFit'
  <1> DEFINE mail == player[p].mails[m]
             returned == NewMail(p, mail.money, 0, Found(p, m), "returned")
             s == NoMail(p, m)
             players == [player EXCEPT ![p] = s]
  <1>1. Has(p, m)
    BY ReturnIs
  <1>2. PICK n \in GenerateMailID : player' = AddMail(players, n, mail.sender, returned)
    BY ReturnIs
  <1>3. /\ mail \in Mail /\ mail # NULL /\ mail.sender \in Players /\ mail.items \in SUBSET Items
        /\ mail.money \in Nat /\ player[p] # NULL
    BY <1>1, MailType
  <1>4. returned \in Mail /\ returned.money = mail.money /\ returned.cod = 0
    <2>1. Found(p, m) \in SUBSET Items
      BY <1>3 DEF Found
    <2> QED BY <1>3, <2>1, NewMailType DEF NewMail
  <1>5. s \in Player /\ \A k \in Ids : s.mails[k] = IF k = m THEN NULL ELSE player[p].mails[k]
    BY <1>1, NoMailIs
  <1>6. mail.money < ColumnSize /\ 0 < ColumnSize
    BY <1>3, MailAssumption DEF SumsFit, Fits
  <1> HIDE DEF mail, returned, s
  <1>7. player \in [Players -> Player \cup {NULL}] /\ n \in Ids
    BY DEF TypeOK, GenerateMailID
  <1>8. /\ players \in [Players -> Player \cup {NULL}]
        /\ (mail.sender \in Online => players[mail.sender] # NULL)
    BY <1>5, <1>7, NullIsNoKey, OnlineType
  <1>9. \A q \in Players : players[q] # NULL => Fits(players[q])
    BY <1>3, <1>5, <1>7 DEF SumsFit, Fits
  <1> HIDE DEF players
  <1> QED BY <1>2, <1>3, <1>4, <1>6, <1>7, <1>8, <1>9, AddedFits

LEMMA TakeMoneyFits ==
    ASSUME TypeOK, SumsFit, NEW p \in Players, NEW m \in Ids, HandleMailTakeMoney(p, m)
    PROVE  SumsFit'
  <1> DEFINE pl == WithMoney(p, m)
  <1>1. Has(p, m) /\ player' = [player EXCEPT ![p] = _SaveMail(pl)]
    BY TakeMoneyIs
  <1>2. /\ pl \in Player /\ \A n \in Ids : n # m => pl.mails[n] = player[p].mails[n]
        /\ pl.mails[m].money = 0 /\ pl.mails[m].cod = player[p].mails[m].cod
    BY <1>1, WithMoneyIs
  <1>3. player[p] # NULL /\ player[p].mails[m] # NULL /\ 0 < ColumnSize
    BY <1>1, MailType, MailAssumption
  <1> HIDE DEF pl
  <1>4. Fits(pl)
    BY <1>2, <1>3 DEF SumsFit, Fits
  <1> QED BY <1>1, <1>2, <1>4, SavedFits, OthersFit

LEMMA TakeItemFits ==
    ASSUME TypeOK, SumsFit, NEW p \in Players, NEW m \in Ids, NEW i \in Items,
           HandleMailTakeItem(p, m, i)
    PROVE  SumsFit'
  <1> DEFINE mail == player[p].mails[m]
             pl == WithItem(p, m, i)
             rest == [player EXCEPT ![p] = _SaveMail(pl)]
             payment == NewMail(p, mail.cod, 0, {}, "payment")
  <1>1. Has(p, m) /\ player[p].gold >= mail.cod
    BY DEF HandleMailTakeItem, Usable
  <1>2. /\ pl \in Player /\ \A n \in Ids : n # m => pl.mails[n] = player[p].mails[n]
        /\ pl.mails[m].money = mail.money /\ pl.mails[m].cod = 0
    BY <1>1, WithItemIs
  <1>3. /\ player[p] # NULL /\ mail # NULL /\ 0 < ColumnSize
        /\ mail.sender \in Players /\ mail.cod \in Nat
    BY <1>1, MailType, MailAssumption
  <1>4. mail.cod < ColumnSize /\ mail.money < ColumnSize
    BY <1>3 DEF SumsFit, Fits
  <1>5. payment \in Mail /\ payment.money = mail.cod /\ payment.cod = 0
    BY <1>3, NewMailType DEF NewMail
  <1>6. \/ player' = rest
        \/ \E n \in GenerateMailID : player' = AddMail(rest, n, mail.sender, payment)
    BY DEF HandleMailTakeItem
  <1>7. player \in [Players -> Player \cup {NULL}] /\ \A n \in GenerateMailID : n \in Ids
    BY DEF TypeOK, GenerateMailID
  <1> HIDE DEF pl, payment
  <1>8. Fits(pl)
    BY <1>2, <1>3, <1>4 DEF SumsFit, Fits
  <1> HIDE DEF mail
  <1>9. _SaveMail(pl) \in Player /\ Fits(_SaveMail(pl))
    BY <1>2, <1>8, SavedFits, SaveMailIs
  <1>10. CASE player' = rest
    BY <1>9, <1>10, OthersFit
  <1>11. CASE \E n \in GenerateMailID : player' = AddMail(rest, n, mail.sender, payment)
    <2>1. PICK n \in GenerateMailID : player' = AddMail(rest, n, mail.sender, payment)
      BY <1>11
    <2>2. rest \in [Players -> Player \cup {NULL}] /\ (mail.sender \in Online => rest[mail.sender] # NULL)
      BY <1>3, <1>7, <1>9, NullIsNoKey, OnlineType
    <2>3. \A q \in Players : rest[q] # NULL => Fits(rest[q])
      BY <1>7, <1>9 DEF SumsFit
    <2> HIDE DEF rest
    <2> QED BY <1>3, <1>4, <1>5, <1>7, <2>1, <2>2, <2>3, AddedFits
  <1> QED BY <1>6, <1>10, <1>11

LEMMA PlayerFits ==
    ASSUME TypeOK, SumsFit, AmountsFit, NEW p \in Players, PlayerStep(p)
    PROVE  SumsFit'
  <1>1. CASE HandlePlayerLoginOpcode(p) \/ HandlePlayerLogin(p)
    BY <1>1 DEF HandlePlayerLoginOpcode, HandlePlayerLogin, SumsFit
  <1>2. CASE LogoutPlayer(p)
    BY <1>2 DEF LogoutPlayer, SumsFit, TypeOK
  <1>3. CASE Save(p)
    <2>1. status[p] = "online" /\ player' = [player EXCEPT ![p] = _SaveMail(player[p])]
      BY <1>3 DEF Save
    <2>2. player[p] \in Player /\ Fits(player[p])
      BY <2>1, OnlineType DEF SumsFit
    <2> QED BY <2>1, <2>2, SavedFits, OthersFit
  <1>4. CASE OtherStep(p)
    BY <1>1, <1>2, <1>3, <1>4, SendFits, MarkFits, ReturnFits, TakeMoneyFits DEF OtherStep
  <1>5. CASE \E m \in Ids, i \in Items : HandleMailTakeItem(p, m, i)
    BY <1>5, TakeItemFits
  <1> QED BY <1>4, <1>5 DEF PlayerStep

LEMMA SumsFitCorrect == ASSUME AmountsFit PROVE Spec => []SumsFit
  <1>1. Init => SumsFit
    BY DEF Init, SumsFit
  <1>2. TypeOK /\ SumsFit /\ [Next]_vars => SumsFit'
    <2> SUFFICES ASSUME TypeOK, SumsFit, [Next]_vars PROVE SumsFit'
      OBVIOUS
    <2>1. CASE UNCHANGED vars
      BY <2>1 DEF vars, SumsFit
    <2>2. CASE \E p \in Players : PlayerStep(p)
      BY <2>2, PlayerFits
    <2>3. CASE ProcessRequest
      BY <2>3, LoginFits
    <2>4. CASE \E m \in Ids : ReturnOrDeleteOldMails(m)
      BY <2>4 DEF ReturnOrDeleteOldMails, SumsFit
    <2>5. CASE CrashStep
      BY <2>5 DEF CrashStep, Restart, SumsFit
    <2> QED BY <2>1, <2>2, <2>3, <2>4, <2>5 DEF Next
  <1> QED BY <1>1, <1>2, TypeCorrect, PTL DEF Spec

\* The behaviours of QuietSpec are some of those of Spec.
LEMMA QuietIsSpec == QuietSpec => Spec
  <1>1. [QuietNext]_vars => [Next]_vars
    BY DEF QuietNext, Next, QuietReturn, PlayerStep, OwnTake
  <1> QED BY <1>1, PTL DEF QuietSpec, Spec

\* MemoryIsStored: if the sums fit, what a player has in memory is what the
\* database will have, however many requests are under way.
THEOREM MemoryIsStoredCorrect == ASSUME AmountsFit PROVE QuietSpec => []MemoryIsStored
  <1>1. MailInv /\ SumsFit => MemoryIsStored
    <2> SUFFICES ASSUME MailInv, SumsFit, NEW p \in Online
                 PROVE  /\ player[p].gold = settled.money[p]
                        /\ player[p].bag = InBag(settled, p)
                        /\ \A m \in Mails(p) :
                              LET mail == player[p].mails[m]
                              IN  /\ settled.receiver[m] = p /\ settled.sender[m] = mail.sender
                                  /\ settled.mailMoney[m] = mail.money /\ settled.cod[m] = mail.cod
                                  /\ Attached(settled, m) = mail.items
      BY DEF MemoryIsStored
    <2>1. /\ p \in Players /\ player[p] # NULL /\ player[p] \in Player /\ Remembers(p, player[p], settled)
          /\ TypeOK
      BY OnlineType, NowAndSettled DEF MailInv
    <2>2. ASSUME NEW m \in Mails(p)
          PROVE  LET mail == player[p].mails[m]
                 IN  /\ settled.receiver[m] = p /\ settled.sender[m] = mail.sender
                     /\ settled.mailMoney[m] = mail.money /\ settled.cod[m] = mail.cod
                     /\ Attached(settled, m) = mail.items
      <3> DEFINE mail == player[p].mails[m]
      <3>1. m \in Ids /\ mail # NULL
        BY DEF Mails
      <3>2. InTables(p, m, mail, settled)
        BY <2>1, <3>1 DEF Remembers
      <3>3. mail \in Mail
        BY <2>1, <3>1 DEF Player
      <3>4. mail.money \in Nat /\ mail.money < ColumnSize /\ mail.cod \in Nat /\ mail.cod < ColumnSize
        BY <2>1, <3>1, <3>3 DEF SumsFit, Fits, Mail
      <3> HIDE DEF mail
      <3>5. mail.money % ColumnSize = mail.money /\ mail.cod % ColumnSize = mail.cod
        BY <3>4, MailAssumption
      <3> QED BY <3>2, <3>5 DEF InTables, mail
    <2> QED BY <2>1, <2>2 DEF Remembers
  <1> QED BY <1>1, MailInvCorrect, SumsFitCorrect, QuietIsSpec, PTL

(***************************************************************************)
(* The gold.  What the mails lose and the players gain adds up.            *)
(***************************************************************************)
\* The gold in each mail there is in tables d.
MailGold(d) == [m \in Ids |-> IF d.receiver[m] # NULL THEN d.mailMoney[m] ELSE 0]

LEMMA MailGoldType ==
    ASSUME NEW d \in Tables
    PROVE  \A m \in Ids : MailGold(d)[m] \in Nat
  BY TableTypes, MailAssumption DEF MailGold

LEMMA TotalIs ==
    ASSUME NEW d \in Tables
    PROVE  /\ SumFunctionOnSet(d.money, Players) \in Int
           /\ SumFunctionOnSet(MailGold(d), Ids) \in Int
           /\ TotalGold(d) = SumFunctionOnSet(d.money, Players) + SumFunctionOnSet(MailGold(d), Ids)
  <1>1. IsFiniteSet(Players) /\ IsFiniteSet(Ids)
    BY MailAssumption
  <1>2. \A p \in Players : d.money[p] \in Int
    BY TableTypes, MailAssumption
  <1>3. \A m \in Ids : MailGold(d)[m] \in Int
    BY MailGoldType
  <1>4. SumFunctionOnSet(d.mailMoney, Existing(d)) = SumFunctionOnSet(MailGold(d), Ids)
    <2>1. Existing(d) \in SUBSET Ids
      BY DEF Existing
    <2>2. \A m \in Ids : MailGold(d)[m] \in Int
                         /\ MailGold(d)[m] = IF m \in Existing(d) THEN d.mailMoney[m] ELSE 0
      BY <1>3 DEF MailGold, Existing
    <2> QED BY <1>1, <2>1, <2>2, SumPart
  <1>5. DOMAIN d.money = Players
    BY TableTypes
  <1>6. SumFunction(d.money) = SumFunctionOnSet(d.money, Players)
    BY <1>5 DEF SumFunction
  <1>7. SumFunctionOnSet(d.money, Players) \in Int /\ SumFunctionOnSet(MailGold(d), Ids) \in Int
    BY <1>1, <1>2, <1>3, SumTakeOut
  <1> QED BY <1>4, <1>6, <1>7 DEF TotalGold

\* Tables e have what tables d have, but for what p gains and the mails lose.
LEMMA Ledger ==
    ASSUME NEW d \in Tables, NEW e \in Tables, NEW p \in Players,
           \A q \in Players : q # p => e.money[q] = d.money[q],
           NEW lost, \A m \in Ids : lost[m] \in Int,
           \A m \in Ids : MailGold(d)[m] = MailGold(e)[m] + lost[m]
    PROVE  /\ TotalGold(d) \in Int /\ TotalGold(e) \in Int /\ SumFunctionOnSet(lost, Ids) \in Int
           /\ e.money[p] \in Int /\ d.money[p] \in Int
           /\ TotalGold(e) = TotalGold(d) + (e.money[p] - d.money[p]) - SumFunctionOnSet(lost, Ids)
  <1>1. IsFiniteSet(Players) /\ IsFiniteSet(Ids)
    BY MailAssumption
  <1>2. \A q \in Players : d.money[q] \in Int /\ e.money[q] \in Int
    BY TableTypes, MailAssumption
  <1>3. ChangesAt(d.money, e.money, Players, p)
    BY <1>2 DEF ChangesAt
  <1>4. SumFunctionOnSet(e.money, Players) = SumFunctionOnSet(d.money, Players) + e.money[p] - d.money[p]
    BY <1>1, <1>3, SumChangeOne
  <1>5. \A m \in Ids : /\ MailGold(e)[m] \in Int /\ lost[m] \in Int
                       /\ MailGold(d)[m] = MailGold(e)[m] + lost[m]
    BY MailGoldType
  <1>6. SumFunctionOnSet(MailGold(d), Ids) = SumFunctionOnSet(MailGold(e), Ids) + SumFunctionOnSet(lost, Ids)
    BY <1>1, <1>5, SumAdd
  <1>7. SumFunctionOnSet(lost, Ids) \in Int
    BY <1>1, SumTakeOut
  <1>8. /\ SumFunctionOnSet(d.money, Players) \in Int /\ SumFunctionOnSet(MailGold(d), Ids) \in Int
        /\ TotalGold(d) = SumFunctionOnSet(d.money, Players) + SumFunctionOnSet(MailGold(d), Ids)
    BY TotalIs
  <1>9. /\ SumFunctionOnSet(e.money, Players) \in Int /\ SumFunctionOnSet(MailGold(e), Ids) \in Int
        /\ TotalGold(e) = SumFunctionOnSet(e.money, Players) + SumFunctionOnSet(MailGold(e), Ids)
    BY TotalIs
  <1> QED BY <1>2, <1>4, <1>6, <1>7, <1>8, <1>9

\* The mails a player has deleted and not saved yet.
Trash == {m \in Ids : \E p \in Online : m \in InState(player[p], "deleted")}

\* The gold in those of them that tables e have no more.
ThrownGold(e) ==
    [m \in Ids |-> IF m \in Trash /\ e.receiver[m] = NULL THEN settled.mailMoney[m] ELSE 0]

LEMMA ThrownIs ==
    ASSUME settled \in Tables
    PROVE  /\ \A m \in Ids : ThrownGold(settled')[m] \in Nat
           /\ Thrown = SumFunctionOnSet(ThrownGold(settled'), Ids)
  <1> DEFINE T == {m \in Ids : /\ settled'.receiver[m] = NULL
                               /\ \E p \in Online : m \in InState(player[p], "deleted")}
             g == ThrownGold(settled')
  <1>1. \A m \in Ids : settled.mailMoney[m] \in Nat
    BY TableTypes, MailAssumption
  <1>2. \A m \in Ids : m \in T <=> m \in Trash /\ settled'.receiver[m] = NULL
    BY DEF Trash
  <1>3. \A m \in Ids : g[m] = IF m \in T THEN settled.mailMoney[m] ELSE 0
    BY <1>2 DEF ThrownGold
  <1>4. T \in SUBSET Ids /\ IsFiniteSet(Ids) /\ Thrown = SumFunctionOnSet(settled.mailMoney, T)
    BY MailAssumption DEF Thrown
  <1> HIDE DEF T, g
  <1>5. \A m \in Ids : g[m] \in Nat
    BY <1>1, <1>3
  <1>6. \A m \in Ids : g[m] \in Int /\ g[m] = IF m \in T THEN settled.mailMoney[m] ELSE 0
    BY <1>3, <1>5
  <1>7. SumFunctionOnSet(settled.mailMoney, T) = SumFunctionOnSet(g, Ids)
    BY <1>4, <1>6, SumPart
  <1> QED BY <1>4, <1>5, <1>7 DEF g

\* The database still has what is deleted in memory.
LEMMA TrashIsStored ==
    ASSUME MailInv
    PROVE  \A m \in Trash : settled.receiver[m] # NULL /\ settled.receiver[m] \in Online
  <1> SUFFICES ASSUME NEW m \in Trash
               PROVE  settled.receiver[m] # NULL /\ settled.receiver[m] \in Online
    OBVIOUS
  <1>1. PICK p \in Online : m \in InState(player[p], "deleted")
    BY DEF Trash
  <1>2. p \in Players /\ player[p] # NULL /\ Remembers(p, player[p], settled)
    BY NowAndSettled, OnlineType DEF MailInv
  <1>3. m \in Ids /\ player[p].mails[m] # NULL
    BY <1>1 DEF InState
  <1>4. settled.receiver[m] = p
    BY <1>2, <1>3 DEF Remembers, InTables
  <1> QED BY <1>2, <1>4, NullIsNoKey

\* The action of GoldAccounted.
Accounted ==
    LET left == TotalGold(settled) - Thrown
        now  == TotalGold(settled')
    IN  \/ now = left
        \/ \E p, r \in Players, I \in SUBSET Items, money, cod \in Amounts :
              HandleSendMail(p, r, I, money, cod) /\ now = left - Postage(I)
        \/ \E p \in Players, m \in Ids :
              /\ HandleMailTakeMoney(p, m)
              /\ now = left - (player[p].gold + player[p].mails[m].money - MaxGold)
        \/ \E m \in Ids : /\ ReturnOrDeleteOldMails(m) /\ ~Returnable(m)
                          /\ now = left - db.mailMoney[m]
        \/ CrashStep

\* Nothing is thrown away while the mails that are deleted in memory stay stored.
LEMMA NothingThrown ==
    ASSUME MailInv, \A m \in Trash : settled'.receiver[m] # NULL
    PROVE  Thrown = 0
  <1>1. settled \in Tables
    BY NowAndSettled
  <1>2. Thrown = SumFunctionOnSet(ThrownGold(settled'), Ids)
    BY <1>1, ThrownIs
  <1>3. \A m \in Ids : ThrownGold(settled')[m] = 0
    BY DEF ThrownGold
  <1> QED BY <1>2, <1>3, MailAssumption, SumZero

LEMMA SameAccounted ==
    ASSUME MailInv, settled' = settled
    PROVE  Accounted
  <1>1. Thrown = 0
    BY TrashIsStored, NothingThrown
  <1>2. TotalGold(settled) \in Int
    BY NowAndSettled, TotalIs
  <1>3. TotalGold(settled') = TotalGold(settled)
    OBVIOUS
  <1> QED BY <1>1, <1>2, <1>3 DEF Accounted

\* Tables e are tables d once player pl, who is p, is saved.
SavedBy(p, pl, d, e) ==
    /\ \A q \in Players : e.money[q] = IF q = p THEN pl.gold ELSE d.money[q]
    /\ \A n \in Ids :
          /\ e.receiver[n] = IF n \in InState(pl, "deleted") THEN NULL ELSE d.receiver[n]
          /\ n \in InState(pl, "changed") => e.mailMoney[n] = pl.mails[n].money % ColumnSize
          /\ n \notin InState(pl, "changed") \cup InState(pl, "deleted") =>
                e.mailMoney[n] = d.mailMoney[n]

LEMMA SaveRowsAre ==
    ASSUME NEW p \in Players, NEW pl \in Player
    PROVE  LET w == SaveRows(p, pl)
               changed == InState(pl, "changed")
               deleted == InState(pl, "deleted")
           IN  /\ w \in Writes /\ w.money = Row(p, pl.gold)
               /\ w.receiver = [m \in deleted |-> NULL]
               /\ DOMAIN w.mailMoney = changed \cup deleted
               /\ \A m \in changed : w.mailMoney[m] = pl.mails[m].money % ColumnSize
  <1> DEFINE w == SaveRows(p, pl)
             changed == InState(pl, "changed")
             deleted == InState(pl, "deleted")
             gone == Gone(pl)
  <1>1. /\ w \in Writes /\ w.money = Row(p, pl.gold) /\ w.bag = NoRow
        /\ w.instance = [i \in gone |-> FALSE] /\ w.inMail = [i \in gone |-> NULL]
        /\ w.receiver = [m \in deleted |-> NULL] /\ w.sender = [m \in deleted |-> NULL]
        /\ DOMAIN w.mailMoney = changed \cup deleted /\ DOMAIN w.cod = changed \cup deleted
        /\ \A m \in changed : /\ w.mailMoney[m] = pl.mails[m].money % ColumnSize
                              /\ w.cod[m] = pl.mails[m].cod % ColumnSize
    BY SaveIs, SavedIs
  <1> HIDE DEF w, changed, deleted, gone
  <1> QED BY <1>1 DEF w, changed, deleted

\* Whatever else a transaction writes, these are the columns with the gold.
LEMMA SavedByRows ==
    ASSUME NEW d \in Tables, NEW p \in Players, NEW pl \in Player, NEW w \in Writes,
           w.money = SaveRows(p, pl).money, w.receiver = SaveRows(p, pl).receiver,
           w.mailMoney = SaveRows(p, pl).mailMoney
    PROVE  SavedBy(p, pl, d, Stored(d, w))
  <1> DEFINE changed == InState(pl, "changed")
             deleted == InState(pl, "deleted")
             e == Stored(d, w)
             s == SaveRows(p, pl)
  <1>6. /\ s.money = Row(p, pl.gold) /\ s.receiver = [m \in deleted |-> NULL]
        /\ DOMAIN s.mailMoney = changed \cup deleted
        /\ \A m \in changed : s.mailMoney[m] = pl.mails[m].money % ColumnSize
    BY SaveRowsAre
  <1>7. w.money = s.money /\ w.receiver = s.receiver /\ w.mailMoney = s.mailMoney
    OBVIOUS
  <1> HIDE DEF s, changed, deleted
  <1>1. /\ w.money = Row(p, pl.gold) /\ w.receiver = [m \in deleted |-> NULL]
        /\ DOMAIN w.mailMoney = changed \cup deleted
        /\ \A m \in changed : w.mailMoney[m] = pl.mails[m].money % ColumnSize
    BY <1>6, <1>7
  <1>2. \A q \in Players : e.money[q] = IF q \in DOMAIN w.money THEN w.money[q] ELSE d.money[q]
    BY StoredAt
  <1>3. \A m \in Ids :
           /\ e.receiver[m] = IF m \in DOMAIN w.receiver THEN w.receiver[m] ELSE d.receiver[m]
           /\ e.mailMoney[m] = IF m \in DOMAIN w.mailMoney THEN w.mailMoney[m] ELSE d.mailMoney[m]
    BY StoredAt
  <1> HIDE DEF e
  <1>4. \A q \in Players : e.money[q] = IF q = p THEN pl.gold ELSE d.money[q]
    BY <1>1, <1>2 DEF Row
  <1>5. \A n \in Ids :
           /\ e.receiver[n] = IF n \in deleted THEN NULL ELSE d.receiver[n]
           /\ n \in changed => e.mailMoney[n] = pl.mails[n].money % ColumnSize
           /\ n \notin changed \cup deleted => e.mailMoney[n] = d.mailMoney[n]
    BY <1>1, <1>3
  <1> QED BY <1>4, <1>5 DEF SavedBy, changed, deleted, e

LEMMA SaveIsSavedBy ==
    ASSUME NEW d \in Tables, NEW p \in Players, NEW pl \in Player
    PROVE  Stored(d, SaveRows(p, pl)) \in Tables /\ SavedBy(p, pl, d, Stored(d, SaveRows(p, pl)))
  <1>1. SaveRows(p, pl) \in Writes
    BY SaveIs
  <1> QED BY <1>1, SavedByRows, StoredType

LEMMA TakenIsSavedBy ==
    ASSUME NEW d \in Tables, NEW p \in Players, NEW pl \in Player, NEW i \in Items
    PROVE  Stored(d, TakenRows(p, pl, i)) \in Tables /\ SavedBy(p, pl, d, Stored(d, TakenRows(p, pl, i)))
  <1> DEFINE w == TakenRows(p, pl, i)
  <1>1. w \in Writes
    BY TakenIs
  <1>2. w.money = SaveRows(p, pl).money /\ w.receiver = SaveRows(p, pl).receiver
        /\ w.mailMoney = SaveRows(p, pl).mailMoney
    BY TakenIs
  <1> HIDE DEF w
  <1>3. Stored(d, w) \in Tables /\ SavedBy(p, pl, d, Stored(d, w))
    BY <1>1, <1>2, SavedByRows, StoredType
  <1> QED BY <1>3 DEF w

\* A save moves no gold of a mail that is not touched before: it stays, or it is
\* thrown away with the mail.
LEMMA SavedMailGold ==
    ASSUME MailInv, NEW p \in Online, NEW pl \in Player, NEW d, SavedBy(p, pl, d, settled'),
           NEW n \in Ids, pl.mails[n] = player[p].mails[n],
           d.receiver[n] = settled.receiver[n], d.mailMoney[n] = settled.mailMoney[n]
    PROVE  MailGold(settled)[n] = MailGold(settled')[n] + ThrownGold(settled')[n]
  <1> DEFINE g == settled.mailMoney[n]
             r == settled.receiver[n]
             e == settled'
  <1>1. /\ p \in Players /\ player[p] # NULL /\ Remembers(p, player[p], settled)
        /\ g \in Nat
    BY NowAndSettled, OnlineType, TableTypes, MailAssumption DEF MailInv
  <1>2. player[p].mails[n] # NULL => r = p /\ r # NULL /\ g = player[p].mails[n].money % ColumnSize
    BY <1>1, NullIsNoKey DEF Remembers, InTables
  <1>3. \A s : n \in InState(pl, s) <=> n \in InState(player[p], s)
    BY DEF InState
  <1>4. \A s : n \in InState(pl, s) => player[p].mails[n] # NULL
    BY DEF InState
  <1>5. /\ e.receiver[n] = IF n \in InState(pl, "deleted") THEN NULL ELSE r
        /\ n \in InState(pl, "changed") => e.mailMoney[n] = pl.mails[n].money % ColumnSize
        /\ n \notin InState(pl, "changed") \cup InState(pl, "deleted") => e.mailMoney[n] = g
    BY DEF SavedBy
  <1>6. /\ MailGold(settled)[n] = (IF r # NULL THEN g ELSE 0)
        /\ MailGold(e)[n] = (IF e.receiver[n] # NULL THEN e.mailMoney[n] ELSE 0)
        /\ ThrownGold(e)[n] = (IF n \in Trash /\ e.receiver[n] = NULL THEN g ELSE 0)
    BY DEF MailGold, ThrownGold
  <1>7. n \in Trash => r # NULL
    BY TrashIsStored
  <1>8. n \in InState(pl, "deleted") => n \in Trash
    BY <1>3 DEF Trash
  <1> HIDE DEF g, r, e
  <1>9. CASE n \in InState(pl, "deleted")
    BY <1>1, <1>2, <1>4, <1>5, <1>6, <1>8, <1>9 DEF e
  <1>10. CASE n \notin InState(pl, "deleted")
    <2>1. e.receiver[n] = r
      BY <1>5, <1>10
    <2>2. r # NULL => e.mailMoney[n] = g
      BY <1>2, <1>4, <1>5, <1>10
    <2>3. ThrownGold(e)[n] = 0
      BY <1>6, <1>7, <2>1
    <2>4. MailGold(e)[n] = MailGold(settled)[n] /\ MailGold(settled)[n] \in Nat
      BY <1>1, <1>6, <2>1, <2>2
    <2> QED BY <2>3, <2>4 DEF e
  <1> QED BY <1>9, <1>10 DEF e

\* What a queue of one or two transactions makes of the tables.
LEMMA SettledOne ==
    ASSUME NEW w, Queued(<<Transaction(w)>>)
    PROVE  settled' = Stored(settled, w)
  <1> DEFINE r == Transaction(w)
  <1>1. settled' = After(settled, <<r>>)[Len(<<r>>)]
    BY DEF Queued
  <1>2. Executed(settled, r) = Stored(settled, w)
    BY DEF Executed, Transaction
  <1> HIDE DEF r
  <1>3. Len(<<r>>) = 1
    OBVIOUS
  <1>4. After(settled, <<r>>)[1] = Executed(settled, r)
    BY AfterFew
  <1> QED BY <1>1, <1>2, <1>3, <1>4

LEMMA SettledTwo ==
    ASSUME NEW v, NEW w, Queued(<<Transaction(v), Transaction(w)>>)
    PROVE  settled' = Stored(Stored(settled, v), w)
  <1> DEFINE r == Transaction(v)
             s == Transaction(w)
  <1>1. settled' = After(settled, <<r, s>>)[Len(<<r, s>>)]
    BY DEF Queued
  <1>2. \A d : Executed(d, r) = Stored(d, v) /\ Executed(d, s) = Stored(d, w)
    BY DEF Executed, Transaction
  <1> HIDE DEF r, s
  <1> DEFINE q == <<r, s>>
  <1>3. Len(q) = 2 /\ q[1] = r /\ q[2] = s
    OBVIOUS
  <1>4. settled' = After(settled, q)[Len(q)]
    BY <1>1
  <1> HIDE DEF q
  <1>5. After(settled, q)[2] = Executed(Executed(settled, q[1]), q[2])
    BY <1>3, AfterTwo
  <1> QED BY <1>2, <1>3, <1>4, <1>5

\* Saving a player who stays or leaves moves no gold.
LEMMA SaveAccounted ==
    ASSUME MailInv, NEW p \in Players, Save(p) \/ LogoutPlayer(p)
    PROVE  Accounted
  <1> DEFINE e == settled'
             lost == ThrownGold(e)
  <1>1. status[p] = "online" /\ Queued(<<Transaction(SaveRows(p, player[p]))>>)
    BY DEF Save, LogoutPlayer, SaveToDB
  <1>2. /\ p \in Online /\ player[p] \in Player /\ settled \in Tables
        /\ Remembers(p, player[p], settled)
    BY <1>1, NowAndSettled, OnlineType DEF Online, MailInv
  <1>3. e = Stored(settled, SaveRows(p, player[p]))
    BY <1>1, SettledOne
  <1>4. e \in Tables /\ SavedBy(p, player[p], settled, e)
    BY <1>2, <1>3, SaveIsSavedBy
  <1>5. \A n \in Ids : MailGold(settled)[n] = MailGold(e)[n] + lost[n]
    BY <1>2, <1>4, SavedMailGold
  <1>6. (\A n \in Ids : lost[n] \in Int) /\ Thrown = SumFunctionOnSet(lost, Ids)
    BY <1>2, ThrownIs
  <1>7. /\ \A q \in Players : q # p => e.money[q] = settled.money[q]
        /\ e.money[p] = settled.money[p]
    BY <1>2, <1>4 DEF SavedBy, Remembers
  <1> HIDE DEF lost, e
  <1>8. /\ TotalGold(settled) \in Int /\ TotalGold(e) \in Int /\ SumFunctionOnSet(lost, Ids) \in Int
        /\ e.money[p] \in Int /\ settled.money[p] \in Int
        /\ TotalGold(e) = TotalGold(settled) + (e.money[p] - settled.money[p]) - SumFunctionOnSet(lost, Ids)
    BY <1>2, <1>4, <1>5, <1>6, <1>7, Ledger
  <1>9. TotalGold(e) = TotalGold(settled) - Thrown
    BY <1>6, <1>7, <1>8
  <1> QED BY <1>9 DEF Accounted, e

\* The money in a mail becomes the receiver's, up to the limit.
\* A sum that fits is received as it is, up to the limit.
LEMMA ReceiveFits ==
    ASSUME AmountsFit, NEW g \in Nat, NEW n \in Nat, n < ColumnSize
    PROVE  Receive(g, n) = g + n \/ Receive(g, n) = MaxGold
  <1>1. \A w \in Nat \ {0} : n < w \div 2 => n % w = n
    OBVIOUS
  <1>2. n < WordSize \div 2
    BY MailAssumption DEF AmountsFit
  <1>3. Signed(n) = n
    BY <1>1, <1>2, MailAssumption DEF Signed
  <1> QED BY <1>3, MailAssumption DEF Receive

LEMMA TakeMoneyAccounted ==
    ASSUME MailInv, SumsFit, AmountsFit, NEW p \in Players, NEW m \in Ids, HandleMailTakeMoney(p, m)
    PROVE  Accounted
  <1> DEFINE e == settled'
             pl == WithMoney(p, m)
             thrown == ThrownGold(e)
             money == player[p].mails[m].money
             lost == [n \in Ids |-> IF n = m THEN thrown[n] + money ELSE thrown[n]]
  <1>1. Has(p, m) /\ Queued(<<Transaction(SaveRows(p, pl))>>) /\ TypeOK
    BY TakeMoneyIs DEF MailInv
  <1>2. /\ p \in Online /\ player[p] \in Player /\ player[p] # NULL /\ settled \in Tables
        /\ Remembers(p, player[p], settled)
        /\ player[p].mails[m] # NULL /\ money \in Nat /\ player[p].gold \in 0..MaxGold
    BY <1>1, MailType, NowAndSettled DEF Online
  <1>3. /\ pl \in Player /\ pl.gold = Receive(player[p].gold, money)
        /\ \A n \in Ids : n # m => pl.mails[n] = player[p].mails[n]
        /\ pl.mails[m] # NULL /\ pl.mails[m].money = 0 /\ pl.mails[m].state = "changed"
    BY <1>1, WithMoneyIs, NullIsNoKey
  <1> HIDE DEF pl
  <1>4. e = Stored(settled, SaveRows(p, pl))
    BY <1>1, SettledOne
  <1>5. e \in Tables /\ SavedBy(p, pl, settled, e)
    BY <1>2, <1>3, <1>4, SaveIsSavedBy
  <1>6. \A n \in Ids : n # m => MailGold(settled)[n] = MailGold(e)[n] + thrown[n]
    BY <1>2, <1>3, <1>5, SavedMailGold
  <1>7. (\A n \in Ids : thrown[n] \in Nat) /\ Thrown = SumFunctionOnSet(thrown, Ids)
    BY <1>2, ThrownIs
  <1>8. /\ settled.receiver[m] = p /\ settled.mailMoney[m] = money % ColumnSize
        /\ money < ColumnSize /\ p # NULL
    BY <1>2, NullIsNoKey DEF Remembers, InTables, SumsFit, Fits
  <1>9. settled.mailMoney[m] = money
    BY <1>2, <1>8, MailAssumption
  <1>10. m \in InState(pl, "changed") /\ m \notin InState(pl, "deleted")
    BY <1>3 DEF InState
  <1>11. e.receiver[m] = p /\ e.mailMoney[m] = 0
    <2>1. 0 % ColumnSize = 0
      BY MailAssumption
    <2> QED BY <1>3, <1>5, <1>8, <1>10, <2>1 DEF SavedBy
  <1>12. MailGold(settled)[m] = money /\ MailGold(e)[m] = 0 /\ thrown[m] = 0
    BY <1>8, <1>9, <1>11 DEF MailGold, ThrownGold
  <1>13. /\ \A q \in Players : q # p => e.money[q] = settled.money[q]
         /\ e.money[p] = pl.gold /\ settled.money[p] = player[p].gold
    BY <1>2, <1>5 DEF SavedBy, Remembers
  <1> HIDE DEF e, thrown, money
  <1>14. \A n \in Ids : lost[n] \in Int /\ MailGold(settled)[n] = MailGold(e)[n] + lost[n]
    BY <1>2, <1>6, <1>7, <1>12
  <1>15. ChangesAt(thrown, lost, Ids, m) /\ lost[m] = money
    BY <1>2, <1>7, <1>12 DEF ChangesAt
  <1> HIDE DEF lost
  <1>16. SumFunctionOnSet(lost, Ids) = SumFunctionOnSet(thrown, Ids) + lost[m] - thrown[m]
    BY <1>15, MailAssumption, SumChangeOne
  <1>17. /\ TotalGold(settled) \in Int /\ TotalGold(e) \in Int /\ SumFunctionOnSet(lost, Ids) \in Int
         /\ e.money[p] \in Int /\ settled.money[p] \in Int
         /\ TotalGold(e) = TotalGold(settled) + (e.money[p] - settled.money[p]) - SumFunctionOnSet(lost, Ids)
    BY <1>2, <1>5, <1>13, <1>14, Ledger
  <1>18. SumFunctionOnSet(thrown, Ids) \in Int
    BY <1>7, MailAssumption, SumTakeOut
  <1>19. TotalGold(e) = TotalGold(settled) - Thrown + (pl.gold - player[p].gold) - money
    BY <1>2, <1>3, <1>7, <1>12, <1>13, <1>15, <1>16, <1>17, <1>18
  <1>20. MaxGold \in Nat /\ Thrown \in Int /\ player[p].gold \in Nat
    BY <1>2, <1>7, <1>18, MailAssumption
  <1>21. \/ pl.gold = player[p].gold + money
         \/ pl.gold = MaxGold
    BY <1>2, <1>3, <1>8, ReceiveFits
  <1>22. \/ TotalGold(e) = TotalGold(settled) - Thrown
         \/ TotalGold(e) = TotalGold(settled) - Thrown - (player[p].gold + money - MaxGold)
    BY <1>2, <1>17, <1>19, <1>20, <1>21
  <1> QED BY <1>22 DEF Accounted, e, money

\* The price becomes a mail to the sender.
LEMMA TakeItemAccounted ==
    ASSUME MailInv, SumsFit, NEW p \in Players, NEW m \in Ids, NEW i \in Items,
           HandleMailTakeItem(p, m, i)
    PROVE  Accounted
  <1> DEFINE e == settled'
             pl == WithItem(p, m, i)
             thrown == ThrownGold(e)
             cod == player[p].mails[m].cod
             money == player[p].mails[m].money
             sender == player[p].mails[m].sender
             payment == NewMail(p, cod, 0, {}, "payment")
             w == TakenRows(p, pl, i)
  <1>1. Has(p, m) /\ player[p].gold >= cod /\ TypeOK
    BY DEF HandleMailTakeItem, Usable, MailInv
  <1>2. /\ p \in Online /\ player[p] \in Player /\ player[p] # NULL /\ settled \in Tables
        /\ Remembers(p, player[p], settled) /\ player[p].mails[m] # NULL
        /\ money \in Nat /\ cod \in Nat /\ sender \in Players /\ player[p].gold \in 0..MaxGold
    BY <1>1, MailType, NowAndSettled DEF Online
  <1>3. /\ pl \in Player /\ pl.gold = player[p].gold - cod
        /\ \A k \in Ids : k # m => pl.mails[k] = player[p].mails[k]
        /\ pl.mails[m] # NULL /\ pl.mails[m].money = money /\ pl.mails[m].state = "changed"
    BY <1>1, WithItemIs, NullIsNoKey
  <1>4. \/ cod = 0 /\ Queued(<<Transaction(w)>>)
        \/ \E n \in GenerateMailID : Queued(<<Transaction(SentRows(n, sender, payment)), Transaction(w)>>)
    BY DEF HandleMailTakeItem
  <1>5. /\ settled.receiver[m] = p /\ settled.mailMoney[m] = money % ColumnSize
        /\ cod < ColumnSize /\ p # NULL
    BY <1>2, NullIsNoKey DEF Remembers, InTables, SumsFit, Fits
  <1>6. cod % ColumnSize = cod
    BY <1>2, <1>5, MailAssumption
  <1>7. (\A k \in Ids : thrown[k] \in Nat) /\ Thrown = SumFunctionOnSet(thrown, Ids)
    BY <1>2, ThrownIs
  <1> HIDE DEF pl
  <1>8. m \in InState(pl, "changed") /\ m \notin InState(pl, "deleted")
    BY <1>3 DEF InState
  <1>9. ASSUME NEW d \in Tables, e = Stored(d, w), d.money = settled.money,
               d.receiver[m] = settled.receiver[m]
        PROVE  /\ e \in Tables /\ SavedBy(p, pl, d, e)
               /\ \A q \in Players : q # p => e.money[q] = settled.money[q]
               /\ e.money[p] = settled.money[p] - cod
               /\ MailGold(settled)[m] = MailGold(e)[m] + thrown[m]
    <2>1. e \in Tables /\ SavedBy(p, pl, d, e)
      BY <1>2, <1>3, <1>9, TakenIsSavedBy DEF w
    <2>2. e.receiver[m] = p /\ e.mailMoney[m] = money % ColumnSize
      BY <1>3, <1>5, <1>8, <1>9, <2>1 DEF SavedBy
    <2>3. MailGold(settled)[m] = settled.mailMoney[m] /\ MailGold(e)[m] = settled.mailMoney[m] /\ thrown[m] = 0
      BY <1>5, <2>2 DEF MailGold, ThrownGold
    <2>4. settled.mailMoney[m] \in Nat
      BY <1>2, TableTypes, MailAssumption
    <2>5. /\ \A q \in Players : q # p => e.money[q] = settled.money[q]
          /\ e.money[p] = settled.money[p] - cod
      BY <1>2, <1>3, <1>9, <2>1 DEF SavedBy, Remembers
    <2>6. MailGold(settled)[m] = MailGold(e)[m] + thrown[m]
      BY <2>3, <2>4
    <2> QED BY <2>1, <2>5, <2>6
  <1>10. SumFunctionOnSet(thrown, Ids) \in Int
    BY <1>7, MailAssumption, SumTakeOut
  <1>11. ASSUME cod = 0, Queued(<<Transaction(w)>>)
         PROVE  TotalGold(e) = TotalGold(settled) - Thrown
    <2>1. e = Stored(settled, w)
      BY <1>11, SettledOne
    <2>2. /\ e \in Tables /\ SavedBy(p, pl, settled, e)
          /\ \A q \in Players : q # p => e.money[q] = settled.money[q]
          /\ e.money[p] = settled.money[p] - cod
          /\ MailGold(settled)[m] = MailGold(e)[m] + thrown[m]
      BY <1>2, <1>9, <2>1
    <2>3. \A k \in Ids : k # m => MailGold(settled)[k] = MailGold(e)[k] + thrown[k]
      BY <1>2, <1>3, <2>2, SavedMailGold
    <2>4. \A k \in Ids : MailGold(settled)[k] = MailGold(e)[k] + thrown[k]
      BY <2>2, <2>3
    <2> HIDE DEF e, thrown
    <2>5. \A k \in Ids : thrown[k] \in Int
      BY <1>7
    <2>6. /\ TotalGold(settled) \in Int /\ TotalGold(e) \in Int
          /\ e.money[p] \in Int /\ settled.money[p] \in Int
          /\ TotalGold(e) = TotalGold(settled) + (e.money[p] - settled.money[p]) - SumFunctionOnSet(thrown, Ids)
      BY <1>2, <2>2, <2>4, <2>5, Ledger
    <2> QED BY <1>7, <1>10, <1>11, <2>2, <2>6
  <1>12. ASSUME NEW n \in GenerateMailID,
                Queued(<<Transaction(SentRows(n, sender, payment)), Transaction(w)>>)
         PROVE  TotalGold(e) = TotalGold(settled) - Thrown
    <2> DEFINE d == Stored(settled, SentRows(n, sender, payment))
               lost == [k \in Ids |-> IF k = n THEN thrown[k] - cod ELSE thrown[k]]
    <2>1. n \in Ids /\ settled.receiver[n] = NULL
      BY NowAndSettled, IdIsNew DEF MailInv
    <2>2. payment \in Mail /\ payment.money = cod
      BY <1>2, NewMailType DEF NewMail
    <2>3. e = Stored(d, w)
      BY <1>12, SettledTwo
    <2> HIDE DEF payment
    <2>4. /\ d \in Tables /\ d.money = settled.money
          /\ \A k \in Ids : /\ d.receiver[k] = IF k = n THEN sender ELSE settled.receiver[k]
                            /\ d.mailMoney[k] = IF k = n THEN cod % ColumnSize ELSE settled.mailMoney[k]
      BY <1>2, <2>1, <2>2, SentIs
    <2> HIDE DEF d
    <2>5. n # m
      BY <1>5, <2>1
    <2>6. /\ e \in Tables /\ SavedBy(p, pl, d, e)
          /\ \A q \in Players : q # p => e.money[q] = settled.money[q]
          /\ e.money[p] = settled.money[p] - cod
          /\ MailGold(settled)[m] = MailGold(e)[m] + thrown[m]
      BY <1>9, <2>3, <2>4, <2>5
    <2>7. \A k \in Ids : k # m /\ k # n => MailGold(settled)[k] = MailGold(e)[k] + thrown[k]
      BY <1>2, <1>3, <2>4, <2>6, SavedMailGold
    <2>8. player[p].mails[n] = NULL
      BY <1>2, <2>1, NullIsNoKey DEF Remembers, InTables
    <2>9. n \notin InState(pl, "deleted") /\ n \notin InState(pl, "changed")
      BY <1>3, <2>1, <2>5, <2>8 DEF InState
    <2>10. e.receiver[n] = sender /\ e.mailMoney[n] = cod
      BY <1>6, <2>1, <2>4, <2>6, <2>9 DEF SavedBy
    <2>11. sender # NULL
      BY <1>2, NullIsNoKey
    <2>12. MailGold(settled)[n] = 0 /\ MailGold(e)[n] = cod /\ thrown[n] = 0
      BY <2>1, <2>10, <2>11 DEF MailGold, ThrownGold
    <2> HIDE DEF e, thrown, cod, w, sender
    <2>13. \A k \in Ids : MailGold(settled)[k] = MailGold(e)[k] + lost[k]
      <3> TAKE k \in Ids
      <3>1. CASE k = n
        BY <1>2, <2>12, <3>1
      <3>2. CASE k # n
        BY <2>6, <2>7, <3>2
      <3> QED BY <3>1, <3>2
    <2>14. \A k \in Ids : lost[k] \in Int
      BY <1>2, <1>7
    <2>15. ChangesAt(thrown, lost, Ids, n) /\ lost[n] = 0 - cod
      BY <1>2, <1>7, <2>1, <2>12 DEF ChangesAt
    <2> HIDE DEF lost
    <2>16. SumFunctionOnSet(lost, Ids) = SumFunctionOnSet(thrown, Ids) + lost[n] - thrown[n]
      BY <2>1, <2>15, MailAssumption, SumChangeOne
    <2>17. /\ TotalGold(settled) \in Int /\ TotalGold(e) \in Int /\ SumFunctionOnSet(lost, Ids) \in Int
           /\ e.money[p] \in Int /\ settled.money[p] \in Int
           /\ TotalGold(e) = TotalGold(settled) + (e.money[p] - settled.money[p]) - SumFunctionOnSet(lost, Ids)
      BY <1>2, <2>6, <2>13, <2>14, Ledger
    <2> QED BY <1>2, <1>7, <1>10, <2>6, <2>12, <2>15, <2>16, <2>17
  <1>13. TotalGold(e) = TotalGold(settled) - Thrown
    BY <1>4, <1>11, <1>12
  <1> QED BY <1>13 DEF Accounted, e

\* Sending costs the postage, and what is enclosed arrives.
LEMMA SendAccounted ==
    ASSUME MailInv, AmountsFit, NEW p \in Players, NEW r \in Players, NEW I \in SUBSET Items,
           NEW money \in Amounts, NEW cod \in Amounts, HandleSendMail(p, r, I, money, cod)
    PROVE  Accounted
  <1> DEFINE e == settled'
             mail == NewMail(p, money, cod, I, "normal")
             s == [player[p] EXCEPT !.gold = @ - Required(I, money), !.bag = @ \ I]
  <1>1. CanSend(p, r, I, money) /\ TypeOK
    BY DEF HandleSendMail, MailInv
  <1>2. PICK m \in GenerateMailID : Queued(SendRequests(p, s, m, r, mail))
    BY DEF HandleSendMail
  <1>3. mail \in Mail /\ mail.items = I /\ mail.money = money
    BY NewMailType, MailAssumption DEF NewMail
  <1>4a. Required(I, money) = Postage(I) + money /\ Postage(I) \in Nat /\ money \in Nat
    BY RequiredType, PostageType, MailAssumption DEF AmountsFit
  <1>4. s \in Player /\ s.gold = player[p].gold - Postage(I) - money /\ player[p].gold \in 0..MaxGold
    <2>1. s \in Player
      BY <1>1, SenderIs
    <2>3. player[p] \in Player
      BY <1>1, OnlineType DEF CanSend
    <2>4. s.gold = player[p].gold - Required(I, money) /\ player[p].gold \in 0..MaxGold
      BY <2>3 DEF Player
    <2>2. s.gold = player[p].gold - Postage(I) - money
      BY <1>4a, <2>4, MailAssumption
    <2> QED BY <2>1, <2>2, <2>4
  <1>5. settled \in Tables /\ OnePlace(settled)
    BY NowAndSettled
  <1>6. m \in Ids /\ settled.receiver[m] = NULL /\ Attached(settled, m) = {}
    BY NowAndSettled, IdIsNew DEF MailInv
  <1>7. Remembers(p, player[p], settled) /\ r # p /\ I \subseteq InBag(settled, p)
    <2>1. status[p] = "online" /\ r # p /\ I \subseteq player[p].bag
      BY <1>1 DEF CanSend
    <2>2. Remembers(p, player[p], settled)
      BY <1>1, <2>1, OnlineType, NowAndSettled
    <2> QED BY <2>1, <2>2 DEF Remembers
  <1>8. money \in Nat /\ money % ColumnSize = money
    BY MailAssumption DEF AmountsFit
  <1> HIDE DEF mail, s
  <1> DEFINE requests == SendRequests(p, s, m, r, mail)
  <1>9. PICK f : /\ Leads(settled, requests, f)
                 /\ f.money[p] = s.gold /\ MailsKept(p, settled, f) /\ InTables(r, m, mail, f)
                 /\ \A q \in Players : q # p => Kept(q, settled, f)
                 /\ \A n \in Ids : n # m => f.receiver[n] = settled.receiver[n]
    BY <1>3, <1>4, <1>5, <1>6, <1>7, SendEffect
  <1>10. e = f
    BY <1>2, <1>9 DEF Queued, Leads
  <1>11. e \in Tables
    <2>1. TypeOK'
      BY <1>1, SendMailType
    <2> QED BY <2>1 DEF TypeOK
  <1> HIDE DEF e, requests
  <1>12. e.receiver[m] = r /\ e.mailMoney[m] = money /\ r # NULL
    BY <1>3, <1>8, <1>9, <1>10, NullIsNoKey DEF InTables
  <1>13. ASSUME NEW n \in Ids, n # m
         PROVE  e.receiver[n] = settled.receiver[n] /\ MailGold(settled)[n] = MailGold(e)[n]
    <2>1. e.receiver[n] = settled.receiver[n]
      BY <1>9, <1>10, <1>13
    <2>2. CASE settled.receiver[n] = NULL
      BY <2>1, <2>2 DEF MailGold
    <2>3. CASE settled.receiver[n] # NULL
      <3>1. settled.receiver[n] \in Players
        BY <1>5, <2>3, TableTypes
      <3>2. MailsKept(settled.receiver[n], settled, e)
        BY <1>9, <1>10, <3>1 DEF Kept
      <3>3. e.mailMoney[n] = settled.mailMoney[n]
        BY <3>2 DEF MailsKept
      <3> QED BY <2>1, <3>3 DEF MailGold
    <2> QED BY <2>1, <2>2, <2>3
  <1>14. Thrown = 0
    <2>1. ASSUME NEW n \in Trash PROVE e.receiver[n] # NULL
      <3>1. n \in Ids /\ settled.receiver[n] # NULL
        BY TrashIsStored DEF Trash
      <3> QED BY <1>6, <1>13, <3>1
    <2> QED BY <2>1, NothingThrown DEF e
  <1> DEFINE none == [n \in Ids |-> 0]
             lost == [n \in Ids |-> IF n = m THEN 0 - money ELSE 0]
  <1>15. \A n \in Ids : lost[n] \in Int
    BY <1>8
  <1>16. \A n \in Ids : MailGold(settled)[n] = MailGold(e)[n] + lost[n]
    <2> TAKE n \in Ids
    <2>1. CASE n = m
      <3>1. MailGold(settled)[m] = 0 /\ MailGold(e)[m] = money
        BY <1>6, <1>12 DEF MailGold
      <3> QED BY <1>8, <2>1, <3>1
    <2>2. CASE n # m
      <3>1. MailGold(e)[n] \in Nat
        BY <1>11, MailGoldType
      <3> QED BY <1>13, <2>2, <3>1
    <2> QED BY <2>1, <2>2
  <1>17. ChangesAt(none, lost, Ids, m) /\ none[m] = 0 /\ lost[m] = 0 - money
         /\ \A n \in Ids : none[n] = 0
    BY <1>6, <1>8 DEF ChangesAt
  <1> HIDE DEF none, lost
  <1>18. SumFunctionOnSet(lost, Ids) = 0 - money
    <2>1. SumFunctionOnSet(none, Ids) = 0
      BY <1>17, MailAssumption, SumZero
    <2>2. SumFunctionOnSet(lost, Ids) = SumFunctionOnSet(none, Ids) + lost[m] - none[m]
      BY <1>6, <1>17, MailAssumption, SumChangeOne
    <2> QED BY <1>8, <1>17, <2>1, <2>2
  <1>19. /\ \A q \in Players : q # p => e.money[q] = settled.money[q]
         /\ e.money[p] = settled.money[p] - Postage(I) - money
    BY <1>4, <1>7, <1>9, <1>10 DEF Kept, Remembers
  <1>20. /\ TotalGold(settled) \in Int /\ TotalGold(e) \in Int
         /\ e.money[p] \in Int /\ settled.money[p] \in Int
         /\ TotalGold(e) = TotalGold(settled) + (e.money[p] - settled.money[p]) - SumFunctionOnSet(lost, Ids)
    BY <1>5, <1>11, <1>15, <1>16, <1>19, Ledger
  <1>21. TotalGold(e) = TotalGold(settled) - Thrown - Postage(I)
    BY <1>8, <1>14, <1>18, <1>19, <1>20, PostageType
  <1> QED BY <1>21 DEF Accounted, e

\* A mail that goes back takes its money along.
LEMMA ReturnAccounted ==
    ASSUME MailInv, NEW p \in Players, NEW m \in Ids, HandleMailReturnToSender(p, m)
    PROVE  Accounted
  <1> DEFINE e == settled'
             mail == player[p].mails[m]
             money == mail.money
             sender == mail.sender
             returned == NewMail(p, money, 0, Found(p, m), "returned")
             d == Stored(settled, DeletedRows({m}, mail.items))
  <1>1. Usable(p, m) /\ Has(p, m) /\ TypeOK
    BY DEF HandleMailReturnToSender, Usable, MailInv
  <1>2. PICK n \in GenerateMailID : Queued(<< Transaction(DeletedRows({m}, mail.items)),
                                              Transaction(SentRows(n, sender, returned)) >>)
    BY DEF HandleMailReturnToSender, Found
  <1>3. /\ p \in Online /\ player[p] # NULL /\ settled \in Tables
        /\ Remembers(p, player[p], settled) /\ player[p].mails[m] # NULL
        /\ money \in Nat /\ sender \in Players /\ mail.items \in SUBSET Items
    BY <1>1, MailType, NowAndSettled DEF Online
  <1>4. n \in Ids /\ settled.receiver[n] = NULL
    BY NowAndSettled, IdIsNew DEF MailInv
  <1>5. /\ settled.receiver[m] = p /\ settled.mailMoney[m] = money % ColumnSize
        /\ p # NULL /\ sender # NULL
    BY <1>3, NullIsNoKey DEF Remembers, InTables
  <1>6. returned \in Mail /\ returned.money = money
    <2>1. Found(p, m) \in SUBSET Items
      BY <1>3 DEF Found
    <2> QED BY <1>3, <2>1, NewMailType, MailAssumption DEF NewMail
  <1>7. e = Stored(d, SentRows(n, sender, returned))
    BY <1>2, SettledTwo
  <1>8. m \notin Trash
    <2> SUFFICES ASSUME NEW q \in Online, m \in InState(player[q], "deleted") PROVE FALSE
      BY DEF Trash
    <2>1. q \in Players /\ player[q] # NULL /\ Remembers(q, player[q], settled)
      BY <1>1, NowAndSettled, OnlineType
    <2>2. player[q].mails[m] # NULL /\ player[q].mails[m].state = "deleted"
      BY DEF InState
    <2>3. q = p
      BY <1>5, <2>1, <2>2 DEF Remembers, InTables
    <2> QED BY <1>1, <2>2, <2>3 DEF Usable
  <1> HIDE DEF returned
  <1>9. /\ d \in Tables /\ d.money = settled.money
        /\ \A k \in Ids : /\ d.receiver[k] = IF k = m THEN NULL ELSE settled.receiver[k]
                          /\ d.mailMoney[k] = IF k = m THEN 0 ELSE settled.mailMoney[k]
    <2> DEFINE M == {m}
               I == mail.items
               f == Stored(settled, DeletedRows(M, I))
    <2>1. M \in SUBSET Ids /\ I \in SUBSET Items /\ settled \in Tables
      BY <1>3
    <2> HIDE DEF M, I
    <2>2. /\ f \in Tables
          /\ f.money = settled.money /\ f.bag = settled.bag /\ f.instance = settled.instance
          /\ \A i \in Items : f.inMail[i] = IF i \in I THEN NULL ELSE settled.inMail[i]
          /\ \A k \in Ids : /\ f.receiver[k] = IF k \in M THEN NULL ELSE settled.receiver[k]
                            /\ f.sender[k] = IF k \in M THEN NULL ELSE settled.sender[k]
                            /\ f.mailMoney[k] = IF k \in M THEN 0 ELSE settled.mailMoney[k]
                            /\ f.cod[k] = IF k \in M THEN 0 ELSE settled.cod[k]
      BY <2>1, DeletedIs
    <2>3. f = d
      BY DEF M, I
    <2> HIDE DEF f, d
    <2> QED BY <2>2, <2>3 DEF M
  <1> HIDE DEF d, mail, money, sender
  <1>10. /\ e \in Tables /\ e.money = settled.money
         /\ \A k \in Ids : /\ e.receiver[k] = IF k = n THEN sender ELSE d.receiver[k]
                           /\ e.mailMoney[k] = IF k = n THEN money % ColumnSize ELSE d.mailMoney[k]
    <2> DEFINE f == Stored(d, SentRows(n, sender, returned))
    <2>1. d \in Tables /\ n \in Ids /\ sender \in Players /\ returned \in Mail
      BY <1>3, <1>4, <1>6, <1>9
    <2>2. /\ f \in Tables
          /\ f.money = d.money /\ f.bag = d.bag /\ f.instance = d.instance
          /\ \A i \in Items : f.inMail[i] = IF i \in returned.items THEN n ELSE d.inMail[i]
          /\ \A k \in Ids : /\ f.receiver[k] = IF k = n THEN sender ELSE d.receiver[k]
                            /\ f.sender[k] = IF k = n THEN returned.sender ELSE d.sender[k]
                            /\ f.mailMoney[k] = IF k = n THEN returned.money % ColumnSize ELSE d.mailMoney[k]
                            /\ f.cod[k] = IF k = n THEN returned.cod % ColumnSize ELSE d.cod[k]
      BY <2>1, SentIs
    <2>3. e = f
      BY <1>7
    <2> HIDE DEF e, f
    <2> QED BY <1>6, <1>9, <2>2, <2>3
  <1> DEFINE g == settled.mailMoney[m]
             none == [k \in Ids |-> 0]
             lost == [k \in Ids |-> IF k = m THEN g ELSE IF k = n THEN 0 - g ELSE 0]
  <1>11. n # m /\ g \in Nat
    BY <1>3, <1>4, <1>5, TableTypes, MailAssumption
  <1>12. Thrown = 0
    <2>1. ASSUME NEW k \in Trash PROVE e.receiver[k] # NULL
      <3>1. k \in Ids /\ settled.receiver[k] # NULL
        BY TrashIsStored DEF Trash
      <3> QED BY <1>4, <1>8, <1>9, <1>10, <3>1
    <2> QED BY <2>1, NothingThrown
  <1>13. MailGold(settled)[m] = g /\ MailGold(e)[m] = 0 /\ MailGold(settled)[n] = 0 /\ MailGold(e)[n] = g
    BY <1>4, <1>5, <1>9, <1>10, <1>11 DEF MailGold
  <1>14. \A k \in Ids : k # m /\ k # n => MailGold(settled)[k] = MailGold(e)[k]
    BY <1>9, <1>10 DEF MailGold
  <1>15. \A k \in Ids : MailGold(e)[k] \in Nat
    BY <1>10, MailGoldType
  <1> HIDE DEF e, g
  <1>16. \A k \in Ids : lost[k] \in Int
    BY <1>11
  <1>17. \A k \in Ids : MailGold(settled)[k] = MailGold(e)[k] + lost[k]
    <2> TAKE k \in Ids
    <2>1. CASE k = m
      BY <1>11, <1>13, <2>1
    <2>2. CASE k = n
      BY <1>11, <1>13, <2>2
    <2>3. CASE k # m /\ k # n
      BY <1>14, <1>15, <2>3
    <2> QED BY <2>1, <2>2, <2>3
  <1>18. /\ ChangesAtTwo(none, lost, Ids, m, n) /\ \A k \in Ids : none[k] = 0
         /\ lost[m] = g /\ lost[n] = 0 - g
    BY <1>4, <1>11 DEF ChangesAtTwo
  <1> HIDE DEF none, lost
  <1>19. SumFunctionOnSet(lost, Ids) = 0
    <2>1. SumFunctionOnSet(none, Ids) = 0
      BY <1>18, MailAssumption, SumZero
    <2>3. /\ IsFiniteSet(Ids) /\ m \in Ids /\ n \in Ids /\ m # n
          /\ ChangesAtTwo(none, lost, Ids, m, n)
      BY <1>4, <1>11, <1>18, MailAssumption
    <2>2. SumFunctionOnSet(lost, Ids) = SumFunctionOnSet(none, Ids) + (lost[m] - none[m]) + (lost[n] - none[n])
      BY ONLY <2>3, SumChangeTwo
    <2> QED BY <1>4, <1>11, <1>18, <2>1, <2>2
  <1>20. /\ TotalGold(settled) \in Int /\ TotalGold(e) \in Int
         /\ e.money[p] \in Int /\ settled.money[p] \in Int
         /\ TotalGold(e) = TotalGold(settled) + (e.money[p] - settled.money[p]) - SumFunctionOnSet(lost, Ids)
    BY <1>3, <1>10, <1>16, <1>17, Ledger
  <1>21. TotalGold(e) = TotalGold(settled) - Thrown
    BY <1>10, <1>12, <1>19, <1>20
  <1> QED BY <1>21 DEF Accounted, e

\* An old mail goes back with its money, or is destroyed with it.
LEMMA QuietReturnAccounted ==
    ASSUME MailInv, NEW m \in Ids, QuietReturn(m)
    PROVE  Accounted
  <1> DEFINE e == settled'
             r == db.receiver[m]
             g == db.mailMoney[m]
  <1>1. /\ m \in Existing(db) /\ Queued(ReturnOrDelete(m)) /\ ReturnOrDeleteOldMails(m)
        /\ status[r] = "offline" /\ settled = db /\ db \in Tables /\ OnePlace(db)
    BY NowAndSettled DEF QuietReturn, ReturnOrDeleteOldMails
  <1>2. r \in Players /\ r # NULL /\ g \in Nat /\ db.sender[m] # NULL
    BY <1>1, TableTypes, MailAssumption DEF Existing
  <1>3. m \notin Trash
    <2>1. r \notin Online
      BY <1>1 DEF Online
    <2> QED BY <1>1, <2>1, TrashIsStored
  <1>4. /\ {m} \in SUBSET Existing(db) /\ {m} \in SUBSET Ids
    BY <1>1
  <1>5. ASSUME NEW lost, \A k \in Ids : lost[k] \in Int, e \in Tables,
               e.money = db.money, \A k \in Ids : MailGold(db)[k] = MailGold(e)[k] + lost[k]
        PROVE  /\ TotalGold(settled) \in Int /\ SumFunctionOnSet(lost, Ids) \in Int
               /\ TotalGold(e) = TotalGold(settled) - SumFunctionOnSet(lost, Ids)
    <2> HIDE DEF e
    <2>1. \A q \in Players : q # r => e.money[q] = db.money[q]
      BY <1>5
    <2>2. /\ TotalGold(db) \in Int /\ TotalGold(e) \in Int /\ SumFunctionOnSet(lost, Ids) \in Int
          /\ e.money[r] \in Int /\ db.money[r] \in Int
          /\ TotalGold(e) = TotalGold(db) + (e.money[r] - db.money[r]) - SumFunctionOnSet(lost, Ids)
      BY <1>1, <1>2, <1>5, <2>1, Ledger
    <2> QED BY <1>1, <1>5, <2>2
  <1>6. ASSUME \A k \in Ids : k # m => e.receiver[k] = db.receiver[k]
        PROVE  Thrown = 0
    <2>1. ASSUME NEW k \in Trash PROVE e.receiver[k] # NULL
      <3>1. k \in Ids /\ settled.receiver[k] # NULL
        BY TrashIsStored DEF Trash
      <3> QED BY <1>1, <1>3, <1>6, <3>1
    <2> QED BY <2>1, NothingThrown
  <1> DEFINE none == [k \in Ids |-> 0]
  <1>7. (\A k \in Ids : none[k] = 0) /\ SumFunctionOnSet(none, Ids) = 0
    <2>1. \A k \in Ids : none[k] = 0
      OBVIOUS
    <2> HIDE DEF none
    <2> QED BY <2>1, MailAssumption, SumZero
  <1> HIDE DEF none
  <1>8. CASE Returnable(m)
    <2> DEFINE f == Stored(db, ReturnedRows({m}))
    <2>1. Queued(<<Transaction(ReturnedRows({m}))>>)
      BY <1>1, <1>8 DEF ReturnOrDelete
    <2>2. e = f
      BY <1>1, <2>1, SettledOne
    <2>3. /\ f \in Tables /\ f.money = db.money /\ f.mailMoney = db.mailMoney
          /\ \A k \in Ids : f.receiver[k] = IF k \in {m} THEN db.sender[k] ELSE db.receiver[k]
      <3> DEFINE w == ReturnedRows({m})
      <3>1. w \in Writes
        BY <1>1, <1>4, ReturnedType
      <3>2. w.money = NoRow /\ w.mailMoney = NoRow /\ w.receiver = [k \in {m} |-> db.sender[k]]
        BY DEF ReturnedRows, Untouched
      <3> HIDE DEF w
      <3>3. f.money = db.money /\ f.mailMoney = db.mailMoney
        BY <1>1, <3>2, TableTypes, NothingWritten DEF Stored, w
      <3>4. Stored(db, w) \in Tables
        BY <1>1, <3>1, StoredType
      <3>5. \A k \in Ids : Stored(db, w).receiver[k]
                             = IF k \in DOMAIN w.receiver THEN w.receiver[k] ELSE db.receiver[k]
        BY <1>1, <3>1, StoredAt
      <3> QED BY <3>2, <3>3, <3>4, <3>5 DEF w
    <2> HIDE DEF e, f
    <2>4. \A k \in Ids : e.receiver[k] = IF k = m THEN db.sender[k] ELSE db.receiver[k]
      BY <2>2, <2>3
    <2>5. \A k \in Ids : MailGold(db)[k] = MailGold(e)[k] /\ MailGold(e)[k] \in Nat
      <3>1. \A k \in Ids : MailGold(e)[k] \in Nat
        BY <2>2, <2>3, MailGoldType
      <3>2. \A k \in Ids : MailGold(db)[k] = MailGold(e)[k]
        BY <1>2, <2>2, <2>3, <2>4 DEF MailGold
      <3> QED BY <3>1, <3>2
    <2>6. \A k \in Ids : none[k] \in Int /\ MailGold(db)[k] = MailGold(e)[k] + none[k]
      BY <1>7, <2>5
    <2>7. TotalGold(settled) \in Int /\ TotalGold(e) = TotalGold(settled) - SumFunctionOnSet(none, Ids)
      BY <1>5, <2>2, <2>3, <2>6
    <2>8. Thrown = 0
      BY <1>6, <2>4
    <2>9. TotalGold(e) = TotalGold(settled) - Thrown
      BY <1>7, <2>7, <2>8
    <2> QED BY <2>9 DEF Accounted, e
  <1>9. CASE ~Returnable(m)
    <2> DEFINE v == DestroyedRows({m})
               w == DeletedRows({m}, {})
               d == Stored(db, v)
               f == Stored(d, w)
               lost == [k \in Ids |-> IF k = m THEN g ELSE 0]
    <2>1. Queued(<<Transaction(v), Transaction(w)>>)
      BY <1>1, <1>9 DEF ReturnOrDelete
    <2>2. e = f
      BY <1>1, <2>1, SettledTwo
    <2>3. v \in Writes /\ w \in Writes
      BY <1>4, DestroyedType, DeletedType
    <2>4. v.money = NoRow /\ v.receiver = NoRow /\ v.mailMoney = NoRow
      BY DEF DestroyedRows, Untouched
    <2>5. w.money = NoRow /\ w.receiver = [k \in {m} |-> NULL] /\ w.mailMoney = [k \in {m} |-> 0]
      BY DEF DeletedRows, Untouched
    <2> HIDE DEF v, w
    <2>6. d.money = db.money /\ d.receiver = db.receiver /\ d.mailMoney = db.mailMoney
      BY <1>1, <2>4, TableTypes, NothingWritten DEF Stored
    <2>7. d \in Tables
      BY <1>1, <2>3, StoredType
    <2> HIDE DEF d
    <2>8. f.money = d.money
      BY <2>5, <2>7, TableTypes, NothingWritten DEF Stored
    <2>9. f \in Tables
      BY <2>3, <2>7, StoredType
    <2>10. \A k \in Ids :
              /\ f.receiver[k] = IF k \in DOMAIN w.receiver THEN w.receiver[k] ELSE d.receiver[k]
              /\ f.mailMoney[k] = IF k \in DOMAIN w.mailMoney THEN w.mailMoney[k] ELSE d.mailMoney[k]
      BY <2>3, <2>7, StoredAt
    <2> HIDE DEF f
    <2>11. \A k \in Ids : /\ f.receiver[k] = IF k = m THEN NULL ELSE db.receiver[k]
                          /\ k # m => f.mailMoney[k] = db.mailMoney[k]
      BY <2>5, <2>6, <2>10
    <2> HIDE DEF e
    <2>12. \A k \in Ids : MailGold(e)[k] \in Nat
      BY <2>2, <2>9, MailGoldType
    <2>13. MailGold(db)[m] = g /\ MailGold(e)[m] = 0
      BY <1>2, <2>2, <2>11 DEF MailGold
    <2>14. \A k \in Ids : k # m => MailGold(db)[k] = MailGold(e)[k]
      BY <2>2, <2>11 DEF MailGold
    <2> HIDE DEF g
    <2>15. \A k \in Ids : lost[k] \in Int /\ MailGold(db)[k] = MailGold(e)[k] + lost[k]
      BY <1>2, <2>12, <2>13, <2>14
    <2>16. ChangesAt(none, lost, Ids, m) /\ lost[m] = g
      BY <1>2, <1>7 DEF ChangesAt
    <2> HIDE DEF lost
    <2>17. SumFunctionOnSet(lost, Ids) = g
      <3>1. SumFunctionOnSet(lost, Ids) = SumFunctionOnSet(none, Ids) + lost[m] - none[m]
        BY <2>16, MailAssumption, SumChangeOne
      <3> QED BY <1>2, <1>7, <2>16, <3>1
    <2>18. TotalGold(settled) \in Int /\ TotalGold(e) = TotalGold(settled) - SumFunctionOnSet(lost, Ids)
      BY <1>5, <2>2, <2>6, <2>8, <2>9, <2>15
    <2>19. Thrown = 0
      BY <1>6, <2>2, <2>11
    <2>20. TotalGold(e) = TotalGold(settled) - Thrown - g
      BY <1>2, <2>17, <2>18, <2>19
    <2> QED BY <1>1, <1>9, <2>20 DEF Accounted, e, g
  <1> QED BY <1>8, <1>9

\* GoldAccounted: what is sent, returned or paid on delivery arrives in full, once.
THEOREM GoldAccountedCorrect == ASSUME AmountsFit PROVE QuietSpec => GoldAccounted
  <1>1. MailInv /\ SumsFit /\ [QuietNext]_vars => [Accounted]_vars
    <2> SUFFICES ASSUME MailInv, SumsFit, QuietNext PROVE Accounted
      OBVIOUS
    <2>1. ASSUME NEW p \in Players, OtherStep(p)
          PROVE  Accounted
      <3>1. CASE HandlePlayerLogin(p)
        BY <3>1, SameAccounted DEF HandlePlayerLogin
      <3>2. CASE HandlePlayerLoginOpcode(p)
        <4>1. settled' = After(settled, <<Query(p)>>)[Len(<<Query(p)>>)]
          BY <3>2 DEF HandlePlayerLoginOpcode, Queued
        <4>2. After(settled, <<Query(p)>>)[1] = Executed(settled, Query(p))
          BY AfterFew
        <4>3. Executed(settled, Query(p)) = settled
          BY DEF Executed, Query
        <4>4. Len(<<Query(p)>>) = 1
          OBVIOUS
        <4> QED BY <4>1, <4>2, <4>3, <4>4, SameAccounted
      <3>3. ASSUME NEW m \in Ids, HandleMailMarkAsRead(p, m) \/ HandleMailDelete(p, m)
            PROVE  Accounted
        BY <3>3, MarkIs, SameAccounted
      <3> QED BY <2>1, <3>1, <3>2, <3>3, SaveAccounted, SendAccounted, ReturnAccounted,
                 TakeMoneyAccounted DEF OtherStep
    <2>1a. ASSUME NEW p \in Players, NEW m \in Ids, NEW i \in Items, OwnTake(p, m, i)
           PROVE  Accounted
      BY <2>1a, TakeItemAccounted DEF OwnTake
    <2>2. CASE ProcessRequest
      BY <2>2, SameAccounted DEF ProcessRequest
    <2>3. CASE \E m \in Ids : QuietReturn(m)
      BY <2>3, QuietReturnAccounted
    <2>4. CASE CrashStep
      BY <2>4 DEF Accounted
    <2> QED BY <2>1, <2>1a, <2>2, <2>3, <2>4 DEF QuietNext
  <1>2. GoldAccounted <=> [][Accounted]_vars
    BY PTL DEF GoldAccounted, Accounted
  <1> QED BY <1>1, <1>2, MailInvCorrect, SumsFitCorrect, QuietIsSpec, PTL DEF QuietSpec
=============================================================================
