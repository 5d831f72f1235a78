---------------------------- MODULE TradeProofs ----------------------------
(***************************************************************************)
(* Proofs about Trade: type correctness, the pairing of the two windows,   *)
(* the meaning of an acceptance; where the items and the gold go through   *)
(* exchanges, saves, commits and crashes.                                  *)
(***************************************************************************)
EXTENDS Trade, DataLemmas

\* What m_trade of all players together may be.
Windows == [Players -> TradeData \cup {NULL}]

\* t has the open windows of trade, with the same partners.
SamePairs(t) ==
    \A q \in Players : /\ t[q] = NULL <=> trade[q] = NULL
                       /\ trade[q] # NULL => t[q].trader = trade[q].trader

\* A TradeData is no null pointer, and its fields have their types.
LEMMA RecordType ==
    ASSUME NEW r \in TradeData
    PROVE  /\ r # NULL
           /\ r.trader \in Players /\ r.accepted \in BOOLEAN /\ r.money \in 0..MaxGold
           /\ r.spell \in BOOLEAN /\ r.items \in [Slots -> Items \cup {NULL}]
    BY TradeAssumption DEF TradeData

\* Editing a slot and the spell of a TradeData leaves a TradeData of the same
\* partner.
LEMMA Edited ==
    ASSUME NEW r \in TradeData, NEW b \in BOOLEAN, NEW s \in Slots, NEW i \in Items \cup {NULL}
    PROVE  /\ [r EXCEPT !.spell = b] \in TradeData
           /\ [r EXCEPT !.spell = b].trader = r.trader
           /\ [r EXCEPT !.items[s] = i, !.spell = b] \in TradeData
           /\ [r EXCEPT !.items[s] = i, !.spell = b].trader = r.trader
  <1>1. [r.items EXCEPT ![s] = i] \in [Slots -> Items \cup {NULL}]
    BY RecordType
  <1> DEFINE f == [r.items EXCEPT ![s] = i]
  <1>2. [r EXCEPT !.items[s] = i, !.spell = b] = [r EXCEPT !.items = f, !.spell = b]
    BY DEF TradeData
  <1> HIDE DEF f
  <1>3. [r EXCEPT !.items = f, !.spell = b] \in TradeData
    BY <1>1 DEF TradeData, f
  <1> QED BY <1>2, <1>3, RecordType DEF TradeData

\* The window of a trading player is a TradeData whose partner is a player.
LEMMA Open ==
    ASSUME trade \in Windows, NEW p \in Players, Trading(p)
    PROVE  trade[p] \in TradeData /\ Partner(p) \in Players
    BY RecordType DEF Windows, Trading, Partner

\* t leaves everyone but p and its partner alone.
Others(t, p) == \A q \in Players \ {p, Partner(p)} : t[q] = trade[q]

\* What an edit of a list does: the pairs stay, both acceptances go.
ListsChange(t, p) ==
    /\ t \in Windows /\ SamePairs(t) /\ Others(t, p)
    /\ \A q \in {p, Partner(p)} : ~t[q].accepted

\* SetAccepted(false) on both sides, after any edit that keeps the pairs.
LEMMA UnacceptedKeeps ==
    ASSUME trade \in Windows, NEW t \in Windows, NEW p \in Players, Partner(p) \in Players,
           trade[p] # NULL, trade[Partner(p)] # NULL, SamePairs(t), Others(t, p)
    PROVE  ListsChange(Unaccepted(t, p), p)
  <1> DEFINE u == Unaccepted(t, p)
  <1>1. \A q \in {p, Partner(p)} :
           /\ u[q] \in TradeData
           /\ u[q].trader = t[q].trader /\ u[q].accepted = FALSE
    <2> TAKE q \in {p, Partner(p)}
    <2>1. t[q] \in TradeData
      BY DEF Windows, SamePairs
    <2>2. u[q] = [t[q] EXCEPT !.accepted = FALSE]
      BY DEF Unaccepted
    <2> QED BY <2>1, <2>2 DEF TradeData
  <1>2. \A q \in Players \ {p, Partner(p)} : u[q] = t[q]
    BY DEF Unaccepted
  <1>3. u \in Windows
    <2>1. \A q \in Players : u[q] \in TradeData \cup {NULL}
      BY <1>1, <1>2 DEF Windows
    <2>2. u = [q \in Players |-> u[q]]
      BY DEF Unaccepted
    <2> QED BY <2>1, <2>2 DEF Windows
  <1> HIDE DEF u
  <1>4. \A q \in {p, Partner(p)} : u[q] # NULL
    BY <1>1, RecordType
  <1>5. SamePairs(u)
    BY <1>1, <1>2, <1>4 DEF SamePairs
  <1>6. Others(u, p)
    BY <1>2 DEF Others
  <1> QED BY <1>1, <1>3, <1>5, <1>6 DEF ListsChange, u

\* Both windows of a pair are open and point at each other.
LEMMA Paired ==
    ASSUME TypeOK, PartnersAgree, NEW p \in Players, Trading(p)
    PROVE  /\ trade \in Windows /\ trade[p] \in TradeData
           /\ Partner(p) \in Players /\ Partner(p) # p
           /\ trade[Partner(p)] \in TradeData /\ Partner(Partner(p)) = p
    BY Open DEF TypeOK, PartnersAgree, Windows, Trading

\* SetMoney takes both acceptances back.
LEMMA SetGold ==
    ASSUME TypeOK, PartnersAgree, NEW p \in Players, NEW n \in 0..MaxGold,
           HandleSetTradeGoldOpcode(p, n)
    PROVE  ListsChange(trade', p)
  <1> DEFINE t == [trade EXCEPT ![p].money = n]
  <1>0. Trading(p) /\ trade' = Unaccepted(t, p)
    BY DEF HandleSetTradeGoldOpcode
  <1>1. t[p] \in TradeData /\ t[p].trader = Partner(p)
    BY <1>0, Paired DEF TradeData, Windows, Partner
  <1>2. t \in Windows /\ Others(t, p)
    BY <1>0, <1>1, Paired DEF Windows, Others
  <1>3. SamePairs(t)
    BY <1>0, <1>1, <1>2, RecordType DEF SamePairs, Partner, Trading, Windows
  <1> QED BY <1>0, <1>2, <1>3, Paired, RecordType, UnacceptedKeeps

\* SetItem takes both acceptances back.
LEMMA SetItemKeeps ==
    ASSUME TypeOK, PartnersAgree, NEW p \in Players, Trading(p), NEW s \in Slots,
           NEW i \in Items \cup {NULL}, SetItem(p, s, i)
    PROVE  ListsChange(trade', p)
  <1> DEFINE q == Partner(p)
             his == IF s = NonTraded THEN FALSE ELSE trade[q].spell
             t == [trade EXCEPT ![p].items[s] = i, ![p].spell = FALSE, ![q].spell = his]
  <1>1. /\ t[p] = [trade[p] EXCEPT !.items[s] = i, !.spell = FALSE]
        /\ t[q] = [trade[q] EXCEPT !.spell = his]
        /\ t = [r \in Players |-> t[r]]
        /\ \A r \in Players \ {p, q} : t[r] = trade[r]
    BY Paired DEF Windows
  <1>2. his \in BOOLEAN
    BY Paired, RecordType
  <1> HIDE DEF t, his
  <1>3. t[p] \in TradeData /\ t[p].trader = trade[p].trader
    <2>1. trade[p] \in TradeData BY Paired
    <2>2. [trade[p] EXCEPT !.items[s] = i, !.spell = FALSE] \in TradeData
      BY <2>1, Edited, Zenon
    <2>3. [trade[p] EXCEPT !.items[s] = i, !.spell = FALSE].trader = trade[p].trader
      BY <2>1, Edited, Zenon
    <2> QED BY <1>1, <2>2, <2>3, Zenon
  <1>4. t[q] \in TradeData /\ t[q].trader = trade[q].trader
    <2>1. trade[q] \in TradeData BY Paired
    <2>2. [trade[q] EXCEPT !.spell = his] \in TradeData
      BY <2>1, <1>2 DEF TradeData
    <2>3. [trade[q] EXCEPT !.spell = his].trader = trade[q].trader
      BY <2>1 DEF TradeData
    <2> QED BY <1>1, <2>2, <2>3, Zenon
  <1>5. t \in Windows /\ Others(t, p)
    BY <1>1, <1>3, <1>4, Paired DEF Windows, Others
  <1>6. SamePairs(t)
    BY <1>1, <1>3, <1>4, Paired, RecordType DEF SamePairs
  <1>7. trade' = Unaccepted(t, p)
    BY DEF SetItem, t, his
  <1> QED BY <1>7, <1>5, <1>6, Paired, RecordType, UnacceptedKeeps

\* SetSpell takes both acceptances back.
LEMMA SetSpellKeeps ==
    ASSUME TypeOK, PartnersAgree, NEW p \in Players, Trading(p), NEW c \in {p, Partner(p)},
           NEW b \in BOOLEAN, trade' = Unaccepted([trade EXCEPT ![c].spell = b], p)
    PROVE  ListsChange(trade', p)
  <1> DEFINE t == [trade EXCEPT ![c].spell = b]
  <1>1. t[c] \in TradeData /\ t[c].trader = trade[c].trader
    BY Paired DEF TradeData, Windows
  <1>2. t \in Windows /\ Others(t, p)
    BY <1>1, Paired DEF Windows, Others
  <1>3. SamePairs(t)
    BY <1>1, <1>2, Paired, RecordType DEF SamePairs, Windows
  <1> QED BY <1>2, <1>3, Paired, RecordType, UnacceptedKeeps

\* The action of AcceptedMeansAgreed.
Agreed == \A p \in Players :
    Trading(p) /\ trade'[p] # NULL /\ trade'[p].accepted =>
        List(p)' = List(p) /\ List(Partner(p))' = List(Partner(p))

\* What every step does to the windows.
Good == trade' \in Windows /\ PartnersAgree' /\ Agreed

\* A step that keeps the pairs and the players online keeps PartnersAgree.
LEMMA PairsStay ==
    ASSUME TypeOK, PartnersAgree, SamePairs(trade'), online' = online
    PROVE  PartnersAgree'
    BY DEF PartnersAgree, SamePairs, Trading, Partner, TypeOK

\* Edits of a list: whoever is still accepted is not one of the two.
LEMMA GoodListsChange ==
    ASSUME TypeOK, PartnersAgree, online' = online, NEW p \in Players, Trading(p),
           ListsChange(trade', p)
    PROVE  Good
  <1>1. PartnersAgree'
    BY PairsStay DEF ListsChange
  <1>2. Agreed
    <2> SUFFICES ASSUME NEW q \in Players, Trading(q), trade'[q] # NULL, trade'[q].accepted
                 PROVE  List(q)' = List(q) /\ List(Partner(q))' = List(Partner(q))
      BY DEF Agreed
    <2>1. q \notin {p, Partner(p)}
      BY DEF ListsChange
    <2>2. Partner(q) \in Players /\ Partner(q) \notin {p, Partner(p)}
      BY <2>1, Paired
    <2>3. trade'[q] = trade[q] /\ trade'[Partner(q)] = trade[Partner(q)]
      BY <2>1, <2>2 DEF ListsChange, Others
    <2> QED BY <2>3 DEF List, Partner
  <1> QED BY <1>1, <1>2 DEF Good, ListsChange

\* Steps that only set or reset acceptances.
LEMMA GoodFlags ==
    ASSUME TypeOK, PartnersAgree, online' = online, DOMAIN trade' = Players,
           trade' = [q \in Players |-> trade'[q]],
           \A q \in Players : 
              \/ trade'[q] = trade[q]
              \/ trade[q] # NULL /\ \E b \in BOOLEAN : trade'[q] = [trade[q] EXCEPT !.accepted = b]
    PROVE  Good
  <1>1. \A q \in Players : trade[q] # NULL =>
            /\ trade'[q] \in TradeData /\ trade'[q] # NULL
            /\ trade'[q].trader = trade[q].trader
            /\ List(q)' = List(q)
    <2> TAKE q \in Players
    <2> HAVE trade[q] # NULL
    <2>1. trade[q] \in TradeData
      BY DEF TypeOK
    <2>2. CASE trade'[q] = trade[q]
      BY <2>1, <2>2 DEF List
    <2>3. CASE \E b \in BOOLEAN : trade'[q] = [trade[q] EXCEPT !.accepted = b]
      <3>1. PICK b \in BOOLEAN : trade'[q] = [trade[q] EXCEPT !.accepted = b]
        BY <2>3
      <3>2. [trade[q] EXCEPT !.accepted = b] \in TradeData
        BY <2>1 DEF TradeData
      <3> QED BY <2>1, <3>1, <3>2, RecordType DEF List, TradeData
    <2> QED BY <2>2, <2>3
  <1>2. \A q \in Players : trade[q] = NULL => trade'[q] = NULL
    OBVIOUS
  <1>3. SamePairs(trade') /\ PartnersAgree'
    BY <1>1, <1>2, PairsStay DEF SamePairs
  <1>4. trade' \in Windows
    BY <1>1, <1>2 DEF Windows
  <1>5. Agreed
    <2> SUFFICES ASSUME NEW q \in Players, Trading(q)
                 PROVE  List(q)' = List(q) /\ List(Partner(q))' = List(Partner(q))
      BY DEF Agreed
    <2>1. Partner(q) \in Players /\ trade[q] # NULL /\ trade[Partner(q)] # NULL
      BY Paired, RecordType DEF Trading
    <2>2. trade'[q].trader = Partner(q)
      BY <1>1, <2>1 DEF Partner
    <2>3. List(Partner(q))' = [money |-> trade'[Partner(q)].money, spell |-> trade'[Partner(q)].spell,
                               items |-> trade'[Partner(q)].items]
      BY <2>2 DEF List, Partner
    <2>4. List(q)' = List(q)
      BY <1>1, <2>1
    <2>5. [money |-> trade'[Partner(q)].money, spell |-> trade'[Partner(q)].spell,
           items |-> trade'[Partner(q)].items] = List(Partner(q))
      BY <1>1, <2>1 DEF List
    <2> QED BY <2>3, <2>4, <2>5
  <1> QED BY <1>3, <1>4, <1>5 DEF Good

\* TradeCancel closes both windows, so none is left that points at a player
\* without one.
LEMMA GoodClose ==
    ASSUME TypeOK, PartnersAgree, NEW p \in Players, trade' = TradeCancelled(p),
           online' \subseteq Players, online \ {p} \subseteq online',
           Trading(p) => p \in online
    PROVE  Good
  <1>1. CASE ~Trading(p)
    <2>1. trade' = trade
      BY <1>1 DEF TradeCancelled
    <2>2. PartnersAgree'
      BY <1>1, <2>1 DEF PartnersAgree, Trading, Partner
    <2>3. Agreed
      BY <2>1 DEF Agreed, List, Partner
    <2> QED BY <2>1, <2>2, <2>3 DEF Good, TypeOK, Windows
  <1>2. CASE Trading(p)
    <2>1. /\ \A q \in {p, Partner(p)} : trade'[q] = NULL
          /\ \A q \in Players \ {p, Partner(p)} : trade'[q] = trade[q]
          /\ trade' \in Windows
      BY <1>2, Paired DEF TradeCancelled, Windows
    <2>2. \A q \in Players : trade'[q] # NULL =>
              /\ Trading(q) /\ q \notin {p, Partner(p)}
              /\ Partner(q) \in Players \ {p, Partner(p)} /\ Partner(q) # q
              /\ trade'[q] = trade[q] /\ trade'[Partner(q)] = trade[Partner(q)]
              /\ Partner(Partner(q)) = q
      BY <1>2, <2>1, Paired DEF Trading
    <2>3. PartnersAgree'
      BY <2>2 DEF PartnersAgree, Trading, Partner
    <2>4. Agreed
      BY <2>2 DEF Agreed, List, Partner
    <2> QED BY <2>1, <2>3, <2>4 DEF Good
  <1> QED BY <1>1, <1>2

\* Steps that leave the windows alone.
LEMMA GoodUnchanged ==
    ASSUME TypeOK, PartnersAgree, online \subseteq online', trade' = trade
    PROVE  Good
  <1>1. PartnersAgree'
    BY DEF PartnersAgree, Trading, Partner
  <1>2. Agreed
    BY DEF Agreed, List, Partner
  <1> QED BY <1>1, <1>2 DEF Good, TypeOK, Windows

\* HandleInitiateTradeOpcode opens two windows between two players without one.
LEMMA GoodInitiate ==
    ASSUME TypeOK, PartnersAgree, NEW p \in Players, NEW q \in Players,
           HandleInitiateTradeOpcode(p, q)
    PROVE  Good
  <1> DEFINE Empty(other) == [trader |-> other, accepted |-> FALSE, money |-> 0,
                              spell |-> FALSE, items |-> [s \in Slots |-> NULL]]
  <1>1. \A r \in Players : /\ Empty(r) \in TradeData /\ Empty(r).trader = r
                           /\ Empty(r).accepted = FALSE
    BY TradeAssumption DEF TradeData
  <1>2. /\ p # q /\ ~Trading(p) /\ ~Trading(q) /\ p \in online /\ q \in online
        /\ online' = online
        /\ trade' = [trade EXCEPT ![p] = Empty(q), ![q] = Empty(p)]
    BY DEF HandleInitiateTradeOpcode
  <1> HIDE DEF Empty
  <1>3. /\ trade' \in Windows /\ trade'[p] = Empty(q) /\ trade'[q] = Empty(p)
        /\ \A r \in Players \ {p, q} : trade'[r] = trade[r]
    BY <1>1, <1>2 DEF TypeOK, Windows
  <1>4. \A r \in Players \ {p, q} : trade'[r] # NULL =>
            /\ Trading(r) /\ Partner(r) \in Players \ {p, q}
            /\ trade'[r] = trade[r] /\ trade'[Partner(r)] = trade[Partner(r)]
            /\ r \in online /\ Partner(r) \in online /\ Partner(r) # r
            /\ trade[Partner(r)] # NULL /\ Partner(Partner(r)) = r
    <2> SUFFICES ASSUME NEW r \in Players \ {p, q}, trade[r] # NULL
                 PROVE  /\ Partner(r) \in Players \ {p, q}
                        /\ r \in online /\ Partner(r) \in online /\ Partner(r) # r
                        /\ trade[Partner(r)] # NULL /\ Partner(Partner(r)) = r
      BY <1>3 DEF Trading
    <2> QED BY <1>2, Paired DEF Trading, PartnersAgree
  <1>5. PartnersAgree'
    <2> SUFFICES ASSUME NEW r \in Players, Trading(r)'
                 PROVE  (/\ r \in online /\ Partner(r) \in online /\ Partner(r) # r
                         /\ Trading(Partner(r)) /\ Partner(Partner(r)) = r)'
      BY DEF PartnersAgree
    <2>0. /\ trade'[p] # NULL /\ trade'[q] # NULL
          /\ trade'[p].trader = q /\ trade'[q].trader = p
      BY <1>1, <1>3, RecordType
    <2>a. p \in online' /\ q \in online' /\ p # q /\ online' = online
      BY <1>2
    <2>1. CASE r \in {p, q}
      BY <2>a, <2>0, <2>1 DEF Trading, Partner
    <2>2. CASE r \notin {p, q}
      BY <2>a, <1>4, <2>2 DEF Trading, Partner
    <2> QED BY <2>1, <2>2
  <1>6. Agreed
    <2> SUFFICES ASSUME NEW r \in Players, trade'[r] # NULL, trade'[r].accepted
                 PROVE  List(r)' = List(r) /\ List(Partner(r))' = List(Partner(r))
      BY DEF Agreed
    <2>1. r \in Players \ {p, q}
      BY <1>1, <1>3
    <2> QED BY <1>4, <2>1 DEF List, Partner
  <1> QED BY <1>3, <1>5, <1>6 DEF Good

\* ModifyMoney keeps a balance between nothing and the limit.
LEMMA GoldArithmetic ==
    ASSUME NEW g \in 0..MaxGold, NEW n \in 0..MaxGold
    PROVE  Pay(g, n) \in 0..MaxGold /\ Receive(g, n) \in 0..MaxGold
    BY TradeAssumption DEF Pay, Receive

\* What a player is saved with.
LEMMA OwnedType ==
    ASSUME TypeOK, NEW p \in Players
    PROVE  Owned(p) \in Snapshot
    BY DEF TypeOK, Owned, Snapshot

\* Queuing a transaction keeps the type of the queue.
LEMMA SavedType ==
    ASSUME TypeOK, NEW P \in SUBSET Players, NEW f \in [P -> Snapshot]
    PROVE  Append(saves, f) \in Seq(Transaction)
  <1>1. f \in Transaction
    BY DEF Transaction
  <1> HIDE DEF Transaction
  <1> QED BY <1>1 DEF TypeOK

\* Queuing the save of one player.
LEMMA SaveToDBType ==
    ASSUME TypeOK, NEW p \in Players, SaveToDB(p)
    PROVE  saves' \in Seq(Transaction)
  <1> DEFINE f == [r \in {p} |-> Owned(r)]
  <1>1. f \in [{p} -> Snapshot]
    BY OwnedType
  <1>2. saves' = Append(saves, f)
    BY DEF SaveToDB
  <1> HIDE DEF f
  <1> QED BY <1>1, <1>2, SavedType

\* Only items the player still carries are offered.
LEMMA OfferedType ==
    ASSUME TypeOK, NEW p \in Players
    PROVE  Offered(p) \subseteq inventory[p]
    BY TradeAssumption DEF TypeOK, Offered, GetItem

\* What a trader owns after the exchange.
LEMMA CompleteType ==
    ASSUME TypeOK, PartnersAgree, NEW p \in Players, Trading(p)
    PROVE  GoldAfter(p) \in 0..MaxGold /\ ItemsAfter(p) \in SUBSET Items
  <1>1. Partner(p) \in Players /\ trade[p].money \in 0..MaxGold
        /\ trade[Partner(p)].money \in 0..MaxGold
    BY Paired, RecordType
  <1>2. GoldAfter(p) \in 0..MaxGold
    BY <1>1, GoldArithmetic DEF GoldAfter, TypeOK
  <1>3. ItemsAfter(p) \in SUBSET Items
    BY <1>1, OfferedType DEF ItemsAfter, TypeOK
  <1> QED BY <1>2, <1>3

\* All but the windows.
Rest == <<online, place, goods, tradable, db>>

\* A step that changes the windows only.
LEMMA OnlyTrade ==
    ASSUME TypeOK, UNCHANGED Rest, Good
    PROVE  TypeOK' /\ Good
    BY DEF TypeOK, Good, Windows, Rest, goods, db

\* The handlers that edit a list.
LEMMA ListSteps ==
    ASSUME TypeOK, PartnersAgree, NEW p \in Players, ListStep(p)
    PROVE  TypeOK' /\ Good
  <1>1. ASSUME NEW n \in 0..MaxGold, HandleSetTradeGoldOpcode(p, n) PROVE TypeOK' /\ Good
    <2>1. UNCHANGED Rest /\ Trading(p)
      BY <1>1 DEF HandleSetTradeGoldOpcode, Rest
    <2>2. ListsChange(trade', p)
      BY <1>1, SetGold
    <2> QED BY <2>1, <2>2, GoodListsChange, OnlyTrade DEF Rest
  <1>2. ASSUME NEW s \in Slots, NEW i \in Items, HandleSetTradeItemOpcode(p, s, i)
        PROVE  TypeOK' /\ Good
    <2>1. UNCHANGED Rest /\ Trading(p) /\ SetItem(p, s, i)
      BY <1>2 DEF HandleSetTradeItemOpcode, Rest
    <2>2. ListsChange(trade', p)
      BY <2>1, SetItemKeeps
    <2> QED BY <2>1, <2>2, GoodListsChange, OnlyTrade DEF Rest
  <1>3. ASSUME NEW s \in Slots, HandleClearTradeItemOpcode(p, s) PROVE TypeOK' /\ Good
    <2>1. UNCHANGED Rest /\ Trading(p) /\ SetItem(p, s, NULL)
      BY <1>3 DEF HandleClearTradeItemOpcode, Rest
    <2>2. ListsChange(trade', p)
      BY <2>1, SetItemKeeps
    <2> QED BY <2>1, <2>2, GoodListsChange, OnlyTrade DEF Rest
  <1>4. ASSUME SetSpell(p) PROVE TypeOK' /\ Good
    <2>1. UNCHANGED Rest /\ Trading(p)
          /\ trade' = Unaccepted([trade EXCEPT ![p].spell = TRUE], p)
      BY <1>4 DEF SetSpell, Rest
    <2>2. ListsChange(trade', p)
      BY <2>1, SetSpellKeeps
    <2> QED BY <2>1, <2>2, GoodListsChange, OnlyTrade DEF Rest
  <1> QED BY <1>1, <1>2, <1>3, <1>4 DEF ListStep

\* A step that sets one acceptance.
LEMMA OneFlag ==
    ASSUME TypeOK, PartnersAgree, NEW p \in Players, Trading(p), NEW b \in BOOLEAN,
           trade' = [trade EXCEPT ![p].accepted = b], UNCHANGED Rest
    PROVE  TypeOK' /\ Good
  <1>1. /\ trade' = [q \in Players |-> trade'[q]] /\ DOMAIN trade' = Players
        /\ trade'[p] = [trade[p] EXCEPT !.accepted = b]
        /\ \A q \in Players : q # p => trade'[q] = trade[q]
    BY DEF TypeOK
  <1>2. trade[p] # NULL /\ online' = online
    BY DEF Trading, Rest
  <1>3. Good
    BY <1>1, <1>2, GoodFlags
  <1> QED BY <1>3, OnlyTrade

\* The accept that fails on the partner's gold.
LEMMA PartnerLacksGold ==
    ASSUME TypeOK, PartnersAgree, NEW p \in Players, Accept_PartnerLacksGold(p)
    PROVE  TypeOK' /\ Good
  <1> DEFINE q == Partner(p)
  <1>1. /\ Trading(p) /\ UNCHANGED Rest
        /\ trade' = [trade EXCEPT ![p].accepted = TRUE, ![q].accepted = FALSE]
    BY DEF Accept_PartnerLacksGold, Rest
  <1>2. q \in Players /\ q # p /\ trade[p] # NULL /\ trade[q] # NULL
    BY <1>1, Paired, RecordType DEF Trading
  <1> HIDE DEF q
  <1>3. /\ trade' = [r \in Players |-> trade'[r]] /\ DOMAIN trade' = Players
        /\ trade'[p] = [trade[p] EXCEPT !.accepted = TRUE]
        /\ trade'[q] = [trade[q] EXCEPT !.accepted = FALSE]
        /\ \A r \in Players \ {p, q} : trade'[r] = trade[r]
    BY <1>1, <1>2 DEF TypeOK
  <1>4. Good
    BY <1>1, <1>2, <1>3, GoodFlags DEF Rest
  <1> QED BY <1>1, <1>4, OnlyTrade

\* Taking both acceptances back.
LEMMA NoChangeKeepsLists ==
    ASSUME TypeOK, PartnersAgree, NEW p \in Players, Trading(p), trade' = Unaccepted(trade, p)
    PROVE  ListsChange(trade', p)
  <1>1. trade \in Windows /\ SamePairs(trade) /\ Others(trade, p)
    BY DEF TypeOK, Windows, SamePairs, Others
  <1> QED BY <1>1, Paired, RecordType, UnacceptedKeeps

\* The exchange.
LEMMA Completes ==
    ASSUME TypeOK, PartnersAgree, NEW p \in Players, Accept_Complete(p)
    PROVE  TypeOK' /\ Good
  <1> DEFINE q == Partner(p)
             f == [r \in {p, q} |-> [gold |-> GoldAfter(r), items |-> ItemsAfter(r)]]
  <1>1. /\ Trading(p) /\ UNCHANGED <<online, place, tradable, disk>>
        /\ gold' = [gold EXCEPT ![p] = GoldAfter(p), ![q] = GoldAfter(q)]
        /\ inventory' = [inventory EXCEPT ![p] = ItemsAfter(p), ![q] = ItemsAfter(q)]
        /\ trade' = [trade EXCEPT ![p] = NULL, ![q] = NULL]
        /\ saves' = Append(saves, f)
    BY DEF Accept_Complete, Ready
  <1>2. q \in Players /\ Trading(q)
    BY <1>1, Paired, RecordType DEF Trading
  <1>3. \A r \in {p, q} : GoldAfter(r) \in 0..MaxGold /\ ItemsAfter(r) \in SUBSET Items
    BY <1>1, <1>2, CompleteType
  <1>4. f \in [{p, q} -> Snapshot]
    BY <1>3 DEF Snapshot
  <1>5. trade' = TradeCancelled(p)
    BY <1>1, <1>2 DEF TradeCancelled, TypeOK
  <1> HIDE DEF q, f
  <1>6. saves' \in Seq(Transaction)
    BY <1>1, <1>2, <1>4, SavedType
  <1>7. Good
    BY <1>1, <1>5, GoodClose DEF PartnersAgree, TypeOK
  <1> QED BY <1>1, <1>2, <1>3, <1>6, <1>7 DEF TypeOK, Good, Windows

\* HandleAcceptTradeOpcode.
LEMMA AcceptSteps ==
    ASSUME TypeOK, PartnersAgree, NEW p \in Players, AcceptStep(p)
    PROVE  TypeOK' /\ Good
  <1>1. CASE Accept_NotEnoughGold(p)
    BY <1>1, OneFlag DEF Accept_NotEnoughGold, Rest
  <1>2. CASE Accept_PartnerLacksGold(p)
    BY <1>2, PartnerLacksGold
  <1>3. CASE Accept_ItemRefused(p)
    BY <1>3, OneFlag DEF Accept_ItemRefused, Accepting, Rest
  <1>4. CASE Accept_Waiting(p)
    BY <1>4, OneFlag DEF Accept_Waiting, Accepting, Rest
  <1>5. CASE Accept_SpellFails(p)
    <2>1. PICK c \in {p, Partner(p)} : trade' = Unaccepted([trade EXCEPT ![c].spell = FALSE], p)
      BY <1>5 DEF Accept_SpellFails
    <2>2. Trading(p) /\ UNCHANGED Rest
      BY <1>5 DEF Accept_SpellFails, Ready, Rest
    <2>3. ListsChange(trade', p)
      BY <2>1, <2>2, SetSpellKeeps
    <2> QED BY <2>2, <2>3, GoodListsChange, OnlyTrade DEF Rest
  <1>6. CASE Accept_NoSpace(p)
    <2>1. Trading(p) /\ UNCHANGED Rest /\ trade' = Unaccepted(trade, p)
      BY <1>6 DEF Accept_NoSpace, Ready, Rest
    <2> QED BY <2>1, NoChangeKeepsLists, GoodListsChange, OnlyTrade DEF Rest
  <1>7. CASE Accept_Complete(p)
    BY <1>7, Completes
  <1> QED BY <1>1, <1>2, <1>3, <1>4, <1>5, <1>6, <1>7 DEF AcceptStep

\* What happens around a trade.
LEMMA WorldSteps ==
    ASSUME TypeOK, PartnersAgree, NEW p \in Players, WorldStep(p)
    PROVE  TypeOK' /\ Good
  <1>1. CASE SavePlayer(p)
    <2>1. SaveToDB(p) /\ UNCHANGED <<online, place, trade, goods, tradable, disk>>
      BY <1>1 DEF SavePlayer
    <2>2. Good /\ saves' \in Seq(Transaction)
      BY <2>1, SaveToDBType, GoodUnchanged
    <2> QED BY <2>1, <2>2 DEF TypeOK, goods
  <1>2. CASE LogoutPlayer(p)
    <2>1. /\ SaveToDB(p) /\ UNCHANGED <<place, goods, tradable, disk>>
          /\ online' = online \ {p} /\ trade' = TradeCancelled(p)
      BY <1>2 DEF LogoutPlayer
    <2>2. online' \subseteq Players /\ (Trading(p) => p \in online)
      BY <2>1 DEF TypeOK, PartnersAgree
    <2>3. Good /\ saves' \in Seq(Transaction)
      BY <2>1, <2>2, SaveToDBType, GoodClose
    <2> QED BY <2>1, <2>2, <2>3 DEF TypeOK, goods, Good, Windows
  <1>3. CASE LoginPlayer(p)
    <2>1. UNCHANGED <<place, trade, goods, tradable, db>> /\ online' = online \cup {p}
      BY <1>3 DEF LoginPlayer
    <2>2. Good
      BY <2>1, GoodUnchanged
    <2> QED BY <2>1, <2>2 DEF TypeOK, goods, db
  <1>4. ASSUME NEW i \in Items, DestroyItem(p, i) PROVE TypeOK' /\ Good
    <2>1. /\ UNCHANGED <<online, place, trade, gold, tradable, db>>
          /\ inventory' = [inventory EXCEPT ![p] = @ \ {i}]
      BY <1>4 DEF DestroyItem
    <2>2. Good
      BY <2>1, GoodUnchanged
    <2> QED BY <2>1, <2>2 DEF TypeOK, db
  <1>5. ASSUME NEW i \in Items, BindItem(p, i) PROVE TypeOK' /\ Good
    <2>1. UNCHANGED <<online, place, trade, goods, db>> /\ tradable' = tradable \ {i}
      BY <1>5 DEF BindItem
    <2>2. Good
      BY <2>1, GoodUnchanged
    <2> QED BY <2>1, <2>2 DEF TypeOK, goods, db
  <1>6. ASSUME NEW n \in 1..MaxGold, SpendGold(p, n) PROVE TypeOK' /\ Good
    <2>1. /\ UNCHANGED <<online, place, trade, inventory, tradable, db>>
          /\ gold' = [gold EXCEPT ![p] = Pay(@, n)]
      BY <1>6 DEF SpendGold
    <2>a. n \in 0..MaxGold /\ gold[p] \in 0..MaxGold
      BY TradeAssumption DEF TypeOK
    <2>2. Pay(gold[p], n) \in 0..MaxGold
      BY <2>a, GoldArithmetic
    <2>3. Good
      BY <2>1, GoodUnchanged
    <2> QED BY <2>1, <2>2, <2>3 DEF TypeOK, db
  <1>7. ASSUME NEW l \in Places, SetPosition(p, l) PROVE TypeOK' /\ Good
    <2>1. UNCHANGED <<online, trade, goods, tradable, db>> /\ place' = [place EXCEPT ![p] = l]
      BY <1>7 DEF SetPosition
    <2>2. Good
      BY <2>1, GoodUnchanged
    <2> QED BY <2>1, <2>2 DEF TypeOK, goods, db
  <1> QED BY <1>1, <1>2, <1>3, <1>4, <1>5, <1>6, <1>7 DEF WorldStep

\* Any step of one player.
LEMMA PlayerSteps ==
    ASSUME TypeOK, PartnersAgree, NEW p \in Players, PlayerStep(p)
    PROVE  TypeOK' /\ Good
  <1>1. ASSUME NEW q \in Players, HandleInitiateTradeOpcode(p, q) PROVE TypeOK' /\ Good
    <2>1. UNCHANGED Rest
      BY <1>1 DEF HandleInitiateTradeOpcode, Rest
    <2> QED BY <1>1, <2>1, GoodInitiate, OnlyTrade
  <1>2. CASE HandleCancelTradeOpcode(p)
    <2>1. UNCHANGED Rest /\ Trading(p) /\ trade' = TradeCancelled(p)
      BY <1>2 DEF HandleCancelTradeOpcode, Rest
    <2>2. p \in online /\ online' \subseteq Players /\ online \ {p} \subseteq online'
      BY <2>1 DEF PartnersAgree, TypeOK, Rest
    <2> QED BY <2>1, <2>2, GoodClose, OnlyTrade
  <1>3. CASE HandleUnacceptTradeOpcode(p)
    BY <1>3, OneFlag DEF HandleUnacceptTradeOpcode, Rest
  <1> QED BY <1>1, <1>2, <1>3, ListSteps, AcceptSteps, WorldSteps DEF PlayerStep

\* The database thread commits a transaction.
LEMMA Commits ==
    ASSUME TypeOK, PartnersAgree, CommitSave
    PROVE  TypeOK' /\ Good
  <1>1. /\ saves # <<>> /\ saves' = Tail(saves)
        /\ UNCHANGED <<online, place, trade, goods, tradable>>
        /\ disk' = [p \in Players |-> IF p \in DOMAIN Head(saves) THEN Head(saves)[p] ELSE disk[p]]
    BY DEF CommitSave
  <1>2. Head(saves) \in Transaction /\ saves' \in Seq(Transaction)
    BY <1>1 DEF TypeOK
  <1>3. \A p \in Players : disk'[p] \in Snapshot
    BY <1>1, <1>2 DEF TypeOK, Transaction
  <1>4. Good
    BY <1>1, GoodUnchanged
  <1> HIDE DEF Transaction
  <1> QED BY <1>1, <1>2, <1>3, <1>4 DEF TypeOK, goods

\* A crash and a restart.
LEMMA Restarts ==
    ASSUME TypeOK, PartnersAgree, Restart
    PROVE  TypeOK' /\ Good
  <1>1. Good
    BY DEF Good, Restart, Windows, PartnersAgree, Trading, Agreed
  <1>2. TypeOK'
    BY DEF Restart, TypeOK, Snapshot
  <1> QED BY <1>1, <1>2

\* TypeOK and PartnersAgree are inductive together: TypeOK alone is not, since an
\* edit of a list writes into the partner's window, which must be there.
LEMMA Steps ==
    ASSUME TypeOK, PartnersAgree, [Next]_vars
    PROVE  TypeOK' /\ Good
  <1>1. CASE UNCHANGED vars
    BY <1>1, GoodUnchanged DEF vars, TypeOK, goods, db
  <1> QED BY <1>1, PlayerSteps, Commits, Restarts DEF Next

\* The initial states.
LEMMA InitType ==
    ASSUME Init
    PROVE  TypeOK /\ PartnersAgree
  <1> USE TradeAssumption
  <1>1. saves \in Seq(Transaction)
    BY DEF Init
  <1>2. disk \in [Players -> Snapshot]
    BY DEF Init, Snapshot
  <1>3. PartnersAgree
    BY DEF Init, PartnersAgree, Trading
  <1> QED BY <1>1, <1>2, <1>3 DEF Init, TypeOK

\* Every variable keeps its type; gold never leaves 0..MaxGold.
THEOREM TypeCorrect == Spec => []TypeOK
  <1>1. Init => TypeOK /\ PartnersAgree
    BY InitType
  <1>2. TypeOK /\ PartnersAgree /\ [Next]_vars => (TypeOK /\ PartnersAgree)'
    BY Steps DEF Good
  <1> QED BY <1>1, <1>2, PTL DEF Spec

\* m_trade of the two traders is opened and closed together: no window points at
\* a player that has left or trades with somebody else.
THEOREM PartnersCorrect == Spec => []PartnersAgree
  <1>1. Init => TypeOK /\ PartnersAgree
    BY InitType
  <1>2. TypeOK /\ PartnersAgree /\ [Next]_vars => (TypeOK /\ PartnersAgree)'
    BY Steps DEF Good
  <1> QED BY <1>1, <1>2, PTL DEF Spec

\* An acceptance given to HandleAcceptTradeOpcode never survives a change of
\* either list.
THEOREM AcceptanceCorrect == Spec => AcceptedMeansAgreed
  <1>1. TypeOK /\ PartnersAgree /\ [Next]_vars => [Agreed]_vars
    BY Steps DEF Good
  <1>2. Spec => []TypeOK /\ []PartnersAgree
    BY TypeCorrect, PartnersCorrect
  <1>3. AcceptedMeansAgreed <=> [][Agreed]_vars
    BY PTL DEF AcceptedMeansAgreed, Agreed
  <1> QED BY <1>1, <1>2, <1>3, PTL DEF Spec

(***************************************************************************)
(* Items.                                                                  *)
(***************************************************************************)
\* The queue of saves has a length.
LEMMA SavesLength ==
    ASSUME TypeOK
    PROVE  Len(saves) \in Nat
  <1> HIDE DEF Transaction
  <1>1. saves \in Seq(Transaction)
    BY DEF TypeOK
  <1> QED BY <1>1

\* A transaction of the players P, who exchanged items among themselves, is
\* queued with what they now carry: nobody shares an item with a save of another.
LEMMA Appended ==
    ASSUME TypeOK, ItemsApart, NEW P \in SUBSET Players, NEW f \in [P -> Snapshot],
           saves' = Append(saves, f), disk' = disk, InventoriesApart',
           \A r \in P : /\ f[r].items = inventory'[r]
                        /\ inventory'[r] \subseteq UNION {inventory[s] : s \in P},
           \A r \in Players \ P : inventory'[r] = inventory[r]
    PROVE  ItemsApart'
  <1>0. PICK N \in Nat : N = Len(saves)
    BY SavesLength
  <1>1. /\ N \in Nat /\ Len(saves') = N + 1 /\ saves'[N + 1] = f
        /\ \A m \in 1..N : saves'[m] = saves[m]
    <2> HIDE DEF Transaction
    <2>1. saves \in Seq(Transaction)
      BY DEF TypeOK
    <2>2. f \in Transaction
      BY DEF Transaction
    <2> QED BY <1>0, <2>1, <2>2
  <1>2. \A q \in Players : \A k \in 0..N : \A j \in 0..k :
            (Current(q, j, k)' => Current(q, j, k)) /\ Saved(q, j)' = Saved(q, j)
    BY <1>1 DEF Current, Saved
  <1>3. DOMAIN f = P
    OBVIOUS
  <1>4. \A q \in P : \A j \in 0..(N + 1) :
            Current(q, j, N + 1)' => j = N + 1 /\ Saved(q, j)' = inventory'[q]
    BY <1>1, <1>3 DEF Current, Saved
  <1>5. \A q \in Players \ P : \A j \in 0..(N + 1) :
            Current(q, j, N + 1)' => j \in 0..N /\ Current(q, j, N) /\ Saved(q, j)' = Saved(q, j)
    BY <1>1, <1>3 DEF Current, Saved
  <1>6. \A p \in P, q \in Players \ P : \A j \in 0..(N + 1) :
            Current(q, j, N + 1)' => Saved(q, j)' \cap inventory'[p] = {}
    <2> SUFFICES ASSUME NEW p \in P, NEW q \in Players \ P, NEW j \in 0..(N + 1),
                        Current(q, j, N + 1)', NEW i, i \in Saved(q, j)', i \in inventory'[p]
                 PROVE  FALSE
      OBVIOUS
    <2>1. j \in 0..N /\ Current(q, j, N) /\ i \in Saved(q, j)
      BY <1>5
    <2>2. PICK s \in P : i \in inventory[s]
      OBVIOUS
    <2>3. Saved(q, j) \cap inventory[s] = {}
      BY <1>0, <2>1 DEF ItemsApart, LastSavesApart
    <2> QED BY <2>1, <2>2, <2>3
  <1>7. LastSavesApart'
    <2> SUFFICES ASSUME NEW p \in Players, NEW q \in Players, p # q, NEW i \in 0..(N + 1),
                        Current(p, i, N + 1)'
                 PROVE  Saved(p, i)' \cap inventory'[q] = {}
      BY <1>1 DEF LastSavesApart
    <2>1. CASE p \in P
      BY <1>4, <2>1 DEF InventoriesApart
    <2>2. CASE p \notin P /\ q \in P
      BY <1>6, <2>2
    <2>3. CASE p \notin P /\ q \notin P
      BY <1>0, <1>5, <2>3 DEF ItemsApart, LastSavesApart
    <2> QED BY <2>1, <2>2, <2>3
  <1>8. SavesApart'
    <2> SUFFICES ASSUME NEW p \in Players, NEW q \in Players, p # q, NEW k \in 0..(N + 1),
                        NEW i \in 0..k, NEW j \in 0..k, Current(p, i, k)', Current(q, j, k)'
                 PROVE  Saved(p, i)' \cap Saved(q, j)' = {}
      BY <1>1 DEF SavesApart
    <2>1. CASE k \in 0..N
      BY <1>0, <1>2, <2>1 DEF ItemsApart, SavesApart
    <2>2. CASE k = N + 1
      <3>1. CASE p \in P /\ q \in P
        BY <1>4, <2>2, <3>1 DEF InventoriesApart
      <3>2. CASE p \in P /\ q \notin P
        BY <1>4, <1>6, <2>2, <3>2
      <3>3. CASE p \notin P /\ q \in P
        BY <1>4, <1>6, <2>2, <3>3
      <3>4. CASE p \notin P /\ q \notin P
        BY <1>0, <1>5, <2>2, <3>4 DEF ItemsApart, SavesApart
      <3> QED BY <3>1, <3>2, <3>3, <3>4
    <2> QED BY <1>1, <2>1, <2>2
  <1> QED BY <1>7, <1>8 DEF ItemsApart

\* Items that vanish from inventories.
LEMMA Shrunk ==
    ASSUME TypeOK, ItemsApart, UNCHANGED db,
           \A r \in Players : inventory'[r] \subseteq inventory[r]
    PROVE  ItemsApart'
  <1>1. InventoriesApart'
    BY DEF ItemsApart, InventoriesApart
  <1>2. \A p \in Players : \A j, k \in 0..Len(saves) :
            (Current(p, j, k)' => Current(p, j, k)) /\ Saved(p, j)' = Saved(p, j)
    BY DEF db, Current, Saved
  <1>3. Len(saves) \in Nat /\ Len(saves') = Len(saves)
    BY DEF TypeOK, db
  <1>4. SavesApart'
    BY <1>2, <1>3 DEF ItemsApart, SavesApart
  <1>5. LastSavesApart'
    <2> SUFFICES ASSUME NEW p \in Players, NEW q \in Players, p # q,
                        NEW i \in 0..Len(saves), Current(p, i, Len(saves))'
                 PROVE  Saved(p, i)' \cap inventory'[q] = {}
      BY <1>3 DEF LastSavesApart
    <2>1. Current(p, i, Len(saves)) /\ Saved(p, i)' = Saved(p, i)
      BY <1>3 DEF db, Current, Saved
    <2> QED BY <2>1 DEF ItemsApart, LastSavesApart
  <1> QED BY <1>1, <1>4, <1>5 DEF ItemsApart

\* Committing the oldest transaction moves every moment one to the front.
LEMMA Committed ==
    ASSUME TypeOK, ItemsApart, CommitSave
    PROVE  ItemsApart'
  <1>0. PICK N \in Nat : N = Len(saves) /\ N > 0
    BY DEF TypeOK, CommitSave
  <1>1. /\ Len(saves') = N - 1
        /\ \A m \in 1..(N - 1) : saves'[m] = saves[m + 1]
        /\ \A r \in Players : disk'[r] = IF r \in DOMAIN saves[1] THEN saves[1][r] ELSE disk[r]
        /\ inventory' = inventory
    <2> HIDE DEF Transaction
    <2> QED BY <1>0 DEF TypeOK, CommitSave, goods
  <1> DEFINE before(r, j) == IF j > 0 \/ r \in DOMAIN saves[1] THEN j + 1 ELSE 0
  <1>2. ASSUME NEW r \in Players, NEW k \in 0..(N - 1), NEW j \in 0..k, Current(r, j, k)'
        PROVE  /\ before(r, j) \in 0..(k + 1)
               /\ Current(r, before(r, j), k + 1)
               /\ Saved(r, j)' = Saved(r, before(r, j))
    <2>1. /\ j = 0 \/ r \in DOMAIN saves'[j]
          /\ \A m \in (j + 1)..k : r \notin DOMAIN saves'[m]
      BY <1>2 DEF Current
    <2>2. \A m \in (j + 2)..(k + 1) : r \notin DOMAIN saves[m]
      <3> SUFFICES ASSUME NEW m \in (j + 2)..(k + 1) PROVE r \notin DOMAIN saves[m]
        OBVIOUS
      <3>1. m - 1 \in (j + 1)..k /\ m - 1 \in 1..(N - 1) /\ (m - 1) + 1 = m
        OBVIOUS
      <3> QED BY <1>1, <2>1, <3>1
    <2>3. CASE j > 0
      BY <1>1, <2>1, <2>2, <2>3 DEF Current, Saved
    <2>4. CASE j = 0 /\ r \in DOMAIN saves[1]
      BY <1>1, <2>2, <2>4 DEF Current, Saved
    <2>5. CASE j = 0 /\ r \notin DOMAIN saves[1]
      <3>1. \A m \in 1..(k + 1) : r \notin DOMAIN saves[m]
        BY <2>2, <2>5
      <3> QED BY <1>1, <2>5, <3>1 DEF Current, Saved
    <2> QED BY <2>3, <2>4, <2>5
  <1> HIDE DEF before
  <1>3. SavesApart'
    <2> SUFFICES ASSUME NEW p \in Players, NEW q \in Players, p # q, NEW k \in 0..(N - 1),
                        NEW i \in 0..k, NEW j \in 0..k, Current(p, i, k)', Current(q, j, k)'
                 PROVE  Saved(p, i)' \cap Saved(q, j)' = {}
      BY <1>1 DEF SavesApart
    <2>1. k + 1 \in 0..Len(saves)
      BY <1>0
    <2> QED BY <1>2, <2>1 DEF ItemsApart, SavesApart
  <1>4. LastSavesApart'
    <2> SUFFICES ASSUME NEW p \in Players, NEW q \in Players, p # q, NEW i \in 0..(N - 1),
                        Current(p, i, N - 1)'
                 PROVE  Saved(p, i)' \cap inventory[q] = {}
      BY <1>1 DEF LastSavesApart
    <2>1. N - 1 \in 0..(N - 1) /\ (N - 1) + 1 = N
      BY <1>0
    <2>2. /\ before(p, i) \in 0..N /\ Current(p, before(p, i), N)
          /\ Saved(p, i)' = Saved(p, before(p, i))
      BY <1>2, <2>1
    <2> QED BY <1>0, <2>2 DEF ItemsApart, LastSavesApart
  <1>5. InventoriesApart'
    BY <1>1 DEF ItemsApart, InventoriesApart
  <1> QED BY <1>3, <1>4, <1>5 DEF ItemsApart

\* A restart loads what no two players share.
LEMMA FromDisk ==
    ASSUME TypeOK, ItemsApart, Restart
    PROVE  ItemsApart'
  <1>1. \A p, q \in Players : p # q => disk[p].items \cap disk[q].items = {}
    <2> SUFFICES ASSUME NEW p \in Players, NEW q \in Players, p # q
                 PROVE  disk[p].items \cap disk[q].items = {}
      OBVIOUS
    <2>1. 0 \in 0..Len(saves) /\ Current(p, 0, 0) /\ Current(q, 0, 0)
      BY DEF TypeOK, Current
    <2>2. Saved(p, 0) \cap Saved(q, 0) = {}
      BY <2>1 DEF ItemsApart, SavesApart
    <2> QED BY <2>2 DEF Saved
  <1>2. /\ \A r \in Players : inventory'[r] = disk[r].items
        /\ disk' = disk /\ Len(saves') = 0
    BY DEF Restart
  <1>3. InventoriesApart'
    BY <1>1, <1>2 DEF InventoriesApart
  <1>4. \A r \in Players : \A j \in 0..0 : Saved(r, j)' = disk[r].items
    BY <1>2 DEF Saved
  <1>5. SavesApart' /\ LastSavesApart'
    BY <1>1, <1>2, <1>4 DEF SavesApart, LastSavesApart
  <1> QED BY <1>3, <1>5 DEF ItemsApart

\* A save of one player.
LEMMA OneSaved ==
    ASSUME TypeOK, ItemsApart, NEW p \in Players, SaveToDB(p), UNCHANGED <<inventory, disk>>
    PROVE  ItemsApart'
  <1> DEFINE f == [r \in {p} |-> Owned(r)]
  <1>1. f \in [{p} -> Snapshot] /\ saves' = Append(saves, f)
    BY OwnedType DEF SaveToDB
  <1>2. f[p].items = inventory'[p]
    BY DEF Owned
  <1> HIDE DEF f
  <1>3. InventoriesApart'
    BY DEF ItemsApart, InventoriesApart
  <1>4. {p} \in SUBSET Players /\ \A r \in {p} : inventory'[r] \subseteq UNION {inventory[s] : s \in {p}}
    OBVIOUS
  <1> QED BY <1>1, <1>2, <1>3, <1>4, Appended

\* What the exchange does to the two inventories.
LEMMA Exchange ==
    ASSUME TypeOK, PartnersAgree, NEW p \in Players, Accept_Complete(p)
    PROVE  /\ Partner(p) \in Players /\ Partner(p) # p /\ Partner(Partner(p)) = p
           /\ inventory'[p] = ItemsAfter(p) /\ inventory'[Partner(p)] = ItemsAfter(Partner(p))
           /\ \A r \in Players \ {p, Partner(p)} : inventory'[r] = inventory[r]
           /\ ItemsAfter(p) = (inventory[p] \ Offered(p)) \cup Offered(Partner(p))
           /\ ItemsAfter(Partner(p)) = (inventory[Partner(p)] \ Offered(Partner(p))) \cup Offered(p)
           /\ Offered(p) \subseteq inventory[p]
           /\ Offered(Partner(p)) \subseteq inventory[Partner(p)]
  <1>1. Trading(p)
    BY DEF Accept_Complete, Ready
  <1>2. Partner(p) \in Players /\ Partner(p) # p /\ Partner(Partner(p)) = p
    BY <1>1, Paired
  <1>3. inventory' = [inventory EXCEPT ![p] = ItemsAfter(p), ![Partner(p)] = ItemsAfter(Partner(p))]
    BY DEF Accept_Complete
  <1> QED BY <1>2, <1>3, OfferedType DEF TypeOK, ItemsAfter

\* The exchange, with its transaction of both players.
LEMMA Exchanged ==
    ASSUME TypeOK, PartnersAgree, ItemsApart, NEW p \in Players, Accept_Complete(p)
    PROVE  ItemsApart'
  <1> PICK q \in Players : q = Partner(p)
    BY Exchange
  <1> DEFINE f == [r \in {p, q} |-> [gold |-> GoldAfter(r), items |-> ItemsAfter(r)]]
  <1>1. /\ saves' = Append(saves, f) /\ disk' = disk /\ Trading(p)
    BY DEF Accept_Complete, Ready
  <1>2. /\ p # q /\ inventory'[p] = ItemsAfter(p) /\ inventory'[q] = ItemsAfter(q)
        /\ \A r \in Players \ {p, q} : inventory'[r] = inventory[r]
        /\ ItemsAfter(p) = (inventory[p] \ Offered(p)) \cup Offered(q)
        /\ ItemsAfter(q) = (inventory[q] \ Offered(q)) \cup Offered(p)
        /\ Offered(p) \subseteq inventory[p] /\ Offered(q) \subseteq inventory[q]
    BY Exchange
  <1>3. f \in [{p, q} -> Snapshot]
    <2>1. Trading(q)
      BY <1>1, Paired, RecordType DEF Trading
    <2>2. \A r \in {p, q} : GoldAfter(r) \in 0..MaxGold /\ ItemsAfter(r) \in SUBSET Items
      BY <1>1, <2>1, CompleteType
    <2> QED BY <2>2 DEF Snapshot
  <1>4. \A r \in {p, q} : f[r].items = inventory'[r]
    BY <1>2
  <1> HIDE DEF f
  <1>5. \A r \in {p, q} : inventory'[r] \subseteq UNION {inventory[s] : s \in {p, q}}
    BY <1>2
  <1>6. InventoriesApart'
    <2>1. inventory[p] \cap inventory[q] = {}
      BY <1>2 DEF ItemsApart, InventoriesApart
    <2>2. inventory'[p] \cap inventory'[q] = {}
      BY <1>2, <2>1
    <2>3. \A r \in Players \ {p, q} :
             inventory'[r] \cap inventory'[p] = {} /\ inventory'[r] \cap inventory'[q] = {}
      BY <1>2 DEF ItemsApart, InventoriesApart
    <2>4. \A r, s \in Players \ {p, q} : r # s => inventory'[r] \cap inventory'[s] = {}
      BY <1>2 DEF ItemsApart, InventoriesApart
    <2> QED BY <2>2, <2>3, <2>4 DEF InventoriesApart
  <1> QED BY <1>1, <1>2, <1>3, <1>4, <1>5, <1>6, Appended

\* The steps that neither save nor commit and give nobody an item or gold.
GivesNothing ==
    UNCHANGED db /\ \A r \in Players : inventory'[r] \subseteq inventory[r] /\ gold'[r] <= gold[r]

\* The balances are numbers.
LEMMA GoldIsInt ==
    ASSUME TypeOK
    PROVE  \A r \in Players : gold[r] \in 0..MaxGold /\ gold[r] \in Int /\ gold[r] <= gold[r]
    BY TradeAssumption DEF TypeOK

\* One that leaves the goods alone is such a step.
LEMMA NothingGiven ==
    ASSUME TypeOK, UNCHANGED goods, UNCHANGED db
    PROVE  GivesNothing
    BY GoldIsInt DEF GivesNothing, goods

\* A save of p that touches nothing else of the goods and the database.
Saves(p) == SaveToDB(p) /\ UNCHANGED goods /\ UNCHANGED disk

\* Every step falls into one of five kinds.
LEMMA Kinds ==
    ASSUME TypeOK, [Next]_vars
    PROVE  \/ GivesNothing
           \/ \E p \in Players : Saves(p)
           \/ \E p \in Players : Accept_Complete(p)
           \/ CommitSave
           \/ Restart
  <1>1. CASE UNCHANGED vars
    BY <1>1, NothingGiven DEF vars
  <1>2. ASSUME NEW p \in Players, PlayerStep(p), ~Accept_Complete(p), ~Saves(p)
        PROVE  GivesNothing
    <2>1. ASSUME NEW q \in Players, HandleInitiateTradeOpcode(p, q) PROVE GivesNothing
      BY <2>1, NothingGiven DEF HandleInitiateTradeOpcode
    <2>2. CASE HandleCancelTradeOpcode(p) \/ HandleUnacceptTradeOpcode(p)
      BY <2>2, NothingGiven DEF HandleCancelTradeOpcode, HandleUnacceptTradeOpcode
    <2>3. CASE ListStep(p)
      BY <2>3, NothingGiven DEF ListStep, HandleSetTradeGoldOpcode, HandleSetTradeItemOpcode,
                  HandleClearTradeItemOpcode, SetSpell
    <2>4. CASE AcceptStep(p)
      BY <1>2, <2>4, NothingGiven DEF AcceptStep, Accept_NotEnoughGold, Accept_PartnerLacksGold,
             Accept_ItemRefused, Accept_Waiting, Accepting, Accept_SpellFails, Accept_NoSpace
    <2>5. CASE SavePlayer(p) \/ LogoutPlayer(p)
      BY <1>2, <2>5 DEF SavePlayer, LogoutPlayer, Saves
    <2>6. CASE LoginPlayer(p)
      BY <2>6, NothingGiven DEF LoginPlayer
    <2>7. ASSUME NEW i \in Items, DestroyItem(p, i) PROVE GivesNothing
      BY <2>7, GoldIsInt DEF DestroyItem, GivesNothing, TypeOK
    <2>8. ASSUME NEW i \in Items, BindItem(p, i) PROVE GivesNothing
      BY <2>8, NothingGiven DEF BindItem
    <2>9. ASSUME NEW n \in 1..MaxGold, SpendGold(p, n) PROVE GivesNothing
      <3>1. gold' = [gold EXCEPT ![p] = Pay(@, n)] /\ UNCHANGED inventory /\ UNCHANGED db
        BY <2>9 DEF SpendGold
      <3>2. Pay(gold[p], n) <= gold[p]
        BY GoldIsInt DEF Pay
      <3> QED BY <3>1, <3>2, GoldIsInt DEF GivesNothing, TypeOK
    <2>10. ASSUME NEW l \in Places, SetPosition(p, l) PROVE GivesNothing
      BY <2>10, NothingGiven DEF SetPosition
    <2> QED BY <1>2, <2>1, <2>2, <2>3, <2>4, <2>5, <2>6, <2>7, <2>8, <2>9, <2>10
            DEF PlayerStep, WorldStep
  <1> QED BY <1>1, <1>2 DEF Next

\* Every step keeps the items apart.
LEMMA ItemsStep ==
    ASSUME TypeOK, PartnersAgree, ItemsApart, [Next]_vars
    PROVE  ItemsApart'
    BY Kinds, Shrunk, OneSaved, Exchanged, Committed, FromDisk DEF GivesNothing, Saves, goods

\* The initial states.
LEMMA ItemsInit ==
    ASSUME Init
    PROVE  ItemsApart
  <1>1. /\ Len(saves) = 0 /\ \A r \in Players : inventory[r] = InitItems[r]
        /\ \A r \in Players : \A j \in 0..0 : Saved(r, j) = InitItems[r]
    BY DEF Init, Saved
  <1> QED BY <1>1, TradeAssumption DEF ItemsApart, InventoriesApart, SavesApart, LastSavesApart

\* The inductive invariant of the exchange and its saves: items stay apart in
\* memory, at every commit to come, and between the two.
THEOREM ItemsApartAlways == Spec => []ItemsApart
  <1>1. Init => ItemsApart
    BY ItemsInit
  <1>2. TypeOK /\ PartnersAgree /\ ItemsApart /\ [Next]_vars => ItemsApart'
    BY ItemsStep
  <1> QED BY <1>1, <1>2, TypeCorrect, PartnersCorrect, PTL DEF Spec

\* The moment now is one of these moments.
LEMMA ApartMeansOnce ==
    ASSUME TypeOK, ItemsApart
    PROVE  NoItemTwice
  <1> SUFFICES ASSUME NEW p \in Players, NEW q \in Players, p # q
               PROVE  inventory[p] \cap inventory[q] = {} /\ disk[p].items \cap disk[q].items = {}
    BY DEF NoItemTwice
  <1>1. 0 \in 0..Len(saves) /\ Current(p, 0, 0) /\ Current(q, 0, 0)
    BY DEF TypeOK, Current
  <1>2. Saved(p, 0) \cap Saved(q, 0) = {}
    BY <1>1 DEF ItemsApart, SavesApart
  <1> QED BY <1>2 DEF Saved, ItemsApart, InventoriesApart

\* No crash between the exchange of HandleAcceptTradeOpcode and the commit of its
\* transaction leaves an item with both traders.
THEOREM ItemsNeverTwice == Spec => []NoItemTwice
  <1>1. TypeOK /\ ItemsApart => NoItemTwice
    BY ApartMeansOnce
  <1> QED BY <1>1, TypeCorrect, ItemsApartAlways, PTL

\* The action of TransfersAreAgreed.
Transfer ==
    \A p, q \in online : \A i \in inventory[p] :
         p # q /\ i \in inventory'[q] /\ online' = online =>
            /\ Trading(p) /\ Partner(p) = q
            /\ \E s \in TradedSlots : trade[p].items[s] = i
            /\ trade[p].accepted \/ trade[q].accepted

\* What is offered is listed in a slot that is traded.
LEMMA OfferedListed ==
    ASSUME TypeOK, NEW p \in Players, NEW i \in Offered(p)
    PROVE  \E s \in TradedSlots : trade[p].items[s] = i
    BY DEF Offered, GetItem

\* The exchange moves only what it may.
LEMMA ExchangeIsTransfer ==
    ASSUME TypeOK, PartnersAgree, ItemsApart, NEW r \in Players, Accept_Complete(r)
    PROVE  Transfer
  <1> PICK c \in Players : c = Partner(r)
    BY Exchange
  <1>1. Trading(r) /\ trade[c].accepted /\ Trading(c) /\ Partner(c) = r
    BY Exchange, Paired, RecordType DEF Accept_Complete, Ready, Trading
  <1> SUFFICES ASSUME NEW p \in online, NEW q \in online, NEW i \in inventory[p],
                      p # q, i \in inventory'[q]
               PROVE  /\ Trading(p) /\ Partner(p) = q
                      /\ \E s \in TradedSlots : trade[p].items[s] = i
                      /\ trade[p].accepted \/ trade[q].accepted
    BY DEF Transfer
  <1>2. i \notin inventory[q] /\ p \in Players /\ q \in Players
    BY DEF ItemsApart, InventoriesApart, TypeOK
  <1>3. q \in {r, c}
    BY <1>2, Exchange
  <1>4. CASE q = r
    <2>1. i \in Offered(c)
      BY <1>2, <1>4, Exchange
    <2>2. p = c
      BY <1>2, <2>1, Exchange DEF ItemsApart, InventoriesApart
    <2> QED BY <1>1, <1>4, <2>1, <2>2, OfferedListed
  <1>5. CASE q = c
    <2>1. i \in Offered(r)
      BY <1>2, <1>5, Exchange
    <2>2. p = r
      BY <1>2, <2>1, Exchange DEF ItemsApart, InventoriesApart
    <2> QED BY <1>1, <1>5, <2>1, <2>2, OfferedListed
  <1> QED BY <1>3, <1>4, <1>5

\* No other step moves an item.
LEMMA TransferStep ==
    ASSUME TypeOK, PartnersAgree, ItemsApart, [Next]_vars
    PROVE  Transfer
  <1>1. ASSUME \A r \in Players : inventory'[r] \subseteq inventory[r] PROVE Transfer
    BY <1>1 DEF Transfer, ItemsApart, InventoriesApart, TypeOK
  <1>2. CASE GivesNothing
    BY <1>1, <1>2 DEF GivesNothing
  <1>3. CASE \E p \in Players : Saves(p)
    BY <1>1, <1>3 DEF Saves, goods
  <1>4. CASE \E p \in Players : Accept_Complete(p)
    BY <1>4, ExchangeIsTransfer
  <1>5. CASE CommitSave
    BY <1>1, <1>5 DEF CommitSave, goods
  <1>6. CASE Restart
    BY <1>6 DEF Restart, Transfer
  <1> QED BY <1>2, <1>3, <1>4, <1>5, <1>6, Kinds

\* An item changes hands only in an exchange its owner listed it for and the one
\* who did not press last accepted.
THEOREM TransfersCorrect == Spec => TransfersAreAgreed
  <1>1. TypeOK /\ PartnersAgree /\ ItemsApart /\ [Next]_vars => [Transfer]_vars
    BY TransferStep
  <1>2. TransfersAreAgreed <=> [][Transfer]_vars
    BY PTL DEF TransfersAreAgreed, Transfer
  <1> QED BY <1>1, <1>2, TypeCorrect, PartnersCorrect, ItemsApartAlways, PTL DEF Spec

(***************************************************************************)
(* Gold.  What the database will own after each commit to come never grows *)
(* along the queue of saves, and the players own at most what it will own  *)
(* after the last: gold that has moved between two players moves in one    *)
(* transaction, and what one player alone does only lowers his gold.       *)
(***************************************************************************)
Balances == [Players -> 0..MaxGold]
Sum(b)   == SumFunctionOnSet(b, Players)

\* The balances b once the transaction t is committed.
After(b, t) == [p \in Players |-> IF p \in DOMAIN t THEN t[p].gold ELSE b[p]]

\* D[k] is what the database owns after k commits.
Trail(D) ==
    /\ D \in [0..Len(saves) -> Balances]
    /\ D[0] = [p \in Players |-> disk[p].gold]
    /\ \A k \in 1..Len(saves) : D[k] = After(D[k - 1], saves[k])
    /\ \A k \in 0..Len(saves) : Sum(D[k]) <= Sum(InitGold)
    /\ \A p \in Players : gold[p] <= D[Len(saves)][p]

GoldTrail == \E D : Trail(D)

\* The sums are of finitely many balances.
LEMMA SumOfBalances ==
    ASSUME NEW b \in Balances
    PROVE  /\ Sum(b) \in Int
           /\ SumFunction(b) = Sum(b)
           /\ \A c \in Balances : (\A p \in Players : b[p] <= c[p]) => Sum(b) <= Sum(c)
  <1>1. \A c \in Balances : \A p \in Players : c[p] \in Int
    BY TradeAssumption DEF Balances
  <1>2. IsFiniteSet(Players)
    BY TradeAssumption
  <1>3. Sum(b) \in Int
    BY <1>1, <1>2, SumTakeOut DEF Sum
  <1>4. SumFunction(b) = Sum(b)
    BY DEF SumFunction, Sum, Balances
  <1>5. ASSUME NEW c \in Balances, \A p \in Players : b[p] <= c[p]
        PROVE  Sum(b) <= Sum(c)
    <2>1. \A p \in Players : b[p] \in Int /\ c[p] \in Int /\ b[p] <= c[p]
      BY <1>1, <1>5
    <2> QED BY <1>2, <2>1, SumMonotone DEF Sum
  <1> QED BY <1>3, <1>4, <1>5

\* Two balances change.
LEMMA SumOfTwo ==
    ASSUME NEW b \in Balances, NEW c \in Balances, NEW p \in Players, NEW q \in Players,
           p # q, \A r \in Players \ {p, q} : c[r] = b[r]
    PROVE  Sum(c) = Sum(b) + (c[p] - b[p]) + (c[q] - b[q])
  <1>1. \A r \in Players : b[r] \in Int /\ c[r] \in Int
    BY TradeAssumption DEF Balances
  <1>2. IsFiniteSet(Players)
    BY TradeAssumption
  <1>3. ChangesAtTwo(b, c, Players, p, q)
    BY <1>1 DEF ChangesAtTwo
  <1>5. SumFunctionOnSet(c, Players)
          = SumFunctionOnSet(b, Players) + (c[p] - b[p]) + (c[q] - b[q])
    BY <1>2, <1>3, SumChangeTwo
  <1> QED BY <1>5 DEF Sum

\* A transaction of the players P is queued with what they now own, which is
\* together at most what the database would have owned of them.
LEMMA GoldQueued ==
    ASSUME TypeOK, GoldTrail, NEW P \in SUBSET Players, NEW f \in [P -> Snapshot],
           saves' = Append(saves, f), disk' = disk, gold' \in Balances,
           \A r \in P : f[r].gold = gold'[r],
           \A r \in Players \ P : gold'[r] = gold[r],
           \A b \in Balances : (\A p \in Players : gold[p] <= b[p]) => Sum(After(b, f)) <= Sum(b)
    PROVE  GoldTrail'
  <1>0. PICK N \in Nat : N = Len(saves)
    BY SavesLength
  <1>1. /\ Len(saves') = N + 1 /\ saves'[N + 1] = f
        /\ \A m \in 1..N : saves'[m] = saves[m]
    <2> HIDE DEF Transaction
    <2>1. saves \in Seq(Transaction)
      BY DEF TypeOK
    <2>2. f \in Transaction
      BY DEF Transaction
    <2> QED BY <1>0, <2>1, <2>2
  <1>2. PICK D : Trail(D)
    BY DEF GoldTrail
  <1> DEFINE last == D[N]
             E == [k \in 0..(N + 1) |-> IF k = N + 1 THEN After(last, f) ELSE D[k]]
  <1>3. last \in Balances /\ \A p \in Players : gold[p] <= last[p]
    BY <1>0, <1>2 DEF Trail
  <1>4. Sum(last) <= Sum(InitGold)
    BY <1>0, <1>2 DEF Trail
  <1> HIDE DEF last
  <1>5. DOMAIN f = P
    OBVIOUS
  <1>6. \A p \in Players : After(last, f)[p] = IF p \in P THEN gold'[p] ELSE last[p]
    BY <1>5 DEF After
  <1>7. After(last, f) \in Balances
    BY <1>3, <1>6 DEF After, Balances
  <1>8. Sum(After(last, f)) <= Sum(InitGold)
    <2>1. Sum(last) \in Int /\ Sum(InitGold) \in Int /\ Sum(After(last, f)) \in Int
      BY <1>3, <1>7, SumOfBalances, TradeAssumption DEF Balances
    <2> QED BY <1>3, <1>4, <2>1
  <1>9. ASSUME NEW p \in Players
        PROVE  gold'[p] <= After(last, f)[p]
    <2>1. gold'[p] \in Int
      BY TradeAssumption DEF Balances
    <2>2. CASE p \in P
      BY <1>6, <2>1, <2>2
    <2>3. CASE p \notin P
      <3>1. gold'[p] = gold[p]
        BY <2>3
      <3> QED BY <1>3, <1>6, <2>3, <3>1
    <2> QED BY <2>2, <2>3
  <1>10. E \in [0..(N + 1) -> Balances]
    BY <1>0, <1>2, <1>7 DEF Trail
  <1>11. E[0] = [p \in Players |-> disk'[p].gold]
    BY <1>0, <1>2 DEF Trail
  <1>12. E[N + 1] = After(last, f) /\ \A k \in 0..N : E[k] = D[k]
    OBVIOUS
  <1> HIDE DEF E
  <1>13. \A k \in 1..(N + 1) : E[k] = After(E[k - 1], saves'[k])
    <2> SUFFICES ASSUME NEW k \in 1..(N + 1) PROVE E[k] = After(E[k - 1], saves'[k])
      OBVIOUS
    <2>1. CASE k = N + 1
      BY <1>1, <1>12, <2>1 DEF last
    <2>2. CASE k \in 1..N
      <3>1. k - 1 \in 0..N
        BY <2>2
      <3> QED BY <1>0, <1>1, <1>2, <1>12, <2>2, <3>1 DEF Trail
    <2>3. k = N + 1 \/ k \in 1..N
      OBVIOUS
    <2> QED BY <2>1, <2>2, <2>3
  <1>14. \A k \in 0..(N + 1) : Sum(E[k]) <= Sum(InitGold)
    BY <1>0, <1>2, <1>8, <1>12 DEF Trail
  <1>15. Trail(E)'
    BY <1>1, <1>9, <1>10, <1>11, <1>12, <1>13, <1>14 DEF Trail
  <1> QED BY <1>15 DEF GoldTrail

\* A step that gives nobody gold.
LEMMA GoldKept ==
    ASSUME TypeOK, TypeOK', GoldTrail, GivesNothing
    PROVE  GoldTrail'
  <1>1. PICK D : Trail(D)
    BY DEF GoldTrail
  <1>2. saves' = saves /\ disk' = disk /\ Len(saves) \in Nat
    BY SavesLength DEF GivesNothing, db
  <1>3. \A p \in Players : gold'[p] <= D[Len(saves)][p]
    <2> TAKE p \in Players
    <2>1. gold'[p] <= gold[p] /\ gold[p] <= D[Len(saves)][p]
      BY <1>1 DEF GivesNothing, Trail
    <2>2. D[Len(saves)] \in Balances
      BY <1>1, <1>2 DEF Trail
    <2>3. gold'[p] \in Int /\ gold[p] \in Int /\ D[Len(saves)][p] \in Int
      BY <2>2, TradeAssumption DEF TypeOK, Balances
    <2> QED BY <2>1, <2>3
  <1>4. Trail(D)'
    BY <1>1, <1>2, <1>3 DEF Trail
  <1> QED BY <1>4 DEF GoldTrail

\* A save of one player.
LEMMA GoldSaved ==
    ASSUME TypeOK, GoldTrail, NEW p \in Players, Saves(p)
    PROVE  GoldTrail'
  <1> DEFINE f == [r \in {p} |-> Owned(r)]
  <1>1. /\ f \in [{p} -> Snapshot] /\ saves' = Append(saves, f)
        /\ disk' = disk /\ gold' = gold /\ gold' \in Balances
    BY OwnedType DEF Saves, SaveToDB, goods, TypeOK, Balances
  <1>2. f[p].gold = gold[p] /\ DOMAIN f = {p}
    BY DEF Owned
  <1> HIDE DEF f
  <1>3. ASSUME NEW b \in Balances, \A r \in Players : gold[r] <= b[r]
        PROVE  Sum(After(b, f)) <= Sum(b)
    <2>1. \A r \in Players : After(b, f)[r] = IF r = p THEN gold[p] ELSE b[r]
      BY <1>2 DEF After
    <2>2. After(b, f) \in Balances /\ \A r \in Players : After(b, f)[r] <= b[r]
      BY <1>1, <1>3, <2>1, TradeAssumption DEF After, Balances
    <2> QED BY <2>2, SumOfBalances
  <1> QED BY <1>1, <1>2, <1>3, GoldQueued

\* Both sides of an exchange together get no more gold than they had.
LEMMA GoldExchange ==
    ASSUME TypeOK, PartnersAgree, NEW p \in Players, Accept_Complete(p)
    PROVE  LET q == Partner(p)
           IN  /\ q \in Players /\ q # p
               /\ gold'[p] = GoldAfter(p) /\ gold'[q] = GoldAfter(q)
               /\ \A r \in Players \ {p, q} : gold'[r] = gold[r]
               /\ gold' \in Balances
               /\ gold'[p] + gold'[q] <= gold[p] + gold[q]
               /\ gold'[p] # MaxGold /\ gold'[q] # MaxGold =>
                     gold'[p] + gold'[q] = gold[p] + gold[q]
  <1> PICK q \in Players : q = Partner(p) /\ q # p /\ Partner(q) = p
    BY Exchange
  <1>1. /\ Trading(p) /\ Trading(q)
        /\ trade[p].money <= gold[p] /\ trade[q].money <= gold[q]
    BY Paired, RecordType DEF Accept_Complete, Ready, BothAfford, Trading
  <1>2. gold' = [gold EXCEPT ![p] = GoldAfter(p), ![q] = GoldAfter(q)]
    BY DEF Accept_Complete
  <1>3. GoldAfter(p) \in 0..MaxGold /\ GoldAfter(q) \in 0..MaxGold
    BY <1>1, CompleteType
  <1>4. /\ gold'[p] = GoldAfter(p) /\ gold'[q] = GoldAfter(q)
        /\ \A r \in Players \ {p, q} : gold'[r] = gold[r]
        /\ gold' \in Balances
    BY <1>2, <1>3 DEF TypeOK, Balances
  <1>5. /\ gold[p] \in 0..MaxGold /\ gold[q] \in 0..MaxGold
        /\ trade[p].money \in 0..MaxGold /\ trade[q].money \in 0..MaxGold
    BY <1>1, Open, RecordType DEF TypeOK, Windows
  <1>6. /\ GoldAfter(p) = Receive(Pay(gold[p], trade[p].money), trade[q].money)
        /\ GoldAfter(q) = Receive(Pay(gold[q], trade[q].money), trade[p].money)
    BY DEF GoldAfter
  <1>7. /\ GoldAfter(p) + GoldAfter(q) <= gold[p] + gold[q]
        /\ GoldAfter(p) # MaxGold /\ GoldAfter(q) # MaxGold =>
              GoldAfter(p) + GoldAfter(q) = gold[p] + gold[q]
    BY <1>1, <1>5, <1>6, TradeAssumption DEF Pay, Receive
  <1> QED BY <1>4, <1>7

\* The exchange, with its transaction of both players.
LEMMA GoldExchanged ==
    ASSUME TypeOK, PartnersAgree, GoldTrail, NEW p \in Players, Accept_Complete(p)
    PROVE  GoldTrail'
  <1> PICK q \in Players : q = Partner(p)
    BY Exchange
  <1> DEFINE f == [r \in {p, q} |-> [gold |-> GoldAfter(r), items |-> ItemsAfter(r)]]
  <1>1. /\ saves' = Append(saves, f) /\ disk' = disk /\ Trading(p)
    BY DEF Accept_Complete, Ready
  <1>2. /\ p # q /\ gold'[p] = GoldAfter(p) /\ gold'[q] = GoldAfter(q)
        /\ \A r \in Players \ {p, q} : gold'[r] = gold[r]
        /\ gold' \in Balances
        /\ gold'[p] + gold'[q] <= gold[p] + gold[q]
    BY GoldExchange
  <1>3. f \in [{p, q} -> Snapshot]
    <2>1. Trading(q)
      BY <1>1, Paired, RecordType DEF Trading
    <2>2. \A r \in {p, q} : GoldAfter(r) \in 0..MaxGold /\ ItemsAfter(r) \in SUBSET Items
      BY <1>1, <2>1, CompleteType
    <2> QED BY <2>2 DEF Snapshot
  <1>4. DOMAIN f = {p, q} /\ \A r \in {p, q} : f[r].gold = gold'[r]
    BY <1>2
  <1> HIDE DEF f
  <1>5. ASSUME NEW b \in Balances, \A r \in Players : gold[r] <= b[r]
        PROVE  Sum(After(b, f)) <= Sum(b)
    <2> DEFINE c == After(b, f)
    <2>1. \A r \in Players : c[r] = IF r \in {p, q} THEN gold'[r] ELSE b[r]
      BY <1>4 DEF After
    <2>2. c \in Balances
      BY <1>2, <2>1 DEF After, Balances
    <2> HIDE DEF c
    <2>3. \A r \in Players : b[r] \in Int /\ c[r] \in Int
      BY <2>2, TradeAssumption DEF Balances
    <2>4. \A r \in Players \ {p, q} : c[r] = b[r]
      BY <2>1
    <2>6. Sum(c) = Sum(b) + (c[p] - b[p]) + (c[q] - b[q])
      BY <1>2, <2>2, <2>4, SumOfTwo
    <2>8. Sum(b) \in Int
      BY SumOfBalances
    <2>7. c[p] + c[q] <= gold[p] + gold[q] /\ gold[p] <= b[p] /\ gold[q] <= b[q]
      BY <1>2, <1>5, <2>1
    <2> QED BY <2>3, <2>6, <2>7, <2>8, GoldIsInt DEF c
  <1>6. {p, q} \in SUBSET Players
    OBVIOUS
  <1> QED BY <1>1, <1>2, <1>3, <1>4, <1>5, <1>6, GoldQueued

\* Committing the oldest transaction drops the first of these balances.
LEMMA GoldCommitted ==
    ASSUME TypeOK, GoldTrail, CommitSave
    PROVE  GoldTrail'
  <1>0. PICK N \in Nat : N = Len(saves) /\ N > 0
    <2> HIDE DEF Transaction
    <2>1. saves \in Seq(Transaction) /\ saves # <<>>
      BY DEF TypeOK, CommitSave
    <2> QED BY <2>1
  <1>1. /\ Len(saves') = N - 1 /\ saves[1] \in Transaction
        /\ \A m \in 1..(N - 1) : saves'[m] = saves[m + 1]
        /\ \A r \in Players : disk'[r] = IF r \in DOMAIN saves[1] THEN saves[1][r] ELSE disk[r]
        /\ gold' = gold
    <2> HIDE DEF Transaction
    <2> QED BY <1>0 DEF TypeOK, CommitSave, goods
  <1>2. PICK D : Trail(D)
    BY DEF GoldTrail
  <1> DEFINE E == [k \in 0..(N - 1) |-> D[k + 1]]
  <1>3. \A k \in 0..(N - 1) : k + 1 \in 1..N /\ (k + 1) - 1 = k
    OBVIOUS
  <1>4. E \in [0..(N - 1) -> Balances]
    BY <1>0, <1>2, <1>3 DEF Trail
  <1>5. E[0] = [p \in Players |-> disk'[p].gold]
    <2>1. D[1] = After(D[0], saves[1]) /\ E[0] = D[1]
      BY <1>0, <1>2 DEF Trail
    <2>2. \A p \in Players : D[0][p] = disk[p].gold
      BY <1>2 DEF Trail
    <2> QED BY <1>1, <2>1, <2>2 DEF After
  <1>6. \A k \in 0..(N - 1) : E[k] = D[k + 1]
    OBVIOUS
  <1> HIDE DEF E
  <1>7. \A k \in 1..(N - 1) : E[k] = After(E[k - 1], saves'[k])
    <2> TAKE k \in 1..(N - 1)
    <2>1. k - 1 \in 0..(N - 1) /\ k \in 0..(N - 1) /\ (k - 1) + 1 = k /\ k + 1 \in 1..N /\ (k + 1) - 1 = k
      OBVIOUS
    <2>2. D[k + 1] = After(D[k], saves[k + 1])
      BY <1>0, <1>2, <2>1 DEF Trail
    <2>3. E[k] = D[k + 1] /\ E[k - 1] = D[k]
      BY <1>6, <2>1
    <2> QED BY <1>1, <2>2, <2>3
  <1>8. \A k \in 0..(N - 1) : Sum(E[k]) <= Sum(InitGold)
    BY <1>0, <1>2, <1>3, <1>6 DEF Trail
  <1>9. \A p \in Players : gold'[p] <= E[N - 1][p]
    <2>1. N - 1 \in 0..(N - 1) /\ (N - 1) + 1 = N
      BY <1>0
    <2>2. E[N - 1] = D[N]
      BY <1>6, <2>1
    <2> QED BY <1>0, <1>1, <1>2, <2>2 DEF Trail
  <1>10. Trail(E)'
    BY <1>1, <1>4, <1>5, <1>7, <1>8, <1>9 DEF Trail
  <1> QED BY <1>10 DEF GoldTrail

\* What nobody has saved yet is lost with a crash.
LEMMA GoldFromDisk ==
    ASSUME TypeOK, GoldTrail, Restart
    PROVE  GoldTrail'
  <1>1. PICK D : Trail(D)
    BY DEF GoldTrail
  <1>2. /\ gold' = [p \in Players |-> disk[p].gold] /\ disk' = disk /\ Len(saves') = 0
        /\ Len(saves) \in Nat
    BY SavesLength DEF Restart
  <1> DEFINE E == [k \in {0} |-> D[0]]
  <1>3. E[0] = D[0] /\ D[0] = gold' /\ D[0] \in Balances /\ Sum(D[0]) <= Sum(InitGold)
    BY <1>1, <1>2 DEF Trail
  <1>4. E \in [0..0 -> Balances]
    BY <1>3
  <1>5. \A p \in Players : gold'[p] <= E[0][p]
    BY <1>3, TradeAssumption DEF Balances
  <1> HIDE DEF E
  <1>6. Trail(E)'
    BY <1>2, <1>3, <1>4, <1>5 DEF Trail
  <1> QED BY <1>6 DEF GoldTrail

\* Every step keeps the trail.
LEMMA GoldStep ==
    ASSUME TypeOK, TypeOK', PartnersAgree, GoldTrail, [Next]_vars
    PROVE  GoldTrail'
    BY Kinds, GoldKept, GoldSaved, GoldExchanged, GoldCommitted, GoldFromDisk

\* The initial states: nothing is queued, and everybody is stored.
LEMMA GoldInit ==
    ASSUME Init
    PROVE  GoldTrail
  <1> DEFINE D == [k \in {0} |-> InitGold]
  <1>1. Len(saves) = 0 /\ gold = InitGold /\ [p \in Players |-> disk[p].gold] = InitGold
    BY TradeAssumption DEF Init
  <1>2. InitGold \in Balances /\ D[0] = InitGold
    BY TradeAssumption DEF Balances
  <1>3. D \in [0..0 -> Balances]
    BY <1>2
  <1>4. Sum(InitGold) <= Sum(InitGold) /\ \A p \in Players : InitGold[p] <= InitGold[p]
    BY <1>2, SumOfBalances, TradeAssumption
  <1> HIDE DEF D
  <1>5. Trail(D)
    BY <1>1, <1>2, <1>3, <1>4 DEF Trail
  <1> QED BY <1>5 DEF GoldTrail

\* The trail bounds what the players and the database own now.
LEMMA TrailMeansNone ==
    ASSUME TypeOK, GoldTrail
    PROVE  GoldNeverCreated
  <1>1. PICK D : Trail(D)
    BY DEF GoldTrail
  <1> DEFINE stored == [p \in Players |-> disk[p].gold]
             last   == D[Len(saves)]
  <1>2. /\ stored \in Balances /\ Sum(stored) <= Sum(InitGold)
        /\ last \in Balances /\ Sum(last) <= Sum(InitGold)
        /\ \A p \in Players : gold[p] <= last[p]
    BY <1>1, SavesLength DEF Trail
  <1>3. gold \in Balances /\ InitGold \in Balances
    BY TradeAssumption DEF TypeOK, Balances
  <1> HIDE DEF stored, last
  <1>4. Sum(gold) <= Sum(last)
    BY <1>2, <1>3, SumOfBalances
  <1>5. Sum(gold) \in Int /\ Sum(last) \in Int /\ Sum(InitGold) \in Int
    BY <1>2, <1>3, SumOfBalances
  <1>6. /\ SumFunction(gold) = Sum(gold) /\ SumFunction(InitGold) = Sum(InitGold)
        /\ SumFunction(stored) = Sum(stored)
    BY <1>2, <1>3, SumOfBalances
  <1> QED BY <1>2, <1>4, <1>5, <1>6 DEF GoldNeverCreated, stored

\* Trades, saves in any order and crashes never leave the players, or the database,
\* with more gold than there was: the two sides of an exchange are stored together.
THEOREM GoldNeverCreatedCorrect == Spec => []GoldNeverCreated
  <1>1. Init => GoldTrail
    BY GoldInit
  <1>2. TypeOK /\ TypeOK' /\ PartnersAgree /\ GoldTrail /\ [Next]_vars => GoldTrail'
    BY GoldStep
  <1>3. TypeOK /\ GoldTrail => GoldNeverCreated
    BY TrailMeansNone
  <1> QED BY <1>1, <1>2, <1>3, TypeCorrect, PartnersCorrect, PTL DEF Spec

\* The action of GoldLostOnlyAtLimit.
LostAtLimit ==
    \A p \in Players :
         Trading(p) /\ trade'[p] = NULL /\ SumFunction(gold') # SumFunction(gold) /\ online' = online =>
            \E q \in {p, Partner(p)} : gold'[q] = MaxGold

\* Only an exchange and a crash touch the gold and the windows at once.
LEMMA GoldOrWindows ==
    ASSUME TypeOK, [Next]_vars
    PROVE  \/ UNCHANGED gold
           \/ UNCHANGED trade
           \/ \E p \in Players : Accept_Complete(p)
           \/ Restart
  <1>1. CASE UNCHANGED vars
    BY <1>1 DEF vars
  <1>2. CASE CommitSave
    BY <1>2 DEF CommitSave
  <1>3. ASSUME NEW p \in Players, PlayerStep(p), ~Accept_Complete(p)
        PROVE  UNCHANGED gold \/ UNCHANGED trade
    <2>1. CASE WorldStep(p)
      BY <2>1 DEF WorldStep, SavePlayer, LogoutPlayer, LoginPlayer, DestroyItem, BindItem,
                  SpendGold, SetPosition, goods
    <2>2. CASE ListStep(p)
      BY <2>2 DEF ListStep, HandleSetTradeGoldOpcode, HandleSetTradeItemOpcode,
                  HandleClearTradeItemOpcode, SetSpell, goods
    <2>3. CASE AcceptStep(p)
      BY <1>3, <2>3 DEF AcceptStep, Accept_NotEnoughGold, Accept_PartnerLacksGold,
             Accept_ItemRefused, Accept_Waiting, Accepting, Accept_SpellFails, Accept_NoSpace, goods
    <2> QED BY <1>3, <2>1, <2>2, <2>3
            DEF PlayerStep, HandleInitiateTradeOpcode, HandleCancelTradeOpcode,
                HandleUnacceptTradeOpcode, goods
  <1> QED BY <1>1, <1>2, <1>3 DEF Next

\* An exchange that leaves neither of the two at the limit keeps the sum.
LEMMA ExchangeKeepsSum ==
    ASSUME TypeOK, PartnersAgree, NEW r \in Players, Accept_Complete(r),
           gold'[r] # MaxGold, gold'[Partner(r)] # MaxGold
    PROVE  SumFunction(gold') = SumFunction(gold)
  <1> PICK q \in Players : q = Partner(r)
    BY Exchange
  <1>1. /\ q # r /\ gold' \in Balances /\ gold \in Balances
        /\ \A x \in Players \ {r, q} : gold'[x] = gold[x]
        /\ gold'[r] + gold'[q] = gold[r] + gold[q]
    BY GoldExchange DEF TypeOK, Balances
  <1>2. Sum(gold') = Sum(gold) + (gold'[r] - gold[r]) + (gold'[q] - gold[q])
    BY <1>1, SumOfTwo
  <1>3. /\ gold[r] \in Int /\ gold[q] \in Int /\ gold'[r] \in Int /\ gold'[q] \in Int
        /\ Sum(gold) \in Int
    BY <1>1, SumOfBalances, TradeAssumption DEF Balances
  <1>4. Sum(gold') = Sum(gold)
    BY <1>1, <1>2, <1>3
  <1> QED BY <1>1, <1>4, SumOfBalances

\* The other steps that close a window leave the gold alone.
LEMMA LostStep ==
    ASSUME TypeOK, PartnersAgree, [Next]_vars
    PROVE  LostAtLimit
  <1> SUFFICES ASSUME NEW p \in Players, Trading(p), trade'[p] = NULL,
                      SumFunction(gold') # SumFunction(gold), online' = online
               PROVE  \E q \in {p, Partner(p)} : gold'[q] = MaxGold
    BY DEF LostAtLimit
  <1>1. ~UNCHANGED gold /\ ~UNCHANGED trade /\ ~Restart
    BY DEF Trading, Restart, PartnersAgree
  <1>2. PICK r \in Players : Accept_Complete(r)
    BY <1>1, GoldOrWindows
  <1>3. gold'[r] = MaxGold \/ gold'[Partner(r)] = MaxGold
    BY <1>2, ExchangeKeepsSum
  <1>4. trade' = [trade EXCEPT ![r] = NULL, ![Partner(r)] = NULL] /\ Partner(Partner(r)) = r
    BY <1>2, Exchange DEF Accept_Complete
  <1>5. p = r \/ p = Partner(r)
    BY <1>4 DEF TypeOK, Trading
  <1> QED BY <1>3, <1>4, <1>5

\* A completed trade loses gold only when it leaves one of the two at the limit, and
\* no other way of closing a window touches gold at all.
THEOREM GoldLostCorrect == Spec => GoldLostOnlyAtLimit
  <1>1. TypeOK /\ PartnersAgree /\ [Next]_vars => [LostAtLimit]_vars
    BY LostStep
  <1>2. GoldLostOnlyAtLimit <=> [][LostAtLimit]_vars
    BY PTL DEF GoldLostOnlyAtLimit, LostAtLimit
  <1> QED BY <1>1, <1>2, TypeCorrect, PartnersCorrect, PTL DEF Spec
=============================================================================
