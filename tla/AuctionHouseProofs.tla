------------------------- MODULE AuctionHouseProofs -------------------------
(***************************************************************************)
(* Proofs about AuctionHouse for any players, items, auctions, prices and  *)
(* fees, with or without crashes:                                          *)
(*                                                                         *)
(*   TypeCorrect      no gold is ever negative;                            *)
(*   HoldingCorrect   every auction that is not sold has its item;         *)
(*   ItemsApartCorrect   without crashes no item object is in two places;  *)
(*   UnitsKeptCorrect    without crashes units are made only by the bot and*)
(*                    by a sale of more units than the named item has;     *)
(*   BidsOnlyRiseCorrect    without the bot a bid only rises;              *)
(*   GoldAccountedCorrect   between players no gold is made but by a crash,*)
(*                    and none lost as long as the amounts fit;            *)
(*   WorthKeptCorrect   nobody else's step costs a player gold whose bids  *)
(*                    can be refunded in full.                             *)
(*                                                                         *)
(* AuctionsHoldTheirItems speaks of sets of items.  The proofs use its     *)
(* pointwise form, Holding, of which five lemmas say what each way of      *)
(* changing an auction does to it; every action then is one of them.       *)
(***************************************************************************)
EXTENDS AuctionHouse, DataLemmas

Owners    == Players \cup {Server}
Mailboxes == [Players -> Mails]
Counts    == [Items -> 1..MaxStack]
Auctions  == [Ids -> AuctionEntry \cup {NULL}]

(***************************************************************************)
(* Operators.                                                              *)
(***************************************************************************)
\* The house's cut is never more than the bid.
LEMMA CutBounded ==
    ASSUME NEW a \in AuctionEntry
    PROVE  GetAuctionCut(a) \in 0..a.bid
<1> a.bid \in Nat
  BY DEF AuctionEntry
<1>1. PICK n \in Nat : n = a.bid
  OBVIOUS
<1>2. CutPercent \in 0..100
  BY AuctionHouseAssumption
<1>3. PICK x \in Int : x = CutPercent * n
  BY <1>2
<1>4. x >= 0 /\ x <= 100 * n
  BY <1>2, <1>3
<1>5. x \div 100 \in 0..n
  BY <1>4
<1> QED
  BY <1>1, <1>3, <1>5 DEF GetAuctionCut

\* A raise is a price.
LEMMA OutBidIsNat ==
    ASSUME NEW a \in AuctionEntry
    PROVE  GetAuctionOutBid(a) \in Nat
BY DEF GetAuctionOutBid, AuctionEntry

\* A sum in the column is a sum, and the same one if it fits.
LEMMA InColumnIs ==
    ASSUME NEW n \in Nat
    PROVE  InColumn(n) \in Nat /\ InColumn(n) <= n /\ (n < ColumnSize => InColumn(n) = n)
<1>1. \A w \in Nat \ {0} : n % w \in Nat /\ n % w <= n /\ (n < w => n % w = n)
  OBVIOUS
<1> QED
  BY <1>1, AuctionHouseAssumption DEF InColumn

\* Mails change the gold and the items of one mailbox.
LEMMA MailedType ==
    ASSUME NEW m \in Mailboxes, NEW p \in Owners, NEW n \in Nat, NEW I \in SUBSET Items
    PROVE  Mailed(m, p, n, I) \in Mailboxes
<1>1. CASE p \in exists /\ p \in Players
  <2>1. [gold |-> m[p].gold + n, stored |-> m[p].stored + InColumn(n), items |-> m[p].items \cup I]
          \in Mails
    BY <1>1, InColumnIs DEF Mailboxes, Mails
  <2>2. Mailed(m, p, n, I) = [m EXCEPT ![p] =
           [gold |-> m[p].gold + n, stored |-> m[p].stored + InColumn(n), items |-> m[p].items \cup I]]
    BY <1>1 DEF Mailed
  <2> QED
    BY <1>1, <2>1, <2>2 DEF Mailboxes
<1>2. CASE p \notin exists
  BY <1>2 DEF Mailed
<1>3. CASE p \notin Players
  BY <1>3 DEF Mailed, Mailboxes
<1> QED
  BY <1>1, <1>2, <1>3

\* A bid, a sale and a new auction are entries of the right type.
LEMMA EntryTypes ==
    ASSUME NEW a \in AuctionEntry
    PROVE  /\ \A b \in Owners, n \in Nat : WithBid(a, b, n) \in AuctionEntry
           /\ AsSold(a) \in AuctionEntry
           /\ WithoutItem(a) \in AuctionEntry
           /\ [AsSold(a) EXCEPT !.item = NULL] \in AuctionEntry
           /\ [a EXCEPT !.due = TRUE] \in AuctionEntry
BY DEF AuctionEntry, WithBid, Clamped, AsSold, WithoutItem, Owners

LEMMA NewAuctionType ==
    ASSUME NEW i \in Items, NEW p \in Owners, NEW s \in Nat, NEW b \in Nat, NEW d \in Nat
    PROVE  NewAuction(i, p, s, b, d) \in AuctionEntry
BY DEF AuctionEntry, NewAuction, Owners

(***************************************************************************)
(* Types.                                                                  *)
(***************************************************************************)
GoodsType == /\ gold \in [Players -> Nat]
             /\ inventory \in [Players -> SUBSET Items]
             /\ mailbox \in Mailboxes

LEMMA ConstantTypes ==
    /\ InitGold \in [Players -> Nat] /\ InitCount \in Counts /\ MaxGold \in Nat /\ InitItems \in [Players -> SUBSET Items]
    /\ Prices \subseteq Nat /\ StartBids \subseteq Nat /\ Buyouts \subseteq Nat
    /\ Deposit \in Nat
    /\ Server \notin Players /\ NULL \notin Items /\ NULL \notin AuctionEntry
BY AuctionHouseAssumption DEF Counts

\* What is sold, what is left and what is taken.
LEMMA UnitsTypes ==
    ASSUME TypeOK, NEW p \in Players, NEW i \in Items, NEW n \in 1..MaxStack
    PROVE  /\ Left(i, n) \in 1..MaxStack
           /\ Taken(p, i, n) \in [Players -> SUBSET Items]
           /\ \A q \in Players : Taken(p, i, n)[q] \subseteq inventory[q]
           /\ \A j \in Items : [count EXCEPT ![i] = Left(i, n), ![j] = n] \in Counts
           /\ [count EXCEPT ![i] = n] \in Counts
<1>1. count \in Counts /\ inventory \in [Players -> SUBSET Items] /\ MaxStack \in Nat
  BY AuctionHouseAssumption DEF TypeOK, Counts
<1>2. count[i] \in 1..MaxStack
  BY <1>1 DEF Counts
<1>3. Left(i, n) \in 1..MaxStack
  BY <1>1, <1>2 DEF Left
<1>4. /\ Taken(p, i, n) \in [Players -> SUBSET Items]
      /\ \A q \in Players : Taken(p, i, n)[q] \subseteq inventory[q]
  BY <1>1 DEF Taken
<1>5. [count EXCEPT ![i] = n] \in Counts
  BY <1>1 DEF Counts
<1> DEFINE l == Left(i, n)
<1> HIDE DEF l
<1>6. \A j \in Items : [count EXCEPT ![i] = l, ![j] = n] \in Counts
  BY <1>1, <1>3 DEF Counts, l
<1> QED
  BY <1>3, <1>4, <1>5, <1>6 DEF l

\* What is received is all the gold of the mails, as far as the limit allows.
LEMMA ReceiveIs ==
    ASSUME NEW g \in Nat, NEW n \in Nat
    PROVE  /\ Receive(g, n) \in Nat
           /\ g <= MaxGold => Receive(g, n) <= g + n /\ Receive(g, n) <= MaxGold
           /\ \A k \in 0..n : g + k <= MaxGold => Receive(g, n) >= g + k
<1>1. MaxGold \in Nat
  BY ConstantTypes
<1>2. \A G \in Nat : LET r == IF g < G - n THEN g + n ELSE G
                     IN  /\ r \in Nat /\ (g <= G => r <= g + n /\ r <= G)
                         /\ \A k \in 0..n : g + k <= G => r >= g + k
  OBVIOUS
<1> QED
  BY <1>1, <1>2 DEF Receive

\* After a restart the mails are as they are stored.
LEMMA ReloadedIs ==
    ASSUME NEW m \in Mailboxes
    PROVE  /\ Reloaded(m) \in Mailboxes
           /\ \A p \in Players : /\ Reloaded(m)[p].gold = m[p].stored
                                 /\ Reloaded(m)[p].stored = m[p].stored
                                 /\ Reloaded(m)[p].items = m[p].items
<1>1. ASSUME NEW p \in Players
      PROVE  /\ [m[p] EXCEPT !.gold = m[p].stored] \in Mails
             /\ [m[p] EXCEPT !.gold = m[p].stored].gold = m[p].stored
             /\ [m[p] EXCEPT !.gold = m[p].stored].stored = m[p].stored
             /\ [m[p] EXCEPT !.gold = m[p].stored].items = m[p].items
  <2>1. m[p] \in Mails
    BY DEF Mailboxes
  <2> QED
    BY <2>1 DEF Mails
<1>2. \A p \in Players : Reloaded(m)[p] = [m[p] EXCEPT !.gold = m[p].stored]
  BY DEF Reloaded
<1>3. Reloaded(m) \in Mailboxes
  BY <1>1 DEF Reloaded, Mailboxes
<1> QED
  BY <1>1, <1>2, <1>3

\* The live auctions are entries.
LEMMA LiveIsEntry ==
    ASSUME TypeOK, NEW id \in Live
    PROVE  /\ id \in Ids /\ auctions[id] \in AuctionEntry
           /\ auctions[id].owner \in Owners /\ auctions[id].bidder \in Owners
           /\ auctions[id].bid \in Nat /\ auctions[id].deposit \in Nat
           /\ auctions[id].startbid \in Nat /\ auctions[id].buyout \in Nat
           /\ auctions[id].item \in Items \cup {NULL}
           /\ GetAItem(auctions[id]) \in SUBSET Items
<1>1. id \in Ids /\ auctions[id] \in AuctionEntry
  BY DEF TypeOK, Live
<1>2. GetAItem(auctions[id]) \in SUBSET Items
  BY DEF GetAItem, TypeOK
<1> QED
  BY <1>1, <1>2 DEF AuctionEntry, Owners

\* Winning sends the item and keeps the entry.
LEMMA WinningType ==
    ASSUME TypeOK, NEW id \in Ids, NEW a \in AuctionEntry, NEW m \in Mailboxes,
           AuctionBidWinning(id, a, m)
    PROVE  mailbox' \in Mailboxes /\ auctions' \in Auctions /\ auctionItems' \in SUBSET Items
<1> DEFINE s == AsSold(a)
<1>1. s \in AuctionEntry
  BY EntryTypes
<1>2. s.bidder \in Owners /\ GetAItem(s) \in SUBSET Items
  BY <1>1 DEF AuctionEntry, Owners, GetAItem, TypeOK
<1>3. WithoutItem(s) \in AuctionEntry
  BY <1>1, EntryTypes
<1>4. /\ mailbox' = Mailed(m, s.bidder, 0, GetAItem(s))
      /\ auctions' = [auctions EXCEPT ![id] = WithoutItem(s)]
      /\ auctionItems' = auctionItems \ GetAItem(s)
  BY DEF AuctionBidWinning, SendAuctionWonMail
<1> HIDE DEF s
<1>5. mailbox' \in Mailboxes
  BY <1>2, <1>4, MailedType
<1> QED
  BY <1>3, <1>4, <1>5 DEF TypeOK, Auctions

\* A bid costs at most what it offers, and nothing but the bidder's gold.
LEMMA ChargedType ==
    ASSUME TypeOK, NEW id \in Live, NEW b \in Owners, NEW n \in Nat,
           b # Server => n <= gold[b]
    PROVE  /\ Clamped(auctions[id], n) \in 0..n
           /\ Paid(b, Charged(auctions[id], b, n)) \in [Players -> Nat]
<1> DEFINE a == auctions[id]
<1>1. a.bid \in Nat /\ a.buyout \in Nat
  BY LiveIsEntry
<1>2. Clamped(a, n) \in 0..n
  BY <1>1 DEF Clamped
<1>3. CASE b = Server
  BY <1>2, <1>3 DEF Paid, TypeOK
<1>4. CASE b # Server
  <2>1. b \in Players /\ gold[b] \in Nat
    BY <1>4 DEF Owners, TypeOK
  <2>2. Charged(a, b, n) \in Int /\ Charged(a, b, n) <= n
    BY <1>1, <1>2, <1>4 DEF Charged
  <2>3. gold[b] - Charged(a, b, n) \in Nat
    BY <1>4, <2>1, <2>2
  <2> QED
    BY <1>2, <1>4, <2>1, <2>3 DEF Paid, TypeOK
<1> QED
  BY <1>2, <1>3, <1>4

\* The refund of the player who is outbid.
LEMMA RefundedType ==
    ASSUME TypeOK, NEW id \in Live, NEW b, NEW n
    PROVE  Refunded(auctions[id], b, n) \in Mailboxes
<1>1. mailbox \in Mailboxes
  BY DEF TypeOK, Mailboxes
<1>2. Mailed(mailbox, auctions[id].bidder, auctions[id].bid, {}) \in Mailboxes
  BY <1>1, MailedType, LiveIsEntry
<1> QED
  BY <1>1, <1>2 DEF Refunded, SendAuctionOutbiddedMail

\* A bid of a player or of the bot.
LEMMA UpdateBidType ==
    ASSUME TypeOK, NEW id \in Live, NEW b \in Owners, NEW n \in Nat,
           b # Server => n <= gold[b], UpdateBid(id, n, b)
    PROVE  TypeOK'
<1> DEFINE a == WithBid(auctions[id], b, n)
           m == Refunded(auctions[id], b, n)
<1>1. a \in AuctionEntry /\ m \in Mailboxes /\ id \in Ids
  BY LiveIsEntry, EntryTypes, RefundedType
<1>2. gold' \in [Players -> Nat] /\ UNCHANGED <<exists, bags>>
  BY ChargedType DEF UpdateBid
<1>3. mailbox' \in Mailboxes /\ auctions' \in Auctions /\ auctionItems' \in SUBSET Items
  <2>1. CASE ~Buys(auctions[id], n)
    <3>1. /\ mailbox' = m /\ auctions' = [auctions EXCEPT ![id] = a]
          /\ auctionItems' = auctionItems
      BY <2>1 DEF UpdateBid
    <3> HIDE DEF a, m
    <3> QED
      BY <3>1, <1>1 DEF TypeOK, Auctions
  <2>2. CASE Buys(auctions[id], n)
    <3>1. AuctionBidWinning(id, a, m)
      BY <2>2 DEF UpdateBid
    <3> HIDE DEF a, m
    <3> QED
      BY <3>1, <1>1, WinningType
  <2> QED
    BY <2>1, <2>2
<1> QED
  BY <1>2, <1>3 DEF TypeOK, Mailboxes, Auctions, bags

LEMMA LoadedType ==
    ASSUME NEW A \in Auctions
    PROVE  LoadAuctionItems(A) \in SUBSET Items
BY DEF LoadAuctionItems, Auctions, AuctionEntry

\* A crash before the last transaction, with only mails stored.
LEMMA MailsOnlyType ==
    ASSUME TypeOK, NEW m \in Mailboxes, Crash_MailsOnly(m)
    PROVE  TypeOK'
<1>1. auctions \in Auctions
  BY DEF TypeOK, Auctions
<1> QED
  BY <1>1, LoadedType, ReloadedIs DEF TypeOK, Mailboxes, Auctions, Crash_MailsOnly, bags

\* A crash after a sale was stored.
LEMMA SellingType ==
    ASSUME TypeOK, NEW id \in Ids, NEW a \in AuctionEntry, NEW m \in Mailboxes,
           NEW g \in [Players -> Nat], Crash_Selling(id, a, m, g)
    PROVE  TypeOK'
<1>1. [AsSold(a) EXCEPT !.item = NULL] \in AuctionEntry
  BY EntryTypes
<1>2. auctions' = [auctions EXCEPT ![id] = [AsSold(a) EXCEPT !.item = NULL]]
  BY DEF Crash_Selling
<1>3. auctions' \in Auctions
  BY <1>1, <1>2 DEF TypeOK, Auctions
<1>4. auctionItems' \in SUBSET Items
  BY <1>3, LoadedType DEF Crash_Selling
<1> QED
  BY <1>3, <1>4, ReloadedIs DEF TypeOK, Mailboxes, Auctions, Crash_Selling, bags

\* The mails of a cancellation, up to and with the owner's.
LEMMA CancelType ==
    ASSUME TypeOK, NEW id \in Ids, NEW p \in Players, CanRemove(p, id)
    PROVE  /\ id \in Live /\ auctions[id].item \in Items
           /\ SendAuctionCancelledToBidderMail(auctions[id]) \in Mailboxes
           /\ Mailed(SendAuctionCancelledToBidderMail(auctions[id]), p, 0, {auctions[id].item})
                  \in Mailboxes
<1>1. id \in Live /\ auctions[id].item \in Items
  BY DEF CanRemove, TypeOK
<1>2. mailbox \in Mailboxes
  BY DEF TypeOK, Mailboxes
<1>3. SendAuctionCancelledToBidderMail(auctions[id]) \in Mailboxes
  <2>1. Mailed(mailbox, auctions[id].bidder, auctions[id].bid, {}) \in Mailboxes
    BY <1>1, <1>2, MailedType, LiveIsEntry
  <2> QED
    BY <1>2, <2>1 DEF SendAuctionCancelledToBidderMail
<1>4. p \in Owners /\ {auctions[id].item} \in SUBSET Items
  BY <1>1 DEF Owners
<1>5. Mailed(SendAuctionCancelledToBidderMail(auctions[id]), p, 0, {auctions[id].item})
          \in Mailboxes
  BY <1>3, <1>4, MailedType
<1> QED
  BY <1>1, <1>3, <1>5

\* The mails of the house to the owner.
LEMMA OwnerMailType ==
    ASSUME TypeOK, NEW id \in Live
    PROVE  /\ SendAuctionExpiredMail(auctions[id]) \in Mailboxes
           /\ SendAuctionSuccessfulMail(auctions[id]) \in Mailboxes
<1>1. mailbox \in Mailboxes
  BY DEF TypeOK, Mailboxes
<1>2. SendAuctionExpiredMail(auctions[id]) \in Mailboxes
  BY <1>1, MailedType, LiveIsEntry DEF SendAuctionExpiredMail
<1>3. GetAuctionCut(auctions[id]) \in 0..auctions[id].bid
  BY CutBounded, LiveIsEntry
<1>4. auctions[id].bid + auctions[id].deposit - GetAuctionCut(auctions[id]) \in Nat
  BY <1>3, LiveIsEntry
<1>5. SendAuctionSuccessfulMail(auctions[id]) \in Mailboxes
  BY <1>1, <1>4, MailedType, LiveIsEntry DEF SendAuctionSuccessfulMail
<1> QED
  BY <1>2, <1>5

LEMMA AddType ==
    ASSUME TypeOK, NEW a \in AuctionEntry, a.item \in Items, AddAuction(a)
    PROVE  auctions' \in Auctions /\ auctionItems' \in SUBSET Items
BY DEF AddAuction, TypeOK, Auctions

\* Type correctness.  No action of a player, the house or the bot takes more gold
\* from a player than there is, and the house never pays a seller less than nothing.
THEOREM TypeCorrect == Spec => []TypeOK
<1>1. Init => TypeOK
  <2>1. NoMails \in Mails
    BY DEF NoMails, Mails
  <2> QED
    BY <2>1, ConstantTypes DEF Init, TypeOK, Counts
<1>2. TypeOK /\ [Next]_vars => TypeOK'
  <2> SUFFICES ASSUME TypeOK, [Next]_vars PROVE TypeOK'
    OBVIOUS
  <2>0. mailbox \in Mailboxes
    BY DEF TypeOK, Mailboxes
  <2>1. CASE UNCHANGED vars
    BY <2>1 DEF TypeOK, vars, goods, bags, house
  <2>2. ASSUME NEW p \in Players, NEW i \in Items, HandleMailTakeItem(p, i)
        PROVE  TypeOK'
    BY <2>2 DEF TypeOK, HandleMailTakeItem, house, Mails
  <2>3. ASSUME NEW p \in Players, NEW i \in Items, NEW n \in 1..MaxStack,
               NEW s \in StartBids, NEW b \in Buyouts, HandleAuctionSellItem(p, i, n, s, b)
        PROVE  TypeOK'
    <3>0. PICK j \in Nowhere : /\ count' = [count EXCEPT ![i] = Left(i, n), ![j] = n]
                               /\ AddAuction(NewAuction(j, p, s, b, Deposit))
      BY <2>3 DEF HandleAuctionSellItem
    <3> DEFINE a == NewAuction(j, p, s, b, Deposit)
    <3>1. a \in AuctionEntry /\ a.item \in Items /\ p \in Owners
      BY NewAuctionType, ConstantTypes DEF Owners, NewAuction, Nowhere
    <3>2. AddAuction(a)
      BY <3>0
    <3> HIDE DEF a
    <3>3. auctions' \in Auctions /\ auctionItems' \in SUBSET Items
      BY <3>1, <3>2, AddType
    <3>4. gold' \in [Players -> Nat]
      BY <2>3, ConstantTypes DEF HandleAuctionSellItem, CanSell, TypeOK
    <3>5. inventory' \in [Players -> SUBSET Items] /\ count' \in Counts
      BY <2>3, <3>0, UnitsTypes DEF HandleAuctionSellItem, Nowhere
    <3>6. UNCHANGED <<exists, mailbox>>
      BY <2>3 DEF HandleAuctionSellItem
    <3> QED
      BY <3>3, <3>4, <3>5, <3>6 DEF TypeOK, Auctions, Counts
  <2>4. ASSUME NEW p \in Players, NEW id \in Ids, HandleAuctionRemoveItem(p, id)
        PROVE  TypeOK'
    <3>1. CanRemove(p, id)
      BY <2>4 DEF HandleAuctionRemoveItem
    <3>2. id \in Live /\ mailbox' \in Mailboxes
      BY <2>4, <3>1, CancelType DEF HandleAuctionRemoveItem
    <3>3. GetAuctionCut(auctions[id]) \in Nat
      BY <3>2, CutBounded, LiveIsEntry
    <3>4. gold' \in [Players -> Nat]
      BY <2>4, <3>1, <3>3 DEF HandleAuctionRemoveItem, CanRemove, TypeOK
    <3> QED
      BY <2>4, <3>2, <3>4 DEF HandleAuctionRemoveItem, TypeOK, Mailboxes, bags
  <2>5. ASSUME NEW p \in Players, NEW id \in Ids, NEW price \in Prices,
               HandleAuctionPlaceBid(p, id, price)
        PROVE  TypeOK'
    <3>1. id \in Live /\ price <= gold[p] /\ UpdateBid(id, price, p)
      BY <2>5 DEF HandleAuctionPlaceBid, CanBid
    <3> QED
      BY <3>1, UpdateBidType, ConstantTypes DEF Owners
  <2>6. ASSUME NEW p \in Players, HandleMailTakeMoney(p)
        PROVE  TypeOK'
    <3>1. mailbox[p] \in Mails /\ gold[p] \in Nat
      BY DEF TypeOK
    <3>2. Receive(gold[p], mailbox[p].gold) \in Nat
      BY <3>1, ReceiveIs DEF Mails
    <3>3. [mailbox[p] EXCEPT !.gold = 0, !.stored = 0] \in Mails
      BY <3>1 DEF Mails
    <3>4. /\ gold' = [gold EXCEPT ![p] = Receive(gold[p], mailbox[p].gold)]
          /\ mailbox' = [mailbox EXCEPT ![p] = [mailbox[p] EXCEPT !.gold = 0, !.stored = 0]]
      BY <2>6 DEF HandleMailTakeMoney
    <3> QED
      BY <2>6, <3>2, <3>3, <3>4 DEF TypeOK, HandleMailTakeMoney, house, bags
  <2>6a. ASSUME NEW p \in Players, LoadMails(p)
         PROVE  TypeOK'
    <3>1. [mailbox[p] EXCEPT !.gold = mailbox[p].stored] \in Mails
      BY DEF TypeOK, Mails
    <3>2. mailbox' = [mailbox EXCEPT ![p] = [mailbox[p] EXCEPT !.gold = mailbox[p].stored]]
      BY <2>6a DEF LoadMails
    <3> QED
      BY <2>6a, <3>1, <3>2 DEF TypeOK, LoadMails, house, bags
  <2>7. ASSUME NEW p \in Players, DeleteCharacter(p)
        PROVE  TypeOK'
    BY <2>7 DEF TypeOK, DeleteCharacter, house, NoMails, Mails
  <2>8. ASSUME NEW id \in Ids, TimePasses(id)
        PROVE  TypeOK'
    <3>1. auctions[id] \in AuctionEntry
      BY <2>8, LiveIsEntry DEF TimePasses
    <3>2. [auctions[id] EXCEPT !.due = TRUE] \in AuctionEntry
      BY <3>1, EntryTypes
    <3>3. auctions' = [auctions EXCEPT ![id] = [auctions[id] EXCEPT !.due = TRUE]]
      BY <2>8 DEF TimePasses
    <3> QED
      BY <2>8, <3>2, <3>3 DEF TimePasses, TypeOK, goods, bags
  <2>9. ASSUME NEW id \in Ids, HouseStep(id)
        PROVE  TypeOK'
    <3>1. id \in Live
      BY <2>9 DEF HouseStep, Update_Won, Update_Expired, Update_Paid, Expiring, Sold
    <3>2. CASE Update_Won(id)
      <4>1. AuctionBidWinning(id, auctions[id], mailbox)
        BY <3>2 DEF Update_Won
      <4>2. mailbox' \in Mailboxes /\ auctions' \in Auctions /\ auctionItems' \in SUBSET Items
        BY <2>0, <3>1, <4>1, WinningType, LiveIsEntry
      <4> QED
        BY <3>2, <4>2 DEF Update_Won, TypeOK, Mailboxes, Auctions, bags
    <3>3. CASE Update_Expired(id)
      BY <3>1, <3>3, OwnerMailType DEF Update_Expired, TypeOK, Mailboxes, bags
    <3>4. CASE Update_Paid(id)
      BY <3>1, <3>4, OwnerMailType DEF Update_Paid, TypeOK, Mailboxes, bags
    <3> QED
      BY <2>9, <3>2, <3>3, <3>4 DEF HouseStep
  <2>10. CASE BotStep
    <3>1. ASSUME NEW id \in Ids, PlaceBidToEntry(id)
          PROVE  TypeOK'
      <4>1. id \in Live
        BY <3>1 DEF PlaceBidToEntry, BotMayBid
      <4>2. PICK n \in Nat : UpdateBid(id, n, Server)
        BY <3>1, <4>1, OutBidIsNat, LiveIsEntry DEF PlaceBidToEntry
      <4> QED
        BY <4>1, <4>2, UpdateBidType DEF Owners
    <3>2. ASSUME NEW id \in Ids, BuyEntry(id)
          PROVE  TypeOK'
      <4>1. id \in Live
        BY <3>2 DEF BuyEntry, BotMayBid
      <4>2. PICK n \in Nat : UpdateBid(id, n, Server)
        BY <3>2, <4>1, LiveIsEntry DEF BuyEntry
      <4> QED
        BY <4>1, <4>2, UpdateBidType DEF Owners
    <3>3. ASSUME NEW i \in Items, NEW n \in 1..MaxStack, NEW s \in StartBids, NEW b \in Buyouts,
               addNewAuctions(i, n, s, b)
          PROVE  TypeOK'
      <4> DEFINE a == NewAuction(i, Server, s, b, 0)
      <4>1. a \in AuctionEntry /\ a.item \in Items
        BY NewAuctionType, ConstantTypes DEF Owners, NewAuction
      <4>2. AddAuction(a)
        BY <3>3 DEF addNewAuctions
      <4> HIDE DEF a
      <4>3. auctions' \in Auctions /\ auctionItems' \in SUBSET Items
        BY <4>1, <4>2, AddType
      <4>4. count' \in Counts
        BY <3>3, UnitsTypes, ConstantTypes DEF addNewAuctions, TypeOK, Counts
      <4> QED
        BY <3>3, <4>3, <4>4 DEF TypeOK, Auctions, addNewAuctions, Counts
    <3> QED
      BY <2>10, <3>1, <3>2, <3>3 DEF BotStep
  <2>11. ASSUME NEW id \in Ids, Crash_Deleting(id)
         PROVE  TypeOK'
    <3>1. CASE \E p \in Players : CanRemove(p, id) /\
                   \/ Crash_MailsOnly(SendAuctionCancelledToBidderMail(auctions[id]))
                   \/ Crash_MailsOnly(Mailed(SendAuctionCancelledToBidderMail(auctions[id]), p, 0,
                                             {auctions[id].item}))
      BY <3>1, CancelType, MailsOnlyType
    <3>2. CASE Expiring(id) /\ Crash_MailsOnly(SendAuctionExpiredMail(auctions[id]))
      BY <3>2, OwnerMailType, MailsOnlyType DEF Expiring
    <3>3. CASE Sold(id) /\ Crash_MailsOnly(SendAuctionSuccessfulMail(auctions[id]))
      BY <3>3, OwnerMailType, MailsOnlyType DEF Sold
    <3> QED
      BY <2>11, <3>1, <3>2, <3>3 DEF Crash_Deleting
  <2>12. ASSUME NEW id \in Ids, Crash_Won(id)
         PROVE  TypeOK'
    <3>1. id \in Live /\ Crash_Selling(id, auctions[id], mailbox, gold)
      BY <2>12 DEF Crash_Won, Expiring
    <3>2. gold \in [Players -> Nat] /\ auctions[id] \in AuctionEntry
      BY <3>1, LiveIsEntry DEF TypeOK
    <3> QED
      BY <2>0, <3>1, <3>2, SellingType
  <2>13. ASSUME NEW id \in Ids, NEW p \in Players, NEW price \in Prices,
                Crash_Bidding(p, id, price) \/ Crash_Buyout(p, id, price)
         PROVE  TypeOK'
    <3>1. id \in Live /\ price <= gold[p] /\ price \in Nat /\ p \in Owners
      BY <2>13, ConstantTypes DEF Crash_Bidding, Crash_Buyout, CanBid, Owners
    <3>2. CASE Crash_Bidding(p, id, price)
      BY <3>1, <3>2, RefundedType, MailsOnlyType DEF Crash_Bidding
    <3>3. CASE Crash_Buyout(p, id, price)
      <4> DEFINE a == WithBid(auctions[id], p, price)
                 m == Refunded(auctions[id], p, price)
                 g == Paid(p, Charged(auctions[id], p, price))
      <4>1. Crash_Selling(id, a, m, g)
        BY <3>3 DEF Crash_Buyout
      <4>2. /\ a \in AuctionEntry /\ m \in Mailboxes /\ g \in [Players -> Nat]
        BY <3>1, LiveIsEntry, EntryTypes, RefundedType, ChargedType
      <4> HIDE DEF a, m, g
      <4> QED
        BY <4>1, <4>2, SellingType
    <3> QED
      BY <2>13, <3>2, <3>3
  <2> QED
    BY <2>1, <2>2, <2>3, <2>4, <2>5, <2>6, <2>6a, <2>7, <2>8, <2>9, <2>10, <2>11, <2>12, <2>13
    DEF Next, PlayerStep, CrashStep
<1> QED
  BY <1>1, <1>2, PTL DEF Spec

(***************************************************************************)
(* The auctions and their items.                                           *)
(***************************************************************************)
\* AuctionsHoldTheirItems of any auctions A and items I, pointwise.
Holding(A, I) ==
    /\ \A id \in Ids : A[id] # NULL => (A[id].sold <=> A[id].item = NULL)
    /\ \A i \in Items : i \in I <=> \E id \in Ids : A[id] # NULL /\ A[id].item = i
    /\ \A id, other \in Ids :
          A[id] # NULL /\ A[other] # NULL /\ id # other /\ A[id].item = A[other].item
              => A[id].item = NULL

LEMMA HoldingPointwise ==
    ASSUME TypeOK
    PROVE  AuctionsHoldTheirItems <=> Holding(auctions, auctionItems)
<1>1. /\ auctionItems \in SUBSET Items /\ NULL \notin Items
      /\ \A id \in Live : auctions[id].item \in Items \cup {NULL}
  BY LiveIsEntry, ConstantTypes DEF TypeOK
<1>2. auctionItems = {auctions[id].item : id \in Live} \ {NULL}
         <=> \A i \in Items : i \in auctionItems <=> \E id \in Live : auctions[id].item = i
  BY <1>1
<1> QED
  BY <1>2 DEF AuctionsHoldTheirItems, Holding, Live

\* An auction whose item is nowhere else is added.
LEMMA AddHolds ==
    ASSUME NEW A \in Auctions, NEW I \in SUBSET Items, Holding(A, I),
           NEW id \in Ids, A[id] = NULL, NEW a \in AuctionEntry,
           a.item \in Items, a.item \notin I, ~a.sold
    PROVE  Holding([A EXCEPT ![id] = a], I \cup {a.item})
BY ConstantTypes DEF Holding, Auctions

\* An auction changes but keeps its item, if it has one.
LEMMA KeepHolds ==
    ASSUME NEW A \in Auctions, NEW I \in SUBSET Items, Holding(A, I),
           NEW id \in Ids, A[id] # NULL, NEW a \in AuctionEntry,
           a.item = A[id].item, a.sold = A[id].sold
    PROVE  Holding([A EXCEPT ![id] = a], I)
BY ConstantTypes DEF Holding, Auctions

\* An auction is sold and its item leaves.
LEMMA SellHolds ==
    ASSUME NEW A \in Auctions, NEW I \in SUBSET Items, Holding(A, I),
           NEW id \in Ids, A[id] # NULL, NEW a \in AuctionEntry,
           a.item = NULL, a.sold
    PROVE  Holding([A EXCEPT ![id] = a], I \ {A[id].item})
BY ConstantTypes DEF Holding, Auctions

\* An auction ends and its item, if it has one, leaves.
LEMMA EndHolds ==
    ASSUME NEW A \in Auctions, NEW I \in SUBSET Items, Holding(A, I),
           NEW id \in Ids, A[id] # NULL
    PROVE  Holding([A EXCEPT ![id] = NULL], I \ {A[id].item})
BY ConstantTypes DEF Holding, Auctions

\* The items are loaded anew.
LEMMA LoadHolds ==
    ASSUME NEW A \in Auctions, NEW I, Holding(A, I)
    PROVE  Holding(A, LoadAuctionItems(A))
BY ConstantTypes DEF Holding, LoadAuctionItems

\* What the house has of an auction's item is the item, if there is one.
LEMMA AItemIs ==
    ASSUME TypeOK, Holding(auctions, auctionItems), NEW id \in Live
    PROVE  /\ auctionItems \ GetAItem(auctions[id]) = auctionItems \ {auctions[id].item}
           /\ auctions[id].item \in auctionItems <=> ~auctions[id].sold
           /\ auctions[id].sold => auctions[id].item = NULL
<1>1. auctions[id].item \in Items \cup {NULL} /\ NULL \notin auctionItems /\ id \in Ids
  BY LiveIsEntry, ConstantTypes DEF TypeOK
<1>2. auctions[id] # NULL
  BY DEF Live
<1> QED
  BY <1>1, <1>2 DEF Holding, GetAItem

LEMMA WinningHolds ==
    ASSUME TypeOK, Holding(auctions, auctionItems),
           NEW id \in Live, NEW a \in AuctionEntry, NEW m,
           a.item = auctions[id].item, AuctionBidWinning(id, a, m)
    PROVE  Holding(auctions', auctionItems')
<1> DEFINE s == WithoutItem(AsSold(a))
<1>1. s \in AuctionEntry
  BY EntryTypes
<1>2. AsSold(a).item = auctions[id].item
  BY DEF AsSold, AuctionEntry
<1>3. s.sold /\ s.item = NULL
  <2>1. AsSold(a) \in AuctionEntry /\ AsSold(a).sold
    BY EntryTypes DEF AsSold, AuctionEntry
  <2>2. AsSold(a).item \in auctionItems \/ AsSold(a).item = NULL
    BY <1>2, AItemIs, LiveIsEntry DEF AuctionEntry
  <2> QED
    BY <2>1, <2>2 DEF WithoutItem, AuctionEntry
<1>4. GetAItem(AsSold(a)) = GetAItem(auctions[id])
  BY <1>2 DEF GetAItem
<1>5. /\ auctions' = [auctions EXCEPT ![id] = s]
      /\ auctionItems' = auctionItems \ {auctions[id].item}
  BY <1>4, AItemIs DEF AuctionBidWinning, SendAuctionWonMail
<1>6. auctions \in Auctions /\ auctionItems \in SUBSET Items /\ id \in Ids /\ auctions[id] # NULL
  BY DEF TypeOK, Auctions, Live
<1> HIDE DEF s
<1>7. Holding([auctions EXCEPT ![id] = s], auctionItems \ {auctions[id].item})
  BY <1>1, <1>3, <1>6, SellHolds
<1> QED
  BY <1>5, <1>7

LEMMA UpdateBidHolds ==
    ASSUME TypeOK, Holding(auctions, auctionItems),
           NEW id \in Live, NEW b \in Owners, NEW n \in Nat, UpdateBid(id, n, b)
    PROVE  Holding(auctions', auctionItems')
<1> DEFINE a == WithBid(auctions[id], b, n)
<1>1. a \in AuctionEntry /\ id \in Ids
  BY LiveIsEntry, EntryTypes
<1>2. a.item = auctions[id].item /\ a.sold = auctions[id].sold
  BY LiveIsEntry DEF WithBid, AuctionEntry
<1>3. auctions \in Auctions /\ auctionItems \in SUBSET Items /\ auctions[id] # NULL
  BY DEF TypeOK, Auctions, Live
<1>4. CASE ~Buys(auctions[id], n)
  <2>1. auctions' = [auctions EXCEPT ![id] = a] /\ auctionItems' = auctionItems
    BY <1>4 DEF UpdateBid
  <2> HIDE DEF a
  <2> QED
    BY <2>1, <1>1, <1>2, <1>3, KeepHolds
<1>5. CASE Buys(auctions[id], n)
  <2>1. AuctionBidWinning(id, a, Refunded(auctions[id], b, n))
    BY <1>5 DEF UpdateBid
  <2> HIDE DEF a
  <2> QED
    BY <2>1, <1>1, <1>2, WinningHolds
<1> QED
  BY <1>4, <1>5

LEMMA MailsOnlyHolds ==
    ASSUME TypeOK, Holding(auctions, auctionItems), NEW m, Crash_MailsOnly(m)
    PROVE  Holding(auctions', auctionItems')
<1>1. auctions \in Auctions
  BY DEF TypeOK, Auctions
<1> QED
  BY <1>1, LoadHolds DEF Crash_MailsOnly

LEMMA SellingHolds ==
    ASSUME TypeOK, Holding(auctions, auctionItems),
           NEW id \in Live, NEW a \in AuctionEntry, NEW m, NEW g, Crash_Selling(id, a, m, g)
    PROVE  Holding(auctions', auctionItems')
<1> DEFINE s == [AsSold(a) EXCEPT !.item = NULL]
<1>1. s \in AuctionEntry /\ s.item = NULL /\ s.sold
  BY EntryTypes DEF AsSold, AuctionEntry
<1>2. auctions' = [auctions EXCEPT ![id] = s] /\ auctionItems' = LoadAuctionItems(auctions')
  BY DEF Crash_Selling
<1>3. auctions \in Auctions /\ auctionItems \in SUBSET Items /\ id \in Ids /\ auctions[id] # NULL
  BY DEF TypeOK, Auctions, Live
<1> HIDE DEF s
<1>4. Holding(auctions', auctionItems \ {auctions[id].item})
  BY <1>1, <1>2, <1>3, SellHolds
<1>5. auctions' \in Auctions
  BY <1>1, <1>2, <1>3 DEF Auctions
<1> QED
  BY <1>2, <1>4, <1>5, LoadHolds

\* The three ways in which an item is put into the house, leaves a live auction
\* that ends, or is left alone.
LEMMA AddAuctionHolds ==
    ASSUME TypeOK, Holding(auctions, auctionItems), NEW a \in AuctionEntry,
           a.item \in Items, a.item \notin auctionItems, ~a.sold, AddAuction(a)
    PROVE  Holding(auctions', auctionItems')
<1>1. PICK id \in Ids \ Live : auctions' = [auctions EXCEPT ![id] = a]
  BY DEF AddAuction
<1>2. auctions \in Auctions /\ auctionItems \in SUBSET Items /\ auctions[id] = NULL
  BY DEF TypeOK, Auctions, Live
<1>3. Holding([auctions EXCEPT ![id] = a], auctionItems \cup {a.item})
  BY <1>2, AddHolds
<1> QED
  BY <1>1, <1>3 DEF AddAuction

LEMMA EndAuctionHolds ==
    ASSUME TypeOK, Holding(auctions, auctionItems), NEW id \in Live,
           auctions' = [auctions EXCEPT ![id] = NULL],
           auctionItems' = auctionItems \ {auctions[id].item}
    PROVE  Holding(auctions', auctionItems')
<1>1. /\ auctions \in Auctions /\ auctionItems \in SUBSET Items
      /\ id \in Ids /\ auctions[id] # NULL
  BY DEF TypeOK, Auctions, Live
<1> QED
  BY <1>1, EndHolds

\* An item that is nowhere is not in the house either.
LEMMA NowhereIsOutside ==
    ASSUME TypeOK, Holding(auctions, auctionItems), NEW i \in Nowhere
    PROVE  i \in Items /\ i \notin auctionItems
BY DEF Nowhere, Holding, Live

THEOREM HoldingInductive ==
    ASSUME TypeOK, Holding(auctions, auctionItems), [Next]_vars
    PROVE  Holding(auctions', auctionItems')
<1>1. CASE UNCHANGED vars
  BY <1>1 DEF vars, house
<1>2. ASSUME NEW p \in Players, NEW i \in Items, HandleMailTakeItem(p, i)
      PROVE  Holding(auctions', auctionItems')
  BY <1>2 DEF HandleMailTakeItem, house
<1>3. ASSUME NEW p \in Players, NEW i \in Items, NEW n \in 1..MaxStack, NEW s \in StartBids,
             NEW b \in Buyouts, HandleAuctionSellItem(p, i, n, s, b)
      PROVE  Holding(auctions', auctionItems')
  <2>0. PICK j \in Nowhere : AddAuction(NewAuction(j, p, s, b, Deposit))
    BY <1>3 DEF HandleAuctionSellItem
  <2>1. j \in Items /\ j \notin auctionItems
    BY NowhereIsOutside
  <2> DEFINE a == NewAuction(j, p, s, b, Deposit)
  <2>2. a \in AuctionEntry /\ a.item = j /\ ~a.sold
    BY <2>1, NewAuctionType, ConstantTypes DEF Owners, NewAuction
  <2>3. AddAuction(a)
    BY <2>0
  <2> HIDE DEF a
  <2> QED
    BY <2>1, <2>2, <2>3, AddAuctionHolds
<1>4. ASSUME NEW p \in Players, NEW id \in Ids, HandleAuctionRemoveItem(p, id)
      PROVE  Holding(auctions', auctionItems')
  BY <1>4, EndAuctionHolds DEF HandleAuctionRemoveItem, CanRemove
<1>5. ASSUME NEW p \in Players, NEW id \in Ids, NEW price \in Prices,
             HandleAuctionPlaceBid(p, id, price)
      PROVE  Holding(auctions', auctionItems')
  BY <1>5, UpdateBidHolds, ConstantTypes DEF HandleAuctionPlaceBid, CanBid, Owners
<1>6. ASSUME NEW p \in Players, HandleMailTakeMoney(p) \/ LoadMails(p) \/ DeleteCharacter(p)
      PROVE  Holding(auctions', auctionItems')
  BY <1>6 DEF HandleMailTakeMoney, LoadMails, DeleteCharacter, house
<1>7. ASSUME NEW id \in Ids, TimePasses(id)
      PROVE  Holding(auctions', auctionItems')
  <2> DEFINE a == [auctions[id] EXCEPT !.due = TRUE]
  <2>1. id \in Live /\ auctions[id] # NULL /\ auctions[id] \in AuctionEntry
    BY <1>7, LiveIsEntry DEF TimePasses, Live
  <2>2. a \in AuctionEntry /\ a.item = auctions[id].item /\ a.sold = auctions[id].sold
    BY <2>1, EntryTypes DEF AuctionEntry
  <2>3. auctions' = [auctions EXCEPT ![id] = a] /\ auctionItems' = auctionItems
    BY <1>7 DEF TimePasses
  <2>4. auctions \in Auctions /\ auctionItems \in SUBSET Items
    BY DEF TypeOK, Auctions
  <2> HIDE DEF a
  <2> QED
    BY <2>1, <2>2, <2>3, <2>4, KeepHolds
<1>8. ASSUME NEW id \in Ids, HouseStep(id)
      PROVE  Holding(auctions', auctionItems')
  <2>1. id \in Live
    BY <1>8 DEF HouseStep, Update_Won, Update_Expired, Update_Paid, Expiring, Sold
  <2>2. CASE Update_Won(id)
    BY <2>1, <2>2, WinningHolds, LiveIsEntry DEF Update_Won
  <2>3. CASE Update_Expired(id)
    BY <2>1, <2>3, AItemIs, EndAuctionHolds DEF Update_Expired
  <2>4. CASE Update_Paid(id)
    <3>1. auctions[id].item = NULL /\ NULL \notin auctionItems
      BY <2>1, <2>4, AItemIs, ConstantTypes DEF Update_Paid, Sold, TypeOK
    <3>2. auctionItems' = auctionItems \ {auctions[id].item}
      BY <2>4, <3>1 DEF Update_Paid
    <3> QED
      BY <2>1, <2>4, <3>2, EndAuctionHolds DEF Update_Paid
  <2> QED
    BY <1>8, <2>2, <2>3, <2>4 DEF HouseStep
<1>9. CASE BotStep
  <2>1. ASSUME NEW id \in Ids, PlaceBidToEntry(id) \/ BuyEntry(id)
        PROVE  Holding(auctions', auctionItems')
    <3>1. id \in Live
      BY <2>1 DEF PlaceBidToEntry, BuyEntry, BotMayBid
    <3>2. PICK n \in Nat : UpdateBid(id, n, Server)
      BY <2>1, <3>1, OutBidIsNat, LiveIsEntry DEF PlaceBidToEntry, BuyEntry
    <3> QED
      BY <3>1, <3>2, UpdateBidHolds DEF Owners
  <2>2. ASSUME NEW i \in Items, NEW n \in 1..MaxStack, NEW s \in StartBids, NEW b \in Buyouts,
               addNewAuctions(i, n, s, b)
        PROVE  Holding(auctions', auctionItems')
    <3> DEFINE a == NewAuction(i, Server, s, b, 0)
    <3>1. a \in AuctionEntry /\ a.item = i /\ ~a.sold
      BY NewAuctionType, ConstantTypes DEF Owners, NewAuction
    <3>2. AddAuction(a) /\ i \notin auctionItems
      BY <2>2, NowhereIsOutside DEF addNewAuctions
    <3> HIDE DEF a
    <3> QED
      BY <3>1, <3>2, AddAuctionHolds
  <2> QED
    BY <1>9, <2>1, <2>2 DEF BotStep
<1>10. CASE CrashStep
  <2>1. ASSUME NEW id \in Ids, Crash_Deleting(id)
        PROVE  Holding(auctions', auctionItems')
    BY <2>1, MailsOnlyHolds DEF Crash_Deleting
  <2>2. ASSUME NEW id \in Ids, Crash_Won(id)
        PROVE  Holding(auctions', auctionItems')
    BY <2>2, SellingHolds, LiveIsEntry DEF Crash_Won, Expiring
  <2>3. ASSUME NEW id \in Ids, NEW p \in Players, NEW price \in Prices, Crash_Bidding(p, id, price)
        PROVE  Holding(auctions', auctionItems')
    BY <2>3, MailsOnlyHolds DEF Crash_Bidding
  <2>4. ASSUME NEW id \in Ids, NEW p \in Players, NEW price \in Prices, Crash_Buyout(p, id, price)
        PROVE  Holding(auctions', auctionItems')
    <3> DEFINE a == WithBid(auctions[id], p, price)
    <3>1. id \in Live /\ a \in AuctionEntry
      BY <2>4, LiveIsEntry, EntryTypes, ConstantTypes DEF Crash_Buyout, CanBid, Owners
    <3>2. Crash_Selling(id, a, Refunded(auctions[id], p, price),
                        Paid(p, Charged(auctions[id], p, price)))
      BY <2>4 DEF Crash_Buyout
    <3> HIDE DEF a
    <3> QED
      BY <3>1, <3>2, SellingHolds
  <2> QED
    BY <1>10, <2>1, <2>2, <2>3, <2>4 DEF CrashStep
<1> QED
  BY <1>1, <1>2, <1>3, <1>4, <1>5, <1>6, <1>7, <1>8, <1>9, <1>10 DEF Next, PlayerStep

\* The inductive form of AuctionsHoldTheirItems.
HoldingInv == Holding(auctions, auctionItems)

\* The auctions and the house's items agree, whatever is sold, bid, cancelled,
\* delivered late or cut short by a crash.
THEOREM HoldingCorrect == Spec => []AuctionsHoldTheirItems
<1>1. Init => HoldingInv
  BY DEF Init, Holding, HoldingInv
<1>2. TypeOK /\ HoldingInv /\ [Next]_vars => HoldingInv'
  BY HoldingInductive DEF HoldingInv
<1>3. Spec => []HoldingInv
  BY <1>1, <1>2, TypeCorrect, PTL DEF Spec
<1>4. TypeOK /\ HoldingInv => AuctionsHoldTheirItems
  BY HoldingPointwise DEF HoldingInv
<1> QED
  BY <1>3, <1>4, TypeCorrect, PTL

(***************************************************************************)
(* Items.  Without a crash, whatever enters a bag or a mailbox leaves      *)
(* another place in the same step.                                         *)
(***************************************************************************)
\* ItemsApart of any bags V, mails m and house items I.
Apart(V, m, I) ==
    /\ \A p, q \in Players :
          /\ p # q => V[p] \cap V[q] = {}
          /\ p # q => m[p].items \cap m[q].items = {}
          /\ V[p] \cap m[q].items = {}
    /\ \A p \in Players : (V[p] \cup m[p].items) \cap I = {}

\* A mail without items moves no item.
LEMMA GoldMail ==
    ASSUME NEW m \in Mailboxes, NEW p \in Owners, NEW n \in Nat
    PROVE  \A q \in Players : Mailed(m, p, n, {})[q].items = m[q].items
BY DEF Mailed, Mailboxes, Mails, Owners

\* Items taken from the house may be mailed to anyone, or be destroyed.
LEMMA HouseMail ==
    ASSUME NEW V \in [Players -> SUBSET Items], NEW m \in Mailboxes, NEW I \in SUBSET Items,
           NEW J \in SUBSET I, NEW p \in Owners, NEW n \in Nat, Apart(V, m, I)
    PROVE  Apart(V, Mailed(m, p, n, J), I \ J)
<1>1. CASE p \in exists /\ p \in Players
  <2>1. /\ Mailed(m, p, n, J)[p].items = m[p].items \cup J
        /\ \A q \in Players \ {p} : Mailed(m, p, n, J)[q].items = m[q].items
    BY <1>1 DEF Mailed, Mailboxes, Mails
  <2> HIDE DEF Mailed
  <2> QED
    BY <1>1, <2>1 DEF Apart, Mailboxes, Mails
<1>2. CASE p \notin exists \/ p \notin Players
  <2>1. \A q \in Players : Mailed(m, p, n, J)[q].items = m[q].items
    BY <1>2 DEF Mailed, Mailboxes
  <2> QED
    BY <2>1 DEF Apart
<1> QED
  BY <1>1, <1>2

\* Mails that hold the same items are as good.
LEMMA SameMail ==
    ASSUME NEW V, NEW m, NEW w, NEW I, Apart(V, m, I),
           \A q \in Players : w[q].items = m[q].items
    PROVE  Apart(V, w, I)
BY DEF Apart

\* ItemsApart is Apart of the places there are.
LEMMA ApartIs == ItemsApart <=> Apart(inventory, mailbox, auctionItems)
BY DEF ItemsApart, Apart

\* The refund mails of bids and cancellations hold no items.
LEMMA RefundsAreGold ==
    ASSUME TypeOK, NEW id \in Live, NEW b, NEW n
    PROVE  \A q \in Players :
              /\ Refunded(auctions[id], b, n)[q].items = mailbox[q].items
              /\ SendAuctionCancelledToBidderMail(auctions[id])[q].items = mailbox[q].items
<1>1. mailbox \in Mailboxes /\ auctions[id].bidder \in Owners /\ auctions[id].bid \in Nat
  BY LiveIsEntry DEF TypeOK, Mailboxes
<1>2. \A q \in Players :
          Mailed(mailbox, auctions[id].bidder, auctions[id].bid, {})[q].items = mailbox[q].items
  BY <1>1, GoldMail
<1> QED
  BY <1>2 DEF Refunded, SendAuctionOutbiddedMail, SendAuctionCancelledToBidderMail

LEMMA WinningApart ==
    ASSUME TypeOK, NEW id \in Live, NEW a \in AuctionEntry, NEW m \in Mailboxes,
           Apart(inventory, m, auctionItems), AuctionBidWinning(id, a, m)
    PROVE  Apart(inventory, mailbox', auctionItems')
<1> DEFINE s == AsSold(a)
<1>1. s.bidder \in Owners
  BY EntryTypes DEF AuctionEntry, Owners
<1>2. GetAItem(s) \in SUBSET auctionItems
  BY DEF GetAItem
<1>3. mailbox' = Mailed(m, s.bidder, 0, GetAItem(s)) /\ auctionItems' = auctionItems \ GetAItem(s)
  BY DEF AuctionBidWinning, SendAuctionWonMail
<1>4. inventory \in [Players -> SUBSET Items] /\ auctionItems \in SUBSET Items
  BY DEF TypeOK
<1> HIDE DEF s
<1> QED
  BY <1>1, <1>2, <1>3, <1>4, HouseMail

LEMMA UpdateBidApart ==
    ASSUME TypeOK, ItemsApart, NEW id \in Live, NEW b \in Owners, NEW n \in Nat,
           UpdateBid(id, n, b)
    PROVE  ItemsApart'
<1> DEFINE a == WithBid(auctions[id], b, n)
           m == Refunded(auctions[id], b, n)
<1>1. a \in AuctionEntry /\ m \in Mailboxes
  BY LiveIsEntry, EntryTypes, RefundedType
<1>2. Apart(inventory, mailbox, auctionItems) /\ inventory' = inventory
  BY ApartIs DEF UpdateBid, bags
<1>3. \A q \in Players : m[q].items = mailbox[q].items
  BY RefundsAreGold
<1>4. \/ mailbox' = m /\ auctionItems' = auctionItems
      \/ AuctionBidWinning(id, a, m)
  BY DEF UpdateBid
<1> HIDE DEF a, m
<1>5. Apart(inventory, m, auctionItems)
  BY <1>2, <1>3, SameMail
<1>6. Apart(inventory', mailbox', auctionItems')
  BY <1>1, <1>2, <1>4, <1>5, WinningApart
<1> QED
  BY <1>6 DEF ItemsApart, Apart

THEOREM ApartInductive ==
    ASSUME Crashes = FALSE, TypeOK, ItemsApart, [Next]_vars
    PROVE  ItemsApart'
<1>0. /\ mailbox \in Mailboxes /\ inventory \in [Players -> SUBSET Items]
      /\ auctionItems \in SUBSET Items /\ Apart(inventory, mailbox, auctionItems)
  BY ApartIs DEF TypeOK, Mailboxes
<1> SUFFICES Apart(inventory', mailbox', auctionItems')
  BY DEF ItemsApart, Apart
<1>1. CASE UNCHANGED vars
  BY <1>0, <1>1 DEF vars, goods, bags, house
<1>2. ASSUME NEW p \in Players, NEW i \in Items, HandleMailTakeItem(p, i)
      PROVE  Apart(inventory', mailbox', auctionItems')
  <2>1. /\ i \in mailbox[p].items /\ auctionItems' = auctionItems
        /\ inventory'[p] = inventory[p] \cup {i} /\ mailbox'[p].items = mailbox[p].items \ {i}
        /\ \A q \in Players \ {p} :
              inventory'[q] = inventory[q] /\ mailbox'[q].items = mailbox[q].items
    BY <1>0, <1>2 DEF HandleMailTakeItem, house, Mailboxes, Mails
  <2> QED
    BY <1>0, <2>1 DEF Apart
<1>3. ASSUME NEW p \in Players, NEW i \in Items, NEW n \in 1..MaxStack, NEW s \in StartBids,
             NEW b \in Buyouts, HandleAuctionSellItem(p, i, n, s, b)
      PROVE  Apart(inventory', mailbox', auctionItems')
  <2>1. PICK j \in Nowhere : auctionItems' = auctionItems \cup {j}
    BY <1>3 DEF HandleAuctionSellItem, AddAuction, NewAuction
  <2>2. mailbox' = mailbox /\ inventory' = Taken(p, i, n)
    BY <1>3 DEF HandleAuctionSellItem
  <2>3. \A q \in Players : inventory'[q] \subseteq inventory[q]
    BY <2>2, UnitsTypes
  <2>4. \A q \in Players : j \notin inventory[q] \cup mailbox[q].items
    BY DEF Nowhere
  <2> QED
    BY <1>0, <2>1, <2>2, <2>3, <2>4 DEF Apart
<1>4. ASSUME NEW p \in Players, NEW id \in Ids, HandleAuctionRemoveItem(p, id)
      PROVE  Apart(inventory', mailbox', auctionItems')
  <2> DEFINE m == SendAuctionCancelledToBidderMail(auctions[id])
             i == auctions[id].item
  <2>1. id \in Live /\ {i} \in SUBSET auctionItems /\ m \in Mailboxes /\ p \in Owners
    BY <1>4, CancelType DEF HandleAuctionRemoveItem, CanRemove, Owners
  <2>2. /\ mailbox' = Mailed(m, p, 0, {i}) /\ auctionItems' = auctionItems \ {i}
        /\ inventory' = inventory
    BY <1>4 DEF HandleAuctionRemoveItem, bags
  <2>3. \A q \in Players : m[q].items = mailbox[q].items
    BY <2>1, RefundsAreGold
  <2> HIDE DEF m, i
  <2>4. Apart(inventory, m, auctionItems)
    BY <1>0, <2>3, SameMail
  <2> QED
    BY <1>0, <2>1, <2>2, <2>4, HouseMail
<1>5. ASSUME NEW p \in Players, NEW id \in Ids, NEW price \in Prices,
             HandleAuctionPlaceBid(p, id, price)
      PROVE  Apart(inventory', mailbox', auctionItems')
  <2>1. ItemsApart'
    BY <1>5, UpdateBidApart, ConstantTypes DEF HandleAuctionPlaceBid, CanBid, Owners
  <2> QED
    BY <2>1 DEF ItemsApart, Apart
<1>6. ASSUME NEW p \in Players, HandleMailTakeMoney(p) \/ LoadMails(p)
      PROVE  Apart(inventory', mailbox', auctionItems')
  <2>1. /\ \A q \in Players : mailbox'[q].items = mailbox[q].items
        /\ inventory' = inventory /\ auctionItems' = auctionItems
    BY <1>0, <1>6 DEF HandleMailTakeMoney, LoadMails, house, bags, Mailboxes, Mails
  <2> QED
    BY <1>0, <2>1, SameMail
<1>7. ASSUME NEW p \in Players, DeleteCharacter(p)
      PROVE  Apart(inventory', mailbox', auctionItems')
  <2>1. /\ inventory'[p] = {} /\ mailbox'[p].items = {} /\ auctionItems' = auctionItems
        /\ \A q \in Players \ {p} :
              inventory'[q] = inventory[q] /\ mailbox'[q].items = mailbox[q].items
    BY <1>0, <1>7 DEF DeleteCharacter, NoMails, house, Mailboxes
  <2> QED
    BY <1>0, <2>1 DEF Apart
<1>8. ASSUME NEW id \in Ids, TimePasses(id) \/ HouseStep(id)
      PROVE  Apart(inventory', mailbox', auctionItems')
  <2>1. id \in Live /\ inventory' = inventory
    BY <1>8 DEF TimePasses, goods, bags, HouseStep, Update_Won, Update_Expired, Update_Paid, Expiring, Sold
  <2>2. CASE TimePasses(id)
    BY <1>0, <2>2 DEF TimePasses, goods, bags
  <2>3. CASE Update_Won(id)
    BY <1>0, <2>1, <2>3, WinningApart, LiveIsEntry DEF Update_Won
  <2>4. CASE Update_Expired(id)
    <3>1. GetAItem(auctions[id]) \in SUBSET auctionItems
      BY DEF GetAItem
    <3>2. /\ mailbox' = Mailed(mailbox, auctions[id].owner, 0, GetAItem(auctions[id]))
          /\ auctionItems' = auctionItems \ GetAItem(auctions[id])
      BY <2>4 DEF Update_Expired, SendAuctionExpiredMail
    <3> QED
      BY <1>0, <2>1, <3>1, <3>2, HouseMail, LiveIsEntry
  <2>5. CASE Update_Paid(id)
    <3>1. GetAuctionCut(auctions[id]) \in 0..auctions[id].bid
      BY <2>1, CutBounded, LiveIsEntry
    <3>2. auctions[id].bid + auctions[id].deposit - GetAuctionCut(auctions[id]) \in Nat
      BY <2>1, <3>1, LiveIsEntry
    <3>3. \A q \in Players : mailbox'[q].items = mailbox[q].items
      BY <1>0, <2>1, <2>5, <3>2, GoldMail, LiveIsEntry DEF Update_Paid, SendAuctionSuccessfulMail
    <3> QED
      BY <1>0, <2>1, <2>5, <3>3, SameMail DEF Update_Paid
  <2> QED
    BY <1>8, <2>2, <2>3, <2>4, <2>5 DEF HouseStep
<1>9. CASE BotStep
  <2>1. ASSUME NEW id \in Ids, PlaceBidToEntry(id) \/ BuyEntry(id)
        PROVE  Apart(inventory', mailbox', auctionItems')
    <3>1. id \in Live
      BY <2>1 DEF PlaceBidToEntry, BuyEntry, BotMayBid
    <3>2. PICK n \in Nat : UpdateBid(id, n, Server)
      BY <2>1, <3>1, OutBidIsNat, LiveIsEntry DEF PlaceBidToEntry, BuyEntry
    <3>3. ItemsApart'
      BY <3>1, <3>2, UpdateBidApart DEF Owners
    <3> QED
      BY <3>3 DEF ItemsApart, Apart
  <2>2. ASSUME NEW i \in Items, NEW n \in 1..MaxStack, NEW s \in StartBids, NEW b \in Buyouts,
               addNewAuctions(i, n, s, b)
        PROVE  Apart(inventory', mailbox', auctionItems')
    <3>1. /\ i \in Nowhere /\ auctionItems' = auctionItems \cup {i}
          /\ inventory' = inventory /\ mailbox' = mailbox
      BY <2>2 DEF addNewAuctions, AddAuction, NewAuction
    <3> QED
      BY <1>0, <3>1 DEF Apart, Nowhere
  <2> QED
    BY <1>9, <2>1, <2>2 DEF BotStep
<1>10. ~CrashStep
  BY DEF CrashStep, Crash_Deleting, Crash_Won, Crash_Bidding, Crash_Buyout, Crash_MailsOnly,
         Crash_Selling
<1> QED
  BY <1>1, <1>2, <1>3, <1>4, <1>5, <1>6, <1>7, <1>8, <1>9, <1>10 DEF Next, PlayerStep

\* As long as the server does not crash, no item object is in two places: a sale puts
\* a new one into the house, and house, mails and bags hand objects over.
THEOREM ItemsApartCorrect ==
    ASSUME Crashes = FALSE
    PROVE  Spec => []ItemsApart
<1>1. Init => ItemsApart
  BY AuctionHouseAssumption DEF Init, ItemsApart, NoMails
<1>2. TypeOK /\ ItemsApart /\ [Next]_vars => ItemsApart'
  BY ApartInductive
<1> QED
  BY <1>1, <1>2, TypeCorrect, PTL DEF Spec

(***************************************************************************)
(* Units.  An object is somewhere when it is in a bag, a mail or the       *)
(* house.  Only a sale and the bot's auctions bring an object from nowhere *)
(* or change the units of one; every other step may only lose objects.     *)
(***************************************************************************)
Places(V, m, I) == {i \in Items : i \in I \/ \E p \in Players : i \in V[p] \cup m[p].items}

LEMMA PlacesAre ==
    ASSUME TypeOK, Holding(auctions, auctionItems)
    PROVE  Items \ Nowhere = Places(inventory, mailbox, auctionItems)
<1>1. \A i \in Items : i \in auctionItems <=> \E id \in Live : auctions[id].item = i
  BY ConstantTypes DEF Holding, Live, TypeOK
<1> QED
  BY <1>1 DEF Places, Nowhere

\* A step that changes no units and brings no object from nowhere.
LEMMA FewerUnits ==
    ASSUME TypeOK, NEW P \in SUBSET Items, NEW Q \in SUBSET P
    PROVE  SumFunctionOnSet(count, Q) <= SumFunctionOnSet(count, P)
<1> DEFINE g == [i \in P |-> IF i \in Q THEN count[i] ELSE 0]
<1>1. IsFiniteSet(P) /\ \A i \in P : count[i] \in Nat
  BY FS_Subset, AuctionHouseAssumption DEF TypeOK
<1>2. /\ \A i \in P : g[i] \in Int /\ g[i] = IF i \in Q THEN count[i] ELSE 0
      /\ \A i \in P : g[i] \in Int /\ count[i] \in Int /\ g[i] <= count[i]
  BY <1>1
<1> HIDE DEF g
<1>3. SumFunctionOnSet(count, Q) = SumFunctionOnSet(g, P)
  BY <1>1, <1>2, SumPart
<1>4. SumFunctionOnSet(g, P) <= SumFunctionOnSet(count, P)
  BY <1>1, <1>2, SumMonotone
<1> QED
  BY <1>3, <1>4

\* Items taken from the house are in a mail or nowhere.
LEMMA HousePlaces ==
    ASSUME NEW V, NEW m \in Mailboxes, NEW I, NEW J, J \subseteq I, NEW p, NEW n
    PROVE  Places(V, Mailed(m, p, n, J), I \ J) \subseteq Places(V, m, I)
<1>1. \A q \in Players : Mailed(m, p, n, J)[q].items \subseteq m[q].items \cup J
  BY DEF Mailed, Mailboxes
<1> QED
  BY <1>1 DEF Places

LEMMA SamePlaces ==
    ASSUME NEW V, NEW m, NEW w, NEW I, \A q \in Players : w[q].items = m[q].items
    PROVE  Places(V, w, I) = Places(V, m, I)
BY DEF Places

LEMMA UpdateBidPlaces ==
    ASSUME TypeOK, NEW id \in Live, NEW b \in Owners, NEW n \in Nat, UpdateBid(id, n, b)
    PROVE  /\ count' = count
           /\ Places(inventory', mailbox', auctionItems') \subseteq Places(inventory, mailbox, auctionItems)
<1> DEFINE a == WithBid(auctions[id], b, n)
           s == AsSold(a)
           m == Refunded(auctions[id], b, n)
<1>1. m \in Mailboxes /\ \A q \in Players : m[q].items = mailbox[q].items
  BY RefundedType, RefundsAreGold
<1>2. /\ UNCHANGED <<inventory, count>>
      /\ \/ mailbox' = m /\ auctionItems' = auctionItems
         \/ /\ mailbox' = Mailed(m, s.bidder, 0, GetAItem(s))
            /\ auctionItems' = auctionItems \ GetAItem(s)
  BY DEF UpdateBid, bags, AuctionBidWinning, SendAuctionWonMail
<1>3. GetAItem(s) \subseteq auctionItems
  BY DEF GetAItem
<1> HIDE DEF a, s, m
<1>4. Places(inventory, m, auctionItems) = Places(inventory, mailbox, auctionItems)
  BY <1>1, SamePlaces
<1>5. Places(inventory, Mailed(m, s.bidder, 0, GetAItem(s)), auctionItems \ GetAItem(s))
         \subseteq Places(inventory, m, auctionItems)
  BY <1>1, <1>3, HousePlaces
<1> QED
  BY <1>2, <1>4, <1>5

\* The action of UnitsKept.
KeepsUnits ==
    \/ Units' <= Units
    \/ \E p \in Players, i, j \in Items : Oversells(p, i, j)
    \/ \E j \in Items : Stocks(j)

\* A sale doubles units only where the item named has fewer than are sold.
LEMMA SellKeepsUnits ==
    ASSUME TypeOK, TypeOK', Holding(auctions, auctionItems), Holding(auctions', auctionItems'),
           ItemsApart, NEW p \in Players, NEW i \in Items, NEW n \in 1..MaxStack,
           NEW s \in StartBids, NEW b \in Buyouts, HandleAuctionSellItem(p, i, n, s, b)
    PROVE  KeepsUnits
<1> DEFINE P == Items \ Nowhere
           R == P \ {i}
           Q == (Items \ Nowhere)'
<1>1. CanSell(p, i, n) /\ i \in inventory[p] /\ i \notin auctionItems
  BY DEF HandleAuctionSellItem, CanSell
<1>2. PICK j \in Nowhere : /\ count' = [count EXCEPT ![i] = Left(i, n), ![j] = n]
                           /\ AddAuction(NewAuction(j, p, s, b, Deposit))
  BY DEF HandleAuctionSellItem
<1>3. inventory' = Taken(p, i, n) /\ mailbox' = mailbox /\ auctionItems' = auctionItems \cup {j}
  BY <1>2 DEF HandleAuctionSellItem, AddAuction, NewAuction
<1>4. /\ i \in P /\ j \in Items /\ j \notin P /\ i # j
  BY <1>1 DEF Nowhere
<1>5. /\ count \in [Items -> 1..MaxStack] /\ MaxStack \in Nat /\ inventory \in [Players -> SUBSET Items]
      /\ Left(i, n) \in 1..MaxStack
  BY AuctionHouseAssumption, UnitsTypes DEF TypeOK
<1>6. /\ count'[i] = Left(i, n) /\ count'[j] = n
      /\ \A k \in Items : k = i \/ k = j \/ count'[k] = count[k]
      /\ \A k \in Items : count[k] \in Int /\ count'[k] \in Int
  BY <1>2, <1>4, <1>5
<1>7. P = Places(inventory, mailbox, auctionItems) /\ Q = Places(inventory', mailbox', auctionItems')
  <2>1. P = Places(inventory, mailbox, auctionItems)
    BY PlacesAre
  <2>2. \A k \in Items : k \in auctionItems' <=> \E id \in Live' : auctions'[id].item = k
    BY ConstantTypes DEF Holding, Live, TypeOK
  <2>3. Q = Places(inventory', mailbox', auctionItems')
    BY <2>2 DEF Places, Nowhere
  <2> QED
    BY <2>1, <2>3
<1>8. IsFiniteSet(P) /\ IsFiniteSet(R) /\ IsFiniteSet(Q) /\ IsFiniteSet(P \cup {j}) /\ IsFiniteSet(R \cup {j})
  <2>1. /\ P \in SUBSET Items /\ R \in SUBSET Items /\ Q \in SUBSET Items
        /\ P \cup {j} \in SUBSET Items /\ R \cup {j} \in SUBSET Items
    BY <1>4
  <2> QED
    BY <2>1, FS_Subset, AuctionHouseAssumption
<1>9. SumFunctionOnSet(count', R) = SumFunctionOnSet(count, R) /\ SumFunctionOnSet(count, R) \in Int
  <2>1. \A k \in R : count[k] \in Int /\ count'[k] = count[k]
    BY <1>4, <1>6
  <2> HIDE DEF P, R
  <2> QED
    BY <1>8, <2>1, SumEqual, SumTakeOut
<1>10. Units = count[i] + SumFunctionOnSet(count, R)
  <2>1. \A k \in P : count[k] \in Int
    BY <1>6
  <2>2. Units = SumFunctionOnSet(count, P)
    BY DEF Units
  <2> HIDE DEF P
  <2> QED
    BY <1>4, <1>8, <2>1, <2>2, SumTakeOut
<1>11. Units' = SumFunctionOnSet(count', Q)
  BY DEF Units
<1>12. CASE count[i] <= n
  <2>1. inventory' = [inventory EXCEPT ![p] = @ \ {i}] /\ count'[i] = count[i]
    BY <1>3, <1>6, <1>12 DEF Taken, Left
  <2>2. /\ \A q \in Players : q # p => i \notin inventory[q]
        /\ \A q \in Players : i \notin mailbox[q].items
    BY <1>1 DEF ItemsApart
  <2>3. i \notin inventory'[p] /\ \A q \in Players : inventory'[q] = inventory[q] \ {i}
    BY <1>5, <2>1, <2>2
  <2>4. Q = R \cup {j}
    <3>1. \A k \in Items : k \in Places(inventory', mailbox', auctionItems')
                              <=> k = j \/ (k \in Places(inventory, mailbox, auctionItems) /\ k # i)
      BY <1>1, <1>3, <1>4, <2>2, <2>3 DEF Places
    <3> HIDE DEF P, Q
    <3>2. P \subseteq Items /\ Q \subseteq Items
      BY <1>7 DEF Places
    <3> QED
      BY <1>4, <1>7, <3>1, <3>2
  <2>5. Units' = n + SumFunctionOnSet(count, R)
    <3>1. \A k \in R \cup {j} : count'[k] \in Int
      BY <1>4, <1>6
    <3>2. j \in R \cup {j} /\ (R \cup {j}) \ {j} = R
      BY <1>4
    <3> HIDE DEF P, R, Q
    <3>3. SumFunctionOnSet(count', R \cup {j}) = count'[j] + SumFunctionOnSet(count', (R \cup {j}) \ {j})
      BY <1>8, <3>1, <3>2, SumTakeOut
    <3> QED
      BY <1>6, <1>9, <1>11, <2>4, <3>2, <3>3
  <2>6. n \in Int /\ count[i] \in Int
    BY <1>5
  <2>7. CASE n = count[i]
    <3>1. Units' <= Units
      <4> HIDE DEF P, R, Q
      <4> QED
        BY <1>9, <1>10, <2>5, <2>6, <2>7
    <3> QED
      BY <3>1 DEF KeepsUnits
  <2>8. CASE n # count[i]
    <3>1. Units' = Units + count'[j] - count[i] /\ count'[j] > count[i]
      <4> HIDE DEF P, R, Q
      <4> QED
        BY <1>6, <1>9, <1>10, <1>12, <2>5, <2>6, <2>8
    <3>2. PutUp(j, p)
      <4>1. PICK id \in Ids \ Live : auctions' = [auctions EXCEPT ![id] = NewAuction(j, p, s, b, Deposit)]
        BY <1>2 DEF AddAuction
      <4>2. auctions'[id] = NewAuction(j, p, s, b, Deposit)
        BY <4>1 DEF TypeOK
      <4>3. NewAuction(j, p, s, b, Deposit) \in AuctionEntry
        BY <1>4, NewAuctionType, ConstantTypes DEF Owners
      <4>4. NewAuction(j, p, s, b, Deposit).item = j /\ NewAuction(j, p, s, b, Deposit).owner = p
        BY DEF NewAuction
      <4> QED
        BY <4>2, <4>3, <4>4, ConstantTypes DEF PutUp
    <3>3. HasItemCount(p, count'[j])
      BY <1>1, <1>6 DEF CanSell
    <3>4. Oversells(p, i, j)
      BY <1>1, <2>3, <3>1, <3>2, <3>3 DEF Oversells
    <3> QED
      BY <1>4, <3>4 DEF KeepsUnits
  <2> QED
    BY <2>7, <2>8
<1>13. CASE ~(count[i] <= n)
  <2>1. inventory' = inventory /\ count'[i] = count[i] - n
    BY <1>3, <1>6, <1>13 DEF Taken, Left
  <2>2. Q = P \cup {j}
    <3>1. \A k \in Items : k \in Places(inventory', mailbox', auctionItems')
                              <=> k = j \/ k \in Places(inventory, mailbox, auctionItems)
      BY <1>3, <2>1 DEF Places
    <3> HIDE DEF P, Q
    <3>2. P \subseteq Items /\ Q \subseteq Items
      BY <1>7 DEF Places
    <3> QED
      BY <1>4, <1>7, <3>1, <3>2
  <2>3. Units' = n + SumFunctionOnSet(count', P)
    <3>1. \A k \in P \cup {j} : count'[k] \in Int
      BY <1>4, <1>6
    <3>2. j \in P \cup {j} /\ (P \cup {j}) \ {j} = P
      BY <1>4
    <3> HIDE DEF P, R, Q
    <3>3. SumFunctionOnSet(count', P \cup {j}) = count'[j] + SumFunctionOnSet(count', (P \cup {j}) \ {j})
      BY <1>8, <3>1, <3>2, SumTakeOut
    <3> QED
      BY <1>6, <1>11, <2>2, <3>2, <3>3
  <2>4. SumFunctionOnSet(count', P) = count[i] - n + SumFunctionOnSet(count, R)
    <3>1. \A k \in P : count'[k] \in Int
      BY <1>6
    <3> HIDE DEF P
    <3>2. SumFunctionOnSet(count', P) = count'[i] + SumFunctionOnSet(count', P \ {i})
      BY <1>4, <1>8, <3>1, SumTakeOut
    <3> QED
      BY <1>9, <2>1, <3>2
  <2>5. Units' <= Units
    <3>1. n \in Int /\ count[i] \in Int
      BY <1>5
    <3> HIDE DEF P, R, Q
    <3> QED
      BY <1>9, <1>10, <2>3, <2>4, <3>1
  <2> QED
    BY <2>5 DEF KeepsUnits
<1> QED
  BY <1>12, <1>13

\* The bot's auctions have units made for them.
LEMMA StockKeepsUnits ==
    ASSUME TypeOK, TypeOK', Holding(auctions, auctionItems), Holding(auctions', auctionItems'),
           NEW i \in Items, NEW n \in 1..MaxStack, NEW s \in StartBids, NEW b \in Buyouts,
           addNewAuctions(i, n, s, b)
    PROVE  KeepsUnits
<1> DEFINE P == Items \ Nowhere
           Q == (Items \ Nowhere)'
<1>1. /\ ServerTrades /\ i \in Nowhere /\ count' = [count EXCEPT ![i] = n]
      /\ AddAuction(NewAuction(i, Server, s, b, 0))
      /\ inventory' = inventory /\ mailbox' = mailbox /\ auctionItems' = auctionItems \cup {i}
  BY DEF addNewAuctions, AddAuction, NewAuction
<1>2. /\ i \notin P /\ count'[i] = n
      /\ \A k \in P : count[k] \in Int /\ count'[k] = count[k]
      /\ \A k \in P \cup {i} : count'[k] \in Int
  BY <1>1, AuctionHouseAssumption DEF TypeOK
<1>3. Q = P \cup {i}
  <2>1. P = Places(inventory, mailbox, auctionItems)
    BY PlacesAre
  <2>2. \A k \in Items : k \in auctionItems' <=> \E id \in Live' : auctions'[id].item = k
    BY ConstantTypes DEF Holding, Live, TypeOK
  <2>3. Q = Places(inventory', mailbox', auctionItems')
    BY <2>2 DEF Places, Nowhere
  <2>4. \A k \in Items : k \in Places(inventory', mailbox', auctionItems')
                            <=> k = i \/ k \in Places(inventory, mailbox, auctionItems)
    BY <1>1 DEF Places
  <2> HIDE DEF P, Q
  <2>5. P \subseteq Items /\ Q \subseteq Items
    BY <2>1, <2>3 DEF Places
  <2> QED
    BY <2>1, <2>3, <2>4, <2>5
<1>4. IsFiniteSet(P) /\ IsFiniteSet(P \cup {i})
  <2>1. P \in SUBSET Items /\ P \cup {i} \in SUBSET Items
    OBVIOUS
  <2> QED
    BY <2>1, FS_Subset, AuctionHouseAssumption
<1>5. Units = SumFunctionOnSet(count, P) /\ Units' = SumFunctionOnSet(count', Q)
  BY DEF Units
<1>6. Units' = Units + n
  <2>1. i \in P \cup {i} /\ (P \cup {i}) \ {i} = P
    BY <1>2
  <2> HIDE DEF P, Q
  <2>2. SumFunctionOnSet(count', P \cup {i}) = count'[i] + SumFunctionOnSet(count', (P \cup {i}) \ {i})
    BY <1>2, <1>4, <2>1, SumTakeOut
  <2>3. SumFunctionOnSet(count', P) = SumFunctionOnSet(count, P) /\ SumFunctionOnSet(count, P) \in Int
    BY <1>2, <1>4, SumEqual, SumTakeOut
  <2> QED
    BY <1>2, <1>3, <1>5, <2>1, <2>2, <2>3
<1>7. PutUp(i, Server)
  <2>1. PICK id \in Ids \ Live : auctions' = [auctions EXCEPT ![id] = NewAuction(i, Server, s, b, 0)]
    BY <1>1 DEF AddAuction
  <2>2. auctions'[id] = NewAuction(i, Server, s, b, 0)
    BY <2>1 DEF TypeOK
  <2>3. NewAuction(i, Server, s, b, 0) \in AuctionEntry
    BY NewAuctionType, ConstantTypes DEF Owners
  <2>4. NewAuction(i, Server, s, b, 0).item = i /\ NewAuction(i, Server, s, b, 0).owner = Server
    BY DEF NewAuction
  <2> QED
    BY <1>1, <2>2, <2>3, <2>4, ConstantTypes DEF PutUp
<1> QED
  BY <1>1, <1>2, <1>6, <1>7 DEF KeepsUnits, Stocks

\* Every step without a crash.
LEMMA StepKeepsUnits ==
    ASSUME Crashes = FALSE, TypeOK, TypeOK', AuctionsHoldTheirItems, AuctionsHoldTheirItems',
           ItemsApart, [Next]_vars
    PROVE  KeepsUnits
<1>0. /\ Holding(auctions, auctionItems) /\ Holding(auctions', auctionItems')
      /\ mailbox \in Mailboxes /\ inventory \in [Players -> SUBSET Items]
  <2>1. Holding(auctions, auctionItems)
    BY HoldingPointwise
  <2>2. HoldingInv'
    BY <2>1, HoldingInductive DEF HoldingInv
  <2> QED
    BY <2>1, <2>2 DEF TypeOK, Mailboxes, HoldingInv
<1>1. ASSUME count' = count,
             Places(inventory', mailbox', auctionItems') \subseteq Places(inventory, mailbox, auctionItems)
      PROVE  KeepsUnits
  <2>1. Items \ Nowhere = Places(inventory, mailbox, auctionItems)
    BY <1>0, PlacesAre
  <2>2. \A k \in Items : k \in auctionItems' <=> \E id \in Live' : auctions'[id].item = k
    BY <1>0, ConstantTypes DEF Holding, Live, TypeOK
  <2>3. (Items \ Nowhere)' = Places(inventory', mailbox', auctionItems')
    BY <2>2 DEF Places, Nowhere
  <2>4. (Items \ Nowhere)' \subseteq Items \ Nowhere /\ Items \ Nowhere \in SUBSET Items
    BY <1>1, <2>1, <2>3
  <2>5. Units = SumFunctionOnSet(count, Items \ Nowhere)
        /\ Units' = SumFunctionOnSet(count, (Items \ Nowhere)')
    BY <1>1 DEF Units
  <2> HIDE DEF Nowhere
  <2>6. Units' <= Units
    BY <2>4, <2>5, FewerUnits
  <2> QED
    BY <2>6 DEF KeepsUnits
<1>2. CASE UNCHANGED <<bags, mailbox, auctionItems>>
  BY <1>1, <1>2 DEF bags
<1>3. ASSUME NEW p \in Players, NEW i \in Items, HandleMailTakeItem(p, i)
      PROVE  KeepsUnits
  <2>1. /\ i \in mailbox[p].items /\ auctionItems' = auctionItems /\ count' = count
        /\ inventory'[p] = inventory[p] \cup {i} /\ mailbox'[p].items = mailbox[p].items \ {i}
        /\ \A q \in Players \ {p} :
              inventory'[q] = inventory[q] /\ mailbox'[q].items = mailbox[q].items
    BY <1>0, <1>3 DEF HandleMailTakeItem, house, Mailboxes, Mails
  <2>2. Places(inventory', mailbox', auctionItems') \subseteq Places(inventory, mailbox, auctionItems)
    BY <2>1 DEF Places
  <2> QED
    BY <1>1, <2>1, <2>2
<1>4. ASSUME NEW p \in Players, NEW id \in Ids, HandleAuctionRemoveItem(p, id)
      PROVE  KeepsUnits
  <2> DEFINE m == SendAuctionCancelledToBidderMail(auctions[id])
             i == auctions[id].item
  <2>1. id \in Live /\ {i} \subseteq auctionItems /\ m \in Mailboxes
    BY <1>4, CancelType DEF HandleAuctionRemoveItem, CanRemove
  <2>2. /\ mailbox' = Mailed(m, p, 0, {i}) /\ auctionItems' = auctionItems \ {i}
        /\ inventory' = inventory /\ count' = count
    BY <1>4 DEF HandleAuctionRemoveItem, bags
  <2>3. \A q \in Players : m[q].items = mailbox[q].items
    BY <2>1, RefundsAreGold
  <2> HIDE DEF m, i
  <2>4. Places(inventory, m, auctionItems) = Places(inventory, mailbox, auctionItems)
    BY <2>3, SamePlaces
  <2>5. Places(inventory, Mailed(m, p, 0, {i}), auctionItems \ {i}) \subseteq Places(inventory, m, auctionItems)
    BY <2>1, HousePlaces
  <2> QED
    BY <1>1, <2>2, <2>4, <2>5
<1>5. ASSUME NEW p \in Players, NEW id \in Ids, NEW price \in Prices, HandleAuctionPlaceBid(p, id, price)
      PROVE  KeepsUnits
  <2>1. id \in Live /\ price \in Nat /\ p \in Owners /\ UpdateBid(id, price, p)
    BY <1>5, ConstantTypes DEF HandleAuctionPlaceBid, CanBid, Owners
  <2> QED
    BY <1>1, <2>1, UpdateBidPlaces
<1>6. ASSUME NEW p \in Players, HandleMailTakeMoney(p) \/ LoadMails(p)
      PROVE  KeepsUnits
  <2>1. /\ \A q \in Players : mailbox'[q].items = mailbox[q].items
        /\ inventory' = inventory /\ count' = count /\ auctionItems' = auctionItems
    BY <1>0, <1>6 DEF HandleMailTakeMoney, LoadMails, house, bags, Mailboxes, Mails
  <2> QED
    BY <1>1, <2>1, SamePlaces
<1>7. ASSUME NEW p \in Players, DeleteCharacter(p)
      PROVE  KeepsUnits
  <2>1. /\ inventory'[p] = {} /\ mailbox'[p].items = {} /\ auctionItems' = auctionItems /\ count' = count
        /\ \A q \in Players \ {p} :
              inventory'[q] = inventory[q] /\ mailbox'[q].items = mailbox[q].items
    BY <1>0, <1>7 DEF DeleteCharacter, NoMails, house, Mailboxes
  <2>2. Places(inventory', mailbox', auctionItems') \subseteq Places(inventory, mailbox, auctionItems)
    BY <2>1 DEF Places
  <2> QED
    BY <1>1, <2>1, <2>2
<1>8. ASSUME NEW id \in Ids, HouseStep(id)
      PROVE  KeepsUnits
  <2> DEFINE a == auctions[id]
  <2>1. inventory' = inventory /\ count' = count
    BY <1>8 DEF HouseStep, Update_Won, Update_Expired, Update_Paid, bags
  <2>2. \/ mailbox' = Mailed(mailbox, AsSold(a).bidder, 0, GetAItem(AsSold(a)))
           /\ auctionItems' = auctionItems \ GetAItem(AsSold(a))
        \/ mailbox' = Mailed(mailbox, a.owner, 0, GetAItem(a)) /\ auctionItems' = auctionItems \ GetAItem(a)
        \/ mailbox' = Mailed(mailbox, a.owner, a.bid + a.deposit - GetAuctionCut(a), {})
           /\ auctionItems' = auctionItems \ {}
    BY <1>8 DEF HouseStep, Update_Won, Update_Expired, Update_Paid, AuctionBidWinning,
       SendAuctionWonMail, SendAuctionExpiredMail, SendAuctionSuccessfulMail
  <2>3. GetAItem(a) \subseteq auctionItems /\ GetAItem(AsSold(a)) \subseteq auctionItems
    BY DEF GetAItem
  <2> HIDE DEF a
  <2>4. Places(inventory, mailbox', auctionItems') \subseteq Places(inventory, mailbox, auctionItems)
    BY <1>0, <2>2, <2>3, HousePlaces
  <2> QED
    BY <1>1, <2>1, <2>4
<1>9. CASE BotStep
  <2>1. ASSUME NEW id \in Ids, PlaceBidToEntry(id) \/ BuyEntry(id)
        PROVE  KeepsUnits
    <3>1. id \in Live
      BY <2>1 DEF PlaceBidToEntry, BuyEntry, BotMayBid
    <3>2. PICK n \in Nat : UpdateBid(id, n, Server)
      BY <2>1, <3>1, OutBidIsNat, LiveIsEntry DEF PlaceBidToEntry, BuyEntry
    <3> QED
      BY <1>1, <3>1, <3>2, UpdateBidPlaces DEF Owners
  <2> QED
    BY <1>0, <1>9, <2>1, StockKeepsUnits DEF BotStep
<1>10. ~CrashStep
  BY DEF CrashStep, Crash_Deleting, Crash_Won, Crash_Bidding, Crash_Buyout, Crash_MailsOnly,
         Crash_Selling
<1>11. ASSUME NEW p \in Players, PlayerStep(p)
       PROVE  KeepsUnits
  BY <1>0, <1>3, <1>4, <1>5, <1>6, <1>7, <1>11, SellKeepsUnits DEF PlayerStep
<1>12. CASE UNCHANGED vars \/ \E id \in Ids : TimePasses(id)
  BY <1>2, <1>12 DEF vars, goods, house, TimePasses
<1> QED
  BY <1>8, <1>9, <1>10, <1>11, <1>12 DEF Next

\* As long as the server does not crash, the only steps that make units of an item are
\* the bot's auctions and a sale of more units than the item named has: with those, and
\* with no other splitting, selling, bidding, winning or returning, stacks can be doubled.
THEOREM UnitsKeptCorrect ==
    ASSUME Crashes = FALSE
    PROVE  Spec => UnitsKept
<1>1. TypeOK /\ TypeOK' /\ AuctionsHoldTheirItems /\ AuctionsHoldTheirItems' /\ ItemsApart /\ [Next]_vars
         => [KeepsUnits]_vars
  BY StepKeepsUnits
<1>2. UnitsKept <=> [][KeepsUnits]_vars
  BY PTL DEF UnitsKept, KeepsUnits
<1> QED
  BY <1>1, <1>2, TypeCorrect, HoldingCorrect, ItemsApartCorrect, PTL DEF Spec

(***************************************************************************)
(* Bids.  A bid is clamped to the buyout, so that it may only be said to   *)
(* rise because the last one was not above the buyout either.              *)
(***************************************************************************)
BidsInv == \A id \in Live : auctions[id].buyout # 0 => auctions[id].bid <= auctions[id].buyout

\* What a step without the bot may do to an auction.
OnlyRises(old, new) ==
    /\ new.buyout = old.buyout
    /\ new.bid \in Nat /\ new.bid >= old.bid
    /\ new.buyout # 0 => new.bid <= new.buyout

\* A player's bid is more than the last one, or the buyout.
LEMMA WithBidRises ==
    ASSUME TypeOK, BidsInv, NEW id \in Live, NEW p \in Owners, NEW n \in Nat, n > auctions[id].bid
    PROVE  OnlyRises(auctions[id], WithBid(auctions[id], p, n))
<1> DEFINE a == auctions[id]
<1>1. a \in AuctionEntry /\ a.bid \in Nat /\ a.buyout \in Nat /\ (a.buyout # 0 => a.bid <= a.buyout)
  BY LiveIsEntry DEF BidsInv
<1>2. WithBid(a, p, n).bid = Clamped(a, n) /\ WithBid(a, p, n).buyout = a.buyout
  BY <1>1 DEF WithBid, AuctionEntry
<1> QED
  BY <1>1, <1>2 DEF OnlyRises, Clamped

\* A sale changes neither the bid nor the buyout.
LEMMA SaleRises ==
    ASSUME NEW old, NEW a \in AuctionEntry, OnlyRises(old, a)
    PROVE  /\ OnlyRises(old, WithoutItem(AsSold(a)))
           /\ OnlyRises(old, [AsSold(a) EXCEPT !.item = NULL])
           /\ OnlyRises(old, [a EXCEPT !.due = TRUE])
<1>1. AsSold(a).bid = a.bid /\ AsSold(a).buyout = a.buyout /\ AsSold(a) \in AuctionEntry
  BY EntryTypes DEF AsSold, AuctionEntry
<1>2. /\ WithoutItem(AsSold(a)).bid = a.bid /\ WithoutItem(AsSold(a)).buyout = a.buyout
      /\ [AsSold(a) EXCEPT !.item = NULL].bid = a.bid
      /\ [AsSold(a) EXCEPT !.item = NULL].buyout = a.buyout
      /\ [a EXCEPT !.due = TRUE].bid = a.bid /\ [a EXCEPT !.due = TRUE].buyout = a.buyout
  BY <1>1 DEF WithoutItem, AuctionEntry
<1> QED
  BY <1>2 DEF OnlyRises

\* Without the bot every step leaves every auction as it is, ends it, starts it
\* without a bid or raises its bid.
LEMMA StepRises ==
    ASSUME ServerTrades = FALSE, TypeOK, BidsInv, [Next]_vars
    PROVE  \/ UNCHANGED auctions
           \/ \E id \in Ids : /\ auctions' = [auctions EXCEPT ![id] = auctions'[id]]
                              /\ \/ auctions'[id] = NULL
                                 \/ auctions[id] = NULL /\ auctions'[id].bid = 0 /\ auctions'[id].buyout \in Nat
                                 \/ id \in Live /\ OnlyRises(auctions[id], auctions'[id])
<1> DEFINE Change(id) ==
        /\ auctions' = [auctions EXCEPT ![id] = auctions'[id]]
        /\ \/ auctions'[id] = NULL
           \/ auctions[id] = NULL /\ auctions'[id].bid = 0 /\ auctions'[id].buyout \in Nat
           \/ id \in Live /\ OnlyRises(auctions[id], auctions'[id])
<1>1. ASSUME NEW id \in Live, NEW e, auctions' = [auctions EXCEPT ![id] = e],
             OnlyRises(auctions[id], e)
      PROVE  Change(id)
  BY <1>1 DEF TypeOK, Live
<1>2. ASSUME NEW id \in Live PROVE OnlyRises(auctions[id], auctions[id])
  BY LiveIsEntry DEF OnlyRises, BidsInv
<1>3. ASSUME NEW id \in Live, NEW a \in AuctionEntry, NEW m, OnlyRises(auctions[id], a),
             AuctionBidWinning(id, a, m)
      PROVE  Change(id)
  BY <1>1, <1>3, SaleRises DEF AuctionBidWinning, SendAuctionWonMail
<1>4. ASSUME NEW id \in Live, NEW a \in AuctionEntry, NEW m, NEW g, OnlyRises(auctions[id], a),
             Crash_Selling(id, a, m, g)
      PROVE  Change(id)
  BY <1>1, <1>4, SaleRises DEF Crash_Selling
<1>5. ASSUME NEW p \in Players, NEW i \in Items, NEW n \in 1..MaxStack, NEW s \in StartBids,
             NEW b \in Buyouts, HandleAuctionSellItem(p, i, n, s, b)
      PROVE  \E id \in Ids : Change(id)
  <2>1. PICK j \in Nowhere, id \in Ids \ Live :
            auctions' = [auctions EXCEPT ![id] = NewAuction(j, p, s, b, Deposit)]
    BY <1>5 DEF HandleAuctionSellItem, AddAuction
  <2>2. auctions[id] = NULL /\ auctions'[id].bid = 0 /\ auctions'[id].buyout \in Nat
         /\ auctions' = [auctions EXCEPT ![id] = auctions'[id]]
    BY <2>1, ConstantTypes DEF Live, TypeOK, NewAuction
  <2> QED
    BY <2>2
<1>6. ASSUME NEW p \in Players, NEW id \in Ids, NEW price \in Prices,
             HandleAuctionPlaceBid(p, id, price) \/ Crash_Buyout(p, id, price)
      PROVE  Change(id)
  <2> DEFINE a == WithBid(auctions[id], p, price)
  <2>1. id \in Live /\ price \in Nat /\ price > auctions[id].bid /\ p \in Owners
    BY <1>6, ConstantTypes DEF HandleAuctionPlaceBid, Crash_Buyout, CanBid, Owners
  <2>2. a \in AuctionEntry /\ OnlyRises(auctions[id], a)
    BY <2>1, LiveIsEntry, EntryTypes, WithBidRises
  <2>3. \/ auctions' = [auctions EXCEPT ![id] = a]
        \/ AuctionBidWinning(id, a, Refunded(auctions[id], p, price))
        \/ Crash_Selling(id, a, Refunded(auctions[id], p, price),
                          Paid(p, Charged(auctions[id], p, price)))
    BY <1>6 DEF HandleAuctionPlaceBid, UpdateBid, Crash_Buyout
  <2> HIDE DEF a, Change
  <2> QED
    BY <2>1, <2>2, <2>3, <1>1, <1>3, <1>4
<1>7. ASSUME NEW id \in Ids, auctions' = [auctions EXCEPT ![id] = NULL]
      PROVE  Change(id)
  BY <1>7 DEF TypeOK
<1>8. ASSUME NEW id \in Ids, TimePasses(id) \/ Update_Won(id) \/ Crash_Won(id)
      PROVE  Change(id)
  <2>1. id \in Live /\ auctions[id] \in AuctionEntry /\ OnlyRises(auctions[id], auctions[id])
    BY <1>2, <1>8, LiveIsEntry DEF TimePasses, Update_Won, Crash_Won, Expiring
  <2>2. CASE TimePasses(id)
    <3>1. auctions' = [auctions EXCEPT ![id] = [auctions[id] EXCEPT !.due = TRUE]]
      BY <2>2 DEF TimePasses
    <3> QED
      BY <1>1, <2>1, <3>1, SaleRises
  <2>3. CASE Update_Won(id)
    BY <1>3, <2>1, <2>3 DEF Update_Won
  <2>4. CASE Crash_Won(id)
    BY <1>4, <2>1, <2>4 DEF Crash_Won
  <2> QED
    BY <1>8, <2>2, <2>3, <2>4
<1> HIDE DEF Change
<1>9. ~BotStep
  BY DEF BotStep, BotMayBid, PlaceBidToEntry, BuyEntry, addNewAuctions
<1>10. UNCHANGED auctions \/ \E id \in Ids : Change(id)
  <2>1. CASE UNCHANGED vars
    BY <2>1 DEF vars, house
  <2>2. ASSUME NEW p \in Players, PlayerStep(p)
        PROVE  UNCHANGED auctions \/ \E id \in Ids : Change(id)
    BY <2>2, <1>5, <1>6, <1>7 DEF PlayerStep, HandleMailTakeItem, HandleMailTakeMoney,
       LoadMails, DeleteCharacter, HandleAuctionRemoveItem, house
  <2>3. ASSUME NEW id \in Ids, TimePasses(id) \/ HouseStep(id)
        PROVE  UNCHANGED auctions \/ \E o \in Ids : Change(o)
    BY <2>3, <1>7, <1>8 DEF HouseStep, Update_Expired, Update_Paid
  <2>4. CASE CrashStep
    BY <2>4, <1>6, <1>8 DEF CrashStep, Crash_Deleting, Crash_Bidding, Crash_MailsOnly
  <2> QED
    BY <2>1, <2>2, <2>3, <2>4, <1>9 DEF Next
<1> QED
  BY <1>10 DEF Change

\* Without the bot the current bid of an auction only rises: no client's bid, late
\* or in time, and no crash replaces a bid by a lower one.
THEOREM BidsOnlyRiseCorrect ==
    ASSUME ServerTrades = FALSE
    PROVE  Spec => BidsOnlyRise
<1> DEFINE Rise == \A id \in Ids :
               id \in Live /\ auctions'[id] # NULL => auctions'[id].bid >= auctions[id].bid
<1>1. Init => BidsInv
  BY DEF Init, BidsInv, Live
<1>2. TypeOK /\ BidsInv /\ [Next]_vars => BidsInv' /\ Rise
  <2> SUFFICES ASSUME TypeOK, BidsInv, [Next]_vars PROVE BidsInv' /\ Rise
    OBVIOUS
  <2>1. \A id \in Live : auctions[id].bid \in Nat /\ auctions[id].buyout \in Nat
    BY LiveIsEntry
  <2>2. CASE UNCHANGED auctions
    BY <2>1, <2>2 DEF BidsInv, Live
  <2>3. ASSUME NEW id \in Ids, auctions' = [auctions EXCEPT ![id] = auctions'[id]],
               \/ auctions'[id] = NULL
               \/ auctions[id] = NULL /\ auctions'[id].bid = 0 /\ auctions'[id].buyout \in Nat
               \/ id \in Live /\ OnlyRises(auctions[id], auctions'[id])
        PROVE  BidsInv' /\ Rise
    <3>1. \A o \in Ids \ {id} : auctions'[o] = auctions[o]
      BY <2>3 DEF TypeOK
    <3> QED
      BY <2>1, <2>3, <3>1 DEF BidsInv, Live, OnlyRises
  <2> QED
    BY <2>2, <2>3, StepRises
<1>3. Spec => [][Rise]_vars
  BY <1>1, <1>2, TypeCorrect, PTL DEF Spec
<1> QED
  BY <1>3, PTL DEF BidsOnlyRise

(***************************************************************************)
(* Two more invariants the sums of gold need.  No bid is above its         *)
(* auction's buyout (BidsInv), so nobody is ever paid for bidding.  No     *)
(* player is above the limit, and no mail shows less gold than it has.     *)
(***************************************************************************)
\* The auction after a bid, and what of it is open.
LEMMA BidOpens ==
    ASSUME TypeOK, NEW id \in Live, NEW b \in Owners, NEW n \in Nat
    PROVE  LET a == WithBid(auctions[id], b, n)
           IN  /\ a \in AuctionEntry /\ a.bidder = b /\ a.bid = Clamped(auctions[id], n)
               /\ a.sold = auctions[id].sold /\ a.item = auctions[id].item
               /\ a.buyout = auctions[id].buyout
               /\ WithoutItem(AsSold(a)) \in AuctionEntry
               /\ WithoutItem(AsSold(a)).bidder = b /\ WithoutItem(AsSold(a)).sold
               /\ WithoutItem(AsSold(a)).bid = a.bid /\ WithoutItem(AsSold(a)).buyout = a.buyout
<1> DEFINE a == WithBid(auctions[id], b, n)
<1>1. a \in AuctionEntry /\ AsSold(a) \in AuctionEntry /\ WithoutItem(AsSold(a)) \in AuctionEntry
  BY LiveIsEntry, EntryTypes
<1>2. /\ a.bidder = b /\ a.bid = Clamped(auctions[id], n) /\ a.sold = auctions[id].sold
      /\ a.item = auctions[id].item /\ a.buyout = auctions[id].buyout
  BY LiveIsEntry DEF WithBid, AuctionEntry
<1> HIDE DEF a
<1>3. /\ WithoutItem(AsSold(a)).bidder = a.bidder /\ WithoutItem(AsSold(a)).sold
      /\ WithoutItem(AsSold(a)).bid = a.bid /\ WithoutItem(AsSold(a)).buyout = a.buyout
  BY <1>1 DEF WithoutItem, AsSold, AuctionEntry
<1> QED
  BY <1>1, <1>2, <1>3 DEF a

\* No step puts a bid above its auction's buyout, not even the bot's.
Within(e) == e = NULL \/ (e.buyout # 0 => e.bid <= e.buyout)

LEMMA BidsStay ==
    ASSUME TypeOK, BidsInv, [Next]_vars
    PROVE  BidsInv'
<1>1. \A id \in Ids : Within(auctions[id])
  BY DEF BidsInv, Within, Live
<1>2. CASE UNCHANGED auctions
  BY <1>2 DEF BidsInv, Live
<1>3. ASSUME NEW id \in Ids, NEW e, Within(e), auctions' = [auctions EXCEPT ![id] = e]
      PROVE  BidsInv'
  BY <1>1, <1>3 DEF BidsInv, Live, Within, TypeOK
<1>4. ASSUME NEW id \in Ids, auctions' = [auctions EXCEPT ![id] = NULL]
      PROVE  BidsInv'
  BY <1>3, <1>4 DEF Within
<1>5. ASSUME NEW a, a.bid = 0, a.buyout \in Nat, AddAuction(a)
      PROVE  BidsInv'
  <2>1. PICK id \in Ids \ Live : auctions' = [auctions EXCEPT ![id] = a]
    BY <1>5 DEF AddAuction
  <2>2. Within(a)
    BY <1>5 DEF Within
  <2> QED
    BY <1>3, <2>1, <2>2
<1>6. ASSUME NEW id \in Live, NEW a \in AuctionEntry, Within(a),
             \/ \E m : AuctionBidWinning(id, a, m)
             \/ \E m, g : Crash_Selling(id, a, m, g)
             \/ auctions' = [auctions EXCEPT ![id] = a]
             \/ auctions' = [auctions EXCEPT ![id] = [a EXCEPT !.due = TRUE]]
      PROVE  BidsInv'
  <2>1. PICK e \in {WithoutItem(AsSold(a)), [AsSold(a) EXCEPT !.item = NULL], a, [a EXCEPT !.due = TRUE]} :
            auctions' = [auctions EXCEPT ![id] = e]
    BY <1>6 DEF AuctionBidWinning, SendAuctionWonMail, Crash_Selling
  <2>2. e \in AuctionEntry /\ AsSold(a) \in AuctionEntry
    BY <2>1, EntryTypes
  <2>3. AsSold(a).bid = a.bid /\ AsSold(a).buyout = a.buyout
    BY DEF AsSold, AuctionEntry
  <2>4. e.bid = a.bid /\ e.buyout = a.buyout
    BY <2>1, <2>2, <2>3 DEF WithoutItem, AuctionEntry
  <2>5. Within(e)
    BY <1>6, <2>4, ConstantTypes DEF Within
  <2> QED
    BY <1>3, <2>1, <2>5 DEF Live
<1>7. ASSUME NEW id \in Live, NEW b \in Owners, NEW n \in Nat,
             \/ UpdateBid(id, n, b)
             \/ \E m, g : Crash_Selling(id, WithBid(auctions[id], b, n), m, g)
      PROVE  BidsInv'
  <2> DEFINE a == WithBid(auctions[id], b, n)
  <2>1. a \in AuctionEntry /\ a.bid = Clamped(auctions[id], n) /\ a.buyout = auctions[id].buyout
    BY BidOpens
  <2>2. Within(a)
    BY <2>1, LiveIsEntry DEF Within, Clamped
  <2>3. \/ \E m : AuctionBidWinning(id, a, m)
        \/ \E m, g : Crash_Selling(id, a, m, g)
        \/ auctions' = [auctions EXCEPT ![id] = a]
    BY <1>7 DEF UpdateBid
  <2> HIDE DEF a
  <2> QED
    BY <1>6, <2>1, <2>2, <2>3
<1>8. ASSUME NEW p \in Players, PlayerStep(p)
      PROVE  BidsInv'
  <2>1. ASSUME NEW i \in Items, NEW n \in 1..MaxStack, NEW s \in StartBids, NEW b \in Buyouts,
               HandleAuctionSellItem(p, i, n, s, b)
        PROVE  BidsInv'
    <3>1. PICK j \in Nowhere : AddAuction(NewAuction(j, p, s, b, Deposit))
      BY <2>1 DEF HandleAuctionSellItem
    <3> QED
      BY <1>5, <3>1, ConstantTypes DEF NewAuction
  <2>2. ASSUME NEW id \in Ids, NEW price \in Prices, HandleAuctionPlaceBid(p, id, price)
        PROVE  BidsInv'
    BY <1>7, <2>2, ConstantTypes DEF HandleAuctionPlaceBid, CanBid, Owners
  <2> QED
    BY <1>2, <1>4, <1>8, <2>1, <2>2 DEF PlayerStep, HandleMailTakeItem, HandleMailTakeMoney,
       LoadMails, DeleteCharacter, HandleAuctionRemoveItem, house
<1>9. ASSUME NEW id \in Ids, TimePasses(id) \/ HouseStep(id) \/ Crash_Won(id)
      PROVE  BidsInv'
  <2>1. id \in Live /\ auctions[id] \in AuctionEntry /\ Within(auctions[id])
    BY <1>1, <1>9, LiveIsEntry DEF TimePasses, HouseStep, Update_Won, Update_Expired, Update_Paid,
       Crash_Won, Expiring, Sold
  <2>2. \/ \E m : AuctionBidWinning(id, auctions[id], m)
        \/ \E m, g : Crash_Selling(id, auctions[id], m, g)
        \/ auctions' = [auctions EXCEPT ![id] = [auctions[id] EXCEPT !.due = TRUE]]
        \/ auctions' = [auctions EXCEPT ![id] = NULL]
    BY <1>9 DEF TimePasses, HouseStep, Update_Won, Update_Expired, Update_Paid, Crash_Won
  <2> QED
    BY <1>4, <1>6, <2>1, <2>2
<1>10. CASE BotStep
  <2>1. ASSUME NEW id \in Ids, PlaceBidToEntry(id) \/ BuyEntry(id)
        PROVE  BidsInv'
    <3>1. id \in Live
      BY <2>1 DEF PlaceBidToEntry, BuyEntry, BotMayBid
    <3>2. PICK n \in Nat : UpdateBid(id, n, Server)
      BY <2>1, <3>1, OutBidIsNat, LiveIsEntry DEF PlaceBidToEntry, BuyEntry
    <3> QED
      BY <1>7, <3>1, <3>2 DEF Owners
  <2>2. ASSUME NEW i \in Items, NEW n \in 1..MaxStack, NEW s \in StartBids, NEW b \in Buyouts,
               addNewAuctions(i, n, s, b)
        PROVE  BidsInv'
    BY <1>5, <2>2, ConstantTypes DEF addNewAuctions, NewAuction
  <2> QED
    BY <1>10, <2>1, <2>2 DEF BotStep
<1>11. CASE CrashStep
  <2>1. ASSUME NEW id \in Ids, NEW p \in Players, NEW price \in Prices, Crash_Buyout(p, id, price)
        PROVE  BidsInv'
    BY <1>7, <2>1, ConstantTypes DEF Crash_Buyout, CanBid, Owners
  <2>2. ASSUME NEW id \in Ids,
               \/ Crash_Deleting(id)
               \/ \E p \in Players, price \in Prices : Crash_Bidding(p, id, price)
        PROVE  BidsInv'
    BY <1>2, <2>2 DEF Crash_Deleting, Crash_Bidding, Crash_MailsOnly
  <2> QED
    BY <1>9, <1>11, <2>1, <2>2 DEF CrashStep
<1> QED
  BY <1>2, <1>8, <1>9, <1>10, <1>11 DEF Next, vars, house

\* No mail has more gold stored than it shows.
Covered(m) == \A p \in Players : m[p].stored <= m[p].gold

LimitsInv == Covered(mailbox) /\ \A p \in Players : gold[p] <= MaxGold

LEMMA MailedCovers ==
    ASSUME NEW m \in Mailboxes, Covered(m), NEW p \in Owners, NEW n \in Nat, NEW I \in SUBSET Items
    PROVE  Covered(Mailed(m, p, n, I))
<1> DEFINE r == Mailed(m, p, n, I)
<1>1. InColumn(n) \in Nat /\ InColumn(n) <= n
  BY InColumnIs
<1>2. ASSUME NEW q \in Players
      PROVE  \/ r[q].gold = m[q].gold /\ r[q].stored = m[q].stored
             \/ r[q].gold = m[q].gold + n /\ r[q].stored = m[q].stored + InColumn(n)
  BY DEF Mailed, Mailboxes
<1> HIDE DEF r
<1>3. ASSUME NEW q \in Players
      PROVE  r[q].stored <= r[q].gold
  <2>1. m[q].gold \in Nat /\ m[q].stored \in Nat /\ m[q].stored <= m[q].gold
    BY DEF Mailboxes, Mails, Covered
  <2> QED
    BY <1>1, <1>2, <2>1
<1> QED
  BY <1>3 DEF Covered, r

LEMMA ReloadedCovers ==
    ASSUME NEW m \in Mailboxes
    PROVE  Covered(Reloaded(m))
<1>1. ASSUME NEW p \in Players
      PROVE  Reloaded(m)[p].stored <= Reloaded(m)[p].gold
  <2>1. Reloaded(m)[p].gold = m[p].stored /\ Reloaded(m)[p].stored = m[p].stored
    BY ReloadedIs
  <2>2. m[p].stored \in Nat
    BY DEF Mailboxes, Mails
  <2> QED
    BY <2>1, <2>2
<1> QED
  BY <1>1 DEF Covered

\* A bidder pays, if anything.
LEMMA BidCosts ==
    ASSUME TypeOK, BidsInv, NEW id \in Live, NEW b \in Owners, NEW n \in Nat,
           b # Server => n > auctions[id].bid,
           gold' = Paid(b, Charged(auctions[id], b, n))
    PROVE  \A p \in Players : gold'[p] <= gold[p]
<1> DEFINE a == auctions[id]
           c == Charged(a, b, n)
<1>1. /\ a.bid \in Nat /\ a.buyout \in Nat /\ (a.buyout # 0 => a.bid <= a.buyout)
      /\ gold \in [Players -> Nat]
  BY LiveIsEntry DEF BidsInv, TypeOK
<1>2. CASE b = Server
  BY <1>1, <1>2 DEF Paid
<1>3. CASE b # Server
  <2>1. Clamped(a, n) \in Nat /\ Clamped(a, n) >= a.bid
    BY <1>1, <1>3 DEF Clamped
  <2>2. c \in Nat
    BY <1>1, <1>3, <2>1 DEF Charged
  <2>3. gold' = [gold EXCEPT ![b] = @ - c]
    BY <1>3 DEF Paid
  <2> HIDE DEF c
  <2> QED
    BY <1>1, <2>2, <2>3
<1> QED
  BY <1>2, <1>3

\* The mails of a bid.
LEMMA BidCovers ==
    ASSUME TypeOK, LimitsInv, NEW id \in Live, NEW b \in Owners, NEW n \in Nat, UpdateBid(id, n, b)
    PROVE  Covered(mailbox')
<1> DEFINE a == WithBid(auctions[id], b, n)
           m == Refunded(auctions[id], b, n)
<1>1. mailbox \in Mailboxes /\ Covered(mailbox) /\ {} \in SUBSET Items
  BY DEF TypeOK, Mailboxes, LimitsInv
<1>2. m \in Mailboxes /\ Covered(m)
  <2>1. m \in Mailboxes
    BY RefundedType
  <2>2. auctions[id].bidder \in Owners /\ auctions[id].bid \in Nat
    BY LiveIsEntry
  <2>3. Covered(Mailed(mailbox, auctions[id].bidder, auctions[id].bid, {}))
    BY <1>1, <2>2, MailedCovers
  <2> QED
    BY <1>1, <2>1, <2>3 DEF Refunded, SendAuctionOutbiddedMail
<1>3. mailbox' = m \/ AuctionBidWinning(id, a, m)
  BY DEF UpdateBid
<1>4. AsSold(a).bidder \in Owners /\ GetAItem(AsSold(a)) \in SUBSET Items
  <2>1. AsSold(a) \in AuctionEntry
    BY LiveIsEntry, EntryTypes
  <2> HIDE DEF a
  <2> QED
    BY <2>1 DEF AuctionEntry, Owners, GetAItem, TypeOK
<1> HIDE DEF a, m
<1>5. Covered(Mailed(m, AsSold(a).bidder, 0, GetAItem(AsSold(a))))
  BY <1>2, <1>4, MailedCovers
<1> QED
  BY <1>2, <1>3, <1>5 DEF AuctionBidWinning, SendAuctionWonMail

\* No step brings a player above the limit or stores more than a mail shows.
LEMMA LimitsStay ==
    ASSUME TypeOK, TypeOK', BidsInv, LimitsInv, [Next]_vars
    PROVE  LimitsInv'
<1>1. /\ mailbox \in Mailboxes /\ Covered(mailbox) /\ gold \in [Players -> Nat] /\ gold' \in [Players -> Nat]
      /\ \A p \in Players : gold[p] <= MaxGold
      /\ MaxGold \in Nat /\ 0 \in Nat /\ {} \in SUBSET Items
  BY ConstantTypes DEF TypeOK, Mailboxes, LimitsInv
<1>2. ASSUME \A p \in Players : gold'[p] <= gold[p], Covered(mailbox')
      PROVE  LimitsInv'
  <2>1. \A p \in Players : gold'[p] <= MaxGold
    BY <1>1, <1>2
  <2> QED
    BY <1>2, <2>1 DEF LimitsInv, Covered
<1>3. ASSUME gold' = gold, Covered(mailbox')
      PROVE  LimitsInv'
  BY <1>1, <1>2, <1>3
<1>4. ASSUME gold' = gold, mailbox' = mailbox
      PROVE  LimitsInv'
  BY <1>1, <1>3, <1>4
<1>5. ASSUME gold' = gold, NEW m \in Mailboxes, Covered(m), NEW p \in Owners, NEW n \in Nat,
             NEW I \in SUBSET Items, mailbox' = Mailed(m, p, n, I)
      PROVE  LimitsInv'
  BY <1>3, <1>5, MailedCovers
<1>6. ASSUME NEW id \in Live, NEW b \in Owners, NEW n \in Nat, b # Server => n > auctions[id].bid,
             UpdateBid(id, n, b)
      PROVE  LimitsInv'
  <2>1. gold' = Paid(b, Charged(auctions[id], b, n))
    BY <1>6 DEF UpdateBid
  <2>2. \A p \in Players : gold'[p] <= gold[p]
    BY <1>6, <2>1, BidCosts
  <2>3. Covered(mailbox')
    BY <1>6, BidCovers
  <2> QED
    BY <1>2, <2>2, <2>3
<1>7. ASSUME NEW m \in Mailboxes, mailbox' = Reloaded(m), \A p \in Players : gold'[p] <= gold[p]
      PROVE  LimitsInv'
  BY <1>2, <1>7, ReloadedCovers
<1>8. ASSUME NEW p \in Players, PlayerStep(p)
      PROVE  LimitsInv'
  <2>1. ASSUME NEW i \in Items, HandleMailTakeItem(p, i) PROVE LimitsInv'
    <3>1. \A q \in Players : /\ mailbox'[q].gold = mailbox[q].gold
                             /\ mailbox'[q].stored = mailbox[q].stored
      BY <1>1, <2>1 DEF HandleMailTakeItem, Mailboxes
    <3>2. Covered(mailbox')
      BY <1>1, <3>1 DEF Covered
    <3> QED
      BY <1>3, <2>1, <3>2 DEF HandleMailTakeItem
  <2>2. ASSUME NEW i \in Items, NEW n \in 1..MaxStack, NEW s \in StartBids, NEW b \in Buyouts,
               HandleAuctionSellItem(p, i, n, s, b)
        PROVE  LimitsInv'
    <3>1. mailbox' = mailbox /\ gold' = [gold EXCEPT ![p] = @ - Deposit]
      BY <2>2 DEF HandleAuctionSellItem
    <3>2. \A q \in Players : gold'[q] <= gold[q]
      BY <1>1, <3>1, ConstantTypes
    <3> QED
      BY <1>1, <1>2, <3>1, <3>2
  <2>3. ASSUME NEW id \in Ids, HandleAuctionRemoveItem(p, id) PROVE LimitsInv'
    <3> DEFINE a == auctions[id]
               m == SendAuctionCancelledToBidderMail(a)
    <3>1. /\ id \in Live /\ a \in AuctionEntry /\ a.bid \in Nat /\ a.bidder \in Owners
          /\ m \in Mailboxes /\ {a.item} \in SUBSET Items /\ GetAuctionCut(a) \in Nat
      <4>1. /\ id \in Live /\ m \in Mailboxes /\ {a.item} \in SUBSET Items
        BY <2>3, CancelType DEF HandleAuctionRemoveItem
      <4>2. a \in AuctionEntry /\ a.bid \in Nat /\ a.bidder \in Owners /\ GetAuctionCut(a) \in 0..a.bid
        BY <4>1, LiveIsEntry, CutBounded
      <4> HIDE DEF a, m
      <4> QED
        BY <4>1, <4>2
    <3>2. mailbox' = Mailed(m, p, 0, {a.item}) /\ p \in Owners
      BY <2>3 DEF HandleAuctionRemoveItem, Owners
    <3>3. Covered(Mailed(mailbox, a.bidder, a.bid, {}))
      BY <1>1, <3>1, MailedCovers
    <3>4. Covered(m)
      BY <1>1, <3>3 DEF SendAuctionCancelledToBidderMail
    <3>5. Covered(mailbox')
      <4> HIDE DEF a, m
      <4> QED
        BY <1>1, <3>1, <3>2, <3>4, MailedCovers
    <3>6. gold' = [gold EXCEPT ![p] = @ - GetAuctionCut(a)] \/ gold' = gold
      BY <2>3 DEF HandleAuctionRemoveItem
    <3>7. \A q \in Players : gold'[q] <= gold[q]
      <4> HIDE DEF a, m
      <4> QED
        BY <1>1, <3>1, <3>6
    <3> QED
      BY <1>2, <3>5, <3>7
  <2>4. ASSUME NEW id \in Ids, NEW price \in Prices, HandleAuctionPlaceBid(p, id, price)
        PROVE  LimitsInv'
    <3>1. /\ id \in Live /\ price \in Nat /\ price > auctions[id].bid /\ p \in Owners
          /\ UpdateBid(id, price, p)
      BY <2>4, ConstantTypes DEF HandleAuctionPlaceBid, CanBid, Owners
    <3> QED
      BY <1>6, <3>1
  <2>5. CASE HandleMailTakeMoney(p)
    <3> DEFINE n == mailbox[p].gold
    <3>1. /\ gold' = [gold EXCEPT ![p] = Receive(@, n)] /\ n \in Nat
          /\ mailbox' = [mailbox EXCEPT ![p].gold = 0, ![p].stored = 0]
      BY <1>1, <2>5 DEF HandleMailTakeMoney, Mailboxes, Mails
    <3>2. \A q \in Players : \/ mailbox'[q].gold = mailbox[q].gold /\ mailbox'[q].stored = mailbox[q].stored
                             \/ mailbox'[q].gold = 0 /\ mailbox'[q].stored = 0
      BY <1>1, <3>1 DEF Mailboxes, Mails
    <3>3. Covered(mailbox')
      BY <1>1, <3>2 DEF Covered
    <3>4. gold[p] \in Nat /\ Receive(gold[p], n) <= MaxGold
      BY <1>1, <3>1, ReceiveIs
    <3>5. \A q \in Players : gold'[q] = gold[q] \/ gold'[q] = Receive(gold[p], n)
      BY <1>1, <3>1
    <3>6. \A q \in Players : gold'[q] <= MaxGold
      <4> HIDE DEF n
      <4> QED
        BY <1>1, <3>4, <3>5
    <3> QED
      BY <3>3, <3>6 DEF LimitsInv, Covered
  <2>6. CASE LoadMails(p)
    <3>1. \A q \in Players : /\ mailbox'[q].stored = mailbox[q].stored
                             /\ mailbox'[q].gold = mailbox[q].gold \/ mailbox'[q].gold = mailbox[q].stored
      BY <1>1, <2>6 DEF LoadMails, Mailboxes, Mails
    <3>2. \A q \in Players : mailbox[q].stored \in Nat
      BY <1>1 DEF Mailboxes, Mails
    <3>3. Covered(mailbox')
      BY <1>1, <3>1, <3>2 DEF Covered
    <3> QED
      BY <1>3, <2>6, <3>3 DEF LoadMails
  <2>7. CASE DeleteCharacter(p)
    <3>1. /\ gold' = [gold EXCEPT ![p] = 0] /\ mailbox' = [mailbox EXCEPT ![p] = NoMails]
      BY <2>7 DEF DeleteCharacter
    <3>2. \A q \in Players : gold'[q] <= gold[q]
      BY <1>1, <3>1
    <3>3. \A q \in Players : \/ mailbox'[q] = mailbox[q]
                             \/ mailbox'[q].gold = 0 /\ mailbox'[q].stored = 0
      BY <1>1, <3>1 DEF Mailboxes, NoMails
    <3>4. Covered(mailbox')
      BY <1>1, <3>3 DEF Covered
    <3> QED
      BY <1>2, <3>2, <3>4
  <2> QED
    BY <1>8, <2>1, <2>2, <2>3, <2>4, <2>5, <2>6, <2>7 DEF PlayerStep
<1>9. ASSUME NEW id \in Ids, HouseStep(id)
      PROVE  LimitsInv'
  <2> DEFINE a == auctions[id]
  <2>1. /\ id \in Live /\ a \in AuctionEntry /\ gold' = gold
        /\ a.owner \in Owners /\ GetAItem(a) \in SUBSET Items
        /\ AsSold(a).bidder \in Owners /\ GetAItem(AsSold(a)) \in SUBSET Items
        /\ a.bid + a.deposit - GetAuctionCut(a) \in Nat
    <3>1. id \in Live /\ gold' = gold
      BY <1>9 DEF HouseStep, Update_Won, Update_Expired, Update_Paid, Expiring, Sold
    <3>2. a \in AuctionEntry
      BY <3>1, LiveIsEntry
    <3>3. AsSold(a) \in AuctionEntry
      BY <3>2, EntryTypes
    <3>4. a.bid \in Nat /\ a.deposit \in Nat /\ GetAuctionCut(a) \in 0..a.bid
      BY <3>2, CutBounded DEF AuctionEntry
    <3>5. a.owner \in Owners /\ AsSold(a).bidder \in Owners
      BY <3>2, <3>3 DEF AuctionEntry, Owners
    <3>6. GetAItem(a) \in SUBSET Items /\ GetAItem(AsSold(a)) \in SUBSET Items
      BY DEF GetAItem, TypeOK
    <3> HIDE DEF a
    <3> QED
      BY <3>1, <3>2, <3>4, <3>5, <3>6
  <2>2. \/ mailbox' = Mailed(mailbox, AsSold(a).bidder, 0, GetAItem(AsSold(a)))
        \/ mailbox' = Mailed(mailbox, a.owner, 0, GetAItem(a))
        \/ mailbox' = Mailed(mailbox, a.owner, a.bid + a.deposit - GetAuctionCut(a), {})
    BY <1>9 DEF HouseStep, Update_Won, Update_Expired, Update_Paid, AuctionBidWinning,
       SendAuctionWonMail, SendAuctionExpiredMail, SendAuctionSuccessfulMail
  <2> HIDE DEF a
  <2> QED
    BY <1>1, <1>5, <2>1, <2>2
<1>10. CASE BotStep
  <2>1. ASSUME NEW id \in Ids, PlaceBidToEntry(id) \/ BuyEntry(id)
        PROVE  LimitsInv'
    <3>1. id \in Live
      BY <2>1 DEF PlaceBidToEntry, BuyEntry, BotMayBid
    <3>2. PICK n \in Nat : UpdateBid(id, n, Server)
      BY <2>1, <3>1, OutBidIsNat, LiveIsEntry DEF PlaceBidToEntry, BuyEntry
    <3> QED
      BY <1>6, <3>1, <3>2 DEF Owners
  <2> QED
    BY <1>4, <1>10, <2>1 DEF BotStep, addNewAuctions
<1>11. CASE CrashStep
  <2>1. ASSUME NEW m, Crash_MailsOnly(m), m \in Mailboxes PROVE LimitsInv'
    BY <1>1, <1>7, <2>1 DEF Crash_MailsOnly
  <2>2. ASSUME NEW id \in Ids, Crash_Deleting(id) PROVE LimitsInv'
    BY <2>1, <2>2, CancelType, OwnerMailType DEF Crash_Deleting, Expiring, Sold
  <2>3. ASSUME NEW id \in Ids, Crash_Won(id) PROVE LimitsInv'
    BY <1>1, <1>7, <2>3 DEF Crash_Won, Crash_Selling
  <2>4. ASSUME NEW id \in Ids, NEW p \in Players, NEW price \in Prices, Crash_Bidding(p, id, price)
        PROVE  LimitsInv'
    BY <2>1, <2>4, RefundedType DEF Crash_Bidding, CanBid
  <2>5. ASSUME NEW id \in Ids, NEW p \in Players, NEW price \in Prices, Crash_Buyout(p, id, price)
        PROVE  LimitsInv'
    <3>1. /\ id \in Live /\ price \in Nat /\ price > auctions[id].bid /\ p \in Owners
          /\ gold' = Paid(p, Charged(auctions[id], p, price))
          /\ mailbox' = Reloaded(Refunded(auctions[id], p, price))
      BY <2>5, ConstantTypes DEF Crash_Buyout, Crash_Selling, CanBid, Owners
    <3>2. \A q \in Players : gold'[q] <= gold[q]
      BY <3>1, BidCosts
    <3>3. Refunded(auctions[id], p, price) \in Mailboxes
      BY <3>1, RefundedType
    <3> QED
      BY <1>7, <3>1, <3>2, <3>3
  <2> QED
    BY <1>11, <2>2, <2>3, <2>4, <2>5 DEF CrashStep
<1>12. CASE UNCHANGED <<gold, mailbox>>
  BY <1>4, <1>12
<1> QED
  BY <1>8, <1>9, <1>10, <1>11, <1>12 DEF Next, vars, goods, TimePasses

\* Both hold from the start.
LEMMA LimitsStart == Init => BidsInv /\ LimitsInv
<1>1. InitGold \in [Players -> 0..MaxGold] /\ MaxGold \in Nat
  BY AuctionHouseAssumption
<1> QED
  BY <1>1 DEF Init, BidsInv, Live, LimitsInv, Covered, NoMails

(***************************************************************************)
(* Sums of gold, of any balances g, mails m and auctions A.                *)
(***************************************************************************)
Balances == [Players -> Nat]

InBags(g)   == SumFunctionOnSet(g, Players)
InMails(m)  == SumFunctionOnSet([p \in Players |-> m[p].gold], Players)     \* as shown
InStored(m) == SumFunctionOnSet([p \in Players |-> m[p].stored], Players)

\* The gold in an auction, and what player p may still lose of it to a higher bid.
HeldIn(a)    == IF a = NULL THEN 0 ELSE a.bid + a.deposit
OpenIn(a, p) == IF a # NULL /\ a.bidder = p /\ ~a.sold THEN a.bid ELSE 0

InHouse(A)  == SumFunctionOnSet([id \in Ids |-> HeldIn(A[id])], Ids)
InOpen(A, p) == SumFunctionOnSet([id \in Ids |-> OpenIn(A[id], p)], Ids)

LEMMA EntryGold ==
    ASSUME NEW a \in AuctionEntry \cup {NULL}
    PROVE  HeldIn(a) \in Nat /\ \A p : OpenIn(a, p) \in Nat
BY DEF HeldIn, OpenIn, AuctionEntry

\* A balance changes by n.
LEMMA BagsChange ==
    ASSUME NEW g \in Balances, NEW p \in Players, NEW n \in Int, g[p] + n \in Nat
    PROVE  /\ InBags(g) \in Int
           /\ InBags([g EXCEPT ![p] = @ + n]) = InBags(g) + n
<1> DEFINE h == [g EXCEPT ![p] = @ + n]
<1>1. h \in Balances /\ h[p] = g[p] + n /\ \A q \in Players : q = p \/ h[q] = g[q]
  BY DEF Balances
<1> HIDE DEF h
<1>2. \A q \in Players : g[q] \in Int /\ h[q] \in Int
  BY <1>1 DEF Balances
<1>3. IsFiniteSet(Players)
  BY AuctionHouseAssumption
<1>4. SumFunctionOnSet(g, Players) \in Int
  BY <1>2, <1>3, SumTakeOut
<1>7. ChangesAt(g, h, Players, p)
  BY <1>1, <1>2 DEF ChangesAt
<1>5. SumFunctionOnSet(h, Players) = SumFunctionOnSet(g, Players) + h[p] - g[p]
  BY <1>3, <1>7, SumChangeOne
<1>6. InBags(h) = InBags(g) + n
  BY <1>1, <1>2, <1>4, <1>5 DEF InBags
<1> QED
  BY <1>4, <1>6 DEF InBags, h

\* One mailbox changes, what it shows
LEMMA MailsChange ==
    ASSUME NEW m \in Mailboxes, NEW r \in Mailboxes, NEW p \in Players,
           \A q \in Players : q = p \/ r[q].gold = m[q].gold
    PROVE  InMails(r) = InMails(m) + r[p].gold - m[p].gold
<1> DEFINE f == [q \in Players |-> m[q].gold]
           g == [q \in Players |-> r[q].gold]
<1>1. \A q \in Players : f[q] \in Int /\ g[q] \in Int
  BY DEF Mailboxes, Mails
<1>2. ChangesAt(f, g, Players, p)
  BY <1>1 DEF ChangesAt
<1>3. f[p] = m[p].gold /\ g[p] = r[p].gold
  OBVIOUS
<1>4. InMails(m) = SumFunctionOnSet(f, Players) /\ InMails(r) = SumFunctionOnSet(g, Players)
  BY DEF InMails
<1> HIDE DEF f, g
<1>5. IsFiniteSet(Players)
  BY AuctionHouseAssumption
<1>6. SumFunctionOnSet(g, Players) = SumFunctionOnSet(f, Players) + g[p] - f[p]
  BY <1>2, <1>5, SumChangeOne
<1> QED
  BY <1>3, <1>4, <1>6

\* and what the database has of it.
LEMMA StoredChange ==
    ASSUME NEW m \in Mailboxes, NEW r \in Mailboxes, NEW p \in Players,
           \A q \in Players : q = p \/ r[q].stored = m[q].stored
    PROVE  InStored(r) = InStored(m) + r[p].stored - m[p].stored
<1> DEFINE f == [q \in Players |-> m[q].stored]
           g == [q \in Players |-> r[q].stored]
<1>1. \A q \in Players : f[q] \in Int /\ g[q] \in Int
  BY DEF Mailboxes, Mails
<1>2. ChangesAt(f, g, Players, p)
  BY <1>1 DEF ChangesAt
<1>3. f[p] = m[p].stored /\ g[p] = r[p].stored
  OBVIOUS
<1>4. InStored(m) = SumFunctionOnSet(f, Players) /\ InStored(r) = SumFunctionOnSet(g, Players)
  BY DEF InStored
<1> HIDE DEF f, g
<1>5. IsFiniteSet(Players)
  BY AuctionHouseAssumption
<1>6. SumFunctionOnSet(g, Players) = SumFunctionOnSet(f, Players) + g[p] - f[p]
  BY <1>2, <1>5, SumChangeOne
<1> QED
  BY <1>3, <1>4, <1>6

LEMMA MailSums ==
    ASSUME NEW m \in Mailboxes
    PROVE  InMails(m) \in Int /\ InStored(m) \in Int
<1>1. IsFiniteSet(Players)
  BY AuctionHouseAssumption
<1>2. /\ \A p \in Players : [q \in Players |-> m[q].gold][p] \in Int
      /\ \A p \in Players : [q \in Players |-> m[q].stored][p] \in Int
  BY DEF Mailboxes, Mails
<1>3. InMails(m) \in Int
  BY <1>1, <1>2, SumTakeOut DEF InMails
<1>4. InStored(m) \in Int
  BY <1>1, <1>2, SumTakeOut DEF InStored
<1> QED
  BY <1>3, <1>4

\* A mail to a player who exists arrives, with its gold and what its column keeps of it.
LEMMA MailedGold ==
    ASSUME NEW m \in Mailboxes, NEW p \in Players, p \in exists, NEW n \in Nat,
           NEW I \in SUBSET Items
    PROVE  /\ InMails(Mailed(m, p, n, I)) = InMails(m) + n
           /\ InStored(Mailed(m, p, n, I)) = InStored(m) + InColumn(n)
<1> DEFINE r == Mailed(m, p, n, I)
<1>1. r \in Mailboxes
  BY MailedType DEF Owners
<1>2. /\ r[p].gold = m[p].gold + n /\ r[p].stored = m[p].stored + InColumn(n)
      /\ \A q \in Players : q = p \/ r[q].gold = m[q].gold
      /\ \A q \in Players : q = p \/ r[q].stored = m[q].stored
  BY DEF Mailed, Mailboxes
<1>3. m[p].gold \in Int /\ m[p].stored \in Int /\ InColumn(n) \in Int
  BY InColumnIs DEF Mailboxes, Mails
<1> HIDE DEF r
<1>4. InMails(m) \in Int /\ InStored(m) \in Int
  BY MailSums
<1>5. InMails(r) = InMails(m) + r[p].gold - m[p].gold
  BY <1>1, <1>2, MailsChange
<1>6. InStored(r) = InStored(m) + r[p].stored - m[p].stored
  BY <1>1, <1>2, StoredChange
<1> QED
  BY <1>2, <1>3, <1>4, <1>5, <1>6 DEF r

\* One auction is replaced by e, or ends.
LEMMA HouseChange ==
    ASSUME NEW A \in Auctions, NEW id \in Ids, NEW e \in AuctionEntry \cup {NULL}, NEW p
    PROVE  /\ InHouse(A) \in Int
           /\ InHouse([A EXCEPT ![id] = e]) = InHouse(A) + HeldIn(e) - HeldIn(A[id])
           /\ InOpen(A, p) \in Int
           /\ InOpen([A EXCEPT ![id] = e], p) = InOpen(A, p) + OpenIn(e, p) - OpenIn(A[id], p)
<1> DEFINE B == [A EXCEPT ![id] = e]
<1>1. B \in Auctions /\ B[id] = e /\ \A o \in Ids : o = id \/ B[o] = A[o]
  BY DEF Auctions
<1> HIDE DEF B
<1>2. \A o \in Ids : /\ A[o] \in AuctionEntry \cup {NULL}
                     /\ B[o] \in AuctionEntry \cup {NULL}
  BY <1>1 DEF Auctions
<1>3. \A o \in Ids : /\ HeldIn(A[o]) \in Int /\ HeldIn(B[o]) \in Int
                     /\ OpenIn(A[o], p) \in Int /\ OpenIn(B[o], p) \in Int
  BY <1>2, EntryGold
<1> DEFINE f == [o \in Ids |-> HeldIn(A[o])]
           g == [o \in Ids |-> HeldIn(B[o])]
           h == [o \in Ids |-> OpenIn(A[o], p)]
           k == [o \in Ids |-> OpenIn(B[o], p)]
<1>4. /\ \A o \in Ids : f[o] \in Int /\ g[o] \in Int
      /\ \A o \in Ids : o = id \/ g[o] = f[o]
      /\ f[id] = HeldIn(A[id]) /\ g[id] = HeldIn(e)
  BY <1>1, <1>3
<1>5. /\ \A o \in Ids : h[o] \in Int /\ k[o] \in Int
      /\ \A o \in Ids : o = id \/ k[o] = h[o]
      /\ h[id] = OpenIn(A[id], p) /\ k[id] = OpenIn(e, p)
  BY <1>1, <1>3
<1>6. InHouse(A) = SumFunctionOnSet(f, Ids) /\ InHouse(B) = SumFunctionOnSet(g, Ids)
  BY DEF InHouse
<1>7. InOpen(A, p) = SumFunctionOnSet(h, Ids) /\ InOpen(B, p) = SumFunctionOnSet(k, Ids)
  BY DEF InOpen
<1> HIDE DEF f, g, h, k
<1>8. IsFiniteSet(Ids)
  BY AuctionHouseAssumption
<1>9. SumFunctionOnSet(f, Ids) \in Int /\ SumFunctionOnSet(h, Ids) \in Int
  BY <1>4, <1>5, <1>8, SumTakeOut
<1>10. ChangesAt(f, g, Ids, id) /\ ChangesAt(h, k, Ids, id)
  BY <1>4, <1>5 DEF ChangesAt
<1>11. SumFunctionOnSet(g, Ids) = SumFunctionOnSet(f, Ids) + g[id] - f[id]
  BY <1>8, <1>10, SumChangeOne
<1>12. SumFunctionOnSet(k, Ids) = SumFunctionOnSet(h, Ids) + k[id] - h[id]
  BY <1>8, <1>10, SumChangeOne
<1> QED
  BY <1>4, <1>5, <1>6, <1>7, <1>9, <1>11, <1>12 DEF B

\* What there is of gold, the fees and a player's worth are made of these sums.
LEMMA SumsAre ==
    ASSUME NEW g \in Balances, NEW m \in Mailboxes, NEW A \in Auctions
    PROVE  /\ SumFunction([p \in Players |-> g[p] + m[p].gold]) = InBags(g) + InMails(m)
           /\ SumFunction([p \in Players |-> g[p] + m[p].stored]) = InBags(g) + InStored(m)
           /\ LET L == {id \in Ids : A[id] # NULL}
              IN  /\ SumFunction([id \in Ids |-> IF id \in L THEN A[id].bid + A[id].deposit ELSE 0])
                       = InHouse(A)
                  /\ \A p : SumFunction([id \in Ids |->
                        IF id \in L /\ A[id].bidder = p /\ ~A[id].sold THEN A[id].bid ELSE 0])
                       = InOpen(A, p)
<1>1. ASSUME NEW f, NEW both, \A p \in Players : f[p] \in Int /\ both[p] = g[p] + f[p],
             DOMAIN both = Players
      PROVE  SumFunction(both) = InBags(g) + SumFunctionOnSet(f, Players)
  <2>1. \A p \in Players : g[p] \in Int
    BY DEF Balances
  <2>2. SumFunctionOnSet(both, Players) = SumFunctionOnSet(g, Players) + SumFunctionOnSet(f, Players)
    BY <1>1, <2>1, SumAdd, AuctionHouseAssumption
  <2> QED
    BY <1>1, <2>2 DEF SumFunction, InBags
<1>2. SumFunction([p \in Players |-> g[p] + m[p].gold]) = InBags(g) + InMails(m)
  <2> DEFINE both == [p \in Players |-> g[p] + m[p].gold]
             f == [p \in Players |-> m[p].gold]
  <2>1. /\ \A p \in Players : f[p] \in Int /\ both[p] = g[p] + f[p]
        /\ DOMAIN both = Players
    BY DEF Mailboxes, Mails
  <2> HIDE DEF both, f
  <2>2. SumFunction(both) = InBags(g) + SumFunctionOnSet(f, Players)
    BY <1>1, <2>1
  <2> QED
    BY <2>2 DEF both, f, InMails
<1>5. SumFunction([p \in Players |-> g[p] + m[p].stored]) = InBags(g) + InStored(m)
  <2> DEFINE both == [p \in Players |-> g[p] + m[p].stored]
             f == [p \in Players |-> m[p].stored]
  <2>1. /\ \A p \in Players : f[p] \in Int /\ both[p] = g[p] + f[p]
        /\ DOMAIN both = Players
    BY DEF Mailboxes, Mails
  <2> HIDE DEF both, f
  <2>2. SumFunction(both) = InBags(g) + SumFunctionOnSet(f, Players)
    BY <1>1, <2>1
  <2> QED
    BY <2>2 DEF both, f, InStored
<1> DEFINE L == {id \in Ids : A[id] # NULL}
<1>6. [id \in Ids |-> IF id \in L THEN A[id].bid + A[id].deposit ELSE 0]
        = [id \in Ids |-> HeldIn(A[id])]
  BY DEF HeldIn
<1>7. SumFunction([id \in Ids |-> HeldIn(A[id])]) = InHouse(A)
  BY DEF SumFunction, InHouse
<1>8. ASSUME NEW p
      PROVE  SumFunction([id \in Ids |->
                 IF id \in L /\ A[id].bidder = p /\ ~A[id].sold THEN A[id].bid ELSE 0])
               = InOpen(A, p)
  <2>1. [id \in Ids |-> IF id \in L /\ A[id].bidder = p /\ ~A[id].sold THEN A[id].bid ELSE 0]
          = [id \in Ids |-> OpenIn(A[id], p)]
    BY DEF OpenIn
  <2>2. SumFunction([id \in Ids |-> OpenIn(A[id], p)]) = InOpen(A, p)
    BY DEF SumFunction, InOpen
  <2> QED
    BY <2>1, <2>2
<1> QED
  BY <1>2, <1>5, <1>6, <1>7, <1>8

(***************************************************************************)
(* Gold between players: nobody is deleted and the bot does not trade.     *)
(* Then a mail always arrives, and an auction with a bid has a player to   *)
(* refund, which is what keeps the sum of all gold.                        *)
(***************************************************************************)
BetweenPlayers == Deletable = {} /\ ServerTrades = FALSE

GoodEntry(a) == a = NULL \/ (a.owner \in Players /\ (a.bidder = Server => a.bid = 0))

PlayersOnly == exists = Players /\ \A id \in Ids : GoodEntry(auctions[id])

\* The action of GoldAccounted.
Accounted ==
    /\ CrashStep \/ GoldShown' <= GoldShown - Fees
    /\ AmountsFit => GoldStored' >= GoldStored - Fees

\* What the house keeps when e replaces a.
FeeOf(a, e) == IF a # NULL /\ e = NULL THEN Fee(a) ELSE 0

LEMMA FeeType ==
    ASSUME NEW a \in AuctionEntry \cup {NULL}, NEW e
    PROVE  FeeOf(a, e) \in Nat
<1>1. ASSUME a \in AuctionEntry PROVE Fee(a) \in Nat
  <2>1. GetAuctionCut(a) \in 0..a.bid /\ a.bid \in Nat /\ a.deposit \in Nat
    BY <1>1, CutBounded DEF AuctionEntry
  <2> QED
    BY <2>1 DEF Fee
<1> QED
  BY <1>1 DEF FeeOf

\* The fees of a step that changes at most auction id.
LEMMA FeesAre ==
    ASSUME TypeOK, NEW id \in Ids, \A o \in Ids : o = id \/ auctions'[o] = auctions[o]
    PROVE  Fees = FeeOf(auctions[id], auctions'[id])
<1> DEFINE none == [o \in Ids |-> 0]
           fee  == [o \in Ids |-> IF o \in Live /\ auctions'[o] = NULL THEN Fee(auctions[o]) ELSE 0]
<1>1. \A o \in Ids : fee[o] = FeeOf(auctions[o], auctions'[o]) /\ none[o] = 0
  BY DEF FeeOf, Live
<1>2. Fees = SumFunctionOnSet(fee, Ids)
  BY DEF Fees, SumFunction
<1> HIDE DEF none, fee
<1>3. \A o \in Ids : auctions[o] \in AuctionEntry \cup {NULL}
  BY DEF TypeOK
<1>4. \A o \in Ids : o = id \/ fee[o] = none[o]
  BY <1>1 DEF FeeOf
<1>5. \A o \in Ids : fee[o] \in Int
  BY <1>1, <1>3, FeeType
<1>6. ChangesAt(none, fee, Ids, id)
  BY <1>1, <1>4, <1>5 DEF ChangesAt
<1>7. IsFiniteSet(Ids)
  BY AuctionHouseAssumption
<1>8. SumFunctionOnSet(none, Ids) = 0
  BY <1>1, <1>7, SumZero
<1>9. SumFunctionOnSet(fee, Ids) = SumFunctionOnSet(none, Ids) + fee[id] - none[id]
  BY <1>6, <1>7, SumChangeOne
<1> QED
  BY <1>1, <1>2, <1>5, <1>8, <1>9

LEMMA NoFees ==
    ASSUME UNCHANGED auctions
    PROVE  Fees = 0
<1> DEFINE fee == [o \in Ids |-> IF o \in Live /\ auctions'[o] = NULL THEN Fee(auctions[o]) ELSE 0]
<1>1. \A o \in Ids : fee[o] = 0
  BY DEF Live
<1>2. Fees = SumFunctionOnSet(fee, Ids)
  BY DEF Fees, SumFunction
<1> HIDE DEF fee
<1> QED
  BY <1>1, <1>2, SumZero, AuctionHouseAssumption

LEMMA TotalsAre ==
    ASSUME TypeOK, TypeOK'
    PROVE  /\ GoldShown = InBags(gold) + InMails(mailbox) + InHouse(auctions)
           /\ GoldShown' = InBags(gold') + InMails(mailbox') + InHouse(auctions')
           /\ GoldStored = InBags(gold) + InStored(mailbox) + InHouse(auctions)
           /\ GoldStored' = InBags(gold') + InStored(mailbox') + InHouse(auctions')
<1>1. /\ gold \in Balances /\ mailbox \in Mailboxes /\ auctions \in Auctions
      /\ gold' \in Balances /\ mailbox' \in Mailboxes /\ auctions' \in Auctions
  BY DEF TypeOK, Balances, Mailboxes, Auctions
<1>2. SumFunction(Shown) = InBags(gold) + InMails(mailbox)
  BY <1>1, SumsAre DEF Shown
<1>3. SumFunction(Shown)' = InBags(gold') + InMails(mailbox')
  BY <1>1, SumsAre DEF Shown
<1>4. SumFunction(Purse) = InBags(gold) + InStored(mailbox)
  BY <1>1, SumsAre DEF Purse
<1>5. SumFunction(Purse)' = InBags(gold') + InStored(mailbox')
  BY <1>1, SumsAre DEF Purse
<1>6. SumFunction(Held) = InHouse(auctions)
  BY <1>1, SumsAre DEF Held, Live
<1>7. SumFunction(Held)' = InHouse(auctions')
  BY <1>1, SumsAre DEF Held, Live
<1> QED
  BY <1>2, <1>3, <1>4, <1>5, <1>6, <1>7 DEF GoldShown, GoldStored

\* The sums are numbers.
LEMMA SumTypes ==
    /\ \A g \in Balances : InBags(g) \in Int
    /\ \A m \in Mailboxes : InMails(m) \in Int /\ InStored(m) \in Int
    /\ \A A \in Auctions : InHouse(A) \in Int
<1>1. IsFiniteSet(Players) /\ IsFiniteSet(Ids)
  BY AuctionHouseAssumption
<1>2. ASSUME NEW g \in Balances PROVE InBags(g) \in Int
  <2>1. \A p \in Players : g[p] \in Int
    BY DEF Balances
  <2> QED
    BY <1>1, <2>1, SumTakeOut DEF InBags
<1>3. ASSUME NEW A \in Auctions PROVE InHouse(A) \in Int
  <2>1. \A id \in Ids : HeldIn(A[id]) \in Nat
    BY EntryGold DEF Auctions
  <2>2. \A id \in Ids : [o \in Ids |-> HeldIn(A[o])][id] \in Int
    BY <2>1
  <2> QED
    BY <1>1, <2>2, SumTakeOut DEF InHouse
<1> QED
  BY <1>2, <1>3, MailSums

\* Gold of the step that is in the bags and mails before it and not after it: at
\* least d of what the mails show, and at most d of what is stored if it fits.
Leaves(d) ==
    /\ CrashStep \/ InBags(gold') + InMails(mailbox') + d <= InBags(gold) + InMails(mailbox)
    /\ AmountsFit => InBags(gold') + InStored(mailbox') + d >= InBags(gold) + InStored(mailbox)

\* The mails m have n gold more than those there are.
Brings(m, n) ==
    /\ InMails(m) = InMails(mailbox) + n
    /\ InStored(m) <= InStored(mailbox) + n
    /\ InStored(m) >= InStored(mailbox)
    /\ AmountsFit => InStored(m) = InStored(mailbox) + n

\* A step that leaves the auctions alone and takes no gold out of the bags and mails.
LEMMA NothingMoves ==
    ASSUME TypeOK, TypeOK', UNCHANGED auctions, Leaves(0)
    PROVE  Accounted
<1>1. Fees = 0
  BY NoFees
<1>2. /\ gold \in Balances /\ mailbox \in Mailboxes /\ auctions \in Auctions
      /\ gold' \in Balances /\ mailbox' \in Mailboxes
  BY DEF TypeOK, Balances, Mailboxes, Auctions
<1>3. /\ InBags(gold) \in Int /\ InMails(mailbox) \in Int /\ InStored(mailbox) \in Int
      /\ InBags(gold') \in Int /\ InMails(mailbox') \in Int /\ InStored(mailbox') \in Int
      /\ InHouse(auctions) \in Int
  BY <1>2, SumTypes
<1>4. /\ GoldShown = InBags(gold) + InMails(mailbox) + InHouse(auctions)
      /\ GoldShown' = InBags(gold') + InMails(mailbox') + InHouse(auctions)
      /\ GoldStored = InBags(gold) + InStored(mailbox) + InHouse(auctions)
      /\ GoldStored' = InBags(gold') + InStored(mailbox') + InHouse(auctions)
  BY TotalsAre
<1>5. CrashStep \/ GoldShown' <= GoldShown - Fees
  BY <1>1, <1>3, <1>4 DEF Leaves
<1>6. AmountsFit => GoldStored' >= GoldStored - Fees
  BY <1>1, <1>3, <1>4 DEF Leaves
<1> QED
  BY <1>5, <1>6 DEF Accounted

\* A step that moves gold between the bags, the mails and one auction.
LEMMA OneAuctionMoves ==
    ASSUME TypeOK, TypeOK', NEW id \in Ids, NEW e \in AuctionEntry \cup {NULL},
           auctions' = [auctions EXCEPT ![id] = e],
           Leaves(HeldIn(e) + FeeOf(auctions[id], e) - HeldIn(auctions[id]))
    PROVE  Accounted
<1>1. /\ gold \in Balances /\ mailbox \in Mailboxes /\ auctions \in Auctions
      /\ gold' \in Balances /\ mailbox' \in Mailboxes
      /\ auctions[id] \in AuctionEntry \cup {NULL}
  BY DEF TypeOK, Balances, Mailboxes, Auctions
<1>2. /\ InBags(gold) \in Int /\ InMails(mailbox) \in Int /\ InStored(mailbox) \in Int
      /\ InBags(gold') \in Int /\ InMails(mailbox') \in Int /\ InStored(mailbox') \in Int
      /\ InHouse(auctions) \in Int
  BY <1>1, SumTypes
<1>3. HeldIn(e) \in Nat /\ HeldIn(auctions[id]) \in Nat /\ FeeOf(auctions[id], e) \in Nat
  <2>1. HeldIn(e) \in Nat /\ HeldIn(auctions[id]) \in Nat
    BY <1>1, EntryGold
  <2>2. FeeOf(auctions[id], e) \in Nat
    BY <1>1, FeeType
  <2> QED
    BY <2>1, <2>2
<1>4. auctions'[id] = e /\ \A o \in Ids : o = id \/ auctions'[o] = auctions[o]
  BY <1>1 DEF Auctions
<1>5. Fees = FeeOf(auctions[id], e)
  BY <1>4, FeesAre
<1>6. InHouse(auctions') = InHouse(auctions) + HeldIn(e) - HeldIn(auctions[id])
  BY <1>1, HouseChange
<1>7. /\ GoldShown = InBags(gold) + InMails(mailbox) + InHouse(auctions)
      /\ GoldShown' = InBags(gold') + InMails(mailbox') + InHouse(auctions')
      /\ GoldStored = InBags(gold) + InStored(mailbox) + InHouse(auctions)
      /\ GoldStored' = InBags(gold') + InStored(mailbox') + InHouse(auctions')
  BY TotalsAre
<1>8. CrashStep \/ GoldShown' <= GoldShown - Fees
  BY <1>2, <1>3, <1>5, <1>6, <1>7 DEF Leaves
<1>9. AmountsFit => GoldStored' >= GoldStored - Fees
  BY <1>2, <1>3, <1>5, <1>6, <1>7 DEF Leaves
<1> QED
  BY <1>8, <1>9 DEF Accounted

\* The bags give c and the mails are m, which bring n, or what is stored of them if
\* the server crashes.
LEMMA BagsAndMails ==
    ASSUME TypeOK, TypeOK', NEW c \in Int, InBags(gold') = InBags(gold) - c,
           NEW m \in Mailboxes, NEW n \in Int, Brings(m, n),
           InStored(mailbox') = InStored(m), CrashStep \/ InMails(mailbox') = InMails(m)
    PROVE  Leaves(c - n)
<1>1. /\ gold \in Balances /\ mailbox \in Mailboxes
      /\ gold' \in Balances /\ mailbox' \in Mailboxes
  BY DEF TypeOK, Balances, Mailboxes
<1>2. /\ InBags(gold) \in Int /\ InMails(mailbox) \in Int /\ InStored(mailbox) \in Int
      /\ InBags(gold') \in Int /\ InMails(mailbox') \in Int /\ InStored(mailbox') \in Int
      /\ InMails(m) \in Int /\ InStored(m) \in Int
  BY <1>1, SumTypes
<1>3. CrashStep \/ InBags(gold') + InMails(mailbox') + (c - n) <= InBags(gold) + InMails(mailbox)
  BY <1>2 DEF Brings
<1>4. AmountsFit => InBags(gold') + InStored(mailbox') + (c - n) >= InBags(gold) + InStored(mailbox)
  BY <1>2 DEF Brings
<1> QED
  BY <1>3, <1>4 DEF Leaves

\* The bag of a player changes by n, as a handler writes it.
LEMMA Pays ==
    ASSUME TypeOK, NEW p \in Players, NEW n \in Int, n <= gold[p],
           gold' = [gold EXCEPT ![p] = @ - n]
    PROVE  InBags(gold') = InBags(gold) - n
<1>1. gold \in Balances /\ -n \in Int /\ gold[p] + (-n) \in Nat
  BY DEF TypeOK, Balances
<1>2. gold' = [gold EXCEPT ![p] = @ + (-n)]
  BY <1>1 DEF Balances
<1>3. InBags(gold) \in Int
  BY <1>1, BagsChange
<1>4. InBags([gold EXCEPT ![p] = @ + (-n)]) = InBags(gold) + (-n)
  BY <1>1, BagsChange
<1> QED
  BY <1>2, <1>3, <1>4

\* Mails whose gold is the same hold the same sum.
LEMMA SameGold ==
    ASSUME NEW m, NEW r
    PROVE  /\ (\A p \in Players : r[p].gold = m[p].gold) => InMails(r) = InMails(m)
           /\ (\A p \in Players : r[p].stored = m[p].stored) => InStored(r) = InStored(m)
<1>1. (\A p \in Players : r[p].gold = m[p].gold)
         => [p \in Players |-> r[p].gold] = [p \in Players |-> m[p].gold]
  OBVIOUS
<1>2. (\A p \in Players : r[p].stored = m[p].stored)
         => [p \in Players |-> r[p].stored] = [p \in Players |-> m[p].stored]
  OBVIOUS
<1> QED
  BY <1>1, <1>2 DEF InMails, InStored

LEMMA ReloadedSame ==
    ASSUME NEW m \in Mailboxes
    PROVE  InStored(Reloaded(m)) = InStored(m)
<1>1. \A p \in Players : Reloaded(m)[p].stored = m[p].stored
  BY ReloadedIs
<1> QED
  BY <1>1, SameGold

\* What an auction holds fits the column of a mail.
LEMMA FitsColumn ==
    ASSUME TypeOK, AmountsFit, NEW id \in Live, NEW n \in Nat,
           n <= auctions[id].bid + auctions[id].deposit
    PROVE  InColumn(n) = n
<1>1. id \in Ids /\ Held[id] < ColumnSize /\ Held[id] = auctions[id].bid + auctions[id].deposit
  BY DEF AmountsFit, Live, Held
<1>2. auctions[id].bid \in Nat /\ auctions[id].deposit \in Nat /\ ColumnSize \in Nat
  BY LiveIsEntry, AuctionHouseAssumption
<1>3. n < ColumnSize
  BY <1>1, <1>2
<1> QED
  BY <1>3, InColumnIs

\* The mails as they are, and a mail to a player about gold of auction id.
LEMMA NoMailBrings ==
    ASSUME TypeOK
    PROVE  Brings(mailbox, 0)
<1>1. InMails(mailbox) \in Int /\ InStored(mailbox) \in Int
  BY MailSums DEF TypeOK, Mailboxes
<1> QED
  BY <1>1 DEF Brings

LEMMA MailBrings ==
    ASSUME TypeOK, NEW id \in Live, NEW p \in Players, p \in exists, NEW n \in Nat,
           n <= auctions[id].bid + auctions[id].deposit, NEW I \in SUBSET Items
    PROVE  Brings(Mailed(mailbox, p, n, I), n)
<1>1. mailbox \in Mailboxes
  BY DEF TypeOK, Mailboxes
<1>2. InMails(mailbox) \in Int /\ InStored(mailbox) \in Int
  BY <1>1, MailSums
<1>3. InColumn(n) \in Nat /\ InColumn(n) <= n /\ (AmountsFit => InColumn(n) = n)
  BY InColumnIs, FitsColumn
<1>4. /\ InMails(Mailed(mailbox, p, n, I)) = InMails(mailbox) + n
      /\ InStored(Mailed(mailbox, p, n, I)) = InStored(mailbox) + InColumn(n)
  BY <1>1, MailedGold
<1> HIDE DEF AmountsFit
<1> QED
  BY <1>2, <1>3, <1>4 DEF Brings

\* Items alone.
LEMMA ItemBrings ==
    ASSUME TypeOK, NEW m \in Mailboxes, NEW n \in Int, Brings(m, n),
           NEW p \in Players, p \in exists, NEW I \in SUBSET Items
    PROVE  Brings(Mailed(m, p, 0, I), n)
<1>1. InMails(m) \in Int /\ InStored(m) \in Int
  BY MailSums
<1>2. InColumn(0) = 0
  BY InColumnIs
<1>3. InMails(Mailed(m, p, 0, I)) = InMails(m) /\ InStored(Mailed(m, p, 0, I)) = InStored(m)
  BY <1>1, <1>2, MailedGold
<1> QED
  BY <1>3 DEF Brings

\* The mail of a bid: the bidder pays what the auction gains and the one who is
\* outbid is paid back.
LEMMA RefundBrings ==
    ASSUME TypeOK, PlayersOnly, NEW id \in Live, NEW b \in Players, NEW n \in Nat
    PROVE  LET a == auctions[id]
           IN  Brings(Refunded(a, b, n), IF Outbids(a, b) THEN a.bid ELSE 0)
<1> DEFINE a == auctions[id]
<1>1. a.bid \in Nat /\ a.deposit \in Nat /\ a.bidder \in Owners /\ {} \in SUBSET Items
  BY LiveIsEntry
<1>2. CASE Outbids(a, b)
  <2>1. a.bidder \in Players /\ a.bidder \in exists
    BY <1>1, <1>2 DEF Outbids, PlayersOnly, Owners
  <2>2. Brings(Mailed(mailbox, a.bidder, a.bid, {}), a.bid)
    BY <1>1, <2>1, MailBrings
  <2> QED
    BY <1>2, <2>2 DEF Refunded, SendAuctionOutbiddedMail
<1>3. CASE ~Outbids(a, b)
  BY <1>3, NoMailBrings DEF Refunded
<1> QED
  BY <1>2, <1>3

LEMMA BidBalances ==
    ASSUME TypeOK, TypeOK', PlayersOnly, NEW id \in Live, NEW b \in Players, NEW n \in Nat, n <= gold[b],
           NEW e \in AuctionEntry, e.bid = Clamped(auctions[id], n),
           e.deposit = auctions[id].deposit,
           gold' = Paid(b, Charged(auctions[id], b, n)),
           InStored(mailbox') = InStored(Refunded(auctions[id], b, n)),
           CrashStep \/ InMails(mailbox') = InMails(Refunded(auctions[id], b, n))
    PROVE  Leaves(HeldIn(e) + FeeOf(auctions[id], e) - HeldIn(auctions[id]))
<1> DEFINE a == auctions[id]
           c == Charged(a, b, n)
           m == Refunded(a, b, n)
           k == IF Outbids(a, b) THEN a.bid ELSE 0
<1>1. /\ a \in AuctionEntry /\ a.bid \in Nat /\ a.deposit \in Nat /\ a.buyout \in Nat
      /\ a.bidder \in Owners /\ e # NULL /\ a # NULL
  BY LiveIsEntry, ConstantTypes DEF Live
<1>2. Clamped(a, n) \in 0..n /\ b # Server
  BY <1>1, ConstantTypes DEF Clamped
<1>3. c = IF b = a.bidder THEN e.bid - a.bid ELSE e.bid
  BY <1>2 DEF Charged
<1>4. c \in Int /\ c <= gold[b]
  BY <1>1, <1>2, <1>3 DEF TypeOK
<1>5. InBags(gold') = InBags(gold) - c
  BY <1>2, <1>4, Pays DEF Paid
<1>6. m \in Mailboxes /\ Brings(m, k) /\ k \in Int
  <2>1. m \in Mailboxes
    BY RefundedType
  <2>2. Brings(m, k)
    BY RefundBrings
  <2> HIDE DEF a, m
  <2> QED
    BY <1>1, <2>1, <2>2
<1>8. a.bidder = Server => a.bid = 0
  BY <1>1, LiveIsEntry DEF PlayersOnly, GoodEntry
<1>9. HeldIn(e) = e.bid + a.deposit /\ HeldIn(a) = a.bid + a.deposit /\ FeeOf(a, e) = 0
  BY <1>1 DEF HeldIn, FeeOf
<1>10. e.bid \in Nat
  BY DEF AuctionEntry
<1>11. c = e.bid + k - a.bid
  BY <1>1, <1>2, <1>3, <1>8, <1>10 DEF Outbids
<1>12. InStored(mailbox') = InStored(m) /\ (CrashStep \/ InMails(mailbox') = InMails(m))
  OBVIOUS
<1> HIDE DEF a, m, c, k
<1>13. Leaves(c - k)
  BY <1>4, <1>5, <1>6, <1>12, BagsAndMails
<1>14. c - k = HeldIn(e) + FeeOf(a, e) - HeldIn(a)
  BY <1>1, <1>4, <1>6, <1>9, <1>10, <1>11
<1> QED
  BY <1>13, <1>14 DEF a

\* The entry after a bid, sold or not.
LEMMA BidEntry ==
    ASSUME TypeOK, PlayersOnly, NEW id \in Live, NEW b \in Players, NEW n \in Nat
    PROVE  LET a == WithBid(auctions[id], b, n)
           IN  \A e \in {a, WithoutItem(AsSold(a)), [AsSold(a) EXCEPT !.item = NULL]} :
                  /\ e \in AuctionEntry /\ GoodEntry(e)
                  /\ e.bid = Clamped(auctions[id], n) /\ e.deposit = auctions[id].deposit
<1> DEFINE a == WithBid(auctions[id], b, n)
<1>1. auctions[id] \in AuctionEntry /\ b \in Owners /\ b # Server /\ auctions[id] # NULL
  BY LiveIsEntry, ConstantTypes DEF Owners
<1>2. a \in AuctionEntry /\ AsSold(a) \in AuctionEntry
  BY <1>1, EntryTypes
<1>3. /\ a.bidder = b /\ a.bid = Clamped(auctions[id], n)
      /\ a.owner = auctions[id].owner /\ a.deposit = auctions[id].deposit
  BY <1>1 DEF WithBid, AuctionEntry
<1> HIDE DEF a
<1>4. ASSUME NEW e \in {a, WithoutItem(AsSold(a)), [AsSold(a) EXCEPT !.item = NULL]}
      PROVE  /\ e \in AuctionEntry
             /\ e.bidder = a.bidder /\ e.bid = a.bid /\ e.owner = a.owner /\ e.deposit = a.deposit
  <2>1. e \in AuctionEntry
    BY <1>2, EntryTypes
  <2>2. /\ AsSold(a).bidder = a.bidder /\ AsSold(a).bid = a.bid
        /\ AsSold(a).owner = a.owner /\ AsSold(a).deposit = a.deposit
    BY <1>2 DEF AsSold, AuctionEntry
  <2>3. /\ e.bidder = a.bidder /\ e.bid = a.bid /\ e.owner = a.owner /\ e.deposit = a.deposit
    BY <1>2, <2>2 DEF WithoutItem, AuctionEntry
  <2> QED
    BY <2>1, <2>3
<1>5. auctions[id].owner \in Players
  BY <1>1, LiveIsEntry DEF PlayersOnly, GoodEntry
<1> QED
  BY <1>1, <1>3, <1>4, <1>5 DEF GoodEntry, a

\* What a step of GoldAccounted has to do.
Settles == PlayersOnly' /\ Accounted

\* The auctions stay good when the one that changes does.
LEMMA GoodChange ==
    ASSUME TypeOK, PlayersOnly, exists' = exists, NEW id \in Ids, NEW e, GoodEntry(e),
           auctions' = [auctions EXCEPT ![id] = e]
    PROVE  PlayersOnly'
BY DEF PlayersOnly, TypeOK, GoodEntry

\* Winning moves no gold, whatever mails m there are already.
LEMMA WinningGold ==
    ASSUME TypeOK, NEW id \in Ids, NEW a \in AuctionEntry, NEW m \in Mailboxes,
           AuctionBidWinning(id, a, m)
    PROVE  /\ \A p \in Players : mailbox'[p].gold = m[p].gold /\ mailbox'[p].stored = m[p].stored
           /\ auctions' = [auctions EXCEPT ![id] = WithoutItem(AsSold(a))]
<1> DEFINE s == AsSold(a)
<1>1. /\ mailbox' = Mailed(m, s.bidder, 0, GetAItem(s))
      /\ auctions' = [auctions EXCEPT ![id] = WithoutItem(s)]
  BY DEF AuctionBidWinning, SendAuctionWonMail
<1>2. s \in AuctionEntry
  BY EntryTypes
<1>3. s.bidder \in Owners
  BY <1>2 DEF AuctionEntry, Owners
<1>5. InColumn(0) = 0
  BY InColumnIs
<1> HIDE DEF s
<1>4. ASSUME NEW p \in Players
      PROVE  mailbox'[p].gold = m[p].gold /\ mailbox'[p].stored = m[p].stored
  <2>1. m[p].gold \in Nat /\ m[p].stored \in Nat
    BY DEF Mailboxes, Mails
  <2> QED
    BY <1>1, <1>3, <1>5, <2>1 DEF Mailed, Mailboxes
<1> QED
  BY <1>1, <1>4 DEF s

\* A player's bid, or the part of it a crash leaves stored.
LEMMA BidSettles ==
    ASSUME TypeOK, TypeOK', PlayersOnly, NEW id \in Ids, NEW p \in Players, NEW n \in Prices,
           HandleAuctionPlaceBid(p, id, n) \/ (CrashStep /\ Crash_Buyout(p, id, n))
    PROVE  Settles
<1> DEFINE a == WithBid(auctions[id], p, n)
           m == Refunded(auctions[id], p, n)
<1>1. /\ id \in Live /\ n \in Nat /\ n <= gold[p] /\ exists' = exists
      /\ gold' = Paid(p, Charged(auctions[id], p, n))
  BY ConstantTypes DEF HandleAuctionPlaceBid, Crash_Buyout, CanBid, UpdateBid, Crash_Selling
<1>2. m \in Mailboxes /\ a \in AuctionEntry
  BY <1>1, RefundedType, BidEntry
<1>3. \/ mailbox' = m /\ auctions' = [auctions EXCEPT ![id] = a]
      \/ AuctionBidWinning(id, a, m)
      \/ /\ CrashStep /\ mailbox' = Reloaded(m)
         /\ auctions' = [auctions EXCEPT ![id] = [AsSold(a) EXCEPT !.item = NULL]]
  BY DEF HandleAuctionPlaceBid, Crash_Buyout, UpdateBid, Crash_Selling
<1>4. PICK e \in {a, WithoutItem(AsSold(a)), [AsSold(a) EXCEPT !.item = NULL]} :
          /\ auctions' = [auctions EXCEPT ![id] = e]
          /\ InStored(mailbox') = InStored(m)
          /\ CrashStep \/ InMails(mailbox') = InMails(m)
  <2>1. CASE mailbox' = m /\ auctions' = [auctions EXCEPT ![id] = a]
    BY <2>1
  <2>2. CASE AuctionBidWinning(id, a, m)
    <3>1. /\ auctions' = [auctions EXCEPT ![id] = WithoutItem(AsSold(a))]
          /\ \A q \in Players : mailbox'[q].gold = m[q].gold /\ mailbox'[q].stored = m[q].stored
      BY <1>2, <2>2, WinningGold
    <3>2. InStored(mailbox') = InStored(m) /\ InMails(mailbox') = InMails(m)
      BY <3>1, SameGold
    <3> HIDE DEF a, m
    <3> QED
      BY <3>1, <3>2
  <2>3. CASE /\ CrashStep /\ mailbox' = Reloaded(m)
             /\ auctions' = [auctions EXCEPT ![id] = [AsSold(a) EXCEPT !.item = NULL]]
    <3>1. InStored(mailbox') = InStored(m)
      BY <1>2, <2>3, ReloadedSame
    <3> HIDE DEF a, m
    <3> QED
      BY <2>3, <3>1
  <2> QED
    BY <1>3, <2>1, <2>2, <2>3
<1>5. /\ e \in AuctionEntry /\ GoodEntry(e)
      /\ e.bid = Clamped(auctions[id], n) /\ e.deposit = auctions[id].deposit
  BY <1>1, BidEntry
<1>7. Leaves(HeldIn(e) + FeeOf(auctions[id], e) - HeldIn(auctions[id]))
  BY <1>1, <1>4, <1>5, BidBalances
<1>8. Accounted
  BY <1>4, <1>5, <1>7, OneAuctionMoves
<1>9. PlayersOnly'
  BY <1>1, <1>4, <1>5, GoodChange
<1> QED
  BY <1>8, <1>9 DEF Settles

\* An auction is replaced by one with the same gold and the same players.
LEMMA SameEntrySettles ==
    ASSUME TypeOK, TypeOK', PlayersOnly, exists' = exists, gold' = gold,
           NEW id \in Live, NEW e \in AuctionEntry,
           auctions' = [auctions EXCEPT ![id] = e],
           InStored(mailbox') = InStored(mailbox),
           CrashStep \/ InMails(mailbox') = InMails(mailbox),
           e.owner = auctions[id].owner, e.bidder = auctions[id].bidder,
           e.bid = auctions[id].bid, e.deposit = auctions[id].deposit
    PROVE  Settles
<1>1. id \in Ids /\ auctions[id] # NULL /\ e # NULL
  BY ConstantTypes DEF Live
<1>2. HeldIn(e) = HeldIn(auctions[id]) /\ FeeOf(auctions[id], e) = 0 /\ GoodEntry(e)
  BY <1>1 DEF HeldIn, FeeOf, GoodEntry, PlayersOnly
<1>3. HeldIn(auctions[id]) \in Int
  BY LiveIsEntry, EntryGold
<1>4. HeldIn(e) + FeeOf(auctions[id], e) - HeldIn(auctions[id]) = 0
  BY <1>2, <1>3
<1>5. Leaves(0)
  <2>1. /\ InBags(gold) \in Int /\ InMails(mailbox) \in Int /\ InStored(mailbox) \in Int
    BY SumTypes DEF TypeOK, Balances, Mailboxes
  <2> QED
    BY <2>1 DEF Leaves
<1>6. Accounted
  BY <1>1, <1>4, <1>5, OneAuctionMoves
<1>7. PlayersOnly'
  BY <1>1, <1>2, GoodChange
<1> QED
  BY <1>6, <1>7 DEF Settles

\* An auction ends: what was in it is in the bags and the mails, but for the fee.
LEMMA EndSettles ==
    ASSUME TypeOK, TypeOK', PlayersOnly, exists' = exists, NEW id \in Live,
           auctions' = [auctions EXCEPT ![id] = NULL],
           NEW c \in Int, InBags(gold') = InBags(gold) - c,
           NEW n \in Int, Brings(mailbox', n),
           c - n = Fee(auctions[id]) - (auctions[id].bid + auctions[id].deposit)
    PROVE  Settles
<1>1. id \in Ids /\ auctions[id] # NULL /\ auctions[id] \in AuctionEntry
  BY LiveIsEntry DEF Live
<1>2. /\ HeldIn(NULL) = 0 /\ HeldIn(auctions[id]) = auctions[id].bid + auctions[id].deposit
      /\ FeeOf(auctions[id], NULL) = Fee(auctions[id]) /\ GoodEntry(NULL)
  BY <1>1 DEF HeldIn, FeeOf, GoodEntry
<1>3. HeldIn(auctions[id]) \in Nat /\ FeeOf(auctions[id], NULL) \in Nat
  BY <1>1, EntryGold, FeeType
<1>4. HeldIn(NULL) + FeeOf(auctions[id], NULL) - HeldIn(auctions[id]) = c - n
  BY <1>2, <1>3
<1>5. Leaves(c - n)
  <2>1. /\ gold \in Balances /\ mailbox \in Mailboxes
        /\ gold' \in Balances /\ mailbox' \in Mailboxes
    BY DEF TypeOK, Balances, Mailboxes
  <2>2. /\ InBags(gold) \in Int /\ InMails(mailbox) \in Int /\ InStored(mailbox) \in Int
        /\ InBags(gold') \in Int /\ InMails(mailbox') \in Int /\ InStored(mailbox') \in Int
    BY <2>1, SumTypes
  <2>3. InBags(gold') + InMails(mailbox') + (c - n) <= InBags(gold) + InMails(mailbox)
    BY <2>2 DEF Brings
  <2>4. AmountsFit => InBags(gold') + InStored(mailbox') + (c - n) >= InBags(gold) + InStored(mailbox)
    BY <2>2 DEF Brings
  <2> QED
    BY <2>3, <2>4 DEF Leaves
<1>6. Accounted
  BY <1>1, <1>4, <1>5, OneAuctionMoves
<1>7. PlayersOnly'
  BY <1>1, <1>2, GoodChange
<1> QED
  BY <1>6, <1>7 DEF Settles

\* A sale holds the deposit the seller paid.
LEMMA SellSettles ==
    ASSUME TypeOK, TypeOK', PlayersOnly, NEW p \in Players, NEW i \in Items, NEW n \in 1..MaxStack,
           NEW s \in StartBids, NEW b \in Buyouts, HandleAuctionSellItem(p, i, n, s, b)
    PROVE  Settles
<1>0. PICK j \in Nowhere : AddAuction(NewAuction(j, p, s, b, Deposit))
  BY DEF HandleAuctionSellItem
<1> DEFINE e == NewAuction(j, p, s, b, Deposit)
<1>1. PICK id \in Ids \ Live : auctions' = [auctions EXCEPT ![id] = e]
  BY <1>0 DEF AddAuction
<1>2. e \in AuctionEntry /\ p \in Owners
  BY NewAuctionType, ConstantTypes DEF Owners, Nowhere
<1>3. /\ HeldIn(auctions[id]) = 0 /\ HeldIn(e) = Deposit /\ FeeOf(auctions[id], e) = 0
      /\ GoodEntry(e)
  <2>1. auctions[id] = NULL /\ e # NULL
    BY <1>2, ConstantTypes DEF Live
  <2>2. e.bid = 0 /\ e.deposit = Deposit /\ e.owner = p
    BY DEF NewAuction
  <2> HIDE DEF e
  <2>3. 0 + Deposit = Deposit
    BY ConstantTypes
  <2> QED
    BY <2>1, <2>2, <2>3 DEF HeldIn, FeeOf, GoodEntry
<1>4. InBags(gold') = InBags(gold) - Deposit
  <2>1. gold' = [gold EXCEPT ![p] = @ - Deposit] /\ Deposit \in Int /\ Deposit <= gold[p]
    BY ConstantTypes DEF HandleAuctionSellItem, CanSell, TypeOK
  <2> QED
    BY <2>1, Pays
<1>5. mailbox' = mailbox /\ exists' = exists
  BY DEF HandleAuctionSellItem
<1>6. mailbox \in Mailboxes /\ Deposit \in Int /\ Brings(mailbox, 0)
  BY NoMailBrings, ConstantTypes DEF TypeOK, Mailboxes
<1> HIDE DEF e
<1>7. Leaves(Deposit - 0)
  BY <1>4, <1>5, <1>6, BagsAndMails
<1>10. Deposit - 0 = HeldIn(e) + FeeOf(auctions[id], e) - HeldIn(auctions[id])
  BY <1>3, <1>6
<1>8. Accounted
  BY <1>1, <1>2, <1>7, <1>10, OneAuctionMoves
<1>9. PlayersOnly'
  BY <1>1, <1>3, <1>5, GoodChange
<1> QED
  BY <1>8, <1>9 DEF Settles

\* What the mails to the bidder bring.
LEMMA CancelBrings ==
    ASSUME TypeOK, PlayersOnly, NEW id \in Live
    PROVE  LET a == auctions[id]
           IN  Brings(SendAuctionCancelledToBidderMail(a), a.bid)
<1> DEFINE a == auctions[id]
<1>1. /\ a.bid \in Nat /\ a.deposit \in Nat /\ a.bidder \in Owners /\ {} \in SUBSET Items
      /\ (a.bidder = Server => a.bid = 0)
  BY LiveIsEntry DEF PlayersOnly, GoodEntry, Live
<1>2. CASE a.bid # 0 /\ a.bidder # Server
  <2>1. a.bidder \in Players /\ a.bidder \in exists
    BY <1>1, <1>2 DEF PlayersOnly, Owners
  <2>2. Brings(Mailed(mailbox, a.bidder, a.bid, {}), a.bid)
    BY <1>1, <2>1, MailBrings
  <2> QED
    BY <1>2, <2>2 DEF SendAuctionCancelledToBidderMail
<1>3. CASE ~(a.bid # 0 /\ a.bidder # Server)
  <2>1. a.bid = 0
    BY <1>1, <1>3
  <2> QED
    BY <1>3, <2>1, NoMailBrings DEF SendAuctionCancelledToBidderMail
<1> QED
  BY <1>2, <1>3

\* A cancellation pays the bidder back and costs the owner the cut and the deposit.
LEMMA RemoveSettles ==
    ASSUME TypeOK, TypeOK', PlayersOnly, Holding(auctions, auctionItems),
           NEW p \in Players, NEW id \in Ids, HandleAuctionRemoveItem(p, id)
    PROVE  Settles
<1> DEFINE a == auctions[id]
           m == SendAuctionCancelledToBidderMail(a)
           c == GetAuctionCut(a)
<1>1. CanRemove(p, id) /\ id \in Live /\ a \in AuctionEntry /\ ~a.sold /\ exists' = exists
  BY CancelType, LiveIsEntry, AItemIs DEF HandleAuctionRemoveItem, CanRemove
<1>2. a.bid \in Nat /\ a.deposit \in Nat /\ c \in 0..a.bid
  BY <1>1, CutBounded, LiveIsEntry
<1>3. m \in Mailboxes /\ {a.item} \in SUBSET Items /\ Brings(m, a.bid)
  <2>1. m \in Mailboxes /\ {a.item} \in SUBSET Items
    BY <1>1, CancelType
  <2>2. Brings(m, a.bid)
    BY <1>1, CancelBrings
  <2> QED
    BY <2>1, <2>2
<1>5. Brings(mailbox', a.bid)
  <2>1. mailbox' = Mailed(m, p, 0, {a.item}) /\ p \in exists
    BY DEF HandleAuctionRemoveItem, PlayersOnly
  <2> HIDE DEF a, m
  <2> QED
    BY <1>2, <1>3, <2>1, ItemBrings
<1>6. InBags(gold') = InBags(gold) - c
  <2>1. CASE a.bid # 0
    <3>1. gold' = [gold EXCEPT ![p] = @ - c] /\ c <= gold[p] /\ c \in Int
      BY <1>1, <1>2, <2>1 DEF HandleAuctionRemoveItem, CanRemove, TypeOK
    <3> HIDE DEF c
    <3> QED
      BY <3>1, Pays
  <2>2. CASE a.bid = 0
    <3>0. InBags(gold) \in Int
      BY SumTypes DEF TypeOK, Balances
    <3>1. gold' = gold /\ c = 0
      BY <1>2, <2>2 DEF HandleAuctionRemoveItem
    <3> HIDE DEF c
    <3> QED
      BY <3>0, <3>1
  <2> QED
    BY <2>1, <2>2
<1>7. Fee(a) = c + a.deposit
  BY <1>1 DEF Fee
<1>8. auctions' = [auctions EXCEPT ![id] = NULL]
  BY DEF HandleAuctionRemoveItem
<1>10. c \in Int /\ a.bid \in Int /\ c - a.bid = Fee(a) - (a.bid + a.deposit)
  <2> HIDE DEF a, c
  <2> QED
    BY <1>2, <1>7
<1> HIDE DEF c
<1> QED
  BY <1>1, <1>5, <1>6, <1>8, <1>10, EndSettles

\* What the mails of a player hold moves to the bag, as far as it is not at its limit.
LEMMA TakeMoneySettles ==
    ASSUME TypeOK, TypeOK', PlayersOnly, LimitsInv, NEW p \in Players, HandleMailTakeMoney(p)
    PROVE  Settles
<1> DEFINE g == gold[p]
           n == mailbox[p].gold
           k == mailbox[p].stored
           r == Receive(g, n)
<1>1. /\ mailbox \in Mailboxes /\ mailbox' \in Mailboxes /\ gold \in Balances
      /\ g \in Nat /\ n \in Nat /\ k \in 0..n /\ g <= MaxGold
  BY DEF TypeOK, Mailboxes, Mails, Balances, LimitsInv, Covered
<1>2. /\ gold' = [gold EXCEPT ![p] = r]
      /\ mailbox' = [mailbox EXCEPT ![p].gold = 0, ![p].stored = 0]
      /\ UNCHANGED auctions /\ UNCHANGED exists
  BY DEF HandleMailTakeMoney, house
<1>3. r \in Nat /\ r <= g + n /\ (AmountsFit => r >= g + k)
  <2>1. r \in Nat /\ r <= g + n /\ (g + k <= MaxGold => r >= g + k)
    BY <1>1, ReceiveIs
  <2>2. AmountsFit => g + k <= MaxGold
    BY DEF AmountsFit, Purse
  <2> QED
    BY <2>1, <2>2
<1>4. /\ mailbox'[p].gold = 0 /\ \A q \in Players : q = p \/ mailbox'[q].gold = mailbox[q].gold
      /\ mailbox'[p].stored = 0 /\ \A q \in Players : q = p \/ mailbox'[q].stored = mailbox[q].stored
  BY <1>1, <1>2 DEF Mailboxes, Mails
<1>5. InMails(mailbox') = InMails(mailbox) + mailbox'[p].gold - n
  BY <1>1, <1>4, MailsChange
<1>6. InStored(mailbox') = InStored(mailbox) + mailbox'[p].stored - k
  BY <1>1, <1>4, StoredChange
<1>7. InBags(gold') = InBags(gold) + (r - g)
  <2>1. gold' = [gold EXCEPT ![p] = @ + (r - g)] /\ r - g \in Int /\ gold[p] + (r - g) \in Nat
    <3> HIDE DEF r
    <3>1. gold[p] \in Nat /\ r \in Nat /\ gold' = [gold EXCEPT ![p] = r]
      BY <1>1, <1>2, <1>3
    <3>2. r = gold[p] + (r - gold[p]) /\ r - gold[p] \in Int
      BY <3>1
    <3> QED
      BY <3>1, <3>2
  <2> HIDE DEF r, g
  <2> QED
    BY <1>1, <2>1, BagsChange
<1>8. InBags(gold) \in Int /\ InMails(mailbox) \in Int /\ InStored(mailbox) \in Int
  BY <1>1, SumTypes
<1> HIDE DEF g, n, k, r
<1>9. InBags(gold') + InMails(mailbox') + 0 <= InBags(gold) + InMails(mailbox)
  BY <1>1, <1>3, <1>4, <1>5, <1>7, <1>8
<1>10. AmountsFit => InBags(gold') + InStored(mailbox') + 0 >= InBags(gold) + InStored(mailbox)
  BY <1>1, <1>3, <1>4, <1>6, <1>7, <1>8
<1>11. Accounted
  BY <1>2, <1>9, <1>10, NothingMoves DEF Leaves
<1> QED
  BY <1>2, <1>11 DEF Settles, PlayersOnly, GoodEntry

\* A login shows what is stored, which is no more than what was shown.
LEMMA LoadSettles ==
    ASSUME TypeOK, TypeOK', PlayersOnly, LimitsInv, NEW p \in Players, LoadMails(p)
    PROVE  Settles
<1>1. /\ mailbox \in Mailboxes /\ mailbox' \in Mailboxes /\ gold \in Balances
      /\ mailbox[p].gold \in Int /\ mailbox[p].stored \in Int
      /\ mailbox[p].stored <= mailbox[p].gold
  BY DEF TypeOK, Mailboxes, Mails, Balances, LimitsInv, Covered
<1>2. UNCHANGED <<exists, gold, auctions>> /\ mailbox' = [mailbox EXCEPT ![p].gold = mailbox[p].stored]
  BY DEF LoadMails, house
<1>3. /\ mailbox'[p].gold = mailbox[p].stored
      /\ \A q \in Players : q = p \/ mailbox'[q].gold = mailbox[q].gold
      /\ \A q \in Players : mailbox'[q].stored = mailbox[q].stored
  BY <1>1, <1>2 DEF Mailboxes, Mails
<1>4. InMails(mailbox') = InMails(mailbox) + mailbox'[p].gold - mailbox[p].gold
  BY <1>1, <1>3, MailsChange
<1>5. InStored(mailbox') = InStored(mailbox)
  BY <1>3, SameGold
<1>6. InBags(gold) \in Int /\ InMails(mailbox) \in Int /\ InStored(mailbox) \in Int
  BY <1>1, SumTypes
<1>7. Leaves(0)
  BY <1>1, <1>2, <1>3, <1>4, <1>5, <1>6 DEF Leaves
<1>8. Accounted
  BY <1>2, <1>7, NothingMoves
<1> QED
  BY <1>2, <1>8 DEF Settles, PlayersOnly, GoodEntry

\* The mails of the house to the seller, of the payment and of the item.
LEMMA OwnerMailGold ==
    ASSUME TypeOK, PlayersOnly, NEW id \in Live
    PROVE  LET a == auctions[id]
           IN  /\ Brings(SendAuctionExpiredMail(a), 0)
               /\ Brings(SendAuctionSuccessfulMail(a), a.bid + a.deposit - GetAuctionCut(a))
               /\ a.bid + a.deposit - GetAuctionCut(a) \in Nat
<1> DEFINE a == auctions[id]
           n == a.bid + a.deposit - GetAuctionCut(a)
<1>1. /\ a \in AuctionEntry /\ mailbox \in Mailboxes /\ GetAItem(a) \in SUBSET Items
      /\ {} \in SUBSET Items /\ a.owner \in Players /\ a.owner \in exists
  BY LiveIsEntry DEF TypeOK, Mailboxes, PlayersOnly, GoodEntry, Live
<1>2. a.bid \in Nat /\ a.deposit \in Nat /\ GetAuctionCut(a) \in 0..a.bid
  BY <1>1, CutBounded DEF AuctionEntry
<1>3. n \in Nat /\ n <= a.bid + a.deposit
  <2> HIDE DEF a
  <2> QED
    BY <1>2
<1>4. Brings(Mailed(mailbox, a.owner, 0, GetAItem(a)), 0)
  <2>1. Brings(mailbox, 0)
    BY NoMailBrings
  <2> HIDE DEF a, n
  <2> QED
    BY <1>1, <2>1, ItemBrings
<1>5. Brings(Mailed(mailbox, a.owner, n, {}), n)
  <2> HIDE DEF n
  <2> QED
    BY <1>1, <1>3, MailBrings
<1> QED
  BY <1>3, <1>4, <1>5 DEF SendAuctionExpiredMail, SendAuctionSuccessfulMail

\* The house's update of an auction.
LEMMA HouseSettles ==
    ASSUME TypeOK, TypeOK', PlayersOnly, Holding(auctions, auctionItems), NEW id \in Ids,
           TimePasses(id) \/ HouseStep(id) \/ (CrashStep /\ Crash_Won(id))
    PROVE  Settles
<1> DEFINE a == auctions[id]
<1>1. id \in Live /\ a \in AuctionEntry /\ mailbox \in Mailboxes /\ exists' = exists /\ gold' = gold
  BY LiveIsEntry DEF TimePasses, HouseStep, Crash_Won, Update_Won, Update_Expired, Update_Paid,
     Expiring, Sold, goods, TypeOK, Mailboxes, Crash_Selling
<1>2. /\ InBags(gold') = InBags(gold) - 0 /\ 0 \in Int
      /\ a.bid \in Nat /\ a.deposit \in Nat /\ GetAuctionCut(a) \in 0..a.bid
  <2>1. InBags(gold) \in Int
    BY SumTypes DEF TypeOK, Balances
  <2>2. a.bid \in Nat /\ a.deposit \in Nat /\ GetAuctionCut(a) \in 0..a.bid
    BY <1>1, CutBounded DEF AuctionEntry
  <2> HIDE DEF a
  <2> QED
    BY <1>1, <2>1, <2>2
<1>3. \A e \in {[a EXCEPT !.due = TRUE], WithoutItem(AsSold(a)), [AsSold(a) EXCEPT !.item = NULL]} :
         /\ e \in AuctionEntry
         /\ e.owner = a.owner /\ e.bidder = a.bidder /\ e.bid = a.bid /\ e.deposit = a.deposit
  <2> HIDE DEF a
  <2>1. \A e \in {[a EXCEPT !.due = TRUE], WithoutItem(AsSold(a)), [AsSold(a) EXCEPT !.item = NULL]} :
           e \in AuctionEntry
    BY <1>1, EntryTypes
  <2>2. AsSold(a) \in AuctionEntry /\ AsSold(a).owner = a.owner /\ AsSold(a).bidder = a.bidder
         /\ AsSold(a).bid = a.bid /\ AsSold(a).deposit = a.deposit
    BY <1>1, EntryTypes DEF AsSold, AuctionEntry
  <2>3. \A e \in {[a EXCEPT !.due = TRUE], WithoutItem(AsSold(a)), [AsSold(a) EXCEPT !.item = NULL]} :
           e.owner = a.owner /\ e.bidder = a.bidder /\ e.bid = a.bid /\ e.deposit = a.deposit
    BY <1>1, <2>2 DEF WithoutItem, AuctionEntry
  <2> QED
    BY <2>1, <2>3
<1>4. CASE TimePasses(id)
  <2>1. auctions' = [auctions EXCEPT ![id] = [a EXCEPT !.due = TRUE]] /\ mailbox' = mailbox
    BY <1>4 DEF TimePasses, goods
  <2> QED
    BY <1>1, <1>3, <2>1, SameEntrySettles
<1>5. CASE Update_Won(id)
  <2>1. AuctionBidWinning(id, a, mailbox)
    BY <1>5 DEF Update_Won
  <2>2. /\ auctions' = [auctions EXCEPT ![id] = WithoutItem(AsSold(a))]
        /\ \A p \in Players : /\ mailbox'[p].gold = mailbox[p].gold
                              /\ mailbox'[p].stored = mailbox[p].stored
    BY <1>1, <2>1, WinningGold
  <2>3. InStored(mailbox') = InStored(mailbox) /\ InMails(mailbox') = InMails(mailbox)
    BY <2>2, SameGold
  <2> QED
    BY <1>1, <1>3, <2>2, <2>3, SameEntrySettles
<1>6. CASE CrashStep /\ Crash_Won(id)
  <2>1. /\ auctions' = [auctions EXCEPT ![id] = [AsSold(a) EXCEPT !.item = NULL]]
        /\ mailbox' = Reloaded(mailbox)
    BY <1>6 DEF Crash_Won, Crash_Selling
  <2>2. InStored(mailbox') = InStored(mailbox)
    BY <1>1, <2>1, ReloadedSame
  <2> QED
    BY <1>1, <1>3, <1>6, <2>1, <2>2, SameEntrySettles
<1>7. CASE Update_Expired(id)
  <2>1. /\ auctions' = [auctions EXCEPT ![id] = NULL] /\ a.bid = 0 /\ ~a.sold
        /\ mailbox' = SendAuctionExpiredMail(a)
    BY <1>7 DEF Update_Expired, Expiring
  <2>2. Brings(mailbox', 0)
    BY <1>1, <2>1, OwnerMailGold
  <2>3. Fee(a) = a.deposit
    BY <1>2, <2>1 DEF Fee
  <2>4. 0 - 0 = Fee(a) - (a.bid + a.deposit)
    BY <1>2, <2>1, <2>3
  <2> HIDE DEF a
  <2> QED
    BY <1>1, <1>2, <2>1, <2>2, <2>4, EndSettles DEF a
<1>8. CASE Update_Paid(id)
  <2>1. /\ auctions' = [auctions EXCEPT ![id] = NULL] /\ a.sold
        /\ mailbox' = SendAuctionSuccessfulMail(a)
    BY <1>8 DEF Update_Paid, Sold
  <2> DEFINE n == a.bid + a.deposit - GetAuctionCut(a)
  <2>2. Brings(mailbox', n)
    BY <1>1, <2>1, OwnerMailGold
  <2>3. Fee(a) = GetAuctionCut(a)
    BY <1>2, <2>1 DEF Fee
  <2>4. n \in Int /\ 0 - n = Fee(a) - (a.bid + a.deposit)
    <3> HIDE DEF a
    <3> QED
      BY <1>2, <2>3
  <2> HIDE DEF n
  <2> QED
    BY <1>1, <1>2, <2>1, <2>2, <2>4, EndSettles
<1> QED
  BY <1>4, <1>5, <1>6, <1>7, <1>8 DEF HouseStep

\* A crash with only mails stored: their gold is handed out twice.
LEMMA MailsOnlySettles ==
    ASSUME TypeOK, TypeOK', PlayersOnly, CrashStep, NEW m \in Mailboxes, NEW n \in Nat,
           Brings(m, n), Crash_MailsOnly(m)
    PROVE  Settles
<1>1. /\ mailbox' = Reloaded(m) /\ UNCHANGED auctions /\ UNCHANGED gold /\ UNCHANGED exists
      /\ InStored(mailbox') = InStored(m)
  BY ReloadedSame DEF Crash_MailsOnly
<1>2. InBags(gold) \in Int /\ InStored(mailbox) \in Int /\ InStored(m) \in Int
  BY SumTypes DEF TypeOK, Balances, Mailboxes
<1>3. InBags(gold') + InStored(mailbox') + 0 >= InBags(gold) + InStored(mailbox)
  BY <1>1, <1>2 DEF Brings
<1>4. Accounted
  BY <1>1, <1>3, NothingMoves DEF Leaves
<1> QED
  BY <1>1, <1>4 DEF Settles, PlayersOnly, GoodEntry

\* A crash in the middle of a bid, a return or a payment.
LEMMA CrashSettles ==
    ASSUME TypeOK, TypeOK', PlayersOnly, CrashStep, NEW id \in Ids,
           \/ Crash_Deleting(id)
           \/ \E p \in Players, price \in Prices : Crash_Bidding(p, id, price)
    PROVE  Settles
<1> DEFINE a == auctions[id]
           c == SendAuctionCancelledToBidderMail(a)
<1>1. id \in Live
  BY DEF Crash_Deleting, Crash_Bidding, CanBid, CanRemove, Expiring, Sold
<1>2. a.bid \in Nat /\ 0 \in Nat /\ a.bid + a.deposit - GetAuctionCut(a) \in Nat
  BY <1>1, LiveIsEntry, OwnerMailGold
<1>5. ASSUME NEW p \in Players, NEW price \in Prices, Crash_Bidding(p, id, price)
      PROVE  Settles
  <2> DEFINE m == Refunded(a, p, price)
             k == IF Outbids(a, p) THEN a.bid ELSE 0
  <2>1. Crash_MailsOnly(m) /\ m \in Mailboxes /\ k \in Nat
    BY <1>1, <1>2, <1>5, RefundedType DEF Crash_Bidding
  <2>2. Brings(m, k)
    BY <1>1, <1>5, ConstantTypes, RefundBrings
  <2> HIDE DEF m, k
  <2> QED
    BY <2>1, <2>2, MailsOnlySettles
<1>6. Brings(c, a.bid)
  BY <1>1, CancelBrings
<1>7. ASSUME NEW p \in Players, CanRemove(p, id), Crash_MailsOnly(c)
      PROVE  Settles
  <2>1. c \in Mailboxes
    BY <1>7, CancelType
  <2> HIDE DEF a, c
  <2> QED
    BY <1>2, <1>6, <1>7, <2>1, MailsOnlySettles
<1>8. ASSUME NEW p \in Players, CanRemove(p, id), Crash_MailsOnly(Mailed(c, p, 0, {a.item}))
      PROVE  Settles
  <2> DEFINE m == Mailed(c, p, 0, {a.item})
  <2>1. /\ m \in Mailboxes /\ c \in Mailboxes /\ {a.item} \in SUBSET Items /\ p \in exists
    BY <1>8, CancelType DEF PlayersOnly
  <2>2. Brings(m, a.bid)
    <3> HIDE DEF a, c
    <3> QED
      BY <1>2, <1>6, <1>8, <2>1, ItemBrings
  <2>3. Crash_MailsOnly(m)
    BY <1>8
  <2> HIDE DEF a, m
  <2> QED
    BY <1>2, <2>1, <2>2, <2>3, MailsOnlySettles
<1>9. CASE Crash_MailsOnly(SendAuctionExpiredMail(a))
  <2>1. /\ SendAuctionExpiredMail(a) \in Mailboxes
        /\ Brings(SendAuctionExpiredMail(a), 0)
    BY <1>1, OwnerMailType, OwnerMailGold
  <2> HIDE DEF a
  <2> QED
    BY <1>2, <1>9, <2>1, MailsOnlySettles
<1>10. CASE Crash_MailsOnly(SendAuctionSuccessfulMail(a))
  <2>1. /\ SendAuctionSuccessfulMail(a) \in Mailboxes
        /\ Brings(SendAuctionSuccessfulMail(a), a.bid + a.deposit - GetAuctionCut(a))
    BY <1>1, OwnerMailType, OwnerMailGold
  <2> HIDE DEF a
  <2> QED
    BY <1>2, <1>10, <2>1, MailsOnlySettles
<1> QED
  BY <1>5, <1>7, <1>8, <1>9, <1>10 DEF Crash_Deleting

\* Every step between players settles.
LEMMA StepSettles ==
    ASSUME BetweenPlayers, TypeOK, TypeOK', PlayersOnly, LimitsInv, AuctionsHoldTheirItems,
           [Next]_vars
    PROVE  Settles
<1>0. Holding(auctions, auctionItems)
  BY HoldingPointwise
<1>1. ASSUME UNCHANGED <<exists, gold, auctions>>,
             \A p \in Players : /\ mailbox'[p].gold = mailbox[p].gold
                                /\ mailbox'[p].stored = mailbox[p].stored
      PROVE  Settles
  <2>1. InMails(mailbox') = InMails(mailbox) /\ InStored(mailbox') = InStored(mailbox)
    BY <1>1, SameGold
  <2>3. InBags(gold) \in Int /\ InMails(mailbox) \in Int /\ InStored(mailbox) \in Int
    BY SumTypes DEF TypeOK, Balances, Mailboxes
  <2>4. Leaves(0)
    BY <1>1, <2>1, <2>3 DEF Leaves
  <2>2. Accounted
    BY <1>1, <2>4, NothingMoves
  <2> QED
    BY <1>1, <2>2 DEF Settles, PlayersOnly, GoodEntry
<1>2. CASE UNCHANGED vars
  BY <1>1, <1>2 DEF vars, goods, house
<1>3. ASSUME NEW p \in Players, PlayerStep(p) PROVE Settles
  <2>1. ASSUME NEW i \in Items, HandleMailTakeItem(p, i) PROVE Settles
    <3>1. /\ UNCHANGED <<exists, gold, auctions>>
          /\ \A q \in Players : /\ mailbox'[q].gold = mailbox[q].gold
                                /\ mailbox'[q].stored = mailbox[q].stored
      BY <2>1 DEF HandleMailTakeItem, house, TypeOK
    <3> QED
      BY <1>1, <3>1
  <2>2. ~DeleteCharacter(p)
    BY DEF DeleteCharacter, BetweenPlayers
  <2> QED
    BY <1>0, <1>3, <2>1, <2>2, SellSettles, RemoveSettles, BidSettles, TakeMoneySettles,
       LoadSettles DEF PlayerStep
<1>4. ASSUME NEW id \in Ids, TimePasses(id) \/ HouseStep(id) PROVE Settles
  BY <1>0, <1>4, HouseSettles
<1>5. ~BotStep
  BY DEF BetweenPlayers, BotStep, BotMayBid, PlaceBidToEntry, BuyEntry, addNewAuctions
<1>6. CASE CrashStep
  <2>1. PICK id \in Ids :
          \/ Crash_Deleting(id)
          \/ Crash_Won(id)
          \/ \E p \in Players, price \in Prices :
                Crash_Bidding(p, id, price) \/ Crash_Buyout(p, id, price)
    BY <1>6 DEF CrashStep
  <2>2. CASE Crash_Won(id)
    BY <1>0, <1>6, <2>2, HouseSettles
  <2>3. CASE \E p \in Players, price \in Prices : Crash_Buyout(p, id, price)
    BY <1>6, <2>3, BidSettles
  <2> QED
    BY <1>6, <2>1, <2>2, <2>3, CrashSettles
<1> QED
  BY <1>2, <1>3, <1>4, <1>5, <1>6 DEF Next

\* Between players, what they have and are shown never grows, whatever is bid, outbid,
\* bought, cancelled or delivered late, but by a crash, which may hand gold out twice;
\* and what they have for sure loses nothing but the house's fees, crash or not, as
\* long as no auction holds gold beyond a mail's column and nobody is at the limit.
THEOREM GoldAccountedCorrect ==
    ASSUME BetweenPlayers
    PROVE  Spec => GoldAccounted
<1>1. Init => PlayersOnly /\ BidsInv /\ LimitsInv
  BY LimitsStart DEF Init, PlayersOnly, GoodEntry
<1>2. TypeOK /\ TypeOK' /\ PlayersOnly /\ BidsInv /\ LimitsInv /\ AuctionsHoldTheirItems /\ [Next]_vars
          => PlayersOnly' /\ BidsInv' /\ LimitsInv' /\ [Accounted]_vars
  BY StepSettles, BidsStay, LimitsStay DEF Settles
<1>3. GoldAccounted <=> [][Accounted]_vars
  BY PTL DEF GoldAccounted, Accounted
<1> QED
  BY <1>1, <1>2, <1>3, TypeCorrect, HoldingCorrect, PTL DEF Spec

(***************************************************************************)
(* What others do to a player's gold, with any deletions, bots and         *)
(* crashes.  A refund is whole because the player's open bids fit the      *)
(* column (Refundable), and raising one's own bid is never paid for by the *)
(* house because no bid is above its buyout (BidsInv).                     *)
(***************************************************************************)
\* The action of WorthKept.
KeepsWorth(p) ==
    \/ Worth(p)' >= Worth(p)
    \/ gold'[p] < gold[p]
    \/ \E id \in Ids : Wins(p, id)
    \/ CrashStep

KeptForAll == \A p \in exists \cap exists' : Refundable(p) => KeepsWorth(p)

LEMMA WorthIs ==
    ASSUME TypeOK, TypeOK', NEW p \in Players
    PROVE  /\ Worth(p) = gold[p] + mailbox[p].stored + InOpen(auctions, p)
           /\ Worth(p)' = gold'[p] + mailbox'[p].stored + InOpen(auctions', p)
<1>1. /\ gold \in Balances /\ mailbox \in Mailboxes /\ auctions \in Auctions
      /\ gold' \in Balances /\ mailbox' \in Mailboxes /\ auctions' \in Auctions
  BY DEF TypeOK, Balances, Mailboxes, Auctions
<1>2. SumFunction(OpenBids(p)) = InOpen(auctions, p)
  BY <1>1, SumsAre DEF OpenBids, Live
<1>3. SumFunction(OpenBids(p))' = InOpen(auctions', p)
  BY <1>1, SumsAre DEF OpenBids, Live
<1> QED
  BY <1>2, <1>3 DEF Worth, Purse

\* The sum of a player's open bids is a number.
LEMMA OpenType ==
    ASSUME TypeOK, NEW p
    PROVE  InOpen(auctions, p) \in Int
<1>1. \A id \in Ids : OpenIn(auctions[id], p) \in Nat
  BY EntryGold DEF TypeOK
<1>2. \A id \in Ids : [o \in Ids |-> OpenIn(auctions[o], p)][id] \in Int
  BY <1>1
<1> QED
  BY <1>2, SumTakeOut, AuctionHouseAssumption DEF InOpen

\* The auctions stay as they are.
LEMMA WorthOfGoods ==
    ASSUME TypeOK, TypeOK', UNCHANGED auctions, NEW p \in Players,
           gold'[p] + mailbox'[p].stored >= gold[p] + mailbox[p].stored
    PROVE  KeepsWorth(p)
<1>1. /\ InOpen(auctions, p) \in Int
      /\ gold[p] \in Int /\ mailbox[p].stored \in Int /\ gold'[p] \in Int /\ mailbox'[p].stored \in Int
  BY OpenType DEF TypeOK, Mails
<1>2. Worth(p)' >= Worth(p)
  BY <1>1, WorthIs
<1> QED
  BY <1>2 DEF KeepsWorth

\* One auction changes: what was open in it is still open or has come back.
LEMMA WorthOfOne ==
    ASSUME TypeOK, TypeOK', NEW id \in Ids, NEW e \in AuctionEntry \cup {NULL},
           auctions' = [auctions EXCEPT ![id] = e], NEW p \in Players,
           gold'[p] + mailbox'[p].stored + OpenIn(e, p)
               >= gold[p] + mailbox[p].stored + OpenIn(auctions[id], p)
    PROVE  KeepsWorth(p)
<1>1. auctions \in Auctions /\ auctions[id] \in AuctionEntry \cup {NULL}
  BY DEF TypeOK, Auctions
<1>2. /\ gold[p] \in Int /\ mailbox[p].stored \in Int
      /\ gold'[p] \in Int /\ mailbox'[p].stored \in Int
  BY DEF TypeOK, Mails
<1>5. InOpen(auctions, p) \in Int
  BY OpenType
<1>6. OpenIn(e, p) \in Int /\ OpenIn(auctions[id], p) \in Int
  BY <1>1, EntryGold
<1>7. Worth(p) = gold[p] + mailbox[p].stored + InOpen(auctions, p)
  BY WorthIs
<1>8. Worth(p)' = gold'[p] + mailbox'[p].stored + InOpen(auctions', p)
  BY WorthIs
<1>3. InOpen(auctions', p) = InOpen(auctions, p) + OpenIn(e, p) - OpenIn(auctions[id], p)
  BY <1>1, HouseChange
<1>4. Worth(p)' >= Worth(p)
  BY <1>2, <1>3, <1>5, <1>6, <1>7, <1>8
<1> QED
  BY <1>4 DEF KeepsWorth

\* A mail to q takes nothing from p, and brings q what the column keeps of its gold.
LEMMA MailedToOne ==
    ASSUME TypeOK, NEW m \in Mailboxes, NEW q \in Owners, NEW n \in Nat, NEW I \in SUBSET Items,
           NEW p \in exists
    PROVE  /\ m[p].stored \in Nat /\ InColumn(n) \in Nat
           /\ Mailed(m, q, n, I)[p].stored = m[p].stored + (IF p = q THEN InColumn(n) ELSE 0)
           /\ p = q => I \subseteq Mailed(m, q, n, I)[p].items
<1>1. p \in Players /\ m[p].stored \in Nat /\ InColumn(n) \in Nat
  BY InColumnIs DEF TypeOK, Mailboxes, Mails
<1> QED
  BY <1>1 DEF Mailed, Mailboxes

\* The refund of a bid that is open brings all of it.
LEMMA RefundIsWhole ==
    ASSUME TypeOK, NEW id \in Live, NEW p \in Players, Refundable(p)
    PROVE  /\ OpenIn(auctions[id], p) \in Nat
           /\ OpenIn(auctions[id], p) <= (IF p = auctions[id].bidder THEN InColumn(auctions[id].bid) ELSE 0)
<1> DEFINE a == auctions[id]
<1>1. /\ a.bid \in Nat /\ a # NULL /\ id \in Ids
  BY LiveIsEntry, ConstantTypes DEF Live
<1>2. InColumn(a.bid) \in Nat
  BY <1>1, InColumnIs
<1>3. CASE a.bidder = p /\ ~a.sold
  <2>1. OpenIn(a, p) = a.bid /\ OpenBids(p)[id] = a.bid
    BY <1>1, <1>3 DEF OpenIn, OpenBids
  <2>2. a.bid < ColumnSize
    BY <1>1, <2>1 DEF Refundable
  <2>3. InColumn(a.bid) = a.bid
    BY <1>1, <2>2, InColumnIs
  <2> HIDE DEF a
  <2> QED
    BY <1>1, <1>3, <2>1, <2>3 DEF a
<1>4. CASE ~(a.bidder = p /\ ~a.sold)
  <2>1. OpenIn(a, p) = 0
    BY <1>4 DEF OpenIn
  <2> HIDE DEF a
  <2> QED
    BY <1>2, <2>1 DEF a
<1> QED
  BY <1>3, <1>4

\* A bid of a player or of the bot.
LEMMA BidKeepsWorth ==
    ASSUME TypeOK, TypeOK', BidsInv, Holding(auctions, auctionItems), NEW id \in Live,
           NEW b \in Owners, NEW n \in Nat, b # Server => n > auctions[id].bid,
           UpdateBid(id, n, b), NEW p \in exists, Refundable(p)
    PROVE  KeepsWorth(p)
<1> DEFINE old == auctions[id]
           a   == WithBid(old, b, n)
           m   == Refunded(old, b, n)
<1>1. /\ id \in Ids /\ old \in AuctionEntry /\ old # NULL /\ old.bid \in Nat /\ old.buyout \in Nat
      /\ old.bidder \in Owners /\ (old.buyout # 0 => old.bid <= old.buyout) /\ p \in Players
      /\ gold \in Balances /\ mailbox \in Mailboxes /\ p # Server
  BY LiveIsEntry, ConstantTypes DEF Live, BidsInv, TypeOK, Balances, Mailboxes
<1>2. /\ a \in AuctionEntry /\ a.bidder = b /\ a.bid = Clamped(old, n) /\ a.sold = old.sold
      /\ a.item = old.item /\ WithoutItem(AsSold(a)) \in AuctionEntry
      /\ WithoutItem(AsSold(a)).bidder = b /\ WithoutItem(AsSold(a)).sold /\ a # NULL
      /\ WithoutItem(AsSold(a)) # NULL
  BY BidOpens, ConstantTypes
<1>3. m \in Mailboxes
  BY RefundedType
<1>4. gold' = Paid(b, Charged(old, b, n))
  BY DEF UpdateBid
<1>5. /\ Buys(old, n) => AuctionBidWinning(id, a, m)
      /\ ~Buys(old, n) => mailbox' = m /\ auctions' = [auctions EXCEPT ![id] = a]
  BY DEF UpdateBid
<1>6. PICK e \in {a, WithoutItem(AsSold(a))} :
          /\ auctions' = [auctions EXCEPT ![id] = e] /\ mailbox'[p].stored = m[p].stored
          /\ Buys(old, n) => e = WithoutItem(AsSold(a))
          /\ ~Buys(old, n) => e = a
  BY <1>1, <1>2, <1>3, <1>5, WinningGold
<1>7. e \in AuctionEntry /\ e.bidder = b /\ e # NULL
  BY <1>2
<1>8. m[p].stored = mailbox[p].stored + (IF p # b /\ p = old.bidder THEN InColumn(old.bid) ELSE 0)
  <2>1. mailbox[p].stored \in Nat /\ {} \in SUBSET Items
    BY <1>1 DEF Mailboxes, Mails
  <2>2. Mailed(mailbox, old.bidder, old.bid, {})[p].stored
           = mailbox[p].stored + (IF p = old.bidder THEN InColumn(old.bid) ELSE 0)
    BY <1>1, MailedToOne
  <2> HIDE DEF old
  <2> QED
    BY <1>1, <2>1, <2>2 DEF Refunded, SendAuctionOutbiddedMail, Outbids
<1>9. gold[p] \in Nat /\ mailbox[p].stored \in Nat /\ InColumn(old.bid) \in Nat
  BY <1>1, InColumnIs DEF Balances, Mailboxes, Mails
<1>10. CASE p # b
  <2>1. gold'[p] = gold[p]
    BY <1>1, <1>4, <1>10 DEF Paid, Balances
  <2>2. OpenIn(e, p) = 0
    BY <1>7, <1>10 DEF OpenIn
  <2>3. OpenIn(old, p) <= (IF p = old.bidder THEN InColumn(old.bid) ELSE 0) /\ OpenIn(old, p) \in Nat
    BY <1>1, RefundIsWhole
  <2> HIDE DEF old, m
  <2>4. gold'[p] + mailbox'[p].stored + OpenIn(e, p) >= gold[p] + mailbox[p].stored + OpenIn(old, p)
    BY <1>1, <1>6, <1>8, <1>9, <1>10, <2>1, <2>2, <2>3
  <2> QED
    BY <1>1, <1>6, <1>7, <2>4, WorthOfOne DEF old
<1>11. CASE p = b
  <2> DEFINE c == Charged(old, b, n)
  <2>1. Clamped(old, n) \in Nat /\ Clamped(old, n) >= old.bid /\ Clamped(old, n) > 0
    BY <1>1, <1>11 DEF Clamped
  <2>2. c = IF b = old.bidder THEN Clamped(old, n) - old.bid ELSE Clamped(old, n)
    BY <1>1, <1>11 DEF Charged
  <2>3. gold'[p] = gold[p] - c
    BY <1>1, <1>4, <1>11 DEF Paid, Balances
  <2>4. CASE c > 0
    <3>1. gold'[p] < gold[p]
      BY <1>9, <2>1, <2>2, <2>3, <2>4, <1>1
    <3> QED
      BY <3>1 DEF KeepsWorth
  <2>5. CASE ~(c > 0)
    <3>1. b = old.bidder /\ Clamped(old, n) = old.bid /\ gold'[p] = gold[p]
      BY <1>1, <1>9, <2>1, <2>2, <2>3, <2>5
    <3>2. mailbox'[p].stored = mailbox[p].stored
      BY <1>6, <1>8, <1>9, <1>11
    <3>3. CASE ~Buys(old, n) \/ old.sold
      <4>1. OpenIn(e, p) = OpenIn(old, p)
        BY <1>1, <1>2, <1>6, <1>7, <1>11, <3>1, <3>3 DEF OpenIn
      <4>2. OpenIn(old, p) \in Nat
        BY <1>1, EntryGold
      <4> HIDE DEF old
      <4>3. gold'[p] + mailbox'[p].stored + OpenIn(e, p) >= gold[p] + mailbox[p].stored + OpenIn(old, p)
        BY <1>9, <3>1, <3>2, <4>1, <4>2
      <4> QED
        BY <1>1, <1>6, <1>7, <4>3, WorthOfOne DEF old
    <3>4. CASE Buys(old, n) /\ ~old.sold
      <4>1. auctions'[id] = WithoutItem(AsSold(a))
        BY <1>1, <1>6, <3>4 DEF TypeOK
      <4>2. old.item \in auctionItems
        BY AItemIs, <3>4
      <4>3. AsSold(a).item = old.item /\ AsSold(a).bidder = b
        BY <1>2 DEF AsSold, AuctionEntry
      <4>4. mailbox' = Mailed(m, b, 0, {old.item}) /\ {old.item} \in SUBSET Items
        BY <1>5, <3>4, <4>2, <4>3 DEF AuctionBidWinning, SendAuctionWonMail, GetAItem, TypeOK
      <4> HIDE DEF m, old
      <4>5. old.item \in mailbox'[p].items
        BY <1>3, <1>11, <4>4, MailedToOne
      <4>6. ~Sold(id) /\ Sold(id)' /\ auctions'[id].bidder = p
        BY <1>1, <1>2, <1>11, <3>4, <4>1 DEF Sold, Live, old
      <4>7. Wins(p, id)
        BY <4>5, <4>6 DEF Wins, old
      <4> QED
        BY <1>1, <4>7 DEF KeepsWorth
    <3> QED
      BY <3>3, <3>4
  <2> QED
    BY <2>4, <2>5
<1> QED
  BY <1>10, <1>11

\* A sale and a new auction of the bot: what is added has no bidder.
LEMMA AddKeepsWorth ==
    ASSUME TypeOK, TypeOK', NEW a \in AuctionEntry, a.bidder = Server, AddAuction(a),
           NEW p \in Players, mailbox' = mailbox, gold'[p] = gold[p]
    PROVE  KeepsWorth(p)
<1>1. PICK id \in Ids \ Live : auctions' = [auctions EXCEPT ![id] = a]
  BY DEF AddAuction
<1>2. OpenIn(a, p) = 0 /\ OpenIn(auctions[id], p) = 0
  BY ConstantTypes DEF OpenIn, Live
<1>3. gold[p] \in Nat /\ mailbox[p].stored \in Nat
  BY DEF TypeOK, Mails
<1>4. gold'[p] + mailbox'[p].stored + OpenIn(a, p) >= gold[p] + mailbox[p].stored + OpenIn(auctions[id], p)
  BY <1>2, <1>3
<1> QED
  BY <1>1, <1>4, WorthOfOne

\* A cancellation by q.
LEMMA RemoveKeepsWorth ==
    ASSUME TypeOK, TypeOK', Holding(auctions, auctionItems), NEW q \in Players, NEW id \in Ids,
           HandleAuctionRemoveItem(q, id), NEW p \in exists, Refundable(p)
    PROVE  KeepsWorth(p)
<1> DEFINE a == auctions[id]
           m == SendAuctionCancelledToBidderMail(a)
<1>1. /\ CanRemove(q, id) /\ id \in Live /\ a \in AuctionEntry /\ a.bid \in Nat
      /\ a.bidder \in Owners /\ p \in Players /\ q \in Owners /\ p # Server
      /\ mailbox \in Mailboxes /\ m \in Mailboxes /\ {a.item} \in SUBSET Items
      /\ GetAuctionCut(a) \in 0..a.bid
  BY CancelType, LiveIsEntry, CutBounded, ConstantTypes
     DEF HandleAuctionRemoveItem, CanRemove, Owners, TypeOK, Mailboxes
<1>2. auctions' = [auctions EXCEPT ![id] = NULL] /\ mailbox' = Mailed(m, q, 0, {a.item})
  BY DEF HandleAuctionRemoveItem
<1>3. m[p].stored = mailbox[p].stored + (IF p = a.bidder THEN InColumn(a.bid) ELSE 0)
  <2>1. mailbox[p].stored \in Nat /\ {} \in SUBSET Items
    BY <1>1 DEF Mailboxes, Mails
  <2>2. Mailed(mailbox, a.bidder, a.bid, {})[p].stored
           = mailbox[p].stored + (IF p = a.bidder THEN InColumn(a.bid) ELSE 0)
    BY <1>1, <2>1, MailedToOne
  <2>3. InColumn(0) = 0
    BY InColumnIs
  <2> HIDE DEF a
  <2> QED
    BY <1>1, <2>1, <2>2, <2>3 DEF SendAuctionCancelledToBidderMail
<1>4. mailbox'[p].stored = m[p].stored
  <2> HIDE DEF a, m
  <2>1. m[p].stored \in Int /\ InColumn(0) = 0
    BY <1>1, InColumnIs DEF Mailboxes, Mails, TypeOK
  <2>2. Mailed(m, q, 0, {a.item})[p].stored = m[p].stored + (IF p = q THEN InColumn(0) ELSE 0)
    BY <1>1, MailedToOne
  <2> QED
    BY <1>2, <2>1, <2>2
<1>5. gold[p] \in Nat /\ gold'[p] \in Nat /\ mailbox[p].stored \in Nat /\ InColumn(a.bid) \in Nat
  BY <1>1, InColumnIs DEF TypeOK, Mails
<1>6. gold'[p] = gold[p] \/ gold'[p] < gold[p]
  <2>1. gold' = [gold EXCEPT ![q] = @ - GetAuctionCut(a)] \/ gold' = gold
    BY DEF HandleAuctionRemoveItem
  <2>2. GetAuctionCut(a) \in Nat /\ gold \in [Players -> Nat]
    BY <1>1 DEF TypeOK
  <2> HIDE DEF a
  <2> QED
    BY <1>1, <1>5, <2>1, <2>2
<1>7. CASE gold'[p] = gold[p]
  <2>1. OpenIn(NULL, p) = 0 /\ OpenIn(a, p) \in Nat
        /\ OpenIn(a, p) <= (IF p = a.bidder THEN InColumn(a.bid) ELSE 0)
    BY <1>1, RefundIsWhole DEF OpenIn
  <2>2. gold'[p] + mailbox'[p].stored + OpenIn(NULL, p) >= gold[p] + mailbox[p].stored + OpenIn(a, p)
    <3> HIDE DEF a, m
    <3> QED
      BY <1>1, <1>3, <1>4, <1>5, <1>7, <2>1
  <2> QED
    BY <1>1, <1>2, <2>2, WorthOfOne
<1> QED
  BY <1>6, <1>7 DEF KeepsWorth

\* The house's update of an auction.
LEMMA HouseKeepsWorth ==
    ASSUME TypeOK, TypeOK', Holding(auctions, auctionItems), NEW id \in Ids,
           TimePasses(id) \/ HouseStep(id), NEW p \in exists
    PROVE  KeepsWorth(p)
<1> DEFINE a == auctions[id]
<1>1. /\ id \in Live /\ a \in AuctionEntry /\ a # NULL /\ a.bid \in Nat /\ a.bidder \in Owners
      /\ a.owner \in Owners /\ GetAItem(a) \in SUBSET Items /\ {} \in SUBSET Items
      /\ mailbox \in Mailboxes /\ p \in Players /\ gold' = gold
  BY LiveIsEntry, ConstantTypes DEF TimePasses, HouseStep, Update_Won, Update_Expired, Update_Paid,
     Expiring, Sold, goods, TypeOK, Mailboxes, Live
<1>2. gold[p] \in Nat /\ mailbox[p].stored \in Nat /\ OpenIn(a, p) \in Nat
  BY <1>1, EntryGold DEF TypeOK, Mails
<1>3. CASE TimePasses(id)
  <2> DEFINE e == [a EXCEPT !.due = TRUE]
  <2>1. auctions' = [auctions EXCEPT ![id] = e] /\ mailbox' = mailbox
    BY <1>3 DEF TimePasses, goods
  <2>2. e \in AuctionEntry
    BY <1>1, EntryTypes
  <2>3. OpenIn(e, p) = OpenIn(a, p)
    BY <1>1, <2>2, ConstantTypes DEF OpenIn, AuctionEntry
  <2> HIDE DEF e
  <2>4. gold'[p] + mailbox'[p].stored + OpenIn(e, p) >= gold[p] + mailbox[p].stored + OpenIn(a, p)
    BY <1>1, <1>2, <2>1, <2>3
  <2> QED
    BY <1>1, <2>1, <2>2, <2>4, WorthOfOne
<1>4. CASE Update_Won(id)
  <2>1. AuctionBidWinning(id, a, mailbox) /\ ~a.sold
    BY <1>4 DEF Update_Won, Expiring
  <2>2. /\ auctions' = [auctions EXCEPT ![id] = WithoutItem(AsSold(a))]
        /\ mailbox'[p].stored = mailbox[p].stored
    BY <1>1, <2>1, WinningGold
  <2>3. WithoutItem(AsSold(a)) \in AuctionEntry
    BY <1>1, EntryTypes
  <2>4. CASE a.bidder = p
    <3>1. a.item \in auctionItems /\ AsSold(a).item = a.item /\ AsSold(a).bidder = p
      BY <1>1, <2>1, <2>4, AItemIs DEF AsSold, AuctionEntry
    <3>2. mailbox' = Mailed(mailbox, p, 0, {a.item}) /\ {a.item} \in SUBSET Items
      BY <2>1, <3>1 DEF AuctionBidWinning, SendAuctionWonMail, GetAItem, TypeOK
    <3>3. a.item \in mailbox'[p].items
      <4> HIDE DEF a
      <4> QED
        BY <1>1, <3>2, MailedToOne DEF Owners
    <3>4. auctions'[id] = WithoutItem(AsSold(a)) /\ auctions'[id] # NULL
      BY <2>2, <2>3, ConstantTypes DEF TypeOK
    <3>5. WithoutItem(AsSold(a)).sold /\ WithoutItem(AsSold(a)).bidder = a.bidder
      <4>1. AsSold(a) \in AuctionEntry /\ AsSold(a).sold /\ AsSold(a).bidder = a.bidder
        BY <1>1, EntryTypes DEF AsSold, AuctionEntry
      <4> HIDE DEF a
      <4> QED
        BY <4>1 DEF WithoutItem, AuctionEntry
    <3>6. Wins(p, id)
      BY <1>1, <2>1, <2>4, <3>3, <3>4, <3>5 DEF Wins, Sold, Live
    <3> QED
      BY <3>6 DEF KeepsWorth
  <2>5. CASE a.bidder # p
    <3>1. OpenIn(a, p) = 0 /\ OpenIn(WithoutItem(AsSold(a)), p) \in Nat
      BY <2>3, <2>5, EntryGold DEF OpenIn
    <3>2. gold'[p] + mailbox'[p].stored + OpenIn(WithoutItem(AsSold(a)), p)
             >= gold[p] + mailbox[p].stored + OpenIn(a, p)
      BY <1>1, <1>2, <2>2, <3>1
    <3> QED
      BY <1>1, <2>2, <2>3, <3>2, WorthOfOne
  <2> QED
    BY <2>4, <2>5
<1>5. ASSUME auctions' = [auctions EXCEPT ![id] = NULL], OpenIn(a, p) = 0,
             NEW n \in Nat, NEW I \in SUBSET Items, mailbox' = Mailed(mailbox, a.owner, n, I)
      PROVE  KeepsWorth(p)
  <2>1. /\ mailbox'[p].stored = mailbox[p].stored + (IF p = a.owner THEN InColumn(n) ELSE 0)
        /\ InColumn(n) \in Nat
    BY <1>1, <1>5, MailedToOne
  <2>2. OpenIn(NULL, p) = 0
    BY DEF OpenIn
  <2>3. gold'[p] + mailbox'[p].stored + OpenIn(NULL, p) >= gold[p] + mailbox[p].stored + OpenIn(a, p)
    BY <1>1, <1>2, <1>5, <2>1, <2>2
  <2> QED
    BY <1>1, <1>5, <2>3, WorthOfOne
<1>6. CASE Update_Expired(id)
  <2>1. OpenIn(a, p) = 0
    BY <1>6 DEF Update_Expired, OpenIn
  <2> QED
    BY <1>1, <1>5, <1>6, <2>1 DEF Update_Expired, SendAuctionExpiredMail
<1>7. CASE Update_Paid(id)
  <2>1. OpenIn(a, p) = 0
    BY <1>7 DEF Update_Paid, Sold, OpenIn
  <2>2. GetAuctionCut(a) \in 0..a.bid /\ a.deposit \in Nat
    BY <1>1, CutBounded DEF AuctionEntry
  <2>3. a.bid + a.deposit - GetAuctionCut(a) \in Nat
    BY <1>1, <2>2
  <2> QED
    BY <1>1, <1>5, <1>7, <2>1, <2>3 DEF Update_Paid, SendAuctionSuccessfulMail
<1> QED
  BY <1>3, <1>4, <1>6, <1>7 DEF HouseStep

\* What nobody else does costs a player gold.
LEMMA StepKeepsWorth ==
    ASSUME TypeOK, TypeOK', BidsInv, LimitsInv, AuctionsHoldTheirItems, [Next]_vars,
           NEW p \in exists \cap exists', Refundable(p)
    PROVE  KeepsWorth(p)
<1>0. /\ Holding(auctions, auctionItems) /\ p \in exists /\ p \in Players
      /\ gold[p] \in Nat /\ mailbox[p].stored \in Nat
  BY HoldingPointwise DEF TypeOK, Mails
<1>1. ASSUME UNCHANGED auctions, gold'[p] + mailbox'[p].stored = gold[p] + mailbox[p].stored
      PROVE  KeepsWorth(p)
  <2>1. gold'[p] + mailbox'[p].stored >= gold[p] + mailbox[p].stored
    BY <1>0, <1>1
  <2> QED
    BY <1>0, <1>1, <2>1, WorthOfGoods
<1>2. CASE UNCHANGED vars
  BY <1>1, <1>2 DEF vars, goods, house
<1>3. ASSUME NEW q \in Players, PlayerStep(q)
      PROVE  KeepsWorth(p)
  <2>1. ASSUME NEW i \in Items, HandleMailTakeItem(q, i) PROVE KeepsWorth(p)
    <3>1. UNCHANGED auctions /\ gold' = gold /\ mailbox'[p].stored = mailbox[p].stored
      BY <1>0, <2>1 DEF HandleMailTakeItem, house, TypeOK
    <3> QED
      BY <1>0, <1>1, <3>1
  <2>2. CASE HandleMailTakeMoney(q)
    <3> DEFINE r == Receive(gold[p], mailbox[p].gold)
    <3>1. /\ UNCHANGED auctions
          /\ gold'[p] = IF p = q THEN r ELSE gold[p]
          /\ mailbox'[p].stored = IF p = q THEN 0 ELSE mailbox[p].stored
      BY <1>0, <2>2 DEF HandleMailTakeMoney, house, TypeOK, Mails
    <3>2. r \in Nat /\ r >= gold[p] + mailbox[p].stored
      <4>1. mailbox[p].gold \in Nat /\ mailbox[p].stored \in 0..mailbox[p].gold
        BY <1>0 DEF TypeOK, Mails, LimitsInv, Covered
      <4>2. gold[p] + mailbox[p].stored <= MaxGold
        BY <1>0 DEF Refundable, Purse
      <4> QED
        BY <1>0, <4>1, <4>2, ReceiveIs
    <3> HIDE DEF r
    <3>3. gold'[p] + mailbox'[p].stored >= gold[p] + mailbox[p].stored
      BY <1>0, <3>1, <3>2
    <3> QED
      BY <1>0, <3>1, <3>3, WorthOfGoods
  <2>6. CASE LoadMails(q)
    <3>1. UNCHANGED auctions /\ gold' = gold /\ mailbox'[p].stored = mailbox[p].stored
      BY <1>0, <2>6 DEF LoadMails, house, TypeOK, Mails
    <3> QED
      BY <1>0, <1>1, <3>1
  <2>3. CASE DeleteCharacter(q)
    <3>1. p # q /\ UNCHANGED auctions
      BY <2>3 DEF DeleteCharacter, house
    <3>2. gold'[p] = gold[p] /\ mailbox'[p] = mailbox[p]
      BY <1>0, <2>3, <3>1 DEF DeleteCharacter, TypeOK
    <3> QED
      BY <1>1, <3>1, <3>2
  <2>4. ASSUME NEW i \in Items, NEW n \in 1..MaxStack, NEW s \in StartBids, NEW b \in Buyouts,
               HandleAuctionSellItem(q, i, n, s, b)
        PROVE  KeepsWorth(p)
    <3>0. PICK j \in Nowhere : AddAuction(NewAuction(j, q, s, b, Deposit))
      BY <2>4 DEF HandleAuctionSellItem
    <3> DEFINE a == NewAuction(j, q, s, b, Deposit)
    <3>1. a \in AuctionEntry /\ a.bidder = Server /\ q \in Owners
      BY NewAuctionType, ConstantTypes DEF Owners, NewAuction, Nowhere
    <3>2. AddAuction(a) /\ mailbox' = mailbox
      BY <2>4, <3>0 DEF HandleAuctionSellItem
    <3>3. gold'[p] = gold[p] \/ gold'[p] < gold[p]
      BY <1>0, <2>4, ConstantTypes DEF HandleAuctionSellItem, TypeOK
    <3> HIDE DEF a
    <3> QED
      BY <1>0, <3>1, <3>2, <3>3, AddKeepsWorth DEF KeepsWorth
  <2>5. ASSUME NEW id \in Ids, NEW price \in Prices, HandleAuctionPlaceBid(q, id, price)
        PROVE  KeepsWorth(p)
    <3>1. /\ id \in Live /\ price \in Nat /\ price > auctions[id].bid /\ q \in Owners
          /\ UpdateBid(id, price, q)
      BY <2>5, ConstantTypes DEF HandleAuctionPlaceBid, CanBid, Owners
    <3> QED
      BY <1>0, <3>1, BidKeepsWorth
  <2> QED
    BY <1>0, <1>3, <2>1, <2>2, <2>3, <2>4, <2>5, <2>6, RemoveKeepsWorth DEF PlayerStep
<1>4. ASSUME NEW id \in Ids, TimePasses(id) \/ HouseStep(id) PROVE KeepsWorth(p)
  BY <1>0, <1>4, HouseKeepsWorth
<1>5. CASE BotStep
  <2>1. ASSUME NEW id \in Ids, PlaceBidToEntry(id) \/ BuyEntry(id)
        PROVE  KeepsWorth(p)
    <3>1. id \in Live
      BY <2>1 DEF PlaceBidToEntry, BuyEntry, BotMayBid
    <3>2. PICK n \in Nat : UpdateBid(id, n, Server)
      BY <2>1, <3>1, OutBidIsNat, LiveIsEntry DEF PlaceBidToEntry, BuyEntry
    <3> QED
      BY <1>0, <3>1, <3>2, BidKeepsWorth DEF Owners
  <2>2. ASSUME NEW i \in Items, NEW n \in 1..MaxStack, NEW s \in StartBids, NEW b \in Buyouts,
               addNewAuctions(i, n, s, b)
        PROVE  KeepsWorth(p)
    <3> DEFINE a == NewAuction(i, Server, s, b, 0)
    <3>1. a \in AuctionEntry /\ a.bidder = Server
      BY NewAuctionType, ConstantTypes DEF Owners, NewAuction
    <3>2. AddAuction(a) /\ mailbox' = mailbox /\ gold' = gold
      BY <2>2 DEF addNewAuctions, goods
    <3> HIDE DEF a
    <3> QED
      BY <1>0, <3>1, <3>2, AddKeepsWorth
  <2> QED
    BY <1>5, <2>1, <2>2 DEF BotStep
<1> QED
  BY <1>2, <1>3, <1>4, <1>5 DEF Next, KeepsWorth

\* Whatever the other players, the bot, the house and deletions do, a player's gold,
\* the gold stored in his mails and his open bids together lose nothing but what buys
\* the item of a won auction, if each of those bids fits the column of a mail and he
\* is not at the limit.
THEOREM WorthKeptCorrect == Spec => WorthKept
<1>1. Init => BidsInv /\ LimitsInv
  BY LimitsStart
<1>2. TypeOK /\ TypeOK' /\ BidsInv /\ LimitsInv /\ AuctionsHoldTheirItems /\ [Next]_vars
          => BidsInv' /\ LimitsInv' /\ [KeptForAll]_vars
  BY BidsStay, LimitsStay, StepKeepsWorth DEF KeptForAll
<1>3. WorthKept <=> [][KeptForAll]_vars
  BY PTL DEF WorthKept, KeptForAll, KeepsWorth
<1> QED
  BY <1>1, <1>2, <1>3, TypeCorrect, HoldingCorrect, PTL DEF Spec
=============================================================================
