---------------------------- MODULE AuctionHouse ----------------------------
(***************************************************************************)
(* One auction house: AuctionHouseHandler.cpp, AuctionHouseMgr.cpp and the *)
(* buyer and seller of AuctionHouseBot.cpp.  An auction holds an item and  *)
(* the best bid; a sold auction (moneyDeliveryTime set) stays in the house *)
(* for an hour without its item and then pays the seller.  Everything      *)
(* reaches the players by mail.                                            *)
(*                                                                         *)
(* All of it runs on the world thread, so one handler is one action.  Most *)
(* operations end in several database transactions, stored in order; a     *)
(* crash between two of them is an action of its own (section "Crashes").  *)
(***************************************************************************)
EXTENDS Integers, FiniteSets, Functions

CONSTANTS
    Players,
    Items,
    Ids,            \* auction ids
    Account,        \* the account of each player
    InitGold,
    InitItems,
    InitCount,      \* the units in each item
    MaxStack,       \* GetMaxStackCount: the most units of one item
    MaxGold,        \* MAX_MONEY_AMOUNT
    ColumnSize,     \* a mail's gold is stored as a 32 bit number: modulo this
    Prices,         \* bids the clients send
    StartBids,
    Buyouts,        \* 0: the auction has no buyout
    Deposit,        \* GetAuctionDeposit
    CutPercent,     \* the house's share of a sale
    Deletable,      \* players whose character may be deleted
    ServerTrades,   \* whether the auction house bot buys and sells
    Crashes,        \* whether the server may crash
    Server,         \* the owner and bidder 0
    NULL

VARIABLES
    exists,         \* players with a character
    gold,
    inventory,
    count,          \* the units in each item; all items are stacks of one kind
    mailbox,        \* the gold and the items in the mails of each player
    auctions,       \* AuctionsMap: an AuctionEntry, or NULL for a free id
    auctionItems    \* mAitems: the items the auction house keeps in memory

bags  == <<inventory, count>>
goods == <<gold, bags, mailbox>>
house == <<auctions, auctionItems>>
vars  == <<exists, goods, house>>

AuctionEntry ==
    [ item:     Items \cup {NULL},
      owner:    Players \cup {Server},
      bidder:   Players \cup {Server},
      bid:      Nat,                    \* 0: no bids
      startbid: Nat,
      buyout:   Nat,
      deposit:  Nat,
      sold:     BOOLEAN,                \* moneyDeliveryTime # 0
      due:      BOOLEAN ]               \* the time it waits for has passed

\* The mails of a player: their gold as the server has it in memory, what the
\* database has of it, and their items.
Mails == [gold: Nat, stored: Nat, items: SUBSET Items]

ASSUME AuctionHouseAssumption ==
    /\ IsFiniteSet(Players) /\ IsFiniteSet(Items) /\ IsFiniteSet(Ids)
    /\ MaxGold \in Nat /\ ColumnSize \in Nat \ {0} /\ MaxStack \in Nat \ {0}
    /\ InitGold \in [Players -> 0..MaxGold]
    /\ InitCount \in [Items -> 1..MaxStack]
    /\ InitItems \in [Players -> SUBSET Items]
    /\ \A p, q \in Players : p # q => InitItems[p] \cap InitItems[q] = {}
    /\ Prices \subseteq Nat \ {0} /\ StartBids \subseteq Nat \ {0} /\ Buyouts \subseteq Nat
    /\ Deposit \in Nat
    /\ CutPercent \in 0..100
    /\ Deletable \subseteq Players
    /\ ServerTrades \in BOOLEAN /\ Crashes \in BOOLEAN
    /\ Server \notin Players
    /\ NULL \notin Items
    /\ NULL \notin AuctionEntry         \* no object is the null pointer

TypeOK ==
    /\ exists \subseteq Players
    /\ gold \in [Players -> Nat]
    /\ inventory \in [Players -> SUBSET Items]
    /\ count \in [Items -> 1..MaxStack]
    /\ mailbox \in [Players -> Mails]
    /\ auctions \in [Ids -> AuctionEntry \cup {NULL}]
    /\ auctionItems \subseteq Items

NoMails == [gold |-> 0, stored |-> 0, items |-> {}]

Init ==
    /\ exists = Players
    /\ gold = InitGold
    /\ inventory = InitItems
    /\ count = InitCount
    /\ mailbox = [p \in Players |-> NoMails]
    /\ auctions = [id \in Ids |-> NULL]
    /\ auctionItems = {}

(***************************************************************************)
(* Mails and prices.                                                       *)
(***************************************************************************)
Live     == {id \in Ids : auctions[id] # NULL}
Sold(id) == id \in Live /\ auctions[id].sold

\* A sum as the column of a mail's gold keeps it.
InColumn(n) == n % ColumnSize

\* SendMailTo: the mail's row gets what is left of its gold in 32 bits.  A mail to a
\* deleted character is dropped with what it holds.
Mailed(m, p, n, I) ==
    IF p \in exists
    THEN [m EXCEPT ![p] = [gold   |-> @.gold + n,
                           stored |-> @.stored + InColumn(n),
                           items  |-> @.items \cup I]]
    ELSE m

\* The gold of the best bid goes back to the one who offered it.
SendAuctionOutbiddedMail(a) == Mailed(mailbox, a.bidder, a.bid, {})

GetAuctionCut(a) == (CutPercent * a.bid) \div 100

\* The least raise over the current bid.
GetAuctionOutBid(a) == IF a.bid < 100 THEN 1 ELSE (a.bid \div 100) * 5

\* The auction's item, as long as the house has it.
GetAItem(a) == IF a.item \in auctionItems THEN {a.item} ELSE {}

WithoutItem(a) == [a EXCEPT !.item = IF a.item \in auctionItems THEN NULL ELSE @]

(***************************************************************************)
(* Selling.                                                                *)
(***************************************************************************)
NewAuction(i, owner, startbid, buyout, deposit) ==
    [item |-> i, owner |-> owner, bidder |-> Server, bid |-> 0, startbid |-> startbid,
     buyout |-> buyout, deposit |-> deposit, sold |-> FALSE, due |-> FALSE]

AddAuction(a) ==
    /\ \E id \in Ids \ Live : auctions' = [auctions EXCEPT ![id] = a]
    /\ auctionItems' = auctionItems \cup {a.item}

Nowhere == {i \in Items : /\ \A p \in Players : i \notin inventory[p] \cup mailbox[p].items
                          /\ \A id \in Live : auctions[id].item # i}

\* HasItemCount: all the units a player carries count.
HasItemCount(p, n) == SumFunctionOnSet(count, inventory[p]) >= n

\* DestroyItemCount: n units of i go, or all of i.  No other stack is touched.
Taken(p, i, n) == IF count[i] <= n THEN [inventory EXCEPT ![p] = @ \ {i}] ELSE inventory
Left(i, n)     == IF count[i] <= n THEN count[i] ELSE count[i] - n

CanSell(p, i, n) ==
    /\ p \in exists /\ i \in inventory[p]
    /\ i \notin auctionItems
    /\ gold[p] >= Deposit
    /\ HasItemCount(p, n)

\* Mutant: puts the item itself into the auction, what is left of it stays in the bag.
HandleAuctionSellItem_NoClone(p, i, n, startbid, buyout) ==
    /\ CanSell(p, i, n)
    /\ inventory' = Taken(p, i, n)
    /\ count' = [count EXCEPT ![i] = Left(i, n)]
    /\ AddAuction(NewAuction(i, p, startbid, buyout, Deposit))
    /\ gold' = [gold EXCEPT ![p] = @ - Deposit]
    /\ UNCHANGED <<exists, mailbox>>
\* Mutant: the units sold are not taken from the bag.
HandleAuctionSellItem_KeepsUnits(p, i, n, startbid, buyout) ==
    /\ CanSell(p, i, n)
    /\ \E j \in Nowhere :
          /\ count' = [count EXCEPT ![j] = n]
          /\ AddAuction(NewAuction(j, p, startbid, buyout, Deposit))
    /\ gold' = [gold EXCEPT ![p] = @ - Deposit]
    /\ UNCHANGED <<exists, inventory, mailbox>>

\* The auction gets a clone with n units and a new guid; the units are taken from
\* the item i the client names and from no other, so if i has fewer the rest is made.
HandleAuctionSellItem(p, i, n, startbid, buyout) ==
    /\ CanSell(p, i, n)
    /\ \E j \in Nowhere :
          /\ count' = [count EXCEPT ![i] = Left(i, n), ![j] = n]
          /\ AddAuction(NewAuction(j, p, startbid, buyout, Deposit))
    /\ inventory' = Taken(p, i, n)
    /\ gold' = [gold EXCEPT ![p] = @ - Deposit]
    /\ UNCHANGED <<exists, mailbox>>

\* AuctionBotSeller: the bot's auctions have items made for them and no deposit.
addNewAuctions(i, n, startbid, buyout) ==
    /\ ServerTrades /\ i \in Nowhere
    /\ count' = [count EXCEPT ![i] = n]
    /\ AddAuction(NewAuction(i, Server, startbid, buyout, 0))
    /\ UNCHANGED <<exists, gold, inventory, mailbox>>

(***************************************************************************)
(* Bidding.  No handler looks at "sold": an auction that is only waiting   *)
(* for its money to be delivered is still bid on.                          *)
(***************************************************************************)
\* Mutants: the bidder's gold is not checked; the bid is not compared to the last.
CanBid_NoGold(p, id, price) ==
    LET a == auctions[id]
    IN  /\ p \in exists /\ id \in Live
        /\ a.owner \in exists => Account[a.owner] # Account[p]
        /\ price > a.bid /\ price >= a.startbid
CanBid_AnyPrice(p, id, price) ==
    LET a == auctions[id]
    IN  /\ p \in exists /\ id \in Live
        /\ a.owner \in exists => Account[a.owner] # Account[p]
        /\ price <= gold[p] /\ price >= a.startbid

CanBid(p, id, price) ==
    LET a == auctions[id]
    IN  /\ p \in exists /\ id \in Live
        /\ a.owner \in exists => Account[a.owner] # Account[p]
        /\ price > a.bid
        /\ price < a.buyout \/ a.buyout = 0 => price >= a.bid + GetAuctionOutBid(a)
        /\ price <= gold[p]
        /\ price >= a.startbid

\* UpdateBid lowers a price above the buyout to the buyout.
Clamped(a, newbid) == IF a.buyout # 0 /\ newbid > a.buyout THEN a.buyout ELSE newbid

WithBid(a, b, newbid) == [a EXCEPT !.bidder = b, !.bid = Clamped(a, newbid)]

Buys(a, newbid) == a.buyout # 0 /\ Clamped(a, newbid) >= a.buyout

\* Mutant: charges the whole bid to the player who already holds the last one.
Charged_Whole(a, b, newbid) == IF b = Server THEN 0 ELSE Clamped(a, newbid)

\* Who raises his own bid pays the difference; the server pays nothing.
Charged(a, b, newbid) ==
    CASE b = Server   -> 0
      [] b = a.bidder -> Clamped(a, newbid) - a.bid
      [] OTHER        -> Clamped(a, newbid)

Outbids(a, b) == a.bidder # Server /\ b # a.bidder

\* Mutant: the new bidder gets the refund.
Refunded_NewBidder(a, b, newbid) ==
    IF Outbids(a, b) THEN Mailed(mailbox, b, a.bid, {}) ELSE mailbox

\* The mails after the refund to the player who was outbid, if any.
Refunded(a, b, newbid) ==
    IF Outbids(a, b) THEN SendAuctionOutbiddedMail(a) ELSE mailbox

Paid(b, n) == IF b = Server THEN gold ELSE [gold EXCEPT ![b] = @ - n]

\* Mutant: the auction keeps the item it has sent to the winner.
SendAuctionWonMail_KeepsItem(id, a, m) ==
    /\ mailbox' = Mailed(m, a.bidder, 0, GetAItem(a))
    /\ auctions' = [auctions EXCEPT ![id] = a]
    /\ auctionItems' = auctionItems \ GetAItem(a)

\* The item leaves the house: to the bidder, or out of the game if there is none.
SendAuctionWonMail(id, a, m) ==
    /\ mailbox' = Mailed(m, a.bidder, 0, GetAItem(a))
    /\ auctions' = [auctions EXCEPT ![id] = WithoutItem(a)]
    /\ auctionItems' = auctionItems \ GetAItem(a)

\* The payment is due an hour after this, whatever was due before.
AsSold(a) == [a EXCEPT !.sold = TRUE, !.due = FALSE]

\* a is auction id with its last bid, m what is already in the mails.
AuctionBidWinning(id, a, m) == SendAuctionWonMail(id, AsSold(a), m)

UpdateBid(id, newbid, b) ==
    LET a == auctions[id]
        m == Refunded(a, b, newbid)
    IN  /\ gold' = Paid(b, Charged(a, b, newbid))
        /\ \/ /\ ~Buys(a, newbid)
              /\ mailbox' = m
              /\ auctions' = [auctions EXCEPT ![id] = WithBid(a, b, newbid)]
              /\ UNCHANGED auctionItems
           \/ /\ Buys(a, newbid)
              /\ AuctionBidWinning(id, WithBid(a, b, newbid), m)
        /\ UNCHANGED <<exists, bags>>

HandleAuctionPlaceBid(p, id, price) ==
    /\ CanBid(p, id, price)
    /\ UpdateBid(id, price, p)

(***************************************************************************)
(* AuctionBotBuyer bids on auctions of players that are not sold.  For the *)
(* price of a raise it passes UpdateBid what GetAuctionOutBid returns.     *)
(***************************************************************************)
BotMayBid(id) ==
    LET a == auctions[id]
    IN  /\ ServerTrades /\ id \in Live /\ ~a.sold
        /\ a.item \in auctionItems
        /\ \/ a.bid # 0 /\ a.bidder # Server
           \/ a.bid = 0 /\ a.owner # Server

PlaceBidToEntry(id) ==
    LET a == auctions[id]
    IN  /\ BotMayBid(id)
        /\ UpdateBid(id, IF a.bid >= a.startbid THEN GetAuctionOutBid(a) ELSE a.startbid, Server)

BuyEntry(id) ==
    /\ BotMayBid(id) /\ auctions[id].buyout # 0
    /\ UpdateBid(id, auctions[id].buyout, Server)

(***************************************************************************)
(* Cancelling: the owner gets the item back, loses the deposit and, if     *)
(* there is a bid, pays the cut and the bidder is refunded.                *)
(***************************************************************************)
CanRemove(p, id) ==
    /\ p \in exists /\ id \in Live
    /\ auctions[id].owner = p
    /\ auctions[id].item \in auctionItems
    /\ auctions[id].bid # 0 => gold[p] >= GetAuctionCut(auctions[id])

SendAuctionCancelledToBidderMail(a) ==
    IF a.bid # 0 /\ a.bidder # Server THEN Mailed(mailbox, a.bidder, a.bid, {}) ELSE mailbox

HandleAuctionRemoveItem(p, id) ==
    LET a == auctions[id]
    IN  /\ CanRemove(p, id)
        /\ mailbox' = Mailed(SendAuctionCancelledToBidderMail(a), p, 0, {a.item})
        /\ gold' = IF a.bid # 0 THEN [gold EXCEPT ![p] = @ - GetAuctionCut(a)] ELSE gold
        /\ auctions' = [auctions EXCEPT ![id] = NULL]
        /\ auctionItems' = auctionItems \ {a.item}
        /\ UNCHANGED <<exists, bags>>

(***************************************************************************)
(* The house's update, once a minute: a due auction is sold to its bidder  *)
(* or goes back to its owner, and a sold one pays its owner when due.      *)
(***************************************************************************)
TimePasses(id) ==
    /\ id \in Live /\ ~auctions[id].due
    /\ auctions' = [auctions EXCEPT ![id].due = TRUE]
    /\ UNCHANGED <<exists, goods, auctionItems>>

Expiring(id) == id \in Live /\ auctions[id].due /\ ~auctions[id].sold

Update_Won(id) ==
    /\ Expiring(id) /\ auctions[id].bid # 0
    /\ AuctionBidWinning(id, auctions[id], mailbox)
    /\ UNCHANGED <<exists, gold, bags>>

SendAuctionExpiredMail(a) == Mailed(mailbox, a.owner, 0, GetAItem(a))

\* Mutant: the auction that has expired is kept.
Update_Expired_Kept(id) ==
    /\ Expiring(id) /\ auctions[id].bid = 0
    /\ mailbox' = SendAuctionExpiredMail(auctions[id])
    /\ auctionItems' = auctionItems \ GetAItem(auctions[id])
    /\ UNCHANGED <<exists, gold, bags, auctions>>

Update_Expired(id) ==
    LET a == auctions[id]
    IN  /\ Expiring(id) /\ a.bid = 0
        /\ mailbox' = SendAuctionExpiredMail(a)
        /\ auctions' = [auctions EXCEPT ![id] = NULL]
        /\ auctionItems' = auctionItems \ GetAItem(a)
        /\ UNCHANGED <<exists, gold, bags>>

\* Mutant: the seller gets his bid without the deposit.
SendAuctionSuccessfulMail_NoDeposit(a) ==
    Mailed(mailbox, a.owner, a.bid - GetAuctionCut(a), {})

SendAuctionSuccessfulMail(a) ==
    Mailed(mailbox, a.owner, a.bid + a.deposit - GetAuctionCut(a), {})

Update_Paid(id) ==
    /\ Sold(id) /\ auctions[id].due
    /\ mailbox' = SendAuctionSuccessfulMail(auctions[id])
    /\ auctions' = [auctions EXCEPT ![id] = NULL]
    /\ UNCHANGED <<exists, gold, bags, auctionItems>>

(***************************************************************************)
(* The players' mails, taken as far as auctions need them: an item, or the *)
(* gold of all mails, one after the other, moves to the player.            *)
(***************************************************************************)
\* ModifyMoney: what is above the limit is gone.
Receive(g, n) == IF g < MaxGold - n THEN g + n ELSE MaxGold

\* Mutant: the gold taken stays in the rows of the mails.
HandleMailTakeMoney_KeepsRow(p) ==
    /\ p \in exists /\ mailbox[p].gold > 0
    /\ gold' = [gold EXCEPT ![p] = Receive(@, mailbox[p].gold)]
    /\ mailbox' = [mailbox EXCEPT ![p].gold = 0]
    /\ UNCHANGED <<exists, bags, house>>

HandleMailTakeMoney(p) ==
    /\ p \in exists /\ mailbox[p].gold > 0
    /\ gold' = [gold EXCEPT ![p] = Receive(@, mailbox[p].gold)]
    /\ mailbox' = [mailbox EXCEPT ![p].gold = 0, ![p].stored = 0]
    /\ UNCHANGED <<exists, bags, house>>

\* A player logs in (again): his mails are read from the database.  A mail sent to
\* a player who is offline is seen by nobody before.
LoadMails(p) ==
    /\ p \in exists
    /\ mailbox' = [mailbox EXCEPT ![p].gold = mailbox[p].stored]
    /\ UNCHANGED <<exists, gold, bags, house>>

\* (A stack that joins another one in the bag stays an item of its own here.)
HandleMailTakeItem(p, i) ==
    /\ p \in exists /\ i \in mailbox[p].items
    /\ mailbox' = [mailbox EXCEPT ![p].items = @ \ {i}]
    /\ inventory' = [inventory EXCEPT ![p] = @ \cup {i}]
    /\ UNCHANGED <<exists, gold, count, house>>

\* A deleted character's goods and mails go with it, its auctions and bids stay.
DeleteCharacter(p) ==
    /\ p \in exists \cap Deletable
    /\ exists' = exists \ {p}
    /\ gold' = [gold EXCEPT ![p] = 0]
    /\ inventory' = [inventory EXCEPT ![p] = {}]
    /\ mailbox' = [mailbox EXCEPT ![p] = NoMails]
    /\ UNCHANGED <<count, house>>

(***************************************************************************)
(* Crashes.  The restarted server has what the operation had stored.       *)
(***************************************************************************)
\* LoadAuctionItems: the items of the auctions that have one.
LoadAuctionItems(live) == {a.item : a \in {live[id] : id \in Ids} \ {NULL}} \ {NULL}

\* The restarted server has the gold of all mails from the database.
Reloaded(m) == [p \in Players |-> [m[p] EXCEPT !.gold = m[p].stored]]

\* The mails of an operation are stored and its last transaction is not.
Crash_MailsOnly(m) ==
    /\ Crashes
    /\ m # mailbox
    /\ mailbox' = Reloaded(m)
    /\ auctionItems' = LoadAuctionItems(auctions)
    /\ UNCHANGED <<exists, gold, bags, auctions>>

\* Mutant: the auction's row is deleted before the mail is stored.
Crash_Deleting_RowFirst(id) ==
    LET a == auctions[id]
    IN  /\ Crashes
        /\ \/ \E p \in Players : CanRemove(p, id)
           \/ Expiring(id) /\ a.bid = 0
           \/ Sold(id) /\ a.due
        /\ auctions' = [auctions EXCEPT ![id] = NULL]
        /\ auctionItems' = LoadAuctionItems(auctions')
        /\ UNCHANGED <<exists, goods>>

\* The operations that mail first and then delete the auction's row.
Crash_Deleting(id) ==
    LET a == auctions[id]
    IN  \/ \E p \in Players : CanRemove(p, id) /\
              \/ Crash_MailsOnly(SendAuctionCancelledToBidderMail(a))
              \/ Crash_MailsOnly(Mailed(SendAuctionCancelledToBidderMail(a), p, 0, {a.item}))
        \/ Expiring(id) /\ a.bid = 0 /\ Crash_MailsOnly(SendAuctionExpiredMail(a))
        \/ Sold(id) /\ a.due /\ Crash_MailsOnly(SendAuctionSuccessfulMail(a))

\* The refund is stored, the new bid is not.
Crash_Bidding(p, id, price) ==
    /\ CanBid(p, id, price)
    /\ Crash_MailsOnly(Refunded(auctions[id], p, price))

\* Mutant: the sale is stored with the item in it.
Crash_Selling_WithItem(id, a, m, g) ==
    /\ Crashes
    /\ mailbox' = Reloaded(m)
    /\ gold' = g
    /\ auctions' = [auctions EXCEPT ![id] = AsSold(a)]
    /\ auctionItems' = LoadAuctionItems(auctions')
    /\ UNCHANGED <<exists, bags>>

\* The sale is stored, the item's mail is not.
Crash_Selling(id, a, m, g) ==
    /\ Crashes
    /\ mailbox' = Reloaded(m)
    /\ gold' = g
    /\ auctions' = [auctions EXCEPT ![id] = [AsSold(a) EXCEPT !.item = NULL]]
    /\ auctionItems' = LoadAuctionItems(auctions')
    /\ UNCHANGED <<exists, bags>>

Crash_Buyout(p, id, price) ==
    LET a == auctions[id]
    IN  /\ CanBid(p, id, price) /\ Buys(a, price)
        /\ Crash_Selling(id, WithBid(a, p, price), Refunded(a, p, price),
                         Paid(p, Charged(a, p, price)))

Crash_Won(id) ==
    /\ Expiring(id) /\ auctions[id].bid # 0
    /\ Crash_Selling(id, auctions[id], mailbox, gold)

(***************************************************************************)
(* The specification.                                                      *)
(***************************************************************************)
PlayerStep(p) ==
    \/ \E i \in Items :
          \/ HandleMailTakeItem(p, i)
          \/ \E n \in 1..MaxStack, s \in StartBids, b \in Buyouts :
                HandleAuctionSellItem(p, i, n, s, b)
    \/ \E id \in Ids :
          \/ HandleAuctionRemoveItem(p, id)
          \/ \E price \in Prices : HandleAuctionPlaceBid(p, id, price)
    \/ HandleMailTakeMoney(p)
    \/ LoadMails(p)
    \/ DeleteCharacter(p)

HouseStep(id) == Update_Won(id) \/ Update_Expired(id) \/ Update_Paid(id)

BotStep ==
    \/ \E id \in Ids : PlaceBidToEntry(id) \/ BuyEntry(id)
    \/ \E i \in Items, n \in 1..MaxStack, s \in StartBids, b \in Buyouts :
          addNewAuctions(i, n, s, b)

CrashStep ==
    \E id \in Ids :
        \/ Crash_Deleting(id)
        \/ Crash_Won(id)
        \/ \E p \in Players, price \in Prices :
              Crash_Bidding(p, id, price) \/ Crash_Buyout(p, id, price)

Next ==
    \/ \E p \in Players : PlayerStep(p)
    \/ \E id \in Ids : TimePasses(id) \/ HouseStep(id)
    \/ BotStep
    \/ CrashStep

Spec == Init /\ [][Next]_vars

\* Time passes and the world thread runs the house's update once a minute.
FairSpec == Spec /\ \A id \in Ids : WF_vars(TimePasses(id)) /\ WF_vars(HouseStep(id))

(***************************************************************************)
(* Properties.                                                             *)
(***************************************************************************)
\* The list of auctions and the list of their items agree: an auction that is
\* not sold has its item, no two have the same one, and a sold one has none.
\* AddAItem and AuctionHouseObject::Update assert parts of it.
AuctionsHoldTheirItems ==
    /\ \A id \in Live : auctions[id].sold <=> auctions[id].item = NULL
    /\ auctionItems = {auctions[id].item : id \in Live} \ {NULL}
    /\ \A id, other \in Live :
          id # other /\ auctions[id].item = auctions[other].item => auctions[id].item = NULL

\* Between the bags, the mails and the auction house no item object is in two places:
\* a sale puts a new one into the auction, and a win, a return, a cancellation and
\* the taking of a mail move it.  How many units an object has is UnitsKept's matter.
\* (A crash can break this.)
ItemsApart ==
    /\ \A p, q \in Players :
          /\ p # q => inventory[p] \cap inventory[q] = {}
          /\ p # q => mailbox[p].items \cap mailbox[q].items = {}
          /\ inventory[p] \cap mailbox[q].items = {}
    /\ \A p \in Players : (inventory[p] \cup mailbox[p].items) \cap auctionItems = {}

\* All the units in bags, mails and auctions.
Units == SumFunctionOnSet(count, Items \ Nowhere)

\* A new object j is in a new auction of the owner.
PutUp(j, owner) ==
    /\ j \in Nowhere
    /\ \E id \in Ids \ Live : /\ auctions'[id] # NULL
                              /\ auctions'[id].item = j /\ auctions'[id].owner = owner

\* Player p puts up more units than i had, though no more than he carries, and all
\* of i is gone: the auction has the units that were missing.
Oversells(p, i, j) ==
    /\ PutUp(j, p)
    /\ i \in inventory[p] /\ i \notin inventory'[p]
    /\ count'[j] > count[i] /\ HasItemCount(p, count'[j])
    /\ Units' = Units + count'[j] - count[i]

\* The bot puts up j.
Stocks(j) == ServerTrades /\ PutUp(j, Server) /\ Units' = Units + count'[j]

\* No step makes units of an item, but for the bot's auctions, and for a sale of more
\* units than the named item has while another one in the bags has the rest: HasItemCount
\* counts them all and DestroyItemCount takes from one, so units are doubled.  Nothing
\* else is to be had from splitting and selling stacks: every other sale takes as much
\* as it puts up, and bids, wins, returns and mails leave the number of units alone.
\* (Without crashes.)
UnitsKept ==
    [][\/ Units' <= Units
       \/ \E p \in Players, i, j \in Items : Oversells(p, i, j)
       \/ \E j \in Items : Stocks(j)]_vars

\* The gold of each player, with what his mails show: what he may have.
Shown == [p \in Players |-> gold[p] + mailbox[p].gold]

\* The gold of each player, with what the database has of his mails: what he has for sure.
Purse == [p \in Players |-> gold[p] + mailbox[p].stored]

\* The gold in each auction: its bid and its deposit.
Held == [id \in Ids |-> IF id \in Live THEN auctions[id].bid + auctions[id].deposit ELSE 0]

\* All the gold there is, at most and at least.
GoldShown  == SumFunction(Shown) + SumFunction(Held)
GoldStored == SumFunction(Purse) + SumFunction(Held)

\* What the house keeps of an auction that ends: the cut of the best bid, and
\* the deposit unless the item was sold.
Fee(a) == GetAuctionCut(a) + (IF a.sold THEN 0 ELSE a.deposit)

\* The fees of a step.
Fees == SumFunction([id \in Ids |->
            IF id \in Live /\ auctions'[id] = NULL THEN Fee(auctions[id]) ELSE 0])

\* No mail is about more gold than its column holds, and no player is at the limit.
AmountsFit ==
    /\ \A id \in Ids : Held[id] < ColumnSize
    /\ \A p \in Players : Purse[p] <= MaxGold

\* No gold is made: only a crash may hand gold out twice, because every operation
\* stores its mails before the row that records the debt.  And as long as the
\* amounts fit none is lost, crash or not: whatever is bid is refunded or paid out,
\* and only the house's fees leave the game.  (Where they do not fit, gold is lost:
\* a mail of 2^32 copper or more is stored modulo 2^32, and what exceeds a player's
\* limit is cut off.  Between players: the bot bids gold it has not, and what a
\* deleted character has or is sent is gone.)
GoldAccounted ==
    [][/\ CrashStep \/ GoldShown' <= GoldShown - Fees
       /\ AmountsFit => GoldStored' >= GoldStored - Fees]_vars

\* The bids of a player that may still be outbid.
OpenBids(p) == [id \in Ids |->
    IF id \in Live /\ auctions[id].bidder = p /\ ~auctions[id].sold THEN auctions[id].bid ELSE 0]

\* What a player has for sure in gold and mails, and in such bids.
Worth(p) == Purse[p] + SumFunction(OpenBids(p))

\* The player is not at the limit, and the refund of each of his bids fits its mail.
Refundable(p) ==
    /\ Purse[p] <= MaxGold
    /\ \A id \in Ids : OpenBids(p)[id] < ColumnSize

\* Player p is sold the item of auction id, and it is in the mails.
Wins(p, id) ==
    /\ id \in Live /\ ~Sold(id) /\ Sold(id)'
    /\ auctions'[id].bidder = p /\ auctions[id].item \in mailbox'[p].items

\* Nothing another player, the bot or the house does costs a player gold, unless
\* it brings the item the player bid for: if his own bids are below 2^32 copper and
\* he is below the limit.  (The refund of a higher bid is cut off in its mail's row.)
\* Only a crash may take that item away.
WorthKept ==
    [][\A p \in exists \cap exists' : Refundable(p) =>
          \/ Worth(p)' >= Worth(p)
          \/ gold'[p] < gold[p]                                 \* the player's own deposit, cut or bid
          \/ \E id \in Ids : Wins(p, id)
          \/ CrashStep]_vars

\* A sold auction is settled: AuctionBotBuyer calls one whose money is pending
\* "not active now" and the house sends its item when it is sold, so its bid and
\* its bidder cannot change any more.
SoldIsFinal ==
    [][\A id \in Ids : Sold(id) /\ Sold(id)' =>
          /\ auctions'[id].bid = auctions[id].bid
          /\ auctions'[id].bidder = auctions[id].bidder]_vars

\* Between players the current bid of an auction only rises: GetAuctionOutBid is
\* documented as the sum by which the next bid has to be higher.  (The bot's bid may
\* be lower than the last: it passes that sum as the price, so with ServerTrades
\* this does not hold.)
BidsOnlyRise ==
    [][\A id \in Ids : id \in Live /\ auctions'[id] # NULL => auctions'[id].bid >= auctions[id].bid]_vars

\* An auction without a buyout ends: late bids raise its price but do not put off
\* the payment of its seller.
EveryAuctionEnds ==
    \A id \in Ids : (id \in Live /\ auctions[id].buyout = 0) ~> id \notin Live
=============================================================================
