------------------------------- MODULE Trade -------------------------------
(***************************************************************************)
(* The trade window between two players: TradeHandler.cpp and TradeData in *)
(* Player.cpp.  Each trader lists items and gold, each change of either    *)
(* list takes back both acceptances, and the second acceptance of the same *)
(* two lists exchanges them and saves both players in one transaction.     *)
(*                                                                         *)
(* All handlers run on the world thread, one after the other, so one       *)
(* handler is one action.  Around the window the players lose items, spend *)
(* gold, save, log out and come back, and the server may crash.            *)
(***************************************************************************)
EXTENDS Integers, Sequences, FiniteSets, Functions

CONSTANTS
    Players,
    Items,
    TradedSlots,    \* the slots whose items change hands
    NonTraded,      \* the slot that shows an item to be enchanted
    BagSize,        \* how many items a player can carry
    MaxGold,        \* MAX_MONEY_AMOUNT
    Places,         \* places out of reach of each other
    InitGold,       \* what the players own at the start
    InitItems,
    NULL

VARIABLES
    online,         \* players in the world
    place,          \* where each player is
    trade,          \* m_trade of each player: its TradeData, or NULL
    gold,
    inventory,      \* the items each player carries
    tradable,       \* the items CanBeTraded accepts
    saves,          \* transactions the database thread has still to execute
    disk            \* what the database holds of each player

goods == <<gold, inventory>>
db    == <<saves, disk>>
vars  == <<online, place, trade, goods, tradable, db>>

Slots == TradedSlots \cup {NonTraded}

TradeData ==
    [ trader:   Players,
      accepted: BOOLEAN,
      money:    0..MaxGold,
      spell:    BOOLEAN,                    \* a spell for the partner's item
      items:    [Slots -> Items \cup {NULL}] ]

ASSUME TradeAssumption ==
    /\ IsFiniteSet(Players)
    /\ BagSize \in Nat
    /\ MaxGold \in Nat
    /\ InitGold \in [Players -> 0..MaxGold]
    /\ InitItems \in [Players -> SUBSET Items]
    /\ \A p, q \in Players : p # q => InitItems[p] \cap InitItems[q] = {}
    /\ NonTraded \notin TradedSlots
    /\ Places # {}
    /\ NULL \notin Items
    /\ NULL \notin TradeData          \* no object is the null pointer

\* What a save writes of one player, and a transaction of several players.
Snapshot    == [gold: 0..MaxGold, items: SUBSET Items]
Transaction == UNION {[P -> Snapshot] : P \in SUBSET Players}

TypeOK ==
    /\ online \subseteq Players
    /\ place \in [Players -> Places]
    /\ trade \in [Players -> TradeData \cup {NULL}]
    /\ gold \in [Players -> 0..MaxGold]
    /\ inventory \in [Players -> SUBSET Items]
    /\ tradable \subseteq Items
    /\ saves \in Seq(Transaction)
    /\ disk \in [Players -> Snapshot]

Owned(p) == [gold |-> gold[p], items |-> inventory[p]]

Init ==
    /\ online = Players
    /\ place \in [Players -> Places]
    /\ trade = [p \in Players |-> NULL]
    /\ gold = InitGold
    /\ inventory = InitItems
    /\ tradable = Items
    /\ saves = <<>>
    /\ disk = [p \in Players |-> [gold |-> InitGold[p], items |-> InitItems[p]]]

(***************************************************************************)
(* What a trade shows and moves.                                           *)
(***************************************************************************)
Trading(p) == trade[p] # NULL
Partner(p) == trade[p].trader
List(p)    == [money |-> trade[p].money, spell |-> trade[p].spell, items |-> trade[p].items]

\* GetItem: a listed item is looked up in the inventory and may be gone.
GetItem(p, s) == IF trade[p].items[s] \in inventory[p] THEN trade[p].items[s] ELSE NULL
\* Mutant: the slot that is only shown changes hands too.
Offered_Shown(p) == {GetItem(p, s) : s \in Slots} \ {NULL}

Offered(p) == {GetItem(p, s) : s \in TradedSlots} \ {NULL}

HasItem(p, i) == \E s \in Slots : trade[p].items[s] = i

\* Mutant: only the player's own acceptance is taken back.
Unaccepted_OwnOnly(t, p) == [t EXCEPT ![p].accepted = FALSE]

\* The partner's acceptance and the player's own are taken back.
Unaccepted(t, p) == [q \in Players |->
    IF q \in {p, Partner(p)} THEN [t[q] EXCEPT !.accepted = FALSE] ELSE t[q]]

\* Mutants: nothing is taken from the payer; there is no limit; it is one too low.
Pay_Nothing(g, n)     == g
Receive_NoLimit(g, n) == g + n
Receive_OneLess(g, n) == IF g + n < MaxGold THEN g + n ELSE MaxGold - 1

\* ModifyMoney stops at nothing and at the gold limit.
Pay(g, n)     == IF g > n THEN g - n ELSE 0
Receive(g, n) == IF g + n < MaxGold THEN g + n ELSE MaxGold

(***************************************************************************)
(* Opening and closing.                                                    *)
(***************************************************************************)
HandleInitiateTradeOpcode(p, q) ==
    /\ p \in online /\ q \in online /\ p # q
    /\ ~Trading(p) /\ ~Trading(q)
    /\ place[p] = place[q]
    /\ LET Empty(other) == [trader |-> other, accepted |-> FALSE, money |-> 0,
                            spell |-> FALSE, items |-> [s \in Slots |-> NULL]]
       IN  trade' = [trade EXCEPT ![p] = Empty(q), ![q] = Empty(p)]
    /\ UNCHANGED <<online, place, goods, tradable, db>>

\* Mutant: the partner's window stays open.
TradeCancelled_OwnOnly(p) == [trade EXCEPT ![p] = NULL]

\* Both windows close.
TradeCancelled(p) ==
    IF Trading(p)
    THEN [q \in Players |-> IF q \in {p, Partner(p)} THEN NULL ELSE trade[q]]
    ELSE trade

HandleCancelTradeOpcode(p) ==
    /\ Trading(p)
    /\ trade' = TradeCancelled(p)
    /\ UNCHANGED <<online, place, goods, tradable, db>>

(***************************************************************************)
(* Changing a list.  A request that changes nothing keeps the acceptances. *)
(***************************************************************************)
HandleSetTradeGoldOpcode(p, n) ==
    /\ Trading(p) /\ n # trade[p].money /\ n <= gold[p]
    /\ trade' = Unaccepted([trade EXCEPT ![p].money = n], p)
    /\ UNCHANGED <<online, place, goods, tradable, db>>

\* SetItem: spells aimed at the old list go too.
SetItem(p, s, i) ==
    LET hisSpell == IF s = NonTraded THEN FALSE ELSE trade[Partner(p)].spell
    IN  trade' = Unaccepted([trade EXCEPT ![p].items[s] = i, ![p].spell = FALSE,
                                          ![Partner(p)].spell = hisSpell], p)

HandleSetTradeItemOpcode(p, s, i) ==
    /\ Trading(p)
    /\ i \in inventory[p]
    /\ s # NonTraded => i \in tradable
    /\ ~HasItem(p, i)
    /\ SetItem(p, s, i)
    /\ UNCHANGED <<online, place, goods, tradable, db>>

HandleClearTradeItemOpcode(p, s) ==
    /\ Trading(p) /\ trade[p].items[s] # NULL
    /\ SetItem(p, s, NULL)
    /\ UNCHANGED <<online, place, goods, tradable, db>>

\* A spell cast on the partner's shown item is kept until the trade completes.
SetSpell(p) ==
    /\ Trading(p)
    /\ trade' = Unaccepted([trade EXCEPT ![p].spell = TRUE], p)
    /\ UNCHANGED <<online, place, goods, tradable, db>>

HandleUnacceptTradeOpcode(p) ==
    /\ Trading(p)
    /\ trade' = [trade EXCEPT ![p].accepted = FALSE]
    /\ UNCHANGED <<online, place, goods, tradable, db>>

(***************************************************************************)
(* HandleAcceptTradeOpcode, one action per way out.                        *)
(***************************************************************************)
BothAfford(p) == trade[p].money <= gold[p] /\ trade[Partner(p)].money <= gold[Partner(p)]
ItemsTradable(p) == Offered(p) \cup Offered(Partner(p)) \subseteq tradable

\* The player accepts: its flag is set before anything is checked.
Accepting(p) ==
    /\ trade' = [trade EXCEPT ![p].accepted = TRUE]
    /\ UNCHANGED <<online, place, goods, tradable, db>>

Accept_NotEnoughGold(p) ==
    /\ Trading(p) /\ trade[p].money > gold[p]
    /\ trade' = [trade EXCEPT ![p].accepted = FALSE]
    /\ UNCHANGED <<online, place, goods, tradable, db>>

Accept_PartnerLacksGold(p) ==
    /\ Trading(p) /\ trade[p].money <= gold[p]
    /\ trade[Partner(p)].money > gold[Partner(p)]
    /\ trade' = [trade EXCEPT ![p].accepted = TRUE, ![Partner(p)].accepted = FALSE]
    /\ UNCHANGED <<online, place, goods, tradable, db>>

Accept_ItemRefused(p) ==
    /\ Trading(p) /\ BothAfford(p) /\ ~ItemsTradable(p)
    /\ Accepting(p)

Accept_Waiting(p) ==
    /\ Trading(p) /\ BothAfford(p) /\ ItemsTradable(p)
    /\ ~trade[Partner(p)].accepted
    /\ Accepting(p)

Ready(p) ==
    /\ Trading(p) /\ BothAfford(p) /\ ItemsTradable(p)
    /\ trade[Partner(p)].accepted

\* The spell of one side cannot be cast (its target is gone, or CheckCast
\* fails): SetSpell(0) on that side.
Accept_SpellFails(p) ==
    /\ Ready(p)
    /\ \E c \in {p, Partner(p)} :
          /\ trade[c].spell
          /\ trade' = Unaccepted([trade EXCEPT ![c].spell = FALSE], p)
    /\ UNCHANGED <<online, place, goods, tradable, db>>

SpellsHaveTargets(p) ==
    \A c \in {p, Partner(p)} : trade[c].spell => GetItem(Partner(c), NonTraded) # NULL

\* CanStoreItems: the items on their way out leave room.
CanStore(p, out, in) == Cardinality((inventory[p] \ out) \cup in) <= BagSize
BothCanStore(p) ==
    /\ CanStore(p, Offered(p), Offered(Partner(p)))
    /\ CanStore(Partner(p), Offered(Partner(p)), Offered(p))

Accept_NoSpace(p) ==
    /\ Ready(p) /\ SpellsHaveTargets(p) /\ ~BothCanStore(p)
    /\ trade' = Unaccepted(trade, p)
    /\ UNCHANGED <<online, place, goods, tradable, db>>

\* The exchange.  Items are taken from both and then stored, gold is paid and
\* received, the windows close and both players are saved together.
GoldAfter(p) == Receive(Pay(gold[p], trade[p].money), trade[Partner(p)].money)
ItemsAfter(p) == (inventory[p] \ Offered(p)) \cup Offered(Partner(p))

\* Mutant: only the one who pressed last is saved.
Accept_Complete_SavesOne(p) ==
    /\ Ready(p) /\ SpellsHaveTargets(p) /\ BothCanStore(p)
    /\ LET q == Partner(p)
       IN  /\ gold' = [gold EXCEPT ![p] = GoldAfter(p), ![q] = GoldAfter(q)]
           /\ inventory' = [inventory EXCEPT ![p] = ItemsAfter(p), ![q] = ItemsAfter(q)]
           /\ trade' = [trade EXCEPT ![p] = NULL, ![q] = NULL]
           /\ saves' = Append(saves, [r \in {p} |-> [gold |-> GoldAfter(r), items |-> ItemsAfter(r)]])
    /\ UNCHANGED <<online, place, tradable, disk>>

Accept_Complete(p) ==
    /\ Ready(p) /\ SpellsHaveTargets(p) /\ BothCanStore(p)
    /\ LET q == Partner(p)
       IN  /\ gold' = [gold EXCEPT ![p] = GoldAfter(p), ![q] = GoldAfter(q)]
           /\ inventory' = [inventory EXCEPT ![p] = ItemsAfter(p), ![q] = ItemsAfter(q)]
           /\ trade' = [trade EXCEPT ![p] = NULL, ![q] = NULL]
           /\ saves' = Append(saves, [r \in {p, q} |->
                          [gold |-> GoldAfter(r), items |-> ItemsAfter(r)]])
    /\ UNCHANGED <<online, place, tradable, disk>>

(***************************************************************************)
(* The world around the trade.                                             *)
(***************************************************************************)
\* Mutant: a save goes to the head of the queue.
SaveToDB_Reordered(p) == saves' = <<[r \in {p} |-> Owned(r)]>> \o saves
SaveToDB(p) == saves' = Append(saves, [r \in {p} |-> Owned(r)])

\* The periodic save of a player.
SavePlayer(p) ==
    /\ p \in online
    /\ SaveToDB(p)
    /\ UNCHANGED <<online, place, trade, goods, tradable, disk>>

\* A logout saves the player and, in CleanupsBeforeDelete, closes the windows.
LogoutPlayer(p) ==
    /\ p \in online
    /\ online' = online \ {p}
    /\ trade' = TradeCancelled(p)
    /\ SaveToDB(p)
    /\ UNCHANGED <<place, goods, tradable, disk>>

LoginPlayer(p) ==
    /\ p \notin online
    /\ online' = online \cup {p}
    /\ UNCHANGED <<place, trade, goods, tradable, db>>

\* An item is used up, an item becomes soulbound, gold is spent: no window
\* learns of it.
DestroyItem(p, i) ==
    /\ p \in online /\ i \in inventory[p]
    /\ inventory' = [inventory EXCEPT ![p] = @ \ {i}]
    /\ UNCHANGED <<online, place, trade, gold, tradable, db>>

BindItem(p, i) ==
    /\ p \in online /\ i \in inventory[p] \cap tradable
    /\ tradable' = tradable \ {i}
    /\ UNCHANGED <<online, place, trade, goods, db>>

SpendGold(p, n) ==
    /\ p \in online /\ n \in 1..gold[p]
    /\ gold' = [gold EXCEPT ![p] = Pay(@, n)]
    /\ UNCHANGED <<online, place, trade, inventory, tradable, db>>

\* SetPosition: walking out of reach tells the client, and nobody else.
SetPosition(p, l) ==
    /\ p \in online /\ l # place[p]
    /\ place' = [place EXCEPT ![p] = l]
    /\ UNCHANGED <<online, trade, goods, tradable, db>>

\* The database thread commits the oldest transaction.
CommitSave ==
    /\ saves # <<>>
    /\ disk' = [p \in Players |->
                  IF p \in DOMAIN Head(saves) THEN Head(saves)[p] ELSE disk[p]]
    /\ saves' = Tail(saves)
    /\ UNCHANGED <<online, place, trade, goods, tradable>>

\* The server crashes and starts again from what the database holds.
Restart ==
    /\ online' = {}
    /\ trade' = [p \in Players |-> NULL]
    /\ gold' = [p \in Players |-> disk[p].gold]
    /\ inventory' = [p \in Players |-> disk[p].items]
    /\ saves' = <<>>
    /\ UNCHANGED <<place, tradable, disk>>

ListStep(p) ==
    \/ \E n \in 0..MaxGold : HandleSetTradeGoldOpcode(p, n)
    \/ \E s \in Slots, i \in Items : HandleSetTradeItemOpcode(p, s, i)
    \/ \E s \in Slots : HandleClearTradeItemOpcode(p, s)
    \/ SetSpell(p)

AcceptStep(p) ==
    \/ Accept_NotEnoughGold(p)
    \/ Accept_PartnerLacksGold(p)
    \/ Accept_ItemRefused(p)
    \/ Accept_Waiting(p)
    \/ Accept_SpellFails(p)
    \/ Accept_NoSpace(p)
    \/ Accept_Complete(p)

WorldStep(p) ==
    \/ SavePlayer(p) \/ LogoutPlayer(p) \/ LoginPlayer(p)
    \/ \E i \in Items : DestroyItem(p, i) \/ BindItem(p, i)
    \/ \E n \in 1..MaxGold : SpendGold(p, n)
    \/ \E l \in Places : SetPosition(p, l)

PlayerStep(p) ==
    \/ \E q \in Players : HandleInitiateTradeOpcode(p, q)
    \/ HandleCancelTradeOpcode(p)
    \/ HandleUnacceptTradeOpcode(p)
    \/ ListStep(p) \/ AcceptStep(p) \/ WorldStep(p)

Next == (\E p \in Players : PlayerStep(p)) \/ CommitSave \/ Restart

Spec == Init /\ [][Next]_vars

(***************************************************************************)
(* Properties.                                                             *)
(***************************************************************************)
\* The two windows belong together: m_trader points at an online player whose
\* own trade points back, after any order of opening, closing and logging out.
PartnersAgree ==
    \A p \in Players : Trading(p) =>
        /\ p \in online /\ Partner(p) \in online /\ Partner(p) # p
        /\ Trading(Partner(p)) /\ Partner(Partner(p)) = p

\* An acceptance is for the two lists as they are: no step that leaves a player
\* accepted changes what either window shows, so SetItem, SetMoney and SetSpell
\* of either side take both acceptances back.
AcceptedMeansAgreed ==
    [][\A p \in Players :
         Trading(p) /\ trade'[p] # NULL /\ trade'[p].accepted =>
            List(p)' = List(p) /\ List(Partner(p))' = List(Partner(p))]_vars

\* An item changes hands only between partners, from a slot that is traded and
\* not from the one that is only shown, and never against the will of the one
\* who did not press last.
TransfersAreAgreed ==
    [][\A p, q \in online : \A i \in inventory[p] :
         p # q /\ i \in inventory'[q] /\ online' = online =>
            /\ Trading(p) /\ Partner(p) = q
            /\ \E s \in TradedSlots : trade[p].items[s] = i
            /\ trade[p].accepted \/ trade[q].accepted]_vars

\* No item is in two inventories, in the world or on disk, whatever saves and
\* crashes fall between the steps of a trade.
NoItemTwice ==
    \A p, q \in Players : p # q =>
        inventory[p] \cap inventory[q] = {} /\ disk[p].items \cap disk[q].items = {}

\* The same of every moment the database goes through: what it holds of p after
\* k commits is what the last of these that wrote p saved.
Saved(p, k) == IF k = 0 THEN disk[p].items ELSE saves[k][p].items
Current(p, j, k) ==
    /\ j \in 0..k /\ (j = 0 \/ p \in DOMAIN saves[j])
    /\ \A m \in (j + 1)..k : p \notin DOMAIN saves[m]

InventoriesApart == \A p, q \in Players : p # q => inventory[p] \cap inventory[q] = {}

SavesApart ==
    \A p, q \in Players : p # q =>
        \A k \in 0..Len(saves) : \A i, j \in 0..k :
            Current(p, i, k) /\ Current(q, j, k) => Saved(p, i) \cap Saved(q, j) = {}

LastSavesApart ==
    \A p, q \in Players : p # q =>
        \A i \in 0..Len(saves) :
            Current(p, i, Len(saves)) => Saved(p, i) \cap inventory[q] = {}

\* No two players share an item in the world, in the database at any commit to
\* come, or one in the world and the other in the last save: the order in which
\* the exchange, its transaction and the periodic saves reach the queue keeps
\* every crash from duplicating an item.
ItemsApart == InventoriesApart /\ SavesApart /\ LastSavesApart

\* Trades, saves and crashes together never make gold: neither the players nor
\* the database own more than the players began with.
GoldNeverCreated ==
    /\ SumFunction(gold) <= SumFunction(InitGold)
    /\ SumFunction([p \in Players |-> disk[p].gold]) <= SumFunction(InitGold)

\* ModifyMoney cuts a balance at MAX_MONEY_AMOUNT: a completed trade loses gold
\* only when it leaves one of the two at that limit.
GoldLostOnlyAtLimit ==
    [][\A p \in Players :
         Trading(p) /\ trade'[p] = NULL /\ SumFunction(gold') # SumFunction(gold) /\ online' = online =>
            \E q \in {p, Partner(p)} : gold'[q] = MaxGold]_vars
=============================================================================
