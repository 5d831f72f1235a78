-------------------------------- MODULE Mail --------------------------------
(***************************************************************************)
(* The mails between players: MailHandler.cpp, Mail.cpp, the mail part of  *)
(* Player.cpp and the return of old mails in ObjectMgr.cpp.                *)
(*                                                                         *)
(* A mail is in two places: in the memory of a receiver who is online and  *)
(* in the tables of the database.  The handlers run on the world thread,   *)
(* one after the other, change the memory at once and queue transactions,  *)
(* which the database thread executes in order.  Logging in is a query in  *)
(* the same queue, whose answer is taken later; a crash loses the memory   *)
(* and the queue.                                                          *)
(***************************************************************************)
EXTENDS Integers, Sequences, FiniteSets, SequencesExt, Functions

CONSTANTS
    Players,
    Items,
    Ids,            \* mail ids
    InitGold,
    InitItems,
    Amounts,        \* sums the clients enter
    Cost,           \* of a mail, or of each item in it
    Cap,            \* mails a receiver may have and still be sent one
    MaxGold,        \* MAX_MONEY_AMOUNT
    ColumnSize,     \* a sum is stored as a 32 bit number: modulo this
    WordSize,       \* sums are added as 64 bit numbers: modulo this
    CountSize,      \* mails are counted in 8 bits: modulo this
    NULL

VARIABLES
    status,         \* of each player: how far the login has got
    player,         \* the Player object, as far as mails need it, or NULL
    delay,          \* what the database thread has still to execute
    db,             \* the tables
    settled         \* the tables once delay is executed (history)

vars == <<status, player, delay, db, settled>>

Mail ==
    [ sender:  Players,
      money:   Nat,
      cod:     Nat,
      items:   SUBSET Items,
      checked: {"normal", "payment", "returned"},
      state:   {"unchanged", "changed", "deleted"} ]

Player ==
    [ gold:   0..MaxGold,
      bag:    SUBSET Items,
      mitems: SUBSET Items,                    \* mMitems: the items of all mails
      mails:  [Ids -> Mail \cup {NULL}] ]      \* m_mail

ASSUME MailAssumption ==
    /\ IsFiniteSet(Players) /\ IsFiniteSet(Items) /\ IsFiniteSet(Ids)
    /\ InitGold \in [Players -> 0..MaxGold]
    /\ InitItems \in [Players -> SUBSET Items]
    /\ \A p, q \in Players : p # q => InitItems[p] \cap InitItems[q] = {}
    /\ Amounts \subseteq Nat /\ Cost \in Nat /\ Cap \in Nat
    /\ MaxGold \in Nat
    /\ ColumnSize \in Nat \ {0} /\ WordSize \in Nat \ {0} /\ CountSize \in Nat \ {0}
    /\ NULL \notin Players \cup Ids \cup Mail \cup Player

\* The columns mails depend on.  A row of mail without a receiver, or an item
\* without an instance, is a row that does not exist.
Columns ==
    [ money:     [Players -> 0..MaxGold],            \* characters
      bag:       [Items -> Players \cup {NULL}],     \* character_inventory
      instance:  [Items -> BOOLEAN],                 \* item_instance
      inMail:    [Items -> Ids \cup {NULL}],         \* mail_items
      receiver:  [Ids -> Players \cup {NULL}],       \* mail
      sender:    [Ids -> Players \cup {NULL}],
      mailMoney: [Ids -> 0..ColumnSize - 1],
      cod:       [Ids -> 0..ColumnSize - 1],
      checked:   [Ids -> {"normal", "payment", "returned"}] ]

\* A mail has a sender and a receiver, or neither.
Paired(d) ==
    /\ DOMAIN d.receiver = DOMAIN d.sender
    /\ \A m \in DOMAIN d.receiver : d.receiver[m] = NULL <=> d.sender[m] = NULL

Tables == {d \in Columns : Paired(d)}

(***************************************************************************)
(* The database.  A transaction is what it writes: for each column a       *)
(* function of the rows it writes there.                                   *)
(***************************************************************************)
Rows(R, V) == UNION {[D -> V] : D \in SUBSET R}

WriteColumns ==
    [ money:     Rows(Players, 0..MaxGold),
      bag:       Rows(Items, Players \cup {NULL}),
      instance:  Rows(Items, BOOLEAN),
      inMail:    Rows(Items, Ids \cup {NULL}),
      receiver:  Rows(Ids, Players \cup {NULL}),
      sender:    Rows(Ids, Players \cup {NULL}),
      mailMoney: Rows(Ids, 0..ColumnSize - 1),
      cod:       Rows(Ids, 0..ColumnSize - 1),
      checked:   Rows(Ids, {"normal", "payment", "returned"}) ]

\* What stores an item in item_instance writes its row of mail_items as well.
Writes ==
    {w \in WriteColumns :
        /\ Paired(w)
        /\ \A i \in DOMAIN w.instance : w.instance[i] => i \in DOMAIN w.inMail}

Query(p)    == [op |-> "query", player |-> p]
Transaction(writes) == [op |-> "transaction", writes |-> writes]

Request == [op: {"query"}, player: Players] \cup [op: {"transaction"}, writes: Writes]

\* The rows a transaction leaves alone, and one row.
NoRow     == [row \in {} |-> NULL]
Row(r, v) == [row \in {r} |-> v]

Untouched ==
    [ money |-> NoRow, bag |-> NoRow, instance |-> NoRow, inMail |-> NoRow, receiver |-> NoRow,
      sender |-> NoRow, mailMoney |-> NoRow, cod |-> NoRow, checked |-> NoRow ]

Written(column, rows) == [r \in DOMAIN column |-> IF r \in DOMAIN rows THEN rows[r] ELSE column[r]]

\* The tables d after a transaction has written w.
Stored(d, w) ==
    [ money     |-> Written(d.money, w.money),
      bag       |-> Written(d.bag, w.bag),
      instance  |-> Written(d.instance, w.instance),
      inMail    |-> Written(d.inMail, w.inMail),
      receiver  |-> Written(d.receiver, w.receiver),
      sender    |-> Written(d.sender, w.sender),
      mailMoney |-> Written(d.mailMoney, w.mailMoney),
      cod       |-> Written(d.cod, w.cod),
      checked   |-> Written(d.checked, w.checked) ]

Executed(d, request) ==
    IF request.op = "transaction" THEN Stored(d, request.writes) ELSE d

\* The tables d before the requests, after the first, after the second...
After(d, requests) ==
    LET after[k \in 0..Len(requests)] ==
            IF k = 0 THEN d ELSE Executed(after[k - 1], requests[k])
    IN  after

\* The requests go to the database thread.
Queued(requests) ==
    /\ delay' = delay \o requests
    /\ settled' = After(settled, requests)[Len(requests)]

TypeOK ==
    /\ status \in [Players -> {"offline", "asked", "loaded", "online"}]
    /\ player \in [Players -> Player \cup {NULL}]
    /\ \A p \in Players : player[p] # NULL <=> status[p] \in {"loaded", "online"}
    /\ delay \in Seq(Request)
    /\ db \in Tables /\ settled \in Tables

Init ==
    /\ status = [p \in Players |-> "offline"]
    /\ player = [p \in Players |-> NULL]
    /\ delay = <<>>
    /\ db = [ money     |-> InitGold,
              bag       |-> [i \in Items |->
                               IF \E p \in Players : i \in InitItems[p]
                               THEN CHOOSE p \in Players : i \in InitItems[p] ELSE NULL],
              instance  |-> [i \in Items |-> \E p \in Players : i \in InitItems[p]],
              inMail    |-> [i \in Items |-> NULL],
              receiver  |-> [m \in Ids |-> NULL],
              sender    |-> [m \in Ids |-> NULL],
              mailMoney |-> [m \in Ids |-> 0],
              cod       |-> [m \in Ids |-> 0],
              checked   |-> [m \in Ids |-> "normal"] ]
    /\ settled = db

InBag(d, p)   == {i \in Items : d.instance[i] /\ d.bag[i] = p}
Attached(d, m) == {i \in Items : d.instance[i] /\ d.inMail[i] = m}
Existing(d)   == {m \in Ids : d.receiver[m] # NULL}

\* _LoadMails, _LoadMailedItems and the rest of LoadFromDB.
LoadFromDB(p) ==
    [ gold   |-> db.money[p],
      bag    |-> InBag(db, p),
      mitems |-> {i \in Items : \E m \in Existing(db) : db.receiver[m] = p /\ i \in Attached(db, m)},
      mails  |-> [m \in Ids |->
          IF db.receiver[m] # p THEN NULL
          ELSE [ sender |-> db.sender[m], money |-> db.mailMoney[m], cod |-> db.cod[m],
                 items |-> Attached(db, m), checked |-> db.checked[m],
                 state |-> "unchanged" ]] ]

ProcessRequest ==
    /\ delay # <<>>
    /\ delay' = Tail(delay)
    /\ UNCHANGED settled
    /\ LET request == Head(delay)
       IN  \/ /\ request.op = "transaction"
              /\ db' = Stored(db, request.writes)
              /\ UNCHANGED <<status, player>>
           \/ /\ request.op = "query"
              /\ status' = [status EXCEPT ![request.player] = "loaded"]
              /\ player' = [player EXCEPT ![request.player] = LoadFromDB(request.player)]
              /\ UNCHANGED db

(***************************************************************************)
(* Helpers.                                                                *)
(***************************************************************************)
\* sObjectMgr.GetPlayer does not find a player whose login is not answered yet.
Online  == {p \in Players : status[p] = "online"}
Mails(p) == {m \in Ids : player[p].mails[m] # NULL}

\* GenerateMailID: an id nothing refers to.
GenerateMailID ==
    {m \in Ids : /\ db.receiver[m] = NULL /\ Attached(db, m) = {}
                 /\ \A p \in Players : player[p] # NULL => m \notin Mails(p)
                 /\ \A k \in 1..Len(delay) : delay[k].op = "transaction" =>
                       LET w == delay[k].writes
                       IN  /\ m \notin DOMAIN w.receiver \cup DOMAIN w.mailMoney
                           /\ \A i \in DOMAIN w.inMail : w.inMail[i] # m}

\* ModifyMoney takes a sum with a sign, stops at the gold limit and at zero.
Signed(n) == IF n % WordSize < WordSize \div 2 THEN n % WordSize ELSE (n % WordSize) - WordSize

Receive(g, n) ==
    IF Signed(n) < 0
    THEN IF g > -Signed(n) THEN g + Signed(n) ELSE 0
    ELSE IF g < MaxGold - Signed(n) THEN g + Signed(n) ELSE MaxGold

NewMail(sender, money, cod, items, checked) ==
    [sender |-> sender, money |-> money, cod |-> cod, items |-> items,
     checked |-> checked, state |-> "unchanged"]

\* SendMailTo: the rows of mail m, and its copy for a receiver who is online.
SentRows(m, r, mail) ==
    [Untouched EXCEPT !.receiver  = Row(m, r),
                      !.sender    = Row(m, mail.sender),
                      !.mailMoney = Row(m, mail.money % ColumnSize),
                      !.cod       = Row(m, mail.cod % ColumnSize),
                      !.checked   = Row(m, mail.checked),
                      !.inMail    = [i \in mail.items |-> m]]

\* The rows of the mails M and of the items I in them are deleted.
DeletedRows(M, I) ==
    [Untouched EXCEPT !.receiver  = [m \in M |-> NULL],
                      !.sender    = [m \in M |-> NULL],
                      !.mailMoney = [m \in M |-> 0],
                      !.cod       = [m \in M |-> 0],
                      !.checked   = [m \in M |-> "normal"],
                      !.inMail    = [i \in I |-> NULL]]

AddMail(players, m, r, mail) ==
    IF r \in Online
    THEN [players EXCEPT ![r].mails[m] = mail, ![r].mitems = @ \cup mail.items]
    ELSE players

(***************************************************************************)
(* Saving.  _SaveMail stores the mails that have changed and destroys the  *)
(* deleted ones with all they hold.                                        *)
(***************************************************************************)
InState(pl, s) == {m \in Ids : pl.mails[m] # NULL /\ pl.mails[m].state = s}

Gone(pl) == UNION {pl.mails[m].items : m \in InState(pl, "deleted")}

SavedRows(pl) ==
    LET changed == InState(pl, "changed")
        touched == changed \cup InState(pl, "deleted")
    IN  [DeletedRows(InState(pl, "deleted"), Gone(pl)) EXCEPT
            !.mailMoney = [m \in touched |->
                             IF m \in changed THEN pl.mails[m].money % ColumnSize ELSE 0],
            !.cod       = [m \in touched |->
                             IF m \in changed THEN pl.mails[m].cod % ColumnSize ELSE 0],
            !.checked   = [m \in touched |->
                             IF m \in changed THEN pl.mails[m].checked ELSE "normal"],
            !.instance  = [i \in Gone(pl) |-> FALSE]]

_SaveMail(pl) ==
    [pl EXCEPT !.mails = [m \in Ids |->
        CASE m \in InState(pl, "deleted") -> NULL
          [] m \in InState(pl, "changed") -> [pl.mails[m] EXCEPT !.state = "unchanged"]
          [] OTHER -> pl.mails[m]]]

SaveGold(p, pl) == [Untouched EXCEPT !.money = Row(p, pl.gold)]

\* SaveToDB is one transaction: the gold and, when they have changed, the mails.
SaveRows(p, pl) == [SavedRows(pl) EXCEPT !.money = Row(p, pl.gold)]

SaveToDB(p) == Transaction(SaveRows(p, player[p]))

(***************************************************************************)
(* Logging in and out.                                                     *)
(***************************************************************************)
HandlePlayerLoginOpcode(p) ==
    /\ status[p] = "offline"
    /\ status' = [status EXCEPT ![p] = "asked"]
    /\ Queued(<<Query(p)>>)
    /\ UNCHANGED <<player, db>>

HandlePlayerLogin(p) ==
    /\ status[p] = "loaded"
    /\ status' = [status EXCEPT ![p] = "online"]
    /\ UNCHANGED <<player, delay, db, settled>>

LogoutPlayer(p) ==
    /\ status[p] = "online"
    /\ status' = [status EXCEPT ![p] = "offline"]
    /\ player' = [player EXCEPT ![p] = NULL]
    /\ Queued(<<SaveToDB(p)>>)
    /\ UNCHANGED db

\* The periodic save, while some mail waits for it.
Save(p) ==
    /\ status[p] = "online"
    /\ InState(player[p], "changed") \cup InState(player[p], "deleted") # {}
    /\ player' = [player EXCEPT ![p] = _SaveMail(player[p])]
    /\ Queued(<<SaveToDB(p)>>)
    /\ UNCHANGED <<status, db>>

(***************************************************************************)
(* Sending.  The items leave the database one by one, then the mail is     *)
(* stored, then the sender's gold.                                         *)
(***************************************************************************)
Max1(n) == IF n = 0 THEN 1 ELSE n
Postage(I) == Cost * Max1(Cardinality(I))

\* The size of the receiver's mailbox: in memory, or in the tables as they are.
MailCount(r) ==
    Cardinality(IF r \in Online THEN Mails(r) ELSE {m \in Ids : db.receiver[m] = r}) % CountSize

\* reqmoney: the sum of postage and gold wraps around.
Required(I, money) == (Postage(I) + money) % WordSize

\* Mutant: the gold is not asked for.
CanSend_AnyGold(p, r, I, money) ==
    status[p] = "online" /\ r # p /\ I \subseteq player[p].bag /\ MailCount(r) <= Cap

CanSend(p, r, I, money) ==
    /\ status[p] = "online" /\ r # p
    /\ I \subseteq player[p].bag
    /\ player[p].gold >= Required(I, money)
    /\ MailCount(r) <= Cap

\* An item leaves the sender's inventory.
TakenOut(i) == [Untouched EXCEPT !.bag = Row(i, NULL)]

\* The transactions, in order, of sender pl who sends mail m to r.
SendRequests_MailFirst(p, pl, m, r, mail) ==    \* Mutant: the items leave last.
    << Transaction(SentRows(m, r, mail)), Transaction(SaveGold(p, pl)) >>
    \o [k \in 1..Cardinality(mail.items) |->
            Transaction(TakenOut(SetToSeq(mail.items)[k]))]

SendRequests(p, pl, m, r, mail) ==
    [k \in 1..Cardinality(mail.items) |->
            Transaction(TakenOut(SetToSeq(mail.items)[k]))]
    \o << Transaction(SentRows(m, r, mail)), Transaction(SaveGold(p, pl)) >>

HandleSendMail(p, r, I, money, cod) ==
    LET mail   == NewMail(p, money, cod, I, "normal")
        sender == [player[p] EXCEPT !.gold = @ - Required(I, money), !.bag = @ \ I]
    IN  /\ CanSend(p, r, I, money)
        /\ \E m \in GenerateMailID :
              /\ player' = AddMail([player EXCEPT ![p] = sender], m, r, mail)
              /\ Queued(SendRequests(p, sender, m, r, mail))
        /\ UNCHANGED <<status, db>>

(***************************************************************************)
(* The receiver's mailbox.                                                 *)
(***************************************************************************)
Has(p, m) == status[p] = "online" /\ player[p].mails[m] # NULL

\* Reading marks a mail as changed, whatever it was before.
HandleMailMarkAsRead(p, m) ==
    /\ Has(p, m)
    /\ player' = [player EXCEPT ![p].mails[m].state = "changed"]
    /\ UNCHANGED <<status, delay, db, settled>>

\* A mail with a price cannot be deleted.
HandleMailDelete(p, m) ==
    /\ Has(p, m) /\ player[p].mails[m].cod = 0
    /\ player' = [player EXCEPT ![p].mails[m].state = "deleted"]
    /\ UNCHANGED <<status, delay, db, settled>>

Usable(p, m) == Has(p, m) /\ player[p].mails[m].state # "deleted"

\* The mail is deleted from the database, then sent to its sender without a price,
\* with those of its items that GetMItem finds.
HandleMailReturnToSender(p, m) ==
    LET mail     == player[p].mails[m]
        without  == [player[p] EXCEPT !.mails[m] = NULL, !.mitems = @ \ mail.items]
        returned == NewMail(p, mail.money, 0, mail.items \cap player[p].mitems, "returned")
    IN  /\ Usable(p, m)
        /\ \E n \in GenerateMailID :
              /\ player' = AddMail([player EXCEPT ![p] = without], n, mail.sender, returned)
              /\ Queued(<< Transaction(DeletedRows({m}, mail.items)),
                           Transaction(SentRows(n, mail.sender, returned)) >>)
        /\ UNCHANGED <<status, db>>

\* Mutant: the mail is not marked for saving.
WithItem_Unmarked(p, m, i) ==
    LET mail == player[p].mails[m]
    IN  [player[p] EXCEPT !.gold = @ - mail.cod,
                          !.bag = @ \cup {i}, !.mitems = @ \ {i},
                          !.mails[m] = [mail EXCEPT !.items = @ \ {i}, !.cod = 0]]

\* Mutant: the price is paid to the sender and not taken.
WithItem_Unpaid(p, m, i) ==
    LET mail == player[p].mails[m]
    IN  [player[p] EXCEPT !.bag = @ \cup {i}, !.mitems = @ \ {i},
                          !.mails[m] = [mail EXCEPT !.items = @ \ {i}, !.cod = 0,
                                                    !.state = "changed"]]

\* The player once item i has been taken for the price of mail m.
WithItem(p, m, i) ==
    LET mail == player[p].mails[m]
    IN  [player[p] EXCEPT !.gold = @ - mail.cod,
                          !.bag = @ \cup {i}, !.mitems = @ \ {i},
                          !.mails[m] = [mail EXCEPT !.items = @ \ {i}, !.cod = 0,
                                                    !.state = "changed"]]

\* One transaction: the gold and the item in the bag, then the mails, which may
\* destroy the item again if a deleted one lists it.
WithRow(rows, r, v) == [row \in DOMAIN rows \cup {r} |-> IF row = r THEN v ELSE rows[row]]

TakenRows(p, pl, i) ==
    [SaveRows(p, pl) EXCEPT !.bag      = Row(i, p),
                            !.instance = WithRow(@, i, i \notin Gone(pl)),
                            !.inMail   = WithRow(@, i, NULL)]

\* The client names a mail and an item.  The item is looked up among those of all
\* the player's mails: that it is one of this mail is not checked.
HandleMailTakeItem(p, m, i) ==
    LET mail == player[p].mails[m]
        pl   == WithItem(p, m, i)
        rest == [player EXCEPT ![p] = _SaveMail(pl)]
        save == Transaction(TakenRows(p, pl, i))
    IN  /\ Usable(p, m) /\ i \in player[p].mitems
        /\ player[p].gold >= mail.cod
        /\ \/ /\ mail.cod = 0
              /\ player' = rest
              /\ Queued(<<save>>)
           \/ /\ mail.cod > 0
              /\ LET payment == NewMail(p, mail.cod, 0, {}, "payment")
                 IN  \E n \in GenerateMailID :
                        /\ player' = AddMail(rest, n, mail.sender, payment)
                        /\ Queued(<<Transaction(SentRows(n, mail.sender, payment)), save>>)
        /\ UNCHANGED <<status, db>>

HandleMailTakeMoney(p, m) ==
    LET mail == player[p].mails[m]
        pl   == [player[p] EXCEPT !.gold = Receive(@, mail.money),
                                  !.mails[m] = [mail EXCEPT !.money = 0, !.state = "changed"]]
    IN  /\ Usable(p, m)
        /\ player' = [player EXCEPT ![p] = _SaveMail(pl)]
        /\ Queued(<<Transaction(SaveRows(p, pl))>>)
        /\ UNCHANGED <<status, db>>

(***************************************************************************)
(* Old mails.  One with items goes back to its sender, once; any other is  *)
(* destroyed with all it holds.  The tables are read as they are now.      *)
(***************************************************************************)
Returnable(m) == Attached(db, m) # {} /\ db.checked[m] = "normal"

\* The old mails M go back; the items in them are destroyed.
ReturnedRows(M) ==
    [Untouched EXCEPT !.receiver = [m \in M |-> db.sender[m]],
                      !.sender   = [m \in M |-> db.receiver[m]],
                      !.cod      = [m \in M |-> 0],
                      !.checked  = [m \in M |-> "returned"]]

DestroyedRows(M) ==
    [Untouched EXCEPT !.instance = [i \in UNION {Attached(db, m) : m \in M} |-> FALSE]]

\* The statements about old mail m, in order.
ReturnOrDelete(m) ==
    IF Returnable(m)
    THEN << Transaction(ReturnedRows({m})) >>
    ELSE << Transaction(DestroyedRows({m})), Transaction(DeletedRows({m}, {})) >>

\* While the server runs, mails of players who are online are left alone.
ReturnOrDeleteOldMails(m) ==
    /\ m \in Existing(db) /\ db.receiver[m] \notin Online
    /\ Queued(ReturnOrDelete(m))
    /\ UNCHANGED <<status, player, db>>

\* A crash loses the memory and the queue; the start handles the old mails.
Restart(old) ==
    /\ old \subseteq Existing(db)
    /\ status' = [p \in Players |-> "offline"]
    /\ player' = [p \in Players |-> NULL]
    /\ delay' = <<>>
    /\ LET back == {m \in old : Returnable(m)}
       IN  db' = Stored(Stored(Stored(db, ReturnedRows(back)),
                               DestroyedRows(old \ back)),
                        DeletedRows(old \ back, {}))
    /\ settled' = db'

\* What a player does but for taking items out of mails.
OtherStep(p) ==
    \/ HandlePlayerLoginOpcode(p) \/ HandlePlayerLogin(p) \/ LogoutPlayer(p) \/ Save(p)
    \/ \E r \in Players, I \in SUBSET Items, money, cod \in Amounts :
          HandleSendMail(p, r, I, money, cod)
    \/ \E m \in Ids :
          \/ HandleMailMarkAsRead(p, m) \/ HandleMailDelete(p, m)
          \/ HandleMailReturnToSender(p, m) \/ HandleMailTakeMoney(p, m)

PlayerStep(p) == OtherStep(p) \/ \E m \in Ids, i \in Items : HandleMailTakeItem(p, m, i)

CrashStep == \E old \in SUBSET Ids : Restart(old)

Next ==
    \/ \E p \in Players : PlayerStep(p)
    \/ ProcessRequest
    \/ \E m \in Ids : ReturnOrDeleteOldMails(m)
    \/ CrashStep

Spec == Init /\ [][Next]_vars

\* Two things break what follows, and the behaviours that follow it are those
\* without them.  The daily return of old mails reads tables that may be behind and
\* does not see a receiver who is loading: here the database has caught up when an
\* old mail is returned, and its receiver is away.
QuietReturn(m) ==
    /\ ReturnOrDeleteOldMails(m)
    /\ delay = <<>> /\ status[db.receiver[m]] = "offline"

\* And HandleMailTakeItem does not see whether the item is one of the mail: here
\* clients name an item that the mail they name lists, as the game's client does.
OwnTake(p, m, i) ==
    /\ HandleMailTakeItem(p, m, i)
    /\ i \in player[p].mails[m].items

QuietNext ==
    \/ \E p \in Players :
          OtherStep(p) \/ \E m \in Ids, i \in Items : OwnTake(p, m, i)
    \/ ProcessRequest
    \/ \E m \in Ids : QuietReturn(m)
    \/ CrashStep

QuietSpec == Init /\ [][QuietNext]_vars

(***************************************************************************)
(* Properties.                                                             *)
(***************************************************************************)
Present == {p \in Players : player[p] # NULL}
Held(p) == UNION {player[p].mails[m].items : m \in Mails(p)}

\* No item is twice in the game, and none is twice on disk, whenever the server
\* crashes: each handler takes an item out of where it was before, or in the
\* transaction in which, it stores it somewhere else.  This is a property of
\* QuietSpec.  It fails for a request that names an item of another mail: taken for
\* the price of the one, it is in the bag and still listed in the other.
NoItemTwice ==
    /\ \A p, q \in Present : p # q => (player[p].bag \cup Held(p)) \cap (player[q].bag \cup Held(q)) = {}
    /\ \A p \in Present : /\ player[p].bag \cap Held(p) = {}
                          /\ \A m, n \in Mails(p) : m # n =>
                                player[p].mails[m].items \cap player[p].mails[n].items = {}
    /\ \A i \in Items : db.instance[i] /\ db.bag[i] # NULL => db.inMail[i] \notin Existing(db)

\* What a player has in memory is what the database has once it has caught up,
\* however far the saves are behind; a mail can wait there that arrived while the
\* player was loading, and one deleted in memory is still there.  This is a property
\* of QuietSpec, too.  After a request that names an item of another mail, that mail
\* lists in memory what its rows no longer have, and when it is deleted the row of
\* the item in the bag goes with it.
MemoryIsStored ==
    \A p \in Online :
        /\ player[p].gold = settled.money[p]
        /\ player[p].bag = InBag(settled, p)
        /\ \A m \in Mails(p) :
              LET mail == player[p].mails[m]
              IN  /\ settled.receiver[m] = p /\ settled.sender[m] = mail.sender
                  /\ settled.mailMoney[m] = mail.money /\ settled.cod[m] = mail.cod
                  /\ Attached(settled, m) = mail.items

\* All the gold there is in tables d.
TotalGold(d) == SumFunction(d.money) + SumFunctionOnSet(d.mailMoney, Existing(d))

\* The gold in deleted mails that a step stores as destroyed.
Thrown ==
    SumFunctionOnSet(settled.mailMoney,
                     {m \in Ids : /\ settled'.receiver[m] = NULL
                                  /\ \E p \in Online : m \in InState(player[p], "deleted")})

\* Gold that is sent, returned or paid on delivery arrives in full, once: a mail
\* costs its postage, and else gold is lost only with a mail that its receiver
\* deletes or that gets too old, above the gold limit, and in a crash.
GoldAccounted ==
    [][LET left == TotalGold(settled) - Thrown
           now  == TotalGold(settled')
       IN  \/ now = left
           \/ \E p, r \in Players, I \in SUBSET Items, money, cod \in Amounts :
                 HandleSendMail(p, r, I, money, cod) /\ now = left - Postage(I)
           \/ \E p \in Players, m \in Ids :
                 /\ HandleMailTakeMoney(p, m)
                 /\ now = left - (player[p].gold + player[p].mails[m].money - MaxGold)
           \/ \E m \in Ids : /\ ReturnOrDeleteOldMails(m) /\ ~Returnable(m)
                             /\ now = left - db.mailMoney[m]
           \/ CrashStep]_vars
=============================================================================
