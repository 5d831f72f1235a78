# Formal model of the MaNGOS R2 (mangos3) world server

This directory holds TLA+ models of the parts of the server whose correctness
depends on the order in which things happen: sessions that connect, load,
reconnect and vanish; sockets that four threads open, read and close; the pool
of threads behind the update of the maps; an asynchronous database behind a
synchronous world; and exchanges of goods between players that must survive
every interleaving and every crash.  `tlasany M.tla` parses a module, `tlc -config X.cfg MCM` checks
an instance, `tlapm M.tla` checks the proofs.

## 1. Inventory

The server is one process (`src/mangosd`) with these threads:

| thread | code | what it does |
| --- | --- | --- |
| network | `WorldSocketMgr.cpp`, `WorldSocket.cpp` | authenticates clients, makes `WorldSession`s, queues packets, closes sockets |
| world | `WorldRunnable.cpp`, `World.cpp` | ticks: takes new sessions, updates sessions (runs opcode handlers), updates maps, drains query results |
| map workers | `MapUpdater.cpp` | update maps while the world thread waits for them |
| database | `SqlDelayThread.cpp` | executes queued statements, transactions and queries in order |
| console, RA, SOAP | `mangosd/` | queue text commands for the world thread |

`src/realmd` is the authentication server, a separate process.

| component | state | operations | hard behaviour | what makes it correct |
| --- | --- | --- | --- | --- |
| World sessions, login queue | `m_sessions`, `m_QueuedSessions`, `addSessQueue`, flags of each session | connect, replace, kick, queue, admit, update, log out, remove | network threads act between any two steps of a tick; callbacks find "the session of the account" | no dangling pointers; queue and flags agree; the limit holds and the queue moves, in order; lost sessions go |
| Character login | `m_playerLoading`, `_player`, query holders | enum, login, their callbacks | the answer arrives after the asker may have gone | one player per character; the last save is what is loaded |
| Asynchronous database | delay queue, result queue | execute, query, transaction | order, crash | FIFO; transactions are whole |
| Trade | `m_trade` of both players | open, cancel, set gold, item, spell, clear, accept, unaccept | stale acceptance, goods that change after they are listed, crash after the exchange | windows come in pairs; an acceptance is for the lists as they are; items are with one owner in memory and on disk; gold is not made |
| Auction house | auctions, items, bids, pending sales | sell, bid, buyout, cancel, expire, deliver | many small transactions, mails to offline players | goods and gold conserved |
| Mail | mailboxes, items in mails | send, COD, take, return, delete, expire | item in a mail or in a bag, never both; crash between transactions | conservation |
| Group, loot roll | members, leader, votes | invite, join, leave, kick, vote, time out | members leave during a roll | every roll ends once |
| Guild bank | tabs, rights, day limits | deposit, withdraw, log | limits over days | limit kept |
| LFG | role checks, proposals | join, role, answer, teleport | timeouts racing answers | a proposal is accepted by all or by none |
| Battleground queue | queued groups, invitations | join, invite, enter, expire | timed removal events | no player in two battlegrounds |
| Threat, hostile references | two linked lists per pair of units | add, remove, delete source, delete target | destruction while iterating | lists mirror each other |
| World socket | `m_Session`, `closing_`, the count of references | open, register, read, authenticate, kick, close, drop | the acceptor, the network thread, the world thread and the threads of the maps meet in one object; two locks, two critical sections in a close | freed with its last holder; packets go to sessions that exist; what is closed is let go of |
| Map updater, object lock | request queue, `m_threadsMap`, two counts | schedule, wait, serve, kill, restart | condition variables without predicates, books kept apart from what the threads do | the world thread waits for all, and not for ever |
| Map persistent state | binds, reset times | bind, unbind, reset | restart | a reset instance has no players |
| Pools, game events, creature linking | spawn tables | spawn, despawn, start, stop | nesting | limits kept |
| Duel, motion, unit states, vehicles, transports | per unit | ... | ... | ... |
| Spells and auras | per unit, data driven | cast, apply, remove | data | out of reach: the behaviour is in the data |
| Calendar, arena teams, petitions, social, channels, guild finder, void storage | tables | edit | little | permissions |
| Warden, playerbots, auction bot, scripts | add-ons | | | |
| vmap, mmap, extractors, vendored libraries | geometry, tools | | | |

The same list, with the status of each, is in `PROJECT.json`.

## 2. Plan

The order is that of the damage a wrong interleaving does: first who is in the
world, then what he owns, then the threads below.

| order | module | models | composes with | state |
| --- | --- | --- | --- | --- |
| 1 | `WorldSessions` | sessions, login queue, asynchronous login | its own database queue; implements `LoginQueue` | done, with proofs |
| 2 | `LoginQueue` | what a login queue promises its clients | implemented by `WorldSessions` | done, with proofs |
| 3 | `Trade` | trade window, saves, crashes | its own save queue | done, with proofs |
| 4 | `AuctionHouse` | auctions, bot, crashes between transactions | mails, aggregated | done, with proofs |
| 5 | `Mail` | mails between players, memory against tables | the queue of `WorldSessions`, with contents | done, with proofs |
| 6 | `MapUpdate` | the pool behind `MapManager::Update`, its books, kills and restarts | the ticks of `WorldSessions` and `SocketSession` | done, with proofs |
| 7 | `SocketSession` | `WorldSocket` against `WorldSession` at the grain of their locks | `HandleAuthSession`, `QueuePacket`, `handle_close` of `WorldSessions`, there single steps | done, with proofs |
| 8 | `LootRoll` | `Group.cpp`: votes, timeout, departing members | | not begun |
| 9 | `GuildBank` | withdrawals against day limits and rights | | not begun |
| 10 | `BattleGroundQueue` | invitations and removal events | | not begun |
| 11 | `LFG` | role check and proposal | | not begun |
| 12 | `HostileRefs` | the two-sided threat references | | not begun |

Still worth stating: an atomic exchange of goods between two owners, implemented
by `Trade` and by `AuctionHouse` without crashes; a ledger in which every item
has one holder, implemented by `Mail`.  The safety and action properties of the
modules that exist are proved (section 7); the modules not yet begun come next.

Every run takes about two minutes at most.  Questions that can be asked of one
instance share a run.

## 3. Modules

Each `MC` module only gives finite values and bounds.  Operators that end in an
underscore and a name and are marked "Mutant" are broken variants of the
definition after them; no specification uses them.  They document which mistake
each property detects.

### WorldSessions

| model | code |
| --- | --- |
| `session[s]` | one `WorldSession` object; `life` follows the pointer from the network thread (`added`) to the map (`live`) and its `delete` |
| `m_sessions`, `m_QueuedSessions`, `addSessQueue`, `m_playerLimit` | the members of `World` of these names |
| `phase`, `toUpdate`, `updating` | where `World::Update` is: taking sessions, in `UpdateSessions` (which sessions are left, which is in `Update`), draining results |
| `delayQueue`, `resultQueue`, `stored` | `SqlDelayThread`, `SqlResultQueue`, the characters table |
| `screen` | what the client has been shown; it limits the packets a client sends to those it can |
| `inWorld`, `lastSave` | history for the properties |

`HandleAuthSession`, `QueuePacket` and `handle_close` are steps of network
threads and fall between any two other steps.  `AddSession_` is split by its
outcome.  The packet loop of `Update` takes one packet per step; `UpdateEnds` is
the rest of `Update` with the removal in `UpdateSessions`.  A callback is one
action per handler and outcome.  The code finds the session of an answer by
account id, and so does the model.

Abstractions: one character per account; its state is a counter that `PlayCharacter`
moves on and `SaveToDB` stores; anything a handler of another part does to a
session is left out; logging out takes effect at once or sets the timer, and
every timer may run out at any later update.

### LoginQueue, and how WorldSessions implements it

`LoginQueue` knows clients that are inside or waiting.  A turn is made of at most
one departure, one admission of the first that waits, and one arrival.  It says
nothing of limits, accounts, staff, replaced sessions or the database.
`ImplementsLoginQueue` is its specification with

| LoginQueue | WorldSessions |
| --- | --- |
| `Clients` | `Sessions` |
| `inside` | the live sessions without `m_inQueue` |
| `waiting` | `m_QueuedSessions` |

and every step of the server is a turn or a stutter: a session that is removed,
kicked or replaced is the departure, the session `RemoveQueuedSession` pops is
the admission, a session `AddSession_` puts into the map or into the queue is the
arrival; all three happen at once when a reconnect replaces an active session
while others wait.  The refinement is worth having because the queue promises
something (`NobodyOvertakes`) that the server would otherwise have to be searched
for at seven places.

### Trade

`trade[p]` is `m_trade` of `p`, `NULL` when there is none; `TradeData` has the
fields of the class without the packets.  `gold`, `inventory` and `tradable` are
what `GetMoney`, `GetItemByGuid` and `CanBeTraded` return.  `saves` is the queue
of transactions, each a function from the players it writes to what it writes
of them; `disk` is what has been committed.  `HandleAcceptTradeOpcode` is one
action per way out, in the order of its checks.

Around the trade the players do what other code does to what the trade refers
to: items are used up (`DestroyItem`) or bound (`BindItem`), gold is spent, the
players are saved, log out and in and walk, and the server crashes (`Restart`).

Abstractions: the spell cast on the item in the slot that is only shown either
succeeds or fails; the room in the bags is a number of items; a binding to
another character (`IsBindedNotWith`) is part of `tradable`; the other reasons
for `TradeCancel` (dying, a taxi, a teleport) are the cancel action.

### AuctionHouse

`auctions` is `AuctionsMap` of one house, `auctionItems` is `mAitems`, and the
fields of an entry have the names of the code, but for `sold`
(`moneyDeliveryTime # 0`) and `due` (the time in question has passed).  `due`
stands for time: `TimePasses` may set it at any moment.

An element of `Items` is an item object with its guid, `count` its units; all are
stacks of one kind.  A sale names an item and a number of units.  `HasItemCount`
counts the units of all stacks, the auction gets a clone (`CloneItem`) with that
many units and a guid nothing else has (`Nowhere`), and `DestroyItemCount` takes
them from the item that was named, and from no other: if it has fewer, units are
made (`Oversells`, section 6).

`mailbox[p]` is the gold and the items in the mails of `p`, added up.  Its gold is
kept twice: `gold` is the 64 bit sum of the mails in memory, `stored` is what is in
their rows, each sum cut to the column (`InColumn`: `%u` and `GetUInt32`,
`Mail.cpp:291`, `Player.cpp:17232`).  `LoadMails` is a login, which reads the rows;
taking the gold goes through `ModifyMoney` (`Receive`), which cuts off what is above
`MaxGold`, and empties the rows.

An operation is one action and its crashes are others: `Crash_...` leaves what
the operation had stored when the server died between two of its transactions
and restarts, which reloads `mAitems`.  Gold a crash has handed out twice is
checked in the state it first appears in and not explored further (`MaxGain`).

Abstractions: one house; deposit and cut are constants of the instance; the
bot's choice of auction and price category is arbitrary among those it may
bid on.  All gold in the mails of a player is taken at once, which is what
taking it mail by mail comes to, as no mail is about more than the limit.  A stack taken out of a
mail stays an object of its own instead of joining one in the bag; the sum of
units is the same.  Equipment, bank and items in a trade window, which
`HasItemCount` tells apart from bags, are left out.

### Mail

`player[p]` is the memory: gold, bag and `m_mail`, whose entries have the states
`MAIL_STATE_UNCHANGED`, `CHANGED` and `DELETED`.  `db` is the tables, column by
column, as far as mails depend on them; a row without a receiver is no row.
`delay` is the queue of the database thread; a transaction is the rows it
writes.  `settled` is a history variable: the tables as they will be when the
queue is empty.  Every handler queues its transactions in the order and with
the grain of the code: `HandleSendMail` one per item, one for the mail, one for
the gold; `HandleMailReturnToSender` one that deletes and one that sends;
`HandleMailTakeItem` the payment and then everything else together.

A login is a query in the same queue.  Between its execution (`loaded`) and its
callback (`online`) `GetPlayer` does not find the player, so a mail that is sent
to it then reaches the tables only.  `Restart` is a crash with the return of old
mails at the next start; `ReturnOrDeleteOldMails` is the same, once a day, while
the server runs.

Abstractions: which mails are old is arbitrary; no delivery delay, no text, no
mail templates, no deletion of characters; `has_items` is whether there are
items; the columns `mail_items.receiver` and `item_instance.owner_guid`
follow the mail's receiver, so the transaction of `SendReturnToSender` that
only writes the owner is left out; `Save` is explored when it would store
something; mail ids are reused when nothing refers to them.  `inMail` names one
mail for an item, while the key of `mail_items` is the pair: exact as long as
clients take items out of the mails that list them.

`HandleMailTakeItem` takes the mail and the item a client names and, as the code,
looks the item up among all of the player's mails (`mitems`, the map `mMitems`).
`Required` adds in 64 bits, `MailCount` counts in 8, `Receive` takes a 64 bit sum
for one with a sign: each wraps around.  `Spec` is all of that.  The properties
are about `QuietSpec`, the behaviours in which clients name an item that the mail
lists (`OwnTake`) and the daily return finds its receivers away and the tables
up to date (`QuietReturn`); section 6 says what the others do.

### MapUpdate

| model | code |
| --- | --- |
| `m_queue`, `m_threadsMap`, the two counts, `m_threadsCountPreferred` | the members of `ObjectUpdateTaskBase` and `MapUpdater` of these names; a request is its map |
| `worker[t]` | where thread `t` of the pool is in `svc()`: waiting for a request, before the entry of it (`begin`), inside `Map::Update`, before the broadcast |
| `world` | where the world thread is: updating sessions, restarting the pool (`deactivate`, `activate`), scheduling, or in `queue_wait` (`InRound`) |
| `late` | the time the world thread waits for is over |
| `frozen`, `killed` | the thread `freeze_hook` found; those it killed, for the properties |

Every lock is a step: what a thread does under one lock and then under another
is two steps.  `cancel` is cooperative and `svc()` never asks, so a killed thread
goes on; only the books say that it is gone, and `kill_thread` is modelled with
the entry it really writes, that of the world thread.  A broadcast wakes the world
thread only if it waits, so wakeups are lost as with a condition variable.
Counts are `size_t` in the code and integers here; below zero stands for huge.

Abstractions: what `Map::Update` does; the load balancer may prefer any number it
could compute; the queue stays below its high water mark.

### SocketSession

| model | code |
| --- | --- |
| `socket[k]` | one `WorldSocket`: its count of references and who holds them (`open()`, the manager, the reactor), `closing_`, `m_Session` |
| `session[s]` | one `WorldSession`: its life from `new` to `delete`, `m_Socket` |
| `net` | what the network thread is about to do, and to which socket |
| `user`, `round` | the same of the world thread and of a map's thread; which of them has its turn |

`CloseSocket` and `handle_close` set `closing_` under `m_OutBufferLock` and clear
`m_Session` under `m_SessionLock`: two steps each, with any step of any other
thread between them.  `QueuePacket` keeps `m_SessionLock`, so a `CloseSocket` that
comes meanwhile waits.  The test of `closing_` before a packet is handled is
under no lock; what it saw may be stale by the next step.

Abstractions: one network thread; buffers, encryption and framing; a call that
fails (`send`, `register_handler`) may fail at any time.  The world thread and the
threads of the maps take turns here, which is what `World::Update` means to do and
what `map_barrier` shows not always to happen; the properties hold of the server
as far as that barrier does.  One thread stands for those of all maps: that a
handler on one map's thread closes, by `SendPacket`, the socket of a session
another map's thread is updating (`WorldSession.cpp:206`) is left out.

## 4. Runs

| run | instance | shows |
| --- | --- | --- |
| `sessions_login` | 2 accounts, 3 sessions, limit 1, 2 packets, 1 change of a character | no pointer to a deleted session; a login sees the last save; a session that loads is never replaced |
| `sessions_queue` | 3 players and a game master, 4 sessions, limits -1, 0, 1, 2 changing at run time, no packets | queue and `m_inQueue` agree; the limit holds; no free place is left unused; the server implements `LoginQueue` |
| `sessions_live` | 2 accounts, 2 sessions, 1 packet, fair | a lost session is removed; loading ends |
| `sessions_twice` | 1 account, 3 sessions | violation: one character twice in the world |
| `trade` | 2 players, 1 item each, bags of one, 2 and 1 gold, limit 2, 2 places, 1 save behind, one item bound or one coin or item gone | windows in pairs; acceptance for the lists as they are; items never doubled; gold never made, lost only at the limit |
| `auction_gold` | 3 players with 115 gold each, limit 215, column 115, 1 unit in 2 item objects, 1 auction, bids 100, 104, 105, 110, 115, buyout none or 110, crashes, fair | no gold is made but by crashes, none lost where the amounts fit; nobody pays for nothing; bids rise; entry and item agree; an auction without buyout ends |
| `auction_items` | 2 players, 3 item objects, stacks of 2 and 1 units, 2 auctions, bot, deleted characters | objects in one place; units are made by the bot and by overselling only |
| `auction_late` | as `auction_gold`, without crashes | violation: a bid on a sold auction |
| `mail` | 2 players with 1 gold each, 1 item, taken by its own mail, sums 0 and 1, postage 1, gold limit 2, 2 mail ids, crashes | memory agrees with the tables; items never doubled; gold accounted for |
| `map_update` | 3 maps, up to 2 threads, changing number, freeze detection, fair | the books are right; a round ends, and ends at rest; every scheduled map is updated |
| `map_barrier` | 2 maps, 2 threads | violation: sessions are updated while a map is |
| `socket` | 2 sockets, 2 sessions, fair | references are counted; packets find their session; what is closed is let go of, and its session deleted |

Why these bounds are enough.  *Sessions*: a third session is the second
reconnect of an account, the least at which an answer can land on a session
that did not ask and that is itself waiting; four sessions put two in the
login queue behind a limit of one or two with one to leave or to be replaced.
Without packets `sessions_queue` still has every way into and out of the queue,
none of which depends on what a client sends.  *Trade*: a trade has two parties;
a third player could only trade with one of them instead (the theorems cover
any number).  Bags with room for one make both outcomes of
`CanStoreItems` possible: an item for an item fits, an item for gold does not, until
the other's own item is used up.  The gold of the first is at the limit.  States
beyond the bounds of `MCTrade` are checked and not explored further, so with one
save behind an exchange meets a save of either player in both orders; the theorems
have no such bounds.  *Auctions*: three
players are a seller, a bidder and one who outbids him; the prices are the
first bid, a raise one too small (104), the least raise (105), the buyout (110)
and one above it, to be lowered to it; `MaxFees` leaves room for one auction to
end and a second to be explored up to its end, which is still checked
(`EveryAuctionEnds` is about what is explored).  A bid of 115 with its deposit is above the column
of 115, a bid of 100 or 105 below it, so refunds and payments are cut off in one case and whole
in the other; 215 is one bid above the gold of a player, so a refund or a payment of a
second auction reaches the limit.  A second item object is what a sale needs for its
clone.  In `auction_items` the three objects are two stacks and a clone; a sale is
of part of the stack of two, of all of it, of all of the stack of one, or of two units of the stack of
one, with the other stack in the bag or without it.
*Mail*: with two ids a mail can be returned, or paid for, while it still
exists; gold of one each is enough for a price and a postage; two gold with one
player arise from crashes, and then gold is sent too.  The queue grows beyond
two requests only by one handler's own transactions.  The sums stay below
`ColumnSize`, so `%u` and `GetUInt32` truncate nothing here, and nothing wraps
around.  `QuietReturn` restricts the daily return of old mails and `OwnTake` the
items clients name, see section 6.  *Maps*: with three maps
and two threads requests are left in the queue when both threads are killed, and
the pool is restarted with one thread, then with two.  *Sockets*: two sessions are
the second login on a socket whose first session is gone, two sockets the choice
of the network thread between them; the theorems cover any number of both.  Their
liveness is checked for one socket and for one session of the instance: the
specification tells neither two sockets nor two sessions apart.

Symmetry is used where the properties are safety properties and the permuted
values appear nowhere else; runs with liveness use none.  Deadlock is checked in
the runs of the threads (`map_update`, `map_barrier`, `socket`).  In the others it is
not: a server without clients rightly does nothing, and in the bounded
instances sessions and gold run out.

## 5. Fairness

`WF(WorldStep)` and `WF(ProcessRequest)`: the world thread and the database
thread are loops that run as long as the server does.  `SF(UpdateEnds(s))`: the
packet loop of `Update` ends although a client can always send another packet
just in time; in the code it takes what is in the queue faster than a network
thread fills it.  `SF(EndTick)`: the same of the result queue, which the
database thread fills.  No client is required to do anything.  For the auction
house, time passes and `AuctionHouseObject::Update` runs once a minute:
`WF(TimePasses(id))`, `WF(HouseStep(id))`.

For the maps: `WF(WorldStep)` with the clock in it, since a wait with a time limit
returns, and `WF(WorkerStep(t))`, since every thread is scheduled and every
`Map::Update` returns.  A frozen thread that never returns would only be shown to
be outlived; one that does is worse, it counts itself out twice.

For sockets: `open()` runs to its end and the network thread ends what it has
begun (`WF`).  Its manager runs every 10 ms between runs of the reactor:
`SF(AddNewSockets(k) \/ (closing_ /\ svc_Closes(k)))`, as it is enabled only when the
reactor is idle; a socket in order may fail, and need not.  Sessions are updated in turns and every turn visits all of them:
`SF` of the steps of a session, enabled only in its thread's turn, and
`WF(RoundEnds)`.  Clients owe nothing: the reactor's own reference to a closed socket
may stay for ever, and `ClosedSocketsAreLetGo` says so.

## 6. Where the code disagrees

Three runs end in a violation, of something the code, or a comment in it, says:

- `sessions_twice`: `HandlePlayerLoginCallback` gives an answer to the session
  the account has by then, and `HandlePlayerLogin` does not ask whether it has a
  player.  After two quick reconnects the character is in the world twice.
- `auction_late`: `HandleAuctionPlaceBid` accepts a bid on an auction that is
  sold.  The winner has the item and gets the gold back, the new bidder pays.
- `map_barrier`: a thread takes a request from the queue and enters itself as active
  in two steps (`ObjectUpdateTaskBase.h:94`, `:100`).  Between them `queue_wait` sees
  an empty queue and nobody active and ends the round, so the world thread updates
  sessions while that thread updates its map.

Seen while modelling, without a run of its own:

- Walking away "will close both side trade windows" (`Player.cpp:6661`), but only the
  client of the one who walks is told: a trade completes out of reach.
- With `VMSS.MapFreezeDetectTime` 0 the world thread waits without a time limit.  A
  broadcast that comes between its check and its sleep is lost, and the server
  stands still (`RoundsEnd` does not hold with `DetectsFreezes = FALSE`).
- After a kill `m_currentActiveThreadsCount` may go below zero, which for a `size_t` is
  huge: then `queue_wait` never ends.  `RoundsEnd` excludes rounds with a kill.
- A malformed packet handled in place makes the network thread use `m_Session` without
  `m_SessionLock` (`WorldSocket.cpp:741`); no property can hold there.
- The bot takes the raise of `GetAuctionOutBid` for a price, so the current bid of
  an auction can fall to a few coins (`PlaceBidToEntry` is modelled so;
  `BidsOnlyRise` does not hold with `ServerTrades = TRUE`).
- `HandleAuctionSellItem` lets a client sell more units than the stack it names
  has, if another stack has the rest: the clone gets all of them, the stack gives
  what it has (`AuctionHouseHandler.cpp:351-357`, `Player.cpp:11907`).  `UnitsKept`
  names this step (`Oversells`) and excludes every other that makes units.
- A mail of 2^32 copper or more is stored modulo 2^32 (`Mail.cpp:291`), and the gold
  limit is 9999999999: a player who is offline when he is outbid, or paid, loses the
  rest; one who is online loses it if he logs out before he takes the mail.
  `WorthKept` is about players whose bids fit (`Refundable`), and `GoldAccounted`
  says that nothing is lost as long as the amounts fit (`AmountsFit`), and nothing
  made in any case.
- `HandleMailTakeItem` does not ask whether the mail lists the item
  (`MailHandler.cpp:515`).  An item of a mail with a price can be taken out of a
  mail without one; it is in the bag and still listed where it was, and the row of
  the item goes when that mail is deleted.  `NoItemTwice` and `MemoryIsStored` do not
  hold of such requests, so both are properties of `QuietSpec`.
- `HandleSendMail` adds the postage to the sum in 64 bits (`MailHandler.cpp:200`),
  so the gold a sender needs wraps around, and `mails_count` is a `uint8` (`:211`).
- The daily `ReturnOrDeleteOldMails` spares only players `GetPlayer` finds and
  reads tables that queued saves have not reached.  `NoItemTwice` does not hold
  without `QuietReturn`: a mail is returned while its receiver is loading it.
- `HandleSendMail` stores the mail before the sender's gold, and a payment on
  delivery is stored before the buyer's: a crash between doubles gold.
  `HandleMailReturnToSender` deletes before it sends: a crash between loses the
  mail.  A crash between the sale of an auction and the mail to the winner loses
  the item.  The properties name these crashes as exceptions.
- An answer that reaches a session in the login queue takes its character into
  the world past the queue, which is why `ActiveWithinLimit` counts sessions that
  have passed the queue and not players.
- `mangosd.conf.dist.in:93` limits the players on the server; staff are admitted
  above the limit and counted below it.
- A late bid at the buyout puts off the payment of the seller by an hour each
  time; `EveryAuctionEnds` is stated for auctions without a buyout.
- A traded item that is gone when both have accepted is skipped, and the trade
  completes without it.

## 7. Proofs

All proofs hold for every value of the constants that satisfies the named
assumption of the module (`ConstantsAssumption`, `TradeAssumption`,
`AuctionHouseAssumption`, `MailAssumption`, `MapUpdateAssumption`,
`SocketSessionAssumption`): any number of accounts, sessions and packets, any player
limits; any number of players, items, slots and auctions, any prices, fees and
gold limit; any number of maps, threads and sockets.  The assumptions say that
the constants have their types, that no item starts with two owners, that a null
pointer is no object, and that sessions, players, items and mail and auction
ids are finitely many.

Some theorems have a premise of their own, because the code keeps the property
only under it; section 6 says what happens without:

| premise | theorem | why |
| --- | --- | --- |
| `Crashes = FALSE` | `AuctionHouseProofs`, `ItemsApartCorrect`, `UnitsKeptCorrect` | a crash between two transactions of a sale leaves an item twice or not at all |
| `ServerTrades = FALSE` | `BidsOnlyRiseCorrect` | the bot bids less than was bid |
| `BetweenPlayers` | `AuctionHouseProofs`, `GoldAccountedCorrect` | the server makes gold when it buys, and the gold of a deleted character goes with it |
| `AmountsFit` of `AuctionHouse`, `Refundable` | inside `GoldAccounted` and `WorthKept` | the same column holds the refunds and payments of auctions, and `ModifyMoney` stops at the gold limit |
| `AmountsFit` of `MailProofs` | `MemoryIsStoredCorrect`, `MailProofs`, `GoldAccountedCorrect` | `Mail.cpp:291` stores 64 bit sums with `%u`: a sum that does not fit is cut off, and one near 2^64 wraps around |
| `QuietSpec` | `MailProofs`, all but `TypeCorrect` | `HandleMailTakeItem` hands out items of other mails, and the daily return reads tables that are behind |

| module | theorem | argument |
| --- | --- | --- |
| `WorldSessionsProofs` | `InvariantHolds` | `IInv`, the inductive invariant: the types, `Links` and `PlayersCounted`.  `NoDanglingSession` and `QueueMatchesFlags` alone are not inductive: deleting a session leaves no pointer to it only if the hand-over queue holds it nowhere else (`HandedOverOnce`), the login queue holds it once (`QueueLinked`) and its own account maps to it (`SessionsLinked`); a logout keeps `inWorld` a natural number only if every player is counted and belongs to a live session (`PlayersOfLive`) |
| | `TypeCorrect`, `NothingDangles`, `QueueAgrees` | consequences of `IInv`.  Steps in one session go through `InPlaceKeepsInvariant`; the three that delete or add a session (`RemovalKeepsInvariant`, `ReplacementKeepsInvariant`, `NewcomerKeepsInvariant`) rest on `RemoveQueuedSessionTakesTwo`: the queue loses the session and the one admitted, nothing else |
| | `LoadingIsNotInterrupted` | from `IInv`: a newcomer loads nothing, and only three steps end a session's life |
| | `SessionsImplementLoginQueue` | every step maps to a turn of `LoginQueue` or a stutter.  With `IInv` a step that removes a session takes one place from `inside` or one from `waiting`, never both, because `m_inQueue` and the queue agree; what `RemoveQueuedSession` admits is the head of what is left |
| | `LoginsSeeTheLastSave` | `LoginsInv`, on top of `IInv`.  The requests of an account bring what is stored to its last save (`SavesArrive`); from the moment its session starts to load nobody saves the account, because only live sessions have players, an account has one live session and one that loads has no player.  So every save under way has a login behind it (`SavesComeFirst`), and the last answer is what is stored (`AnswerIsFresh`).  All but a few steps are `CalmStep`s: no session starts to load or gets a player |
| | `LimitHolds`, `NobodyWaitsForNothing` | the server subtracts one counter from another; with `IInv` the difference is the cardinality of the set of sessions that have passed the queue (`CountsAreRight`), and each way in or out moves at most one leaver, one admitted session and one newcomer between the sets (`Moves`).  Whoever is admitted fills the place of a leaver (`RemovalAdmits`); a newcomer comes in besides only when the map, after the leaver is gone, is below the limit. |
| `DataLemmas` | | what `RemoveAt` and `Append` do to the members, the injectivity and the order of a queue; `SubsetInduction` and `SegmentInduction`, induction over a finite set and over the places of a sequence, with a set of sets in the place of a predicate; sums over finite sets (`SumEmpty`, `SumAdd`, `SumChangeOne`, `SumChangeTwo`, `SumPart`).  Used by all modules that need one of them |
| `LoginQueueProofs` | `EachIsPresentOnce` | inductive as it stands: a newcomer is taken from those not present |
| | `FirstComeFirstServed` | a turn is split into its three parts; each keeps the order of those that stay, and admits only the first.  It needs `EachIsPresentOnce`: a client twice in the queue would overtake itself |
| `TradeProofs` | `TypeCorrect` | types are inductive; `Pay` and `Receive` stay between zero and the limit |
| | `PartnersCorrect` | `PartnersAgree` is inductive with the types: the actions on a trade write both windows or one that stays open |
| | `AcceptanceCorrect` | from the same invariant: a change of a list goes through `Unaccepted`, which reaches both because the windows are a pair |
| | `ItemsApartAlways` | `ItemsApart` is the strengthening: besides the inventories it speaks of every prefix of the save queue and of the last save of each player against the inventories of the others |
| | `ItemsNeverTwice` | `NoItemTwice` is `ItemsApart` with the prefix of length zero; it is not inductive, since a commit or a crash brings in what waits in the queue |
| | `TransfersCorrect` | from `TypeOK`, `PartnersAgree` and `ItemsApart` |
| | `GoldNeverCreatedCorrect` | the gold on disk is that of whichever prefix of the save queue has been committed when a crash comes.  `GoldTrail` is the strengthening: after every prefix the gold on disk is at most what there was, and each player's gold in memory is at most what the whole queue stores.  Gold that moves between players moves in one transaction, and what one player does alone only lowers his own |
| | `GoldLostCorrect` | the sum over all players changes at the two who trade (`SumChangeTwo`), and `Receive` differs from addition only above the limit |
| `AuctionHouseProofs` | `TypeCorrect` | types are inductive once the cut is shown to be at most the bid it is taken from (`CutBounded`) and a bid is shown to be covered (`ChargedType`) |
| | `HoldingCorrect` | `AuctionsHoldTheirItems` is inductive, with crashes; it is rewritten item by item (`HoldingPointwise`) |
| | `ItemsApartCorrect` | needs that the items in auctions are those in `auctionItems`, and that a new auction's item was nowhere; assumes `Crashes = FALSE` |
| | `UnitsKeptCorrect` | the units are a sum over the objects that are somewhere.  A sale changes the summand of the item named and adds that of the clone (`SellKeepsUnits`): the sum grows only if the clone has more than the item named.  Other steps change no count, and without crashes none brings an object back.  Assumes `Crashes = FALSE` |
| | `BidsOnlyRiseCorrect` | needs that a bid is never above the buyout, since `UpdateBid` lowers prices to it; assumes `ServerTrades = FALSE` |
| | `GoldAccountedCorrect` | the gold of all players, of all mails and of all bids is a sum of three sums, once with the mails as shown and once as stored; each action moves one or two summands of each.  `PlayersOnly`: every auction has a player to pay, and every bid a player to refund.  `LimitsInv`: nobody has more gold than the limit and no mail has less in memory than in its row, so taking and loading make none.  Assumes `BetweenPlayers` |
| | `WorthKeptCorrect` | the open bids of each player are a sum in which a step changes one auction; an auction that ends or is outbid moves its bid into the mail.  It needs the types, `AuctionsHoldTheirItems` (an item that is won is mailed) and `BidsInv`: a bid is never above the buyout |
| `MailProofs` | `TypeCorrect` | types are inductive; every transaction writes sender and receiver of a mail together (`Paired`) |
| | `NoItemTwiceCorrect` | `NoItemTwice` says nothing of the requests under way and is not inductive.  `MailInv` is `TypeOK` with: `Leads`, the requests make `settled` of `db`, and no item is in two places after any of them; `Loads`, what a query will find of its player is not changed by the requests behind it; `Memory`, what a player remembers is what `settled` has.  So memory is as free of doubled items as one set of tables |
| | `MemoryIsStoredCorrect` | from `MailInv` and `SumsFit`: no sum in memory is above what its column holds.  Assumes `AmountsFit` |
| | `GoldAccountedCorrect` | the gold of tables is a sum over players and one over mails (`Ledger`).  `SavedBy` says what a save stores of each; `ThrownIs` that the mails it deletes are those the property takes out.  Assumes `AmountsFit` |
| `MapUpdateProofs` | `InvariantHolds`, `TypeCorrect`, `BooksStayRight` | the books (`EntriesAreRight`, `CountsAreRight`) are not inductive: `activate()` clears them after it has started the threads.  They are right again because the queue is empty between rounds (`QueueIsServed`), so that no new thread is at a map yet; that in turn holds because a round ends only when the queue has been seen empty.  Types need `Waited` and `PoolIsManned`: there is a thread to be killed |
| | `RoundsLeaveNothing` | from `CountsAreRight`: nobody active means nobody entered |
| `SocketSessionProofs` | `InvariantHolds`, `TypeCorrect`, `ReferencesCounted` | the count is inductive with the types once it is known that whoever lets go held: the reactor watches the socket the network thread reads from, the manager manages the one it drops (`NetIsServing`), and a session keeps the socket it closes (`TurnsAreKept`) |
| | `PacketsFound` | a session that is let go of has a closed socket.  `ClosersAreComing`: as long as a closed socket still points at a session, either the network thread itself is closing it, and queues nothing, or a thread that updates sessions is between its two critical sections and keeps that session.  `ClosersMeetTheirSession`: the second critical section never clears a session that was put there after the first |

Sums over sets are folds.  The library's theorems about folds and its induction
take an operator as a parameter and cannot be used here, so `DataLemmas` derives what is
needed from induction over the natural numbers with a set of numbers in the
place of a predicate.

Every invariant, action property and refinement of the passing runs is stated by a
theorem.  Only model-checked: liveness (`LostSessionsAreRemoved`, `LoadingEnds`, `EveryAuctionEnds`, `RoundsEnd`, `ScheduledMapsAreUpdated`,
`ClosedSocketsAreLetGo`, `SessionsOfClosedSocketsEnd`): the prover has no rule for
fairness and `ENABLED`.  It cannot reason about `RECURSIVE` operators either; the
modules that are proved about have none.

## 8. Not modelled

Groups and loot rolls, the guild bank, LFG, the battleground queue, threat
references, instance resets and pools have state and rules of their own, close to
no concurrency, and stand at the end of the plan for that reason.  `PROJECT.json` lists every component with its status.  Not modelled for lack of
state worth it: data loading, geometry, chat and console, the add-ons.  Out of
reach: spells and auras, whose behaviour is in data files.  Not modelled
inside the modelled parts: connection errors of the database (a statement that
fails is dropped by the delay thread), the contents of packets and their
encryption, the creation and unloading of maps, world shutdown, and all checks that depend only on static data of items and factions.
