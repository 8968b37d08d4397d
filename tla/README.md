# A TLA+ model of the back end: inventory, rentals, appointments, messages

The repository is the back end of a CRM: a NestJS process (TypeScript, `src/src`) in front of a
PostgreSQL database. This directory holds TLA+ models of the parts of it where several calls,
event handlers and jobs work on the same rows, the TLC configurations that check them, and
proofs, checked by TLAPS, of what matters most about them.

- [1 How the program runs](#1-how-the-program-runs)
- [2 Inventory of the components](#2-inventory-of-the-components)
- [3 The modules](#3-the-modules)
- [4 The runs](#4-the-runs)
- [5 What is proved](#5-what-is-proved)
- [6 Findings](#6-findings)
- [7 What is not modelled](#7-what-is-not-modelled)
- [8 Plan](#8-plan)

## 1 How the program runs

One Node process serves all requests. Code between two `await`s runs alone; at every `await`
(a repository call, a call of another service) any other request, event handler or job may run.
The services open no database transactions and take no locks, so **a repository call is the unit
of atomicity** in every module here: each is one action. Three things follow from how the
services use TypeORM, and the models build them in:

- `repository.save(entity)` writes all columns of the object in memory, not only those that were
  changed, and inserts the row if it is not there (any more). A save from an old copy therefore
  overwrites newer columns, and brings a deleted row back.
- `Promise.all` starts several calls in parallel; their awaits interleave like those of different
  requests.
- `EventEmitter2` listeners are asynchronous (`{ async: true }`) and live in memory: they run
  after the emitting call has gone on, in any order among themselves, and a restart loses them.

A call can end half-way: a restart or a database error leaves what it has written. Foreign keys
with `ON DELETE CASCADE` remove rows without a statement in the code; the models build them into
the deleting action and mark them external.

Two kinds of work run beside the requests. Cron jobs (`@Cron`) start every minute or hour whether or
not the run before has ended, and most of them do not await what they start. Webhooks of messengers
and calendars come at any time, in any order, and any number of times.

## 2 Inventory of the components

State is what a component keeps in the database; "hard" says what makes it hard to test. The rows
in bold are modelled.

| component | state | operations | interacts with | hard |
|---|---|---|---|---|
| **Shipments, product stock** (`modules/inventory/shipment`, `product-stock`) | shipments, their items, `product_stock` by product and warehouse | create for an order, change status, delete, move to another warehouse; reduce, increase, set | orders call them; they emit `ShipmentStatusChanged` | read-modify-write of stock, in parallel even inside one request; copies of shipments saved over newer rows; calls lost between stock and status |
| **Warehouses** (`modules/inventory/warehouse`) | warehouses | delete, with moving of shipments and stock to another one | shipments, stock | three removals without a transaction; a stock merge that cannot be repeated; movements beside it |
| **Orders, items, reservations** (`modules/inventory/order`, `reservation`) | orders, order items, reservations | create, update, delete, cancel (hourly job), hand a status to the shipments, handle `ShipmentStatusChanged` | shipments; value field of a CRM entity | handlers and job save whole rows from copies; status saved before it is processed; events lost on restart |
| **Rental schedule** (`modules/inventory/rental-schedule`) | `rental_event` rows | process the status of an order, release a product for a period, read a schedule | rental orders call it; their items cascade | splitting and cutting rows by four queries; copies of rows saved one by one; boundaries of intervals |
| **Appointments, performers** (`modules/scheduler/schedule-appointment`, `schedule-performer`) | appointments, performers | create, update, delete, synchronise from a calendar, replace or remove a performer | calendar integration, schedules, users | check-then-save of intersections and of a daily limit; repeated calendar events; cascade after a move |
| **Mailboxes, mail synchronisation** (`Mailing`, `modules/mail`) | mailboxes with settings, folders, sync info; message rows, their links to folders, unread counters; a lock in memory | create, update, delete a mailbox; synchronise (three cron jobs); send, move and mark a message | an IMAP server, the CRM | only synchronisations take the lock; the sync info moves before the messages are stored; uids that belong to another folder; searches that time out |
| **Scheduled chat messages, scheduled mailings** (`chat-message-scheduled`, `mail-message-scheduled`) | a queue per chat provider and per mailbox | schedule (by an automation), delete, send the oldest of each queue (every minute) | providers, mailboxes | sends are not awaited and overlap the next minute's; a crash between delivery and mark; a message that can never go out |
| **Chats with contacts of a messenger** (`modules/multichat`) | chats, their members, messages | webhook of a message, create, send, update participants, delete; take a new address, merge two chats | Wazzup provider, CRM entities | find-or-create by two calls; addresses that change while a message is under way; a merge that copies row by row |
| Personal and group chats, message statuses (`multichat`) | chats, a status per message and user | find or create, mark | users | a status that goes back |
| Rental orders, intervals (`inventory/rental-order`, `rental-interval`) | rental orders, items, periods | create, update, delete, change status | rental schedule | number is maximum plus one; items processed in parallel |
| Products, categories, prices, sections | single rows | create, read, update, delete | - | - |
| Schedules, reports (`scheduler/schedule`) | settings | create, update, delete | appointments | a change of type deletes appointments asynchronously |
| Other mail providers (`Mailing`) | as for mailboxes | synchronise, send | Gmail | another adapter of the same interface |
| CRM entities, boards, stages, tasks (`CRM`) | rows with a sort weight | create, move, close, copy | automation, notifications | weights of neighbours read before the save |
| Automation, notifications, calendar, Stripe, AppSumo, Zapier, Tilda, Salesforce, telephony, storage, documents | mostly external | webhooks and calls | external services | retries and duplicates of webhooks |
| Accounts, users, permissions, subscriptions (`iam`), set-up | single rows | create, read, update, delete | all | - |

The properties that make the components correct, in words:

- *stock and warehouses*: what is in stock is what was there plus what was moved; goods are neither
  lost nor invented, also when a warehouse is merged into another;
- *shipments*: shipping time and status agree; an order has one shipment per warehouse;
- *orders*: an order agrees with its shipments and its total with its items once everything about
  it has come to rest; closing an order leaves nothing reserved; sending it ships what was reserved;
- *rental schedule*: a product is blocked for exactly what the orders asked, an item never twice at
  a time; releasing and returning free exactly the period; the schedule that is read is exact;
- *appointments*: no double booking, no second appointment of an entity on a limited day, one
  appointment per calendar event, no lost updates, no appointment lost with a replaced performer;
- *mail*: every message on the server gets stored, once, in one folder, and none is skipped; a
  user's call touches the message he means; counters are those of the rows; a deleted mailbox stays
  deleted; a delete that waits for the lock goes on;
- *scheduled messages*: each goes out once, in the order of its queue, within the daily limit, and
  does not wait for ever behind another queue;
- *chats*: an address has one chat, an incoming message is stored, and merging chats neither loses
  nor doubles a message.

`PROJECT.json` lists every component with its status and, under `hazards`, each hazard at the line
where it bites with the properties that watch it.

## 3 The modules

| module | models | uses |
|---|---|---|
| `Shipments` | `ShipmentService`, `ProductStockService` | |
| `Warehouses` | `WarehouseService.delete`, `ProductStockService.delete` | extends `Shipments` (composition) |
| `Orders` | `OrderService`, `OrderItemService`, `ReservationService`, `OrderHandler` | extends `Shipments` (composition) |
| `RentalSchedule` | `RentalScheduleService` | |
| `Appointments` | `ScheduleAppointmentService`, its handler, `SchedulePerformerService.delete` | |
| `MailSync` | `MailboxService`, `MailboxLockService`, `MailMessageService`, `MailboxFolderService`, the imapflow provider | |
| `Outbox` | abstract: what a set of queues promises | |
| `ScheduledMessages` | `ChatMessageScheduledService`, `MailMessageScheduledService` | refines `Outbox` |
| `Chats` | `ChatService`, `ChatUserService`, `ChatMessageService`, `ChatProviderService`, `WazzupProviderService` | |
| `MCShipments`, `MCWarehouses`, `MCOrders`, `MCRentalSchedule`, `MCAppointments`, `MCMailSync`, `MCScheduledMessages`, `MCChats` | instances for TLC | the module each is named after |
| `ShipmentsProofs`, `WarehousesProofs`, `OrdersProofs`, `RentalScheduleProofs`, `AppointmentsProofs`, `MailProofs`, `ScheduledProofs`, `ChatsProofs` | theorems | the module each is about, `TLAPS`; those of `Warehouses` and `Orders` also the theorems of `ShipmentsProofs` |

In every module a *request* is one call of a public method. `pc[r]` (or `call[r].stage`,
`call[c].pc`, `stage[j]`) is the repository call it waits for; the other per-request variables are
what the method holds in local variables. Variables whose comment says *ghost* record history for
the properties; no action of the code reads them. Operators called `X_Something` next to a
definition `X` are deliberately wrong forms of `X`; they show, one per property, that the property
can fail.

### Shipments

- `stock`, `hasStock`: the `product_stock` rows. `row`, `items`, `live`: shipments with their items.
- `ChangeStatus`, `ProcessOrder`, `Delete`, `Relocate`, `CreateForOrder`, `SetStock`, `RemoveStock`
  begin a call. `job[r][s]` is one run of `processShipment` (or `increaseStocks`), and
  `at[r][s][l]` the stage of one item in it: `todo` (about to read stock), `read`, and, as a ghost
  refinement of `read`, `overtaken`. `ReadStock`/`SaveStock` are the two calls of `reduce` and
  `increase`; an item whose stock row does not exist is left alone.
- `SaveShipment` saves the copy read before the stock calls and emits the event.
- `CreateShipment`/`CreateItem` are `createForOrderItem`, one reservation at a time.
- `Abort` ends a call between any two of its steps.
- Ghosts: `ledger` adds up the movements of a stock row; `raced` are the rows an overtaken read has
  been written to; `collided` the shipments two requests worked on at once; `contended` the shipments
  that were created beside another `createForOrder` of their order, moved to another warehouse, or
  brought back by a save over their deleted row.
- Abstraction: an item is a slot (`Line`), its quantity a small number; the statuses of an account
  are told apart by their code, one status `custom` standing for those without a code; prices,
  names, documents and the search queries are left out.

### Warehouses

- `merge[r]` is a running `WarehouseService.delete(from, to)`. `DeleteWarehouse` moves the shipments
  (one update statement); `ListStocks`, then for each stock row `FindOther` and `SaveOther` (add to
  the row of the other warehouse) or `MoveRow` (no such row: the row itself moves); `MergeRefused`
  ends the deletion when such a write breaks a key, because the new warehouse has gone or has got a
  row of the product meanwhile; `DropStocks` deletes what is left; `DeleteRow` deletes the
  warehouse, and with it, by its foreign keys, the shipments and stock rows that have come to it
  meanwhile, unless an order or a reservation refers to it (`RowIsReferred`). `CutShort` is a crash
  between any two. The new warehouse may be the deleted one: neither controller nor service asks.
- The actions of `Shipments` run beside it as `ReadBeside`, `SaveBeside` and so on, which tell the
  running deletions what they have missed; a write to a row of a warehouse that is gone violates its
  foreign key (`Refused`, `StockRefused`, `ShipmentRefused`, `CreateRefused`).
- Ghosts: `due[<<p, w>>]` says how much of a product a warehouse should have, in stock or shipped.
  Two things change it. A call that asks for goods which are not there, or gives up goods which are,
  does so when it begins (`Gain`): a return of a shipment that has not left adds its goods, one that
  leaves a second time, or is cancelled or deleted after it left and not taken back, costs them. And
  a merge passes a warehouse's goods on (`Inherited`), all but those that have left with shipments
  made meanwhile; one into itself keeps no others. `repeated` says that a merge has been cut short,
  refused or overlapped by another; `unmoved` are shipments with an item that found no stock row;
  `cascaded` are stock rows that went with their warehouse, or with a merge into itself; `oversold`
  those that have held less than nothing.
- Abstraction: one call of the shipments runs at a time, beside any number of deletions; the
  deletion without a new warehouse, and the reservations and rental orders that move, are left out.

### Orders

- Extends `Shipments`: a request of `Shipments` becomes the tail of an order call. The call saves
  the order (`SaveOrder`), reads its items (`ReadItems`), saves each one of the body (`SaveLine`),
  deletes its reservations (`DropReservations`) and saves those asked for (`SaveReservation`),
  removes the other items (`RemoveLines`), reads the items again and the reservations of one after
  the other (`RereadItems`, `FetchReservations`), releases reservations for a closing status
  (`Release`), then hands its status to the shipments (`Ship`) and waits (`EndCall`). Each of these
  is one awaited call.
- `handler[h]` is a running `ShipmentStatusChanged` listener: `TakeEvent` reads the order,
  `SaveHandled` writes the copy back, `ReleaseHandled` releases the reservations. `LoseHandlers` is a
  restart.
- `Cancel` is the hourly job `checkCancelOrders`, for an order it has read.
- `overlapped` (ghost) holds the orders on which two calls or handlers with different intentions
  were active at the same time; properties about the outcome of an order are stated for the others,
  and *which* overlaps matter is part of what the runs establish (`Conflict`, `Busy`).
- Abstraction: the reservations of an item at a warehouse are added up; the order number, the
  currency, the client and the CRM entity's value field are left out.

### RentalSchedule

- `events` are the `rental_event` rows: item, start, end, status. A row blocks the unit slots from
  its start to its end. `held`, `rights`, `outer` are the copies a call works through.
- `ProcessOrder` is the reaction to a new status of an order: rows of the items are released and
  written anew (`ReleaseProducts`, `BlockProducts` per item), or, for a return, rows of the future
  are deleted and the current ones cut (`ReleaseFuture`, `ReadCrossing`, `Trim`).
- `ReleaseProductByDates` deletes inner rows, splits outer ones (`SaveHead`, `SaveTail`,
  `DropOuter`), and clips those that reach in from the left or the right. `BuildSchedule` reads with
  the same four queries.
- `RemoveItem` is the deletion of an order item by anybody, with its cascade.
- `Saveable`: an insert or update whose item is gone violates the foreign key; the call fails.
- Time does not go back: a return happens at `now` or later.

### Appointments

- `row`, `live`: appointments; `performers`: the performers that exist. A call holds the columns
  it is going to save in `copy` and the id in `own` (`NewRow` for a new one).
- `Create` and `Load` compare the dates (`AfterDates`), `CheckIntersect` is `hasIntersect`,
  `CheckLimit` is `checkEntityDayLimit`, `Save` the save. `CheckLimit` is nondeterministic where
  the code takes *any one* of the rows a query finds (`getOne` without an order): `Free` and `Taken`
  may both hold.
- `UpsertExt`, `FindExt`, `FindId` are `handleUpsertExt`; `FindDoomed`, `Drop` are `delete`;
  `ChangePerformer`, `Retire` are `SchedulePerformerService.delete`, whose cascade removes the
  appointments that still have the performer.
- Ghosts: `overtaken[r]` names the reads of call r ("intersect", "limit", "copy", "move") after
  which another call has written; `unchecked`, `raced`, `stale` are the rows whose last save (any
  save, for the last two) relied on such a read or on none; `doubled` are the calendar events handled
  twice at the same time, or given by a user's body to a second row (`Names`, `Meets`).
- Abstraction: an instant is a number, `DayOf` any monotone map from instants to days; of the
  statuses only `canceled` is told apart; title, comment, owner, order and rights are left out.

### MailSync

- `server`, `uidNext` are the copies of messages in the folders of the IMAP server (external).
  `state`, `settings`, `cursor` (the sync info), `rows`, `links`, `unread` are the mailbox and what
  is stored of it; `lock` is `MailboxLockService`.
- `Synchronize` is a cron job that finds the mailbox and takes the lock. The call connects
  (`Connect`), searches each folder for the uids after its sync info (`ProcessFolder`,
  `SearchTimesOut`), saves the new sync info (`UpdateSyncInfo`), then stores the folders and what it
  has found, one message at a time (`ProcessExternal`, `FindMessage`, `WriteMessage`, `LinkMessage`,
  `StoreFails`), counts (`SumCounters`, `ActualizeCounters`), and at the end writes the state of the
  mailbox and releases the lock (`UpdateState`, which can fail: the lock is released, the state stays
  what it was). A connection that fails is `SyncFails`, and so is a first write of the state that is
  caught.
- `Send` files a copy in the sent folder and stores it with the actions of the synchronisation, but
  without the lock. `AskThread` begins a move (to and from trash or spam) or a mark: the server is
  asked for the uid of the row *in the folders the row is linked to* (`Aimed`), then links and flags
  are written (`MoveMessages`, `ChangeFlags`, `DeleteLinks`, `InsertLinks`, `MarkSeen`).
- `Create`, `SaveSettings`, `SoftDelete`, `AskDelete`, `Delete` are the mailbox's own life;
  `AskDelete` waits for the lock. An update reads the row (`ReadForUpdate`), saves it (`SaveUpdate`),
  then users and settings, and only then asks for a synchronisation (`Update`); `UpdateFails` is an
  error before that. `Restart` loses all calls and the lock.
- Ghosts: `skipped` are messages a synchronisation gave up (a search that timed out, a failed batch,
  a restart); `outgoing` those sent from here; `overlapped` says that two calls that store have run
  at the same time; `stranded` that the mailbox was left in the state init with no synchronisation to
  come; `revived`, `restarted`.
- Abstraction: one mailbox; a thread is one message; a message's body, addresses, files and the CRM
  entities made from it are left out; the tree of folders does not change; `updateMessage`'s row
  update and its deletion of links are one step (nothing between them is read by anybody).

### ScheduledMessages and Outbox

- `rows` are the scheduled messages of both tables, in the order of their ids; each has its queue
  and a content that tells how its send ends (`entity`, `phone`, `mail`, or `refused`: its send
  throws every time, as for an entity whose phone field is empty or a mailbox that is no more; a
  number or an address that the provider refuses does not throw, and is marked as sent). `plan` is
  what an automation has still to insert, in order (`Automate`, `Create`, `CreateFails`).
- `Cron` starts one send for the oldest waiting row of each queue (`Heads`), awaiting none. A send
  asks `CanSend`, loads its message again (`FindOne`), delivers (`Deliver`, `DeliversNothing`,
  `DeliverFails`) and writes `sent_at` (`Mark`, `MarkFails`). `Restart` loses all sends.
- `ago` counts minutes since a message was sent, up to `Interval`: all `canSend` could tell apart.
- `Outbox` says what a set of queues promises, with no jobs, stages, or failures: a queue works on its
  oldest waiting message and on no other; a message may be handed over again, and may be withdrawn
  while somebody works on it. `OutboxSpec` is the refinement: `home` is the queue of each row,
  `claimed` the messages sends hold, `handed` those delivered.
- Abstraction: the insert is one step, with ids in the order of the commits; one automation runs at
  a time; texts, files and account settings are left out.

### Chats

- `chats`, `addr`, `owner`, `members`, `messages` are the rows. An address is `chat.external_id`: one
  made of a phone number, or the contact's own. `Resolved` is the address the provider answers with.
- `Receive` is the webhook: it looks for the chat (`Lookup`), its contact (`FindMember`,
  `InsertContact`), or creates it (`Again`, `InsertChat`, `Fill`, `InsertContact` and then `Link`, the
  entities the provider links to a new chat, which may fail), joins one just created (`Full`, `Users`,
  `Join`), and
  stores the message (`Write`). `Open` begins the calls of users: `create`, `send` and `update`.
- A sent message is written, then posted once per contact of the chat (`Notify`, `ReadContacts`,
  `NextPost`, `Post`). The answer may name a new address: the chat takes it (`Exists`, `Readdress`,
  `Resave`), or is merged into the one that has it (`ReadFrom` ... `AddOne`, `ReadMessages`,
  `ReadAuthor` once per message, `CopyOne`, `Drop`). `Load`, `LoadUsers`, `Invite`, `Expel`,
  `SaveChat` are an update of participants; `DeleteChat`, with what cascades. `Abort` loses a call
  between any two steps.
- Ghosts: `stored` are the messages that have been written, each named by the call it came with
  (`origin`, kept by the copies a merge makes); `disturbed` the calls whose chat another call has
  created, readdressed or removed meanwhile; `raced` the addresses written by such a call; `gone`
  messages that left with what a user removed; `repeated` those of a merge that was cut short or met
  another.
- Abstraction: a contact's two inserts (`chat_user`, `chat_user_external`) are one step; the
  provider's responsibles and supervisors are one set; messages have no content, status, file,
  reaction or pin; personal and group chats, what becomes of the linked CRM entity and other
  messengers are left out. `createLinkedEntities` does not wait for the update of the chat it
  starts: that is one of the updates without participants that `Begin` may open at any time.

## 4 The runs

Every property holds in its passing runs, and is violated when the definition named with it in
`PROJECT.json` is replaced by its wrong form. `CHECK_DEADLOCK FALSE` stands in every configuration:
calls, messages and failures are bounded in number, and an instance stops when the last has ended.

| run | instance | properties |
|---|---|---|
| `shipments_race` | 1 shipment with two items of one product, 2 warehouses, 2 requests at once, one may be lost half-way, an absolute update of stock, a move between warehouses | `TypeOK`, `StockMatchesLedger`, `OneShipmentPerWarehouse` |
| `warehouses` | 2 warehouses, of which the first may be merged into the second and the second into itself, 2 products, one of them without a stock row in the second, shipments with one item, every move between statuses with and without a return, 3 requests: deletions of a warehouse beside calls of shipments, one merge may be lost | `Conserved` |
| `orders_serial` | 3 order calls one after the other, each beside the handlers of those before, 2 warehouses | `AgreeWhenSettled`, `NoCallFails`, `ClosingReleases`, `SentShipsReservations` |
| `orders_overlap` | 2 order calls at once, a handler, a restart or failure | `TotalWhenSettled`, `Quiesces` |
| `rental` | 2 items of 2 products, instants 0..3, 2 calls at once, three initial schedules, removals of items | `TypeOK`, `BookedOnce`, `NothingInvented`, `ReleaseExact`, `BlockExact`, `ReturnFrees`, `ScheduleExact` |
| `appointments_race` | 2 performers replaced by each other, two days of three instants, 2 appointments, users' bodies with and without an event, 4 calls, two at a time | `TypeOK`, `NoDoubleBooking`, `SingleDayLimit`, `ExtOnce`, `NoLostUpdate`, `ReplaceKeepsAll` |
| `mail_calls` | 2 messages, inbox and sent folder, 2 handlers, one send, move, mark and update of the mailbox, batches of one, no failures | `StoredOnce`, `InOneFolder`, `CountersAgree`, `TouchesItsOwn` |
| `mail_end` | the same mailbox, one update, soft deletion and deletion of it, one failure or restart | `NothingSkipped`, `DeletedForGood`, `MessagesArrive`, `DeleteEnds`, `InitEnds` |
| `scheduled` | a queue of chat messages (one refused, one to a phone number) and one of mails, 2 sends at once, 3 messages, one failure or restart | `ScheduledTypeOK`, `DeliveredOnce`, `InOrder`, `OutboxSpec`, `Drains` |
| `chats` | 2 users, a contact the messenger and a user describe differently, a phone address and an own one, 3 calls, two at a time, one may be lost | `OneChatPerAddress`, `MergedWhole`, `IncomingStored` |
| `appointments_day`, `scheduled_limit` | the findings of section 6 | one each, violated |

What they show, and why the bounds are enough:

- **Stock.** A stock row differs from the sum of its movements only if a save overtook another
  write between its own read and itself (`raced`). Two items of one product in *one* shipment are
  enough for that: a single request can lose its own movement. Two requests with two items make
  every order of two read-modify-writes, an absolute update and an abort; a third request only
  repeats those pairs, and `LedgerCorrect` is proved for any number. The same two requests are two
  overlapping `createForOrder` calls, or one beside a status change whose old copy is saved over the
  deleted row, which is what `OneShipmentPerWarehouse` is about; six ids are enough for two such calls
  at two warehouses each.
- **Conservation** is stated for every move that can be asked for. The code returns stock for
  whatever status a shipment had; what that adds or costs is written into `due` when the call
  begins, and `Conserved` says that the calls then change the goods by exactly this. Three requests
  create or change, ship or take back, and merge, in every order; one product has a stock row on
  both sides and one on one side only, which are the two branches of the merge. One call of the
  shipments runs at a time (two on one shipment collide, and a race of two on one stock row is the
  question of `shipments_race`), beside any number of deletions. A merge that was cut short and
  repeated may add goods twice, but never loses any, with the exceptions of section 6. Merging the
  second warehouse into the first as well makes too many states; the theorem has no such bound.
- **Orders.** Three serial calls suffice to create, change and close an order with every handler of
  the earlier calls still to run. Two overlapping calls with a handler make the pairs.
  `AgreeWhenSettled` and `TotalWhenSettled` say nothing of overlapped orders: there the code
  really loses updates, as the ghost's definition documents.
- **Rental.** Four instants give rows and periods that are before, after, inside, around, touching
  and crossing each other. Calls that nothing disturbs are exact, and an item is then booked once;
  of overlapping calls the code guarantees only that nothing is blocked that was not asked for.
- **Appointments.** Two appointments are what every property relates; two calls at a time overtake
  each other in every way, four calls make rows that have a history. Three instants a day make
  appointments in one day that do not enclose each other, and ones that reach into the next.
- **Mail.** Two messages let a uid belong to one message in the inbox and to another in the sent
  folder, which is what a wrong touch and a wrong link need; two handlers make every pair of a
  synchronisation with a user's call. Batches of one make the second message depend on what became of
  the first. The failure of `mail_end` happens at every step: in the connection, a search, the
  store, an update, the write of the state, or as a restart that loses the lock.
- **Scheduled messages.** Two queues show that one does not wait for the other; two messages in one
  queue, of which the first never goes out, show what waits. With two sends the one of the next
  minute overtakes; a third would repeat the second.
- **Chats.** Two addresses of one contact are what readdressing and merging relate; three calls are a
  message under way, a second call that overtakes it and one that finds the result. The instance
  has 3 chats, so that a merge can meet a chat that was created meanwhile.

**Symmetry** is used over requests, handlers, sends or messages, which no definition tells apart,
and only in runs without liveness properties.

**Bounds**: `MaxActive` (calls at a time), `MaxAborts`, `MaxAccidents`, `MaxAsks` (calls of users of
each kind), `MaxShipment`, `MaxId`, `MaxUid`, `MaxChat`, `MaxMessages` (ids that are given),
`MaxQty`, `MaxTime`, and the sets of bodies, moves, statuses and windows. All are constants; guards
use them only to keep an instance finite, and the proofs hold for all values.

**Fairness** is stated in `Orders`, `MailSync` and `ScheduledMessages`: weak fairness of the steps
of a call that has begun (an awaited database or network call returns, with a result or an error),
of handlers (the emitter runs every listener), and of the cron jobs (the scheduler keeps calling
them). Nothing is assumed of users, of the mail server, or of failures. `Quiesces` says that orders
come to rest over and over again; `MessagesArrive` that every message on the server is stored as
long as the mailbox is in use, unless it was given up; `DeleteEnds` and `InitEnds` that a mailbox
that waits to be deleted, or to be synchronised for the first time, does not wait for ever (the
second unless an error came between the update's save and its synchronisation, or the state could
not be written: section 6); `Drains` that a message waits only behind one of its own queue that can
never go out. The calls of the other modules have no loop over data that others change, so they
state no liveness.

## 5 What is proved

For all values of the constants, from the assumptions named in the modules and nothing else:

| theorem | says |
|---|---|
| `ShipmentsProofs!TypeCorrect` | `Spec => []TypeOK` |
| `ShipmentsProofs!LedgerCorrect` | `Spec => []StockMatchesLedger` |
| `ShipmentsProofs!ShippedAtCorrect` | the shipping time follows the status in every row |
| `ShipmentsProofs!OneShipmentCorrect` | `Spec => []OneShipmentPerWarehouse` |
| `WarehousesProofs!ConservedCorrect` | `WarehousesSpec => []Conserved` |
| `WarehousesProofs!OneShipmentBesideCorrect` | `WarehousesSpec => []OneShipmentPerWarehouse` |
| `WarehousesProofs!WarehousesTypeCorrect` | `WarehousesSpec => []Typed`, the types of `Shipments` and of the running deletions |
| `OrdersProofs!NoCallFailsCorrect` | `OrdersSpec => []NoCallFails` |
| `OrdersProofs!ClosingReleasesCorrect` | `OrdersSpec => ClosingReleases` |
| `OrdersProofs!SentShipsReservationsCorrect` | `OrdersSpec => SentShipsReservations` |
| `OrdersProofs!TotalWhenSettledCorrect` | `OrdersSpec => []TotalWhenSettled` |
| `OrdersProofs!AgreeWhenSettledCorrect` | `OrdersSpec => []AgreeWhenSettled` |
| `RentalScheduleProofs!QueriesPartition` | the four queries of the schedule partition the rows that touch a period |
| `RentalScheduleProofs!RentalTypeCorrect` | `Spec => []TypeOK`, with the foreign key of every row |
| `RentalScheduleProofs!NothingInventedCorrect` | `Spec => []NothingInvented` |
| `RentalScheduleProofs!ReleaseExactCorrect` | `Spec => ReleaseExact` |
| `RentalScheduleProofs!BlockExactCorrect` | `Spec => BlockExact` |
| `RentalScheduleProofs!ReturnFreesCorrect` | `Spec => ReturnFrees` |
| `RentalScheduleProofs!ScheduleExactCorrect` | `Spec => ScheduleExact` |
| `RentalScheduleProofs!BookedOnceCorrect` | `PeriodsApart => (Spec => []BookedOnce)` |
| `AppointmentsProofs!AppTypeCorrect` | `Spec => []TypeOK`, with dates and performers of every row |
| `AppointmentsProofs!NoDoubleBookingCorrect` | `Spec => []NoDoubleBooking` |
| `AppointmentsProofs!SingleDayLimitCorrect` | `Spec => []SingleDayLimit` |
| `AppointmentsProofs!ExtOnceCorrect` | `Spec => []ExtOnce` |
| `AppointmentsProofs!ReplaceKeepsAllCorrect` | `Spec => ReplaceKeepsAll` |
| `AppointmentsProofs!NoLostUpdateCorrect` | `Spec => NoLostUpdate` |
| `MailProofs!StoredOnceCorrect` | `Spec => []StoredOnce` |
| `MailProofs!InOneFolderCorrect` | `Spec => []InOneFolder` |
| `MailProofs!NothingSkippedCorrect` | `Spec => []NothingSkipped` |
| `MailProofs!TouchesItsOwnCorrect` | `Spec => TouchesItsOwn` |
| `MailProofs!DeletedForGoodCorrect` | `Spec => DeletedForGood` |
| `MailProofs!CountersAgreeCorrect` | `Spec => []CountersAgree` |
| `ScheduledProofs!ScheduledTypeCorrect` | `Spec => []ScheduledTypeOK` |
| `ScheduledProofs!DeliveredOnceCorrect` | `Spec => []DeliveredOnce` |
| `ScheduledProofs!InOrderCorrect` | `Spec => []InOrder` |
| `ScheduledProofs!ImplementsOutbox` | `Spec => OutboxSpec`, the refinement |
| `ChatsProofs!OneChatPerAddressCorrect` | `Spec => []OneChatPerAddress` |
| `ChatsProofs!IncomingStoredCorrect` | `Spec => []IncomingStored` |
| `ChatsProofs!MergedWholeCorrect` | `Spec => []MergedWhole` |

*Shipments.* `StockMatchesLedger` is not inductive: it says nothing of the quantity an item has read
and not yet written. `LedgerInv` adds that an item moves goods only in a job that moves goods
(`MovingItems`), and that what an item has read and nothing has overtaken is still what the row
holds (`FreshReads`). A save then writes the row's value plus the movement; every other writer turns
`read` into `overtaken`. `OneInv` adds to `OneShipmentPerWarehouse` that ids are given once, that a
copy held by a call has the order and the warehouse of its row, and that what a call has created
beside no other `createForOrder` of the order is the only such shipment at its warehouse.

*Warehouses.* `Conserved` speaks only of states at rest, so its invariant, `WarehousesInv`, has to say
where the goods are at every step of every call. It is built from four parts.

- *Sums.* They are those of `SumFunction`. Its recursion is unfolded with an induction over the
  subsets of a finite set that is stated for a set of subsets instead of an operator
  (`SubsetInduction`), which gives what the rest uses: the sum of two functions is the sum of
  the sums (`SumPlus`), sums grow with their terms (`SumMonotone`), and changing one point changes
  the sum by the difference (`SumPoint`, `PointChange`).
- *Shipments.* As long as nothing collides, a job is about a live row, as it was read, and alone on it
  (`Jobs`). An item counts as `Out` from its write to the stock row, not from that of the shipment's,
  so that one step, `GoodsMove`, moves goods between the shelf and the road, and every other step of a
  call leaves both sums alone (`Steady`), or changes what is out by just what it writes into `due`
  (`Accounted`): a call that takes back what has not left counts it as out from its beginning.
- *Deletions.* What a deletion has read is what the rows hold unless a write told it otherwise
  (`Reading`); there is one deletion at a time unless `repeated` (`OneMerge`); it leaves no row behind
  (`Emptied`); and nothing it holds is negative unless `oversold` (`Positive`).
- *The balance.* `Excess` of a product at a warehouse is what is in stock and out, less what is due;
  the steps of the shipments leave it as it is (`Level`). `Twice` is what a deletion has added at the
  new warehouse and not yet dropped at the old one. `AllHome`: the excess of a warehouse that no
  deletion touches is nothing, and the excesses of the two of a running deletion add up to `Twice`.
  `NoneLost` says of the sum over all warehouses that it is at least the sum of all `Twice`, which
  survives a deletion that is cut short, because `Twice` is not negative. A merge into itself
  (`Alike`) only adds, until it drops everything. `SumSlices` and `PairChange` are what the sums by
  warehouse need; `AllGoods` brings them back to the ones of the property.

On the way the invariant showed that the first form of `Conserved` was false on larger instances than
the run's, and why: the exceptions `cascaded` and `oversold` (section 6).

*Orders.* The composition with `Shipments` is proved about as a whole. `Base` holds whatever
overlaps: types, shipments that do not exist have no items (`RowsFit`), and what a call knows of the
shipments it has handed to `Shipments` (`Own`): which procedure runs for it, that its filter is the
order's shipments, that what it has made is of its order and warehouse. `SingleInv` speaks of orders
on which nothing has overlapped: there is at most one call, every waiting event and running handler
is for one status, and the call finds what it has written (`Undisturbed`). `LinesFit`, which holds
whatever overlaps, says that a reservation belongs to an item of its order: what a call rereads item
by item is therefore all that is reserved for the order. The longest part of `SingleInv` is
`Shipping`, the way of `createForOrder`: the shipments of the order are those it made, and for each item and warehouse the
reserved quantity is either still planned or in the items of the made shipment. The two action
properties are read off its last step. `ConsistentInv` holds as long as nothing was lost and no call
failed: the amount is what the items add up to unless a call is between writing the items and the
row, the status of every waiting event and running handler is that of a shipment, and order and
shipments agree or such an event is still on its way. `AgreeWhenSettled` alone is not inductive,
because the order and its shipments are written by different calls and meet only through the event.
`OrdersAssumption` lets the history start without shipments: the initial orders have no status any
shipment could have followed.

*RentalSchedule.* `NothingInvented` (every blocked slot was asked for) is not inductive: copies
held by running calls are written back after the row is gone. `RentalInv` adds, for every call, that
all its copies block only what was asked, that the rows it splits span the period and those it cuts
contain the date (so that the parts stay inside), and that it holds the arguments its stage needs.
There is one lemma per action; `StepInv` reduces each to its own call.

The exactness of a call is an action property of its last step; what it leaves was done by the steps
before it. `CalmInv` says of a call beside which nothing has run what it has done at each of its
stages: `DatesDone` (the rows inside the period are gone, the outer ones split, the left ones cut,
each against the rows as the call met them), `OrderDone`, `ReturnDone`, `QueryDone`. It needs
`KeyInv`: two rows never share an id, and an id that a call has seen is never given again, so that
saving a copy touches the row it was read from. `ScheduleExact` needs `RowInv`, rows are finite in
number and run forward: a row that ended before it started would be found by two of the four queries.
`BookedOnce` has its own invariant, `ApartInv`, by which rows of one item stay apart at every stage of
a split or a cut. The service itself never compares the periods of an order's items with each
other, so the theorem has the hypothesis `PeriodsApart` (periods of an item do not overlap); the run's
constants meet it, which TLC checks.

*Appointments.* `AppInv` adds to the properties, for every call, what its checks have found and no
write has overtaken: `ClashFree` (no intersection), `LimitFree`, `FreshCopy` (the copy is the row
with the body's changes), `Emptied` (the old performer has no appointment left). `LimitFree` is the
delicate one: the check accepts a day on which it happens to find the call's own row. That is
sound for appointments within one day because then, by `SingleDayLimit` itself, no *other* row of
the day exists; for longer appointments it is not (section 6). `ExtOnce` has an invariant of its own,
`ExtInv`: a call that synchronises an event is the only one for it unless the event is `doubled`, and
from its look-up to its save no row but the one it holds is linked to the event (`Handled`); what it
is going to save carries the event's id (`Briefed`). The DTOs of create and update let a user name an
event or move a row to another schedule, and so do the runs: such a save is counted in `doubled` when
another row of the schedule has the event, or the event is being synchronised, at that moment; any
other event a user has named is found by the look-up like one of the calendar's.

*MailSync.* The invariant is built in six layers, each proved with the ones before it. `Typed`: rows,
copies and calls. `Apart`: a synchronisation holds the lock, and unless `overlapped` there is one
call that stores. `UidOnce`: all copies of a uid of a folder, on the server, in rows and in calls,
are of one message, and below the uid the folder gives next. `OneLink`: a row whose links are being
replaced has none. `Once`: a message is stored once, and a call that is about to write a row knows
whether the message has one. `Behind`: what the sync info has left behind, or will when the running
synchronisation saves it, is stored, in hand or given up. `Behind` needs `Once`: an update of a row
must keep the row's message, or the message it had would be lost again.

The last part of `MailProofs` is about the mailbox as a whole. `DeletedForGood` speaks of what
follows a quiet moment, so its proof is an invariant that holds from there on: `Down`, the mailbox
is deleted or gone for good and no call runs that writes its state back. `CountersAgree` needs
`Alive` (rows and links go with the mailbox, an update never saves its absence) and `Counted`: the
counters say what the rows say, or a call is between its first write and its last counter; that call
finds its row, and the sums it holds are still those of the rows. A call that fails on its way would
leave the counters behind: with `OneLink` it can fail only by accident or with the mailbox gone.

*ScheduledMessages.* `SendInv` adds to the type and order that two sends hold the same message only
if it is marked as overlapped (`OneSend`), and that a delivered message which is neither held nor
broken off has its mark (`SentOnce`). With it every step is shown to be a step of `Outbox` or to
leave the mapped variables alone, one lemma per action.

*Chats.* `IInv` says what a call may rely on as long as nothing has overtaken what it read: the chat
it is about to insert or to readdress has no rival at the address, the chat it is about to save is
still the row it has read (`NoRival`), and the contact whose message it stores is still there
(`InHand`). Every write that breaks this for another call marks that call as disturbed; the
lemmas show that no action forgets to. `MergeInv` carries `MergedWhole`. A merge dooms the
messages of its chat from the moment it lists them, and has passed those it has no copy left to make
of. `Whole`: every stored message has a copy that no undisturbed merge has passed, so the row that
a `Drop` deletes is never the last. `Undoubled`: of the copies of a message all but one are doomed,
and all of them while some merge is about to make another; only one merge is. That a merge never
copies a chat into itself comes from `Knows`: undisturbed, its chat has the address the message was
posted to, and the chat it goes to had the resolved one. The invariant, which TLC checked first,
brought out a loss that three calls at once are too few for; `MergedWhole` now names it (section 6).

Model-checked only: liveness (`Quiesces`, `MessagesArrive`, `DeleteEnds`, `InitEnds`, `Drains`), which
needs fairness and ENABLED and is out of the prover's reach. Every safety and action property of a
passing run is proved. The two properties that section 6 expects to be violated are not
theorems, of course.

## 6 Findings

Each of the first two is a run that is expected to violate its property.

- `appointments_day`: `oneEntityPerDay` is described as "Allow only one entity per day". The check
  finds appointments that start and end within the days of the new one, so one that reaches into the
  next day is invisible to an appointment on either of its days.
- `scheduled_limit`: the daily limits "Emails per day" and "Messages per day for automated sending"
  never limit. The query selects `max(sent_at)` under the name `max`, the code then reads `sentAt`,
  which is undefined, and every queue sends a message a minute.
- `reservations` of an order item is optional in the DTO (`order-item.dto.ts:41`) and when an item is
  created, but `updateItems` hands a missing value to a `for` loop (`order-item.service.ts:75`). The
  update then stops after the order is saved and the item's reservations are deleted. `NoCallFails`
  excepts calls that omit the field, and shows that no other call fails in this way.

What the ghosts of `Warehouses` and `Chats` count or except from their properties is worth knowing,
since each stands for executions of the code:

- Stock is returned for shipments that have not left: `checkCancelOrders` does so itself for the
  shipments of an overdue order that was sent and set back to reserved (`order.service.ts:226` to
  `235`), and so does any caller who moves a shipment to returned or cancelled twice. `due` then
  grows. Its opposite: a shipment that has left and is replaced by `createForOrder`, or deleted with
  its order without a return, takes its goods along.
- A warehouse that is deleted with itself as its new warehouse (`warehouse.service.ts:126` to `156`,
  `warehouse.controller.ts:62` to `68` do not compare the two) doubles its stock rows, then drops them
  all, and its shipments go by their foreign key.
- While a warehouse is being deleted, the deletion of another one may move its goods into it: once the
  first has dropped its stock rows, what still comes goes with the warehouse by the foreign key
  (`cascaded`).
- `reduce` does not look at what is in stock. A merge that adds a negative quantity and is then cut
  short leaves less in all than there was, because it adds it a second time (`oversold`).
- Two quick messages to a chat with a phone address: the answer to the second may find the chat
  itself under the new address. It is then merged into itself, and deleted with its messages.
- A merge creates the messages of the old chat anew, newest first, without files, replies and
  statuses, and an error in the middle leaves part of them in both chats.
- A merge can copy a message into a chat that another merge has listed already: the chat had taken the
  resolved address when the first merge found it, and an update then saved its old address over it, so
  that a message to it starts the second. The copy is deleted with that chat, then the original.
- An incoming message that finds its chat before the contact has been inserted, or with the contact
  under another external id, is dropped.
- Removing a participant removes, by a cascade, the messages he wrote.
- A mailbox stays in the state init for good when `update` fails after its save, in the accessible
  users or the entity settings (`mailbox.service.ts:113` to `134`), or when the database takes neither
  of the two writes of the state (`261`, `270`): the lock is released, the process lives on
  (`main.ts:48`), and no cron job looks for that state. `InitEnds` names this as `stranded`.
- An incoming message that creates its chat is dropped when `createLinkedEntities` throws (settings
  that name no type, an entity that cannot be created): `handleMessage` only logs the error, while the
  chat stays, so that the next message of the contact arrives.
- The DTOs let a client give an appointment the external id of another one: the calendar's events then
  reach either of the two.
- In a chat with two contacts, one described by a user and one by the webhook, a message is posted
  once to each.

## 7 What is not modelled

Queries that only read, permissions, formatting, search, reports; services that create, update and
delete single rows independently; integrations, whose protocols are outside the repository; the
database beyond rows, keys and cascades; several Node processes (they would add no interleavings at
this granularity, but for the lock of the mailboxes, which lives in the memory of one). Most of the
repository's lines are of these kinds: CRM reports and boards are SQL over rows that other services
write, set-up and demo data run once, and integrations translate between formats.

Within the modelled components: creation of performers and warehouses, the deletion of a warehouse
without a new one, deletion of whole schedules, account-wide clean-up, folders that are created or
renamed on the mail server, CRM entities made from messages, and the fields named under
*Abstraction*.

## 8 Plan

In order:

1. `RentalOrders`: rental orders above `RentalSchedule`; numbers by maximum plus one; parallel
   processing of items.
2. Personal and group chats: find-or-create of a personal chat; the status of a message for a user,
   which can go back from seen to received.
3. `Stock`: an abstract specification in which stock moves atomically; `Shipments` without overtaken
   reads refines it, as `ScheduledMessages` refines `Outbox`.
4. `EntityWeights`: sort weights of cards in a stage under concurrent moves.
5. `Spots`: free spots of a performer as pure operators, against a definition by instants.
6. Proofs: the refinement of 3, step by step, and the theorems of the modules above.
