# PesoHub Nexus: TLA+ models, model checking and proofs

PesoHub Nexus keeps the scales of many stores in step with a catalogue kept in
the cloud. A user saves a price; the backend enqueues a job; a worker builds the
package and publishes it on Redis; the backend's gateway hands it to the Agent
Local of the store; the agent writes it to the scale over TCP, reads back what it
can, and the answer returns the same way until a `SyncJob` row says `SUCCESS` or
`ERROR`. No part of that path waits for the next one with a lock, every hop may
lose or delay a message, and the scale acknowledges writes that it discards. This
directory models that path from the save to the rows in the scale, the sessions and
browser tabs of the people who use it and the subscription that lets them in; it
checks all of it with TLC and proves its safety with TLAPS.

All paths below are relative to the repository; `src/` stands for its root.

## 1. The system

### Components

| Component | Code | State it keeps | Operations |
|---|---|---|---|
| Sync queue | `backend/src/infrastructure/queue/sync-queue.module.ts`, BullMQ | jobs, attempts, locks, stalls (Redis) | add, take, complete, fail and retry, stall check |
| Sync worker | `worker/src/processor.ts`, `agent-bridge.ts`, `index.ts` | `AgentBridge.pending`, one timer per command; the rows `SyncJob`, `SyncJobItem`, `Device.status` | `processSyncJob`, `sendToAgent`, `pmessage` |
| Agent gateway | `backend/src/infrastructure/realtime/agent.gateway.ts` | five maps in memory (`sockets`, `clienteIdByAgent`, `discoveredByAgent`, `agentByCorrelation`, `lastDeviceTouch`), `socket.data.agentId`; `Device.status` | connection, disconnection, heartbeat, command, result, discovered, slots |
| Device registry | `device.prisma.repository.ts`, the device use cases, `reconcileDriftedIp` and `onDevicesSlots` of the gateway | `Device` rows: `ip`, `agentId`, `slotsEtiqueta` | create, import, link, edit, delete, correct the address, merge the slots |
| Agent Local | `agent-local/src/index.ts`, `scale-client.ts` | `discovered`, `sincronizando`, socket.io's send buffer | `sync:command`, discovery, `reportSlots` |
| Scale | external | rows by block and number, label slots, factory models, one TCP session | accept, store or discard, list |
| Sync triggers | `sync.controller.ts`, `product-sync-dispatcher.service.ts`, product use cases, `formatos-impressao.controller.ts` | the catalogue: `Product`, `FormatoImpressao` | save, delete, ask, then `queue.add` |
| Scale protocol | `scale-client.ts` (`buildSyncBody`), `selos-*.ts`, `bitmap-wire.ts` | none: pure functions | encode, verify |
| Sessions | `session-revocation.service.ts`, `auth.service.ts`, `auth.controller.ts`, `jwt-auth.guard.ts` | `session:active`, `session:revoked`, `session:seen` in Redis | login, refresh, change of password, logout, guard |
| Frontend | `frontend/lib/api.ts`, `SessionKeepAlive.tsx`, `layout.tsx`, login and password pages | cookie and `localStorage` (per browser), `sessionStorage` and React state (per tab) | login, renewal, check, switch of store, logout, reload |
| Access | `session-scope.service.ts`, `auth.service.ts`, users, profiles | stores of a profile, lock columns of the user | scope per tab, failed logins and releases, change of a profile |
| Billing | `billing.service.ts`, `billing.controller.ts`, `asaas.service.ts`, the guard | `Assinatura`, `Fatura`; subscription and bills at the provider | subscribe, cancel, webhook |
| Throttler, Veltrix client, probes, installer, scripts | see `PROJECT.json` | | |

### How they interact

```
 POST /sync, product saved         agent:command:<agentId>        sync:command
 backend ---- BullMQ ----> worker ------- Redis ------> gateway -- socket.io --> Agent Local -- TCP --> scale
   ^          (at least      |  ^                        |  ^                       |
   |           once)         |  +--- agent:result:<id> --+  +---- sync:result ------+
   |                         v         (at most once)    v        devices:discovered, devices:slots
 browser tabs             SyncJob, SyncJobItem        Device (status, ip, slotsEtiqueta)
 (one cookie, a store each)
   |  guard: session:* in Redis, then Assinatura <---- webhooks of the payment provider
```

The queue delivers *at least* once (retries, stalled jobs), the channels *at
most* once, the agent buffers what it emits while disconnected, and `Device` rows
are written by the worker, the gateway and the users' requests alike. A save and
the request it makes are two steps, and no outbox ties them together.

### What is hard

- **Interleaving inside one process.** Node runs handlers concurrently at every
  `await`. Two `sync:command` handlers share `sincronizando`; a socket may close
  while its authentication waits for the database; `onDevicesSlots` reads a row,
  waits and writes it; a subscribe, a cancel and a webhook write one row.
- **Late and repeated events.** An agent may answer after the 30 s timer, while
  the job is in its next attempt. A replaced connection's disconnection is
  noticed after the new connection was accepted. A webhook comes again, or before
  the row it is about.
- **Crashes and stalls.** A worker that dies, or merely loses its lock, leaves a
  row `IN_PROGRESS`, and BullMQ runs the job again beside the old execution. A
  subscribe that dies has made a subscription nobody knows of.
- **Acknowledgements that prove nothing.** The scale acknowledges a label format
  over a factory model and drops it; Redis drops a message nobody listens to; a
  committed transaction may look like a failed one.
- **Numbers that stand for things.** A product is a slot, a text an index in a
  header, a seal strip a bitmap of at most fifteen; all are given out anew in each
  package, over what earlier packages left in the scale.
- **Shared and private state in a browser.** Tabs share a cookie that any of them
  may renew, and each has its own store.
- **Contention.** The scale serves a single TCP client: commands, the slot report
  and the official software (Ramuza) reset one another.

The full list, each at its line, is under `hazards` in `PROJECT.json`.

### What makes each component correct

- Worker: a `SUCCESS` row rests on the agent's word for that very execution; a
  completed job has such a row; an error is never taken back; row and items agree;
  a request is run a bounded number of times; everything settles.
- Gateway: a command goes only to its addressee, is answered only by it (or by the
  gateway), and once; device status recovers from reordered updates.
- Agent Local: an `ok` is worth something: what it wrote was read back in order;
  every command is answered; marks are removed, and only when nobody needs them.
- Registry: a row follows its scale when the address changes, never another one;
  the slots listed for it are those of its own agents.
- Triggers and protocol: what the scale does not show yet is on its way or has a
  known cause; a slot holds the product it belongs to; whatever a row refers to is
  there; labels print whole; what a success says of the labels and their seals is true
  until another package writes them.
- Sessions: a revoked token is never accepted again; one account has one good
  session; whoever works is not logged out.
- Browser: a tab works in the store it shows; nobody is sent to the login, or told
  of somebody else, without a reason.
- Access: an account is locked by as many failures as it takes, and stays locked for its
  time; a profile has the stores it was given.
- Billing: what is charged is on record; the bills are what the provider says; whom
  the guard turns away has been in arrears or has cancelled.
- End to end: a `SUCCESS` row means that the addressed agent had that command
  accepted by the scale.

## 2. The modules

| Module | Models | Extended or instantiated by |
|---|---|---|
| `SyncPromise` | abstract: what a `SyncJob` row promises its readers | `SyncWorker` (`Promise`), `SyncSystem` (`Readers`) |
| `SyncWorker` | queue, processor, bridge, against an environment that may answer once, late or never | `MCSyncWorker`, `SyncWorker_proofs`, `SyncSystem` (`W`, `WorkerSide`) |
| `AgentGateway` | the gateway, against agents that may claim anything | `MCAgentGateway`, `AgentGateway_proofs`, `SyncSystem` (`G`) |
| `SyncSystem` | worker + gateway + agents over shared channels and rows | `MCSyncSystem`, `SyncSystem_proofs` |
| `LocalAgent` | one agent's handlers and the scales they share | `MCLocalAgent`, `Store_proofs` |
| `DeviceRegistry` | the rows of one store and what agents report about them | `MCDeviceRegistry`, `Store_proofs` |
| `SealStrip` | the layout of a seal strip and the wire form of bitmaps | `ScaleEncoding` |
| `ScaleEncoding` | operators: what `buildSyncBody` writes for a package | `Catalog` |
| `Catalog` | catalogue, triggers, jobs and the memory of one scale | `MCCatalog`, `Catalog_proofs` |
| `Sessions` | one account's sessions in Redis: login, refresh, logout and the guard | `MCSessions`, `Sessions_proofs` |
| `Browser` | the tabs of one browser and the server at the other end | `MCBrowser`, `Browser_proofs` |
| `Access` | the lock columns of one user and the stores of one profile | `MCAccess`, `Sessions_proofs` |
| `Billing` | one tenant's subscription: routes, webhooks, provider, guard | `MCBilling`, `Billing_proofs` |
| `MC*` | instances for TLC | the `.cfg` files |
| `*_proofs` | theorems | |

`PROJECT.json` maps the definitions to the lines they model.

**SyncWorker.** A job execution is a pair `<<job, n>>`; since each one creates its
own row and its own random correlation id, the pair names all three. `pc` says at
which `await` of `processSyncJob` the execution is: `loading` (the device),
`packaging` (the products), `publishing`, `awaiting`, `committing`, `recording`
(the catch block), then `returned`, `threw` or `gaveUp` (`UnrecoverableError`)
until BullMQ hears of it (`Complete`, `Fail`), and `over`. An execution whose
process died is `abandoned`. `lock` is the execution that holds BullMQ's lock;
`Stall` takes the job away from a dead worker, or from a live one cut off from
Redis, in which case both go on. `pending` is the bridge's map: `Publish` adds to
it, `ReceiveResult` and `Timeout` remove from it, and `PublishFails` leaves an
entry whose timer later rejects a promise nobody awaits (`OrphanTimeout`), which
ends a Node process. Faults are of five kinds (`crash`, `database`, `publish`,
`lock`, `bus`), each injected at any step, `MaxFaults` of them in total. A call to the
database may fail before it takes effect (`DatabaseFails`) or after it, its answer lost
(`CreateUnacknowledged`, `CommitUnacknowledged`). `stranded` is history: the executions
whose own row the database left without anybody to settle it.

**AgentGateway.** The part of a handler after an `await` is its own action
(`Authenticated`, `HeartbeatRecorded`, `HeartbeatTouch`), and the socket may have
closed by then. Status updates are queries in flight (`dbWrites`) applied in any
order. An agent may hold several sockets open. `token` is what a socket presents,
`socketAgent` what the gateway believes.

**SyncSystem.** Shares the channels and the rows; adds the agents as the gateway
sees them: connect, drop, take a command, finish, report (or lose the report on a
socket the server has closed), restart. Two refinements say that each component's
environment was general enough: `WorkerRefined` maps the worker's `commandBus` to
`outstanding`, everything published that was not answered, wherever it is or was
lost; `GatewayRefined` maps the gateway's `addressee` to the agent the worker read
from the row.

**LocalAgent.** One handler per command: connect (10 s), write, wait for `END TIM`,
read each format back over a connection of its own, `finally`, emit, list the
slots. `pending` holds bodies that are with the scale: an agent that gave up does
not take the body back. Formats have names (`NameOf`), and only names are compared when
a slot is read back: two commands may carry versions of one format. The scale is external: one session, factory models that
swallow what is written to them.

**DeviceRegistry.** `Reconcile` and `MergeSlots` are the reading halves of the
gateway's handlers, `ApplyFix` and `ApplyMerge` their updates; users create, link,
edit and delete rows in between; scales move; two networks may use the same
addresses (`LanOf`).

**ScaleEncoding and SealStrip.** One operator per builder of `scale-client.ts`. A row
of the wire is a record of the fields that link rows, hold amounts or decide what is
printed; a JavaScript `Map` is the order in which its keys first appear
(`PrimeirosUsos`), with the first or the last value written, as the code sets it. A
seal's label is the sequence of the lengths of its words, all that
`quebrarEmLinhas` and `planejar` look at; sizes are in dots, and rounding is the
code's.

**Catalog.** A save changes `product` or `format` and leaves an entry in `requests`
if the code is going to enqueue a job; `Enqueue` is the call that does it and
`LoseRequest` the crash in between. A job reads the products (`ReadProducts`), then
the formats sent on their own (`OpenJob`), and then does what sends, verifies and records
in steps of their own, between which the other jobs and the scale go on
(`concurrency: 5`): `Write` when the scale acknowledged the whole body, `LoseWrite`
when it did not in time and any prefix of the rows came; `ReadBack` for each slot, over a
connection of its own, by name (`Diverges`); `LoseResult` when a reading or the answer is
lost; `EndJob`, the transaction of the result. Of an attempt given up the scale may still
have the rest: `adrift` keeps it, and `LandsLate` writes more of it at any time, over
whatever was written since. The scale's `memory` is a row for each block and number; factory
slots ignore writes. The way of a package from the worker to the agent is
`SyncSystem`'s. `over` and `excused` are history: what others wrote since a job's own write,
and what is out of date for one of the known reasons.

**Sessions.** The requests of one account, independent of the path above. `pc` is
the call to Redis a handler is about to make: the guard asks `session:revoked`
(`CheckRevocation`, and `RevocationUnknown` when the call fails), then
`session:seen` (`CheckInactivity`), then renews it (`Touch`); a refresh and a change
of password revoke the presented token (`Revoke`, `Clear`) and register a new one
like a login does (`Read`, `Revoke` of the session it read, `Activate`, `Open`).
`then` says where the handler goes after `revoke`, which is called from four
places. A token is named by the request that issued it. `Lapse` is the ten
minutes of `session:seen`, `Expire` the token's own end, with which
`session:active` goes. A failing call has no effect on Redis. `doomed`, `lapsed`
and `overlapped` are history that only properties read.

**Access.** Two pairs of queries with an `await` in between, on rows no transaction
guards. A login reads the row (`Find`), compares the password (`comparing`), and writes
what follows from what it *read* (`RegistrarFalha`, `Accept`), not from what is there by
then; `Release` stands for the three requests that reset the row without looking. An update
of a profile deletes its stores (`Empty`) and creates the new ones (`Create`), which the
unique index refuses whole if one is there already. `Stop` ends either in between.
`overtaken`, `ideal`, `trusted`, `wrong`, `ultimo` and `mixed` are history.

**Browser.** The other end of `Sessions`. `cookie` and `cached` belong to the
browser; `page`, `scope`, `known`, `shown` and `warned` to each tab. A request in
`flight` took its token and its store when it was sent; the server handles it in one
step (its interleavings are in `Sessions`); the reply is applied when it arrives, if
the page that asked is `there`. `Expelled` is the 401 branch of `request()`. `events`
is history: the kinds of things that have happened that may cost somebody the
session, so that properties can say what must not happen without them.

**Billing.** One action per `await` of the two routes and the webhook; `Fail` ends
a call between any two of them. A subscription is named by the call that makes it.
`Happen` is the provider's: bills become overdue, confirmed, received or deleted, and
each event is a webhook that stays in `outbox` until it was answered, delivered in any
order and as often as it takes.

## 3. What is checked

`tlc -workers 2 -config X.cfg M` for the module and configuration of each run.

| Run | Question | Bounds |
|---|---|---|
| `SyncWorkerOne` | When does a job complete, how often does it run, do its rows keep `SyncPromise`, and do job and rows settle? | 1 job, 2 attempts, 1 stall (3 executions), 1 fault of any of 5 kinds |
| `AgentGateway` | Who may answer a command, and how often? When is a connected agent taken for a stranger? Does the status of its devices recover? | 2 agents, 2 sockets, 1 command, 1 device |
| `SyncSystem` | Does the composition implement both components, and do the rows keep `SyncPromise` with the scale's word? | 1 job, 1 attempt, 1 agent, 2 sockets, one lost result, any lost command |
| `LocalAgent` | What is an `ok` worth? What does the mark of a busy scale tell? Is every command answered? | 2 commands at 1 scale with 2 slots (one a factory model), 1 refused command |
| `DeviceRegistrySlots` | Whose slots does a row list, and to what does it lose them? | 1 row, 2 agents, 2 networks with the same 2 addresses |
| `DeviceRegistryDrift` | Does a row follow its scale? | 2 rows, 1 scale, 2 addresses |
| `Catalog` | What may be out of date, what does a slot hold, what is a success worth while others write, do labels print whole? | 2 products (one with a slot of its own) with a format and a table each, 1 bitmap, a third format in a factory slot, 2 jobs, 2 attempts, 2 saves, deletions, cuts or losses |
| `Sessions` | Who is let in, who is logged out and why? | 4 requests of any kind, symmetric, 1 failing call, 1 token that lapses or expires |
| `Access` | What lifts the lock of an account? What is the count of failures worth? Which stores has a profile? | 5 requests of any kind, 2 stores, 2 failures lock (5 in the code), symmetric |
| `Browser` | Which store does a tab work in, and when is it sent to the login or warned? | 2 tabs, 2 stores, 2 requests in flight, 2 tokens, 1 kind of mishap, symmetric |
| `BrowserStores` | Does every tab work in the store it shows? *(violated)* | the same, no mishap |
| `Billing` | Who is charged, what are the bills worth, who is turned away, and what lets a tenant in while a bill is overdue? | 4 calls of any kind, 2 bills, 1 call that fails or answer lost, symmetric |

Why the bounds are enough to be interesting: two attempts and one stall give
three executions of one job, so a late answer, an overlap and a retry all occur,
alone and together with a fault; jobs share nothing but the `Concurrency`
bound, the device and the process, hence one job. Two sockets are what a
replaced connection takes; commands do not share state, hence one. Two commands
at one scale cover a format in a free slot and one in a factory slot, both fought
over, and one format of which they carry two versions. Two products and two jobs are what
it takes for a position to meet a code, and for one package to land between the write, the
readings and the result of another; two accidents for a save and a cut, or a cut and what
comes late of it. One bitmap and two tables with seals let each package number its own over
the other's, and a package with both exceed the bitmaps; the boxes of the seals have
another size in each format and version. The layouts move seals and texts, blank one, and
have one text more than the header (`MaxTextos` is 2 there, 32 in the code; `BmpMax` 1 for
15; `PluMax` 5 for 10000). The scale starts with formats and one product in the store
(`Before`), so that the accidents are not spent on creating them. Formats used by several
products, and tables shared by several formats, are left to the theorems.
Four requests are a session, a refresh or logout of it, a login that pushes
it out, and one more that meets the result. Five requests on one account are two overlapping
failures, a lock, a late login that lifts it, and one that meets what is left. Two tabs and two requests let one tab's
renewal meet everything the other does. Four calls are a subscribe, a cancel, a second
subscribe and a webhook that meets any of them, or a subscribe and the webhooks of two bills
of it.
Every safety property is proved for all values besides (section 4).

Bounds that the code does not have are named: `MaxFaults` (injected failures),
`MaxAged` (tokens that lapse or expire), `MaxSightings` and `MaxReports` (messages
on their way), `MaxJobs` and `MaxEvents` of `Catalog`, `MaxTokens` (sessions issued)
and `MaxEvents` of `Browser` (kinds of mishaps in one behaviour), the constraints
`Quiet` (`MCSyncSystem`: no heartbeat or discovery, one status update in flight),
`Silent` (`MCDeviceRegistry`: no address is heard in the run about slots) and `Pursued`
(`MCBrowser`: a behaviour is followed until a store is chosen late, a turn of the
cookie is cut or lost, a password is wrong or a session lapses), `Apart` (`MCBilling`:
until calls overlap that should not, after which none of its properties asks anything, and
two of the bills the subscriptions may have come to something) and `Led`
(`MCAgentGateway`: the device is one agent's, which is the first to connect; over which
connection is the same by symmetry, and TLC's own symmetry would not be sound for
`HeartbeatRestoresOnline`).
`MaxAttempts` is the code's `attempts: 3`, taken as 2 in the runs. Every run
switches deadlock checking off: each bounded instance really stops, when its
jobs, sockets, commands, tokens or rows are used up.

### Fairness

- `SyncWorker`: weak fairness of every step of a live execution (each `await`
  returns, each timer fires), of BullMQ's `Take`, backoff and stall check. Nothing
  is assumed of agents, channels or users: the timer is what makes jobs end.
- `AgentGateway`: handlers and queries complete, a connected agent beats every 30 s
  (`agent-local/src/index.ts:68`), a minute passes. Nothing about disconnections.
- `LocalAgent`: each connection has a timeout, so a handler's next step is always
  taken; socket.io keeps reconnecting (`index.ts:52`). The scale owes nothing, and
  the official software need not release its session.
- `DeviceRegistry`: a scale keeps announcing itself to a connected agent; its
  fairness is strong only because `MaxSightings` can hold a report back.
- `Catalog`, `Browser`, `Billing`, `Sessions`, `Access`: none. Nothing in that code promises
  that a request lost between a save and the queue, a forgotten webhook or a lost
  reply is ever made good, so only safety is stated of them.

### Disagreements between the code and its comments

`BrowserStores` shows one (`ShownStoreIsUsed`): a tab opened on an empty browser has
no store of its own yet, so `scopeHeaders` sends none (`frontend/lib/api.ts:90-92`) and
the server falls back on the store in the cookie (`session-scope.service.ts:42`); when
another tab switches, its renewal changes that cookie (`auth.service.ts:105-113`), and
the first tab then works in a store it does not show, which is what
`api.ts:37-41` says cannot happen.

Eight others are stated in the modules as properties that no run checks, because they
fail; adding the name to the configuration reproduces the trace.

| Property | What happens | What the repository says |
|---|---|---|
| `AgentGateway!ConnectedAgentHasCliente` (1 agent, 2 sockets) | the late disconnection of a replaced socket deletes the new one's tenant (`agent.gateway.ts:148-161`); no other way, says `ForgottenByAClosing` | `:72-73` |
| `LocalAgent!BusyIsMarked` | the first of two handlers of one scale removes the mark of both (`agent-local/src/index.ts:188-190`); no other way, says `MarkTells` | `:130` |
| `DeviceRegistry!AmbiguousLeftAlone` (1 row, 2 scales, 3 addresses) | a candidate counted while another scale was silent is followed (`agent.gateway.ts:271`) | `:259-261` |
| `DeviceRegistry!SlotsAdditive` | two merges of one row: the second drops what the first added (`:230-244`); no other way, says `SlotsLostToOvertaken` | `:34` |
| `Sessions!OtherDeviceLoggedIn` (3 requests, no failure) | a renewal revokes its session with `troca_de_escopo` (`auth.service.ts:106`), and the registration of the new one revokes it again with the default motive (`session-revocation.service.ts:126, 131`): a request still under way with the old token is told of another device; otherwise only a login's victim is, says `ReplacedOrRenewed` | `session-revocation.service.ts:6-9, 32-33`, `jwt-auth.guard.ts:48-50` |
| `Catalog!LayoutsAreThere` | a package of another job lands between the write and the result of the first, or the rest of one given up does; the names agree, and the first ends `SUCCESS` over a layout that is not its own (`scale-client.ts:864, 1074`, `worker/src/index.ts:30`); no other way, says `SuccessIsOnTheScale` | `ARCHITECTURE.md:111` ("ACK não é prova. Só a releitura é.") |
| `Catalog!OwnSealsOnly` | a later package gives the bitmap's number to the seals of another table, and the label in the scale prints those (`scale-client.ts:770`); no other way, says `FreshSeals` | `scale-client.ts:751-759`, where the bitmap of a format is that of the product that uses it |
| `Billing!BlockedUntilSettled` | a confirmed later bill unblocks while an older one is overdue (`billing.service.ts:138-150`); no other way, says `UnblockedByAnotherBill` | `frontend/.../assinatura/page.tsx:115-116` |

Met while modelling, and part of the models without a property of their own:

- Sessions: two logins at the same moment leave two good sessions
  (`session-revocation.service.ts:129-135` against `:31-32`); a refresh racing a login
  pushes out the login; a session opened while
  Redis fails is later logged out for inactivity (`:141-142`).
- Access: a login that read the row before it was locked lifts the lock, a failing one too
  (`auth.service.ts:274` writes `null`), no other login does, says `LockStands`; failures
  that overlap count as one; an update of a profile that dies between its queries leaves it
  without stores, and of two that run together the stores are both's, or the second fails.
- Gateway: with a second backend process the one without the socket would answer
  `ok: false` at once (`agent.gateway.ts:98-103`, `worker/src/agent-bridge.ts:116-120`).
- Catalog: products, tables and bitmaps are never read back (`ARCHITECTURE.md:111` asks it
  of everything), so nothing is promised of them on a success: that the scale of the model
  stores what it takes is no finding about the real one (`ARCHITECTURE.md:64-112`
  names its silent discards); of two formats with one table and boxes of unequal size the
  seals of the second have the size of the first's box (`scale-client.ts:806-812`); two codes without
  digits synchronised one at a time both become PLU 1; "7" and "007" share a slot; a
  product without a slot of its own moves with its position and leaves stale rows;
  deleted and deactivated products stay on the scale; saving a nutrition table
  enqueues nothing; an older package may overtake a newer one (concurrency 5);
  renaming a format between the job's two reads gives a spurious "not written".
- Encoding: a format saved alone is sent without its texts, so its seals are
  (`formatos-impressao.controller.ts:70-97`, `scale-client.ts:785-786, 814-815`); the
  label of a seal with a word of twelve letters or more is cut
  (`selos-bitmap.ts:264` against `selos-anvisa.ts:32-34`); in too small a box the strip is
  blank and nobody is told; a tax of 18 % becomes 180000, as `scale-client.ts:96-97` says and
  `:228-229` does not; the thickness of a border is read by `scale-client.ts:641-645`
  and never sent by the processor.
- Billing: a late receipt reactivates a cancelled subscription; a webhook that
  comes before its row is answered and forgotten; the page offers neither form nor
  cancellation when the row says `CANCELADA`.
- Browser: a change of password does not update the last session seen by the tab,
  which may warn of its own new session; a wrong current password is a 401 and leads
  to the login page; a wrong login clears the cached user of every tab; a tab's own
  renewal hides that somebody else logged in; a reload during a renewal loses the new
  cookie; `mousedown` starts a renewal and the click's save goes out with the old
  cookie (`SessionKeepAlive.tsx:7-14` says the contrary); a late reply of
  `me()` overwrites the store shown; lists are not reloaded when the store is switched.

## 4. What is proved

`tlapm X_proofs.tla`. Each theorem holds for every value of the constants that
satisfies the module's `ASSUME`.

| Theorem | States |
|---|---|
| `SyncWorker_proofs!Invariant` | `Spec => []IInv` |
| `TypeCorrect`, `SuccessTheorem`, `CompletedTheorem`, `RunsTheorem`, `OverlapTheorem`, `ItemsTheorem`, `SettledTheorem` | the safety of the worker: what its rows rest on, that items and row agree, how often a job runs, that an execution that is over left no row in progress unless the database stranded it |
| `ErrorIsFinalTheorem` | an error is never taken back (an action property, proved only) |
| `PromiseTheorem` | `Spec => Promised`: the worker implements `SyncPromise` |
| `AgentGateway_proofs!Invariant`, `AddresseeTheorem`, `OnceTheorem`, `RoutingTheorem`, `ForgottenTheorem` | routing and answers; only the closing of another of its connections makes the gateway forget a connected agent |
| `SyncSystem_proofs!Invariant`, `TypeCorrect`, `SuccessIsWritten` | end to end: a `SUCCESS` row means that the addressed scale accepted that command |
| `SyncSystem_proofs!PromiseIsKept` | end to end, the rows implement `SyncPromise` with the scale's acceptance in place of the report |
| `SyncSystem_proofs!WorkerIsRefined`, `GatewayIsRefined` | the composed system implements both components' specifications, each seeing the other as its environment |
| `Store_proofs!Invariant`, `FactorySlotTheorem`, `OkIsStoredTheorem`, `MarkTheorem` | `LocalAgent`: what an `ok` is worth; a marked scale is being written, and only a command beside it can unmark a command's scale |
| `Store_proofs!RegistryInvariant`, `SlotsTheorem`, `SlotsLostTheorem`, `CorrectionTheorem` | `DeviceRegistry`: whose slots a row lists, and to which race alone it loses them; a correction stays within the networks of the row's agents (the last two are action properties) |
| `Sessions_proofs!Invariant`, `TypeCorrect`, `RevokedTheorem`, `SingleSessionTheorem`, `InactivityTheorem`, `SomebodyTheorem`, `ReplacedTheorem` | revoked tokens stay out; registrations one after the other leave one session; nobody is blamed for an inactivity that was not; logins at once leave somebody in; another device is blamed for a login or for the session's own renewal |
| `Sessions_proofs!AccessInvariant`, `EarnedTheorem`, `CountedTheorem`, `StandsTheorem`, `ProfileTheorem` | `Access`: no account is locked before its time, and a lock goes only by time, release or a login that read the row before; what the count is worth; a profile has the stores it was given |
| `Billing_proofs!Invariant`, `TypeCorrect`, `ChargedTheorem`, `FaturasTheorem`, `BlockedTheorem`, `UnblockedTheorem` | what is charged is on record; bills end up as the provider has them; who is turned away has been in arrears or has cancelled; who owes is let in only once another bill is paid |
| `Browser_proofs!Invariant`, `TypeCorrect`, `ThrownOutTheorem`, `OwnStoreTheorem`, `WarningTheorem` | nobody is sent to the login without a reason; a request works in its tab's store; a warning is true |
| `Catalog_proofs!AmountsAreExact`, `NutrientsApart`, `WireKeepsValue`, `StripStaysInside` | what the encoding does to amounts, nutrients, bitmaps and strips |
| `Catalog_proofs!Invariant`, `TypeCorrect`, `SlotTheorem`, `ClassTheorem` | a slot no position reaches holds the product whose code it is; the class a product refers to is on the scale |
| `Catalog_proofs!CauseInvariant`, `StaleTheorem` | every save reaches the scales, or one of the four known reasons says why it does not |
| `Catalog_proofs!LabelTheorem` | every label the system wrote has its texts in their boxes; no strip was cut at the edge of the bitmap it was drawn in |
| `Catalog_proofs!WroteTheorem`, `SuccessTheorem`, `SealsTheorem` | what a `SUCCESS` is worth on the scale whatever other jobs write, cut or land late between a job's own write, readings and result: its layouts are in their slots and its products print their own seals, but for what was written over them since (the last two are action properties) |

Some of these properties no run checks besides: the type invariants; those that a checked
property contains (`SuccessWasReported` is in `Promised`, `SuccessWasWritten` in
`PromiseKept`, `OverIsSettled` in `RowSettles`, `FactorySlotNeverOk` follows from `OkIsStored`
and `FactoryKept`); and `ItemsFollowRow`, `RoutedToAddressee`, `CorrectedWithinNetwork` and
`LockEarned`, whose theorems say more than another small instance would. TLC saw each of
them hold before it was proved.

Each proof module shows that its component's `IInv` holds initially and is kept by
each action, one lemma or step per action and one step per conjunct the action can
disturb. TLC saw each `IInv` hold before it was proved, and does so again when
`IInv` is added to the invariants of the run.

*SyncWorker.* None of the properties is inductive alone. `SuccessWasReported` needs
`OkWasReported` (an execution that is committing, and an `ok` on the channel, were
reported). `CompletedHasSuccess` needs `RowFollowsPc` (an execution that returned
has a `SUCCESS` row or no row left) and `CompletedByOver`, which names the execution:
the row of an execution that is over is never written again. `RunsAccounted` needs
`LockIsLatest` (only the latest run holds the lock, so a straggler that finishes
changes nothing in the queue). `OverlapNeedsStall` follows from `LiveHasLock`.
`OverIsSettled` needs `EndedIsSettled`, with `stranded` for the one exception. The refinement of `SyncPromise` maps every
action to one of its actions or a stutter; `CommitUnacknowledged` followed by
`RecordError` is why it has `Withdraw`.

*AgentGateway.* `SocketsOwned` (a socket speaks for its token's agent, and the map
never points at another's), `CommandsAddressed` (a command is its addressee's
wherever it is) and `Unanswered` (what can still be answered is in exactly one
place and was not answered) carry the three properties about commands. `ForgottenByAClosing`
is inductive with `MapSpeaks` (the map points at connections that speak for their agent).
Nothing is assumed of what agents send.

*SyncSystem.* The composed state is seen through two mappings: the worker sees a
command as outstanding wherever the gateway, a socket or an agent holds it, and the
gateway sees an addressee in the row the worker published. Under them each step of the
system is a step of a component or leaves it as it was (`WorkerIsRefined`,
`GatewayIsRefined`), so both components' inductive invariants hold of the system, by
citing their `StepPreserves` lemmas at the instances. `SuccessWasWritten` needs four more
facts: `CarrierOwned` (who carries a command is the agent it was issued to),
`IssuedIsAimed` (the agent a command is for is the one its row names),
`OkWasAccepted` (an `ok` travelling back was accepted by that scale) and
`ReportedWasWritten` (so was every `ok` that reached the worker's channel). Without the
worker's `OkWasReported` and the gateway's `SocketsOwned` none of them is inductive.
`PromiseIsKept` is composed of the parts: the worker's own step of the promise
(`SyncWorker_proofs!PromiseStep`, cited at the instance) carries over because whatever was
reported was accepted (`PromiseCarriesOver`), and a step of the agents accepts one command
at most and leaves the rows alone. `SystemAssumption` says only that the executions have agents and that the two components
are given the same constants.

*Store_proofs* holds the proofs about both sides of a store, the agent's scales and the
registry's rows. It extends both modules, whose variables are disjoint, and the theorems
of each are about its own specification.

*LocalAgent.* A slot that holds a command's label keeps holding some command's, and
a factory model is never overwritten; so what was read back in order stays
explainable whatever other commands overlap, although a slot passes for the command's own as
soon as the name agrees. Assumed (`NamesAssumption`): no format is named like a factory
model, for only names are compared (`scale-client.ts:864`).
`MarkTells` says that a marked scale is being written, and how `BusyIsMarked` fails: `beside` is history, the commands for
the same scale that were under way at some moment together with this one. A mark goes
only in a `finally`, whose command is then no longer at the scale, and was beside every
other that is (`BesideKnown`), so that is the only way to lose it.

*DeviceRegistry.* Messages, pending updates and rows mention only slots that are in
use on scales of agents the row was linked to (`ReportsTrue`, `MergesTrue`), and addresses
such an agent has heard (`SightingsTrue`, `FixesTrue`); slots in use are never released and
`met`, the addresses heard, and `linked` only grow. `SlotsLostToOvertaken` rests on
`MergesCurrent`: a merge that was not overtaken (history: no update of its row since it
read it) has every slot the row lists.

*Sessions.* `RevokedStaysOut` rests on `DoomedAreStopped`: nothing takes a token off
the list, so such a request never gets past the first check. `SerialSingleSession`
rests on `Serial`: the good token is the active one; a registration that is about to
revoke has read it; once it has revoked, there is no good token until it is over,
and then its own is active. `Staged` keeps the handlers of each kind apart.
`InactivityHasReason` rests on `Seen` (a token leaves `session:seen` for a reason only,
and reasons are never taken back) and on `Judged`, which says what the guard had read.
`SomeoneIsIn` rests on `Known` and `Held`: while calm, the active session is good or
about to be replaced by a registration still under way. `ReplacedOrRenewed` rests on
`Replacements` (only a session that was read there is blamed on another device) and on
`Renewing`: while registrations come one by one, a refresh let in has found its own session
active, for by `Serial` the good token is the active one, and nobody writes the key until
the refresh has read it.

*Access.* `Fresh` is what an interleaving may not break: a login that was not overtaken
(history: the row was not written since it read it) compares against what the row still has,
and none does while the row is locked, since `Find` refuses there and a lock is a write.
From it follow `CountedInTurn`, by what `registrarFalha` computes from equal rows, and
`LockStands`. `LockEarned` needs `Earned`, which bounds every count, the ones read included,
by the number of logins that were wrong, each of which ends with its failure. `ProfileWhole`
needs `Emptied`. The proofs are in `Sessions_proofs`, which extends both modules; their
variables are disjoint.

*Billing.* `Staged` says which call may be at which `await`; `Contracted` that a
subscription exists at the provider only for a call that made it; `Recorded` that
what is in arrears is on record before its webhook comes. While no calls overlapped
that should not (`~raced`), `Alone` (a subscription is made alone, and a cancellation
beside webhooks only) and `Settled` (what a call has read of the row still holds) give
the charge and the block. `FaturasAreTrue` rests on `Tracked`: of a bill whose webhooks
come one after the other, the one being handled is the oldest of those unanswered, and
the last event's is among them until what it wrote is in the row. `UnblockedByAnotherBill`
is inductive beside the rest. A save or a cancellation cannot unblock a tenant: a bill on
record is of a subscription already saved (`Saved`), and `CANCELADA` blocks. Of the webhooks
handled, that of a payment is of a bill that stays paid (`Banked`), and that of a deletion
leaves the standing as it is (`OwingBefore`).

*Browser.* `Placed` ties a request in flight to the tab that sent it, `Quiet` says what
cannot be there while no mishap of a kind has happened, `StoresAgree` that, in a tab
with a scope, what it shows and what it sends are one store. The warning rests on
`Numbered` (tokens get their numbers in turn) and `Noted`: while every turn of the cookie
comes alone and brings its token home, a tab knows its own last token or is about to, so
a check that finds another one has found somebody else's.

*Catalog.* The rows of a PLU block are the ones `BlocoPlu` makes, because every block
carries its own constant; the number of a row is `ResolvePluNumber` of its product's
code and its position, and no package is longer than the catalogue (`ReadsFit`). So a
slot beyond the catalogue's size is only written under a product's own code, whichever
packages are cut, lost or sent again. Classes lead the body (`ClassesLead`), so a prefix
of it that has the row of a product has the row of its class, and `ClassesKnown` gives
that class a place. Assumed: finitely many products and formats; class numbers are
naturals, and the template's class 9 is none of them.

`StaleHasACause` speaks of every save, every job and the scale at once, and is not
inductive: `CauseInv` adds that jobs have numbers of their own (`JobsNumbered`), that
what is active is there and was saved (`RowsSaved`), that a job reads each row once at a
version there is or was (`ReadsOnce`), and that the maker's models stay in their slots
(`FactoryKept`). The argument follows a row that is out of date: its request becomes a job
that covers it; both reads of the job find the present version (`ReadingBrings`,
`OpeningBrings`); a failed attempt waits again or is a reason (`FailKeeps`); a whole
package that is written leaves the scale showing what the job brought (`WriteShows`); and rows
that land over newer ones, late or out of turn, are a reason (`LandingsKeepCause`).
`WriteShows` needs what `buildSyncBody` does in full: its rows are those of its six
blocks (`BodyIsItsBlocks`), the last row of a number stays (`WholeWritten`), a slot of a
product's own gets that product's row (`PriceLands`), and of a format in several
products and on its own the first use counts (`LabListed`, `LayoutLands`). A format in a
factory slot stays excused (`FactoryStays`). `RowsAssumption` says what this takes for
granted: the number of a format is unique in its store (`schema.prisma:440`,
`@@unique([lojaId, numero])`), products are no formats, no record is the absent value, and a
format in a factory slot does not have the name of the model there, for
`verificarFormatosGravados` compares names only (`scale-client.ts:864`).

`LabelsPrintWhole` is inductive beside `Invariant` and `ReadsOnce`: whatever part of a
package a scale took (`CutWritten`), the rows of its labels and bitmaps are the ones some
job's payload gives (`PrintedRows`), and a payload comes from a version that was read. What
is left is about the encoder. A text has the slot of its rank among the elements that want
one, so the box of a slot is the box of its element (`LabelPlaced`), and the bitmap of the
seals has the size of theirs (`BitmapsListed`, `SealsSent`). A strip lies inside its
bitmap (`StripDrawn`, from `StripStaysInside`), each line of a label inside its module:
the packing of words word by word gives lines that fit or are one word, and no more lines
than words (`LinesPacked`), which for an official label is two at most (`WholeLabel`); the
width a scale asks for is that of its widest line (`WidestLine`). `OrdenarSelos` keeps the
official labels first, once each, and loses none (`SealsOrdered`). `WordsAssumption` is
what the three labels of the norm are (`selos-anvisa.ts:66-70`: one or two words, none
over ten letters); a label the user made up may have any words, and the theorem does not
speak of its lines. `LayoutAssumption` says that layouts are lists of elements whose boxes
have a size, and that the words of a table's seals are known.

`SuccessIsOnTheScale` and `FreshSeals` are action properties. Between the write that a
success rests on and the step that records it any other job may write, a scale may go on with
an attempt given up, and readings of both kinds of slots interleave; what survives all that
is `WroteItsRows`, inductive beside `IInv` and `CauseInv`: each label and bitmap of a job that
has written is where the job put it or is among what others wrote since (`over`); a label
slot once written is never empty; and for a factory slot the job will learn, or has learnt,
that the maker's model is there. A job comes to read back only by its own write
(`StillReading`), which leaves its rows there (`WritingHolds`); whatever else reaches the scale
is part of one package (`WriteArrives`, `LostArrives`, `LateArrives`), and leaves what it does
not touch (`ArrivingKeeps`); a reading of a factory slot finds another name
(`FactoryDiverges`, `ReadingHolds`). A success is recorded only when all was read and nothing
diverged (`Succeeding`). The rest is what `buildSyncBody` puts in a package: one row for
each number of a format (`LabelsApart`), one bitmap for each id (`BitmapsOfProducts`), so that
each row of these has a place of its own (`RowPlaces`). For the seals, ids
are places in the order of the tables' numbers: while there are no more tables than bitmaps
every table has one, and of its own (`Places`, `BitmapsShared`), so the bitmap a label
refers to is that of the one product that uses it (`FormatsBitmap`), drawn for the box of the
first product of that table (`SealBox`, `BitmapFound`, `LabelFound`).
`TablesAssumption` says that a product's table is there and that the number of a table is
whole and unique in its store (`schema.prisma:361, 372`).

Out of reach of the prover, and left to TLC: liveness under fairness (`JobSettles`,
`RowSettles`, `HeartbeatRestoresOnline`, `CommandAnswered`, `DriftRepaired`). The library's induction theorems take an operator, which the provers
cannot instantiate; what the proofs need of the one recursive definition,
`QuebrarEmLinhas`, is proved by induction on the set of positions where it holds
(`Inducted`), and what it computes beyond that is not stated.

## 5. What is not modelled

- `frontend/lib/layouts-padrao.ts` (6,400 lines of data: the coordinates of the
  standard labels) and the list and form pages, which keep no state beyond a form: no
  behaviour is at stake, and they are two thirds of the lines of the repository. That
  is why the mapped share of lines is small although every component with a protocol is modelled.
- The strokes of fonts and the pictures of glyphs; the wording of texts.
- The administration of users, profiles and companies beyond what `Access` writes.
  Throttling. The Veltrix client.
- In `Access`: the change of a user's profile; what a scope resolved from half an update
  lets in (`Browser`'s account may enter every store).
- Several backend processes: `docker/docker-compose.yml` runs one.
- The installer, hardware probes and scripts. `scale-connection.ts` is unused.
- In `Browser`: duplicated tabs, the first store of an account that has none, the moment between the
  cookie of a reply and `setLastSessionId`, `switchCompany`, the countdown of
  inactivity, `devices/page.tsx:270`, which creates an agent for the store of `localStorage`.
- In `Catalog`: the deletion of a format, a change of a product's code or links,
  more than one scale, imports; rows a scale discards without a word outside factory slots,
  and so any promise about rows that are never read back; a reading that returns stale data;
  a row `IN_PROGRESS` left by a lost answer of the database, which is `SyncWorker`'s.
- Left out because no property can tell: in `Sessions` the end of an entry of
  `session:revoked`, which comes with that of its token (`session-revocation.service.ts:80-83`); in
  `Access` the deletion of the profile, or of a store, between the two queries of an update,
  which makes the second one fail as `Stop` does.
- In `Billing`: the provider's own dunning; `Happen` covers its outcomes.

## 6. Plan

Done: 1. `SyncWorker` with `SyncPromise`; 2. `AgentGateway`; 3. `SyncSystem`;
4. `LocalAgent`; 5. `DeviceRegistry`; 6. `Sessions`; 7. `SealStrip`, `ScaleEncoding`
and `Catalog`; 8. `Billing`; 9. `Browser`; 10. `Access`; 11. the proofs of 1 to 10: a theorem
states every safety invariant and every action property of the passing runs, and every
hazard has a property.

Left:

12. Runs for the failing properties that have none, as their sources are repaired: the
    property then joins the run of its module, and what says "no other way" becomes idle.
13. Several backend processes, should the deployment have them: the gateway's maps are then
    one per process, and `AgentGateway` must be instantiated for each.
