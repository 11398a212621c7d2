# dncash.io in TLA+

dncash.io issues *cash tokens*: a bank creates a token for a customer's phone, a
cash device claims it, pays out (or takes in) money and confirms the result,
and both sides settle later.  This directory holds TLA+ modules for the parts
of the server where orders of events matter, TLC configurations that check
them on small instances, and TLAPS proofs for every value of the constants.

## 1. Inventory of the system

The server is a set of identical Node.js processes behind a load balancer.
They share a MySQL database and, when clustered, Redis; MQTT is optional.  Each
process runs one event loop: code between two `await`s (or `.then`s) is atomic
within the process, and nothing is atomic across processes except one SQL
statement, one transaction, or one Redis command.

| component | source | state | operations | what makes it correct |
|---|---|---|---|---|
| token lifecycle | `business/token.ts` | tables `token`, `journal` | create (with retries), delete, update, claim (`verifyAndLock`), confirm, partial cashout, expiry | one claimant per token, one outcome, decided by the claimant; amounts add up over partial cashouts; codes lead to live tokens only; what is notified and journalized is what the table holds |
| clearing | `business/clearing.ts` | table `clearing` | `addClearing`, reports | a row for each COMPLETED cash token, once, with the right parties |
| transactions, pool | `util/db.ts` | connection pool, row locks | `querySingle`, `withTransaction` | connections come back; no request waits for ever |
| trigger codes | `business/trigger.ts`, `util/redis.ts`, `util/mqtt.ts` | `triggerMap` per process, Redis keys with expiry | create, register, notify, deliver | whoever waits with a code gets one token, locked for the device the code was made for |
| change notifier | `util/notifier.ts`, websocket routes | `observers` per process, Redis subscriptions | add, remove, notify | who is connected hears every change; nobody else is kept |
| jobs | `util/jobs.ts`, `util/scheduler.ts`, start-up in `app.ts` | Redis key per job, a timer per process | daily clean-up of `journal`, `clearing`, `token` | once per cluster and day; what is older than the retention goes unless a settlement needs it |
| accounts | `business/account.ts` | table `customer_account` | create, update, delete, repair of the default | one default account per customer, the one that was chosen |
| login | `business/login.ts`, `util/jwtauth.ts`, `routes/admin.v1.auth.ts` | table `customer`, `badLogins` per process | register, login, change of password, second factor, delete | the second factor is a secret that was verified; a JWT names the row the request was about |
| parameters | `business/param.ts` | table `customer_param` | read, write, remove | one value per key |
| xcard | `business/xcard.ts` | authorizations in the memory of a process | create, delete, list | - (not modelled, section 5) |
| devices, API keys | `business/device.ts`, `business/access.ts`, `util/apiauth.ts` | tables `customer_device`, `customer_access` | register, create, delete, admission by key | a request that reaches its route is answered |
| reports | `business/clearing.ts`, `journal.ts`, the queries of `token.ts` | none | lists, sums, statistics, journal | reports agree with each other and with the table; a settlement reads the same for ever, but for the names of its devices; the journal lacks only inserts that are late or failed |
| routes | `app.ts`, `routes/` | none | dispatch, answers, errors | (with devices, API keys) |
| configuration, logging, swagger, codes | `config.ts`, `util/logging.ts`, `util/swagger.ts`, `util/utils.ts` | none | - | - |

The components meet in the token lifecycle: a trigger ends in a claim, a claim
and a confirmation end in notifications, a journal entry and a clearing row, and
the clean-up job deletes what they wrote.  The pool is below all of them; accounts and
devices are what clearing rows and tokens name, and settlements show the names the
devices have today.

What is hard to test: two requests on one token from two processes; what a
request read before an `await` and uses after it; a process that dies between
the commit and what should follow it; notifications and journal entries that run
ahead of a commit, and inserts nobody waits for; the retry loop of `createToken`; Redis copies of per-process
state that expire at other times than the originals; websockets that close while
they are being registered; repairs that interleave; rows that are deleted between a
look-up and the insert that names them; transactions that hold a connection while
others queue for one.  `PROJECT.json` lists each hazard at its line.

## 2. Modules

| module | models |
|---|---|
| `Token` | `token.ts`, `clearing.ts: addClearing` and what they need of `db.ts`: state, one action per SQL statement, specification |
| `TokenSafety` | the invariants, action properties and the liveness property of `Token`, the mapping to `TokenLifecycle`, and three statements of the documentation that the code does not keep |
| `TokenLifecycle` | what the API promises of a token, as an abstract specification |
| `TokenInvariant` | the inductive invariants of `Token`: `IInv` and four that strengthen it |
| `TokenProofs` | the invariance of `IInv`, and that `Token` implements `TokenLifecycle` |
| `Reports` | `journal.ts`, the reports of `clearing.ts` and `token.ts`, the names of `device.ts`: `Token` with the journal table and the names of devices added to its state, the reports as operators over it, and the properties that relate them |
| `TokenOutcomeProofs` | what requests tell, settle, journalize, pay, claim and report, as theorems of `Token` and `Reports`; a small theory of sums over finite sets |
| `Trigger` | `trigger.ts`, the commands of `redis.ts` and the cash and mobile routes that call them; claims and confirmations through `TokenLifecycle` |
| `TriggerSafety` | its invariants and action properties, and the statement on expiry that the code does not keep |
| `TriggerProofs` | its inductive invariants, and every property that holds, as a theorem |
| `Notifier` | `notifier.ts` and the three websocket routes |
| `NotifierSafety` | its invariants and its liveness property |
| `NotifierProofs` | its inductive invariant, and every invariant of it as a theorem |
| `DbPool` | `db.ts`: the connection pool of one process, single statements, transactions, a row lock, the journal entry of a remainder |
| `Retention` | `jobs.ts`, `scheduler.ts`, the start-up in `app.ts`: who runs the daily clean-up and what it leaves |
| `Account` | `account.ts`: the accounts of a customer and the repair of the default |
| `Login` | `login.ts`, `param.ts`: one address, its row, its second factor, its sessions |
| `Api` | `apiauth.ts`, `access.ts`, `device.ts`, the routes: admission, answers, foreign keys |
| `Service` | these five parts as one specification, with the assumptions on their constants: `Init` picks the part a behaviour is about (`part`), the others stay in an initial state, because they share no state |
| `DbPoolProofs`, `RetentionProofs`, `LoginProofs` | theorems about these parts |
| `ServiceProofs` | the properties of the parts as theorems of `Service`, those of `Account` with their proofs |
| `MCToken`, `MCReports`, `MCTrigger`, `MCNotifier`, `MCService` | model values for TLC |

### Token: how state and actions correspond to the code

`token` and `clearing` are the committed tables; `req[r]` is what one request
remembers between two `await`s (its `pc` is the statement it waits for).  An
action is a statement *and* the synchronous code up to the next `await`, error
paths included:

| action | code |
|---|---|
| `CreateStart`, `CreateInsert`, `CreateReread`, `CreateFails` | the retry loop of `createToken`: device and parameter reads, insert with a fresh plain code (a collision on the unique index is a failed attempt), re-read with notification and journal, an insert or a re-read that fails and leads to the next attempt |
| `Delete`, `Update` | the conditional update of `deleteByDeviceAndUUID`; `updateByUUID` |
| `ClaimExpire`, `ClaimFind`, `ClaimLock` | `verifyAndLockImpl`: `cleanUpExpired`, look-up by uuid or plain code and verification (one verdict: LOCKED or REJECTED), the conditional update of `atomicLockTokenDB` |
| `ConfirmRead`, `ConfirmUpdate`, `ConfirmRemainder`, `ConfirmCommit` | `confirmByLockDeviceAndUUID`: the read and the checks outside the transaction, `confirmLockedToken`, `createTokenPartialCashout`, commit |
| `Notify`, `Reread`, `AddClearing` | the shared tail: observers, re-read and journal, `clearToken` |
| `Abort` | the process dies or the pending statement fails; an open transaction rolls back |
| `Tick` | the database clock |

Abstractions.  A radio code is the uuid or the plain code it starts with plus
one bit, whether secret and signature verify; RSA and JSON are left out, except
that a row remembers whether `info` still decodes to what was sent, because the
retry loop encodes it again.  Device and parameter reads have no effect and
return constants, so they are merged with the next statement.  Inside the
transaction the effect stays in `req[r]` until `ConfirmCommit`; other statements
on the row wait (`RowLocked`), as InnoDB's row locks make them.  An observer is
a client that re-reads the token when it is told (`seen`), because a notification
carries only the uuid.  `issued` and `orphaned` are history variables: the
amount at insertion, and tokens whose request died between its effect and its
report.  `sent` holds the inserts into `journal` that requests have sent; nobody waits
for them (`journal.ts:3-10`), so what becomes of them is no step of a request.

### Reports: how state and actions correspond to the code

`Reports` has two variables besides those of `Token`: `journal`, the rows of that
table, and `refname`, the names of the devices.  Its next step is a step of `Token`, or

| action | code |
|---|---|
| `JournalInsert` | the insert of `journalize` on a connection of its own: any time after it was sent, in any order, or never, because its error is caught by nobody |
| `EditDevice` | `updateDeviceByCustomerAndId`, at any time |

The reports are operators over this state, each one `select`; intervals and limits only
leave lines out and are not kept.  `ClearingLine` shows the devices by their present
names, as `clearing.ts:26` does.

### Trigger: how state and actions correspond to the code

`known[p]` is `triggerMap` of process `p`, `redis` the keys with the time they
expire, `inbox[p]` what was published on the channel `trigger` and not yet
handled by `p`, `stage` and `holder` the tokens as `TokenLifecycle` has them.
Each request is made once; a code that is drawn is named by the request that
draws it, a fixed code by its device.

| action | code |
|---|---|
| `CreateStart`, `CreateStore`, `RedisSet` | `createTrigger`: `cleanUp` before the reads of parameter and device, the local entry, `redis.setValue`, after which the code is returned |
| `RegisterStart`, `RedisGet`, `RegisterGot` | `registerTrigger`, for whoever asks with a code that was returned: `cleanUp`, the local entry or the copy in Redis, which is put in the map and gets the response |
| `NotifyStart`, `RedisGet`, `NotifyGot` | `notifyTrigger` up to the claim: the same look-up, without `cleanUp` |
| `Claim` | `verifyAndLockByTrigger` up to its locking update: locked, rejected or expired by an action of `TokenLifecycle` (that `Token` implements these is proved in `TokenProofs`), or nothing changed and an error |
| `RereadFails` | the token is locked, and the read that should follow fails: nothing is sent |
| `Send`, `RedisDel`, `Deliver` | `sendToken`, the deletion nobody waits for, the subscription with `localSendToken` |
| `Confirm` | `confirmByLockDeviceAndUUID` of a device that was sent a token, an action of `TokenLifecycle` |

`Send` publishes at once; a publication that takes long is a message that stays
long in `inbox`.  Without Redis there is one process and `Send` answers the
waiting request itself.  A device displays its code when it has opened its GET
request (`early`) or when the server has registered it (`~early`): the code does
not tell a device when it is registered, so both happen.  Crashes of a process
and lost publications are left out: the map and the open connections are gone
with the process, and nothing in the code makes up for them.

### Notifier: how state and actions correspond to the code

`observers[p]` is the field of that name of process `p`'s `RedisNotifier`,
`commands[p]` what its subscriber connection has sent and Redis not yet executed,
`subscribed[p]` the channels Redis has for it; `outbox[p]` holds changes between
their commit and their publication, `inbox[p]` messages not yet handled.  The
payload says nothing that a client could use without reading again, so a change
is a new `version` of a scope, and `view[w]` is the version the client of
websocket `w` has read.

| action | code |
|---|---|
| `ConnectApi`, `Accept`, `Refuse` | the token and clearing routes: look-up of the key, `addObserver`, `ws.close` |
| `ConnectAdmin` | `registerWebSocket`, which adds the observer at once |
| `HangUp` | the client closes; `onclose` removes the observer if it is set by then |
| `Change`, `Publish`, `NotifyLocally` | a commit and the `notifyObservers` after it |
| `Execute`, `Handle` | Redis executes a subscription; `localNotifyObservers`, where a closed websocket throws (ws 5.2.0, package-lock.json) and is removed |

### DbPool, Retention, Account, Login, Api

An action is one statement, Redis command or callback with the synchronous code
after it, as in `Token`.  `Fail` and its like in each module are the statement
that fails and the process that dies: what was written stays.

| module | state | actions and their code |
|---|---|---|
| `DbPool` | `at[t]`: the callback or statement task `t` waits for; `holds`, `free`, `queue`: the pool; `open`, `rowLock`: what MySQL knows of a connection | `Start`, `Connected`, `ConnectFails`: `getConnection`; `Query`, `TimesOut`: `querySingle`; `Begin`, `Update`, `Insert`, `Find`, `Commit`: `withTransaction` around a partial cashout, `Find` with the journal entry that asks for a connection of its own; `Fails`, `Rollback` |
| `Retention` | `phase`: start-up; `job`: where the clean-up of a process is; `timer`: the key in Redis; `row`, `entries`: days of creation in the three tables; `today` | `Start`, `RedisReady`, `MQTTReady`: `app.ts`; `Fire`, `GetSet`, `Decide`, `ErrorReply`, `ErrorEvent`: `scheduler.ts`; `CleanJournal`, `CleanClearing`, `CleanToken`, `CleanFails`: `jobs.ts`; `Create`, `Confirm`, `Settle`: what requests write; `Crash`, `NextDay`.  `ErrorEvent` may come before Redis is ready or while GETSET is under way: the handler stays registered |
| `Account` | `account[i]`: the column `default` of row `i`, or that the customer has no such row; `change[r]`: what request `r` is to do next | `Create`, `Delete`, `Update`; `Insert`, `Remove`, `Clear`, `Write`; `Count`, `UnsetAll`, `List`: `assertDefaultAccount`, which goes through `updateAccount` again.  A body with another `customer_id` moves the account to that customer (`"away"`) |
| `Login` | `customer`: the row of the address; `twofaTemp`; `session[r]`: the row the JWT that `r` got names; `badLogins` | `FindFree`, `InsertUser`, `Reread`: `register`, `registerOther`; `CheckOld`, `UpdatePassword`: `changePassword`; `LogIn`, `AnswerLate`: `login`; `Select`, `WriteParam`: `initialize2FA` with `writeParam`; `Verify`, `StoreSecret`, `RemoveParam`, `RereadById`: `enable2FA`; `FindUser`, `Disable`: `disable2FA`, `reset2FAForUser`; `DeleteUser` |
| `Api` | `customer`, `keys`, `devices`, `tokens`: which rows are there; `call[r]` | `Arrive`, `VerifyAccess`, `VerifyCustomer`, `MiddlewareFails`: `apiauth.ts`; `FindFree`, `Insert`, `Reread`: `registerDevice`, `createApiKey`; `FindDevice`, `InsertToken`: `createToken`; `CheckPassword`; `DropKey`, `DropDevice`, `DropCustomer`; `OneStatement`: reports and updates; `Wait`, `Push`: the route that waits for a token and the phone that sends one, if any; `HandlerFails`: the `catch` of each route |

Abstractions.  `DbPool` keeps one row that transactions and writing statements
compete for; the journal entry is a task of its own, started by `Find`.
`Retention` keeps of a row only the day of `created`, of a day only that timers
fire, Redis answers and the clean-up ends within it.  A secret, a password and a
row of `Login` are named by the request that makes them, and a token is right or
wrong for a secret; a JWT goes on naming its row.  In `Api`, "report" and
"editDevice" stand for all routes of one statement.  `Account` assumes that no
other customer moves an account to this one.

## 3. Runs

The runs of `MCToken` use two customers (bank, shop), three devices, two concurrent requests;
`MCReports` two devices with two names.
Bounds are named in the configurations: `TokenId` (tokens per behaviour),
`Request` (requests at a time), `Amount`, `MaxNow` (ticks), `Retries`.

| run | instance | shows |
|---|---|---|
| `claim` | 2 tokens, 2 cash devices of different customers, one plain code, two expiry times, one tick, CASHOUT and CASHIN, crashes | one winner (`OneWinner`); answers, clearing rows and table agree (`ReportsTheTruth`, `ClearingMatchesToken`, `UnsettledOnlyInFlight`); codes and secrets live as long as the token (`CodesOfLiveTokensOnly`); nobody confirms for somebody else (`HolderConfirms`); an expired token is not claimed (`NoExpiredClaim`) |
| `partial` | 3 tokens, amounts 1 and 2, partial cashouts on, two outcomes, owner updates, crashes | the inductive invariant (`IInv`, with the types); amounts add up and no remainder is lost (`RemainderAddsUp`); refinement of `TokenLifecycle` (`LifecycleSpec`) |
| `reports` | 2 tokens, both customers observed, partial cashouts, crashes, two journal inserts late or lost at a time or one dead request (`FewLosses`), edited device names | the owner's view and the journal follow the table up to the exceptions named in the properties (`OwnerUpToDate`, `JournalComplete`); settlement sums and statistics agree (`ReportsAgree`); a settlement changes in nothing but the names of its devices (`SettlementFixed`) |
| `live` | 2 tokens, 2 attempts of `createToken`, no failures, weak fairness | every COMPLETED token is settled |
| `doc_remainder_type` | CASHIN, partial cashouts | **violated**: a CASHIN of less than announced leaves an OPEN CASHIN token |
| `doc_unsettled` | crashes | **violated**: a process that dies after the commit leaves a COMPLETED token unsettled for good |
| `doc_info_encoding` | 2 attempts | **violated**: a second attempt stores `info` encoded twice |
| `push` | two devices, one with a fixed code; two created triggers, one waiting request, two phones, two tokens; two processes with Redis or one without; expiry before, at and after each step | whoever waits with a code gets one token, which is locked for the device the code was made for until it confirms it, unless the code expires or the re-read of the token fails; an open code is found on every process; without Redis a spent code is refused |
| `notify` | two processes, three websockets on one scope, two of them through a look-up, two changes, with Redis and without | subscriptions follow the observers; an open websocket stays an observer and misses no change; one closed unseen goes with the next change |
| `doc_trigger_expiry` | one process, one phone | **violated**: an expired code claims a token |
| `service` | the five parts of `Service`: 2 connections and 3 requests; 2 processes, one token, retention of one day, 3 days; 2 accounts and 2 changes; 3 requests of one address; 2 calls | no connection lost or handed on with a transaction, every task ends; the job runs once a day unless its process dies or is cut off from Redis, a clean-up that reports success has removed what is old, no settlement loses its token; one default account, the chosen one, and a repair that ends; the second factor is a verified one, sessions name the right row; every routed request answered but one that waits for a token |
| `doc_history` | the same | **violated**: a token that was settled within the retention stops the deletion of all old tokens |

Two requests are enough for each hazard listed for `token.ts`: they are races of
two requests on one token, and a third request adds waiting but no new
combination of read and write; the proofs below cover any number.  Two tokens
give code reuse and collisions; three give a token two candidates for its
remainder.  One tick separates before and after expiry.  In `reports`, two inserts that
are late at once are what it takes for two entries to arrive in the wrong order, and a
dead request and late inserts are separate ways to leave the journal incomplete, so
`FewLosses` lets a behaviour have either; the theorems have no such bound.

Two phones are what `AnsweredOnce` and the reuse of a code need, two creations
what a fixed code that is created again needs, two processes what a copy needs.
The clock has three values: before, at and after the expiry of the first code.

Three websockets on two processes put two on one process, so that one leaves
while another stays or comes, and one elsewhere; scopes do not share state, so
one is enough, and two changes are one before and one after each step.

The pool: three requests on two connections fill the queue, and let two
transactions compete for the row while a third request and the journal entries
wait; more connections only empty the queue.  The clean-up: a retention of one
day and three days are the fewest in which a row becomes old, and is settled one
day later than it was created; two processes are what single execution is about.
Two accounts and two changes are a repair that another change disturbs.  Three
requests on one address let two of them draw or remove a secret while the third
confirms one.  Two calls are an insert and the deletion of what it has looked up.

Fairness.  `live`: weak fairness of `Continue(r)`, the next step of a
request that has started.  The event loop does not abandon a resolved promise,
and InnoDB grants a row lock when its holder ends; starting requests is not
fair.  The run excludes crashes, because nothing in the code finishes the work
of a process that died (`doc_unsettled`).  `notify`: weak fairness of the steps
that Redis and the event loops take on what is queued (`Execute`, `Publish`,
`NotifyLocally`, `Handle`); clients, look-ups and changes are not fair, and a lost
connection to Redis is left out.  `service`: weak fairness of `Proceed(t)` for
the tasks of the pool and of `Continue(r)` for the changes of accounts and the
calls: a statement that was sent returns, callbacks are run, and InnoDB grants a
row lock when its holder ends.  Failures, arrivals and the days are not fair.
`CHECK_DEADLOCK FALSE` stands where every request is made once, so that the
behaviour ends when all are done.

Seen while modelling, without a run of their own: a LOCKED token keeps its plain
code although the comment at `db/scripts/create.sql:95` says the column is NULL
then; `cleanUpExpired` notifies nobody although HOWTO.md:125 says every change is
notified; the remainder is notified and journalized before it is committed
(`token.ts:219-221`), so an owner that re-reads at once finds nothing, and a
rollback leaves a journal entry without a token.

In `Reports`: `journalize` is neither awaited nor caught (`journal.ts:3-10`,
`token.ts:431-438`), so a row may come after a later one, after the answer, or not at
all, and the failure is an unhandled rejection.  A settlement shows the devices by the
names they have today (`clearing.ts:26`, `device.ts:53-69`).

In `Notifier`: a change that is published after the websocket is open and before
Redis has subscribed the process is not notified, and the client cannot tell
when that is over, so a list it reads in between may stay old until the next
change.

In `Trigger`: `registerTrigger` (`trigger.ts:78-87`) reads neither the customer it is
given nor a device, so a request of any cash device with a code that was returned takes the place
of the one that waits.  `cashapi.v1.ts:261-263` says that the token is already locked for
"this device"; it is locked for the device that created the code, which is what
`RightDevice` says.  `Pushed` fails for early phones.  A token that arrives before its
registration is locked for the device and told to nobody, and if phone and device
both fetch the code from Redis on one process, the phone's answer replaces the
entry the device has just registered (`trigger.ts:105`).  With Redis a phone that
read the code before it was deleted leaves a copy behind, and the spent code
works again on that process; with fixed codes the late deletion may remove the
key of the next trigger.

In `Retention`: the clean-up asks for the age of a row and not for its state, so an
old token goes while it is OPEN, LOCKED or not yet settled.  When GETSET reports an
error, every process that sees one runs the job; a process that dies between
GETSET and the task loses the day for all.  So does an error event of the connection
after `ready` while the answer is under way: the handler is still registered
(`scheduler.ts:33-46`), the process leaves the job to others, and they find its key.

In `Account`: two repairs at once may undo each other for ever
(`account.ts:47-64`, hence the exception in `RepairEnds`); a repair writes the row
back as it was read, and a process that dies after the first update leaves no
default until the next change.  An update may name another `customer_id`
(`account.ts:44`): the account moves, and nobody looks at the defaults of the customer
it moves to.

In `DbPool`: an error of ROLLBACK is ignored (`db.ts:102-106`) and the connection released;
`Rollback` assumes that it fails only with its connection, which the pool then drops.

In `Login`: `changePassword` updates and reads again by address, so that a request
whose row was deleted and registered anew meanwhile changes and gets a JWT of
the new row; a JWT stays good after its row is deleted; the delay of the 23rd
failed login exceeds what `setTimeout` can hold, and the answer comes at once
(`login.ts:135`).

In `Api`: a failing statement in `apiauth.ts:8` or `:28` is not caught, and the
request is never answered.  `GET /trigger/:triggercode` (`cashapi.v1.ts:295-299`) is
answered when a token comes and not otherwise: not when the code expires or is cleaned
up, nor when another response takes its place.  `writeParam` reads before it writes (`param.ts:11`), so
of two at once one may fail or be lost.  An update of a token or a device with no
field that may be changed is an SQL syntax error.  `config.ts:66` reads
`MQTT_EMBEDDED_PORT` where README.md:140 documents `MQTT_EMBEDDED_PORT_HTTP`.

## 4. Proofs

### Token

Proved with TLAPS from `ConstantsAssumption`, for any number of tokens,
requests, customers, devices, codes and retries (`StatisticsAreRight` also
needs `ReportsAssumption`: the ids of tokens are uuids, of which there are finitely many,
so that a sum over rows is a sum):

- `Invariance`: `Spec => []IInv`;
- `TypeCorrect`: `Spec => []TypeOK`;
- `ReadIsCurrent`: `Spec => []ReadStillCurrent`;
- `OnlyHolderConfirms`: `Spec => HolderConfirms`;
- `ImplementsLifecycle`: `Spec => LifecycleSpec`, the refinement.

The argument.  The check in `confirmByLockDeviceAndUUID` reads the token before
the transaction, and the update tests `state='LOCKED'` only.  That this is
enough rests on three facts that no single statement establishes: a token that
has left OPEN never returns to it; `lock_device_id` never changes after that;
and while a token is LOCKED only `clearstate` and `info` are written.  `IInv`
says them of every request in flight (`Confirmation`), together with what the
request needs to be well placed (`Placed`) and with the freshness of identifiers
that are drawn and not yet inserted (`DrawnOnce`).  None of the parts is
inductive alone: `Confirmation` needs `DrawnOnce` so that a commit of a
remainder does not overwrite the row of another request, and `DrawnOnce` needs
`Confirmation` so that a child is committed once.

The lemmas follow this order: types of the records the actions build; what a
step does to a row (`RowSteps`) and that LOCKED rows stay (`LockedStays`); what a
step leaves true of the requests that do not take it (`StepAside` and the lemmas
before it); one lemma per group of actions; `Inductive`.  The lemmas on refinement map
each action that writes a table to one action of `TokenLifecycle`.

`TokenOutcomeProofs` strengthens `IInv` in four steps:

| theorem | statement | invariant it rests on |
|---|---|---|
| `TruthReported`, `WinsOnce` | `Spec => []ReportsTheTruth`, `Spec => []OneWinner` | `RInv`: what a request will say it did is what it is about to do (`Deed`), and after its update the token is in the state it gave it, or went on from LOCKED (`Told`) |
| `CodesLive` | `Spec => []CodesOfLiveTokensOnly` | `RInv`: a row has its secret while it is OPEN or LOCKED, and the plain code in the hands of a commit is still the one of its origin, which loses it in the same step (`Codes`) |
| `ClearingIsRight`, `SettledOrInFlight`, `SettlementsStay` | `Spec => []ClearingMatchesToken`, `Spec => []UnsettledOnlyInFlight`, `ReportsSpec => SettlementFixed` | `RInv`; an edit of a name changes both sides of `ClearingLine` alike, and nothing else writes what a line shows |
| `AddsUp` | if `Partial = {TRUE}`, `Spec => []RemainderAddsUp` | `AInv`: a token is worth what it was issued with until it is confirmed (`AmountOfRow`), and a confirmation that pays less has a remainder in hand (`AmountOfRequest`) |
| `OwnersFollow`, `JournalTrue` | `Spec => []OwnerUpToDate`, `ReportsSpec => []JournalComplete` | `JInv`: the devices a request tells are the sides of its token (`Reason`, `Unheld`), an entry that was sent agrees with the table or announces a remainder that was not committed (`EntryAgrees`), and what happened was sent or is about to be (`Announced`); the journal holds nothing that was not sent (`JournalSent`) |
| `ClaimsAreFresh` | `Spec => NoExpiredClaim` | `EInv`: since the clean-up of a claim every OPEN token, and every remainder about to be committed, is unexpired as of then or younger (`CleanedUp`) |
| `StatisticsAreRight` | `ReportsSpec => []ReportsAgree` | `RInv` for the rows, the lemmas on sums for the totals |

A behaviour of `Reports` is one of `Token` (`TokensBelow`), so the invariants carry over.
The properties are not inductive.  `OneWinner` needs `Told`: that two requests have
not both rejected a token follows from neither having left a state the other could
start from.  `JournalComplete` needs the entries that run ahead of a commit in
`EntryAgrees`, with the device of the row that is to be committed, since only the
commit decides whether the table comes to agree with them.  `RemainderAddsUp` is
false without `Partial = {TRUE}`: with the option off, an amount below the token's
is paid and no remainder is inserted.

`ReportsAgree` compares a sum of sums, one per partner and direction, with one sum
over tokens.  When nothing is under way, `RInv` says that a clearing row and a
COMPLETED token with an owner and a lock are the same thing (`LinesOfType`); that both
ways of adding come to the same then needs what a fold over a set computes:
that the order does not matter (`SumRemoves`), that a sum may be taken over other names
(`SumImage`) and group by group (`SumOfGroups`).  These are proved by induction over the
subsets of a finite set.  The induction theorems of the library take an operator
as a parameter; `SubsetInduction` and `AddInduction` say the same of a set of
subsets and are derived from the well-foundedness of the size (`WFMin`).

### Trigger

Proved from `TriggerAssumption` alone (the kinds of requests, codes and the names
for "none" are distinct, the validity is a number of ticks, devices confirm with one of
the five states of `token.ts:170`), for any number of
processes, requests, devices and tokens, with Redis and without:

| theorem | statement | invariant it rests on |
|---|---|---|
| `TypeCorrect` | `Spec => []TypeOK` | `Base`: types (`Typed`), the course of each kind of request (`Course`, `Creates`), without Redis one process and none of the steps of Redis (`Mode`), every entry comes from a creation of its code (`Origin`), only returned codes are used (`Uses`) |
| `AnswersTheRightDevice`, `AnswersOnce` | `Spec => []RightDevice`, `Spec => []AnsweredOnce` | `AnswerInv`: what is sent or published was locked for the device the code was made for (`Sent`), and the request an entry names waits on this process for this code and was not answered (`Waits`) |
| `SpentCodesRefused` | `Spec => SpentCodeRefused` | `SpentInv`: without Redis, a drawn code is gone from the map once it was answered |
| `OpenCodesFound` | `Spec => OpenCodeFound` | `OpenInv`: Redis, or the one map, has an open code, and its key does not go before the code expires (`Findable`); who was told "none" asked for a code that is not open |
| `TokensArePushed` | `Spec => []Pushed` | `PushInv`: who waits is in the map of its process (`Remembered`), a phone has scanned what somebody waits for (`Scanned`), so no phone fetches a second copy to the process where the device waits (`Knows`), and a token that was published is answered or in the inbox of that process (`Reaches`) |

`RightDevice` speaks of a process that claims and another that answers, of a device
that confirms while the same token is still on its way to other processes, and of
a map that may have been overwritten in between; it holds because a code is bound to
one device (`DeviceOfCode`), so that it does not matter which entry was used, and
because a token in use stays with its device (`InUseStays`).
`AnsweredOnce` rests on the deletion in `localSendToken` only through `Waits`: an
entry that is fetched again from Redis names nobody.  `Pushed` needs `Knows`: a
phone that asked Redis before the device was registered would overwrite the entry
that names it, which is why the property excludes early phones.

### Notifier

Proved from `NotifierAssumption` alone (some process runs, the websockets of the API
are websockets, the names for "none" are no process and no scope), for any number of
processes, scopes, websockets and changes, with Redis and without:

| theorem | statement | rests on |
|---|---|---|
| `TypeCorrect` | `Spec => []TypeOK` | `Basis`: the types (`Typed`); only processes that run take part, and without Redis there is one of them and no subscription is ever sent (`Hosted`) |
| `SubscriptionsAreRight` | `Spec => []SubscriptionsFollow` | `Will`: the last command about a channel that is still to be executed decides, or else what Redis has; a command that is sent is the last (`WillAppend`), one that is executed changes nothing (`WillTail`) |
| `ObserversAreRight` | `Spec => []OpenIsObserved` | what each kind of step does to the observers of one scope (`Turn`) |
| `ChangesReachObservers` | `Spec => []NothingMissed` | `Owing`: while an observer is owed a version it has not read, its process is subscribed to the channel and no command about it is under way (`Ready`) |

The four invariants form one inductive invariant, `NotifierInv`.  `NothingMissed` alone is
not inductive: a change that is published reaches only processes that are subscribed
at that moment, so a message that is promised to an observer needs `Ready`, and
`Ready` stays true while there is an observer only because a process sends a command
when the first one comes and the last one goes (`TurnKeepsReady`).  `SubscriptionsFollow`
needs that a command which is sent is the last about its channel, whatever is queued
before it.  The steps fall into seven kinds (somebody joins, leaves or waits, Redis
executes, a change is made, is published, is taken in), with one lemma for each.

### Service

Proved from `ServiceAssumption` alone (`NoConn`, `NoAccount`, `NoDay` and `Nobody` name nothing,
retention and horizon are numbers of days), for any number of connections,
requests, processes, tokens, days, accounts, keys and devices:

| theorem | statement | invariant it rests on |
|---|---|---|
| `TypeCorrect` | `Spec => []TypeOK` | the invariants below, part by part |
| `PoolAccounted` | `Spec => []Accounted` | `PoolInv`: who is queued waits for nothing else (`Queued`), a connection is at rest or with one task (`Lent`), a journal entry starts when its transaction is about to commit (`Journals`), statements of a transaction run on an open one (`Begun`) |
| `JobRunsOnce` | `Spec => []OncePerDay` | `OnceInv`: the key is never in the future (`KeyInThePast`), who has found the job undone has put today's date there (`Answered`), so a second one cannot (`OneFirst`), and today's date was put there by a process that ran the job, was told an error, was cut off or died (`KeyClaimed`); without Redis one instance runs (`OneInstance`) |
| `CleanUpHonest` | `Spec => []CleanOrBlocked` | `CleanInv`: what an earlier statement of the chain has removed is not old again on the same day, because requests write today's date |
| `DefaultWhenQuiet` | `Spec => []QuietHasDefault` | `AccountInv`: unless there is one default, some request is still to look, or has failed (`Watched`) |
| `ChoiceIsKept` | `Spec => ChosenIsDefault` | `AccountInv`: an undisturbed request is the only one at work (`Chosen`), and the account it chose is the only default once it has written, until it ends (`Choice`); a creation chooses none that is there (`Inserts`) |
| `SecondFactorProved`, `SessionNamesUser` | `Spec => []SecretProved`, `Spec => []SessionOfUser` | `LoginInv`: what a request in flight knows (`Known`): the secret it stores was verified, the row it reads again is its own or deleted |

`ServiceProofs` takes these from the modules of the parts: a step of the service is
a step of a part or leaves it alone (`StepOfPool` and its like), and the invariant
of the part does the rest.  None of the invariants holds of one statement alone:
`Accounted` fails without `Journals`, because a transaction could start a journal
entry twice and lend it two connections; `OncePerDay` without `KeyInThePast`,
because a date of tomorrow in the key would let nobody run the job; and
`QuietHasDefault` is false while a repair is under way.

### Only model-checked

Liveness, which is out of reach of the prover: `EventuallySettled` (`Token`),
`ToldOrDropped` (`Notifier`), `EveryTaskEnds`, `RepairEnds` and `AnsweredOrLost`
(`Service`).  Every invariant and every action property that a run checks and finds
to hold is also a theorem.

## 5. Not modelled

- `config.ts`, `util/logging.ts`, `util/swagger.ts`: constants and output.
- `xcard.ts`: authorizations in the memory of one process (`TODO`, `xcard.ts:6`).  A
  change, the websocket and `GET /xcard/auth` of one browser may each reach another
  process, so nothing relates what is stored to what is shown.
- Signatures, secrets and random codes (`util/utils.ts`): one bit in `Token`, and
  that a code is fresh or collides.
- Publishing to an MQTT broker (`util/mqtt.ts`): output nobody in the code waits for.
- Roles, the list of users and `updateUser` (`login.ts`): no modelled state depends
  on them.
- Paths, bodies and statuses of the routes, and intervals and limits of the
  reports: they choose what is shown, not what happens.
