# LUXXPOOL: TLA+ specifications

TLA+ models, TLC runs and TLAPS proofs for LUXXPOOL, a Litecoin mining pool with
merged mining (`src/src`, Node.js). This file says what the pool is made of, which
module models which part, what the runs and the proofs show, and what is left.

Paths are relative to the repository: `paymentProcessor.js:430` is line 430 of
`src/src/payment/paymentProcessor.js`.

## 1. The system

One Node.js process (`src/src/index.js`) talks to miners over Stratum (TCP), to
litecoind and the aux-chain daemons over JSON-RPC, and keeps its state in PostgreSQL
and Redis. Everything is asynchronous in one thread: code between two `await`s is
atomic, and at every `await` any other timer, message or callback may run. What
survives a restart is what was written to PostgreSQL, Redis or a daemon.

### 1.1 Inventory

| Component | State | Operations | Talks to | Correct when |
|---|---|---|---|---|
| Payment processor, `payment/paymentProcessor.js` | `processing` flag; rows of `blocks`, `payments`, `block_fee_ledger`, `miners.total_paid`; Redis `pendingBalance` | `start` / `_reconcilePending`, `processPayments` every 10 min, `_retryFailedPayments`, `_getConfirmedBlocks`, `_calculatePPLNS`, `_calculatePayments`, `_executeBatchPayment` | wallet RPC, PostgreSQL, Redis | every owed address is paid, once; the books say what the wallet did |
| Block watcher, `workers/blockWatcher.js` | rows of `blocks` | `checkBlocks` every minute | chain RPC, PostgreSQL | replaced blocks are flagged, kept blocks offered for payout |
| Multi-coin payment, `payment/multiCoinPayment.js` | `processing` flags; `coin_payments`, `rounds`; Redis balances | one cycle per coin | aux wallets | as for LTC, and accumulated balances are neither lost nor paid twice |
| Share processor, `pool/shareProcessor.js` | none of its own; `shares`, `blocks` rows | `processShare`, `_submitBlock`, `_recordShare`, `_recordBlock` | templates, dedup, RPC, PostgreSQL, Redis | a share is credited at most once; a found block is submitted and recorded |
| Duplicate filter, `pool/redisDedup.js` | Redis keys with TTL, in-memory fallback | `isDuplicate` | Redis | a share is new once |
| Templates and jobs, `blockchain/blockTemplate.js` | `currentTemplate`, `currentJobId`, `validJobs` (10), extranonce counter | `updateTemplate`, `_poll`, `getJob`, `buildCoinbaseForJob`, `allocateExtraNonce1` | chain RPC, aux engine | miners work on the newest tip; a job's coinbase is the one it was announced with |
| Merged mining, `blockchain/auxpow.js` | `currentBlock` per chain, `auxBlocks`, the Merkle tree; Redis submit locks | `_refreshAuxBlock`, `buildAuxMerkleTree`, `getCoinbaseAuxData`, `checkAuxChains`, `_submitAuxBlock` | aux daemons, Redis | a proof refers to the tree the parent coinbase committed to; an aux block is submitted once |
| Block notifier, `blockchain/blockNotifier.js` | `_lastBlockHeight` | polls `getblockcount`; ZMQ if enabled | templates | every new tip triggers an update |
| RPC client, `blockchain/rpcClient.js` | `_circuit` | `call`, `_onSuccess`, `_onFailure`, `submitBlock`, `sendMany` | daemons | open after N failures, closed again once the daemon answers |
| Stratum server and its TLS twin, `stratum/server.js`, `ssl.js` | `clients`, `ipCounts`, `authorized`, `minerAddress` | connect, subscribe, authorize, submit, error, close, `stop` | index.js | counts match the open sockets; limits hold; a closed connection is in no book |
| Solo port, `stratum/solo.js` | as the server, with counts of its own | connect, authorize, submit, close | index.js | the same |
| VarDiff, `stratum/vardiff.js` | share times, `minDiff` | `recordShare`, `applyAdjustment`, `setModelFloor` | share processor | difficulty within its bounds, settles at the target rate |
| Banning manager, `pool/banningManager.js` | `bannedIps`, `banHistory`; `banned_ips` rows | `ban`, `isBanned`, `recordInvalidShare`, `recordViolation`, `recordConnection`, `_loadBans`, `_cleanup` (`unban` has no caller) | PostgreSQL | a banned IP stays out for its term; offenses escalate |
| IP reputation, `pool/ipReputation.js` | scores, `dirty`; `ip_reputation` rows | penalties, bonuses, `_decay` every hour, `_persist` | PostgreSQL | scores within bounds, recover in time |
| Emergency lockdown, `pool/emergencyLockdown.js` | `level`, `manualOverride`, history | escalation every 30 s, override | PostgreSQL | the level follows the threat and the operator |
| Security engine, `pool/securityEngine.js` | scores in Redis with a copy in memory, share profiles, violations, registered addresses, cookies | `onMessage`, `onAuthorize`, `onShare`, `onBlockFound`, `onDisconnect`, `decayAll` | Redis, banning manager | a score is what was found and earned; a refused address recovers |
| Fingerprints, `pool/connectionFingerprint.js` | profile per connection, agents per IP | `onSubscribe`, cluster check | IP reputation | raises an alarm for a cluster |
| Fleet manager, `pool/fleetManager.js` | whitelists, capacity, members | `registerMiner`, `removeMiner`, changes by the operator, `_reclassifyConnectedMiners` | server, API | fleet machines are exempt from bans, within capacity |
| Registry of models, firmware tracker, optimizer, `pool/minerRegistry.js`, `firmwareTracker.js`, `hashrateOptimizer.js` | table of models; entries per connection | `identify`, `getOptimalDifficulty`, `getVardiffFloor`; `checkAndAdvisory`, `registerMiner`, sweeps | server, VarDiff | a machine starts at its difficulty; entries go with their connection |
| Audit log, `pool/auditLog.js` | buffer | `_record`, `_flush`, `stop` | PostgreSQL | an entry reaches the table once, or its failure is logged |
| Monitoring, `monitoring/*.js` | status of the services; entries per connection | health checks, rounds of statistics, sweeps | daemon, PostgreSQL, Redis | the status follows the services |
| API, WebSocket, logging, configuration | caches and counters | views; the fleet and lockdown routes | all | section 7 |

### 1.2 How they interact

`index.js` connects the parts with event handlers and timers. A new tip (notifier or
poll) makes the template manager fetch a block template, and each of its jobs is
broadcast to the miners. A subscription passes lockdown, reputation and bans before its
client may authorize; offences on the way of a share come back to the three. A submitted
share runs through `processShare`, which may submit a block to the daemon and insert a
row in `blocks`; each valid share is also offered to the aux chains. Two timers then
work on `blocks`: the watcher (`index.js:709-723`, every minute) and the payment
processor (`index.js:725-757`, every ten). They share no lock: the table is their only
channel, its columns `confirmed` and `orphaned` are written by both.

Each connection is in the books of ten parts (server, fleet manager, worker tracker,
estimator, fingerprints, firmware tracker, optimizer, cookies, address register, slots of an
address), which the handlers of subscribe, authorize and valid shares fill and that of
disconnect empties. The calls to a daemon share one circuit breaker, and what is
reported about connections, bans and payments goes into one audit log.

### 1.3 What is hard here

* Crashes between an RPC that moves money and the statements that record it.
* RPC calls that time out although the daemon executes them.
* Statements that fail inside and outside the `try` that is meant for something else.
* Two async runs of one function after a timer cleared the flag that guards it.
* Decisions on snapshots taken two awaits earlier; forks in between.
* Two workers that both claim a block and only one of which pays.
* Jobs that are evicted, and aux blocks that are replaced, while shares for them are in
  flight; template requests that fail or overtake each other.
* Bans kept twice, in memory and in a table that is read in the background at startup;
  a lockdown level that both an operator and a timer set, and that feeds its own metric.
* Connections that close while their authorization or a share of theirs waits for Redis,
  sockets that are destroyed and still deliver lines, errors followed by a close.
* Scores in Redis that several handlers and a timer read, compute and write back.
* Health checks that overlap on a breaker others use too, and a shutdown that does not
  wait for the flush it starts.
* Test-and-set in Redis with a time to live, a fallback when Redis fails, and retries of
  a block submission whose answer was lost.

`PROJECT.json` lists these hazards one by one, each at the line where it bites and with
the properties that would catch it.

## 2. Plan

The order follows what a defect costs: money first, then found blocks, then access.

1. **Payout** (done): `PaymentProcessor`, `Settlement`, `BlockWatcher`,
   `PayoutPipeline`, their invariants and proofs; what a retry query that
   is cut at 200 rows does (`payments_limit.cfg`). Left: the overlap of two `checkBlocks`
   in a run.
2. **Mining** (done): `JobTemplates`, `ShareProcessing`, `MergedMining` with seven
   theorems. Left: a run for the lock that expires under its holder, the extranonce
   counter, ZMQ.
3. **Admission** (done): `Banning`, `IpReputation`, `EmergencyLockdown` and `Admission`
   with four theorems. Left: the persistence of IP scores (`dirty`), bans before the
   table has been read.
4. **Connections** (done): `FleetManager`, `IdentityLayer`, `StratumSessions` with five
   theorems.
5. **Security engine** (done): `SecurityEngine` with two theorems. Left: the statistics
   behind the findings of layer 5.
6. **Difficulty** (done): `MinerRegistry`, `VarDiff` with one theorem.
7. **Operations** (done): `RpcClient`, `AuditLog`, `Operations` with three theorems.
8. **Pure functions**: PPLNS amounts, Merkle slots, against references.
9. **Multi-coin payment**, last because as wired it never pays: every row of `blocks` is
   inserted for LTC, and nobody listens to `auxBlockFound` (`auxpow.js:435`).

Proofs follow the same order. Every invariant and every action property that a passing
run checks is now a theorem (section 5), and so is the implementation of `Settlement`,
by the processor alone and beside the watcher. Left for the proofs: the liveness properties,
which TLAPS cannot reach; the abstract promises of the components other than the payout.

## 3. Modules

| Module | Contents |
|---|---|
| `PaymentProcessor` | the payout engine: state, 27 actions of the process, faults of its environment |
| `PaymentProperties` | its properties, its fairness, its mapping to `Settlement` |
| `PaymentInvariant` | `RecoveryInv`, the inductive invariant behind "paid at most once" |
| `Settlement` | the abstract promise: pay unpaid owed addresses, settle what was paid |
| `PaymentProofs` | types; the fee ledger and the miners' totals; `RecoveryInv` is inductive: no double payment, nothing forgotten; the engine implements `Settlement`, sent rows were paid; all of this beside the watcher |
| `BlockWatcher` | the watcher, and a chain that forks |
| `WatcherProofs` | its types and its two safety properties |
| `PayoutPipeline` | both workers in one process over one `blocks` table |
| `JobTemplates` | templates, what triggers them, jobs kept and sent, clients |
| `ShareProcessing` | `processShare`, the duplicate filter, block submission; extends `JobTemplates` |
| `MergedMining` | the aux chains; composes the three, with restarts, and states their properties |
| `MiningProofs` | types; credit is earned, and given once; blocks have the header of their share, accepted ones are recorded and the reverse; one aux submission at a time |
| `Banning` | bans in memory and in the table, their terms, the load at startup |
| `IpReputation` | what offences, blocks and time do to a score |
| `EmergencyLockdown` | the level, the checks that raise and lower it, the operator |
| `Admission` | the three as `index.js` composes them, and their properties |
| `AdmissionProofs` | bans survive restarts, permanent ones stay, the operator's level holds |
| `FleetManager` | whitelists, capacity, who is of the fleet |
| `IdentityLayer` | layers 3 and 7 of the security engine: cookies, registered addresses; extends `FleetManager` |
| `StratumSessions` | connections on both ports and the books kept about them; extends `IdentityLayer` |
| `SessionsProofs` | types, capacity, counts, credit and cleanup, for any number of clients |
| `SecurityEngine` | layers 2, 4, 5 and 8: violations, profiles, findings, scores |
| `SecurityProofs` | types; every score is explained by what was found and earned |
| `MinerRegistry` | the table of machines |
| `VarDiff` | the difficulty of one connection; extends `MinerRegistry` |
| `VarDiffProofs` | the floor of every machine named is kept, and the configured bounds within a third |
| `RpcClient` | the circuit breaker |
| `AuditLog` | buffer, flushes, table |
| `Operations` | health monitor, statistics, shutdown over the two; their properties |
| `OperationsProofs` | types; the breaker opens on failures; every audit entry is kept once |
| `MCPayments`, `MCPipeline`, `MCMining`, `MCAdmission`, `MCSessions`, `MCSecurity`, `MCVarDiff` | constants for the TLC instances |

### 3.1 PaymentProcessor

State variables are the tables (`row`, `confirmed`, `orphaned`, `credited`, `ledger`,
`accumulated`), the world (`chain`, `deep`, `wallet`, `inflight`) and the locals of the
running functions (`pc`, `retry`, `todo`, `payable`, `blk`, `rest`, `batch`, `togo` per
cycle; `boot`, `groups`, `seen` for `start()`; `processing`, `timer`). Each action is the
code from one `await` to the next:

| Action | Code |
|---|---|
| `Start`, `SelectPending`, `ListTransactions`, `ReconcileGroup` | `start`, `_reconcilePending` 37-135 |
| `StartCycle`, `TimerFires`, `EndCycle` | `processPayments` 145-208 |
| `RetrySelect`, `RetryMark`, `RetrySend`, `RetrySettle`, `RetryRevert` | `_retryFailedPayments` 444-492 |
| `SelectBlocks`, `VerifyBlock`, `ConfirmBlock`, `OrphanBlock` | `_getConfirmedBlocks` 213-259 |
| `CalculateShares`, `Accumulate` | `_calculatePPLNS`, `_calculatePayments`, `_accumulateBalance` |
| `NextBatch`, `InsertPending`, `SendBatch`, `MarkSent`, `CreditMiner`, `RecordLedger`, `InsertFailed` | `_executeBatchPayment` 349-438 |
| `Crash` | shutdown and the handlers of `index.js:823-878`, or a kill |

Each statement or call may fail when `Faults` allows it, and then the action does what
the code does: swallow it, jump to the catch clause (`ToCatch`), or end the cycle.
The wallet's answer to `sendmany` has three outcomes: `Accepted`, `Refused` and
`TimedOut`; a timed-out request stays in `inflight` and `LateSend` may execute it at any
time or never. A crash loses all locals; a request it was waiting for may still arrive.

Abstractions: money is a constant table `Amount[block][address]` of net amounts, so the
PPLNS arithmetic and the fee are left out; a payments row is named by the cycle, block,
address and statement that inserted it instead of a serial id; amounts in satoshis and in
coins (division by 1e8, `toFixed(8)`) are one number. `StartCycle` lets a slot be used again
only while its row names are free. That costs behaviours only in the runs with failing
SQL, where a block may be paid again by the same slot; two slots cover that there.

### 3.2 BlockWatcher

`CheckBlocks` (the SELECT and its snapshot of hashes), `AskChain` (two RPCs),
`WriteHash` (UPDATE of confirmations and hash, then the comparison with the *snapshot*),
`FlagOrphan`, `ConfirmMature`. `Deepen` and `Replace` are the chain: a block 100 deep is
not replaced. `Restart` forgets a check under way.

### 3.3 PayoutPipeline

The watcher's instance shares `chain`, `deep`, `confirmed` and `orphaned` with the
processor; `CrashBoth` kills both. The watcher runs before the reconciliation has
finished, as in `main`. TLC runs the composition for its liveness (section 4); its
safety is proved.

### 3.4 JobTemplates

`tip` and `auxTip` are the daemons. Blocks are numbered by height, the aux blocks of a
chain by age. Job ids are four random bytes in the code (`blockTemplate.js:423`), which the
model takes never to repeat: they are numbers here, in the order they are generated, and
`made` is the last. `stored` is what the map `validJobs` has under each id, a template with its
coinbase, told apart by the fetch and given with the height it builds on and the aux blocks
it commits to; the variable `validJobs` says which ids are still kept. `jobId` and
`currentTemplate` are what the manager works with now. `Install` writes them as
`updateTemplate` does, also when no coinbase can be made, and a restart empties all but
`made`.
A call of `updateTemplate` is an updater: `StartUpdate` (asked by `NotifierPoll`, `Poll`,
`AuxTimerFires` or a found block), `DaemonAnswers`, then `Install` or `UpdateFails`.
With several updaters the answers overtake each other. A poll may hear of a tip
that is already behind.

`RewardConfigured` is FALSE in the code as wired: `index.js:194-198` does not pass the
reward address, so that `_getCoinbaseParts` throws in each `updateTemplate`.
`jobs_unpaid.cfg` has it so (section 4.2); the runs set it, to see what the pool does with
jobs.
`AuthorizeInVain` and `AuthorizeThrows` are the two fates of a client that authorizes
when there is no job: the exception is swallowed on the solo port and ends the process
on the main port.

### 3.5 ShareProcessing and MergedMining

A slot runs one `processShare`, step by step from await to await:

| Action | Code |
|---|---|
| `Submit` | `_handleSubmit`: the share carries the client's difficulty of the moment |
| `CheckJob` | `onShare` of the security engine has answered; step 1 |
| `CheckDuplicate` | `isDuplicate`, steps 3 and 4 |
| `Judge` | steps 5 and 6, VarDiff |
| `RecordShare` | step 7; step 8 up to `submitblock` |
| `SubmitBlock` | one attempt of `rpcClient.submitBlock` and what `_submitBlock` makes of it |
| `RecordBlock` | `_recordBlock`, then the `blockFound` handler asks for a template |
| `SkipAux`, `SubmitAux`, `AuxAnswer`, `AuxRefreshed`, `AuxDone` | `checkAuxChains` and `_submitAuxBlock`, chain by chain |

A share is named by client, job and nonce, where the nonce stands for extranonce2, ntime
and nonce; `Work[nonce]` is the difficulty its hash meets, whatever the job. The security
engine and the check of ntime are free choices. VarDiff may set any difficulty of `Diffs`.

`processShare` looks a job up again and again instead of once, and `parts` keeps for each slot
what it found: the template in `CheckJob`, the coinbase and template of the header it hashes in
`CheckDuplicate` (`_buildBlockHeader`), and the coinbase once more, by
`buildCoinbaseForJob`, for the aux proof in `EmitShare`. `BlockOf` puts a block together as
`_submitBlock` does: the hashed header, the coinbase read again, the transactions of the
template read first. That the three reads fit is what `BlockMatchesHeader` is about.

What an aux daemon accepts is external: the newest block, a branch that leads from it to the
root in the coinbase, and a coinbase that the parent header was hashed for. `MiningRestart` empties the process and leaves Redis, the
tables and the chains; it happens under the fault "crash", and when `AuthorizeThrows`.

### 3.6 Admission

| Action | Code |
|---|---|
| `Ban`, `WriteBan` | `ban` up to and from its INSERT, `banningManager.js:207-277` |
| `LoadBans`, `DropExpired`, `HourPasses` | `_loadBans`; `_cleanup` and `isBanned`; the clock |
| `CheckThreats`, `SetLevel` | `_checkThreats` with `_autoEscalate` and `_autoDeescalate`; the admin route |
| `MinutePasses`, `DelayPasses` | the one-minute windows empty; 15 minutes since the last change |
| `InvalidShare`, `Offend`, `SecurityBan` | the handlers of `invalidShare`, `staleShare`, `duplicateShare`; `handleShare` with the ban of `_handle` before its own |
| `Reject`, `Flood` | the `subscribe` handler and the `authorize` handler of the solo port |
| `BlockFound`, `DecayScores`, `Cluster` | `blockFound`; `_decay`; `clusterDetected` |

Time is counted in hours left: a ban in memory and its row grow old together, since both
hold the same `expiresAt`. The two terms are constants, and `Forever` is longer than
both. Counts below a threshold (share rates, warnings, connections per minute) are not
kept: any offence may be the one that trips. Only rejected connections are counted one by
one, because the level itself makes them. Scores keep their order relations (thresholds,
neutral, penalties) on a scale of five values; what `_persist` had written is abstracted
to any score after a restart. Fleet addresses pass every check and are left out.

The offence is counted before the duration is looked up (`banningManager.js:215`), so that a
first ban is `Day`, although line 41 and README.md:179 say an hour, and `Hour` is reached by
nothing: the model has it as the code does. A valid share never raises a score, because
`recordValidShares` is called with 1 and adds `floor(1 / 100)` (`index.js:583`).

### 3.7 StratumSessions, IdentityLayer, FleetManager

| Action | Code |
|---|---|
| `Connect` | `_handleConnection` of `server.js` and `solo.js`, with the fleet's bypass of the limit |
| `Drop`, `SocketError`, `SocketClose` | floods and timeouts that destroy a socket; `error`; `close` and all of `handleDisconnect` |
| `Message` | a line: `Subscribe`, `Authorize`, `Submit`, with the handlers of `index.js` up to their first await |
| `AuthorizeAnswer` | the rest of the `authorize` handler, after layer 8 has its answer from Redis |
| `Credit`, `Refuse` | the rest of `handleShare`, after `processShare` |
| `RecalculateAll`, `CleanupPrints`, `PersistAll` | the sweeps of estimator, fingerprints and worker tracker |
| `Administer` | the routes of `routes/fleet.js`: both lists, the capacity, each with `_reclassifyConnectedMiners` |
| `Stop` | `stop` of the server |

A socket is idle, open, destroyed (no more data, `close` still to come, lines of the
current chunk still handled), failed (`error` seen, `close` to come), closed or refused.
`rest` is the client whose chunk may hold more lines: JavaScript finishes a chunk before
anything else runs. `books` says which clients each part knows. What leads to a
refusal is free here and modelled in `Admission`.

A login names a member of `Named`: an address, one that is refused ("bad"), or the empty one
("empty", a worker name that begins with a dot). `_handleAuthorize` sets the address before it
checks it and leaves `authorized` alone when it refuses (`server.js:242-257`), so that a
client with a login keeps it under an address that is no good. `Submit` then
follows `onShare`: layer 7 judges the share only when there is an address
(`securityEngine.js:1148`, `PassesLayer7`), which finds a bad one and lets the empty one pass.
A share carries what was registered for its client at that moment (`registered`).

Behaviour of the code that the model keeps and no property forbids: an answer that comes
after the close enrols the client with the firmware tracker and the optimizer, which
nobody undoes (those two have no sweep), and a share credited then is in the estimator
until its sweep; a client that logs in again under another address keeps its slot at the
former one; shares of the solo port are all rejected but those for the empty address, since
that port never registers an address with layer 7 (`index.js:512-529`); `ltc1` addresses are accepted by the server
and refused by layer 7; a miner may be in both maps of the fleet manager after it logs
in again; a fleet connection, which nobody counted, is counted down when it closes; a
socket that errors and closes is counted down twice.

### 3.8 SecurityEngine

Every change of a score is split at its two awaits: `Share`, `BlockFound` and, for the hourly
timer, `DecayKey` start it with a GET; `Answer` and `ReadDecay` take the answer and start
the SETEX; `Written` is its answer. `Evict` is a key that Redis loses, `Restart` empties what
is in memory. `Violate` is layer 2, `OnAuthorize` the score asked for at a login, `Clean`
the sweep. What layer 5 finds is free.

As wired: no share carries `isFullBlock`, so that any miner is suspected of withholding
after enough shares (some 6,900 with the constants of `securityEngine.js`); `{result:
BAN, ...l4}` lets the spread overwrite the ban (1159, 1168); the comment "Fleet miners
always receive score 1000" (788) has no code; a score that only the process remembers
never decays.

### 3.9 VarDiff, MinerRegistry

`Subscribe` (the start difficulty and `setModelFloor` of the machine that is named),
`Count` and `Retarget` (`recordShare` without and with an adjustment), `MixedWindow` (a
retarget whose window holds shares from before a change), `ChangeSpeed`, `TimePasses`.
The speed of a miner is the difficulty at which its shares would come every `targetTime`
seconds, so that the ratio of times in the code is a ratio of difficulties here.
The arithmetic (rounding, the factor of 4, bounds, the nearest power of two) is the code's.
Start, minimum and maximum are any integers from 1 to 2^24 in any order, as
`config/index.js:24-27` reads what the environment has. The snap to a power of two comes after
the clamp (`vardiff.js:101-104`), so that bounds that are no powers of two are not quite kept:
a maximum of 100000 gives 131072, a minimum of 90 gives 64. `FloorKept` says how far that goes,
a third either way; the floors of the machines are powers of two and hold exactly.
A floor above the configured maximum wins, and the difficulty then stays at the floor. A
second subscription as a smaller machine sets a difficulty below the floor in
force until the next retarget: `FloorKept` speaks of difficulties VarDiff has set.

### 3.10 RpcClient, AuditLog, Operations

`RpcClient` gives each way a request ends: `Succeeds`, `AnswersError` (neutral),
`ConnectionFails`, `TimesOut`, and `DestroyedReports` for the `error` that may follow a
timeout and counts the call again. `AuditLog` has `Record`, `Flush` and `Insert`, one
row of one flush. `Operations` puts callers on them: a check of the health monitor asks
the daemon (`Ask`, then `Answered`, `Refused` or `Unreachable`) and then the database
(`AskDatabase`); a round of statistics asks the daemon and then stores (`Store`).
`Shutdown` and `Close` are `shutdown()` of `index.js`: the last flush is started and not
waited for, the pool closes, the process exits. `Flip` is the world: daemon and database
go and come back.

Redis is left out of the monitor: its status has the shape of that of PostgreSQL and
no part of the pool reads it.

## 4. Properties and runs

| Run | Instance | Shows |
|---|---|---|
| `payments_recovery` | 2 blocks, 2 addresses, one below the minimum for block 2, 2 cycle slots, refusals, failing Redis and any number of crashes | `PaidAtMostOnce`, `SentMeansPaid`, `PendingIsRetried` hold; the engine implements `Settlement`; failed payments are made (`FailedEventuallyPaid`), pending ones decided (`PendingEventuallyDecided`) |
| `payments_faults` | 1 block, 1 address, 2 cycles, every fault at once: lost answers, failing RPCs, Redis and SQL, overlapping cycles, forks, crashes; `listtransactions` shows only the last transaction | `TypeOK`; `CreditMeansPaid`, `LedgerMeansPaid`: the totals and the fee ledger claim no more than the wallet paid, although it does pay addresses twice here |
| `payments_repeat` | 1 block, 2 batches, refusals only | **violates** `PaidAtMostOnce` |
| `watcher` | 2 blocks, forks, failing calls, 2 restarts | `WTypeOK`, `NoFalseOrphan`, `PayableShowsChainHash`, `KeptIsConfirmed` |
| `pipeline` | 1 block, no fault | **violates** `MatureEventuallyPaid` |
| `mining` | 2 slots, 2 shares, 2 nonces (a share, and a block), 2 difficulties, 1 job kept of 2, 1 aux chain; failing RPCs | `MiningTypeOK`, `CreditedOnce`, `CreditIsEarned`, `AcceptedIsRecorded`, `OneSubmission` |
| `mining_faults` | 1 slot, 1 share, 2 jobs kept, a second aux block; every fault: RPCs, lost answers, Redis, SQL, expiry, crashes; new jobs stored, and old ones evicted, between the three reads of a share's job | `BlockMatchesHeader`, `RecordedIsAccepted`, `ShareIsDone` |
| `admission` | 1 address, terms of 1 and 2 hours, 5 scores, every level, failing SQL, 2 restarts | `AdmTypeOK`, `StoredBansHold`, `OverrideHolds`, `PermanentStays`, `AccessReturns` |
| `sessions` | 2 connections from one IP on either port, 2 addresses, an `ltc1` one, a bad and an empty one, one slot per address, a fleet of at most 1, failing sockets, late answers, one sweep or change by the operator | `TypeOK`, `CountsMatch`, `NothingLeftBehind`, `CreditMatchesLogin`, `FleetWithinCapacity` |
| `security` | 1 address, 2 handlers and the hourly timer, scores 0 to 4, one fault (failed call, lost key, restart) | `TypeOK`, `ScoreExplained`, `ScoreRecovers` |
| `vardiff` | 3 machines and an unknown one, 5 speeds from below the minimum to above the maximum, 2 subscriptions, 2 disturbances, a start of 500 within 90 and 100000, none of them a power of two | `FloorKept`, `SettlesOnTarget` |
| `operations` | 2 overlapping checks and a round of statistics, threshold 3, a buffer of 2, daemon and database change twice | `TypeOK`, `OpensOnFailures`, `KeptOnce`, `RecoveryNoticed` |

The passing runs also disable what they are not about. `payments_recovery` has the
faults the engine's recovery is written for, and batches large enough for a block:
`payments_repeat` shows that a block in two batches breaks `PaidAtMostOnce`.
`mining` leaves out the faults that make three of its properties false: with failing
Redis a share may be new twice (`CreditedOnce`), with a lost answer of `submitblock`, a
failing INSERT or a crash an accepted block is in no table (`AcceptedIsRecorded`), with
a lock that expires under its holder two submissions overlap (`OneSubmission`).
`admission` leaves out the fault "late", clients before `_loadBans` has its answer: a ban
imposed then can be undercut by the row that arrives (`StoredBansHold` fails).
`payments_faults` leaves out `SentMeansPaid` and `PendingIsRetried`. Both are false with its
faults and two addresses: the INSERTs of the catch clause may fail for one address and succeed
for another, and of two overlapping cycles the retry of one may settle what the other has
just recorded as failed (section 4.2). `payments_recovery` checks them on two blocks and two addresses,
where a transaction of the other block, or a height half paid, could settle the wrong row.

### 4.1 Findings

* **A batch is paid twice** (`paymentProcessor.js:430`). When a later batch of a block is
  refused, the catch clause records *all* recipients as failed, also those of batches
  already sent; the next cycle retries them. The comment at 373 and README.md:225
  promise idempotent records.
* **A mature block is not paid** (`blockWatcher.js:133`). The watcher sets `confirmed`, and
  the processor selects blocks with `confirmed = false`. Since the watcher looks every
  minute and the processor every ten, it is usually first.

### 4.2 Also visible in the models

These properties state what the repository says, and TLC refutes each of them with the
configuration named; `tlc -config X.cfg M` shows the behaviour.

* **A fork is missed** (`watcher_restart.cfg`, `BlockWatcher`, `ReplacedIsFlagged`). The
  chain's hash is written (`blockWatcher.js:101`) before it is compared with the old one,
  and a restart or an SQL error in between makes the next check compare it with itself.
  blockWatcher.js:4 promises orphan detection.
* **Aux proofs from the wrong tree** (`aux_proof.cfg`, `MCMining`, `ProofFitsCoinbase`). The
  tree is built from the aux blocks of the moment (`auxpow.js:346`), not from those the
  coinbase of the share's job commits to, as the comment at 344 has it.
* **No job without a reward address** (`jobs_unpaid.cfg`, `JobTemplates`,
  `CurrentJobExists`). The template manager is built without `rewardAddress`
  (`index.js:194`) and cannot make a coinbase; the failed template is current all the same,
  and an authorization that wants to send it throws.
* **A failed template is not fetched again** (`jobs_stale.cfg`, `JobTemplates`,
  `CurrentJobCatchesUp`). Both polls remember the block before its template has arrived
  (`blockTemplate.js:130`), so neither is the safety net that index.js:236 speaks of.
* **A row is settled that nobody paid.** The retry of a height marks every pending or failed row of the
  height as sent, not only those it has paid (`paymentProcessor.js:474-478`), which is
  `SentMeansPaid` gone wrong whenever the height has a row the retry did not select.
  `payments_unpaid.cfg` (`MCPayments`): after a refused batch the INSERT of the failed row
  succeeds for one address and fails for the other, whose pending row the next retry calls
  sent. `payments_limit.cfg` (`MCPayments`): no statement fails at all, but the query's limit
  (`paymentProcessor.js:444`, 200 rows; 1 in the model) cuts through a height, and the rows
  behind the cut are called sent. With the fault "overrun" the same happens between two cycles.
  Such an amount stays owed and nothing will pay it, where README.md:225 has `sent` written
  after the payment.
* **A pending row that no retry sees** (`payments_stranded.cfg`, `MCPayments`,
  `PendingIsRetried`). When the INSERT of the failed row itself fails
  (`paymentProcessor.js:430`), the row stays pending until the next start, since
  `_retryFailedPayments` selects failed rows only; README.md:226 has it retried every cycle.
* **A share that layer 7 does not check** (`sessions_empty.cfg`, `MCSessions`,
  `PaidAsRegistered`). After a good login on the solo or the main port, an authorize that names
  ".x" leaves the client authorized with an empty address; its shares skip payout integrity
  (`securityEngine.js:1148`) and are recorded for the miner ''. `securityEngine.js:673-675` says
  that the address of the login must match what the processor pays. The rows count in the
  PPLNS sum like any other, so that '' is among the recipients of a later block; what the wallet makes
  of that is not modelled. `CreditMatchesLogin` is what remains true.
* **The first ban is a day** (`banningManager.js:215`), see section 3.6; no property is
  about the length of a term.

### 4.3 Bounds

* `Cycles`: one cycle at a time is a theorem of the fault sets without `overrun`
  (`Locked`), so a second slot only matters for the names of rows and for `overrun`,
  which two slots show in full: a cycle and the one that started beside it.
* `Blocks` and `Addrs`: two of each give a block being paid beside one with rows from
  earlier cycles, a batch with more than one address, a height whose retry comes first,
  and an address below the minimum.
* `MaxTx` bounds the wallet. It is above the number of payments owed, so a second
  payment of something is always possible, which is what the properties are about.
* `RecentTxs` stands for `listtransactions(500)`: smaller than `MaxTx` in
  `payments_faults`, so that a transaction may fall out of the list.
* `MaxRestarts` = 2 lets a restart interrupt the check that follows a restart.
* Crashes of the processor are not counted.
* `MaxJobs` = 1 in `mining` makes the second template evict the first while shares for it
  are in flight, which is what ten jobs do later. `BlockMatchesHeader` needs two jobs at
  once and is checked in `mining_faults`.
* `MaxTip`, `MaxAux`, `MaxMade`: the first template, and a newer one. Since a found block
  advances the tip, `MaxTip` = 2 has the block of the pool and the block of another
  compete for the same height. In `jobs_stale.cfg` `MaxMade` = 6 is out of reach (at most one
  template per poll and height), so the bound is not why the update is missing.
* `MaxShares` = 2 in two slots: the same solution twice, a share while a block is being
  submitted, two shares for one aux block.
* `MaxRetries` = 2 attempts of `submitblock` instead of three: a first and a last one.
* `admission` has one address: the bans of two never meet, and neither do their scores. What
  they share is the level, and for it `RejectedPerMin` = 1 and `MaxRejected` = 2 are the
  threshold and the first count above it. A term of 2 hours has a
  ban that is younger, or older, than the row of the previous one; offence counts are told
  apart up to two.
* `sessions`: two clients of one IP are what a count per IP, a slot per address and a
  fleet of at most one need to be contended; the pool's limit of 2 is reached together with the
  solo port's of 1. `MaxLogins` = 2 is one client logging in twice or two once; `MaxShares`
  = 1 suffices because a share is only ever compared with its own client; `MaxUpkeep` = 1
  is one sweep or one change of the lists at any moment, and the theorems of
  section 5 have no such bound.
* `security`: `MaxScore` = 4, `Default` = 3, `BanAt` = 1 and penalties of 1, 1 and 2
  keep the order of 1000, 500, 100 and 20, 75, 200: one penalty does not refuse an
  address, two may. Two handlers and the timer are the three writers that may meet on
  one key. Addresses do not meet except in the timer, which goes through the keys one by
  one.
* `vardiff`: start and bounds are no powers of two, and the snap takes the lower bound down and
  the upper one up. The machines have floors below, inside and above the bounds. `Highest` =
  2^24 ends the table of powers of two, far above any difficulty here. The speeds include 49151, next to the
  border between two powers of two. `MaxSubscribes` and `MaxMoods` bound what must end
  for the difficulty to settle.
* `operations`: `Threshold` = 3 is odd, so that the second event of a call that counts twice
  may be one too many; two timed-out calls or three refused connections open the circuit.
  Two entries and a buffer of 2 have a flush by the limit, or two by the timer at once.
* Slots are symmetric in `mining`, clients in `sessions`; there is no symmetry where
  liveness is checked.
* Deadlock is checked in `payments_recovery`, `payments_repeat`, `admission` and
  `vardiff`. The other runs can stop: without the interval's next firing when all slots'
  row names are used, when the watcher has decided every block, when every connection is
  closed, when the bounds of `security` are used up, or after the exit in `operations`.

### 4.4 Fairness

`FairSpec` has weak fairness on each cycle's next step (timers keep firing and code
between awaits ends), on the startup and on blocks getting deep, and strong fairness on
`RetrySend` with an accepting wallet: a wallet that is asked again and again accepts in
the end. That is the assumption under which "retried every cycle until successful"
(README.md) can be true at all. The liveness properties are conditional on `Settles`:
crashes end. `AloneSpec` has the same for the watcher's calls and statements, each about
each block, because a call that fails only whenever it is about one block would starve
that block. `PipeSpec` needs weak fairness only, since it has no faults. `JobSpec`: the
intervals fire, and strong fairness on `DaemonAnswers`, so that a request repeated for
ever is answered in the end; that is what "safety net" presumes. `MiningFair`: an await
of `processShare` or `checkAuxChains` ends, by an answer or by the RPC timeout; nothing
is assumed about miners, daemons or the order of slots. `AdmFair`: hours, minutes and
delays pass, the two timers fire and SQL statements are answered, if only by an error.
`AccessReturns` is conditional on `Calm`: at some point offences end, and rejections
stay within the threshold of the lockdown. The second half is needed: TLC shows that
with one rejection more per minute than the threshold, all of them honest retries, the
level stays up for ever. `FairSpec` of `SecurityEngine`: calls to Redis are answered or
fail, the timer runs, and, as it comes round every hour, strong fairness on its work on
each key, which a handler that holds the key only delays. `Spec` of `VarDiff`: the miner
goes on finding shares and the clock runs; speeds and subscriptions change finitely
often by their bounds. `Spec` of `Operations`: the intervals fire and a call ends, by
its timeout at the latest; nothing is assumed of daemon and database, so
`RecoveryNoticed` is conditional on their staying up.

## 5. Proofs

All proofs are checked by TLAPS to the last leaf, without a bound on the constants.

* `TypeCorrect`, `LedgerIsHonest`: for every fault set. The ledger proof needs one fact
  about the program counter (`WorkingIsPaid`): while a cycle marks, credits and records,
  its batch is a transaction of the wallet, because wallets only grow.
* `CreditIsPaid`: for every fault set, overlapping cycles included. `CreditMeansPaid`
  compares two cardinalities, and cycles credit a miner one statement after the other,
  long after `sendmany`. `CreditBound` counts for each block and address the cycles that
  have credited it *or still may* (`Crediting`: from the wallet's answer on, with the
  address in the batch) against the payments. A payment raises both sides, a credit
  moves a cycle within the left one. `TogoInBatch` keeps what is to be credited within
  what was sent.
* `NoDoublePayment`, `NothingForgotten` under `Recovers`: the faults are
  among refused calls, crashes, Redis errors and forks; a block fits one batch; the failed
  rows fit one retry query. These are the conditions under which the recovery
  protocol is right; the finding above shows that the second is needed.
  `PaidAtMostOnce` is not inductive: that the wallet does not pay twice rests on what the
  tables say about payments not made yet. `RecoveryInv` adds
  - `Locked`: the flag is a lock;
  - `FailedIsUnpaid`: a failed row was not paid, so retrying it is right;
  - `PendingPaidLast`: a pending row that was paid is in the newest transaction together
    with every pending row of its block. This is why one match of the group against
    the history decides all of them after a crash;
  - `PendingIsWatched`, `Reconciles`, `TouchedIsConfirmed`;
  - `Phase(c)`: for each point of a cycle, what its locals say about the tables.

  The proof has one lemma per action. `QuietStep` covers the actions that leave tables and
  wallet alone, `OneBlockStep` those that touch one block. The
  constants of `payments_recovery` satisfy `Recovers`.
* `Refinement`, `SentIsPaid`: under `Recovers` and `Distinct` (no two
  blocks owe an address the same amount) the engine implements `Settlement`.
  `Distinct` is what the match at startup assumes silently: it compares amounts
  and addresses and not blocks. `SentIsPaid` (`SentMeansPaid`) needs the rest of `Recovers` as well:
  without failing SQL every unpaid recipient of a height has its failed row, within the
  limit the retry selects all of them, and without overlap no other cycle adds one, so that the
  UPDATE of the whole height settles just what was paid. Section 4.2 drops each of the three.
* `PipelinePaysOnce`, `PipelineForgetsNothing`, `PipelineRefines`: the same three promises
  for `PayoutPipeline`, with any number of watchers. A step of the composition is a step of
  the engine or one of a watcher (`PipeSteps`), and the latter only adds to `confirmed`
  and `orphaned` (`WatcherMoves`). So `RecoveryInv` must not say that a block that a
  cycle has selected stays unconfirmed until the cycle confirms it: the watcher may be
  faster. `ConfirmPhase` says instead that such a block has no row and no transaction,
  which only the cycle itself can change (`WatcherKeeps`).
* `OrphansAreReplaced`, `PayableIsOnChain` (`WatcherProofs`): the first for any number of
  overlapping checks, the second for one.

* `RecordedAccepted`, `CreditEarned` (`MiningProofs`): under every fault. A step of a slot is
  one of six kinds (`SlotStep`), or leaves shares and blocks alone, or is a restart
  (`MiningSteps`), and each invariant is shown for each kind. The first needs
  `AnsweredBlocks` (between the null answer and the INSERT the block is on the chain), the
  second `JudgedShares` (between the comparison and the INSERT the share keeps the
  difficulty it was compared with).
* `SingleSubmission`: while no lock expires. `LockHeld` says that a slot between SET NX and
  DEL has its chain's lock; the converse is false after a crash, when a lock waits in
  Redis for its time to live.
* `MiningTypes`: under every fault. `MiningTypeOK` bounds what the exploration bounds, so
  that its invariant `TypeInv` says why the bounds are kept: the templates made and those
  still awaited are never too many together (`FetchBounds`), a slot at work has an attempt
  left and a share of a job that was made (`SlotBounds`).
* `HeaderMatches`: under every fault. `HeaderInv` follows the three reads of a job (`ReadsStored`):
  from each of them on, what the slot has read is what is stored under the id of
  its share. This holds across the awaits because an id, once stored, is not
  written again (`StoredOnce`: `Install` writes under a new id only, and ids do not repeat), and across
  a restart, which empties `stored`, because it empties the slots too. The proof fails when the
  coinbase is that of the current job, as the code had it before v0.4.1.
* `OneCredit`: as long as Redis answers and keeps its keys. `DedupInv` follows a key from
  SET NX on: the slots past the filter and the rows hold keys that were seen, no two of
  them the same one. Section 4 says what happens without the assumptions.
* `AcceptedRecorded`: with a reward address, and when no answer of `submitblock`, no INSERT
  and no process is lost. `WonBlocks`: what is on the chain without a row is with the slot that
  heard the null answer. That slot must survive until its INSERT, and one thing other than
  a crash ends the process: an authorization when there is no job. `JobKept` shows that this
  cannot happen while a block is submitted, because by then there is a current job, and it is
  always among the kept ones, never the one that is evicted (`InstallKeepsJob`).

* `BansSurvive`, `PermanentBansStay` (`AdmissionProofs`): when nobody connects before
  the bans are read. `BanInv` adds `MemoryLeads` to the property: while the bans are
  being read memory is empty, and an INSERT under way carries the live term memory has.
  So a late INSERT cannot put a shorter term over a longer one, and a restart, which may
  keep or lose it, finds a table that the next load can follow. `StepOfBans` first
  reduces the steps of the whole to what they do to the bans.
* `OperatorsLevelHolds`: under every fault. `OverrideInv` adds that whoever ordered a level
  above normal has the override set, which the checks respect when they lower it.
* `AdmissionTyped`: types, under every fault.

* `FleetStaysInCapacity` (`SessionsProofs`): of all the steps only a login and a change by the
  operator touch the fleet (`FleetSteps`). Each is shown to leave it no larger, or to find
  room before it adds one miner (`RegisterFits`) or all those a list newly names
  (`ReclassifyFits`). `Clients` is assumed finite, so that the fleet can be counted.
* `CreditIsFaithful`: `CreditMatchesLogin` speaks of a moment; `Faithful` is the invariant
  behind it: whatever the client does meanwhile, its share in flight is marked, or is still
  for the address registered for it when layer 7 let it through, or its client has named the
  empty address. The last case is the code's (section 4.2), and it is all that is lost: a share
  can go to nobody, but not to somebody else.
* `CountsAreRight`: `CountsMatch` with `FailedIsDisturbed`: the second event of a failed
  socket finds its IP disturbed. A step opens a connection, closes one, or
  keeps both counts and sockets (`SocketSteps`).
* `ClosedIsForgotten`: `CleanInv` adds `RestIsThere` (lines are handled only for a socket
  that is open or destroyed, so that nothing but a late answer touches a closed one) and
  `OneSlot` (a client that logged in once has the slot of its registered address and no other,
  which is the one that is freed).
* `SessionTypes`: `AlwaysTyped` has the types, from which the four theorems above start;
  `LoginsCounted` adds the bounds: no client waits for more answers of layer 8 than it
  made logins.
* `ScoresExplained`, `SecurityTypes` (`SecurityProofs`): for any number of handlers, with
  failing calls, lost keys and restarts. `ScoreInv` has the property for each place a score
  can be: in Redis, in the copy in memory, in the hands of a handler or of the timer between
  GET and SETEX. A lost update or a stale read can take a score back, but only to one
  that fewer findings explain, which more explain as well (`WithinGrows`); and decay
  moves a score towards `Default`, which everything explains.
* `FloorHolds` (`VarDiffProofs`): for any agents, any speeds, and any start, minimum and maximum
  from 1 to 2^24 (`VarDiffAssumption`), in any order and powers of two or not.
  `MinimumKept`: the minimum in force is not below the configured one, nor below the floor of any
  machine named. `SnapBetween`: rounding to a power of two passes no power of two, so
  that a value above a floor stays there; `SnapNear`: it takes a value down by less than a third, and
  up by at most a third, which is what is left of bounds that are no powers of two. `ModelsSound` goes through the
  table: both difficulties of a machine are powers of two, the floor not the higher.
* `BreakerOpensOnFailures` (`OperationsProofs`): `OpensOnFailures` is inductive with its
  types and the finiteness of `noted`, which every event changes by at most one element.
  Nothing bounds the number of callers.
* `EveryEntryKeptOnce`: `AuditInv` restates the property without counting: the
  sequences repeat nothing, the places are disjoint, and together they are the entries
  recorded. `AuditInvKeeps` counts them once.
* `OperationsTyped`: the types, from the two invariants above.

Assumptions on the constants (`PaymentAssumption`, `JobAssumption` and so on, evaluated by
TLC in every run) say that bounds are positive, that there is a client, a nonce and an
aux chain where a definition chooses one, that the sets a proof counts are finite, and
that difficulties are at most 2^24. The models assume besides that random job ids do not
repeat (section 3.4); with four bytes and ten jobs kept, two kept ids are the same about once in
400 million templates.

Only model-checked: the liveness properties, since liveness under fairness and ENABLED
are out of TLAPS's reach: `FailedEventuallyPaid`, `PendingEventuallyDecided`, `KeptIsConfirmed`,
`ShareIsDone`, `AccessReturns`, `ScoreRecovers`, `SettlesOnTarget`, `RecoveryNoticed`. No safety
property of a passing run is left to TLC alone.

## 6. Running

    tlc -config payments_recovery.cfg MCPayments
    tlapm PaymentProofs.tla

Each `.cfg` is for the module `PROJECT.json` names. Operators whose comment begins with
"Wrong on purpose" are mutations: put in place of the definition that
follows them, each makes a run report a violation, which shows that the property looks at it.

## 7. Not modelled

* Multi-coin payment: planned (section 2), and dead as wired.
* Mining: the rows of rejected shares and the Redis counters, because nothing the properties
  speak of reads them; ZMQ, because it is off by default. A job's header and an aux
  tree are abstracted to what they are made from.
* Connections: the framing of lines, the lengths of extranonces, worker names, the wording of
  answers. Sockets, TLS and connection pools appear as faults of their callers.
* Security engine: layer 1 and the connection limits of layer 6, which nothing calls; the
  share rate of layer 6; the statistics behind the findings of layer 5; the ledger of layer 9,
  which nothing reads. `unban` of the banning manager has no caller.
* The advice of firmware tracker and optimizer, which is shown and acted on by nobody (the
  optimizer compares H/s with GH/s, so that it never finds a machine too slow).
* The HTTP API and the WebSocket apart from the routes that change the fleet (`Administer`) and
  the lockdown level (`SetLevel`): they read.
* Logging, alerts and metrics, whose state nothing reads back. One thing read there:
  `alertDelivery.js:154-177` starts the cooldown of an alert before it is delivered, so
  that one whose delivery fails is lost for five minutes.
* Configuration and texts; hashing and address codecs, byte-level functions that TLC cannot
  usefully enumerate; the dashboards and the emulation scripts.
