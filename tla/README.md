# A verification development for onchain-data-mcp

The program is a server (MCP over stdio and HTTP, plus REST) that answers questions about
blockchains by routing each of them to one or several outside vendors. Everything it is
trusted for beyond formatting is decided in a few places: which vendor is asked and when a
failing one is left alone (`crates/routing`), what has been spent of which budget and which
client may still call (`crates/store`), what a caller sees of a reload or a cached answer
(`crates/app`), and what the configuration files hold after an edit (`crates/config`).

## Inventory

| Component | State | Operations | What is hard |
|---|---|---|---|
| Vendor state, `routing/src/state.rs` | per vendor: breaker, `exhausted_until`, token buckets | `breaker_allows`, `quota_block`, `acquire`, `record`, `record_rate_limit` | concurrent requests record in any order; a probe is taken in one place and settled in another |
| Router, `routing/src/router.rs` | the routing table (swapped on reload); per request: candidates, trail, result | `failover`, `quorum`, `aggregate`, `fan_out`, `candidates`, `attempt`, `swap` | error kinds that end, pass or hide; backfilling; retries; cancellation; reload mid-request |
| Counters, `store/src/db.rs` | in-memory totals mirrored by a sqlite thread | `add`, `total`, worker jobs, load at start | check-then-meter, crash with queued writes |
| Hosted clients, `store/src/hosted.rs`, `db.rs` | client records and counters, in memory and in sqlite; per-client token bucket | `authenticate`, `admit`, `create/revoke/set_limits` | read-await-write of whole records; a disconnect between the two writes |
| Quota engine, `store/src/quota.rs` | last reports, alerts already logged | `poll`, `reconcile`, `check_alerts` | two polls at once, a poll over midnight, a poll that fails after one that did not |
| App chain, `app/src/app.rs`, `ctx.rs` | TTL cache, sequence number, metrics | `call`, cache `get`/`insert`, observers | reload and expiry between steps, eviction at capacity, panics, cancelled callers |
| Configuration, `config/src` | `config.toml`, `secrets.toml`, the loaded settings | `load`, `apply_edits`, `write_atomic`, order and budget resolution | two files and no transaction, crash between steps, edits made by hand |
| Dashboard password, `transport-http/src/password.rs` | the password file | `ensure`, `reset`, migration | two processes starting at once |
| Wiring, `server/src` | registry, `ChainIdGuard` cells | build, warm-up, reload | a once-only check that several calls share, one of which fails |
| Operations (`app/src/ops`) and protocol readers (`protocols/src`) | none between calls | about forty tools | several reads of a chain that moves; partial answers; wire formats; calendars |
| Domain (`domain/src`) | none | amounts, chains, errors | which error may be tried elsewhere |
| Vendor adapters, transports | none of their own | translation | outside this development, except for what they can answer |

They interact through calls: a transport calls `App::call`, which asks the guard (store),
looks into the cache and runs an operation; operations call the router through a `Ctx`; the
router calls vendor adapters, which report every request they send back to the router's
`QuotaSink`, and through it to the store. The admin API edits the files and the client
records and swaps the router's table. All of it runs as concurrent tasks.

What makes each of them correct:

* Vendor state and router: a vendor is left alone exactly after enough failures in a row and
  until its pause is over, a quota mark lasts until the reset, the reserve is kept up to the
  calls in flight; a result is an answer some vendor gave, or an error that hides no outage;
  every request returns.
* Counters and clients: nothing admitted goes uncounted except what a crash or a failed
  statement lost; the limits hold; a shown key works until it is revoked, and never after.
* Quota engine: the counters err on the safe side; what has passed a threshold is told.
* App chain: a cached answer was computed for this question, by an endpoint of the right
  chain, and leaves the cache early only when it must.
* Configuration: an acknowledged edit stays; the files always load; what is in use is what a
  load of both files gave.
* Password: all who start agree on it, a migration keeps it, a reset replaces it for good.
* Operations and readers: a payment is settled only on evidence for it; a verdict that is
  called final is; what is said of one block was read at that block; pages lose nothing; what
  is built does what was asked; a missing source is never taken for an all-clear.

## Modules

| Module | Models |
|---|---|
| `VendorState` | one vendor's shared state: breaker and exhausted mark, as operators (`Record`, `Admits`, ...) |
| `Routing` | the router: concurrent requests, filtering, the strategies, attempts, reload, time |
| `MCRouting` | instances of `Routing` |
| `RoutingProofs` | theorems about `Routing`: types, breaker, probes; what the strategies return and spend |
| `ClientDirectory` | what the store promises about client keys: one-step changes, final revocation |
| `Clients` | the hosted clients: records and counters in memory and in sqlite, admin handlers, requests, stop and restart |
| `MCClients` | instances of `Clients` |
| `ClientsProofs` | theorems about `Clients` |
| `PasswordFile` | the dashboard's password file: starts, migration and resets by several processes, with kills |
| `MCPasswordFile` | an instance of `PasswordFile` |
| `PasswordFileProofs` | theorems about `PasswordFile` |
| `ConfigFiles` | the two configuration files and the table in force: edits, loads, reloads, hand-made changes, kills |
| `ConfigFilesProofs` | theorems about `ConfigFiles` |
| `Serving` | `App::call`, the cache and the chain-id guard over the table of `ConfigFiles` |
| `ServingProofs` | theorems about `Serving` |
| `QuotaReports` | the quota engine: overlapping polls, reconciliation, reports, alerts |
| `QuotaReportsProofs` | theorems about `QuotaReports` |
| `Server`, `MCServer` | the composition of the last three, and its instances |
| `Request` | one call of an operation: asked, world, answer |
| `Snapshots` | a chain whose state at each block is fixed and whose head moves between reads |
| `Payments` | `payments_verify_transfer` and the normalization of transactions |
| `TxStatus` | `tx_get` and `tx_status` while the chain grows and reorganises |
| `Sending` | `tx_build_transfer` with Solana's message format, `tx_broadcast` |
| `History` | `wallet_get_transfers` and `payments_list_deposits`, page by page |
| `Issuer` | `stablecoin_check_restrictions`, `compliance_screen_address` |
| `Neobank` | card funding, ledger, exchange rates |
| `MarketHours`, `StockPrice` | the trading calendar; `rwa_price`, `rwa_token_info` |
| `Market` | prices, pegs, metadata and risk put together of several vendors |
| `Trade` | quotes and swaps |
| `Tokens` | `stablecoin_resolve`, `payments_build_request`, `address_validate` |
| `Resolution` | what a configuration means: orders, budgets, vendor status |
| `ChainTools` | balances, chain list and finality, fees, provider health, the old tools |
| `Operations`, `MCOperations` | a call of any of them, and the calls TLC checks |
| `AmountProofs` | lemmas about prices, swaps, calendars, sums, payments and statements |
| `OperationsProofs` | theorems about `Operations` |

`Routing` EXTENDS `VendorState`: the router is the only writer of that state. `Clients`
instantiates `ClientDirectory` with the rows of its table. `Serving` EXTENDS `ConfigFiles`,
because a call depends on the table in force at each of its steps; `Server` adds
`QuotaReports`, which decides by nothing the others write, so that a behaviour of the instance
has the steps of one side or of the other. The modules of the operations EXTEND `Request`: an
operation keeps nothing between calls, so `Operations` is the disjunction of its cases.

### VendorState and Routing

`vendor[v]` is `VendorState` of `state.rs`. The code keeps deadlines and compares them with
the clock; the model keeps the time left to each deadline (`cool`, `mark`), which `Tick`
counts down, so no behaviour is cut off by a last instant. `HalfOpen { probing: false }` is
never written by the code and has no counterpart.

A request `r` is a task with a program counter: `done`, `quota` and `breaker` (inside
`candidates()`, which reads the shared state vendor by vendor under a lock released in
between), `running`. Its trail is `row[r]`, one entry per position of the configured order:
a skip reason, `listed`, one of the three phases of an attempt (`acquire`, `call`,
`backoff`), or the final answer. `NextAsked` is what the strategy asks once nothing is in
flight; `Result` is what it returns. One action is what the task does between two awaits:

| Action | Code |
|---|---|
| `Start` | the head of `failover`, `quorum`, `aggregate`, `fan_out`: the table is taken once |
| `CheckQuota`, `CheckBreaker` | the loop body of `candidates()` up to and from `breaker_allows` |
| `Advance` | the strategy's loop, `route_error`, `provenance` |
| `Acquire`, `Refuse` | `RuntimeState::acquire` finding a token in time or not, then the call, metered by `QuotaSink` |
| `Headers`, `Answer`, `Retry` | `record_rate_limit`, `record` and the retry loop of `attempt()` |
| `Cancel` | the transport drops the future |
| `Swap`, `Tick`, `NewWindow` | a reload, time, a new day or month |

Abstractions: one vendor request of cost 1 per port call; the day and month windows are one;
an answer is a key or an error kind; a token wait either fits `max_rate_wait` or does not.
The composite vendor `rpc` sends no request of its own: the requests behind it are routed
like any other and are other members of `Request`. `seen` is history, read by properties only.

Fairness (`FairSpec`): a task that can run does; a call in flight is answered, because
`attempt()` wraps it in a timeout; waits for tokens and retry pauses are bounded; the clock
advances. Nothing is assumed of callers, reloads, headers or of what vendors answer.

### Clients and ClientDirectory

The store keeps everything twice: in memory behind a lock, where requests read it, and in
sqlite, written by one worker thread in the order of its queue. `disk` and `saved` are the
tables, `mirror` and `usage` the memory, `queue` and `queued` the worker's channel.

| Action | Code |
|---|---|
| `Create`, `Revoke`, `SetLimits` (through `Submit`) | the admin handler up to the await in `Store::call`: it has read the record in memory and queued its statement |
| `Execute`, `ExecuteFails` | the worker runs the statement of the first job and answers its handler |
| `Complete`, `Fail` | the handler after the await: the record it read, edited, goes to memory; the operator is answered |
| `Disconnect` | the handler's future is dropped at the await; its job stays queued |
| `CliCreate` | `clients create` in a process of its own |
| `Authenticate`, `Check`, `Admit`, `Spend`, `Leave` | `ClientKeyAuth::authenticate`, `ClientGuard::admit` up to and from `admit_client`, `CounterStore::add` with a client, the end of the call |
| `Write`, `WriteFails` | the worker runs a counter job, or its statement fails and is logged |
| `Stop`, `Start`, `NewWindow` | a signal, `Store::start` with the check of `wiring::build`, a new day or month |

An `UPDATE` sets one column while memory is given the whole record the handler read; `Written`
and `Remember` keep that difference, and the finding below follows from it. Hosted mode
serves until a signal ends the process, so every stop drops the queue; a stop is that of a
process (what sqlite has committed stays), not of the machine.

Abstractions: counter jobs add to one row and commute, so they are counted, not ordered; of
the counters only the two a limit reads are kept, the day's requests and the month's credits;
a vendor request costs one credit; the per-minute bucket is left open, which allows more than
the code does; the limits of the configuration are constant. `key`, `revoked`, `happened` and
`lost` are history: who was shown a key, which revocations were answered, what was admitted.

### PasswordFile

Each action is one call of the file system made by `ensure_dashboard_password` (`LookForFile`,
`LookForLegacy`, `Rename`, `ReadLegacy`, `Read`, `Remove`, `Create`, `ReadWinner`) or by
`reset_dashboard_password` and `write_atomic` (`WriteTemporary`, `Copy`, `Replace`, `Clean`);
`Kill` ends a process between two of them. There is no lock. A random password is drawn by
one process, so the process stands for it; a password of the environment touches no file and
is left out. `dir0` is the directory as it was found: both files (none, usable, too short, not
sendable), whether it can be written and whether the file system has hard links.

The properties leave out what the source leaves out, a file truncated by hand and a file
system without hard links (`Regular`), and one case more, met while modelling: a migration
that overlaps a reset (`NoMigration`). `ensure` sees no new file, the reset creates it, and
the rename of the old file then replaces the password the reset has printed. No document
promises otherwise.

### ConfigFiles

A text is a function from paths to values, or torn, or missing; `disk` has for each of the two
files its main name and the temporary one of `write_atomic`. `secrets.toml` may hold settings
too, and they win over `config.toml`, as the environment (`Env`) wins over both.

| Action | Code |
|---|---|
| `Ask`, `Begin` | a request of the dashboard; `apply` or `reload` takes `edit_lock`, refuses a path that the environment sets, and reads `config.toml` |
| `Plan` | `plan_edits` reads `secrets.toml`, edits the texts, and refuses what would not load |
| `Create`, `Write`, `Rename`, `WriteFails` | `write_atomic`, first for `config.toml`, then for `secrets.toml`; any of its calls may fail |
| `Install` | the loader reads both files again and the table is swapped; the operator is answered |
| `HandEdit`, `Crash`, `Restart` | an operator's editor; a kill between any two steps; a start that loads or does not |

Abstractions: a path is an atom, so the prefix rule of `locked_by` is a set membership; which
single values load is a set (`Bad`), conflicts between a setting and its alias are `Conflicts`;
`.bak` copies are left out, since nobody reads them; the environment is that of every start.
`acked` is history: what the last acknowledged edit of a path said.

### Serving

| Action | Code |
|---|---|
| `Call`, `Look` | `visible`, the lifetime by the table, the lookup in the cache |
| `Route`, `Check`, `CheckReplied`, `CheckGarbled`, `Pass`, `Refuse`, `Served` | the operation asks its port; the guard's `get_or_try_init` runs one check that the others wait for, and passes or refuses by its outcome |
| `Fails` | the check or the request fails, the operation panics, or the caller goes away |
| `Insert`, `Finish` | the insertion with its sweep of expired entries and its eviction; the reply |
| `WarmUp` | the warm-up's checks at start and reload |
| `Tick`, `CrashServing` | time; a kill, which empties the cache and the cells |

A reload builds new ports, so a call that holds the old table goes on with the old cell. The
client guard is in `Clients`, the router between a call and an endpoint in `Routing`; metrics,
observers and the envelope decide nothing.

### QuotaReports

One vendor with a daily window in its own unit. `truth` is what the vendor has counted, which
includes requests of others with the same key (`UsedElsewhere`); `local` is the counter by
which the router decides, `own` what this server has metered, `witnessed` the most a poll has
been told on the day it asked. A poll is `Poll`, `Answered` or `PollFails`, then `ReadLocal`
and `Reconcile` (the difference is added to the counter that was read before, so two polls may
both add it), then `Publish`; `CheckAlerts` logs each alert of a window once.

### Operations

`Request` has one call: `request` and `world` are chosen from the sets the constants name,
`answer` is the reply or the refusal. `world` is the truth, which operations see only through
their reads. Where an operation reads a chain more than once (`TxStatus`, `History`, `Issuer`,
`Neobank`) each read is an action and the chain may move in between; where what matters is the
judgement on what has been read (`Payments`, `Market`, `Trade`, `Tokens`, `ChainTools`), the
call is one action over every world of the instance.

* `Payments` translates logs (EVM) and account balances and instructions (Solana) into the
  normalized transaction, then `CheckPayment`. Its property compares the verdict with what the
  chain did to the recipient's balance (`BalanceChange`): each log has a sender and a token may
  keep a fee of a transfer, so what the recipient sent on in the same transaction, what it sent
  to itself and what was withheld count, while the code adds up the incoming logs. Where the
  two may differ (not `KeepsInflow`) the property claims no more than a final success, and the
  run `net` shows the difference.
* `TxStatus` has a chain that grows, includes the transaction and replaces its last
  `ReorgDepth` blocks; each read may come from a node `NodeLag` behind. A lookup takes at most
  `LookupMoves` steps of the chain, which the timeouts justify: see `TxStatusAssumption`.
* `Sending` compiles a Solana message (accounts in their order, header counts, instructions
  by index) and reads it back as the chain does; on the EVM target, value, call data and gas
  limit. Nonce and fee are what was read. `tx_broadcast` sends to relays with or without a tip.
* `History` walks through pages with a cursor that is a block or a signature, over ranges that
  vendors refuse, chunks, limits, page ends inside a block, and changes of vendor. Each request
  of a page (the head, each range of logs, each address' signatures) is routed by itself and is
  answered by a node at a height of its own; a listed transaction may come back as null.
* `Issuer`, `Neobank` pin a block and read token by token, or fail to.
* `Market`, `Trade` put vendors' answers together: medians, divergence, freshness, slippage
  and floors, approvals that are already given.
* `MarketHours` counts half hours; daylight saving time, holidays and early closes are those
  of the code's rules. `Tokens` has the registry with its aliases and lookalikes.

Left abstract: hex, base58, ABI words, names and explorers' labels, texts of warnings; amounts
are unbounded here and 256 bits wide, with checked arithmetic, in the code, except where
Solana's `u64` is part of a decision (`MaxU64`).

## Runs

| Run | Instance | Shows |
|---|---|---|
| `breaker` | 2 requests, 1 vendor, budget 2, 1 retry, threshold 2, cooldown 2, full buckets, cancellation | types; the breaker blocks exactly on `Threshold` failures in a row; no probe before a full quiet cooldown, and one that was sent moves the breaker on; the overshoot of the reserve is bounded by the calls in flight |
| `strategies` | 1 request, 3 vendors (`rpc` among them), 2 tables, all errors, 2 keys, 1 retry, full buckets, all strategies | failover's promise; a collection asks for no more than it wants; `rpc` is never blocked; every request returns |
| `probe` | failover over 2 vendors, no cancellation | **violated**: an admitted probe that is never asked blocks its vendor for ever |
| `mark` | 2 requests, 1 vendor | **violated**: a short rate-limit mark replaces the longer quota mark |
| `notfound` | keyless installation | **violated**: NOT_FOUND after one provider |
| `client_edits` | 2 clients, 2 operators, failing statements, 1 restart, no requests | the table implements the directory; answered revocations stay on disk; shown keys work |
| `client_quotas` | 1 client, 1 operator, 2 requests, failing statements, 1 restart | types; a revoked key is refused; counters are accounted for; the quotas hold up to what was lost or in flight |
| `client_revoke` | 1 client, 2 operators | **violated**: a revoked key works again |
| `password` | 3 starting processes, 2 resets, kills, every initial directory | types; all that start agree, and none fails for being overtaken; a migration keeps the password; a reset stays and leaves no copy |
| `operations` | one call of each operation, about every world of the instance | the eleven properties below |
| `net` | one payment on the EVM | **violated**: `net_received` is what came in, not the recipient's balance change |
| `server` | scenes of edits, calls and polls, 2 of each actor | edits are durable and the files load; calls get honest answers; the cache evicts what it must; counters err on the safe side |

Two requests are enough for every interleaving of interest: one that was admitted before the
breaker opened and one that comes later. Threshold 2 has a state below it and one at it;
cooldown 2 lets a late failure fall strictly inside it. `UsedBound` (8) lies above the largest
count the overshoot bound allows (5), so it cannot hide a violation; where no limit applies it
is 0 and the counter is switched off. The strategies run has one request because a request's
result depends on the others only through what filtering finds, and the first vendor's state
is varied by its earlier requests. Deadlock is checked in all runs
but `password`, whose processes end.

A probe that has been sent to its vendor reports back, unless the request that sent it is
dropped (`SentProbeReports`, in `breaker`). That every admitted probe
settles (`ProbeSettles`) is false, and one vendor is enough: between `candidates()`, which takes
the probe, and the call lie a token wait that may be refused without a record (`Refuse`), a
disconnect, and a caller that only looks at the candidates (`peek`, as `fetch_transfers` and a
private broadcast do). With a second vendor it needs none of them, which is the trace of
`probe`: the probe of a candidate that failover did not come to.

In the client runs `QueueBound` (1) bounds the unfinished admin jobs and `StopBound` (1) the
stops. One queued job and two operators suffice for every order of read, statement and write
to memory of two edits: one handler may be between its statement and its write while the
other's job is queued. The theorems hold for every bound. Two requests, with limits of one and
two a day and one credit, reach the limit, pass it and are admitted together. `RevokedRefused`
holds in `client_quotas` and fails in `client_revoke`: one operator against two, which is exactly
the hypothesis of the theorem `RevokedRefusedByOne`.

The properties of `operations`, each about the operations in brackets:

| Property | Says |
|---|---|
| `PaidMeansReceived` (verify transfer) | paid is said only of a success as final as asked and, where what came in is the whole change, exactly of one that changed the recipient's balance of the genuine token by the amount |
| `VerdictIsFinal` (tx status) | settled, finally failed and dropped stay true whatever the chain does later |
| `BuiltMovesAsked` (build transfer) | read by the chain, the message does what was asked, or nothing; a ready one does it |
| `PagesComplete` (transfers, deposits) | who follows the cursors has everything that was there at the start, once, and nothing else, but for what an answering node did not have and two more exceptions that it names |
| `ChecksOfOneBlock` (restrictions, screening) | what is said of a token held, all at once, at the block that is named |
| `ClearMeansScreened` (screening) | an all-clear rests on a source that answered; no token is passed over in silence |
| `CardVerdictOfOneBlock` (card funding) | what is spendable could be pulled at the block that is named |
| `StatementAddsUp` (ledger) | credits less debits are what moved; the fee of each transaction that the account signed is counted once, unless that transaction only brought it something |
| `PricesHonest` (prices, pegs, stocks) | a price lies between those it rests on; stale, closed-market or missing prices are called so |
| `SwapKeepsItsFloor` (swaps) | who signs gets the floor; the approvals left out are not missed |
| `OnlyCanonicalTokens` (resolve, payment request) | a contract is never taken for another, nor a lookalike for the coin |

`operations` checks deadlock nowhere, because a call ends. Its chains have five blocks at most
(`MaxBlocks`, `MaxHeight` 10 for `TxStatus`), which is more than the reads of one lookup can
move them; with a lag of one block, a reorganisation of one and finality at four, the head
moves past finality within a behaviour. Pages have one to three items on histories of up to
four blocks, so cursors fall inside and between blocks and chunks; two sources are the fewest
that can disagree, three the fewest with a majority; `MaxU64` 2 lets sums overflow. The prices
are small integers over a scale of `Whole` (10).

`server` has scenes, each with its budget of events (`Starts`): two edits with one failed
write, one kill and one hand-made change, on files with an old alias or with settings in the
secrets' file; one edit, one failed request and two calls; three calls, for three questions on
a cache of two, while time passes; the same with a kill; calls to an endpoint of another
chain; and two polls of the quota, over a midnight, up to a count of two (`MaxUsed`) with a
threshold at one. Two edits suffice for the order of any two; a third adds a pair of the same
kind. Admins, callers and pollers are interchangeable (`Symmetry`); none is named by a
property. An instance may stop where nothing is under way (`Rest`), and deadlock is checked
everywhere else.

## Findings

| Run | The code | What is said of it |
|---|---|---|
| `probe` | `candidates()` takes the probe of every cooled-down vendor, whether or not it is asked; it then stays half-open | one probe is let through after the cooldown |
| `mark` | the last recorded answer's deadline replaces a later one | a vendor out of quota is skipped until its reset |
| `notfound` | NOT_FOUND is returned after one provider when the others are skipped, or fail | it is confirmed by a second provider |
| `client_revoke` | `set_client_limits` writes the record it read before its await: a revocation that completed meanwhile is undone in memory until the next restart | a revoked key is refused |
| `net` | on the EVM the change of a balance is the sum of the incoming `Transfer` logs (`evm/tx.rs:96`): gross of what the recipient sends on or to itself, and of a fee the token keeps | net balance increase of the recipient (`payments.rs:113`) |

`PROJECT.json` quotes the lines on both sides.

## Proofs

`RoutingProofs` proves, for all sets of vendors, requests and tables and all thresholds,
cooldowns and delays (`ThresholdAssumption`, `DelayAssumption`, `RoutingAssumption`):

* `TypeCorrect`: `Spec => []TypeOK`, one lemma per group of actions.
* `BreakerExact` and `ProbeAfterCooldown` (`BreakerCountsFailures` and
  `FullCooldownBeforeProbe`, of the run `breaker`) and `CompositeFree` (`CompositeNeverBlocked`, of
  `strategies`). `BreakerInv` is inductive: per vendor it relates the breaker to the history
  `seen`, and adds that the cooldown left and the quiet time add up to a full cooldown while
  the breaker is open, without which the probe's timing cannot be concluded. `VendorSteps`
  reduces every step of the router to one of five things that can happen to a vendor, and
  each of them keeps `VendorInv`.

It proves, under the same assumptions, what a request asks and returns: `FailoverPromise`
(`FailoverHonest`) and `CollectionsStop` (`CollectsWhatItWants`). `StrategyInv` says of every request, at every point of
it, that its row is filled from the head of the order (`NoGaps`, `Filtering`); that failover
has asked in that order and passed over nothing but what allows it (`InOrder`); that a
collection in progress has not more answers than it wants, counting those in flight
(`Collected`); and that what was returned is what the row says (`Concluded`).

It also proves `ReserveOvershoot` (`OvershootBounded`), for any number of requests and
retries, if an order names a vendor once and reloads leave the budgets as they are
(`NoRepeats`, `LimitsAlike`; a reload that lowers a budget below what has been spent refutes
the bound at once). A request that has found room may send `Retries + 1` calls to the vendor;
each is a ticket. A call turns a ticket into a count, and tickets are only given out while the
counter is below the limit, so counter and tickets together stay within the bound
(`ReserveInv`).

`ClientsProofs` proves, for all sets of clients, operators, requests and limits and whatever
the bounds (`ClientsAssumption`), these consequences of one inductive invariant,
`Inv == TypeOK /\ RecordsInv /\ CountersInv`:

* `TypeCorrect`; `RevocationStaysOnDisk`, `ShownKeysWork`, `CountersSafe`;
* `DirectoryImplemented`: `Spec => DirectorySpec`, the refinement of `ClientDirectory`;
* `DailyQuota`, whose property is inductive once `CountersInv` bounds what memory may miss;
* `CreditsOvershoot` (`CreditsOvershootBounded`), for any finite number of requests. A running
  request holds a ticket for each credit it may still spend (`Tickets`). Spending turns a ticket
  into a count, and tickets are only given out while the count is below the limit, so that a
  client's credits and tickets together stay within the bound (`CreditsInv`);
* `RevokedRefusedByOne` (`RevokedRefused`), if there is one operator (`OneOperator`). Then what
  a handler has read is still what the disk says when it writes to memory, so that memory does
  not revive a key that was refused for good (`RefusedInv`).

`RecordsInv` says of every edit, from its submission until its handler is done, what it may
still assume (`Sound`): a created id is drawn once, a client to be changed exists on disk, and
limits that were read with a revocation find it on disk. Each part can only become truer as
the disk moves on (`SoundStays`, over `Later`), so the steps of the other handlers need no
argument of their own. Memory is never ahead of the disk (`RowInv`); that the converse fails
is the finding `client_revoke`: without `OneOperator` the theorem is false.

`PasswordFileProofs` proves all six properties of the `password` run, for any number of
processes (`PasswordFileAssumption` only says that the contents are told apart). The
inductive invariant adds to them where a process may be and what it holds (`Places`), what a
file may hold given what was found (`Contents`), that a process which missed the old file's
name finds the new one (`Overtaken`), what a migration under way implies (`Migrating`), that
nothing happens in a directory that cannot be written (`ReadOnly`), and `Agreed`: who is done
holds the file's password or a replaced one. `SamePassword` compares two processes; `Agreed`
compares each with the file, which is what a step can preserve.

`ConfigFilesProofs` proves `EditsDurable` (`ConfigDurable`) for any paths, values, edits,
operators and environments (`ConfigAssumption`). `ConfigDurable` speaks of files at rest;
`FilesInv` adds what a request under way knows: only the holder of `edit_lock` is past `Begin`
(`LockHeld`); what it planned loads and sets what was asked (`PlanLoads`); what it has read is
still on disk but for what it has written itself, unless somebody wrote by hand
(`PlanCurrent`, `HandKnown`); and nothing acknowledged is set by the environment
(`AckedFree`). A kill between the two renames is covered by the lemma `HalfEditLoads`: the new
`config.toml` loads with the old secrets, because settings that exclude each other live in one
file.

`ServingProofs` proves `ServingHonest` (`AnswersHonest`), `ServingDurable` (`ConfigDurable`
again, in the composition: every step of `Serving` is one of `ConfigFiles` or leaves its
state alone, apart from its own kill) and `ServingEvicts` (`EvictsSoonest`). `ServingInv` says
of each call where it may be (`CallsFit`: who checks a port is alone at it, and it has no
verdict yet; who asks does so at an endpoint of the right chain), of the cells that a port has
one verdict, and a good one only when it deserves it (`Verdicts`), and of the cache that it
holds at most `Cap` entries, each an honest answer to its question (`CacheHonest`).

`QuotaReportsProofs` proves `CountersErrSafe` (`NeverUnderCounted`) for any vendor limits,
thresholds and any number of polls at once. The invariant bounds what a poll in progress holds:
the local total it read is not above the counter, and what it was told is not above what has
been witnessed for its day, so that adding the difference leaves the counter at least there.

`OperationsProofs` proves its theorems of the specification the run checks, `Operations!Spec`,
whatever the other operations do in it. `CallInv` is the conjunction of the invariants of the
proved operations, each said of its own calls only; a step belongs to one operation
(`StepsOfOwnOp`) and leaves the calls of the others as they were (`StepsOfOtherOps`). The cases
an instance starts with are any that satisfy `OperationsAssumption` (the calls of `ChainTools`
are of its operations) and the assumption of their module, which says what a world is made of.

* `VerdictsStay` (`VerdictIsFinal`), for all lags and reorganisation depths with
  `TxStatusAssumption`: finality lies deeper than a reorganisation, a node's lag and the moves
  of one lookup together. `StatusInv` carries, for every point of a lookup, how far the chain
  may have moved since its first read (`InTime`), and what the receipt or the absence of one
  then still implies (`ReceiptHolds`, `StatusHolds`, `UnseenHolds`), up to the verdict
  (`VerdictHolds`).
* `ResultsOfOneBlock` (`ChecksOfOneBlock`) and `ClearIsEarned` (`ClearMeansScreened`), for any
  tokens, controls and states of a chain (`IssuerAssumption`). `IssuerInv` says of a check under
  way that what it has noted of each token is what held at a block the chain has, that the tokens
  are done in their order, and who has been heard (`Midway`).
* `CardVerdictPinned` (`CardVerdictOfOneBlock`), for any states of the chain
  (`NeobankAssumption`). `CardInv` says what is known after each of the reads, in either order
  (`CardPlaces`, `CardReads`).
* `CanonicalOnly` (`OnlyCanonicalTokens`), for any registry in which a symbol or contract names
  one entry of a chain (`RegistryAssumption`).
* `PricesAreHonest` (`PricesHonest`) and `SwapsKeepTheirFloor` (`SwapKeepsItsFloor`), whose
  steps `AmountProofs` has. No invariant beyond the types of the call is needed, since these
  operations are one step each; what has to be shown is that the step is right for any vendors
  (`StockAssumption`, `MarketAssumption`, `TradeAssumption`):
  * the median is a pair of order statistics, each of which some source gave (`KthIs`,
    `MedianBetween`), so it lies between two sources, fresh ones when any is;
  * the first of the ranked quotes is valid and no other valid one outranks it (`FirstIsBest`);
    a vetted quote guarantees what was asked up to rounding, and an exact one is always vetted
    (`GuaranteeHolds`, `ExactIsValid`, from a lemma on quotients); a spender's last approval
    decides its allowance, and where it is dropped as already covered the allowance at hand is
    no less (`NothingMissed`);
  * the end of the last session is the end of the last open half hour (`LastOpenIs`). With the
    clocks changing on Sundays, a local closing time is one moment (`EndIs`), everything before
    it on the clock is before it (`BeforeEnd`), and no change puts the clocks back over the
    start of a session (`StartLasts`); two weeks always hold a session that has ended, because
    after a holiday there is a trading day within four days (`CalendarAssumption`, which the
    code's table satisfies; `SomeTradingDay`).
* `PaidIsReceived` (`PaidMeansReceived`) and `StatementsAddUp` (`StatementAddsUp`), for
  transactions and statements of any length. Their totals are sums over the positions of a
  sequence. Induction over them is said of a set of sets (`FiniteInduction`: a set of subsets of
  a finite set that has the empty one, and any whose subsets with one element less it has, has
  the whole), which is first-order; from it a sum unfolds at any element (`SumTakes`, `SumAny`),
  adds, and may be renamed or regrouped (`SumAdds`, `SumRenamed`, `SumRegrouped`).
  * On the EVM a payment is judged by the sum of the incoming logs (`Gross`), which is the
    change of the balance where nothing of the token goes out and no fee is kept
    (`GrossIsChange`, under `KeepsInflow`); on Solana by the difference of the balances of the
    owner's accounts, with what the owner paid in fees put back (`SolanaDelta`).
  * Which transactions the account signed is said by the chain, not by the rows: those without
    a row that is not a credit are the exception `OnlyReceives`. A fee is on the first row of its transaction and there is one first row (`FirstRow`,
    `OneFirstRow`), so summing the rows counts each transaction once.
* `PagesLoseNothing` (`PagesComplete`), for any chain, range, limit, chunk and lag, and whichever
  node answers each request. What a node that answered had not seen is `missed`; a scan has, at
  each of its turns, all that is wanted above where it goes on, read or missed (`ChunkReads`,
  `ScanReads`), whatever is halved or refused. Of Solana's merged lists, what an address has not
  listed yet lies below what is kept of the page, since a full list has that many entries above
  it (`TopHasMany`, `NewestAre`, `MergedComplete`). So a page that ends at a cursor accounts for
  everything above it (`PageGood`), the walk, from whichever vendor, for what was due above its
  cursor (`Walked`), and it brings nothing again that lies above the cursor unless it began
  anew; a new block is above what was due at the start (`NewBlockStep`).

* `BuiltAsAsked` (`BuiltMovesAsked`), for any transfer, memo and recipient (`SendAssumption`).
  Its main lemma, `CompiledReads`, is about any instructions over any keys: the compiled message
  names the keys each of them named, a key signs or may be written exactly when one of its uses
  says so, and the payer is the first key and signs. The concatenated lists have the elements of
  each (`FlattenHas`, `MetasAre`), merging leaves one entry for each key (`MergedIs`), the stable
  sort puts the entries in places that are a bijection (`PlacesAre`, `SortedIs`), and as the four
  classes are neighbours in it, three counts tell the class of a place (`HeaderIs`). What the
  chain then makes of a transfer's instructions follows by cases (`SolanaMoves`, `EffectIs`).

Only model-checked: the two liveness properties, `SentProbeReports` and `RequestsReturn`, which
are out of the prover's reach, like everything about fairness.

## Limits met while modelling

Where the models follow the code and a reader might expect otherwise:

* Routing. When every candidate is skipped because its breaker is open or its quota spent, the
  answer is `UNSUPPORTED_CAPABILITY` (`router.rs:620`), though it is an outage. `market.rs:46` says
  that a price is unknown only when every vendor that was tried does not know the asset; the
  code looks at the last error, so an outage before it does not show. The runs and
  `ReserveOvershoot` assume that an order names no vendor twice, which the loader does not
  check (`loader.rs:327`); a quorum over an order that does may count one provider's answer
  twice (`docs/TECHNICAL.md:169`). A private broadcast and `fetch_transfers` take their
  candidates twice, in two looks at the vendors' state.
* Reloads. `ctx.rs:22` says that a request holds one table; each call of the router takes the
  table of its own moment, so a request may mix two. A slower call may overwrite a newer cached
  answer by an older one, and the lifetime is read before the operation runs. A garbled reply
  to the chain-id check disables the port until the next reload, like a mismatch.
* Edits. A failure or a kill between the two renames leaves half an edit on disk; it loads,
  and the next successful edit installs it. An acknowledged edit of a setting that
  `secrets.toml` masks has no effect (`Hidden`). A change made by hand between an edit's read
  and its rename is lost.
* Quotas. Two polls at once both add the difference, which errs on the safe side. After a poll
  that straddles midnight, yesterday's usage counts in today's report and alerts until the
  next poll. After a restart alerts repeat.
* Clients. A client's day and month are counted by two statements without a transaction
  (`db.rs:673`); what another process writes is seen at the next start (`db.rs:254`).
* Transfers. `payments_list_deposits` says to poll with the cursor, which walks backwards. Every
  request of a page may go to another vendor: the logs of a node that lags behind the head are
  lost without a word, as `logs.rs:21` says, and so is a transaction that is listed and comes
  back as null (`rpc_vendor.rs:215`), a page of signatures newer than `to_block`, a tie inside a
  slot, or what an account that is closed by now received. A vendor that is not a candidate when
  the cursor is looked at and answers nevertheless repeats its first page, with `cursor_reset`
  false (`wallet.rs:380`). `PagesComplete` names its exceptions; ties and closed accounts are
  outside its model.
* Payments and statements. `KeepsInflow` and the finding `net` tell where the EVM's received
  amount is not the balance change. `neobank.rs:459` promises the fees that the account paid;
  those of transactions that only brought it something are not looked up, and the fee of a
  transaction whose rows fall on two pages is listed on both.
* Issuer and card checks on Solana read accounts and mint one after the other and name the
  slot of one; peg checks count zero prices and stale ones.
* Swaps are ranked by the amount bought; approvals of zero (resets) are dropped. The registry
  checks a new symbol against earlier aliases, but not a new alias against earlier symbols.

## Not modelled

Rendering, logging, the dashboard's pages and the HTTP and MCP framing keep no state of their
own. Vendor adapters translate requests to outside services; `Routing` lets them answer
anything the port allows. Latency averages and metrics are read by people only, as are audit
rows and the 30-day series of the store. The floating-point refill of token buckets is left
open, which allows more than the code does. `tx_simulate` is modelled as the step of
`tx_build_transfer`; Solana's fee estimate, the reshaping of the old tools' JSON and the
TOML text are not. The test kit holds doubles only. `PROJECT.json` says for each part what is
covered, and at which lines.
