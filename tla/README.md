# A TLA+ model of ports-box

ports-box forwards TCP and UDP ports for several users, meters what each user
moves, stops a user at the quota, falls over between targets, can take its
quotas from a cloud provider's traffic packages, and reloads its config from a
file and from a web panel. It is one process of many tokio tasks that share
atomics, mutexes, watch channels and a SQLite file. What is hard to test in it
is what this project models: tasks that interleave between two accesses, state
read before an `await` and used after it, failures and crashes between two
steps, and things that must eventually happen.

Paths below are relative to the repository root's parent, as in `PROJECT.json`
(`src/src/quota.rs` is the crate's `src/quota.rs`). `PROJECT.json` maps every
definition to the lines it models and lists runs, mutants, hazards, findings and
theorems.

## 1. Inventory

| Component | State it keeps | Operations | Hard part |
|---|---|---|---|
| Quota meter, `quota.rs` | limit, metering, lifetime totals, settled sum, the open hour's buckets, flag and watch channel | `try_consume`, `roll_over_at`/`settle_to`, `used`, `set_limit`, `set_metering`, `snapshot`, restore | lock-free: every access interleaves; hour boundaries; crash and restore |
| Target pool, `pool.rs` | `healthy` per target, `active` watch value, last confirmations, cooldown timers | `mark_up`, `mark_down`, `confirm`, probe rounds | flips racing; who re-arms a target; sessions following the active target |
| Ledger, `ledger.rs` | the book: balances, baselines, package records, remaining | `reconcile`, `allocate`, `transfer` | rounding, packages that come and go, users that come and go |
| Accounting engine, `accounting.rs` | the book in memory, `RemoteLimits`, status | sync, transfer, allocate, commit, `apply_limits`, config events | awaits of the provider and the database with the main task running meanwhile; failed saves; crashes |
| UDP relay, `udp.rs` | session map (opening/open), a task per session | dispatch, forward, open, relay, remove | order across opening and open; who owns an entry; bounds |
| TCP relay, `tcp.rs`, `pipe.rs` | per-connection copy loops, idle pipes of each worker | accept, `connect_active`, counted copy, splice, lease and release of pipes | partial and blocked calls; pipes that move from one connection to another; half-close, quota and rule removal while copying |
| Runtime, `runtime.rs` | rules with their sockets, user set, pools | `apply`, `start`, `watch_config` | a failure half way; sockets handed over; ordering against the engine |
| Config store, `main.rs`, `panel.rs` | `live` config and revision, panel store file, `file_raw` | reload, save with undo, restore at startup | two sources of truth, crash between write and apply, stale pages |
| State file, `state.rs` | usage rows, book, entries, last flushed snapshots | load, flush, checkpoint, the flush task, `save_book` | two tasks that flush; what a crash or power loss loses; rows of removed and re-added users |
| Panel, `panel.rs` | sign-in sessions | gate, token link, sign-in, sign-out, ledger commands, config edits | requests of one session between two holds of its lock; expiry; restart |
| Config, `config.rs` | none | parse, check, unfold, resolve quotas, sizes | floating point and widths; rules across users |
| Provider client, `volcengine.rs`, `provider.rs` | none beyond a call | fetch page by page | I/O; a fetch fails or returns |
| API, DNS | none | HTTP handlers, resolving | pure or I/O |

How they meet: relays call `try_consume` and watch the quota's and the rule's
channels; `connect_active` and the relays report to the pool; the main task
applies configs to the runtime (which sets limits on the meters) and publishes
`live`, which the panel shows and the engine watches; the engine sets limits on
the same meters and shares `RemoteLimits` with the runtime; the flush task
snapshots the meters.

## 2. Modules

| Module | Models | Granularity |
|---|---|---|
| `Quota` | one user's meter with relay tasks, API handlers, controllers (main task, engine) and the flush task | one atomic access per step |
| `QuotaRace` | `Quota` without crashes, with a history variable, for how far tasks overshoot the limit | as above |
| `MCQuotaRace` | `QuotaRace` with the symmetry of its tasks for TLC | |
| `Pool` | one rule's targets with TCP connects, UDP sessions, probes and cooldown timers | the flip and the recomputation under `health_lock` are separate steps; a dial is one |
| `Ledger` | the book as pure operators | one call |
| `Accounting` | `Ledger` with the engine, the main task's apply, traffic, the provider and crashes | what happens between two awaits; the half steps of `commit`/`apply_limits` and of `apply` that other threads see are separate |
| `MCAccounting` | configs and packages for TLC | |
| `UdpRelay` | one shard of a UDP listener and its session tasks | between two awaits, or one hold of the map's mutex |
| `ConfigStore` | file, watcher, panel pages, store and the main task | between two awaits; each file operation and `apply` is a step that may fail |
| `MCConfigStore` | files, edits and acceptable configs for TLC | |
| `Streams` | abstract: what a connection promises, two ordered byte streams, each cut only for a cause | |
| `TcpRelay` | the TCP side of a rule: accept loop, copy loops, pipes; implements `Streams` | between two awaits |
| `Config` | `check` and `resolve_quotas` as pure operators | one call |
| `Amounts` | sizes, the split of a bill, sessions per shard | one call |
| `Inputs` | families of small configs and numbers, and the reference `Config` and `Amounts` are compared with | |
| `RuleSwitch` | `Runtime::apply` over rules and sockets, and the tasks that hold them; extends `Config` | between two awaits, one bind at a time |
| `MCRuleSwitch` | `RuleSwitch` with the configs `Config` accepts over two addresses, and `Inputs` | |
| `StateFile` | usage rows: flush task, `apply`'s load and flush, stop, crash, power loss | a snapshot under the lock and its commit are separate steps |
| `PanelSessions`, `MCPanelSessions` | sign-in sessions with concurrent requests | one hold of the session map's lock |
| `QuotaProofs`, `PoolProofs`, `UdpProofs`, `TcpProofs`, `AccountingProofs`, `StateFileProofs`, `PanelProofs`, `ReloadProofs` | inductive invariants and theorems of the module each extends; `ReloadProofs` extends `RuleSwitch` and `ConfigStore`, whose `Init`, `Next` and `Spec` are called `StoreInit`, `StoreNext` and `StoreSpec` for that | |

State and actions keep the source's names where TLA+ allows it. Some choices a
reader should know:

* **Quota.** `pc`/`call`/`view` are the program counter, arguments and partial
  reads of each actor's current call; `held` and `snap` are the locals of the
  (single) holder of `settle_lock`. `Due` is what the user owes at an instant,
  with an hour that a rollover has taken out of the buckets still counted: the
  yardstick all billing properties compare with. Integers are unbounded; the
  `u64` sums would need 2^64 bytes. Memory accesses are sequentially
  consistent. The code orders the two that matter, `settled` and the buckets,
  with Release/Acquire; the rest are relaxed, so results that compare *other*
  pairs of atomics hold up to that assumption. The clock only moves forward by
  an hour; a change of the time zone is not modelled.
* **Pool.** A target's confirmation is `recent` or not instead of a timestamp,
  which is all `needs_probe` asks. Timers count ticks. `up` is the environment.
  A TCP dial succeeds exactly if the target answers; opening a UDP session
  also succeeds on a dead target.
* **Accounting.** Usage is one number per user (`Quota` has the detail), the
  sync interval is any moment, the provider may sell, drain, use up or expire
  packages between two fetches, and the rows a restart finds are any earlier
  reading. Traffic moves any number of bytes at a time, past the limit too if it
  starts below. `msnap` and `ecfg` are the values read before an await. `Starts` are
  the books and packages a process may find: an empty state file, or a `Sound`
  book, one whose remaining traffic is that of its effective packages, none of
  which has grown since, and in which only users of the book have a balance.
* **UdpRelay.** A datagram is its number; the pool and the quota appear as
  outcomes of a send or receive. `Breaks` gathers every way a relay ends other
  than idling, exhaustion and removal.
* **ConfigStore.** A config is what the panel can edit plus the rest of some
  file; `Accepts` are the configs `config::check` passes. A store that is not
  JSON is `Torn`: that is what overwriting it in place can leave. Every operation
  on it may fail, and the code only logs that: one that cannot be read at startup
  is ignored, one that cannot be read before a save counts as missing, one that
  cannot be removed (`remove_store`, called at startup, after an accepted file and
  after a save that did not apply) stays, one that cannot be put back is lost.
  `spoiled` is history: such a failure has left the wrong store, and no save has
  replaced it. A page that saved has the revision and the config it was answered.
* **TcpRelay.** Bytes carry their flow and number; a pipe is the sequence of
  bytes in it, so a byte in the wrong stream or order is visible. `Limits` are
  what the quota may be set to, up or down, while relays run. A rule that goes
  closes its backlog; where its listener is handed to a rule of the next config
  (`RuleSwitch`), those connections are that rule's and no longer this one's.
  `RelaysStreams` is the
  refinement `S!SSpec` with `S == INSTANCE Streams`: what a sink has received is
  a prefix of what its source has sent, the end of one direction lets the other
  run on, and a connection is cut only for a cause (an I/O error, the quota, the
  rule), which `link` and `cause` map to `Streams`.
* **RuleSwitch.** A socket is an address, a protocol and, for the UDP sockets of
  a rule, which are used together, a number; a bind succeeds only if no rule and
  no lingering task holds the port, and may fail anyway. `stopping` counts the
  tasks of removed rules that still hold a socket. `at` is the place in the new
  config of the rule that `apply` looks at; `pc` is the kind of socket it asks
  for.
* **StateFile.** A user that is removed and added again gets a new quota object
  (`Gens` of them); a flush holds objects, a row belongs to a user. `since` are
  the tables a power loss may leave: every one committed since the last
  checkpoint. A checkpoint that returns is complete: the code does not look at the
  pragma's busy column, and only a reader outside the process could make it so.
  `marks`, `promised`, `writer` and `moved` are history.
* **PanelSessions.** Ids are numbers that are never issued twice (32 random
  bytes). Time is a counter, `SESSION_TTL` ticks long sessions. The four
  combinations of token and login are initial states.
* **Amounts.** Widths are scaled: an integer of `Width` bits and a float with
  `Bits` of mantissa in place of 64 and 53; units are `UnitBits` apart in place
  of 10.

## 3. Runs

| Run | Expect | Properties | Bounds, and why they are enough |
|---|---|---|---|
| `quota_meter` | pass | `TypeOK`, `NeverOverbilled`, `NoEarlyCutoff`, `SnapshotNotAhead`, `SnapshotNotTorn`, `BillMovesOnlyWithTraffic` | one relay, one API handler, the flush task, two hours, two bytes, crashes at any step: a reader, a rollover and a snapshot overlap. All six are also proved without bounds |
| `quota_race` | pass | `BytesNeverLost`, `OvershootBounded` | two relays, three hours, both sums: tasks race with two rollovers. No restart (a crash does lose bytes). Both are also proved, for any tasks, hours and buffers |
| `quota_control` | pass | `LimitEnforced` | one relay and one controller with two limits, none, and two billing rules; datagrams of size 0 let traffic go on at the byte bound |
| `pool` | pass | `TypeOK`, `ActiveNotStale`, `RecoveryPending`, `FailoverSettles`, `SessionsFollow` | two targets, one caller, two timers, both kinds of rule; the caller, both probes and both timers flip concurrently. `SessionsFollow` asks that a session on a target that is no longer active ends, not that it answers once more. The first three are proved for any number |
| `accounting` | pass | `CreditedOnce`, `LimitsMatchBook`, `SyncConserves`, `GiverKeepsWhatIsSpent` | two users, two packages of one and two bytes (odd shares occur), two engine operations and one config change or crash at any point; from an empty and from a migrated state file. All four are also proved, for any users, packages, configs and numbers, those with traffic past a limit included, which one byte per user cannot show (with `MaxUsed = 2` the run passes too, on 1.3 million states) |
| `udp` | pass | `InOrder`, `EntryOwned`, `OpeningResolves`, `StopDrains` | two clients for one slot, two session tasks, queue and batch of two, four datagrams: a slot is reused while its former relay still lives |
| `store` | pass | `RestartKeepsConfig`, `NoLostUpdate`, `FileIsHeard` | three file contents (one that does not parse), two edits (one that only checks over one file), two pages, two edits of the file, two saves, one restart, every operation on the store failing or not: a file may be changed back to the one a dropped store was saved over |
| `tcp` | pass | `ByteExact`, `RelaysStreams`, `RemovalCloses`, `AllArrives` | one connection whose two loops compete for one pipe, two workers, three bytes through a pipe of one or two: writes are partial, a loop moves between workers, one direction falls back to copying, the quota changes between two, which is used up, and four. A second connection would see the first one's pipes only through the pool, which `ByteExact` says is clean; `ByteExact` and `RelaysStreams` are proved for any number |
| `rules` | pass | `AllOrNothing`, `RulesHaveSockets`, `UnchangedUntouched`, `AcceptedAreSound`, `AmountsAddUp` | three configs in a row, of up to three rules over two addresses (changed target or protocol, removed, in another order), two UDP shards: a stopped task lingers over the next apply. The first three are proved for any configs. The last two do not depend on the state and are evaluated in the first one: every config of four families (listeners, shorthand, quotas, accounting), every size of 11 bits with 8 of mantissa, bills up to 12 each way, 40 sessions on up to 8 shards |
| `rules_handover` | violation | `HandedOver` | as above with one shard |
| `state` | pass | `FilterIsExact`, `PowerLossKeepsHours`, `RemovedAreSaved`, `CountedIsSaved` | one user (rows are independent) with two quota objects, two bytes, four configs, one hour, one stop, crash or power loss: a delayed flush meets the later object |
| `panel` | pass | `SessionsAreExact`, `OverForGood` | one browser, two requests at a time, three sessions, sessions of two ticks out of three, one restart; all six kinds of request, all four kinds of credentials |

In the modules after `Pool` the type invariant, and smaller facts that belong
to a property, are named parts of it: `MapBounded` of `EntryOwned`,
`LiveIsRunning` of `RestartKeepsConfig`, `PipesClean` of `ByteExact`, `Rearmed`
of `FailoverSettles`, `NeverCountedTwice` of `PowerLossKeepsHours`,
`OverIsRefused` and `SignInLasts` of `SessionsAreExact`. Deadlock checking is off
where the bounds stop the system and on for `pool` and `udp`. Every property of a
passing run has a mutant in `PROJECT.json`: a plausible bug in a mapped
definition that makes TLC refute it.

### Where the code and its documents part

One disagreement is a run of the project:

* **`rules_handover`** For each added rule `apply` takes the spare TCP and the
  spare UDP socket of its address, and drops the one its protocol does not use.
  With a TCP and a UDP rule at one address, the first to be prepared throws away
  the socket the other one needs; the second then binds an address that its old
  task still holds, and the reload is rejected. `src/README.md:295`: "The
  listening socket is handed over, not rebound".

Seven more are narrower races or corner cases. The formula a document suggests is
stated in its module, and the configuration named here makes TLC refute it; no
passing run claims it.

* **`RaisedQuotaResumes`** (`Quota`, `quota_raise.cfg`) A `try_consume` that
  loaded the old limit may store the flag and send the watch value after
  `set_limit` cleared both. The user then stays stopped below the new limit,
  since nothing looks again until the limit changes. `src/README.md:296`:
  "raising a quota re-enables an exhausted user".
* **`HourClosedOnce`** (`Quota`, `quota_hours.cfg`) `roll_over_at` acts on any
  difference between `bucket_hour` and an hour captured before the call may have
  waited, so a delayed task closes the new hour and reopens the old one. The bill
  of the open hour is then summed over pieces, which under `max` can exceed the
  larger direction of the whole. `src/src/quota.rs:68`: "each local wall-clock
  hour is one billing period".
* **`OfflineUsesQuota`** (`MCAccounting`, `accounting_offline.cfg`) A sync that
  was waiting for the provider when the mode was switched to offline sets the
  balances as limits afterwards, from its own copy of the config; the engine's
  reaction to the new config does not undo it. `src/README.md:286`: "Switching
  back to `offline` uses `total_quota` and `quota` again".
* **`SingleUserHasItAll`** (`MCAccounting`, `accounting_single.cfg`) Removed users
  stay in the book, and the sweep of single-user mode subtracts their balances.
  `src/README.md:279`: "the balance always equals the provider's remaining
  traffic".
* **`SessionsBounded`** (`UdpRelay`, `udp_sessions.cfg`) A failed send takes the
  session out of the map at once, its relay and socket live on until they idle
  out. `src/README.md:231`: "at most 4096 concurrent sessions".
* **`StopLosesNothing`** (`StateFile`, `state_stop.cfg`) At a stop the final flush
  is asked for while the relays run on; what they count after the flush has read
  the counters is lost. `src/README.md:386`: "so no counters are lost".
* **`RemovedLoseNothing`** (`StateFile`, `state_removed.cfg`) The relays of removed
  rules are told to stop, not waited for, before the removed users are flushed;
  what they count afterwards is in no row. `src/README.md:298`: "removed users
  have their usage flushed to it first".

### Fairness

Weak fairness of every task that can go on: tokio polls ready tasks, dials and
sends end (`CONNECT_TIMEOUT`), timers fire. Clients, replies, failures, the
provider, the operator and crashes get none; the one exception is that
`LimitEnforced` assumes a user who goes on sending (`Consume` is fair), since
nothing else would look at the limit. The strong ones:

* `Fire` of `Pool`, because the timer competes for `health_lock`, a mutex held
  for a few instructions between dials and cooldowns; the steps of its callers for
  the same reason; and `active_moved`, the arm of `relay_downstream`'s select that
  sees the active target change: `tokio::select!` picks among ready arms at random,
  so replies cannot pass it over for ever;
* `ReloadBegin` of `ConfigStore`, because `tokio::select!` picks among ready
  arms at random, so an arm that is ready again and again is taken;
* `Leave` of `TcpRelay`, because its biased select asks for the removal first each
  time the loop comes round, so failing accepts cannot pass it over for ever;
* `Commit` of `StateFile`, because `CountedIsSaved` speaks of a database that can
  be written to again: a disk that stays full for ever saves nothing.

`OpeningResolves` holds within the bound on datagrams: a client that outpaces
the draining loop for ever keeps its session opening.

## 4. Proofs

Checked by TLAPS for every value of the constants, under the named assumptions
of the modules: types of the constants, kinds of tasks and values that are told
apart (`NoTask` is no task, `Torn` no store), non-empty sets where the code has at
least one (a client, a page, a clock that starts). The bounds that keep TLC's
state spaces finite (`MaxBytes`, `MaxPackets`, `MaxTime`, ...) are arbitrary
numbers in the theorems. Each theorem follows from one inductive invariant of its
module, which TLC checked on small instances before it was proved; the proof that
a step preserves it has a lemma per action or per group of like actions.

* **`QuotaProofs`** `TypeCorrect`, `LockSafe`. `TypeInv` adds to `TypeOK` that
  the limit `set_metering` is about to store back is a legal one.
  * `UsedNeverOverbills`, `RestoreNeverOverbills`, `SnapshotsAreWhole` and
    `RolloverIsNeutral`, from `BillInv`. `NeverOverbilled` is not inductive: a
    reader half way through `used()` may already hold uploads of a bucket that
    has since been emptied. `StillDue` says why that is harmless: what it has
    seen is still in the bucket, or in the rollover's hands, or its settled sum
    is so old that the new one covers both. `HeldInv` ties `held` to the
    rollover's program counter, `SnapInv` the snapshot under construction to the
    meter. They assume `FixedMetering` (the billing rule stands), since changing
    the rule reprices the open bucket.
  * `NobodyIsCutOffEarly`, from `BillInv` and `CutInv` (a flag or a pending
    announcement implies that the limit is reached), assuming that nobody changes
    the settings. With `set_limit` it is false: that is `RaisedQuotaResumes`.
  * `NoByteIsLost`, from `KeptInv`: the bytes of a call between its two additions
    are a finite set, to which each call adds and takes its own. It is about
    `RunSpec`, runs without a restart, since a crash does lose what was not saved.
  * `OvershootIsBounded`, from `RaceInv`, a charge: a task is charged one unit for
    each buffer that leaves the bill at or past the limit, and one for each
    rollover it performs. To move a buffer past the limit twice a task must have
    read too little, which takes a rollover by another task, so that after R
    rollovers nobody has been charged more than R + 1 (`ThreadInv`); the units
    charged are the rollovers and the buffers past the limit, and no more than
    R + 1 for each task. It assumes `Racing`: the limit and the rule stand, tasks
    and the flush task are different, there are finitely many tasks, and buffers
    have a largest size. `reopened` keeps out the runs of `HourClosedOnce`.
* **`PoolProofs`** `PoolTypeCorrect`, `ActiveIsCurrent` and
  `DownIsNeverForgotten`, from `PoolInv`: the type invariant, that exactly the
  holder of `health_lock` is between its flip and `update_active`, that the loop
  of `connect_active` stays within N dials, that probe i works on target i, and
  that a probe runs only in its round.

* **`UdpProofs`** `EntriesAreOwned` and `DatagramsInOrder`, from `UdpInv`.
  `OwnInv` says of every entry which task answers for it, that a client has at
  most one opener, and that a datagram being forwarded goes to a client whose
  entry is not opening. That last part is what `InOrder` turns on: it is why a
  forward can never overtake a queue. `OrderInv` then lines up all a client's
  datagrams: those on the wire are older than the one in hand or the batch taken,
  which is older than the queue, which is older than what is yet to be
  dispatched. `CountFacts` shows that the numbers given to a received batch
  increase.
* **`TcpProofs`** `RelayImplementsStreams`: `Spec => RelaysStreams`, from `TcpInv`.
  `PipesInv` says that a pipe is in one pair of hands or in one worker's pool, and
  empty there; `LoopInv` when a loop runs and when its end has been passed on;
  `DataInv` that what has gone out, what is in hand and what is unread are one
  stream. Every action is then matched with a step of `Streams` or a stutter.
  `CountedToTheByte`: `ByteExact`, from `TcpInv` and `CountInv`: `used` is the
  number of bytes the loops have taken, what a flow has taken and not passed on is
  at most what its pipe or buffer can hold, and a loop that has taken nothing has
  nothing in hand.
* **`AccountingProofs`** `SplitIsExact` is about `split_by`, which every credit,
  charge, forfeit and migration goes through: it hands out exactly the amount. The
  floors fall short of it by less than one for each share (the remainders sum to
  a multiple of the total weight); the ranks by remainder are all different
  (`RankFacts`), so exactly as many shares are rounded up as units are left
  (`FrontRow`). Sums over sets are the folds of the community modules; what they
  return (`TotalFacts`), and that they can be taken apart, extended and swapped,
  is proved by induction over finite sets, written as the membership of the
  whole set in a set of subsets (`SetInduction`).

  The four properties follow from `Inv`. `Typed` has the types, and
  packages that keep their size and stay within it. `Credited` ties the
  entries on disk to the credits of the book on disk, and the entries in hand to
  the two books the engine stands between: that is why a sync that is repeated
  after a failed save or a crash enters nothing twice (`CreditIsEnteredOnce`).
  `Limited` says that the limits are the book's unless the engine is about to
  apply them again: the main task may set limits from an old snapshot, but its
  publishing then wakes the engine (`BookIsEnforced`). `Sounds` says that every
  book the engine has, saves or works on is `Sound` for what the provider lists.
  With it `TrafficBalance` shows that the drop that `reconcile` charges is never
  negative, so that the clamp to 0 loses nothing, and `SettleConserves` adds up
  credits, charge and forfeits (`SyncsConserve`). `GiversKeepWhatIsSpent` needs
  only `Typed`. Assumed are the types of configs and amounts, that the snapshot
  "no limits yet" is not a table of limits, and that `Starts` are sound.
* **`ReloadProofs`**, of `RuleSwitch`: `ReloadIsAtomic`, `EveryRuleListens` and
  `UnchangedRulesLive`, from `SwitchInv`. `DomainInv` says which rules run and
  which are prepared at each point of `apply`; `SocketInv` who holds a socket: one
  running rule, or one prepared rule to which it was handed over from a rule that
  is to go, or a lingering task; `NumberInv` that there is always a number left
  for a new UDP socket. They rest on `ConfigsAssumption`: rules that get to
  `apply` are well formed and no two of one config listen on one socket. That is
  what `validate` ensures, which `AcceptedAreSound` checks; without it the rules
  would be bound to collide.
  Of `ConfigStore`: `RestartsKeepConfig` and `NoUpdateIsLost`, from
  `ConfigInv`. The heart is `StoreInv`: unless it is spoiled the store belongs to
  the published config, except between a save's write and its end, when `previous`
  does or could not be read; with a spoiled store the argument is that the published
  config is the file's own, and so is what a start makes of a store it does not
  take. `RestartKeepsConfig` excludes the rest (`Harmed`). `HandInv` says
  what the main task has in hand at each point; `PageInv` that a page with the
  published revision shows the published config.
* **`StateFileProofs`** `FilterExact`, `HoursAreDurable`, `RemovedUsersAreSaved`,
  from `StateInv`. `LockInv` ties the rows about to be written to the lock,
  `MovedInv` bounds every row by what was moved, `PromiseInv` says that whatever
  may still be written is at least what was promised, and `FloorInv` with
  `SettledInv` that the flush of one task is not undone by the other: what the
  other has read and not yet written was read later.
* **`PanelProofs`** `SessionsExact` and `OverStaysOver`, from `PanelInv`.
  `IssuedInv` (every id that a browser, a request or the map knows has been
  issued) is what keeps a new session apart from all old ones; `SessionInv` ties
  the map to the history of sign-ins and ends, `Fits` each point of a request to
  what it has passed.

Only model-checked:

* everything under fairness (`LimitEnforced`, `FailoverSettles`, `SessionsFollow`,
  `OpeningResolves`, `StopDrains`, `FileIsHeard`, `RemovalCloses`, `AllArrives`,
  `CountedIsSaved`), which is out of the prover's reach;
* `AcceptedAreSound` and `AmountsAddUp`: folds and arithmetic over all inputs.

## 5. Not modelled

Socket options, segmentation offload and buffer sizes; DNS; the pages, HTTP and
request signing of the provider client; decoding of config files; the migration of old
databases, which is one transaction at startup; the panel's status and ledger
pages, the list of recent entries, rendering and static assets; the command line
and the install scripts. They are I/O or pure conversions with no state the
properties tell apart. Known limits of what is modelled: overlapping
cooldown timers may re-arm a target early and `connect_active` may give up while
another target is healthy (both happen in `Pool`, neither is claimed not to);
the panel's revisions start again after a restart, and putting back an old store
is not atomic (`NoLostUpdate` and `RestartKeepsConfig` say so in their
hypotheses). A failed operation on the store can cost more than its warning says,
which `Harmed` excludes from `RestartKeepsConfig`: if the store of a save that did
not apply cannot be removed, the next start runs the refused edit; if the store of
dropped changes cannot be removed and the file is changed back to the one it was
saved over, the next start brings them back; if the old store cannot be read, or
written back, around a save that does not apply, the panel's changes run on but do
not survive a restart. Also, a package that leaves and returns is charged as if it were new
(excluded from `SyncConserves`); a delayed flush may write the counter of an
older quota object over the row of a user that was removed and added again
(`RemovedAreSaved` and `PowerLossKeepsHours` are about the object that wrote the
row).

## 6. Plan

Done: the components of section 2 and the theorems of section 4.

Worth modelling later: an abstract meter (a bill, a limit, a stop) that `Quota`
implements while the settings stand; `StateFile` composed with the book, for
what a crash between a sync and a flush does to limits.
