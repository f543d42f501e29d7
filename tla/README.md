# Champion: a verification of its core protocols in TLA+

Champion (`src/`, Go) is a Discord bot for owners of DayZ console servers. One
process follows the game servers' logs on Nitrado, posts kills and deaths to
Discord, keeps players' points, sells items in a Shop, and delivers what was
sold by writing a file the game server spawns objects from at its next boot.
Everything durable is in one PostgreSQL database; the game server is reached
only through Nitrado's file API, whose listings lag and whose answers get lost.

The interesting behaviour is not in any one function. It is in what happens
when two bot processes overlap during a deploy, when a process stops between
two transactions, when an upload's answer is lost, when a boot of the game
server falls between a read and a write, and when a refund races a delivery.
That is what these modules are about.

- [Inventory](#inventory)
- [Modules](#modules)
- [Runs](#runs)
- [Fairness](#fairness)
- [Proofs](#proofs)
- [Where the code and its documents disagree](#where-the-code-and-its-documents-disagree)
- [Abstractions and assumptions](#abstractions-and-assumptions)
- [What is not modelled](#what-is-not-modelled)
- [Possible extensions](#possible-extensions)

## Inventory

### How the parts interact

- **Processes.** Any number of bot processes may share one database
  (`docs/MULTI_PROCESS.md`); normally one does, and two overlap for a while on
  a deploy. They coordinate only through PostgreSQL: row locks, unique indexes,
  triggers, lease columns, and one session-level advisory lock.
- **Game server.** It boots when it likes. At a boot it starts a new ADM log
  file and reads the mission files once. The bot sees both only through
  Nitrado: it lists, downloads and uploads files.
- **Discord.** Cards and order messages go out; buyers' and staff's answers
  come in as commands and button presses, each ending in one transaction.

### Components

| Component | State | Operations | What is hard | What makes it correct |
|---|---|---|---|---|
| Shop orders and their database (`internal/repository/shop_*`, `internal/database/shop_*`) | rows of purchases, deliveries, attempts, confirmations, tickets; points and stock | purchase, fulfil, refund, create and move attempts, review, confirm, tickets | every operation races every other on one order | never the item and the points; one live attempt; closed rows stay closed; the books balance |
| Shop delivery worker (`internal/shop/deliveryworker`, `missionwrite`) | attempt states, write journal, pause, one file on the server | passes: ask buyers, recover, decide, plan, write, settle | a stop at any step, boots unseen, uncertain uploads | nothing spawns for a closed order; file and ledger agree; never staged again after it may have spawned |
| Leases of periodic workers (`internal/app/shop_delivery_worker.go`, `map_rotation_worker.go`) | owner and end of each installation's lease | claim, pass, release, expiry | passes longer than leases, processes that die | one process per installation |
| Leader election (`internal/leader`) | session lock, leadership, the worker loops' contexts | acquire, check, step down, release, run while leader | crashes and broken connections | one set of singleton workers, never none for good |
| Killfeed engine, queue, checkpoints (`internal/killfeed`) | followed file and offset, queue, shared checkpoint, rows | choose and change files, poll, probe, queue, insert, post, checkpoint | overlap, lagging listings, new boots, retries, partial failure | posted once and in order; the checkpoint skips nothing; everything is stored in the end |
| Log source selection, parser, deduplicator (`internal/killfeed`) | in memory | rank files, parse lines, fingerprint | evidence that arrives late | the live file wins; equal lines collapse, others do not |
| Presence, locations, player intelligence | in memory, batches | update, flush | best effort | nothing online after the server is down |
| Rotating feeds and journal (`internal/discord`) | window, pending cards, orphans; a journal row per card; Discord's nonces | queue, group, make room, send, record, retry deletions, replay | lost answers, refused groups, a stop between send and record | a card goes out once and in order; the window is bounded; no message is forgotten |
| Server workers and supervision (`internal/servers`, their callers in `app` and `discord`) | the manager's map, worker goroutines, the server's row, its subscription and connection | start, stop, restart with backoff, reconcile, and eight commands and endpoints | calls that read, wait and then act; exits after a stop timed out | one worker per server, always stoppable, running exactly when paid for |
| Live Sync (`internal/livesync`) | offsets and stored lines | follow the other logs | as the killfeed engine | read once, in order |
| Economy, bounties, stores, trader | point balances and their ledger | credit, debit, escrow, transfer | repeated requests, two spenders | balance is the sum of the ledger, never negative |
| Map rotation worker and wipe (`internal/app/map_rotation_worker.go`, `mapswitch`, `charwipe`) | the row of a switch, its wipe state, two files, the server's power, a lease | claim, read, back up, write, roll back, wipe, recover, finish, save | a stop between any two requests, a broken write, overlapping processes | both files of one map or staff told; stopped once, started again; every switch ends |
| C.A.S.E. outbox and alerts | leased messages | claim, send, reconcile | a lost answer | at most one message, none lost |
| Billing (`internal/billing`) | subscriptions, events seen | webhooks | late, twice, out of order | the newest event wins |
| Tournaments, factions, linking, progression | rows | one transaction each | concurrent presses | the bracket advances once |
| Commands, web API, permissions, embeds, configuration | none of its own | I/O around the above | | |

`PROJECT.json` lists the parts one by one with their source files and status,
and under `hazards` the places in the code where things are hard to test, each
with the property that covers it or the reason none does.

## Modules

```
ShopPromise  <--implements--  ShopWorker  --extends-->  ShopLedger  <-- ShopLedgerProofs
                                  |  ^
                                  |  ShopWorkerProofs
                      (passes do not overlap: PassLease  <-- PassLeaseProofs)
                                  |
                               MapSwitch  (its passes may overlap)  <-- MapSwitchProofs

ServerWorkers  --runs, once per server-->  KillLog  --cards-->  KillFeed
      ^                                      ^                     ^
ServerWorkersProofs                     KillLogProofs         KillFeedProofs

Leader  <-- LeaderProofs
```

Each `MC*` module extends a specification for TLC with model values and, where
its runs use it, a symmetry set; each `.cfg` is one run. The arrows between
`ServerWorkers`, `KillLog` and `KillFeed` are what one module assumes and the
other shows: one engine per server and process (`OneFactory`), and a card handed
to the feed at most once (`PostedOnce`).

### ShopLedger

The Shop's tables. **One action is one committed transaction**, with the
triggers and constraints that fire in it: a transaction that returns an error
commits nothing and is no step. `purchase`, `delivery`, `attempt`,
`confirmation` and `ticket` are the status columns of the tables of those names;
`balance` and `stock` are the buyer's points and the product's stock.

| Action | Code |
|---|---|
| `Purchase`, `Fulfill`, `Refund` | `shop_repository.go`: the purchase is idempotent by key, so an order *is* its key |
| `Abandon` within them | `attemptBlocksClose`: the planned attempts it counted; one created after the count stays planned |
| `Create`, `Transition` | `shop_attempt_repository.go` and the state machine and numbering triggers of `database/shop_attempts.go` |
| `FulfillAttemptByBuyer`, `FulfillAttempt` | the worker's and the manual path's fulfilment, attempt, delivery and purchase in one transaction |
| `ResolveReview` | the review of an attempt, recorded once |
| `AskBuyer`, `OpenForDelivered`, `ConfirmReceived`, `AutoCompleteDue`, `ReportIssue` | `shop_confirmation_repository.go` and its trigger |
| `OpenSystemTicket`, `ResolveTicket` | one open ticket per order |

### ShopWorker and ShopPromise

`ShopWorker` extends the ledger with one installation's delivery worker. A pass
(`Worker.Run`) is a sequence of steps, one per transaction or remote request,
and between any two of them the server may boot, a person may buy, refund,
answer or resolve, and the worker may stop. `pass` is what the pass holds in
memory and loses when it stops; `journal` is the last row of
`shop_delivery_writes`; `file` is the file on the server; `boots`/`listed` are
the server's boots and how many of their logs are listed so far; `spawned`
counts what really appeared in game, which no code can see.

The steps follow the code's order: `StartPass`, `Ask*` (`askBuyers`, `deliver`),
`Look*` and `Recover*` (`run`, `recover`), `AbandonUnwritten`, `CheckFile`,
`Decide*` (`decide`: the restart rules), `Plan*` (`plan`), then `BeginWrite`,
`Verify`, `Upload`, `ReadBack` (`journal`, `WriteArtifact`) and `AfterStage`,
`AfterUnstage`, `AfterUncertain`, `Settle`. `Fail` and `OpenTicket` are two
steps because `fail` is two transactions.

`ShopPromise` is what the Shop promises with nothing of how: an item appears in
game only while its order is open, and an order is cancelled for its points only
if nothing appeared. `PromiseKept` says that worker, people and server together
implement it, under the refinement mapping `Phase` (from `delivery`) and
`spawned`.

### PassLease

The lease of a periodic worker on an installation. `Upfront` is the one
difference between the two workers that use it: the Shop delivery worker leases
all due installations when its tick starts, in one statement, and then works
them in turn; the map rotation worker leases each before its pass, with the time
at which the *tick* started. `Lease` and `PassTime` are the code's constants.
ShopWorker's assumption that passes of an installation do not overlap is this
module's `Exclusive`.

### Leader

`Elector.Run`, `hold`, `become`, the PostgreSQL session lock and one
`RunWhileLeader` loop in each process. `lead` is whether the lead context is
live, `seen` and `changed` are what the loop read and whether its change channel
was closed since. Between taking the lock and announcing leadership, and between
giving up leadership and releasing the lock, there are steps at which the rest
of the world can move.

### KillLog

The path of a line from a server's log to its card, in every process that
follows the server: choosing a file (`engine_discovery.go`), polling and stale
probes (`engine_poll.go`, `engine_stale_probe.go`), the queue and its consumer
(`persistence.go`), and the shared checkpoint (`session_repository.go`). A line
is one kill or death; an offset is the number of complete lines before it.
`listed` lags behind `written`, and `listedBoot` behind `boot`. `skipped` and
`left` are history: the lines a process passed over when it started at the end
of a file, and when it changed to a newer one.

### KillFeed

One feed in immediate mode (`rotating_feed.go`, `feed_journal.go`,
`feed_card_repository.go`). Cards are numbered in the order they were queued.
`mem[p]` is what a process holds: `pending` cards and which of them are in the
journal, the `window` of messages shown and how many cards each counts for,
`orphans` whose deletion failed, and the part of the journal's work that follows
a step (`marks`, `gone`, `drops`). `row` is the journal, `sent` every message
Discord created, oldest first, and `forgot` how many of the oldest nonces
Discord no longer knows.

A pass is `journalPending`, `retryOrphans`, `expireImmediate` and then, group by
group, `NextGroup`, `MakeRoom` (delete what the group displaces), `SendGroup`
and `JournalPosted`, which marks one card at a time because the code runs one
statement per card. A message is sent under the nonce of its first card; a
create under a nonce Discord knows returns the message that has it, which may
hold other cards. `Reject` is a refused group: one card drops, several are tried
alone. `LoseAnswer` creates the message and loses the answer. `Restore` is the
replay at a start. `harm` is history: which of the mishaps the properties
except have happened.

### MapSwitch

One installation's switch to another map, by any number of processes. `sw` is
the newest row of `map_rotation_switches`, `file` the content of the two files
on the server (`Bad` is a broken upload), `power` the server, `stops` how many
requests to stop it each switch has sent. Each request and each transaction is
a step: `StartPass` (the claim), `Load` (resume the switch, or its close),
`BeginSwitch`, `ReadFiles`, `SaveSwitchBackup`, `Put` and `ReadBack` of each
file, `RollBack` with `Restore` and `Verify`, then the wipe (`ClaimWipe`,
`SaveStop`, `SendStop`, `WaitStopped`, `SaveDeleted`, `SaveStart`, `Restart`,
`Watch`, `CloseWipe`) and `FinishSwitch`. `RecoverWipe` and `Resume` are the
recovery of an interrupted wipe. The lease is held by `holder`; `Expire` may end
it in the middle of a pass, which is a mishap (`overrun` in `harm`).

### ServerWorkers

Who runs the engine of one server. A call is a *program*: the reads, writes,
starts and stops of one command or endpoint, in the code's order, for instance
`Suspend == <<"suspend", "stop", "deactivate">>`. `call` is what each goroutine
has left to do, and every other call, the reconcile loop, the supervisor and the
worker itself may move between two of its steps. `entry` is the manager's map at
this server; `worker` the worker structs that still exist. `Start` on a worker
that is stopping waits for it (`Replace`), goes on when it exits (`Resume`) or
when the wait times out (`TimeOut`), and looks at the map again (`Register`).
`Leave` is the deferred clean-up of a worker that exits. `late` is history:
somebody gave up waiting for a worker to exit.

## Runs

Passing runs check what the code keeps; a violation run checks one statement of
the documentation that the code does not keep (see below).

| Run | Instance | Distinct states | What it shows |
|---|---|---|---|
| `shop_ledger` | 2 orders of the last unit, 2 attempts each, points for one and a half | 1,901,215 | under every order of the Shop's transactions: no item and points together, one live attempt, closed for good, books balanced |
| `worker_faults` | five settings: 1 order with every fault and late logs, one attempt over 2 boots or two over 1; 1 order with every fault and people who resume and edit; 1 order over 2 boots and 2 orders in one file without faults | 2,046,382 | the file matches the ledger after every recovery; an order that may be staged again is clean; a buyer is asked only about what spawned; doubtful orders are reviewed; `ShopPromise` is implemented |
| `lease_maps` | 2 processes, 1 installation, lease 7, pass 6, 18 minutes | 342,599 | the map rotation worker excludes |
| `leader` | 2 processes, 1 crash, 2 broken connections, 1 failed request | 129,978 | leadership implies the lock, one set of workers, never none for good |
| `kill_log` | 2 processes, 2 boots, 2 lines, 1 fault, 1 stop | 3.5 million | posted once, in order; the checkpoint passes nothing |
| `kill_live` | 1 process, 2 boots, 3 lines, 1 fault, 1 stop, fair | 169,149 | every line is stored in the end unless given up |
| `kill_feed` | 3 cards, groups and window of 2, backlog of 2, 2 starts, 2 mishaps, the second card refused or not | 478,000 | cards go out once, in order, within the window; no message is forgotten; every journaled card is shown or dropped in the end |
| `map_switch` | 2 maps, 2 processes, 3 attempts, 2 mishaps | 484,000 | two files of one map or staff told; stopped once, started again; the switch ends |
| `server_workers` | 2 handlers beside the reconcile loop, 3 worker structs, 3 events in any mix of calls, changes and mishaps | 392,406 | one worker at a time, always stoppable, running in the end exactly when paid for |
| `worker_replanned`, `lease_shop_two`, `kill_tail` | as small as the trace needs | | violations |

**Why the bounds are enough.** Each rule compares at most two of a kind: an
attempt with the one before it (`MaxAttempts = 2`), two orders competing for one
unit or sharing one file, the boot an item was staged for and the one too many
(`MaxBoots = 2` after the first), the process that is leaving and the one that
comes. In `ShopWorker` time matters only against three thresholds: `Lead` (3
minutes, one tick, also the longest pass), `Quiet` and `ListDelay`; `MaxTime`
(4, where nobody resumes) lets each of them pass once. In `KillLog` a second line is what it takes for a
failure in the middle of a download, a second boot for a change of file, a
second process for an overlap. `PassLease` runs until the lease of a first tick
ran out and a second one is half done. In `KillFeed` three cards and groups of
two give every way of grouping that differs: a group of another composition, a
message that displaces one of two, a backlog over its bound; the second card is
the one that can sit inside a group or head one. In `MapSwitch` two mishaps are
a failure and the failure of what handles it (a rollback, a recovery, a second
process). In `ServerWorkers` three events are three calls, or two that race
each other, the loop and the supervisor with a change or a wait that times out;
every pair of the eight programs is tried. The bounds on faults, drops and crashes
count *independent* mishaps in one behaviour, so one or two of each still meet
each other; the proofs below have no bounds.

Deadlock is not checked: orders are finished, clocks and counters reach their
bounds, and processes shut down.

The passing runs look for real mistakes: each property fails once a
plausible bug is put in its code (`PROJECT.json`, `mutants`; the mutated
forms stand beside the definitions, marked `\* mutant:`).

## Fairness

`Leader!Fairness`. The retry and check tickers and the worker loops keep running
while the process does, a worker function returns when its context is cancelled
(`RunWhileLeader`'s contract), a leader whose session is gone notices at a
check, and the server ends sessions nobody uses any more. Crashes, drops, errors
and shutdowns are never forced, and a process that crashed starts anew.

`KillLog!Fairness`. Nitrado lists every file and line in the end; a process that
stopped is started again; its poll loop goes on, and a poll looks for a newer
boot before it reads, whenever such a scan is due (strong fairness of
`FindBoot`, which the polls in between disable again and again); a quiet file is
read directly every so often (`Probe`); the queue's consumer keeps working until
the process ends. Ordinary polls are not needed and not assumed. Writing lines,
rebooting, faults and stops are never forced.

`KillFeed!Fairness`. A process that stopped is started again while starts are
left, and the last one stays; its passes go on and come again (events, ticks and
timers). Discord answers now and then: a deletion, a group's room and a send
that are tried again and again succeed some time (strong fairness, since each
failure ends the pass and disables them for a while). Crashes, lost answers,
forgotten nonces and refusals are never forced.

`MapSwitch!Fairness`. A process that ended is started again and takes its steps;
its ticks come back (strong fairness of `StartPass` and `RecoverWipe`, which the
other process's lease disables again and again); a lease runs out, a switch
grows old, and the server stops and starts as it was told. Failures, crashes and
saves are never forced, and requests need not succeed.

`ServerWorkers!FairSpec`. The reconcile ticker ticks, no goroutine stands still,
and a worker whose context is cancelled returns. Calls, mishaps, renewals and
the end of a subscription are never forced.

The other specifications state no fairness and check only safety.

## Proofs

TLAPS checks the theorems for every value of the constants, under the
assumptions the modules name (`LedgerAssumption`, `FinitelyManyOrders`,
`WorkerAssumption`, `LeaseAssumption`, `LeaderAssumption`, `KillLogAssumption`,
`FeedAssumption`, `WorkersAssumption`, `SwitchAssumption`: numbers are natural, `None` is none of
the values it stands beside, orders and installations are finite where they are
counted).

**ShopLedgerProofs.** The safety properties support one another: that no second
attempt is created beside a fulfilled one needs that its delivery is closed,
which needs that a fulfilment closes both. `LedgerInv` is their conjunction with
`TypeOK` and `RecordsAgree` (an order is open in both tables or in neither, and a
confirmation is void only because of a refund). It is proved inductive one
transaction at a time (`LedgerSafe`), and every safety property follows from it.
`Settled` proves the action property from the same invariant. `BooksSafe` is
about cardinalities: points and stock balance against the number of charged and
of taken orders, so each transaction's proof says which set its order enters or
leaves.

**ShopWorkerProofs.** For any number of orders, attempts, boots, ticks and
passes, and for every setting: what a setting excludes (edits by the owner,
people who resume, faults, late logs) is in each property's own premise.
`WorkerInv` has three layers.

- Whatever happens: the types, the ledger's own invariant (every step of the
  worker is one of the ledger's transactions, `WorkerOnLedger`), `Orderly` (no
  write is unresolved past recovery, whence `JournalFree`), and `Recorded`,
  `Ticketed`.
- While nobody but the worker touches the file (`Untouched`): `WriteKept` ties
  file, journal and ledger together. With no write in the journal the file is
  what the ledger says; during one it is as before, as planned or broken, and the
  ledger has followed only a write that landed. `PassTrue` says what the pass
  knows at each of its steps, and is what makes recovery right: the journal's
  two contents are the only ones it can find. `SpawnKept` is about the game: every
  item that spawned has a live attempt answerable for it (`SpawnedLive`), a boot
  since the file was written spawned what is in it (`BootsSpawned`), an observed
  restart that was good did spawn (`CheckedSpawned`), an item spawned at most
  once per boot since (`SpawnCount`), and a review that says nothing spawned is
  right (`ReviewsTrue`). The first three are needed together: without
  `BootsSpawned` nothing says that an attempt whose restart is observed spawned,
  and an order could be asked about, or refunded, against the facts.
- When nothing fails either (`Calm`): `OnceCounted`, that what a pass removes as
  delivered was in the file for one boot only.

`PromiseSafe` is the refinement: with `SpawnedLive`, a step that spawns finds
its order open and a step that cancels one finds nothing spawned, so each step is
one of `ShopPromise` or a stutter. TLC evaluated `WorkerInv` on all 2,046,382
states of `worker_faults` before it was proved.

**PassLeaseProofs.** `LongLeaseExcludes`: if `Lease` is longer than the passes of
a whole tick together, no two processes work one installation. The invariant
bounds how far into its tick a process can be by the passes it has finished
(`OnTime`) and says that what it works is leased to it until `Lease` after its
tick began (`Leased`). Both ways of claiming are covered. The premise is the
point: with one installation both workers satisfy it (4 > 3 and 7 > 6 minutes), with
several neither does.

**LeaderProofs.** `LeaderInv` (the loop's view agrees with the elector's; whoever
took the lock has it or lost its connection) is inductive, and gives
`LeadsHolding` and `OneWorks`.

**KillLogProofs.** `LogInv` is inductive for any number of processes. Its heart
is coverage: every offset, checkpoint, queued line and last card has nothing
unaccounted for before it (`AllCovered`). A line whose row is inserted was unaccounted
for until then (or had been given up), so it comes after everything the process
has posted: hence the order of cards (`InOrder`). That the engine waits for its
queue's last line (`Asked`) is what lets an answer move the offset by exactly one
line, even after timeouts left older copies of lines in the queue. `PostedOnce`
needs that a card in the making is the only one of its line across processes
(`FreshOnce`), which the unique fingerprint gives.

**KillFeedProofs.** `FeedInv` is inductive for any number of processes, cards,
messages, starts and mishaps, and any sizes of group, window and backlog. It
grows with what did not go wrong.

- Always: the types; a process holds its waiting cards in the order they were
  queued, and those it just posted or dropped came before them (`Waiting`); a
  message holds its cards in that order and none that Discord refuses
  (`Messages`).
- While the journal took every card that was sent and no two processes ran
  (`Journaled`): every row that waits is in the memory of the process that runs,
  a card without a row comes after every card with one (`Held`), and a card that
  waits is in a sent message or comes after its end; if a message's first card
  waits, all of them do (`SentRows`). That is why a create under a known nonce
  returns cards that are the head of the queue, whatever their grouping
  was then (`KnownCards`), so that what is marked posted is what the message
  holds (`RowsSafe`), and why a new message never reaches back behind an older
  one (`OrderSafe`).
- While nothing worse than a crash happened (`Kept`): the first card of every
  message in the channel waits or is marked with that message, and the process
  that runs keeps the message once it is marked. A message whose first card
  waits is found by the nonce of the next request, hence `TrackedSafe` and, for
  the cards that head messages, `SentOnceSafe`. That no other card goes out
  twice without a crash is `Calm`: a waiting card that was sent is in the
  message the first waiting card heads.

- While nothing went wrong (`Room`, an invariant beside `FeedInv`): at most
  `MaxItems` cards are seen; a window counts for each of its messages all the
  cards that are seen of it; a process about to send has made room and has no
  orphan; and the rows of a message in the channel all name it, except those being
  marked, or its first card still waits (`Marked`). A process about to create
  a message holds every message seen, so what its window counts bounds what is
  seen (`AddsFits`). The hard step is a start, because the counts are then those
  of the journal's answer: the cards of one message follow one another among the
  rows (`Between`, from `RowsTrue`, `InOrder` and `SentOnce`), and all of them are
  marked (`AllMarked`), so that no message is counted too low (`ShownCounts`).
  Hence `CapacitySafe`. Sums over messages and windows are cardinalities of sets
  of (message, place) pairs, compared by injections (`SeenCounted`,
  `WithoutEntries`).

Induction over data is replaced by the least counterexample: a nonempty set of
numbers has a least member (`Least`, from the library's well-founded
induction), which proves that any set of cards can be put in ascending order
(`AscendingExists`), that a queue holding a message's cards begins with them
(`Prefix`), and that there is always a place to cut the window (`CutPlace`). Before
it was proved, TLC evaluated `FeedInv` on the run's instance, on one with groups
and messages of three cards (7,939,548 states) and on one with two overlapping
processes (6,321,971 states), and `Room` on the first two. The proof changed what
`InOrder` says. That the first card of a message is not before the last of an
earlier one holds for messages of two only: a process can crash after it marked
the first card of a message of three, and the other two go out again together.
What holds for any size is that a card that was never shown comes after all that
were.

**ServerWorkersProofs.** `WorkersInv` is inductive for any number of callers and
workers: what is on the map is alive (`Owned`), what is alive is on the map or
was told to stop while somebody had given up on it, and whoever waits, waits for
a worker that was told to stop or is gone (`WaitsForStopped`). Without the last
part `Resume` could register a worker in place of a live one. `OneFactoryAlways`
and `NoOrphanAlways` follow.

**MapSwitchProofs.** For any number of processes, maps, switches and mishaps.
`TypeCorrect` and `StopsSafe` need no lease: `StopsCounted` says that no stop was
sent for a switch whose wipe was not begun, and that at most one process is about
to send one, because only one transaction moves a wipe out of `NONE`. The others
are about what a process remembers. `Leased` says that whoever works has the
lease (unless one ran out during a pass, `overrun`), so nothing changes behind
its back: `Orderly` says at each point of a pass what it knows of the switch, the
server and the files in place (`DownSafe`, `AppliedSafe`), and `Faithful` that
every file has the backup's content or the wanted one and that what a pass is
about to put back is the backup (`FilesSafe`). The proof shows where the excepted
mishaps bite: a retry that cannot read the server (`blind`) closes a switch whose
files it never saw, and a broken upload is neither of the two contents.

The inductive invariants `LedgerInv`, `WorkerInv`, `LeaseInv`, `LeaderInv`, `LogInv`,
`FeedInv`, `WorkersInv` and `SwitchInv` contain the type invariants of their modules. They hold for every
value of the constants by these theorems and are therefore not among the runs'
properties.

**Only model-checked.** Every invariant and every action property that a passing
run checks is also proved. The rest is out of this prover's reach:
`WorkersServed`, `StoredInTheEnd`, `ShownInTheEnd`, `ServerUpAgain`,
`SwitchEnds`, `RunsWhenPaid` and `StopsWhenPaused`, as liveness under fairness,
and anything with ENABLED; induction over data; and RECURSIVE operators, of
which there are none here.

## Where the code and its documents disagree

Each of the first three is a run whose counterexample is the story.

1. **An order staged again after it spawned** (`worker_replanned`,
   `worker.go:325`). After an uncertain write a person resumes; the next pass
   abandons the still `FILE_PREPARED` attempts as never written and plans the
   order anew, although the write may have landed and spawned. `worker.go:11`
   says this never happens.
2. **Two processes in one installation** (`lease_shop_two`,
   `shop_delivery_worker.go:64`). A tick leases all installations at once for
   four minutes and works them in turn for up to three each; from the second on
   a pass can outlive its lease. `docs/SHOP_DELIVERY_WORKER.md:34` says two
   processes never work the same server.
3. **Last lines of a boot left behind** (`kill_tail`,
   `engine_discovery.go:507`). The old file is drained only if the *listing*
   shows more than was read, and a failed download gives up the drain but not
   the change of file. `docs/CHAMPION_LIVE_SYNC.md:266` says the remaining
   complete lines are drained.

Seen while modelling, without a run of their own:

- Only listed boots are counted (`deliveryworker/worker.go:405`). If a second
  boot has started but its log is not listed yet when the item is removed, the
  order goes on to the buyer's confirmation although its item spawned twice;
  `docs/SHOP_DELIVERY_WORKER_DESIGN.md:101` and `:173` promise a review.
  `SpawnedTwiceReviewed` is therefore asked only where boots are listed at once.
- A server that was suspended, disconnected or erased can be followed again, for
  good. The suspension stops the worker before it deactivates the row
  (`admin_api_owner.go:398`), and the reconcile loop, a replaced credential and
  the owner's restart act on lists they read before (`billing_pause.go:124`);
  what they start, the loop does not stop, because it looks at active servers
  only. `admin_api_owner.go:377` says that a suspended server is not followed
  until it is reinstated, `saas_api_organization_erase.go:116` that nothing starts
  the erased servers' workers again.
- `ConnectServer` on a server whose worker already runs leaves the
  first-connection flag set; the next restart or repair then begins at the end
  of the log as if it were the first (`server_connect.go:37`;
  `docs/ADMIN_API.md:489` has a restart continue where it was). The flag is left
  out of the model.
- A resumed switch that cannot read the files closes as FAILED, "Nothing was
  changed", without a halt, although an earlier attempt may have written one of
  them (`mapswitch.go:188`); a switch that is given up does stop the rotation
  "if a write may have happened" (`docs/MAP_ROTATION.md:267`). And a spawn file
  that an earlier attempt left broken and that is not written this time is not
  put back, though the switch is ROLLED_BACK (`mapswitch.go:292`). `FilesAgree`
  excepts both (`blind` and `broken` in `harm`).
- `map_rotation_repository.go:361` says that the worker and a save never
  interleave; the row lock it takes is shared only with the worker's
  transactions, so a save can fall between any two steps of a switch (`Save`).
- A card of the feed whose journal insert failed is grouped all the same, and
  after a crash can be sent again by a group that does not begin with it, since
  the nonce is the first card's. If the group changed and Discord's answer had
  been lost, cards are marked posted that the message does not hold.
  `docs/PERFORMANCE.md:888` says that "the feed marks exactly those cards posted
  and sends nothing twice". `SentOnce` and `RowsTrue` say exactly when it does.
- A stop between `FAILED_REVIEW` and its ticket leaves a review without one
  (`worker.go:484`; `docs/SHOP_DELIVERY_WORKER.md:147`). `ReviewHasTicket` is
  therefore checked without faults.
- `WriteArtifact` sets `Unverified` when it cannot list boots after a write
  (`missionwrite/artifact.go:305`); nothing reads it.
- The map rotation worker's documents give its lease as five minutes; the code
  has seven, reckoned from the start of the tick (`map_rotation_worker.go:117`).
- A process that starts after a restart of the game server while the old one
  still follows the old file finds a checkpoint of that file and starts at the
  end of the new one: lines in between are read by nobody
  (`engine_discovery.go:253`). They are `skipped` in the model.
- A listing that is shorter than what was read looks like a truncation and the
  file is read again (`engine_poll.go:129`); in-order posting survives this
  because stored lines are not posted again.
- A checkpoint is overwritten whatever it says (`session_repository.go:64`),
  though `docs/MULTI_PROCESS.md:109` says checkpoints only move forward.
  Moving back costs reading again and nothing else (`PostedOnce`).

## Abstractions and assumptions

**Shop.** One product and one installation; orders of one unit at one price; no
discounts or product editing. Row-level interleaving inside transactions is left
out; where a transaction reads without a lock the action
allows what the read may have missed (`Abandon` of either set). The worker's
clock moves only between passes, which are cut off after one tick. An upload
lands, or not, before the file is read back. Boot logs are listed in order; the
wait for evidence in them ends at any time. A boot's spawner works or fails as a
whole. A person who resolves a review looked in game and is right. Mission
folder and `cfggameplay.json` checks, report-only mode and server-status
requests are left out: they only end a pass early, as `Stop` does.
`SpawnedTwiceReviewed` and `ReviewHasTicket` hold, and are asked, only where
listings are current and nothing stops; the notes above show why.

**PassLease.** All processes read one clock (the database's, or synchronised
ones). An idle process may start a tick at any time. A map rotation pass takes
up to 4 minutes, 90 seconds of restoring and 15 of finishing: 6 minutes,
rounded up.

**Leader.** A cancelled worker that is still finishing may overlap the next
leader's; the model counts a worker as running only while its context is live.
After a broken connection two processes may lead until the next check, about ten
seconds; the code accepts that, and the properties except it (`drops > 0`).

**KillLog.** Lines are complete and have distinct fingerprints; files only grow.
The in-memory deduplicator is left out (it only spares the queue lines whose row
is stored). Whether a listing shows a change, when a probe is due, and whether a
download is full or partial are left open. A header that cannot be read yet is a
file not listed yet. A full queue, and a shutdown's cut-off waits, are `GiveUp`.
Hit and connection cards, evidence writes, mount aliases, activity ranking and
the slow rediscovery are left out. A card handed to the feed counts as posted;
what the feed does with it is `KillFeed`.

**KillFeed.** One process at a time in the run (`Processes` may hold more; a
start before the other process ended is then a mishap). Moving the feed to
another channel, the pause after a configuration fault, the age limit of waiting
cards and the timed mode (`rotate`) are left out. Cards are sent by the bot,
whose creates carry a nonce; sends under a webhook identity carry none, and a
lost answer there repeats the message.

**MapSwitch.** One installation and one switch at a time; which map and when
(schedule, votes, staff), notices, announcements and the detection that a boot
loaded the new map are left out: a switch may begin at any pass. Deleting the
characters is one step that succeeds, or not, as a whole. Time is three events:
the lease ends, half an hour passes (`GrowOld`), the server's power changes. The
wipe's own ten-minute lease extends the pass's.

**ServerWorkers.** One server, whose Nitrado connection is its organization's.
`Leave` removes the entry and announces the exit in one step; the code does the
second right after the first, and whoever looks at the map in between finds
nothing or a newer worker, as after both. A worker never returns without an
error unless it is cancelled. Restarts wait a time that is left out. A read that
fails ends its call (`QueryFails`). The shutdown (`StopAll`) and the
first-connection flag are left out; a customer may pay again any number of
times.

## What is not modelled

Discord and Nitrado clients, HTTP handlers, embeds and wording, configuration,
migrations and tools are I/O or layout: they are most of the code's lines, and
few of them decide anything two actors could disagree about. Parser,
fingerprints, activity ranking and detectors are functions over text and
timestamps, for which the repository's table tests are the better instrument.

The economy's other operations, bounties, stores, factions, linking and
tournaments change their rows in one transaction each, under a row lock and a
unique key; the Shop's ledger is the largest of this kind and stands for the
pattern, not for them. Live Sync reads what KillLog's engine reads and posts
nothing. The C.A.S.E. outbox and billing's webhooks have protocols of their own
and are the next candidates.

## Possible extensions

In the order of what they would add:

1. An `Outbox` for the C.A.S.E. leased messages and their reconciliation, and
   `Billing` for webhooks that arrive late, twice and out of order, which would
   give `ServerWorkers` its `Pay` and `Change`.
2. The Shop's transactions at row-lock granularity with READ COMMITTED reads, as
   an implementation of `ShopLedger`.
