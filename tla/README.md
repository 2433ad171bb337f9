# Verification of the Alpha POS till

TLA+ models of the local Alpha POS till: the Django application that takes
orders, dispatches couriers, keeps their money and prints receipts, and the
Windows desktop program around it, with its server, tunnel, updater, audit trail
and Telegram reports. TLC checks the models on small instances; TLAPS proves the
safety properties of most of them for every instance.

Contents: [1 inventory](#1-inventory), [2 what is modelled](#2-the-models),
[3 runs](#3-the-runs-and-their-bounds), [4 fairness](#4-fairness),
[5 proofs](#5-proofs), [6 disagreements](#6-where-the-code-and-its-words-disagree),
[7 limits](#7-what-is-not-modelled), [8 plan](#8-plan).

Running it, from this directory:

    tlc -workers 2 -config ReceiptPrint_fencing.cfg MCReceiptPrint
    tlapm ReceiptPrintProofs.tla

`PROJECT.json` lists every run with its module and configuration, the source
lines behind every definition, the mutation each property is known to catch,
and the hazards of the code with the properties that watch them.

## 1 Inventory

One process per till: a Windows desktop program (`desktop/app.py`) that starts
an embedded PostgreSQL, serves the Django site on the LAN with a threaded
server, and runs background threads. The POS browser, the waiter tablets and the
courier app are its HTTP clients; a cloud receives rows through a sync engine.
Models, repositories, the shift service, refunds and the sync engine belong to
the core package `alpha_pos_core`, an empty submodule in this repository: what
the code uses of it is modelled from that use and marked external.

| Component | State it keeps | Operations | Talks to | Hard behaviours |
|---|---|---|---|---|
| **Receipt print ledger** `customers/services/print_service.py` | `ReceiptPrintJob` per Telegram order: state, fencing token, session, lease, settled line set | `claim_next`, `acknowledge`, `release_failed`, suppression of history | browsers poll; sync engine writes orders and lines under it | competing tills, lost responses, late acknowledgements, expiring leases, rows that arrive in any order |
| **Courier dispatch** `couriers/services.py`, `signals.py`, `views.py` | `DeliveryAssignment` (step, courier, acceptance, offer), legacy `Order.delivery_person` | assign, unassign, accept, decline, advance, mark ready, two `post_save` receivers | staff, couriers, the kitchen, sync | reads before locks, reassignment against answers, replays |
| **Courier ledger** `couriers/payments.py`, settlement half of `services.py` | `CourierPayment`, refunds, `CourierSettlement` windows, paid header | create, webhook, refund, settle, cancel, deliver | gateway, till, couriers | duplicates, late callbacks, half-open windows, lock order |
| **Tickets** `customers/services/order_service.py`, `waiters/services/order_service.py` | `Order`, `OrderItem`, drawer, shift | create, edit, ready by order or line, pay, cancel | tills, waiters, kitchen display, shift service | taps that read without locks, deadlock, shift closing under a ticket |
| **Shift-close acknowledgement** `desktop/shift_close_sync.py` | entries in `desktop_state.json`, sync queue rows | discover, callback, probe, retain, park, clear | sync worker, cloud verifier | lock-free callback, partial upload, crash after commit, conflict |
| **Till workers** `desktop/server_manager.py` | setup flags, `setup_sig`, desired state, server thread, worker threads and their stop events | setup, start, stop, watchdog, creation of a worker by three threads | all of the above, PostgreSQL | stop that gives up on a live thread and start after it, a setup of which one step fails |
| **Support tunnel** `desktop/support_tunnel.py` | one ssh process, its supervisor, a stop event shared by all supervisors | start, stop, restart, reconnect | configuration, relay | restart while the old supervisor is still stopping, a save during a stop |
| **Updater** `desktop/updater.py`, `update_helper.ps1` | install, previous install, stage, pending marker | check, stage, hand over to the helper, swap, confirm, roll back, clean up | the helper process | a failure or an exit between any two of marker, moves and confirmation |
| **Desktop app and bridge** `desktop/app.py`, `bridge.py` | window, boot thread and watchdog, one request of the panel | boot, requests, flush of the database, closing, shutdown for an update | the three above | a request, the watchdog and the closing call the same managers at once |
| **Telegram outbox** `desktop/local_telegram_audit.py` | SQLite rows per event and chat, epoch and scan cursors | capture at commit, sweep, claim, post, mark sent or failed, change of the configuration | Telegram | crash after the post, late commits, a switch in the middle of a sweep |
| **Order audit** `desktop/order_audit.py`, `order_http_audit.py` | append-only file, index, archives, delivery cursors, capture queue | capture, append, rotate, recover, sweep, export, deliver | Telegram, panel | crash between append and index, rotation under a delivery, a stale capture last |
| Courier sessions `couriers/tokens.py`, `auth.py` | sessions, refresh families, login claims | issue, claim, rotate, revoke | courier app | replayed and raced rotations |
| **Embedded database** `desktop/pg_embedded.py` | data directory, server process | start, adopt, stop | app | it outlives a crash of the till |
| Configuration `desktop/config_store.py` | one JSON file | load, merge, save | all desktop parts | read-modify-write under one lock |
| Catalogue, clients, staff, login, waiter lists | one row each | CRUD | browser | none between operations |
| Realtime, push, presentation | none | notify, render | courier app | best effort after commit |
| Sales report, UI, installer, release tools, migrations, settings | none of interest | – | – | – |

What makes each correct, in a sentence, for the parts with a protocol:

* *Print ledger*: one active consumer of an order; only a printed order is
  retired, for good; a complete order is printed in the end; history never is.
* *Dispatch*: one live delivery per courier, one courier per order, no order
  taken away after pick-up, readiness always forwarded.
* *Ledger*: nobody pays twice, nothing is settled twice or falls between
  settlements, a closed settlement does not change, no requests wait in a circle but over a
  key that is used for two orders.
* *Tickets*: the bill is what the lines say, a paid bill is frozen, the drawer
  equals the sales, a shift of a cashier does not close over an unpaid ticket.
* *Shift-close*: no acknowledgement without proof, no evidence dropped before
  it, no close forgotten, every sound close acknowledged in the end.
* *Workers*: the till is served only from a database that is set up, with one worker
  of a kind, and is served again after any failure unless it was stopped. *Tunnel*: in
  the end it does what was saved last. *Updater*: there is always a launcher to open,
  what a rollback needs is kept, and a version that cannot serve does not stay.
* *Outbox*: every event of the epoch is reported, a copy needs a fault or a row that was
  deleted as old, and what happened while the channel was off stays unreported. *Audit*: an unbroken chain, the
  last state of every order captured, nothing a recipient has not received skipped.
* *Sessions* (not modelled): one live token per family, none once revoked.

## 2 The models

Row locks, READ COMMITTED and what a handler reads *before* it holds a lock are
kept in every model, since that is where the behaviours are. Each model splits a
handler exactly where another actor may come between, and nowhere else.
Formatting, wording, amounts beyond what the properties tell apart, and logging
are left out.

### `ReceiptPrint`

`job` is the `ReceiptPrintJob` row of each order; `orderState` and `lines` are the
synchronised rows; `work[r]` the rows a claim request has locked and written
without having committed; `hold` and `net` the client's claim and its reports on
their way; `onPaper` a history of paper. `claim_next` is split into
`ClaimBegin` (materialise, refresh, lock), `ClaimReplay`/`ClaimNoneLive` (look for
a live lease of the session) and `ClaimNext`/`ClaimNothing` (lease with skip
locked). `ClaimRollback` is a crash or a database error. `Tick` ages leases and
settle times; instants are remaining ticks, so time is unbounded.
The fingerprint is the versions of the live lines, or empty while their
gross differs from the subtotal. The browser client is external: it follows the
loop of `OPERATIONS.md`, section 6.

### `CourierDispatch` and `Delivery`

Every writer in `couriers/services.py` locks order, assignment and courier before
it decides, so a service call is one action; the unlocked read in the courier's
view is a step of its own (`Ask`, which puts a request into `pending`). The two
`Order` signals are part of every action that saves the order (`SaveOrder`).
`Delivery` is the abstract promise: offered, withdrawn, carried, delivered, one
at a time per courier. The mapping takes a row to `free` when it is absent or
declined, ASSIGNED and READY to `offered`, PICKED_UP and ON_WAY to `carried`.

### `CourierLedger`

One courier. `task` holds the open transactions: the locks each still wants, in the order its
code takes them (`Locks`: orders, branches, the courier, and the row of the payment, which
`create_payment` takes last and refunds and callbacks before the branch), those it holds, and
its time stamp. A handler's decision and writes happen at its commit, which is sound because
what it decides on is protected by locks it holds by then; the stamp is an earlier step
(`Stamp`) and the branches of a settlement are looked up without a lock, when it opens
(`BranchesPaid`). `windows` freezes what each settlement counted, entry by entry.
`OnlyCancellationsAreLate` is what remains of the promise of `settle` without any assumption on
the branches; it is proved and has no run of its own.

### `Tickets`

One request per task: `Begin`, `Acquire` (a row lock), `Look` (the guards, on what
is there then), more locks, `Count` (the line taps and removals read all the
lines), then a commit per operation. Line taps read their order without a lock,
lock a line, count, and lock the order only if they change it: the order in the
code. A request has a user (`by`): cashiers and waiters have shifts, the tickets that waiters create
belong to them, and those of customers to nobody. Products are one kitchen kind and instant ones; a unit costs 1. The
shift's open and close, the drawer and the refund belong to core and are external.

### `ShiftCloseSync`

`entries` is the tracker's file, which survives `Crash`; `run` the refresh that
holds `_RUN_LOCK`, with the copies it read (`found`, `seen`); `call` the
post-commit callbacks, which take no lock. `Discover`, `ReadEntries`, `Track`,
then per close `Keep` or `Ask`, `Record`, `Requeue`, and `Finish` are the
statements of `_refresh` between which another thread can write. A bundle
is two parts, the shift with its manifest and the totals, each with a
version; versions are compared where the code compares digests. `verified` is
a history of what the cloud said. The sync queue, the push (`Deliver`) and the
cloud's verdict (`Verdict`) are external.

### `TelegramOutbox`

`rows` are the orders and shifts of PostgreSQL, each with the callback of its last
commit; `config`, `draft` the configuration and the one about to be written; `meta` the
epoch (`enabled_since`) and the cursors; `outbox` the SQLite rows; `worker` the notifier
thread with what it read. An event enters by its callback (`Callback`, lost in a
`Crash`) or by the sweep (`BeginSweep`, one `SweepKind` per kind, `SweepPut` and
`SweepAdvance` row by row behind the cursor, then the overlap pass `SweepRecent`), a
settle delay late. `Claim`, `Post` and `MarkSent` or `MarkFailed` are three steps, since
the process can die between them. `SaveOff`, `PrepareOn`, `PrepareKind` and `Write`
are the two halves of `save_configuration`, between which the worker runs on.
`quiet` (events committed while the channel was off), `received`, `faults` and `excused`
(events the code is known to pass over, section 6) are histories, and so is `expired`: `MarkSent` also
deletes what was sent longer ago than the retention, and the key of the event with it.

### `OrderAudit`

`files` is the evidence on disk, the archives by generation and the active file, whose
records have places `<<generation, line>>`; `index` the cached snapshots and cursors beside it, `mem`
the collector's memory of both. A record is one unit long and its hash is its number.
`Appended` is `_append` with its five outcomes (written, rotation failed before or after
the move, a torn line, a line whose fsync reports an error), each of which the process
survives or not. `Loaded` is the start: the index when it fits the file, the tail
replayed, else everything rebuilt. `job` is what the collector or the panel has read of an
order and not yet captured: `TakeOrder`, `TakeSweep` and `PanelSweep` read, `Capture` compares
and appends, and another thread comes between. `Freeze` and `Deliver` are the two ends
of a segment on its way to Telegram, between which the file may rotate or be
pruned. `written`, `held`, `doubtful`, `stray` and `missed` are histories; the last
three mark the known gaps of section 6.

### `ServerManager`, `SupportTunnel`, `Updater` and `Desktop`

Three modules with state and actions of their own, and the launcher that composes them. A call
of the manager is a `task` of the calling thread, which walks through `ensure_django` (setup
lock, PostgreSQL, schema check, migration, seeds, signature), `start` (lifecycle lock, spawn,
wait for the bind, workers) and `stop`; between two steps any other thread may run.
`_worker_lock` is `creating`, which `stop` does not look at, as in the code. In
`SupportTunnel`, `sup` are supervisor threads, `halt` the one stop event they share, `call` the
callers inside `stop` or `restart` with the thread they captured, and `rejoin` the threads that
`restart_after_join` waits for, until it gives up (`RestartGivesUp`). In `Updater`, `dir` says
which version is whole in the install, in `.previous` and in the stage; a helper holds the name
of one stage (`helper.own`), which the next check of a restarted launcher may prune under it;
each phase of the helper's timer is an action (`Waited`, `RemoveOldBackup`, `BackupCurrent`,
`ActivateNew`, `Launch`, `Confirmed`, `Unhealthy`, `RollBack`).

`Desktop` is the program: the boot thread that becomes the watchdog, the request of
the panel, the closing thread; a version 2 that can serve or cannot (`fit`). The window
asks for start, stop, setup, a flush of the database, an update, or a save of the
tunnel's settings. `Crash` ends the process and leaves PostgreSQL, the helper and the
directories; `PowerCut` ends everything. `gap` names the known gaps a behaviour ran into.

The models of orders share rows (an order is paid, cancelled and dispatched in three of
them) and are not composed: each contains the others' writers as far as
they touch its own state (`Cancel`, `Till` and `Deliver` in `CourierLedger`,
`MarkOrderReady` and `UpdateOrderStatus` in `CourierDispatch`).
`CourierDispatch` takes a service call as atomic: it locks order, assignment and
courier first, in the order `CourierLedger` models lock by lock.

## 3 The runs and their bounds

| Run | Question | Instance | Why it is enough |
|---|---|---|---|
| `print_fencing` | Two tills compete: is there one consumer, one lease per session, and no retirement without paper? | 2 orders, 2 sessions with a request each, 3 tokens, leases and settle time of 1 tick | competition needs two sessions, a second order is needed to lease twice; three tokens leave one fresh while two are remembered |
| `print_progress` | Is every complete recent order printed in the end, and no historical one ever? | 1 session, 1 historical and 1 recent order, 2 lines, a revision | one session is the worst case for progress; the historical order shares the queue |
| `dispatch_pair` | Dispatch invariants, and refinement of `Delivery` | 2 orders, 2 couriers, 1 request pending, symmetry | the proofs of section 5 cover all sizes |
| `ledger` | Who may collect how much, is a charge-back counted once, do closed windows stay final and partition the events, and which requests can deadlock? | 2 orders of 2 units in 1 branch, 2 keys, one of which has already paid 1 unit, 2 concurrent requests of all operations, 2 ticks after that payment, 2 settlements, a request starts only while the rows there are and the open requests are fewer than 5, symmetry | part payments need 2 units; two keys race for an order, and two orders for a key; two settlements give a middle window; a paid key gives settlements a branch to lock; 5 rows are both payments with a refund, a delivery and a settlement, or one with a refund or a delivery and both settlements |
| `tickets_desk` | Drawer and shifts for operations that lock the ticket | 1 ticket, 2 lines, a cashier and a waiter, 2 requests, symmetry | races are of two requests on one ticket; the waiter has a shift of its own |
| `tickets_kitchen` | Bill, frozen bill and lock circles with line taps in play | 1 ticket, 1 instant and 1 kitchen line, quantity 2, 2 requests | a merge needs quantity 2; the taps need 2 lines to be last on one |
| `tickets_taps` | known disagreement, section 6 | minimal | |
| `close_acks` | Proof before acknowledgement, clear before reported, evidence kept | 1 volatile close with 2 versions, 2 workers, callback, 1 fault, crash or lost row | all reads are per close; the second worker overtakes between cycles |
| `close_progress` | No close forgotten, every sound one acknowledged | 2 closes, 1 worker, 1 probe per cycle, 1 fault or crash | two closes compete for one probe |
| `telegram_reports` | Is every event reported, is a copy ever sent without a fault, does what happened while the channel was off stay unreported? | 2 paid orders, one of which may fail at every delivery, 1 recipient, batches of 1, a settle delay and a retention of 1 tick, an overlap of the newest tick, 3 instants, 2 events (a configuration saved, a restart or a fault; at most 1 fault) | a switch off and on takes both events; a batch of 1 moves the cursor between two orders; the undeliverable order is ahead of the other; the retention is not shorter than settle delay and overlap, as in the code (90 days to minutes), and marking one order deletes the row of the other |
| `audit_trail` | Is the chain unbroken, nothing skipped, the last state captured, everything delivered? | 1 order that is there at the first start and changes once, 1 recipient, files and segments of 2 records, 1 archive, 1 act (event, export, switch, restart) and 1 fault | two snapshots and the act, with a torn line or a sweep repeated after a fault, rotate a file of 2 and fill an archive of 2; the act supplies a second writer |
| `desktop` | Is the till served only when set up, by one worker of a kind, again after each failure; does an update end in a version that serves; does the tunnel follow its settings? | 2 versions, 2 workers, 2 supervisors, 2 events (a request, a closing, a failure, a crash or a power cut), from an empty machine | every hazard found needs two events: a request and a failure, or two requests |

Bounds are guards in the modules: `MaxVersion` (revisions), `Limit` (rows of a pass,
250 in the code), `MaxPending`, `MaxClock`, `MaxWindow`, `MaxRecords`, `MaxQty`, `MaxProbes` (25 in the
code), `MaxFaults`, `MaxTime`, `MaxActs`, `MaxEvents`. Symmetry is used for interchangeable tokens, requests,
workers, keys, orders and couriers in runs without liveness properties only. `HandOver` is a
safety property (its specification has no fairness), so it is checked under
symmetry. Deadlock is checked in every run but `ledger`, `telegram_reports`,
`audit_trail` and `desktop`, where requests, time or what the user does are bounded and the
system comes to rest; `CirclesNeedForeignKeys` finds the deadlocks of `ledger`.

What each property says, and the change of the code it is known to catch, stands
above its definition and in `PROJECT.json` ("mutants"). Properties need several
actors to break. Each module states its `TypeOK` as documentation of its variables.

## 4 Fairness

* `ReceiptPrint!FairSpec`, used by `print_progress`. Time passes. A browser keeps
  polling as `OPERATIONS.md`, section 6, asks, and the server finishes the
  transaction: strong fairness of the claim steps, and of the response being received,
  because any response may be lost but not every one. A client that has paper
  in its hand repeats its acknowledgement until it is answered. Nothing is
  assumed of the sync engine: the property is about orders that stay complete.
* `ShiftCloseSync!FairSpec`, used by `close_progress`. The sync loop catches every
  exception and the watchdog starts it again (`server_manager.py`, `_sync_loop`,
  `ensure_background_workers`), so a refresh that runs goes on and *some*
  worker begins another cycle: weak fairness of `Refresh` and of `\E w : Cycle(w)`,
  not of a given worker. `transaction.on_commit` runs its callback unless the process
  dies. The push delivers a live row while it lasts. Faults are
  bounded, so they end.
* `TelegramOutbox!Fairness`. Time passes, transactions end, the till starts its
  notifier (`app.py` does so at boot). The loop of `_worker` (2018-2060) catches every exception,
  sweeps at least every thirty seconds and delivers in the other turns: strong fairness
  of `BeginSweep` and of *some* `Claim`, weak fairness of the steps that follow. `Ripen` is the
  end of a backoff, which is finite. Nothing is assumed of Telegram beyond the bound on
  faults; a hopeless row may fail for ever.
* `OrderAudit!AuditFairness`. The till is started again; the collector (1674-1752) and the sender
  (2008-2060) are loops that catch what they meet.
* `Desktop!Fairness`. The boot thread, the threads of the server and *some* finite activity
  (a call, a request, an ssh that ends, a phase of the helper, the closing) go on: weak
  fairness of three disjunctions. A user or a failure is never owed. That the finite steps
  share one fairness is enough because each of them ends.

Other runs are safety only. `PaidBillFrozen` and `HandOver` are action properties of
specifications without fairness: they say what a step may not do.

## 5 Proofs

Assumptions: only the named `ASSUME`s of the modules (sizes are positive, sets that
are summed over are finite, the null values are no members, maps have their types),
which TLC evaluates on every run. Hypotheses beyond them stand in the theorem itself.
All proofs have the same shape: one lemma per action says what it writes, the
lemmas of an invariant cite those and not the actions, and the theorem combines
initial state, step and consequence. The inductive invariants of `Tickets`,
`ShiftCloseSync` and `Desktop` stand at the end of the model's own module, those of `AuditProofs` with the proofs;
TLC has checked them on the instances of the runs.

`FiniteSums` holds what the proofs need and the library lacks: the fold
`SumFunctionOnSet` of the community modules has a value on every finite set, any summand can
be taken out or added, a part is at most the whole; a finite set in a strict order
has a list (`ListsExists`). Induction over finite sets needs no induction rule: a
set of counterexamples has a smallest member (`SmallestSubset`).

`ReceiptPrintProofs`
* `TypeCorrect`: `Spec => []TypeOK`.
* `OneConsumer`: `SerialClients => (Spec => []OneActiveConsumer)`. The property is not
  inductive: that two clients hold no common order depends on what the server's rows say, on
  what open transactions have locked, and on messages still under way. `LeaseInv` adds, in this
  order: a transaction locks only what is claimable and no two share a row
  (`LocksAreClaimable`); a session that claims or prints has no report on its way
  (`QuietWhileBusy`); a session that is claiming holds nothing (`ClaimingHoldsNothing`); and a
  claim a client takes for live is its lease in the database, with at least that much time left
  (`LiveHoldIsLeased`). From the last, one owner per job gives one consumer. `SerialClients` is
  a hypothesis about the client: without it the property has a counterexample (section 6).
* `PaperBeforeAck`: `Spec => []PrintedHasPaper`, for impatient clients too. `PaperInv` follows
  a token from the row it claimed: a locked row has the state and token of its job
  (`RowsFollowJobs`), a token names one claimed order (`TokensAreFences`), and an
  acknowledgement that can still retire an order was sent after its paper (`AcksHavePaper`).
* `OneLease`: `OneRequestEach => (Spec => []OneLeasePerSession)`. `SessionInv`: a request that
  has looked finds its session without a lease until it grants one (`SingleLeases`).
  `OneRequestEach`, weaker than `SerialClients`, is needed: a retried claim can overtake a
  stalled one (section 6).
* `HistoryStaysQuiet`: `Spec => []NoHistoricalReplay`. `HistoryInv`: a historical order has no
  job that can be claimed, no open transaction has locked it, and no client holds it.

`CourierDispatchProofs`
* `DispatchTypes`; `OneDelivery`, `OneAuthority`, `ReadyReachesCourier`, `AcceptanceNotInherited` state the four
  invariants of the run: their conjunction is inductive with `LiveHasCourier` added, which gives
  a live row an owner to compare.
* `DispatchImplementsDelivery`: `Spec => HandOver`. Each action is a step of
  `Delivery` on one row (`OneRow`) or a stutter (`SameRow`); `OneLiveDelivery` is
  what allows a new offer.

`CourierLedgerProofs`: all six invariants of the run, for any number of orders, branches, keys
and requests.
* `OnlyForeignKeysCircle`: orders, branches and the courier are locked in one order, and a payment
  belongs to the order it was collected for. A request whose key is new, or is a payment of its own
  order, holds the lock of that order with the payment, so nobody else of its kind wants it; in a circle
  without a foreign key, the request that waits for the greatest lock would wait for nobody.
* `CollectionsFitTheBill`, `HeaderIsCoverage`, `NothingChargedTwice`: `MoneyInv`, sums over the rows of an order,
  under the exclusion of the order's lock (`LockInv`) and well-formed rows and refunds (`RowInv`).
* `SettledExactlyOnce`, `SettlementsKeepTheirEntries`: `StampInv` (a stamp is at most the clock, and under
  the courier's lock it is later than every cutoff already written) and `WindowInv` (windows
  are adjacent, and what they froze is still counted).
* `KnownBranchesAreFinal`: `(Init /\ KnownBranches) /\ [][Next]_vars => []WindowsAreFinal`. `FinalInv`: a settlement
  holds every branch a late event could come from. The hypothesis, that each branch has had a
  payment, is the one the code needs: without it TLC finds the window broken (section 6).

`TicketsProofs`: all five properties of the two runs, for any tickets, lines and requests.
* `TypeCorrect` proves `TypeOK` with `TicketInv`: a row is locked by one request; all requests but
  taps lock the ticket, then lines or the shift (`Ordered`); a request works on a ticket that is there or
  creates it alone (`OwnTickets`); and what it saw under a lock, an unpaid ticket or an open shift, still
  holds when it commits (`LooksHold`). Each commit is one of five moves of a ticket
  (`Arrives`, `Calm`, `Edited`, `Paid`, `Refunded`) or a move of the shift, and the properties follow from those.
* `BillsMatch`, `BillsFrozen` and `DrawerHoldsSales` hold with line taps in play. `CirclesNeedTaps`: the
  holder of a line holds its ticket, the holder of the shift waits for nothing, and who waits for a
  ticket holds nothing, so nobody but a tap closes a circle.
* `OrphansHaveTwoWaysIn`: `Spec => ShiftsCloseClean`, with line taps in play. A ticket that becomes an unpaid one of a
  user off shift was created by the waiter app for a waiter, or was cancelled before (only a tap revives one).
  Whoever creates a ticket at the till has seen the shift under its lock (`LooksHold`), and a close that
  looks at the tickets holds that lock.

`ShiftCloseSyncProofs`: the three invariants of `close_acks`, for any number of closes, versions
and workers.
* `EveryAckEarned`, `ClearMeansVerified`: `ClearInv`. Every copy of an entry that a refresh or a callback
  has read is as proven as the entry (`ReadsAreEarned`), a callback that goes on writes no acknowledgement
  (`CallsAreUnproven`), the agenda names each sound close once (`AgendaIsSound`), and a close the refresh has
  tracked stays pending or in conflict until it is verified (`TrackedIsOpen`).
* `EvidenceSafe`: `EvidenceInv`. What is parked when the refresh comes to it has not changed since it was
  found (`ParkedIsFound`), and at an acknowledgement it is in the cloud (`ParkedIsHeld`).

`DesktopProofs`: types and the five invariants of `desktop`, for any number of events, workers and
supervisors. `IInv` joins two halves, which need each other: a setup is for the version that the updater
has installed, and the updater takes a version for fit because the manager reports it ready.
* `ServedFromSoundDatabase`: `ManagerInv`. Whatever says that the database is set up, the signature, the ready
  flag, a step of the installation or a thread about to spawn, is right (`Vouched`), and once a flush has
  stopped the manager nobody starts a server beside it (`FlushAlone`), so the database can go. A step of one
  thread keeps this if what it writes is `Fine`, whatever the other threads are at (`OneMoves`).
* `OneWorkerOfAKind` is inductive by itself: `creating` is both the lock and what its holder has seen.
* `RollbackIsKept`, `InstallIsKept`, `UnfitIsRolledBack`: `UpdateInv` says what each phase of the helper relies on
  (`Phases`). Between the backup and the launch the marker is there and nobody runs; in the health window
  `.previous` is there until the marker goes, and it goes only for a version that is fit. The proof needed the
  model corrected: a helper whose stage has been replaced by a newer one must not install that (`Marked`).

`AuditProofs`, first part: the types and the two invariants of `audit_trail`, for any orders, recipients,
limits and faults. `AuditInv` joins `AuditTypeOK` (no archive is as new as the active file, no index newer than
the files), `ChainInv` and `DeliveryInv`. Their parts speak of any files, so that one lemma carries each of
them through a rotation (`RotatedRests`), the retention (`PrunedKeeps`) or a line that is written
(`LineRests`), and every append of any thread, whatever becomes of it, is an instance of one lemma (`AppendRests`).
* `ChainHolds`. The next record continues the chain if the memory knows the last one (`Known`), or that one is
  doubtful; after a restart it does so because the index fits (`IndexFits`): an index of this
  generation remembers what was last where it ends, or ends within a line, and an older one differs in
  the names of the archives. The file grows with every line, the newlines that isolate torn ones
  included, so the place where an index ends is unique (`BytesGrow`), and a write, which may isolate the
  line before it, adds none (`BytesWritten`).
* `NeverSkips`. A claim that a recipient has the first lines of a file (`Credit`) is made by the memory, by the
  index, which a restart takes at its word, and by a segment on its way, which an acknowledgement will
  turn into a cursor. For the active file it also needs that the cursor does not run ahead
  (`Within`), or the next line written there would count as received.

`AuditProofs`, second part: the two invariants of `telegram_reports`, from one invariant, `OutboxInv`.
* `QuietIsNeverReported`: a quiet event was stamped before now, and once the channel is on again, or about to be,
  an epoch has begun after that stamp (`QuietIsOld`). No enqueue passes an event older than the epoch, and
  only what is committed is queued, so nothing quiet was queued beforehand. The epoch is written before the
  switch is visible (`prepare_configuration_update`); the other order would break `QuietIsOld`.
* `CopiesCostFaults`: a row beyond its claim is still claimed (`ClaimHeld`), so neither a restart nor an
  enqueue touches it; the free copy is the one whose row is marked sent, or about to be (`Free`), every
  other one has cost a failure, or the deletion of the row that was marked (`expired`).

Every safety property of a passing run is stated by a theorem. Checked by TLC only: the types
of `TelegramOutbox` (a page of the sweep is sorted by `SortSeq`, which the provers do not know;
the two results above do not depend on what a page holds), and all liveness. Liveness under
fairness and `ENABLED` are beyond this prover, and so is an induction rule that takes an
operator; no module uses a `RECURSIVE` operator.

## 6 Where the code and its words disagree

One disagreement is kept as a run that must fail:

* `tickets_taps`: a line tap that read its ticket before the cancellation sets it to
  READY again, although the kitchen treats CANCELED as terminal. A ticket revived after
  its shift closed is one of the two ways that `ShiftsCloseClean` excuses.

Known counterexamples of the models that no run keeps, each reproducible by
changing a configuration or a guard:

* Print: 250 older incomplete orders starve a complete one (`print_service.py:130` looks at a
  batch, `models.py:30-31` reads as if it looked at all); a lease granted after a line changed
  between the refresh and the lease of one claim; an impatient client (`Impatient`) whose late
  failure report releases its own renewed claim; a retried claim that overtakes a stalled one
  of its session and takes a second lease.
* Ledger: `settle` promises one serial order of events, but locks only the branches it found
  before locking: a settlement that looked up its branches before the first payment of a
  courier in a branch closes a window over a refund or a cancellation that has its stamp and
  not its commit (`services.py:880` against 873-876; `WindowsAreFinal` with `Paid = {}`). The
  till takes the full bill by card of an order of which a courier has collected a part
  (`order_service.py:1527` against 1531-1532); edits of an open order are not modelled. A
  deadlock that PostgreSQL ends by aborting one request: a collection of one order under the
  key of a payment of another holds branch and courier and waits for the payment
  (`payments.py:497-501`), while a refund or a paid callback of that payment holds it and waits
  for the branch (607, 673); the order lock, which keeps others apart, is not the same.
  `CirclesNeedForeignKeys` excepts that request.
* Dispatch: `advance_status` completes an order that was cancelled meanwhile (`services.py:519`
  against `order_service.py:1169-1170`); a ready tap reopens a delivered order.
* Tickets, with line taps in play: two taps of the last two lines each miss the other and the
  ticket never turns READY; an addition merges into a line that a tap readies before the
  quantity is written; a cancelled ticket that a tap put back to READY can be paid or block its
  shift.
* Tickets: `create_order` of the waiter app makes the waiter the cashier of the ticket
  (`waiters/services/order_service.py:474-476`) and looks at no shift, while waiters start and
  end shifts of their own (`waiters/services/auth_service.py:91-92`, 121-123), and a comment of
  the till's `create_order` says that waiter orders have no cashier yet
  (`customers/services/order_service.py:881-884`). So a waiter's shift can be closed under a
  ticket that is being created. `ShiftsCloseClean` excepts that step by name.
* Shift-close: a conflict turns into PENDING when the cloud is unavailable once (line 613,
  against the comment of 395-396); a callback overtaken by a refresh writes PENDING over an
  acknowledgement (comment of 809-813), which the next cycle repairs; a close that lands
  between discovery and the read of the entries is reported as LOCAL_SHIFT_MISSING for one
  cycle (652, 364); 25 newer permanent conflicts keep an older close from being probed again
  (681-685). The properties say what remains true in spite of these.
* Telegram (variable `excused`): `_mark_failed` fails itself, and the row stays in sending
  until the next start (622); the recipients are cleared in the middle of a sweep, whose cursor
  then passes events it did not queue. A kind that is switched off and on again has the events
  of the time between reported by the overlap pass or a later save, which look only at
  `enabled_since`, against `_reset_kind_cursors` (447-456). Marking a row as sent deletes the
  sent rows older than the retention (607-614), and with a row its key; a save of its order
  after that reports it again, since `_on_order_saved` (1191-1213) looks only at
  `enabled_since`. `CopiesNeedFaults` counts each such deletion (`expired`) as a copy more.
* Audit (variables `stray`, `missed`, `doubtful`): `mark_delivered` compares file names, and
  the active file keeps its name, so a segment under way while the file rotates, or a crash in
  the middle of a rotation, applies a cursor to the wrong file (1066, against the docstring at
  1263-1267); the periodic sweep reads only the orders whose `updated_at` is of the last two
  hours (`_RECENT_HOURS`, 55, 1512, 1736), so a capture that failed or was dropped, of an order
  that has grown older than that or whose change left `updated_at` alone, is not repeated
  before the next start; an fsync that reports an error after a whole line forks the chain
  (1003).
* Desktop (variable `gap`). *wipe*: `flush_database` deletes the data before it clears
  `setup_sig` (`bridge.py:417` and 436, against `server_manager.py:667`), and what runs in
  between leaves a signature that vouches for an empty database; after a failed flush
  `_setup_ready` stays true. *confirm*: a failed update check in the health window of the new
  version clears the marker (`updater.py:656`, against `app.py:302-307`), and the helper takes
  that for health; if the helper has given up by then and this version had been confirmed once
  before, `mark_started_ok` finds no marker and deletes `.previous` under the rollback
  (298-304). *twins*: two saves while an old supervisor outlasts its join leave two supervisors
  (`support_tunnel.py:722-741`). *outlasted*: a supervisor inside `_command` makes up to six
  calls of `whoami` and `icacls`, ten seconds each, and does not look at `_STOP` (300-345,
  359-380), so it can outlast the eight and thirty seconds of the joins; the restart is then
  not attempted (735-737) and the tunnel stays down with its switch on. *power*: a power cut
  while the helper moves the directories leaves no install. `SetupSound`, `UnfitRolledBack`,
  `RollbackKept`, `TunnelFollows` and `InstallKept` each except the gap that concerns it, by
  name.

## 7 What is not modelled

* Print: materialisation and refresh are one step with the row locks they take.
* Dispatch: going online, location trails, `pick_available_courier` (no production caller),
  provisioning. The bridge's call of `mark_ready` never fails.
* Ledger: one courier, one non-cash bucket, a constant bill, a clock that never steps back, one
  branch per order, keys not shared between branches, no legacy rows without their mirror.
  Delivery fees are entries without an amount.
* Tickets: order type and details, promo discounts on an open ticket, checkout normalisation,
  the stored answer of a repeated `payment_action_id`, tables, displays, stock (a failed stock
  step is an abort). Unit price 1; shifts and refunds are external.
* Shift-close: the two reads of a bundle are one step; queue rows are references to the row as
  it is at upload; pruning, messages and reason codes. `stop()` is called by tests only.
* Telegram: the text of the reports, the split of long ones, rate limits of Telegram (a failed
  post), the readiness panel. SQLite and PostgreSQL commit atomically.
* Audit: the fields of a record and their redaction, the trail of HTTP requests, the status
  page, the join with a reset of the installation. A hash is the number of its record.
* Server: a heartbeat that is disabled by the configuration while the manager runs (157-167:
  its worker is told to stop and none is created; a `Kind` without it is a till that never had
  one). What workers synchronise, backoff times, the port search; a bind fails or succeeds. An
  external database server, `initdb`, and the adoption of a data directory of an older release.
* Tunnel: keys, host files, ssh options, probes of the ports. A leftover ssh child after the
  exit.
* Updater: download, signatures and release metadata; the moves of directories are atomic, and
  the move that restores the previous install succeeds. Three durations are taken for granted,
  named at the head of the module. Desktop: one panel request at a time, `factory_reset`,
  printing, the control server, and the single-instance lock (the module opens one launcher at
  a time).
* The other components of section 1 are listed in `PROJECT.json` with the reason. Courier
  sessions are the one with a protocol of its own; the others keep no protocol state, are
  formatting or I/O, are generated or vendored, or belong to the core package.

## 8 Plan

Done: the modules above, in the order of what an error costs (money and receipts first,
then evidence and availability), with their proofs.

Left to model: courier sessions (`tokens.py`: issue, rotate, replay, revoke; a family has one live
refresh token, and none after a revocation), edits of an order a courier collects, tables.
