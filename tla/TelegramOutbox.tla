--------------------------- MODULE TelegramOutbox ---------------------------
(***************************************************************************)
(* The local Telegram notifications of a till                              *)
(* (desktop/local_telegram_audit.py).                                      *)
(*                                                                         *)
(* An order that is recorded or paid, or a shift that ends, is reported to *)
(* every recipient.  Two ways lead into a durable outbox (SQLite): the     *)
(* callback of the commit, which a crash loses, and a sweep that follows   *)
(* the stamps of the rows behind a cursor, a settle delay late.  One       *)
(* worker sweeps and delivers.  The operator may switch the channel, a     *)
(* kind or the recipients at any moment, also in the middle of a sweep;    *)
(* what happened while the channel was off must never be reported.         *)
(*                                                                         *)
(* Stamps are ticks of a clock; the contents of the messages are left out. *)
(***************************************************************************)
EXTENDS Integers, Sequences, FiniteSets, FiniteSetsExt, SequencesExt

CONSTANTS
  Event,        \* primary keys of the orders and shifts that are reported
  KindOf,       \* what each event is: recorded, paid or shift
  Hopeless,     \* events that may fail at every delivery: the object is gone, or has no items
  Chat,         \* recipients
  Settle,       \* RECONCILE_SETTLE_SECONDS, in ticks
  Overlap,      \* RECONCILE_OVERLAP_SECONDS
  Batch,        \* RECONCILE_BATCH
  Retention,    \* SENT_RETENTION_SECONDS
  Patience,     \* failures after which the backoff of a row outlasts the rest of the queue
  MaxTime,      \* bound: ticks of the clock
  MaxFaults,    \* bound: crashes, lost answers, failed writes
  MaxEvents     \* bound: these, configurations saved, and restarts, together

Kind == {"recorded", "paid", "shift"}

ASSUME OutboxConstants ==
  /\ Event \subseteq Nat \ {0} /\ IsFiniteSet(Event) /\ Hopeless \subseteq Event
  /\ KindOf \in [Event -> Kind]
  /\ IsFiniteSet(Chat) /\ Chat # {}
  /\ Settle \in Nat \ {0} /\ Overlap \in Nat /\ Batch \in Nat \ {0}
  /\ Retention \in Nat \ {0} /\ Patience \in Nat \ {0}
  /\ MaxTime \in Nat /\ MaxFaults \in Nat /\ MaxEvents \in Nat

VARIABLES
  clock,     \* the time of day
  rows,      \* the rows of PostgreSQL, with the callback of their last save
  config,    \* the saved configuration
  draft,     \* the configuration about to be written, if any
  meta,      \* metadata of the outbox: enabled_since and the cursors
  outbox,    \* deliveries
  process,   \* the desktop process: booted, up or leaving
  worker,    \* the notifier thread
  received,  \* copies that reached a recipient
  quiet,     \* history: the events stamped while the channel was off
  expired,   \* history: how often a row that was sent has been deleted
  excused,   \* history: the events the code is known to pass over
  edits,     \* configurations saved and restarts so far
  faults     \* failures so far

vars == <<clock, rows, config, draft, meta, outbox, process, worker, received,
          quiet, expired, excused, edits, faults>>

Row      == Event \X Chat
Unset    == MaxTime + 1
Time     == 0 .. MaxTime
Config   == [on : BOOLEAN, kinds : SUBSET Kind, chats : {{}, Chat}]
NoDraft  == [on |-> FALSE, kinds |-> {}, chats |-> {}]
Absent   == [state |-> "none", stamp |-> 0, callback |-> "none"]
NoRow    == [state |-> "none", due |-> FALSE, failures |-> 0, at |-> 0]
NewRow(e) == [NoRow EXCEPT !.state = "pending", !.due = KindOf[e] # "recorded"]
NoThread == [stage |-> "none", since |-> 0, horizon |-> 0, left |-> {}, kind |-> "none",
             todo |-> <<>>, put |-> FALSE, row |-> <<>>]
Idle     == [NoThread EXCEPT !.stage = "top"]
Listening == process \in {"up", "leaving"}

TypeOK ==
  /\ clock \in Time
  /\ rows \in [Event -> [state : {"none", "open", "committed"}, stamp : Time,
                         callback : {"none", "registered", "due"}]]
  /\ config \in Config /\ draft \in Config
  /\ meta.since \in Time \union {Unset}
  /\ meta.cursor \in [Kind -> (Time \union {Unset}) \X ({0} \union Event)]
  /\ outbox \in [Row -> [state : {"none", "pending", "sending", "failed", "sent"},
                         due : BOOLEAN, failures : 0 .. Patience, at : Time]]
  /\ process \in {"booted", "up", "leaving"}
  /\ worker.stage \in {"none", "top", "sweep", "claimed", "sent", "failed"}
  /\ worker.left \subseteq Kind /\ Range(worker.todo) \subseteq Event
  /\ expired \in [Row -> Time]
  /\ received \in [Row -> 0 .. MaxFaults + 1 + MaxTime]
  /\ quiet \subseteq Event /\ excused \subseteq Event
  /\ edits \in 0 .. MaxEvents /\ faults \in 0 .. MaxFaults

\* A till that was set up by hand, in a file (no metadata yet), or not at all.
Init ==
  /\ clock = 0
  /\ rows = [e \in Event |-> Absent]
  /\ config \in [on : BOOLEAN, kinds : {Range(KindOf)}, chats : {Chat}]
  /\ draft = NoDraft
  /\ meta = [since |-> Unset, cursor |-> [k \in Kind |-> <<Unset, 0>>]]
  /\ outbox = [r \in Row |-> NoRow]
  /\ process = "booted"
  /\ worker = NoThread
  /\ received = [r \in Row |-> 0] /\ expired = [r \in Row |-> 0]
  /\ quiet = {} /\ excused = {}
  /\ edits = 0 /\ faults = 0

-----------------------------------------------------------------------------
(* The metadata of the outbox. *)

\* _reset_enable_watermark: a fresh epoch, with every cursor at its start.
Epoch(moment) == [since |-> moment, cursor |-> [k \in Kind |-> <<moment, 0>>]]

\* _ensure_enable_watermark: the epoch begins now, unless it has begun.
Ensured == IF meta.since = Unset THEN Epoch(clock) ELSE meta

\* _cursor: never before the start of the epoch (whose moment no row is stamped with, so
\* that the key left in the cursor does not matter there).
Cursor(k, since) ==
  IF meta.cursor[k][1] < since THEN <<since, 0>> ELSE meta.cursor[k]

\* Mutant: what is old enough is reported, whenever the channel was switched on.
EligibleAnyTime(e, since) ==
  /\ config.on /\ KindOf[e] \in config.kinds /\ config.chats # {}
  /\ rows[e].state = "committed"
\* The checks of enqueue_recorded_order, enqueue_order and enqueue_shift, on the
\* configuration and the row of this moment.
Eligible(e, since) ==
  /\ config.on /\ KindOf[e] \in config.kinds /\ config.chats # {}
  /\ rows[e].state = "committed"
  /\ rows[e].stamp >= since

\* Mutant: a row that is there is written over.
InsertedOver(found) ==
  [r \in Row |-> IF r[1] \in found THEN NewRow(r[1]) ELSE outbox[r]]
\* _insert_delivery for every recipient: insert or ignore; a recorded order waits a while
\* for its items.
Inserted(found) ==
  [r \in Row |->
     IF r[1] \in found /\ outbox[r].state = "none" THEN NewRow(r[1]) ELSE outbox[r]]

Enqueue(found) ==
  /\ meta' = IF config.on THEN Ensured ELSE meta
  /\ outbox' = Inserted({e \in found : Eligible(e, Ensured.since)})

-----------------------------------------------------------------------------
(* The till saves orders and shifts. *)

Fault == faults < MaxFaults /\ edits + faults < MaxEvents /\ faults' = faults + 1

\* The transactions that are open end before the settle delay is over.
InTime(moment) == \A e \in Event : rows[e].state = "open" => moment < rows[e].stamp + Settle

Tick ==
  /\ worker.stage \in {"none", "top"}
  /\ clock < MaxTime /\ InTime(clock + 1)
  /\ clock' = clock + 1
  /\ UNCHANGED <<rows, config, draft, meta, outbox, process, worker, received, quiet, expired,
                 excused, edits, faults>>

\* _on_order_saved, _on_shift_saved: is a callback registered?
Heard(e) == Listening /\ config.on /\ KindOf[e] \in config.kinds

\* The order is recorded, paid, or the shift ended, in a transaction that is still open.
Save(e) ==
  /\ rows[e].state = "none" /\ clock + Settle <= MaxTime
  /\ rows' = [rows EXCEPT ![e] = [state |-> "open", stamp |-> clock,
                                  callback |-> IF Heard(e) THEN "registered" ELSE "none"]]
  /\ quiet' = IF ~config.on /\ ~draft.on THEN quiet \union {e} ELSE quiet
  /\ UNCHANGED <<clock, config, draft, meta, outbox, process, worker, received, expired,
                 excused, edits, faults>>

Commit(e) ==
  /\ rows[e].state = "open"
  /\ rows' = [rows EXCEPT ![e].state = "committed",
                          ![e].callback = IF @ = "registered" THEN "due" ELSE @]
  /\ UNCHANGED <<clock, config, draft, meta, outbox, process, worker, received, quiet,
                 expired, excused, edits, faults>>

\* The same row is saved again, for another reason: the signal fires all the same.
Resave(e) ==
  /\ rows[e].state = "committed" /\ rows[e].callback = "none" /\ Heard(e)
  /\ \E c \in Chat : outbox[<<e, c>>].state = "none"
  /\ rows' = [rows EXCEPT ![e].callback = "due"]
  /\ UNCHANGED <<clock, config, draft, meta, outbox, process, worker, received, quiet,
                 expired, excused, edits, faults>>

\* on_commit(..., robust=True): an error of the outbox is logged and forgotten.
Callback(e) ==
  /\ rows[e].callback = "due"
  /\ rows' = [rows EXCEPT ![e].callback = "none"]
  /\ \/ Enqueue({e}) /\ UNCHANGED faults
     \/ Fault /\ UNCHANGED <<meta, outbox>>
  /\ UNCHANGED <<clock, config, draft, process, worker, received, quiet, expired, excused,
                 edits>>

-----------------------------------------------------------------------------
(* The operator saves a configuration. *)

Saved(kinds) == {e \in Event : KindOf[e] \in kinds /\ rows[e].state # "none"}

\* write_config.  A sweep under way does not look at the recipients again, and passes
\* over the events it meets while there are none.
Written(next) ==
  /\ config' = next
  /\ excused' = IF next.chats = {} /\ worker.stage = "sweep"
                THEN excused \union Saved(Kind) ELSE excused

Counted == edits + faults < MaxEvents /\ edits' = edits + 1
Edit(next) == Counted /\ draft = NoDraft /\ next # NoDraft

\* save_configuration when nothing is switched on: no bound of the scan moves.  The operator
\* switches the channel or a kind off, or clears or restores the recipients.
SaveOff ==
  /\ \E next \in {[config EXCEPT !.on = FALSE], [config EXCEPT !.chats = Chat \ @]}
                  \union {[config EXCEPT !.kinds = @ \ {k}] : k \in Range(KindOf)} :
       next # config /\ Edit(next) /\ Written(next)
  /\ UNCHANGED <<clock, rows, draft, meta, outbox, process, worker, received, quiet, expired,
                 faults>>

\* prepare_configuration_update when the channel is switched on: a new epoch, before the
\* switch is visible.  It begins between two ticks: nothing is stamped with its moment.
PrepareOn ==
  /\ ~config.on /\ Edit([config EXCEPT !.on = TRUE])
  /\ draft' = [config EXCEPT !.on = TRUE]
  /\ clock < MaxTime /\ InTime(clock + 1)
  /\ clock' = clock + 1
  /\ meta' = Epoch(clock + 1)
  /\ UNCHANGED <<rows, config, outbox, process, worker, received, quiet, expired, excused,
                 faults>>

\* The same when a kind is switched on: only its cursor moves, to this moment.
PrepareKind(k) ==
  /\ k \in Range(KindOf) \ config.kinds /\ Edit([config EXCEPT !.kinds = @ \union {k}])
  /\ draft' = [config EXCEPT !.kinds = @ \union {k}]
  /\ meta' = [meta EXCEPT !.cursor[k] = <<clock, 0>>]
  /\ excused' = excused \union Saved({k})
  /\ UNCHANGED <<clock, rows, config, outbox, process, worker, received, quiet, expired,
                 faults>>

Write ==
  /\ draft # NoDraft
  /\ Written(draft) /\ draft' = NoDraft
  /\ UNCHANGED <<clock, rows, meta, outbox, process, worker, received, quiet, expired, edits,
                 faults>>

-----------------------------------------------------------------------------
(* The process and its notifier thread. *)

\* Mutant: a row that was being sent when the process died stays claimed.
RecoveredNot == outbox
\* _reset_inflight: what was claimed before a crash is pending again.
Recovered == [r \in Row |-> IF outbox[r].state = "sending"
                                      THEN [outbox[r] EXCEPT !.state = "pending"] ELSE outbox[r]]

\* start_background_notifier, asked every five seconds: refused once the process leaves, or
\* while the thread is alive.
Start ==
  /\ process \in {"booted", "up"} /\ worker.stage = "none"
  /\ process' = "up"
  /\ outbox' = Recovered
  /\ worker' = Idle
  /\ UNCHANGED <<clock, rows, config, draft, meta, received, quiet, expired, excused, edits,
                 faults>>

\* begin_process_shutdown: a latch, which the worker sees at the top of its loop.
Shutdown ==
  /\ process \in {"booted", "up"} /\ Counted
  /\ process' = "leaving"
  /\ UNCHANGED <<clock, rows, config, draft, meta, outbox, worker, received, quiet, expired,
                 excused, faults>>

WorkerExits ==
  /\ process = "leaving" /\ worker.stage = "top"
  /\ worker' = NoThread
  /\ UNCHANGED <<clock, rows, config, draft, meta, outbox, process, received, quiet, expired,
                 excused, edits, faults>>

\* The process ends: open transactions roll back, callbacks and a draft are lost.  The next
\* one serves before its notifier is started.
Ended ==
  /\ process' = "booted" /\ worker' = NoThread /\ draft' = NoDraft
  /\ rows' = [e \in Event |-> IF rows[e].state = "open" THEN Absent
                              ELSE [rows[e] EXCEPT !.callback = "none"]]
  /\ quiet' = {e \in quiet : rows[e].state # "open"}
  /\ UNCHANGED <<clock, config, meta, outbox, received, expired, excused, edits>>

\* stop_background_notifier joined the thread.
Exit == process = "leaving" /\ worker.stage = "none" /\ Ended /\ UNCHANGED faults
\* A crash, a power cut, or os._exit when the shutdown takes too long.  (An error that ends a
\* sweep loses less: the next sweep begins at the same cursor.)
Crash == Fault /\ Ended

-----------------------------------------------------------------------------
(* The sweep: reconcile_committed_events. *)

\* Before the settle delay is over there is nothing to scan; without recipients the
\* cursors stay where they are.
BeginSweep ==
  /\ worker.stage = "top" /\ process # "leaving" /\ config.on
  /\ meta' = Ensured
  /\ worker' =
       IF config.chats # {} /\ clock - Settle >= Ensured.since
       THEN [worker EXCEPT !.stage = "sweep", !.since = Ensured.since,
                           !.horizon = clock - Settle, !.left = config.kinds]
       ELSE worker
  /\ <<meta', worker'>> # <<meta, worker>>
  /\ UNCHANGED <<clock, rows, config, draft, outbox, process, received, quiet, expired,
                 excused, edits, faults>>

Earlier(d, e) ==
  rows[d].stamp < rows[e].stamp \/ (rows[d].stamp = rows[e].stamp /\ d < e)
Later(d, e) == Earlier(e, d)
FirstOf(q) == SubSeq(q, 1, Min({Batch, Len(q)}))

Scanned(k, from) == {e \in Event : /\ KindOf[e] = k /\ rows[e].state = "committed"
                                   /\ from <= rows[e].stamp /\ rows[e].stamp <= worker.horizon}

\* The rows after the cursor, oldest first.
Page(k) ==
  LET at == Cursor(k, worker.since)
      after(e) == \/ rows[e].stamp > at[1]
                  \/ rows[e].stamp = at[1] /\ e > at[2]
  IN FirstOf(SetToSortSeq({e \in Scanned(k, worker.since) : after(e)}, Earlier))

\* The newest rows of the last minutes, again.
Recent(k) ==
  FirstOf(SetToSortSeq(Scanned(k, Max({worker.since, worker.horizon - Overlap})), Later))

SweepKind(k) ==
  /\ worker.stage = "sweep" /\ worker.kind = "none" /\ k \in worker.left
  /\ worker' = [worker EXCEPT !.kind = k, !.left = @ \ {k}, !.todo = Page(k)]
  /\ UNCHANGED <<clock, rows, config, draft, meta, outbox, process, received, quiet, expired,
                 excused, edits, faults>>

\* A row of the page goes through the same enqueue as a callback.
SweepPut ==
  /\ worker.stage = "sweep" /\ worker.todo # <<>> /\ ~worker.put
  /\ Enqueue({Head(worker.todo)})
  /\ worker' = [worker EXCEPT !.put = TRUE]
  /\ UNCHANGED <<clock, rows, config, draft, process, received, quiet, expired, excused,
                 edits, faults>>

\* _advance_cursor, whatever the enqueue did.
SweepAdvance ==
  /\ worker.stage = "sweep" /\ worker.put
  /\ meta' = [meta EXCEPT !.cursor[worker.kind] =
                <<rows[Head(worker.todo)].stamp, Head(worker.todo)>>]
  /\ worker' = [worker EXCEPT !.todo = Tail(@), !.put = FALSE]
  /\ UNCHANGED <<clock, rows, config, draft, outbox, process, received, quiet, expired,
                 excused, edits, faults>>

\* The overlap pass, taken as one step, ends the kind; the last kind ends the sweep.
SweepRecent ==
  /\ worker.stage = "sweep" /\ worker.todo = <<>>
  /\ IF worker.kind = "none" THEN UNCHANGED <<meta, outbox>>
                             ELSE Enqueue(Range(Recent(worker.kind)))
  /\ worker.kind # "none" \/ worker.left = {}
  /\ worker' = IF worker.left = {} THEN Idle ELSE [worker EXCEPT !.kind = "none"]
  /\ UNCHANGED <<clock, rows, config, draft, process, received, quiet, expired, excused,
                 edits, faults>>

-----------------------------------------------------------------------------
(* The delivery: deliver_pending_once. *)

Sending(r) == worker' = [Idle EXCEPT !.stage = "claimed", !.row = r]

\* _next_delivery: a due row of an enabled kind and a configured recipient.
Claimable(r) ==
  /\ outbox[r].state \in {"pending", "failed"} /\ outbox[r].due
  /\ config.on /\ KindOf[r[1]] \in config.kinds /\ r[2] \in config.chats

Claim(r) ==
  /\ worker.stage = "top" /\ process # "leaving" /\ Claimable(r)
  /\ outbox' = [outbox EXCEPT ![r].state = "sending"]
  /\ Sending(r)
  /\ UNCHANGED <<clock, rows, config, draft, meta, process, received, quiet, expired, excused,
                 edits, faults>>

Became(stage) == worker' = [worker EXCEPT !.stage = stage]

\* _deliver_row: the order is sure to have its items, the report of the shift can be built.
Built(r) == r[1] \notin Hopeless

\* The post: acknowledged; or it arrived and the answer is lost; or it never arrived.
Post ==
  /\ worker.stage = "claimed"
  /\ LET reached == received' = [received EXCEPT ![worker.row] = @ + 1]
     IN \/ ~Built(worker.row) /\ Became("failed") /\ UNCHANGED <<received, faults>>
        \/ reached /\ Became("sent") /\ UNCHANGED faults
        \/ reached /\ Became("failed") /\ Fault
        \/ Became("failed") /\ Fault /\ UNCHANGED received
  /\ UNCHANGED <<clock, rows, config, draft, meta, outbox, process, quiet, expired, excused,
                 edits>>

\* What was sent longer ago than the retention.
Old(r) == outbox[r].state = "sent" /\ outbox[r].at < clock - Retention
Sent   == [NoRow EXCEPT !.state = "sent", !.at = clock]

\* _mark_sent: it also deletes the old rows, and with them the keys that the next enqueue of
\* their events would have found.  Its failure counts as a failed delivery.
MarkSent ==
  /\ worker.stage = "sent"
  /\ \/ /\ outbox' = [r \in Row |-> IF r = worker.row THEN Sent
                                    ELSE IF Old(r) THEN NoRow ELSE outbox[r]]
        /\ expired' = [r \in Row |-> IF Old(r) THEN expired[r] + 1 ELSE expired[r]]
        /\ worker' = Idle /\ UNCHANGED faults
     \/ Fault /\ Became("failed") /\ UNCHANGED <<outbox, expired>>
  /\ UNCHANGED <<clock, rows, config, draft, meta, process, received, quiet, excused, edits>>

\* A failed row waits, twice as long each time: at first less than a tick, in the end longer
\* than the rest of the queue takes.
Failed(row) == [NoRow EXCEPT !.state = "failed", !.due = row.failures + 1 < Patience,
                             !.failures = Min({Patience, row.failures + 1})]

\* _mark_failed.  When it fails too, the row stays claimed until the next start.
MarkFailed ==
  /\ worker.stage = "failed"
  /\ \/ outbox' = [outbox EXCEPT ![worker.row] = Failed(@)] /\ UNCHANGED <<excused, faults>>
     \/ /\ Fault
        /\ excused' = excused \union {worker.row[1]}
        /\ UNCHANGED outbox
  /\ worker' = Idle
  /\ UNCHANGED <<clock, rows, config, draft, meta, process, received, quiet, expired, edits>>

\* next_attempt_at arrives: soon, or after everything else when the row has failed often.
Ripen(r) ==
  /\ outbox[r].state \in {"pending", "failed"} /\ ~outbox[r].due
  /\ outbox[r].failures < Patience \/ \A s \in Row : ~Claimable(s)
  /\ outbox' = [outbox EXCEPT ![r].due = TRUE]
  /\ UNCHANGED <<clock, rows, config, draft, meta, process, worker, received, quiet, expired,
                 excused, edits, faults>>

-----------------------------------------------------------------------------
Next ==
  \/ Tick \/ SaveOff \/ PrepareOn \/ Write
  \/ \E k \in Kind : PrepareKind(k)
  \/ \E e \in Event : Save(e) \/ Commit(e) \/ Resave(e) \/ Callback(e)
  \/ Start \/ Shutdown \/ WorkerExits \/ Exit \/ Crash
  \/ BeginSweep \/ SweepPut \/ SweepAdvance \/ SweepRecent
  \/ \E k \in Kind : SweepKind(k)
  \/ Post \/ MarkSent \/ MarkFailed
  \/ \E r \in Row : Claim(r) \/ Ripen(r)

\* Time goes on, transactions end, the till starts its notifier, and the thread takes its
\* steps.  Each turn of its loop may sweep (every thirty seconds it must) and then delivers,
\* so that neither starves the other.
Fairness ==
  /\ SF_vars(Tick) /\ WF_vars(Write)
  /\ \A e \in Event : WF_vars(Commit(e) \/ Callback(e))
  /\ WF_vars(Start \/ WorkerExits \/ Exit)
  /\ SF_vars(BeginSweep)
  /\ SF_vars(\E r \in Row : Claim(r))
  /\ WF_vars(\/ SweepPut \/ SweepAdvance \/ SweepRecent \/ \E k \in Kind : SweepKind(k)
             \/ Post \/ MarkSent \/ MarkFailed)
  /\ \A r \in Row : WF_vars(Ripen(r))

Spec == Init /\ [][Next]_vars /\ Fairness

-----------------------------------------------------------------------------
\* What happened while the owner had switched the channel off is never queued, and so never
\* reported: not by a sweep that was under way across the switch, not by a callback that
\* comes late, and not when the old row is saved again under the new epoch.
QuietStaysQuiet == \A e \in quiet, c \in Chat : outbox[<<e, c>>].state = "none"

\* A recipient gets a report more than once only when something failed in between, or when
\* the row of the report has been deleted as old and its order was saved again: neither the
\* two ways into the outbox, nor the two passes of a sweep, nor a restart repeat it.
CopiesNeedFaults == \A r \in Row : received[r] <= 1 + faults + expired[r]

\* A report somebody has not received is owed: the event was committed in this epoch, and
\* its kind and the recipient are configured.
Owed(r) ==
  /\ rows[r[1]].state = "committed" /\ rows[r[1]].stamp >= meta.since
  /\ config.on /\ KindOf[r[1]] \in config.kinds /\ r[2] \in config.chats
  /\ r[1] \notin excused

\* Each event of the epoch reaches each recipient, through crashes between commit, callback,
\* sweep, post and mark, and past a row that can never be delivered; unless the channel is
\* switched off first, or the event is one the code is known to pass over.
EventuallyReported ==
  \A r \in (Event \ Hopeless) \X Chat : []<>(received[r] > 0 \/ ~Owed(r))
=============================================================================
