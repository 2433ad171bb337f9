----------------------------- MODULE OrderAudit -----------------------------
(***************************************************************************)
(* The raw evidence of a till about its orders (desktop/order_audit.py).   *)
(*                                                                         *)
(* Every committed change of an order becomes a snapshot in an append-only *)
(* JSONL file.  Each record carries the hash of the one before it; a file  *)
(* that is full becomes an archive, and old archives are pruned.  An index *)
(* beside the file caches the last snapshot of each order, the last hash   *)
(* and how far each recipient has received each file; it is written less   *)
(* often than the file and is repaired from the file at the start.  A      *)
(* collector thread captures, a sender thread delivers one segment after   *)
(* the other to Telegram, the threads of the till append events, and the   *)
(* panel may sweep and export on its own thread.                           *)
(*                                                                         *)
(* A record is one unit of length; its hash is its number.                 *)
(***************************************************************************)
EXTENDS Integers, Sequences, FiniteSets, FiniteSetsExt, SequencesExt

CONSTANTS
  Order,          \* orders
  Present,        \* those that are there at the first start
  Recipient,      \* recipients
  Cap,            \* max_dataset_bytes, in records
  Retained,       \* max_archive_bytes, in records
  Segment,        \* _AUTO_SEGMENT_BYTES, in records
  MaxVersion,     \* bound: changes of each order
  MaxActs,        \* bound: events, exports from the panel, switches and restarts
  MaxFailures     \* bound: failed writes and posts, crashes

ASSUME AuditConstants ==
  /\ IsFiniteSet(Order) /\ Present \subseteq Order /\ IsFiniteSet(Recipient)
  /\ Cap \in Nat \ {0} /\ Segment \in Nat \ {0} /\ Retained \in Nat
  /\ MaxVersion \in Nat /\ MaxActs \in Nat /\ MaxFailures \in Nat

VARIABLES
  version,    \* PostgreSQL: how often each order has changed, and is its updated_at recent
  settings,   \* the state file: is the collector on, is the sender on
  files,      \* the evidence: the archives and the active file
  index,      \* the index file
  mem,        \* the same in the collector's memory
  up,         \* is the process running
  queue,      \* the orders and sweeps asked for
  job,        \* what the collector and the panel have read and not yet captured
  flight,     \* the segment the sender has frozen
  written,    \* history: records ever started
  doubtful,   \* history: records written by an append that reported an error
  held,       \* history: the records each recipient holds
  stray,      \* history: files to which a cursor of another file was applied
  missed,     \* history: older orders whose capture failed, or was overtaken by a stale one
  budget      \* acts and faults so far

auditVars == <<version, settings, files, index, mem, up, queue, job, flight, written,
               doubtful, held, stray, missed, budget>>

Empty    == [x \in {} |-> x]
Blank    == [last |-> 0, seen |-> [o \in Order |-> 0], cursor |-> [c \in Recipient |-> 0],
             kept |-> Empty]
NoIndex  == [mem |-> Blank, bytes |-> -1, gens |-> {}, gen |-> 0]
NoJob    == [stage |-> "none", todo |-> Empty]
NoFlight == [chat |-> "none", gen |-> 0, active |-> FALSE, end |-> 0, ids |-> {}]
Worker   == {"collector", "panel"}
Line(kind, o, v, id, prev) == [kind |-> kind, order |-> o, version |-> v, id |-> id, prev |-> prev]
\* What a write that was cut short leaves, before and after a newline isolates it.
Torn     == Line("torn", "none", 0, 0, 0)
Junk     == Line("junk", "none", 0, 0, 0)

\* A new installation, or the first start beside orders that are there already.
AuditInit ==
  /\ version = [o \in Order |-> [now |-> IF o \in Present THEN 1 ELSE 0, recent |-> FALSE]]
  /\ settings = [on |-> TRUE, send |-> TRUE]
  /\ files = [archives |-> Empty, active |-> <<>>, gen |-> 1]
  /\ index = NoIndex /\ mem = Blank
  /\ up = FALSE /\ queue = {}
  /\ job = [t \in Worker |-> NoJob] /\ flight = NoFlight
  /\ written = 0 /\ doubtful = {} /\ held = [c \in Recipient |-> {}] /\ stray = {}
  /\ missed = {}
  /\ budget = [acts |-> 0, faults |-> 0]

-----------------------------------------------------------------------------
(* The files. *)

\* The archives by generation, in the order of their names, and the active file.
Gens(f)    == DOMAIN f.archives
All(f)     == Gens(f) \union {f.gen}
File(f, g) == IF g = f.gen THEN f.active ELSE f.archives[g]

\* The places of complete records in them, and their order.
IsRecord(line) == line.kind \in {"snapshot", "event"}
Places(f)      == UNION {{<<g, i>> : i \in DOMAIN File(f, g)} : g \in All(f)}
At(f, p)       == File(f, p[1])[p[2]]
Records(f)     == {p \in Places(f) : IsRecord(At(f, p))}
Precedes(p, q) == p[1] < q[1] \/ (p[1] = q[1] /\ p[2] < q[2])
Latest(S)      == CHOOSE p \in S : \A q \in S : q = p \/ Precedes(q, p)

\* The newline that isolates a torn line counts.
Bytes(s) == Len(s) + Cardinality({i \in DOMAIN s : s[i] = Junk})

Isolated(s) == IF s # <<>> /\ Last(s) = Torn THEN Append(Front(s), Junk) ELSE s

\* _prune_archives: the aged ones go, then the oldest until the rest fits.
Pruned(f, aged) ==
  LET from(g) == {h \in Gens(f) : h >= g}
      size(S) == SumFunctionOnSet([h \in Gens(f) |-> Len(f.archives[h])], S)
      first   == Min({g \in aged .. f.gen : size(from(g)) <= Retained})
  IN [f EXCEPT !.archives = Restrict(@, from(first))]

Full(f) == f.active # <<>> /\ Len(f.active) + 1 > Cap

\* os.replace of the active file, and a new one.
Moved(f) ==
  [archives |-> [g \in All(f) |-> IF g = f.gen THEN Isolated(f.active) ELSE f.archives[g]],
   active |-> <<>>, gen |-> f.gen + 1]

\* How much of a file a recipient has received.
Offset(m, g, c)  == IF g \in DOMAIN m.kept THEN m.kept[g][c] ELSE 0
Got(m, f, g, c)  == IF g = f.gen THEN m.cursor[c] ELSE Offset(m, g, c)

\* Mutant: the cursors of the old file go on in the new one.
CursorsMoved(m, f, g) ==
  [m EXCEPT !.kept = [h \in Gens(f) |-> IF h = g THEN m.cursor
                                        ELSE [c \in Recipient |-> Offset(m, h, c)]]]
\* _rotate_if_needed: the cursors of the old file go with it, the new one starts at zero.
CursorsRotated(m, f, g) ==
  [m EXCEPT !.kept   = [h \in Gens(f) |-> IF h = g THEN m.cursor
                                          ELSE [c \in Recipient |-> Offset(m, h, c)]],
            !.cursor = [c \in Recipient |-> 0]]

\* _flush_index.
Image(m, f) == [mem |-> m, bytes |-> Bytes(f.active), gens |-> Gens(f), gen |-> f.gen]

-----------------------------------------------------------------------------
(* The start: _load_index. *)

\* _apply_recovered_record, over some of the records.
Replayed(m, f, S) ==
  LET of(o) == {p \in S : At(f, p).order = o}
  IN [m EXCEPT !.last = IF S = {} THEN @ ELSE At(f, Latest(S)).id,
               !.seen = [o \in Order |-> IF of(o) = {} THEN @[o] ELSE At(f, Latest(of(o))).version]]

\* _rebuild_cache_from_raw keeps the cursors.
Rebuilt(m, f) == Replayed([m EXCEPT !.last = 0, !.seen = Blank.seen], f, Records(f))

\* Mutant: the index is believed as it was written.
LoadedStale(f) == IF Places(f) = {} THEN Blank ELSE index.mem
\* The file decides: the index is kept when it agrees, brought up to date with the tail when
\* that begins on a line of its own, and rebuilt otherwise.
Loaded(f) ==
  LET ends == {k \in 0 .. Len(f.active) : Bytes(SubSeq(f.active, 1, k)) = index.bytes}
  IN IF Places(f) = {} THEN Blank
     ELSE IF index.gens # Gens(f) \/ ends = {} THEN Rebuilt(index.mem, f)
     ELSE Replayed(index.mem, f, {p \in Records(f) : p[1] = f.gen /\ p[2] > Max(ends)})

Strays(cursor, g) == {<<g, c>> : c \in {d \in Recipient : cursor[d] > 0}}

\* OrderAuditCollector(): load, prune, flush; then start_background_collector asks for a
\* sweep of everything.
Boot ==
  /\ ~up /\ up' = TRUE
  /\ LET m == Loaded(files)
     IN \E aged \in All(files) :
          LET f == Pruned(files, aged)
          IN files' = f /\ mem' = m /\ index' = Image(m, f)
  /\ stray' = IF index.gen # files.gen /\ Places(files) # {}
              THEN stray \union Strays(index.mem.cursor, files.gen) ELSE stray
  /\ queue' = {"sweep"}
  /\ UNCHANGED <<version, settings, job, flight, written, doubtful, held, missed, budget>>

-----------------------------------------------------------------------------
(* _append, under the lock of the collector. *)

Spend(what, most) == budget[what] < most /\ budget' = [budget EXCEPT ![what] = @ + 1]

\* What happens to an append: it is done; it fails before anything is written, or right after
\* the file has been moved away, or in the middle of the line, or in the fsync after it.
Outcome == {"done", "nothing", "moved", "torn", "whole"}

\* What the append finds: the collector as it is, or after a rotation.
Prepared ==
  IF ~Full(files) THEN {[files |-> files, mem |-> mem, index |-> index]}
  ELSE {LET f == Pruned(Moved(files), aged)
            m == CursorsRotated(mem, f, files.gen)
        IN [files |-> f, mem |-> m, index |-> Image(m, f)] : aged \in All(Moved(files))}

\* _append of a record, and after it the flush of the caller: at once after a rotation, else
\* when it is time.  "seen" are the last snapshots with this record.
Appended(line, outcome, seen, flush) ==
  \E base \in Prepared :
  \E record \in {[line EXCEPT !.id = written + 1, !.prev = base.mem.last]} :
  LET with(x) == files' = [base.files EXCEPT !.active = Append(Isolated(@), x)]
      kept    == mem' = base.mem /\ index' = base.index
  IN \/ /\ outcome = "done" /\ with(record) /\ written' = written + 1
        /\ mem' = [base.mem EXCEPT !.last = record.id, !.seen = seen]
        /\ index' \in IF flush \/ Full(files) THEN {Image(mem', files')}
                      ELSE {index, Image(mem', files')}
     \/ outcome = "nothing" /\ files' = base.files /\ kept /\ UNCHANGED written
     \/ /\ outcome = "moved" /\ Full(files) /\ files' = Moved(files)
        /\ UNCHANGED <<mem, index, written>>
     \/ outcome = "torn" /\ with(Torn) /\ kept /\ UNCHANGED written
     \/ outcome = "whole" /\ with(record) /\ kept /\ written' = written + 1

\* The process dies: with it the queue and what was read.  A segment on its way arrives or not.
Dies ==
  /\ up' = FALSE /\ queue' = {}
  /\ job' = [t \in Worker |-> NoJob] /\ flight' = NoFlight
  /\ held' \in {held, [c \in Recipient |-> IF c = flight.chat THEN held[c] \union flight.ids
                                          ELSE held[c]]}

\* An append that succeeds is free; the others are faults, and may be the end of the process.
\* If they are not, a record may be in the file that the memory does not know, or a new file
\* be there to which the cursors of the old one are applied.
Result(outcome, survives, acts) ==
  /\ outcome = "done" => survives
  /\ outcome # "done" => budget.faults < MaxFailures
  /\ budget' = [acts |-> budget.acts + acts, faults |-> budget.faults + (IF outcome = "done" THEN 0 ELSE 1)]
  /\ doubtful' = IF outcome = "whole" /\ survives THEN doubtful \union {written + 1} ELSE doubtful
  /\ stray' = IF outcome = "moved" /\ survives
              THEN stray \union Strays(mem.cursor, files.gen + 1) ELSE stray
  /\ IF survives THEN UNCHANGED <<up, queue, flight, held>> ELSE Dies

-----------------------------------------------------------------------------
(* The till changes orders, and the collector hears of it. *)

Existing        == {o \in Order : version[o].now > 0}
RecentlyChanged == {o \in Existing : version[o].recent}

\* Mutant: an order that is being captured counts as asked for.
RequestedOnce(o) == IF settings.on /\ o \notin DOMAIN job["collector"].todo THEN queue \union {o} ELSE queue
\* request_capture: once, while it is queued.
Requested(o) == IF settings.on THEN queue \union {o} ELSE queue

\* A commit that saves the order itself, or only a row related to it, whose callback asks for
\* a capture.
Change(o) ==
  /\ up /\ version[o].now < MaxVersion
  /\ \E own \in BOOLEAN :
       /\ own \/ o \in Existing
       /\ version' = [version EXCEPT ![o] = [now |-> @.now + 1, recent |-> @.recent \/ own]]
  /\ queue' = Requested(o)
  /\ UNCHANGED <<settings, files, index, mem, up, job, flight, written, doubtful, held,
                 stray, missed, budget>>

\* set_enabled, set_auto_send: switching the collector on asks for a sweep of everything.
Switch(key) ==
  /\ up /\ Spend("acts", MaxActs)
  /\ settings' = [settings EXCEPT ![key] = ~@]
  /\ queue' = IF key = "on" /\ ~settings.on THEN queue \union {"sweep"} ELSE queue
  /\ UNCHANGED <<version, files, index, mem, up, job, flight, written, doubtful, held,
                 stray, missed>>

\* record_event: a request or the sync engine leaves a record, from a thread of its own; an
\* error stays there.
RecordEvent ==
  /\ up /\ settings.on /\ budget.acts < MaxActs
  /\ \E outcome \in Outcome, survives \in BOOLEAN :
       /\ Result(outcome, survives, 1)
       /\ survives => UNCHANGED job
       /\ Appended(Line("event", "none", 0, 0, 0), outcome, mem.seen, FALSE)
  /\ UNCHANGED <<version, settings, missed>>

-----------------------------------------------------------------------------
(* The collector thread, and the panel. *)

\* The orders are read at once, and captured later.
Reads(t, stage, orders) ==
  job' = [job EXCEPT ![t] = [stage |-> stage, todo |-> [o \in orders |-> version[o].now]]]

\* capture_order_id: once it is taken from the queue, the order can be asked for again.
TakeOrder(o) ==
  /\ up /\ job["collector"] = NoJob /\ o \in queue
  /\ queue' = queue \ {o} /\ Reads("collector", "order", {o})
  /\ UNCHANGED <<version, settings, files, index, mem, up, flight, written, doubtful,
                 held, stray, missed, budget>>

\* capture_all_orders: the sweep that was asked for, and the periodic one below.
TakeSweep ==
  /\ up /\ job["collector"] = NoJob /\ "sweep" \in queue
  /\ queue' = queue \ {"sweep"}
  /\ Reads("collector", "sweep", IF settings.on THEN Existing ELSE {})
  /\ UNCHANGED <<version, settings, files, index, mem, up, flight, written, doubtful,
                 held, stray, missed, budget>>

\* One that finds nothing is left out.
PeriodicSweep ==
  /\ up /\ job["collector"] = NoJob /\ settings.on
  /\ \E o \in RecentlyChanged : mem.seen[o] # version[o].now
  /\ Reads("collector", "sweep", RecentlyChanged)
  /\ UNCHANGED <<version, settings, files, index, mem, up, queue, flight, written, doubtful,
                 held, stray, missed, budget>>

\* send_order_audit_now: the panel sweeps on the thread of its request.
PanelSweep ==
  /\ up /\ job["panel"] = NoJob /\ Spend("acts", MaxActs)
  /\ Reads("panel", "sweep", IF settings.on THEN Existing ELSE {})
  /\ UNCHANGED <<version, settings, files, index, mem, up, queue, flight, written, doubtful,
                 held, stray, missed>>

Done(t, o) ==
  LET j == job[t]
  IN [job EXCEPT ![t] = IF j.stage = "order" THEN NoJob
                        ELSE [j EXCEPT !.todo = Restrict(@, DOMAIN @ \ {o})]]

Wanted(o, v) == settings.on /\ mem.seen[o] # v
\* capture: what was read is compared with the last snapshot, under the lock.
Capture(t, o) ==
  /\ up /\ o \in DOMAIN job[t].todo
  /\ LET v == job[t].todo[o]
     IN IF ~Wanted(o, v)
        THEN /\ job' = Done(t, o)
             /\ UNCHANGED <<files, index, mem, up, queue, flight, written, doubtful,
                            held, stray, missed, budget>>
        ELSE \E outcome \in Outcome, survives \in BOOLEAN :
               /\ Result(outcome, survives, 0)
               /\ survives => job' = Done(t, o)
               /\ missed' = IF outcome # "done" \/ v < mem.seen[o] THEN missed \union {o}
                            ELSE IF v = version[o].now THEN missed \ {o} ELSE missed
               /\ Appended(Line("snapshot", o, v, 0, 0), outcome,
                           [mem.seen EXCEPT ![o] = v], FALSE)
  /\ UNCHANGED <<version, settings>>

\* The end of a sweep flushes the index; the panel goes on to its export.
EndSweep(t) ==
  /\ up /\ job[t].stage = "sweep" /\ job[t].todo = Empty
  /\ job' = [job EXCEPT ![t] = IF t = "panel" THEN [@ EXCEPT !.stage = "export"] ELSE NoJob]
  /\ index' = Image(mem, files)
  /\ UNCHANGED <<version, settings, files, mem, up, queue, flight, written, doubtful,
                 held, stray, missed, budget>>

\* prepare_export appends a manifest, flushes and copies every file, which is sent as a whole:
\* no cursor moves.
PanelExport ==
  /\ up /\ job["panel"].stage = "export"
  /\ \E outcome \in Outcome, survives \in BOOLEAN :
       /\ Result(outcome, survives, 0)
       /\ survives => job' = [job EXCEPT !["panel"] = NoJob]
       /\ Appended(Line("event", "none", 0, 0, 0), outcome, mem.seen, TRUE)
  /\ UNCHANGED <<version, settings, missed>>

-----------------------------------------------------------------------------
(* The sender. *)

\* A file with the part of it a recipient has received, from its start again when the cursor
\* points behind its end.
Source(c, g) ==
  LET lines == File(files, g)
      got   == Got(mem, files, g, c)
  IN [gen |-> g, active |-> g = files.gen, lines |-> lines,
      start |-> IF got > Len(lines) THEN 0 ELSE got]

\* Mutant: only the active file is looked at.
NextSourceActive(c) == Source(c, files.gen)
\* prepare_incremental_export: the oldest archive that is not delivered, or else the active
\* file; whole lines only.
NextSource(c) ==
  LET waits(g) == Source(c, g).start < Len(File(files, g))
  IN Source(c, Min({g \in Gens(files) : waits(g)} \union {files.gen}))

Part(c, src) ==
  LET stop == Min({src.start + Segment, Len(src.lines)})
      end  == IF stop > 0 /\ src.lines[stop] = Torn THEN stop - 1 ELSE stop
  IN [chat |-> c, gen |-> src.gen, active |-> src.active, end |-> end,
      ids |-> {src.lines[i].id : i \in {k \in src.start + 1 .. end : IsRecord(src.lines[k])}}]

Freeze(c) ==
  /\ up /\ settings.on /\ settings.send /\ flight = NoFlight
  /\ \E src \in {NextSource(c)} : flight' = Part(c, src) /\ flight'.end > src.start
  /\ UNCHANGED <<version, settings, files, index, mem, up, queue, job, written, doubtful,
                 held, stray, missed, budget>>

\* mark_delivered: the name of the active file means the file that is active now.
Marked ==
  LET c == flight.chat
  IN IF flight.active THEN [mem EXCEPT !.cursor[c] = Max({@, flight.end})]
     ELSE IF flight.gen \in Gens(files)
     THEN [mem EXCEPT !.kept = [g \in Gens(files) |-> [d \in Recipient |->
             IF g = flight.gen /\ d = c THEN Max({Offset(mem, g, d), flight.end})
             ELSE Offset(mem, g, d)]]]
     ELSE mem

Holds(c) == held' = [held EXCEPT ![c] = @ \union flight.ids]

\* The post: acknowledged; or it arrived and the answer is lost; or it never arrived.
Deliver ==
  /\ up /\ flight # NoFlight /\ flight' = NoFlight
  /\ \/ /\ Holds(flight.chat) /\ UNCHANGED budget
        /\ mem' = Marked /\ index' = Image(mem', files)
        /\ stray' = IF flight.active /\ flight.gen # files.gen
                    THEN stray \union {<<files.gen, flight.chat>>} ELSE stray
     \/ /\ Spend("faults", MaxFailures) /\ (Holds(flight.chat) \/ UNCHANGED held)
        /\ index' \in {index, Image(mem, files)} /\ UNCHANGED <<mem, stray>>
  /\ UNCHANGED <<version, settings, files, up, queue, job, written, doubtful, missed>>

-----------------------------------------------------------------------------
\* begin_process_shutdown and stop_background_collector: the collector flushes as it ends.
AuditExit ==
  /\ up /\ Spend("acts", MaxActs) /\ Dies /\ index' = Image(mem, files)
  /\ UNCHANGED <<version, settings, files, mem, written, doubtful, stray, missed>>

ProcessCrash ==
  /\ up /\ Spend("faults", MaxFailures) /\ Dies
  /\ UNCHANGED <<version, settings, files, index, mem, written, doubtful, stray, missed>>

AuditNext ==
  \/ Boot \/ RecordEvent \/ TakeSweep \/ PeriodicSweep \/ PanelSweep
  \/ PanelExport \/ Deliver \/ AuditExit \/ ProcessCrash
  \/ \E o \in Order : Change(o) \/ TakeOrder(o) \/ Capture("collector", o) \/ Capture("panel", o)
  \/ \E t \in Worker : EndSweep(t)
  \/ \E key \in {"on", "send"} : Switch(key)
  \/ \E c \in Recipient : Freeze(c)

Collects == \/ TakeSweep \/ PeriodicSweep \/ EndSweep("collector")
            \/ \E o \in Order : TakeOrder(o) \/ Capture("collector", o)
Sends    == Deliver \/ \E c \in Recipient : Freeze(c)

\* The till is started again, and its two threads take their steps.
AuditFairness == WF_auditVars(Boot \/ Collects) /\ WF_auditVars(Sends)

AuditSpec == AuditInit /\ [][AuditNext]_auditVars /\ AuditFairness

-----------------------------------------------------------------------------
(* The types, and the properties. *)

LineType == [kind : {"snapshot", "event", "torn", "junk"}, order : Order \union {"none"},
             version : Nat, id : Nat, prev : Nat]

FilesOK(f) ==
  /\ f = [archives |-> f.archives, active |-> f.active, gen |-> f.gen]
  /\ f.gen \in Nat \ {0} /\ Gens(f) \subseteq 1 .. f.gen - 1
  /\ f.archives \in [Gens(f) -> Seq(LineType)] /\ f.active \in Seq(LineType)

\* What is known of the files up to a generation.
CacheOK(m, gen) ==
  /\ m = [last |-> m.last, seen |-> m.seen, cursor |-> m.cursor, kept |-> m.kept]
  /\ m.last \in Nat /\ m.seen \in [Order -> Nat] /\ m.cursor \in [Recipient -> Nat]
  /\ DOMAIN m.kept \subseteq 1 .. gen - 1 /\ m.kept \in [DOMAIN m.kept -> [Recipient -> Nat]]

IndexOK(x, gen) ==
  /\ x = [mem |-> x.mem, bytes |-> x.bytes, gens |-> x.gens, gen |-> x.gen]
  /\ x.gen \in 0 .. gen /\ x.gens \subseteq 1 .. x.gen - 1 /\ x.bytes \in Nat \union {-1}
  /\ CacheOK(x.mem, x.gen)

FlightOK(fl) ==
  fl = NoFlight \/ fl \in [chat : Recipient, gen : Nat, active : BOOLEAN, end : Nat, ids : SUBSET Nat]

JobsOK ==
  /\ job = [t \in Worker |-> job[t]]
  /\ \A t \in Worker :
       /\ job[t] = [stage |-> job[t].stage, todo |-> job[t].todo]
       /\ job[t].stage \in {"none", "order", "sweep", "export"}
       /\ DOMAIN job[t].todo \subseteq Order /\ job[t].todo \in [DOMAIN job[t].todo -> Nat]

\* The types.  No archive is newer than the active file, and no index than the files.
AuditTypeOK ==
  /\ version \in [Order -> [now : Nat, recent : BOOLEAN]]
  /\ settings \in [on : BOOLEAN, send : BOOLEAN]
  /\ FilesOK(files) /\ CacheOK(mem, files.gen) /\ IndexOK(index, files.gen)
  /\ up \in BOOLEAN /\ queue \subseteq Order \union {"sweep"}
  /\ JobsOK
  /\ FlightOK(flight)
  /\ written \in Nat /\ doubtful \subseteq Nat /\ held \in [Recipient -> SUBSET Nat]
  /\ stray \subseteq Nat \X Recipient /\ missed \subseteq Order
  /\ budget \in [acts : Nat, faults : Nat]

\* The hash chain of what is retained has no gap and no fork, across rotations, torn lines,
\* pruned archives and restarts with an older index; only a record whose append reported an
\* error although it is in the file has a successor that does not know it.
ChainUnbroken ==
  \A p, q \in Records(files) :
    Precedes(p, q) =>
      \/ \E r \in Records(files) : Precedes(p, r) /\ Precedes(r, q)
      \/ At(files, q).prev = At(files, p).id
      \/ At(files, p).id \in doubtful

\* What lies before the cursor of a recipient has been received by it: a crash, a lost answer,
\* a rotation and a retention may repeat a segment and never skip one.  The exceptions are
\* files to which a cursor was applied that belongs to another.
NeverSkipped ==
  \A c \in Recipient, p \in Records(files) :
    p[2] <= Got(mem, files, p[1], c) =>
      At(files, p).id \in held[c] \/ <<p[1], c>> \in stray

\* The state an order has in the database becomes its last snapshot: through failed writes,
\* crashes, the coalescing of the queue and a panel that captures what it read earlier; unless
\* the collector is switched off, or only an older order is concerned whose one capture failed.
Outstanding(o) == settings.on /\ o \in Existing /\ (o \in RecentlyChanged \/ o \notin missed)
EventuallyCaptured ==
  \A o \in Order : []<>((up /\ mem.seen[o] = version[o].now) \/ ~Outstanding(o))

\* While it is switched on, everything retained reaches every recipient, past everything that
\* fails, archives first; but for the files to which a cursor was applied that belongs to
\* another, parts of which are sent again and again or not at all.
Arrived(c) ==
  \A p \in Records(files) : At(files, p).id \in held[c] \/ <<p[1], c>> \in stray
EventuallyDelivered ==
  \A c \in Recipient : []<>((up /\ Arrived(c)) \/ ~settings.on \/ ~settings.send)
=============================================================================
