--------------------------- MODULE ShiftCloseSync ---------------------------
(***************************************************************************)
(* The acknowledgement of closed shifts (desktop/shift_close_sync.py).     *)
(*                                                                         *)
(* The sync queue uploads each row on its own; a closed shift is safe only *)
(* when the cloud has verified its whole bundle, the frozen manifest and   *)
(* the settlement totals it lists.  The till keeps an entry per close in   *)
(* desktop_state.json, which survives the process, and takes it to         *)
(* ACKNOWLEDGED on the word of the cloud alone.                            *)
(*                                                                         *)
(* Workers (the sync loop and the sync buttons of the desktop) refresh the *)
(* entries under one lock, before and after each push.  The post-commit    *)
(* callback of a saved shift writes its entry WITHOUT that lock, from an   *)
(* entry it read earlier; so does a refresh, whose reads are older still.  *)
(* The queue, the push and the cloud are those this module sees.           *)
(***************************************************************************)
EXTENDS Integers, Sequences, FiniteSets

CONSTANTS
  Shift,        \* primary keys: the greater is the newer
  Volatile,     \* the closes that may be broken, or changed later at the till or in the cloud
  Worker,       \* threads that run sync cycles
  MaxVersion,   \* bound: versions of a manifest, of the totals
  MaxProbes,    \* _MAX_PROBES_PER_RUN
  MaxFaults     \* bound: lost or garbled answers, failed pushes, crashes, lost rows

ASSUME CloseConstants ==
  /\ Shift \subseteq Nat /\ IsFiniteSet(Shift)
  /\ Volatile \subseteq Shift
  /\ MaxVersion \in Nat \ {0}
  /\ MaxProbes \in Nat \ {0}
  /\ MaxFaults \in Nat

VARIABLES
  shift,      \* the rows of PostgreSQL: status, manifest (0: missing), totals
  queue,      \* SyncQueueRecord of each part of a bundle
  cloud,      \* the version of each part the cloud holds (0: none)
  entries,    \* the tracker rows of desktop_state.json
  started,    \* _STARTED: is the save signal connected
  call,       \* the post-commit callbacks under way
  phase,      \* where each worker is in its cycle
  run,        \* the refresh that holds _RUN_LOCK
  verified,   \* history: <<shift, version>> the cloud said it has verified
  faults      \* failures so far

vars == <<shift, queue, cloud, entries, started, call, phase, run, verified, faults>>

Version == 1 .. MaxVersion
Part    == {"shift", "totals"}
Entry   == [state : {"NONE", "PENDING", "CONFLICT", "ACKNOWLEDGED"},
            digest : 0 .. MaxVersion, probed : BOOLEAN]
Row     == [status : {"open", "closed", "gone"}, manifest : 0 .. MaxVersion, totals : Version]
Nobody  == "nobody"
NoEntry == [state |-> "NONE", digest |-> 0, probed |-> FALSE]
NoCall  == [at |-> "none", row |-> [status |-> "open", manifest |-> 0, totals |-> 1],
            previous |-> NoEntry]
NoRun   == [by |-> Nobody, stage |-> "discover", found |-> [s \in Shift |-> NoCall.row],
            seen |-> [s \in Shift |-> NoEntry], todo |-> <<>>, probes |-> 0,
            down |-> FALSE, answer |-> "NONE"]

Answer == {"NONE", "PENDING", "CONFLICT", "ACKNOWLEDGED", "UNAVAILABLE", "GARBLED"}

Run    == [by : Worker \union {Nobody},
           stage : {"discover", "track", "visit", "answered", "recorded"},
           found : [Shift -> Row], seen : [Shift -> Entry], todo : Seq(Shift),
           probes : 0 .. MaxProbes, down : BOOLEAN, answer : Answer]

TypeOK ==
  /\ shift \in [Shift -> Row]
  /\ queue \in [Shift -> [Part -> {"absent", "ready", "dead", "parked"}]]
  /\ cloud \in [Shift -> [Part -> 0 .. MaxVersion]]
  /\ entries \in [Shift -> Entry]
  /\ started \in BOOLEAN
  /\ call \in [Shift -> [at : {"none", "committed", "read"}, row : Row, previous : Entry]]
  /\ phase \in [Worker -> {"boot", "prepare", "push", "probe"}]
  /\ run \in Run
  /\ run.stage \in {"answered", "recorded"} => run.todo # <<>> /\ run.answer # "NONE"
  /\ verified \subseteq Shift \X Version
  /\ faults \in 0 .. MaxFaults

Init ==
  /\ shift = [s \in Shift |-> NoCall.row]
  /\ queue = [s \in Shift |-> [p \in Part |-> "absent"]]
  /\ cloud = [s \in Shift |-> [p \in Part |-> 0]]
  /\ entries = [s \in Shift |-> NoEntry]
  /\ started = FALSE
  /\ call = [s \in Shift |-> NoCall]
  /\ phase = [w \in Worker |-> "prepare"]
  /\ run = NoRun
  /\ verified = {}
  /\ faults = 0

-----------------------------------------------------------------------------
(* A bundle, and the entry that tracks it. *)

\* _local_bundle found no local_error: the totals are those the manifest froze.
Sound(row) == row.manifest # 0 /\ row.totals = row.manifest
Content(row, p) == IF p = "shift" THEN row.manifest ELSE row.totals

\* _entry_for: the state of a tracker row, with the digest of the bundle at hand.
EntryFor(row, previous, state, probed) ==
  [state |-> state, digest |-> row.manifest, probed |-> previous.probed \/ probed]

\* An acknowledgement of this very manifest is proof for good.
Proven(row, previous) ==
  previous.state = "ACKNOWLEDGED" /\ previous.digest = row.manifest
Changed(row, previous) == previous.digest \notin {0, row.manifest}

\* Mutant: an acknowledged manifest may change.
TrackedAcked(row, previous) ==
  CASE ~Sound(row) -> EntryFor(row, previous, "CONFLICT", FALSE)
    [] Sound(row) /\ previous.state = "ACKNOWLEDGED" -> previous
    [] Sound(row) /\ previous.state # "ACKNOWLEDGED" -> EntryFor(row, previous, "PENDING", FALSE)
\* What the tracker makes of a bundle and the entry it read, without asking the cloud.
Tracked(row, previous) ==
  CASE ~Sound(row) \/ Changed(row, previous) -> EntryFor(row, previous, "CONFLICT", FALSE)
    [] Sound(row) /\ Proven(row, previous) -> previous
    [] OTHER -> EntryFor(row, previous, IF previous.state = "CONFLICT" THEN "CONFLICT"
                                                                       ELSE "PENDING", FALSE)

\* get_status: no close is pending or in conflict.
Clear == \A s \in Shift : entries[s].state \notin {"PENDING", "CONFLICT"}

-----------------------------------------------------------------------------
(* The rows change under the tracker. *)

\* The save signal: the callback is registered only while the tracker is started.
Notify(s) ==
  call' = IF started THEN [call EXCEPT ![s] = [NoCall EXCEPT !.at = "committed"]] ELSE call

\* SyncMixin: a saved row is queued afresh.
Enqueue(s, parts) ==
  queue' = [queue EXCEPT ![s] = [p \in Part |-> IF p \in parts THEN "ready" ELSE @[p]]]

\* ShiftService.end_shift: the manifest is frozen over the totals, or is missing.
Close(s) ==
  /\ shift[s].status = "open" /\ call[s].at = "none"
  /\ \E m \in (IF s \in Volatile THEN {0, 1} ELSE {1}) :
       shift' = [shift EXCEPT ![s] = [status |-> "closed", manifest |-> m, totals |-> 1]]
  /\ Enqueue(s, Part)
  /\ Notify(s)
  /\ UNCHANGED <<cloud, entries, started, phase, run, verified, faults>>

\* A pull or a reconciliation saves the shift again, as it is or with another manifest.
Resave(s) ==
  /\ s \in Volatile /\ shift[s].status = "closed" /\ call[s].at = "none"
  /\ \/ shift[s].manifest < MaxVersion /\ shift' = [shift EXCEPT ![s].manifest = @ + 1]
        /\ Enqueue(s, {"shift"})
     \/ UNCHANGED <<shift, queue>>
  /\ Notify(s)
  /\ UNCHANGED <<cloud, entries, started, phase, run, verified, faults>>

\* The settlement totals are written again: no signal of the shift.
Recount(s) ==
  /\ s \in Volatile /\ shift[s].status = "closed"
  /\ shift[s].totals # MaxVersion
  /\ shift' = [shift EXCEPT ![s].totals = @ + 1]
  /\ Enqueue(s, {"totals"})
  /\ UNCHANGED <<cloud, entries, started, call, phase, run, verified, faults>>

\* An unresolved close disappears from the database.
Vanish(s) ==
  /\ s \in Volatile /\ shift[s].status = "closed" /\ faults < MaxFaults
  /\ shift' = [shift EXCEPT ![s].status = "gone"]
  /\ faults' = faults + 1
  /\ UNCHANGED <<queue, cloud, entries, started, call, phase, run, verified>>

-----------------------------------------------------------------------------
(* The post-commit callback. *)

\* _track_committed_shift reads the rows and the entry ...
ReadForCall(s) ==
  /\ call[s].at = "committed"
  /\ call' = [call EXCEPT ![s] =
       IF shift[s].status = "closed" /\ (~Sound(shift[s]) \/ ~Proven(shift[s], entries[s]))
       THEN [at |-> "read", row |-> shift[s], previous |-> entries[s]]
       ELSE NoCall]
  /\ UNCHANGED <<shift, queue, cloud, entries, started, phase, run, verified, faults>>

\* ... and replaces the entry, whatever it has become.
PersistForCall(s) ==
  /\ call[s].at = "read"
  /\ entries' = [entries EXCEPT ![s] = Tracked(call[s].row, call[s].previous)]
  /\ call' = [call EXCEPT ![s] = NoCall]
  /\ UNCHANGED <<shift, queue, cloud, started, phase, run, verified, faults>>

-----------------------------------------------------------------------------
(* A refresh, under _RUN_LOCK. *)

Found(r) == {s \in Shift : r.found[s].status = "closed"}
\* S as a sequence in the order of R (TLC's SortSeq is nothing a proof can open).
Listed(S, R) ==
  CHOOSE s \in [1 .. Cardinality(S) -> S] :
    \A i, j \in 1 .. Cardinality(S) : i < j => <<s[i], s[j]>> \in R
NewestFirst(S) == Listed(S, {p \in S \X S : p[1] > p[2]})

\* Unresolved rows whose shift is no longer there.
Orphans(r) == {s \in Shift \ Found(r) : r.seen[s].state \in {"PENDING", "CONFLICT"}}

\* _refresh: rows never probed first, then the pending ones, then the newest.
Rank(r, s) == <<IF r.seen[s].probed THEN 1 ELSE 0, IF r.seen[s].state = "PENDING" THEN 0 ELSE 1>>
Before(r, a, b) ==
  \/ Rank(r, a)[1] < Rank(r, b)[1]
  \/ Rank(r, a)[1] = Rank(r, b)[1] /\ Rank(r, a)[2] < Rank(r, b)[2]
  \/ Rank(r, a) = Rank(r, b) /\ a > b
\* The rows the cycle works on: neither acknowledged nor broken.
Agenda(r) == {s \in Found(r) : r.seen[s].state # "ACKNOWLEDGED" /\ Sound(r.found[s])}

\* ensure_started: the first caller connects the signal and will refresh.
EnsureStarted(w) ==
  /\ phase[w] = "prepare" /\ ~started
  /\ started' = TRUE
  /\ phase' = [phase EXCEPT ![w] = "boot"]
  /\ UNCHANGED <<shift, queue, cloud, entries, call, run, verified, faults>>

\* Mutant: only tracked shifts are looked for.
FoundTracked == [s \in Shift |-> IF entries[s] = NoEntry THEN NoCall.row ELSE shift[s]]
\* _discover_bundles: the closed shifts and their totals.
Discovered == shift

Discover(w) ==
  /\ started /\ phase[w] \in {"boot", "prepare", "probe"} /\ run.by = Nobody
  /\ run' = [NoRun EXCEPT !.by = w, !.found = Discovered]
  /\ UNCHANGED <<shift, queue, cloud, entries, started, call, phase, verified, faults>>

\* The last entry tracked, the cycle knows what to work on, unless it is the first one.
Arranged(r) ==
  IF r.todo # <<>> THEN r
  ELSE LET agenda == IF phase[r.by] = "boot" THEN {} ELSE Agenda(r)
       IN  [r EXCEPT !.stage = "visit",
                     !.todo = Listed(agenda, {p \in agenda \X agenda : Before(r, p[1], p[2])}),
                     !.seen = [s \in Shift |-> IF s \in agenda THEN @[s] ELSE NoEntry]]

\* _ensure_discovered_entries reads the entries once ...
ReadEntries ==
  /\ run.by # Nobody /\ run.stage = "discover"
  /\ LET r == [run EXCEPT !.stage = "track", !.seen = entries]
     IN  run' = Arranged([r EXCEPT !.todo = NewestFirst(Found(r)) \o NewestFirst(Orphans(r))])
  /\ UNCHANGED <<shift, queue, cloud, entries, started, call, phase, verified, faults>>

\* ... and replaces them one by one: from the bundles, then LOCAL_SHIFT_MISSING.
Track ==
  /\ run.by # Nobody /\ run.stage = "track" /\ run.todo # <<>>
  /\ LET s == Head(run.todo)
         previous == run.seen[s]
         entry == IF s \in Found(run) THEN Tracked(run.found[s], previous)
                                      ELSE [previous EXCEPT !.state = "CONFLICT"]
     IN  /\ entries' = IF s \in Found(run) /\ Sound(run.found[s]) /\ Proven(run.found[s], previous)
                       THEN entries ELSE [entries EXCEPT ![s] = entry]
         /\ run' = Arranged([run EXCEPT !.seen[s] = entry, !.todo = Tail(@)])
  /\ UNCHANGED <<shift, queue, cloud, started, call, phase, verified, faults>>

\* _retain_bundle: every part is queued; an explicit PENDING revives dead letters.
Retained(rows, revive) ==
  [p \in Part |-> IF rows[p] = "absent" \/ revive THEN "ready" ELSE rows[p]]
\* _park_conflict_bundle: every part is kept, out of the pusher's reach.
Parked == [p \in Part |-> "parked"]
\* Mutant: an acknowledgement drops whatever is queued.
ClearedAll(rows) == [p \in Part |-> "absent"]
\* _clear_parked_bundle_after_ack: only rows that are still parked are dropped.
Cleared(rows) == [p \in Part |-> IF rows[p] = "parked" THEN "absent" ELSE rows[p]]

\* Without a probe, or beyond the last one, the evidence is kept queued or parked.
Probing == phase[run.by] = "probe"
Spares == run.probes < MaxProbes

Keep ==
  /\ run.by # Nobody /\ run.stage = "visit" /\ run.todo # <<>>
  /\ ~Probing \/ ~Spares
  /\ LET s == Head(run.todo)
     IN  queue' = [queue EXCEPT ![s] = IF run.seen[s].state = "CONFLICT" THEN Parked
                                                                         ELSE Retained(@, FALSE)]
  /\ run' = [run EXCEPT !.todo = Tail(@), !.seen[Head(run.todo)] = NoEntry]
  /\ UNCHANGED <<shift, cloud, entries, started, call, phase, verified, faults>>

\* The verdict of the cloud on a bundle: a mismatch, evidence missing, or all of it there.
Verdict(s, m) ==
  CASE \E p \in Part : cloud[s][p] \notin {0, m} -> "CONFLICT"
    [] \A p \in Part : cloud[s][p] = m           -> "ACKNOWLEDGED"
    [] OTHER                                     -> "PENDING"

\* _request_cloud_ack; one transport failure stands for the rest of the cycle.
Ask ==
  /\ run.by # Nobody /\ run.stage = "visit" /\ run.todo # <<>>
  /\ Probing /\ Spares
  /\ LET s == Head(run.todo)
         m == run.found[s].manifest
     IN  \/ /\ run.down
            /\ run' = [run EXCEPT !.stage = "answered", !.answer = "UNAVAILABLE"]
            /\ UNCHANGED <<verified, faults>>
         \/ /\ ~run.down
            /\ run' = [run EXCEPT !.stage = "answered", !.answer = Verdict(s, m), !.probes = @ + 1]
            /\ verified' = IF Verdict(s, m) = "ACKNOWLEDGED" THEN verified \union {<<s, m>>} ELSE verified
            /\ UNCHANGED faults
         \/ /\ ~run.down /\ faults < MaxFaults
            /\ \E a \in {"UNAVAILABLE", "GARBLED"} :
                 run' = [run EXCEPT !.stage = "answered", !.answer = a, !.probes = @ + 1,
                                    !.down = (a = "UNAVAILABLE")]
            /\ faults' = faults + 1
            /\ UNCHANGED verified
  /\ UNCHANGED <<shift, queue, cloud, entries, started, call, phase>>

\* Mutant: an answer that does not echo the bundle is taken for an acknowledgement.
ReadingTrusted(answer) ==
  CASE answer = "UNAVAILABLE" -> "PENDING"
    [] answer = "GARBLED"     -> "ACKNOWLEDGED"
    [] OTHER                  -> answer
\* _validated_remote_result: an answer that does not echo the bundle fails closed.
Reading(answer) ==
  CASE answer = "UNAVAILABLE" -> "PENDING"
    [] answer = "GARBLED"     -> "CONFLICT"
    [] OTHER                  -> answer

Record ==
  /\ run.by # Nobody /\ run.stage = "answered"
  /\ LET s == Head(run.todo)
         entry == EntryFor(run.found[s], run.seen[s], Reading(run.answer), TRUE)
     IN  /\ entries' = [entries EXCEPT ![s] = entry]
         /\ run' = [run EXCEPT !.stage = "recorded", !.seen[s] = entry]
  /\ UNCHANGED <<shift, queue, cloud, started, call, phase, verified, faults>>

\* Mutant: dead letters are never revived.
RequeuedDead(rows, answer) ==
  CASE Reading(answer) = "PENDING"      -> Retained(rows, FALSE)
    [] Reading(answer) = "CONFLICT"     -> Parked
    [] Reading(answer) = "ACKNOWLEDGED" -> Cleared(rows)
\* The queue follows the verdict.
Requeued(rows, answer) ==
  CASE Reading(answer) = "PENDING"      -> Retained(rows, answer = "PENDING")
    [] Reading(answer) = "CONFLICT"     -> Parked
    [] Reading(answer) = "ACKNOWLEDGED" -> Cleared(rows)

Requeue ==
  /\ run.by # Nobody /\ run.stage = "recorded"
  /\ queue' = [queue EXCEPT ![Head(run.todo)] = Requeued(@, run.answer)]
  /\ run' = [run EXCEPT !.stage = "visit", !.todo = Tail(@), !.answer = "NONE",
                        !.seen[Head(run.todo)] = NoEntry]
  /\ UNCHANGED <<shift, cloud, entries, started, call, phase, verified, faults>>

\* The refresh reads its status and lets the lock go.
Finish ==
  /\ run.by # Nobody /\ run.stage = "visit" /\ run.todo = <<>>
  /\ run' = NoRun
  /\ phase' = [phase EXCEPT ![run.by] = IF @ = "prepare" THEN "push" ELSE "prepare"]
  /\ UNCHANGED <<shift, queue, cloud, entries, started, call, verified, faults>>

-----------------------------------------------------------------------------
(* The push, the cloud and the process. *)

\* SyncService.push uploads a live row; the cloud takes it, or refuses to replace another version.
Deliver(s, p) ==
  /\ \E w \in Worker : phase[w] = "push"
  /\ queue[s][p] = "ready"
  /\ LET new == Content(shift[s], p)
     IN  \/ /\ cloud' = [cloud EXCEPT ![s][p] = new]
            /\ queue' = [queue EXCEPT ![s][p] = "absent"]
            /\ UNCHANGED faults
         \/ /\ cloud[s][p] \notin {0, new}
            /\ queue' = [queue EXCEPT ![s][p] = "dead"]
            /\ UNCHANGED <<cloud, faults>>
         \/ /\ faults < MaxFaults
            /\ queue' = [queue EXCEPT ![s][p] = "dead"]
            /\ faults' = faults + 1
            /\ UNCHANGED cloud
  /\ UNCHANGED <<shift, entries, started, call, phase, run, verified>>

Live == \E s \in Shift, p \in Part : queue[s][p] = "ready"

\* after_push runs whether the push succeeded or not.
EndPush(w) ==
  /\ phase[w] = "push"
  /\ phase' = [phase EXCEPT ![w] = "probe"]
  /\ \/ ~Live /\ UNCHANGED faults
     \/ Live /\ faults < MaxFaults /\ faults' = faults + 1
  /\ UNCHANGED <<shift, queue, cloud, entries, started, call, run, verified>>

\* An operator repairs the cloud: what differs from the till is dropped there.
Mend(s) ==
  /\ s \in Volatile /\ shift[s].status = "closed"
  /\ \E p \in Part : /\ cloud[s][p] \notin {0, Content(shift[s], p)}
                     /\ cloud' = [cloud EXCEPT ![s][p] = 0]
  /\ UNCHANGED <<shift, queue, entries, started, call, phase, run, verified, faults>>

\* The process dies: what is not in a file or a database is gone.
Crash ==
  /\ started /\ faults < MaxFaults
  /\ started' = FALSE
  /\ call' = [s \in Shift |-> NoCall]
  /\ phase' = [w \in Worker |-> "prepare"]
  /\ run' = NoRun
  /\ faults' = faults + 1
  /\ UNCHANGED <<shift, queue, cloud, entries, verified>>

Refresh == ReadEntries \/ Track \/ Keep \/ Ask \/ Record \/ Requeue \/ Finish
Cycle(w) == EnsureStarted(w) \/ Discover(w) \/ EndPush(w)
Callback(s) == ReadForCall(s) \/ PersistForCall(s)
World(s) == Close(s) \/ Resave(s) \/ Recount(s) \/ Vanish(s) \/ Mend(s)

Next ==
  \/ Refresh \/ Crash
  \/ \E w \in Worker : Cycle(w)
  \/ \E s \in Shift : Callback(s) \/ World(s) \/ \E p \in Part : Deliver(s, p)

Spec == Init /\ [][Next]_vars

(***************************************************************************)
(* The sync loop catches every exception and the watchdog restarts it, so  *)
(* a running refresh ends and another cycle begins; a transaction's        *)
(* callback runs.  Nothing is assumed of the operator, of the rows or of   *)
(* any single worker; faults end because MaxFaults bounds them.            *)
(***************************************************************************)
Fairness ==
  /\ WF_vars(Refresh)
  /\ WF_vars(\E w \in Worker : Cycle(w))
  /\ \A s \in Shift : WF_vars(Callback(s)) /\ \A p \in Part : WF_vars(Deliver(s, p))

FairSpec == Spec /\ Fairness

-----------------------------------------------------------------------------
(* Properties. *)

(* No acknowledgement without proof: an entry is ACKNOWLEDGED for a        *)
(* manifest only if the cloud said it has verified that very manifest      *)
(* with its totals (_validated_remote_result; callbacks and refreshes only *)
(* carry the word on).                                                     *)
AckIsEarned ==
  \A s \in Shift : entries[s].state = "ACKNOWLEDGED" => <<s, entries[s].digest>> \in verified

(* A sync is reported clear only if every close the refresh found is       *)
(* verified at the manifest it found, whatever the callbacks wrote in      *)
(* between (get_status at the end of _refresh; _attach_shift_close_status).*)
ClearIsVerified ==
  run.by # Nobody /\ run.stage = "visit" /\ run.todo = <<>> /\ Clear =>
    \A s \in Found(run) : <<s, run.found[s].manifest>> \in verified

(* The evidence of a close is never lost: what the cloud does not hold of  *)
(* it is still in the queue, live, dead or parked                          *)
(* (_clear_parked_bundle_after_ack against a concurrent save).             *)
EvidenceKept ==
  \A s \in Shift, p \in Part :
    shift[s].status = "closed" =>
      cloud[s][p] = Content(shift[s], p) \/ queue[s][p] # "absent"

(* No close is forgotten: even when the process dies between its commit    *)
(* and the callback, a close gets its entry (_ensure_discovered_entries).  *)
NeverForgotten ==
  \A s \in Shift : []<>(shift[s].status = "closed" => entries[s] # NoEntry)

(* Every close is acknowledged in the end, if from some point on the       *)
(* bundles are sound at the till and nothing in the cloud contradicts      *)
(* them: dead letters are revived, conflicts re-examined, probes shared.   *)
Settled(s) ==
  shift[s].status = "closed" =>
    Sound(shift[s]) /\ \A p \in Part : cloud[s][p] \in {0, shift[s].manifest}
EventuallyAcked ==
  <>[](\A s \in Shift : Settled(s)) =>
    \A s \in Shift : []<>(shift[s].status = "closed" => entries[s].state = "ACKNOWLEDGED"
                                                         /\ entries[s].digest = shift[s].manifest)

-----------------------------------------------------------------------------
(* The inductive invariants of the three safety properties. *)

\* What a thread has read of an entry is as proven as the entry.
Earned(s, entry) == entry.state = "ACKNOWLEDGED" => <<s, entry.digest>> \in verified
ReadsAreEarned ==
  /\ \A s \in Shift : Earned(s, call[s].previous) /\ Earned(s, run.seen[s])
  /\ run.stage = "answered" /\ run.answer = "ACKNOWLEDGED"
       => <<Head(run.todo), run.found[Head(run.todo)].manifest>> \in verified

\* A callback that goes on has no proof: it will not write an acknowledgement.
CallsAreUnproven ==
  \A s \in Shift : call[s].at = "read" => ~ (Sound(call[s].row) /\ Proven(call[s].row, call[s].previous))

\* The shifts the refresh still has to work on, at this stage.
Ahead == {run.todo[i] : i \in 1 .. Len(run.todo)}
AgendaIsSound ==
  run.by # Nobody /\ run.stage \notin {"discover", "track"} =>
    /\ \A i, j \in 1 .. Len(run.todo) : run.todo[i] = run.todo[j] => i = j
    /\ \A s \in Ahead : Sound(run.found[s])

\* A close the refresh has tracked keeps the sync from being clear, or is verified.
TrackedIsOpen ==
  run.by # Nobody /\ run.stage # "discover" =>
    \A s \in Found(run) :
      \/ run.stage = "track" /\ s \in Ahead
      \/ entries[s].state \in {"PENDING", "CONFLICT"}
      \/ <<s, run.found[s].manifest>> \in verified

ClearInv == AckIsEarned /\ ReadsAreEarned /\ CallsAreUnproven /\ AgendaIsSound /\ TrackedIsOpen

\* What is still parked when the refresh comes to it has not changed since it was found,
\* and what is parked when an acknowledgement comes in is in the cloud.
ParkedIsFound ==
  run.by # Nobody =>
    \A s \in Shift, p \in Part :
      /\ run.stage \in {"discover", "track"} \/ s \in Ahead
      /\ queue[s][p] = "parked"
      => Content(shift[s], p) = Content(run.found[s], p)
ParkedIsHeld ==
  run.stage \in {"answered", "recorded"} /\ run.answer = "ACKNOWLEDGED" =>
    \A p \in Part : queue[Head(run.todo)][p] = "parked"
                      => cloud[Head(run.todo)][p] = Content(shift[Head(run.todo)], p)

EvidenceInv == AgendaIsSound /\ ParkedIsFound /\ ParkedIsHeld /\ EvidenceKept
=============================================================================
