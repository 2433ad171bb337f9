------------------------------ MODULE Desktop ------------------------------
(***************************************************************************)
(* The desktop launcher (desktop/app.py and the requests of its panel,     *)
(* desktop/bridge.py): one process that sets up the database, opens the    *)
(* support tunnel, keeps the POS server and its workers up, and is closed  *)
(* by its user, by a crash, or to be updated.  It composes ServerManager,  *)
(* SupportTunnel and Updater; the threads are                              *)
(*   boot    _boot_worker, then _autostart_backend, the watchdog           *)
(*   panel   the request of the control panel                              *)
(*   closer  the main thread after the window, or update-shutdown          *)
(* One request is under way at a time, as the panel sends them.            *)
(***************************************************************************)
EXTENDS ServerManager, SupportTunnel, Updater

CONSTANT MaxEvents   \* bound: what the user does and what goes wrong

ASSUME DesktopThreads ==
  /\ {"boot", "panel", "closer"} = Thread
  /\ {"panel", "closer"} = Caller

VARIABLES
  latch,     \* _UPDATE_SHUTDOWN
  ready,     \* _BACKEND_READY
  fit,       \* can version 2 serve
  gap,       \* the known gaps of the code that this behaviour ran into
  events     \* how much the user has done and what has gone wrong

flags == <<latch, ready>>
bounds == <<fit, events>>
vars == <<manager, tunnel, update, flags, gap, bounds>>

\* Gaps: the power goes while the helper is at work; a failed check deletes the marker of a version that has
\* not confirmed itself; two restarts leave two supervisors; a supervisor outlasts the restart
\* that waits for it; a flush is interrupted after it wiped the database and before it cleared its
\* signature, or overlaps another setup.
Gaps == {"power", "confirm", "twins", "outlasted", "wipe"}

Job == {"none", "boot", "autostart", "watch", "start", "stop", "setup", "flush", "rebuild", "close", "update"}
Place == Installing \union {"idle", "tunnel", "done", "ensure_django", "first_time_install",
                            "start", "spawn", "bind", "ensure", "stop", "join", "quit"}

TypeOK ==
  /\ task \in [Thread -> [job : Job, pc : Place, starting : BOOLEAN, todo : SUBSET Kind, res : BOOLEAN]]
  /\ setup \in [django : BOOLEAN, ready : BOOLEAN]
  /\ db \in [up : BOOLEAN, schema : {0} \union Version, admin : BOOLEAN, seeded : BOOLEAN, sig : {0} \union Version]
  /\ desired \in BOOLEAN
  /\ server \in [thread : {"dead", "binding", "serving"}, exit : BOOLEAN]
  /\ worker \in [Kind -> BOOLEAN] /\ event \in [Kind -> BOOLEAN]
  /\ creating \in Kind \union {None}
  /\ conf \in [on : BOOLEAN, saves : Nat] /\ halt \in BOOLEAN
  /\ thread \in Supervisor \union {0} /\ rejoin \subseteq Supervisor
  /\ sup \in [Supervisor -> [pc : {"dead", "read", "off", "ssh"}, conf : Nat]]
  /\ call \in [Caller -> [pc : {"idle", "stop", "join", "start"}, old : Supervisor \union {0}, again : BOOLEAN]]
  /\ app \in {0} \union Version /\ marker \in {0} \union Version /\ last \in {0} \union Version
  /\ dir \in [{"install", "previous", "stage"} -> {0} \union Version]
  /\ updater \in {"idle", "checking", "staged", "marked", "shaking", "handed"}
  /\ helper \in [pc : Phase, parent : BOOLEAN, own : BOOLEAN]
  /\ cleanup \in {"none", "settling", "now", "kept", "done"}
  /\ latch \in BOOLEAN /\ ready \in BOOLEAN /\ fit \in BOOLEAN
  /\ gap \subseteq Gaps /\ events \in Nat

\* pg_embedded.stop.
Stopped == [db EXCEPT !.up = FALSE]

Threads(boot) == [t \in Thread |-> IF t = "boot" THEN boot ELSE Idle]
Booting == [Idle EXCEPT !.job = "boot", !.pc = "ensure_django"]

\* The first start on an empty machine.
Init ==
  /\ Installed /\ Fresh /\ Quiet
  /\ task = Threads(Idle)
  /\ db = [up |-> FALSE, schema |-> 0, admin |-> FALSE, seeded |-> FALSE, sig |-> 0]
  /\ conf = [on |-> TRUE, saves |-> 0]
  /\ latch = FALSE /\ ready = FALSE
  /\ fit = TRUE
  /\ gap = {} /\ events = 0

Event == events < MaxEvents /\ events' = events + 1 /\ UNCHANGED fit

-----------------------------------------------------------------------------
(* The process. *)

\* What a process holds in memory is gone with it, and new with the next.
Process(boot) ==
  /\ Renewed /\ Quieted /\ task' = Threads(boot)
  /\ latch' = FALSE /\ ready' = FALSE
  /\ conf' = [conf EXCEPT !.saves = 0]

\* The user, or the login, opens the launcher.
Open ==
  /\ app = 0 /\ dir.install # 0 /\ helper.pc \notin {"launch", "verify", "doomed"}
  /\ AppOpens(dir.install) /\ Process(Booting)
  /\ UNCHANGED <<db, files, helper, gap>>

AppExits == AppEnds /\ Process(Idle) /\ UNCHANGED <<files, gap>>

\* PostgreSQL outlives the process that has started it.
Crash == app # 0 /\ AppExits /\ UNCHANGED db

PowerCut ==
  /\ app # 0 \/ helper.pc # "off"
  /\ app' = 0 /\ updater' = "idle" /\ cleanup' = "none" /\ helper' = Off
  /\ Process(Idle) /\ db' = Stopped
  /\ gap' = gap \union IF helper.pc = "off" THEN {} ELSE {"power"}
  /\ UNCHANGED files

\* The helper opens or replaces the process.
Opens ==
  /\ IF app' = app THEN UNCHANGED <<manager, tunnel, flags>>
     ELSE Process(IF app' = 0 THEN Idle ELSE Booting) /\ UNCHANGED db
  /\ UNCHANGED gap

-----------------------------------------------------------------------------
(* The threads.  Each continues where a call it made is done. *)

Begin(t, job, pc) == task' = [task EXCEPT ![t] = [Idle EXCEPT !.job = job, !.pc = pc]]
Returns(t, job, res) == task[t].job = job /\ At(t, "done") /\ task[t].res = res
state == <<setup, db, desired, server, worker, event, creating>>

\* _boot_worker: the database, again and again; then the tunnel, then the watchdog.
BootRetries ==
  /\ ~latch /\ \E job \in {"boot", "autostart"} :
       Returns("boot", job, FALSE) /\ Begin("boot", job, "ensure_django")
  /\ UNCHANGED <<state, tunnel, flags>>

BootGoesOn ==
  /\ Returns("boot", "boot", TRUE)
  /\ TunnelStart
  /\ Begin("boot", "autostart", "ensure_django")
  /\ UNCHANGED <<state, flags>>

\* run_setup has returned, or a pass of the watchdog; a server that is up is ready.
Watch ==
  /\ Returns("boot", "autostart", TRUE) \/ (At("boot", "done") /\ task["boot"].job = "watch")
  /\ ready' = (ready \/ (task["boot"].job = "watch" /\ task["boot"].res))
  /\ Begin("boot", "watch", "idle")
  /\ UNCHANGED <<state, tunnel, latch>>

\* Mutant: the watchdog brings the server up once.
DownOnce == desired /\ ~IsRunning /\ ~ready
Down == desired /\ ~IsRunning

\* A pass of _autostart_backend: revive the server, or its workers.
WatchStarts ==
  /\ task["boot"].job = "watch" /\ At("boot", "idle") /\ ~latch
  /\ LifecycleFree("boot") /\ Down
  /\ Goes("boot", "start")
  /\ UNCHANGED <<state, tunnel, flags>>

Revives == ~ready \/ (desired /\ \E k \in Kind : Missing(k))

WatchEnsures ==
  /\ task["boot"].job = "watch" /\ At("boot", "idle") /\ ~latch
  /\ IsRunning /\ LifecycleFree("boot")
  /\ Revives
  /\ task' = [task EXCEPT !["boot"].pc = "ensure", !["boot"].todo = IF desired THEN Kind ELSE {}]
  /\ UNCHANGED <<state, tunnel, flags>>

\* A request of the panel; it is over when its last call has returned.
Request ==
  /\ app # 0 /\ task["panel"] = Idle /\ call["panel"] = NoCall
  /\ \/ /\ \E r \in {<<"start", "start">>, <<"stop", "stop">>, <<"setup", "ensure_django">>,
                     <<"flush", "stop">>} : Begin("panel", r[1], r[2])
        /\ UNCHANGED <<state, tunnel, update>>
     \/ (\E on \in BOOLEAN : Save("panel", on)) /\ UNCHANGED <<manager, update>>
     \/ StartUpdate /\ UNCHANGED <<manager, tunnel>>
  /\ UNCHANGED <<flags, gap>>

\* flush_database: stop, wipe, rebuild, start; an error on the way ends it.
Wipe ==
  /\ task["panel"].job = "flush" /\ At("panel", "done") /\ task["panel"].res
  /\ db' = [Stopped EXCEPT !.schema = 0, !.admin = FALSE, !.seeded = FALSE]
  /\ gap' = gap \union {"wipe"}
  /\ Begin("panel", "rebuild", "idle")
  /\ UNCHANGED <<setup, desired, server, worker, event, creating, tunnel, flags>>

Rebuild ==
  /\ task["panel"].job = "rebuild" /\ At("panel", "idle")
  /\ db' = [db EXCEPT !.sig = 0, !.up = TRUE]
  /\ gap' = IF SetupFree("panel") THEN gap \ {"wipe"} ELSE gap
  /\ Begin("panel", "rebuild", "first_time_install")
  /\ UNCHANGED <<setup, desired, server, worker, event, creating, tunnel, flags>>

Rebuilt ==
  /\ Returns("panel", "rebuild", TRUE)
  /\ Begin("panel", "start", "start")
  /\ UNCHANGED <<state, tunnel, latch, ready>>

RequestEnds ==
  /\ At("panel", "done")
  /\ task["panel"].job \in {"start", "stop", "setup"} \/ task["panel"].res = FALSE
  /\ Begin("panel", "none", "idle")
  /\ UNCHANGED <<state, tunnel, flags>>

\* PostgreSQL does not stop, or does not come back.
FlushFails ==
  /\ \/ Returns("panel", "flush", TRUE)
     \/ task["panel"].job = "rebuild" /\ At("panel", "idle")
  /\ Begin("panel", "none", "idle")
  /\ UNCHANGED <<state, tunnel, flags>>

-----------------------------------------------------------------------------
(* Shutdown. *)

\* The window is closed.
CloseWindow ==
  /\ app # 0 /\ task["closer"] = Idle
  /\ Begin("closer", "close", "tunnel") /\ StopTunnel("closer")
  /\ UNCHANGED <<state, update, flags, gap>>

\* _graceful_update_shutdown.
HandsOver ==
  /\ HandOver /\ task["closer"] = Idle
  /\ latch' = TRUE
  /\ Begin("closer", "update", "tunnel") /\ StopTunnel("closer")
  /\ UNCHANGED <<state, ready, gap>>

CloserGoesOn ==
  /\ At("closer", "tunnel") /\ call["closer"] = NoCall
  /\ Goes("closer", "stop")
  /\ UNCHANGED <<state, tunnel, flags>>

\* Everything is stopped, but for a PostgreSQL that did not; or an update has waited for it for
\* twenty seconds.
Exit ==
  /\ At("closer", "done") \/ task["closer"].job = "update"
  /\ AppExits
  /\ db' \in {db, Stopped}

-----------------------------------------------------------------------------
(* The composition. *)

\* Mutant: the marker goes when the launcher has painted its window.
HealthyPainted == TRUE
\* _confirm_update_start_when_ready.
Healthy == ready /\ ~latch

\* A thread in a call of the manager takes its next step.
CallStep(t) ==
  /\ task[t].pc \notin {"idle", "tunnel", "done"}
  /\ \/ EnsureDjango(t) \/ FirstTimeInstall(t) \/ StartPostgres(t) \/ Load(t) \/ Check(t, app)
     \/ Install(t, app) \/ Unreachable(t) \/ Sign(t, app) \/ Start(t) \/ Spawn(t) \/ Bound(t) \/ EnsureWorker(t) \/ Ensured(t)
     \/ Stop(t) \/ Join(t) \/ Quit(t)
  /\ UNCHANGED <<tunnel, update, flags, gap, bounds>>

ServerStep ==
  /\ \/ Create \/ EnsureHeartbeat
     \/ \E k \in Kind : WorkerStops(k)
     \/ Binds /\ (app = 1 \/ fit)
     \/ ServerEnds /\ (server.exit \/ (server.thread = "binding" /\ app = 2 /\ ~fit))
  /\ UNCHANGED <<tunnel, update, flags, gap, bounds>>

BootStep ==
  \/ CallStep("boot")
  \/ /\ BootRetries \/ BootGoesOn \/ Watch \/ WatchStarts \/ WatchEnsures
     /\ UNCHANGED <<update, gap, bounds>>

RequestStep == (Rebuilt \/ RequestEnds \/ CloserGoesOn) /\ UNCHANGED <<update, gap, bounds>>

FlushStep == (Wipe \/ Rebuild) /\ UNCHANGED <<update, bounds>>

Twins == \E s, u \in Supervisor : s # u /\ ~Dead(s) /\ ~Dead(u)
Outlasted == \E s \in rejoin \ rejoin' : ~Dead(s)
TunnelStep ==
  /\ \/ \E s \in Supervisor : Connect(s) \/ Ends(s) \/ RestartAfterJoin(s) \/ RestartGivesUp(s)
     \/ \E c \in Caller : Halt(c) \/ Joined(c) \/ Restarted(c)
  /\ gap' = gap \union (IF Twins' THEN {"twins"} ELSE {})
                \union (IF Outlasted THEN {"outlasted"} ELSE {})
  /\ UNCHANGED <<manager, update, flags, bounds>>

\* The next version can serve, or it cannot.
StageStep == Stage /\ fit' \in BOOLEAN /\ UNCHANGED <<manager, tunnel, flags, gap, events>>

UpdateStep ==
  /\ \/ NothingNew \/ WritePending \/ LaunchHelper \/ HelperReady
     \/ Waited \/ RemoveOldBackup \/ BackupCurrent \/ ActivateNew \/ Confirmed
     \/ CleanupPrevious
     \/ HandshakeFails
     \/ HelperAt("activate") /\ ~Staged /\ StopWithError
     \/ MarkStartedOk /\ Healthy
  /\ UNCHANGED <<manager, tunnel, flags, gap, bounds>>

\* The helper opens a version; its button does so when the user clicks it.
HelperStep == (Launch \/ RollBack) /\ Opens /\ UNCHANGED bounds
HelperClicked == CloseHelper /\ Opens /\ UNCHANGED bounds

\* The shutdown of an update, and the exit at the end of every shutdown.
ExitStep == (HandsOver \/ Exit) /\ UNCHANGED bounds

\* The health check of the helper gives up.
GivesUp == Unhealthy /\ UNCHANGED <<manager, tunnel, flags, gap, bounds>>

Fails ==
  /\ Event
  /\ \/ (\E t \in Thread : SetupFails(t)) /\ UNCHANGED <<tunnel, update, flags, gap>>
     \/ (ServerEnds \/ \E t \in Thread : BindTimeout(t)) /\ UNCHANGED <<tunnel, update, flags, gap>>
     \/ FlushFails /\ UNCHANGED <<update, gap>>
     \/ (\E s \in Supervisor : Disconnect(s)) /\ UNCHANGED <<manager, update, flags, gap>>
     \/ (\E c \in Caller : JoinTimeout(c)) /\ UNCHANGED <<manager, update, flags, gap>>
     \/ /\ UpdateFails
        /\ gap' = gap \union IF marker # 0 /\ marker = app THEN {"confirm"} ELSE {}
        /\ UNCHANGED <<manager, tunnel, flags>>
     \/ StopWithError /\ UNCHANGED <<manager, tunnel, flags, gap>>
     \/ MarkStartedFails /\ Healthy /\ UNCHANGED <<manager, tunnel, flags, gap>>
     \/ Crash
     \/ PowerCut

\* What ends after finitely many steps, one of which is under way as long as one can be.
Finite ==
  \/ CallStep("panel") \/ CallStep("closer")
  \/ RequestStep \/ FlushStep \/ TunnelStep \/ StageStep \/ UpdateStep \/ HelperStep \/ ExitStep \/ GivesUp

Next ==
  \/ BootStep \/ ServerStep \/ Finite \/ HelperClicked \/ Fails
  \/ Event /\ (Request \/ CloseWindow)
  \/ Open /\ UNCHANGED bounds

\* The threads of a process are scheduled, requests to the cloud end, a helper has its timer.
Fairness == WF_vars(BootStep) /\ WF_vars(ServerStep) /\ WF_vars(Finite)

Spec == Init /\ [][Next]_vars /\ Fairness

-----------------------------------------------------------------------------
(* Properties. *)

\* The tills are only served from a database of their version, with an admin to log
\* in and the data of the first start: no order of setups, stops, failures, updates
\* and rollbacks binds a server to less.
SetupSound ==
  server.thread # "dead" /\ ~server.exit /\ "wipe" \notin gap
    => db.up /\ db.schema >= app /\ db.admin /\ db.seeded

\* A kind of worker has one thread: start, the watchdog and the sync worker, which
\* all revive workers, and a stop that does not wait for one that is busy, never
\* leave an old and a new one.
OneWorker == creating # None => ~worker[creating]

\* While a helper can still roll back, what it would put back is there.
RollbackKept == Restorable /\ "confirm" \notin gap => dir.previous = 1

\* A machine has a launcher to open: whatever step of the swap fails, the install is
\* whole again when the helper is done.
InstallKept ==
  "power" \notin gap /\ ~HelperAt("activate") => dir.install # 0

\* A version that cannot serve is gone once its helper is done: neither its window nor
\* a marker that is deleted too early keeps it.
UnfitRolledBack ==
  dir.install = 2 /\ ~fit /\ gap \intersect {"power", "confirm"} = {}
    => helper.pc \in {"launch", "verify", "doomed"}

Closing == task["closer"].job # "none"
Serving == IsRunning /\ ~server.exit /\ \A k \in Kind : worker[k] /\ ~event[k]

\* The watchdog brings server and workers up and keeps them up, unless the operator
\* has stopped them or the launcher is closed, or this version cannot serve.
EventuallyServing == []<>(Serving \/ ~desired \/ app = 0 \/ Closing \/ (app = 2 /\ ~fit))

Links == {s \in Supervisor : sup[s].pc = "ssh"}
Follows == {sup[s].conf : s \in Links} = IF conf.on THEN {conf.saves} ELSE {}

\* What the tunnel does is what was saved last: a connection with these settings, or
\* none, although a save may find the last supervisor still busy with its ssh; unless it is so
\* busy that the restart is given up.
TunnelFollows ==
  []<>(\/ Follows \/ app = 0 \/ Closing \/ gap \intersect {"twins", "outlasted"} # {}
       \/ task["boot"].job # "watch")

-----------------------------------------------------------------------------
(* What makes the safety properties inductive. *)

\* Who calls what.
PlaceOf(t) ==
  /\ task[t].starting => task[t].job \in {"start", "watch"} /\ task[t].pc \notin {"idle", "start", "done"}
  /\ task[t].pc \in {"spawn", "bind"} => task[t].starting
  /\ task[t].pc = "start" => task[t].job \in {"start", "watch"}
  /\ task[t].pc \in {"tunnel", "stop", "join", "quit"} => task[t].job \in {"stop", "flush", "close", "update"}
  /\ task[t].job = "flush" => task[t].pc \in {"stop", "join", "quit", "done"}
  /\ task[t].job = "watch" /\ task[t].pc \in Installing \union {"ensure_django", "first_time_install"} => task[t].starting
Places ==
  /\ task["boot"].job \in {"none", "boot", "autostart", "watch"}
  /\ task["panel"].job \in {"none", "start", "stop", "setup", "flush", "rebuild"}
  /\ task["closer"].job \in {"none", "close", "update"}
  /\ \A t \in Thread : PlaceOf(t)

\* No thread without a launcher.
NobodyHome == app = 0 => task = Threads(Idle) /\ updater = "idle" /\ cleanup = "none" /\ ~ready

\* A flush has the manager to itself once it has stopped it.
Flushing ==
  \/ task["panel"].job = "flush" /\ task["panel"].pc # "stop"
  \/ task["panel"].job = "rebuild"
QuietServer == server.thread = "dead" \/ server.exit
FlushAlone ==
  Flushing =>
    /\ ~desired
    /\ \A t \in Thread : ~task[t].starting
    /\ task["panel"].pc # "join" => QuietServer

\* What the signature, a step of the installation, the ready flag and a server vouch for.
Sound == db.up /\ db.schema >= app /\ db.admin /\ db.seeded
Resetting == task["panel"].job = "rebuild" /\ task["panel"].pc = "first_time_install"
VouchedBy(t) ==
  /\ task[t].pc \in {"admin", "seed", "sign"} => db.up /\ db.schema >= app
  /\ task[t].pc \in {"seed", "sign"} => db.admin
  /\ task[t].pc = "sign" => db.seeded
  /\ task[t].pc = "spawn" => Sound
Vouched ==
  "wipe" \notin gap =>
    /\ db.sig # 0 => db.admin /\ db.seeded
    /\ \A t \in Thread : VouchedBy(t)
    /\ setup.ready => Sound \/ Resetting
    /\ task["panel"].job = "rebuild" => task["panel"].pc # "idle"

\* A version that cannot serve is never ready.
UnfitIsDown ==
  app = 2 /\ ~fit =>
    /\ ~ready /\ server.thread # "serving" /\ task["boot"].pc # "ensure"
    /\ task["boot"].job = "watch" /\ task["boot"].pc = "done" => ~task["boot"].res

ManagerInv == Places /\ NobodyHome /\ FlushAlone /\ Vouched /\ UnfitIsDown /\ SetupSound

\* The launcher that runs is the installed one, and only version 1 has something to install.
Installs ==
  /\ app \in {0, dir.install}
  /\ marker # 1 /\ dir.previous # 2 /\ dir.stage # 1
  /\ updater \notin {"idle", "checking"} => app = 1

\* What each phase of the helper relies on.  Only the stage it was started with reaches the
\* install, and the marker is there as long as that stage is.
Marked == dir.stage # 0 /\ helper.own => marker = 2
Phases ==
  /\ helper.pc \in {"loading", "wait", "remove", "backup"} => dir.install = 1
  /\ helper.pc \in {"wait", "remove", "backup"} => Marked
  /\ helper.pc = "activate" => app = 0 /\ dir.install = 0 /\ dir.previous = 1 /\ Marked
  /\ helper.pc = "launch" => app = 0 /\ dir.install = 2 /\ dir.previous = 1 /\ marker = 2
  /\ helper.pc = "verify" =>
       /\ dir.install = 2
       /\ marker # 0 => dir.previous = 1 /\ cleanup \in {"none", "kept"}
       /\ marker = 0 /\ "confirm" \notin gap => fit
  /\ helper.pc = "doomed" =>
       /\ dir.install = 2
       /\ "confirm" \notin gap => dir.previous = 1 /\ cleanup # "now" /\ (marker = 0 /\ app # 0 => cleanup # "none")
  /\ helper.pc = "offer" => dir.install # 0

UpdateInv == Installs /\ Phases /\ InstallKept /\ UnfitRolledBack

IInv == TypeOK /\ ManagerInv /\ UpdateInv /\ OneWorker
=============================================================================
