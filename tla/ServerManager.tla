--------------------------- MODULE ServerManager ---------------------------
(***************************************************************************)
(* ServerManager (desktop/server_manager.py): the setup that makes a       *)
(* database fit for the running version, the uvicorn thread that serves    *)
(* the tills, and the worker threads (sync, pull, heartbeat) kept alive    *)
(* beside it.  Threads of the launcher call it at once: start and stop     *)
(* hold _lifecycle_lock throughout, setup holds _setup_lock, and the       *)
(* creation of a worker holds _worker_lock, which stop does not take.      *)
(*                                                                         *)
(* A call is a task: its caller puts the thread at the entry of the        *)
(* routine and finds it at "done", with the result, when it has returned.  *)
(***************************************************************************)
EXTENDS Naturals, FiniteSets

CONSTANTS
  Thread,    \* the threads that call the manager
  Kind       \* its workers: "sync" among them, which looks after "heartbeat"

ASSUME WorkerKinds == "heartbeat" \in Kind => "sync" \in Kind

VARIABLES
  task,      \* Thread: job of its caller, pc, starting (inside start), todo, res
  setup,     \* _django_ready, _setup_ready
  db,        \* PostgreSQL: up; its database: schema, admin, seeded; setup_sig of desktop_state.json
  desired,   \* _desired_running
  server,    \* the uvicorn thread, and should_exit of its server
  worker,    \* Kind: is its thread alive
  event,     \* Kind: its stop event
  creating   \* the worker that the holder of _worker_lock is about to create

manager == <<task, setup, db, desired, server, worker, event, creating>>

None == "none"
Idle == [job |-> "none", pc |-> "idle", starting |-> FALSE, todo |-> {}, res |-> FALSE]
NoServer == [thread |-> "dead", exit |-> FALSE]

NotReady == [django |-> FALSE, ready |-> FALSE]
All(x) == [k \in Kind |-> x]

\* A manager as its process starts: everything but the database is new.
Fresh ==
  /\ setup = NotReady /\ desired = TRUE /\ server = NoServer
  /\ worker = All(FALSE) /\ event = All(FALSE) /\ creating = None

Renewed ==
  /\ setup' = NotReady /\ desired' = TRUE /\ server' = NoServer
  /\ worker' = All(FALSE) /\ event' = All(FALSE) /\ creating' = None

IsRunning == server.thread = "serving"

Installing == {"load", "django", "check", "migrate", "admin", "seed", "sign"}
SetupFree(t) == \A u \in Thread \ {t} : task[u].pc \notin Installing
Living(t) == task[t].starting \/ task[t].pc \in {"join", "quit"}
LifecycleFree(t) == \A u \in Thread \ {t} : ~Living(u)

At(t, pc) == task[t].pc = pc
Goes(t, pc) == task' = [task EXCEPT ![t].pc = pc]
Done(t, res) ==
  task' = [task EXCEPT ![t].pc = "done", ![t].starting = FALSE, ![t].todo = {}, ![t].res = res]

-----------------------------------------------------------------------------
(* Setup: ensure_django and first_time_install, for version v. *)

\* A setup that ends; start goes on to spawn its server.
SetupEnds(t, ok) ==
  /\ setup' = [setup EXCEPT !.ready = ok]
  /\ IF task[t].starting /\ ok THEN Goes(t, "spawn") ELSE Done(t, ok)

\* One thread installs, the others wait for it and find it ready.
EnsureDjango(t) ==
  /\ At(t, "ensure_django") /\ SetupFree(t)
  /\ IF setup.ready THEN SetupEnds(t, TRUE) ELSE Goes(t, "load") /\ UNCHANGED setup
  /\ UNCHANGED <<db, desired, server, worker, event, creating>>

FirstTimeInstall(t) ==
  /\ At(t, "first_time_install") /\ SetupFree(t)
  /\ setup' = [setup EXCEPT !.ready = FALSE]
  /\ Goes(t, "load")
  /\ UNCHANGED <<db, desired, server, worker, event, creating>>

\* _ensure_django_bootstrapped: PostgreSQL, then django.setup, once per process.
StartPostgres(t) ==
  /\ At(t, "load")
  /\ IF setup.django THEN Goes(t, "check") /\ UNCHANGED db
     ELSE Goes(t, "django") /\ db' = [db EXCEPT !.up = TRUE]
  /\ UNCHANGED <<setup, desired, server, worker, event, creating>>

Load(t) ==
  /\ At(t, "django")
  /\ setup' = [setup EXCEPT !.django = TRUE]
  /\ Goes(t, "check")
  /\ UNCHANGED <<db, desired, server, worker, event, creating>>

Current(v) == db.up /\ db.sig = v /\ db.schema >= v

Check(t, v) ==
  /\ At(t, "check")
  /\ IF Current(v) THEN SetupEnds(t, TRUE) ELSE Goes(t, "migrate") /\ UNCHANGED setup
  /\ UNCHANGED <<db, desired, server, worker, event, creating>>

\* Mutant: the signature is saved with the schema.
MigratedSigned(v) == [db EXCEPT !.schema = IF @ < v THEN v ELSE @, !.sig = v]
Migrated(v) == [db EXCEPT !.schema = IF @ < v THEN v ELSE @]

\* migrate, bootstrap_admin, seed_templates; the signature comes last.
Install(t, v) ==
  /\ db.up
  /\ \/ At(t, "migrate") /\ Goes(t, "admin") /\ db' = Migrated(v)
     \/ At(t, "admin") /\ Goes(t, "seed") /\ db' = [db EXCEPT !.admin = TRUE]
     \/ At(t, "seed") /\ Goes(t, "sign") /\ db' = [db EXCEPT !.seeded = TRUE]
  /\ UNCHANGED <<setup, desired, server, worker, event, creating>>

Sign(t, v) ==
  /\ At(t, "sign")
  /\ SetupEnds(t, TRUE)
  /\ db' = [db EXCEPT !.sig = v]
  /\ UNCHANGED <<desired, server, worker, event, creating>>

\* A step of the installation raises; a signature that cannot be saved is tolerated,
\* and so is a check that cannot read the schema.
SetupFails(t) ==
  /\ task[t].pc \in Installing \ {"check"}
  /\ At(t, "load") => ~setup.django
  /\ SetupEnds(t, At(t, "sign"))
  /\ UNCHANGED <<db, desired, server, worker, event, creating>>

\* So it does when PostgreSQL has been stopped meanwhile.
Unreachable(t) == task[t].pc \in {"migrate", "admin", "seed"} /\ ~db.up /\ SetupFails(t)

-----------------------------------------------------------------------------
(* start and its server. *)

Refused(t) == task[t].job = "watch" /\ ~desired

Start(t) ==
  /\ At(t, "start") /\ LifecycleFree(t)
  /\ desired' = (desired \/ task[t].job # "watch")
  /\ IF Refused(t) \/ (server.thread # "dead" /\ ~IsRunning) THEN Done(t, FALSE)
     ELSE task' = [task EXCEPT ![t].pc = IF IsRunning THEN "ensure" ELSE "ensure_django",
                               ![t].starting = TRUE, ![t].todo = Kind]
  /\ UNCHANGED <<setup, db, server, worker, event, creating>>

Spawn(t) ==
  /\ At(t, "spawn")
  /\ server' = [thread |-> "binding", exit |-> FALSE]
  /\ Goes(t, "bind")
  /\ UNCHANGED <<setup, db, desired, worker, event, creating>>

\* start returns once the server has bound, or its thread has ended.
Bound(t) ==
  /\ At(t, "bind") /\ server.thread # "binding"
  /\ IF IsRunning THEN Goes(t, "ensure") ELSE Done(t, FALSE)
  /\ UNCHANGED <<setup, db, desired, server, worker, event, creating>>

BindTimeout(t) ==
  /\ At(t, "bind") /\ server.thread = "binding"
  /\ server' = [server EXCEPT !.exit = TRUE]
  /\ Done(t, FALSE)
  /\ UNCHANGED <<setup, db, desired, worker, event, creating>>

Binds ==
  /\ server.thread = "binding" /\ ~server.exit
  /\ server' = [server EXCEPT !.thread = "serving"]
  /\ UNCHANGED <<task, setup, db, desired, worker, event, creating>>

\* A bind error, or the end of a thread that was told to exit or has crashed.
ServerEnds ==
  /\ server.thread # "dead"
  /\ server' = NoServer
  /\ UNCHANGED <<task, setup, db, desired, worker, event, creating>>

-----------------------------------------------------------------------------
(* The workers. *)

\* Mutant: a worker that was told to stop is taken for a dead one.
MissingStopped(k) == ~worker[k] \/ event[k]
Missing(k) == ~worker[k]

\* _ensure_<kind>_worker up to the creation of the thread.
EnsureWorker(t) ==
  /\ At(t, "ensure") /\ task[t].todo # {} /\ creating = None
  /\ LET k == CHOOSE k \in task[t].todo : TRUE IN
       IF desired /\ Missing(k)
       THEN creating' = k /\ UNCHANGED task
       ELSE task' = [task EXCEPT ![t].todo = @ \ {k}] /\ UNCHANGED creating
  /\ UNCHANGED <<setup, db, desired, server, worker, event>>

Create ==
  /\ creating # None
  /\ worker' = [worker EXCEPT ![creating] = TRUE]
  /\ event' = [event EXCEPT ![creating] = FALSE]
  /\ creating' = None
  /\ UNCHANGED <<task, setup, db, desired, server>>

Ensured(t) ==
  /\ At(t, "ensure") /\ task[t].todo = {}
  /\ Done(t, TRUE)
  /\ UNCHANGED <<setup, db, desired, server, worker, event, creating>>

\* A pass of the sync loop: whatever the cloud answers, the loop goes on.
EnsureHeartbeat ==
  /\ "heartbeat" \in Kind /\ worker["sync"] /\ ~event["sync"]
  /\ creating = None /\ desired /\ Missing("heartbeat")
  /\ creating' = "heartbeat"
  /\ UNCHANGED <<task, setup, db, desired, server, worker, event>>

\* A worker sees its stop event, at once or after a request that takes its time.
WorkerStops(k) ==
  /\ worker[k] /\ event[k]
  /\ worker' = [worker EXCEPT ![k] = FALSE]
  /\ UNCHANGED <<task, setup, db, desired, server, event, creating>>

-----------------------------------------------------------------------------
(* stop. *)

Stop(t) ==
  /\ At(t, "stop") /\ LifecycleFree(t)
  /\ desired' = FALSE
  /\ event' = [k \in Kind |-> TRUE]
  /\ Goes(t, "join")
  /\ UNCHANGED <<setup, db, server, worker, creating>>

Alive == {k \in Kind : worker[k]}

\* The joins share a deadline, which a worker in a slow request outlasts.
Join(t) ==
  /\ At(t, "join")
  /\ task' = [task EXCEPT ![t].pc = "quit", ![t].res = (Alive = {})]
  /\ server' = [server EXCEPT !.exit = server.thread # "dead"]
  /\ UNCHANGED <<setup, db, desired, worker, event, creating>>

\* The server is joined for eight seconds: longer requests outlast that too.
Quit(t) ==
  /\ At(t, "quit")
  /\ Done(t, task[t].res)
  /\ UNCHANGED <<setup, db, desired, server, worker, event, creating>>
=============================================================================
