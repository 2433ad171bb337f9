--------------------------- MODULE DesktopProofs ---------------------------
(***************************************************************************)
(* For any number of events, workers and supervisors: the types, that the  *)
(* tills are served only from a database that was set up, one worker of a  *)
(* kind, and that an update leaves a whole install that can serve.         *)
(***************************************************************************)
EXTENDS Desktop, TLAPS

Task == [job : Job, pc : Place, starting : BOOLEAN, todo : SUBSET Kind, res : BOOLEAN]
Call == [pc : {"idle", "stop", "join", "start"}, old : Supervisor \union {0}, again : BOOLEAN]
Ssh  == [pc : {"dead", "read", "off", "ssh"}, conf : Nat]
Dirs == [{"install", "previous", "stage"} -> {0} \union Version]
Db   == [up : BOOLEAN, schema : {0} \union Version, admin : BOOLEAN, seeded : BOOLEAN,
         sig : {0} \union Version]

ManagerTypes ==
  /\ task \in [Thread -> Task]
  /\ setup \in [django : BOOLEAN, ready : BOOLEAN] /\ db \in Db
  /\ desired \in BOOLEAN
  /\ server \in [thread : {"dead", "binding", "serving"}, exit : BOOLEAN]
  /\ worker \in [Kind -> BOOLEAN] /\ event \in [Kind -> BOOLEAN]
  /\ creating \in Kind \union {None}
TunnelTypes ==
  /\ conf \in [on : BOOLEAN, saves : Nat] /\ halt \in BOOLEAN
  /\ thread \in Supervisor \union {0} /\ rejoin \subseteq Supervisor
  /\ sup \in [Supervisor -> Ssh] /\ call \in [Caller -> Call]
UpdateTypes ==
  /\ app \in {0} \union Version /\ marker \in {0} \union Version /\ last \in {0} \union Version
  /\ dir \in Dirs
  /\ updater \in {"idle", "checking", "staged", "marked", "shaking", "handed"}
  /\ helper \in [pc : Phase, parent : BOOLEAN, own : BOOLEAN]
  /\ cleanup \in {"none", "settling", "now", "kept", "done"}
FlagTypes ==
  /\ latch \in BOOLEAN /\ ready \in BOOLEAN /\ fit \in BOOLEAN
  /\ gap \subseteq Gaps /\ events \in Nat

LEMMA TypeParts == TypeOK <=> ManagerTypes /\ TunnelTypes /\ UpdateTypes /\ FlagTypes
BY DEF TypeOK, ManagerTypes, TunnelTypes, UpdateTypes, FlagTypes, Task, Call, Ssh, Dirs, Db

LEMMA Names ==
  /\ Thread = {"boot", "panel", "closer"} /\ Caller = {"panel", "closer"} /\ Version = {1, 2}
  /\ Supervisor \subseteq Nat \ {0}
BY DesktopThreads, Versions, SupervisorNames

-----------------------------------------------------------------------------
(* How a step writes the task of its thread. *)

Rest(t) == \A u \in Thread \ {t} : task'[u] = task[u]

LEMMA GoesTo ==
  ASSUME ManagerTypes, NEW t \in Thread, NEW pc \in Place, Goes(t, pc)
  PROVE  /\ task' \in [Thread -> Task] /\ Rest(t)
         /\ task'[t].job = task[t].job /\ task'[t].pc = pc /\ task'[t].starting = task[t].starting
         /\ task'[t].res = task[t].res
BY DEF Goes, Rest, ManagerTypes, Task

LEMMA DoneTo ==
  ASSUME ManagerTypes, NEW t \in Thread, NEW res \in BOOLEAN, Done(t, res)
  PROVE  /\ task' \in [Thread -> Task] /\ Rest(t)
         /\ task'[t].job = task[t].job /\ task'[t].pc = "done" /\ task'[t].starting = FALSE
         /\ task'[t].res = res
<1>1. task[t] \in Task /\ task \in [Thread -> Task]
  BY DEF ManagerTypes
<1>2. task'[t] = [job |-> task[t].job, pc |-> "done", starting |-> FALSE, todo |-> {}, res |-> res]
  BY <1>1 DEF Done, Task
<1>3. Rest(t) /\ task' = [u \in Thread |-> task'[u]]
  BY <1>1 DEF Done, Rest
<1>4. task'[t] \in Task
  BY <1>1, <1>2 DEF Task, Place
<1>5. \A u \in Thread : task'[u] \in Task
  BY <1>1, <1>3, <1>4 DEF Rest
<1>6. task' \in [Thread -> Task]
  BY <1>3, <1>5
<1> QED BY <1>2, <1>3, <1>6

LEMMA BeginTo ==
  ASSUME ManagerTypes, NEW t \in Thread, NEW job \in Job, NEW pc \in Place, Begin(t, job, pc)
  PROVE  /\ task' \in [Thread -> Task] /\ Rest(t)
         /\ task'[t].job = job /\ task'[t].pc = pc /\ task'[t].starting = FALSE
         /\ task'[t].res = FALSE
BY DEF Begin, Rest, ManagerTypes, Task, Idle

LEMMA EndsTo ==
  ASSUME ManagerTypes, NEW t \in Thread, NEW ok \in BOOLEAN, SetupEnds(t, ok)
  PROVE  /\ task' \in [Thread -> Task] /\ Rest(t) /\ task'[t].job = task[t].job
         /\ setup' \in [django : BOOLEAN, ready : BOOLEAN] /\ setup'.ready = ok
         /\ \/ /\ task[t].starting /\ ok /\ task'[t].pc = "spawn" /\ task'[t].starting
               /\ task'[t].res = task[t].res
            \/ /\ ~(task[t].starting /\ ok) /\ task'[t].pc = "done" /\ task'[t].starting = FALSE
               /\ task'[t].res = ok
<1>1. setup' \in [django : BOOLEAN, ready : BOOLEAN] /\ setup'.ready = ok
  BY DEF SetupEnds, ManagerTypes
<1>2. CASE task[t].starting /\ ok
  <2>1. Goes(t, "spawn") /\ "spawn" \in Place
    BY <1>2 DEF SetupEnds, Place
  <2> QED BY <1>1, <1>2, <2>1, GoesTo
<1>3. CASE ~(task[t].starting /\ ok)
  <2>1. Done(t, ok)
    BY <1>3 DEF SetupEnds
  <2> QED BY <1>1, <1>3, <2>1, DoneTo
<1> QED BY <1>2, <1>3

-----------------------------------------------------------------------------
(* A step of one thread keeps the invariant of the manager when ... *)

Steady ==
  /\ app' = app /\ fit' = fit /\ ready' = ready /\ gap' = gap /\ updater' = updater /\ cleanup' = cleanup

\* ... what else it writes is as good as before, and its own new place is right.
Grows ==
  /\ db.up => db'.up
  /\ db.schema >= app => db'.schema >= app
  /\ db.admin => db'.admin
  /\ db.seeded => db'.seeded

Fine(t) ==
  /\ PlaceOf(t)'
  /\ Flushing => ~desired' /\ ~task'[t].starting
  /\ Flushing /\ QuietServer => QuietServer'
  /\ server'.thread = "serving" => server.thread = "serving"
  /\ "wipe" \notin gap =>
       /\ Grows
       /\ db'.sig # 0 => db'.admin /\ db'.seeded
       /\ VouchedBy(t)'
       /\ setup'.ready => Sound' \/ Resetting'
       /\ ~QuietServer' => ~QuietServer \/ Sound'
  /\ app = 2 /\ ~fit /\ t = "boot" =>
       task'[t].pc # "ensure" /\ (task'[t].job = "watch" /\ task'[t].pc = "done" => ~task'[t].res)

LEMMA OneMoves ==
  ASSUME TypeOK, ManagerInv, Steady, NEW t \in Thread, Rest(t), Fine(t),
         task'[t].job = task[t].job, task[t].pc \notin {"stop", "join"}, task'[t].pc # "idle",
         task[t].pc # "idle" \/ task[t].job # "none"
  PROVE  ManagerInv'
<1>1. Places'
  <2>1. \A u \in Thread : task'[u].job = task[u].job
    BY DEF Rest
  <2>2. \A u \in Thread : PlaceOf(u)'
    BY DEF Fine, Rest, ManagerInv, Places, PlaceOf
  <2> QED BY <2>1, <2>2, Names DEF ManagerInv, Places
<1>2. NobodyHome'
  <2>1. app # 0
    BY DEF ManagerInv, NobodyHome, Threads, Idle
  <2> QED BY <2>1 DEF NobodyHome, Steady
<1>3. FlushAlone'
  <2>1. "panel" \in Thread
    BY Names
  <2>2. Flushing' => Flushing /\ (task["panel"].pc = "join" => task'["panel"].pc = "join")
    <3>1. CASE t = "panel"
      BY <2>1, <3>1 DEF Flushing
    <3>2. CASE t # "panel"
      BY <2>1, <3>2 DEF Flushing, Rest
    <3> QED BY <3>1, <3>2
  <2>3. ASSUME Flushing PROVE \A u \in Thread : ~task'[u].starting
    BY <2>3 DEF Fine, Rest, ManagerInv, FlushAlone
  <2> QED BY <2>2, <2>3 DEF Fine, ManagerInv, FlushAlone
<1>4. Vouched'
  <2>1. SUFFICES ASSUME "wipe" \notin gap
                 PROVE  /\ db'.sig # 0 => db'.admin /\ db'.seeded
                        /\ \A u \in Thread : VouchedBy(u)'
                        /\ setup'.ready => Sound' \/ Resetting'
                        /\ task'["panel"].job = "rebuild" => task'["panel"].pc # "idle"
    BY DEF Vouched, Steady
  <2>2. ASSUME NEW u \in Thread PROVE VouchedBy(u)'
    <3>1. CASE u = t
      BY <2>1, <3>1 DEF Fine
    <3>2. CASE u # t
      BY <2>1, <3>2 DEF Fine, Grows, Rest, ManagerInv, Vouched, VouchedBy, Sound, Steady
    <3> QED BY <3>1, <3>2
  <2>3. task'["panel"].job = "rebuild" => task'["panel"].pc # "idle"
    BY <2>1, Names DEF Rest, ManagerInv, Vouched
  <2> QED BY <2>1, <2>2, <2>3 DEF Fine
<1>5. UnfitIsDown'
  <2>1. "boot" \in Thread
    BY Names
  <2> QED BY <2>1 DEF Fine, Rest, Steady, ManagerInv, UnfitIsDown
<1>6. SetupSound'
  <2>1. SUFFICES ASSUME "wipe" \notin gap, ~QuietServer' PROVE Sound'
    BY DEF SetupSound, QuietServer, Sound, Steady
  <2>2. CASE Sound'
    BY <2>2
  <2>3. CASE ~QuietServer
    <3>1. Sound
      BY <2>1, <2>3 DEF ManagerInv, SetupSound, QuietServer, Sound
    <3> QED BY <2>1, <3>1 DEF Sound, Fine, Grows, Steady
  <2> QED BY <2>1, <2>2, <2>3 DEF Fine
<1> QED BY <1>1, <1>2, <1>3, <1>4, <1>5, <1>6 DEF ManagerInv

-----------------------------------------------------------------------------
(* Setup. *)

LEMMA EndsKeeps ==
  ASSUME TypeOK, ManagerInv, Steady, NEW t \in Thread, NEW ok \in BOOLEAN, SetupEnds(t, ok),
         UNCHANGED <<desired, server>>, task[t].pc \in Installing \union {"ensure_django"},
         "wipe" \notin gap =>
           Grows /\ (db'.sig # 0 => db'.admin /\ db'.seeded) /\ (ok => Sound' \/ Resetting)
  PROVE  ManagerInv'
<1>1. ManagerTypes /\ PlaceOf(t)
  BY TypeParts DEF ManagerInv, Places
<1>2. /\ Rest(t) /\ task'[t].job = task[t].job /\ setup'.ready = ok
      /\ \/ /\ task[t].starting /\ ok /\ task'[t].pc = "spawn" /\ task'[t].starting
         \/ /\ ~(task[t].starting /\ ok) /\ task'[t].pc = "done" /\ task'[t].starting = FALSE
            /\ task'[t].res = ok
  BY <1>1, EndsTo
<1>3. task[t].pc \notin {"idle", "stop", "join", "first_time_install"} /\ task'[t].pc # "idle"
  BY <1>2 DEF Installing
<1>4. PlaceOf(t)'
  BY <1>1, <1>2 DEF PlaceOf, Installing
<1>5. Flushing => ~desired' /\ ~task[t].starting /\ ~task'[t].starting
  BY <1>2 DEF ManagerInv, FlushAlone
<1>6. Resetting => Resetting' /\ Flushing
  BY <1>2, <1>3, Names DEF Resetting, Flushing, Rest
<1>7. "wipe" \notin gap => (setup'.ready => Sound' \/ Resetting') /\ VouchedBy(t)'
  <2>1. CASE task'[t].pc = "spawn"
    BY <1>2, <1>5, <1>6, <2>1 DEF VouchedBy
  <2>2. CASE task'[t].pc = "done"
    BY <1>2, <1>6, <2>2 DEF VouchedBy
  <2> QED BY <1>2, <2>1, <2>2
<1>8. t = "boot" => task'[t].pc # "ensure" /\ (task'[t].job = "watch" /\ task'[t].pc = "done" => ~task'[t].res)
  BY <1>1, <1>2 DEF PlaceOf
<1>9. Fine(t)
  BY <1>4, <1>5, <1>7, <1>8 DEF Fine, QuietServer
<1> QED BY <1>2, <1>3, <1>9, OneMoves

\* A step of the setup that does not end it.
LEMMA GoesKeeps ==
  ASSUME TypeOK, ManagerInv, Steady, NEW t \in Thread,
         NEW pc \in Installing \union {"ensure"}, Goes(t, pc), UNCHANGED <<desired, server>>,
         task[t].pc \notin {"idle", "stop", "join", "start", "quit"}, task[t].job # "flush",
         pc \in Installing => task[t].pc \in Installing \union {"ensure_django", "first_time_install"},
         pc = "ensure" => server.thread = "serving",
         "wipe" \notin gap =>
           /\ Grows /\ (db'.sig # 0 => db'.admin /\ db'.seeded)
           /\ pc \in {"admin", "seed", "sign"} => db'.up /\ db'.schema >= app
           /\ pc \in {"seed", "sign"} => db'.admin
           /\ pc = "sign" => db'.seeded,
         setup'.ready => setup.ready /\ ~(t = "panel" /\ Resetting)
  PROVE  ManagerInv'
<1>1. ManagerTypes /\ PlaceOf(t) /\ pc \in Place
  BY TypeParts DEF ManagerInv, Places, Place
<1>2. /\ Rest(t) /\ task'[t].job = task[t].job /\ task'[t].pc = pc
      /\ task'[t].starting = task[t].starting /\ task'[t].res = task[t].res
  BY <1>1, GoesTo
<1>3. pc \notin {"idle", "spawn", "bind", "start", "stop", "join", "quit", "done"}
  BY DEF Installing
<1>4. PlaceOf(t)'
  BY <1>1, <1>2, <1>3 DEF PlaceOf, Installing
<1>5. Flushing => ~desired' /\ ~task'[t].starting
  BY <1>2 DEF ManagerInv, FlushAlone
<1>6. "wipe" \notin gap => VouchedBy(t)'
  BY <1>2, <1>3 DEF VouchedBy, Steady
<1>7. "wipe" \notin gap => (setup'.ready => Sound' \/ Resetting')
  <2>1. Resetting /\ t # "panel" => Resetting'
    BY <1>2, Names DEF Resetting, Rest
  <2>2. "wipe" \notin gap /\ Sound => Sound'
    BY DEF Sound, Grows, Steady
  <2> QED BY <2>1, <2>2 DEF ManagerInv, Vouched
<1>8. app = 2 /\ ~fit /\ t = "boot" => task'[t].pc # "ensure" /\ task'[t].pc # "done"
  BY <1>2, <1>3 DEF ManagerInv, UnfitIsDown
<1>9. Fine(t)
  BY <1>4, <1>5, <1>6, <1>7, <1>8 DEF Fine, QuietServer
<1> QED BY <1>2, <1>3, <1>9, OneMoves

LEMMA Someone ==
  ASSUME TypeOK, ManagerInv, NEW t \in Thread, task[t].pc # "idle"
  PROVE  app \in Version
BY TypeParts, Names DEF ManagerInv, NobodyHome, Threads, Idle, UpdateTypes

LEMMA EnsureDjangoStep ==
  ASSUME TypeOK, ManagerInv, Steady, NEW t \in Thread, EnsureDjango(t)
  PROVE  ManagerTypes' /\ ManagerInv'
<1>1. ManagerTypes /\ PlaceOf(t) /\ At(t, "ensure_django") /\ UNCHANGED <<desired, server, db>>
  BY TypeParts DEF EnsureDjango, ManagerInv, Places
<1>2. CASE setup.ready
  <2>1. SetupEnds(t, TRUE)
    BY <1>2 DEF EnsureDjango
  <2>2. "wipe" \notin gap =>
          Grows /\ (db'.sig # 0 => db'.admin /\ db'.seeded) /\ (Sound' \/ Resetting)
    BY <1>1, <1>2 DEF Grows, ManagerInv, Vouched, Sound, Steady
  <2>3. ManagerInv'
    BY <1>1, <2>1, <2>2, EndsKeeps DEF At
  <2> QED BY <1>1, <2>1, <2>3, EndsTo DEF EnsureDjango, ManagerTypes
<1>3. CASE ~setup.ready
  <2>1. Goes(t, "load") /\ setup' = setup /\ "load" \in Installing /\ "load" \in Place
    BY <1>3 DEF EnsureDjango, Installing, Place
  <2>2. ManagerInv'
    BY <1>1, <1>3, <2>1, GoesKeeps DEF At, Grows, PlaceOf, ManagerInv, Vouched
  <2> QED BY <1>1, <2>1, <2>2, GoesTo DEF EnsureDjango, ManagerTypes
<1> QED BY <1>2, <1>3

LEMMA FirstTimeInstallStep ==
  ASSUME TypeOK, ManagerInv, Steady, NEW t \in Thread, FirstTimeInstall(t)
  PROVE  ManagerTypes' /\ ManagerInv'
<1>1. /\ ManagerTypes /\ PlaceOf(t) /\ At(t, "first_time_install") /\ UNCHANGED <<desired, server, db>>
      /\ Goes(t, "load") /\ "load" \in Installing /\ "load" \in Place
  BY TypeParts DEF FirstTimeInstall, ManagerInv, Places, Installing, Place
<1>2. setup' \in [django : BOOLEAN, ready : BOOLEAN] /\ ~setup'.ready
  BY <1>1 DEF FirstTimeInstall, ManagerTypes
<1>3. ManagerInv'
  BY <1>1, <1>2, GoesKeeps DEF At, Grows, PlaceOf, ManagerInv, Vouched
<1> QED BY <1>1, <1>2, <1>3, GoesTo DEF FirstTimeInstall, ManagerTypes

LEMMA StartPostgresStep ==
  ASSUME TypeOK, ManagerInv, Steady, NEW t \in Thread, StartPostgres(t)
  PROVE  ManagerTypes' /\ ManagerInv'
<1>1. /\ ManagerTypes /\ PlaceOf(t) /\ At(t, "load") /\ UNCHANGED <<desired, server, setup>>
      /\ {"check", "django", "load"} \subseteq Installing /\ Installing \subseteq Place
  BY TypeParts DEF StartPostgres, ManagerInv, Places, Installing, Place
<1>2. /\ db' \in Db /\ db'.schema = db.schema /\ db'.admin = db.admin /\ db'.seeded = db.seeded
      /\ db'.sig = db.sig /\ (db.up => db'.up)
  BY <1>1 DEF StartPostgres, ManagerTypes, Db
<1>3. Goes(t, "check") \/ Goes(t, "django")
  BY DEF StartPostgres
<1>4. "wipe" \notin gap => Grows /\ (db'.sig # 0 => db'.admin /\ db'.seeded)
  BY <1>2 DEF Grows, ManagerInv, Vouched
<1>5. PICK pc \in {"check", "django"} : Goes(t, pc)
  BY <1>3
<1>6. pc \in Installing /\ pc \notin {"ensure", "admin", "seed", "sign"}
  BY <1>1
<1>7. ManagerInv'
  BY <1>1, <1>4, <1>5, <1>6, GoesKeeps DEF At, PlaceOf, Resetting
<1> QED BY <1>1, <1>2, <1>3, <1>7, GoesTo DEF StartPostgres, ManagerTypes

LEMMA LoadStep ==
  ASSUME TypeOK, ManagerInv, Steady, NEW t \in Thread, Load(t)
  PROVE  ManagerTypes' /\ ManagerInv'
<1>1. /\ ManagerTypes /\ PlaceOf(t) /\ At(t, "django") /\ UNCHANGED <<desired, server, db>>
      /\ {"check", "django"} \subseteq Installing /\ Installing \subseteq Place /\ Goes(t, "check")
  BY TypeParts DEF Load, ManagerInv, Places, Installing, Place
<1>2. setup' \in [django : BOOLEAN, ready : BOOLEAN] /\ setup'.ready = setup.ready
  BY <1>1 DEF Load, ManagerTypes
<1>3. ManagerInv'
  BY <1>1, <1>2, GoesKeeps DEF At, Grows, PlaceOf, ManagerInv, Vouched, Resetting
<1> QED BY <1>1, <1>2, <1>3, GoesTo DEF Load, ManagerTypes

LEMMA CheckStep ==
  ASSUME TypeOK, ManagerInv, Steady, NEW t \in Thread, Check(t, app)
  PROVE  ManagerTypes' /\ ManagerInv'
<1>1. /\ ManagerTypes /\ PlaceOf(t) /\ At(t, "check") /\ UNCHANGED <<desired, server, db>>
      /\ {"check", "migrate"} \subseteq Installing /\ Installing \subseteq Place
  BY TypeParts DEF Check, ManagerInv, Places, Installing, Place
<1>2. app # 0
  BY <1>1, Someone, Names DEF At
<1>3. CASE Current(app)
  <2>1. SetupEnds(t, TRUE)
    BY <1>3 DEF Check
  <2>2. "wipe" \notin gap =>
          Grows /\ (db'.sig # 0 => db'.admin /\ db'.seeded) /\ (Sound' \/ Resetting)
    BY <1>1, <1>2, <1>3 DEF Current, Grows, ManagerInv, Vouched, Sound, Steady
  <2>3. ManagerInv'
    BY <1>1, <2>1, <2>2, EndsKeeps DEF At
  <2> QED BY <1>1, <2>1, <2>3, EndsTo DEF Check, ManagerTypes
<1>4. CASE ~Current(app)
  <2>1. Goes(t, "migrate") /\ setup' = setup
    BY <1>4 DEF Check
  <2>2. ManagerInv'
    BY <1>1, <2>1, GoesKeeps DEF At, Grows, PlaceOf, ManagerInv, Vouched, Resetting, Installing
  <2> QED BY <1>1, <2>1, <2>2, GoesTo DEF Check, ManagerTypes
<1> QED BY <1>3, <1>4

LEMMA InstallStep ==
  ASSUME TypeOK, ManagerInv, Steady, NEW t \in Thread, Install(t, app)
  PROVE  ManagerTypes' /\ ManagerInv'
<1>1. /\ ManagerTypes /\ PlaceOf(t) /\ UNCHANGED <<desired, server, setup>> /\ db.up
      /\ {"admin", "seed", "sign"} \subseteq Installing /\ Installing \subseteq Place
      /\ task[t].pc \in {"migrate", "admin", "seed"}
  BY TypeParts DEF Install, At, ManagerInv, Places, Installing, Place
<1>2. app \in {1, 2} /\ db.schema \in {0, 1, 2} /\ ("wipe" \notin gap => VouchedBy(t))
  BY <1>1, Someone, Names DEF ManagerTypes, Db, ManagerInv, Vouched
<1>3. PICK pc \in {"admin", "seed", "sign"} :
        /\ Goes(t, pc)
        /\ pc = "admin" => At(t, "migrate") /\ db' = Migrated(app)
        /\ pc = "seed" => At(t, "admin") /\ db' = [db EXCEPT !.admin = TRUE]
        /\ pc = "sign" => At(t, "seed") /\ db' = [db EXCEPT !.seeded = TRUE]
  BY DEF Install
<1>4. /\ db' \in Db /\ db'.up /\ (db.admin => db'.admin) /\ (db.seeded => db'.seeded)
      /\ db'.sig = db.sig
      /\ (db.schema >= app => db'.schema >= app)
      /\ pc = "admin" => db'.schema >= app
      /\ pc # "admin" => db'.schema = db.schema
      /\ pc = "seed" => db'.admin
      /\ pc = "sign" => db'.seeded
  <2>1. db \in Db
    BY <1>1 DEF ManagerTypes
  <2>2. CASE pc = "admin"
    <3>1. db' = [db EXCEPT !.schema = IF db.schema < app THEN app ELSE db.schema]
      BY <1>3, <2>2 DEF Migrated
    <3> QED BY <1>1, <1>2, <2>1, <2>2, <3>1, Names DEF Db
  <2>3. CASE pc = "seed"
    BY <1>1, <1>3, <2>1, <2>3 DEF Db
  <2>4. CASE pc = "sign"
    BY <1>1, <1>3, <2>1, <2>4 DEF Db
  <2> QED BY <1>3, <2>2, <2>3, <2>4
<1>5. "wipe" \notin gap =>
        /\ Grows /\ (db'.sig # 0 => db'.admin /\ db'.seeded)
        /\ pc \in {"admin", "seed", "sign"} => db'.up /\ db'.schema >= app
        /\ pc \in {"seed", "sign"} => db'.admin
        /\ pc = "sign" => db'.seeded
  BY <1>1, <1>2, <1>3, <1>4 DEF At, Grows, ManagerInv, Vouched, VouchedBy
<1>6. ManagerInv'
  BY <1>1, <1>3, <1>5, GoesKeeps DEF PlaceOf, Resetting, Installing
<1> QED BY <1>1, <1>3, <1>4, <1>6, GoesTo DEF Install, ManagerTypes

LEMMA SignStep ==
  ASSUME TypeOK, ManagerInv, Steady, NEW t \in Thread, Sign(t, app)
  PROVE  ManagerTypes' /\ ManagerInv'
<1>1. /\ ManagerTypes /\ At(t, "sign") /\ UNCHANGED <<desired, server>> /\ SetupEnds(t, TRUE)
      /\ app \in {0} \union Version
  BY TypeParts DEF Sign, UpdateTypes
<1>2. /\ db' \in Db /\ db'.up = db.up /\ db'.admin = db.admin /\ db'.seeded = db.seeded
      /\ db'.schema = db.schema
  BY <1>1 DEF Sign, ManagerTypes, Db
<1>3. "wipe" \notin gap =>
        Grows /\ (db'.sig # 0 => db'.admin /\ db'.seeded) /\ (Sound' \/ Resetting)
  BY <1>1, <1>2 DEF At, Grows, ManagerInv, Vouched, VouchedBy, Sound, Steady
<1>4. ManagerInv'
  BY <1>1, <1>3, EndsKeeps DEF At, Installing
<1> QED BY <1>1, <1>2, <1>4, EndsTo DEF Sign, ManagerTypes

LEMMA SetupFailsStep ==
  ASSUME TypeOK, ManagerInv, Steady, NEW t \in Thread, SetupFails(t)
  PROVE  ManagerTypes' /\ ManagerInv'
<1>1. /\ ManagerTypes /\ task[t].pc \in Installing /\ UNCHANGED <<desired, server, db>>
      /\ SetupEnds(t, At(t, "sign")) /\ At(t, "sign") \in BOOLEAN
  BY TypeParts DEF SetupFails, At
<1>2. "wipe" \notin gap =>
        Grows /\ (db'.sig # 0 => db'.admin /\ db'.seeded) /\ (At(t, "sign") => Sound' \/ Resetting)
  BY <1>1 DEF At, Grows, ManagerInv, Vouched, VouchedBy, Sound, Steady
<1>3. ManagerInv'
  BY <1>1, <1>2, EndsKeeps
<1> QED BY <1>1, <1>3, EndsTo DEF SetupFails, ManagerTypes

-----------------------------------------------------------------------------
(* start, stop and the threads they start. *)

LEMMA DoneKeeps ==
  ASSUME TypeOK, ManagerInv, Steady, NEW t \in Thread, NEW res \in BOOLEAN, Done(t, res),
         UNCHANGED <<db, setup>>, task[t].pc \notin {"idle", "stop", "join", "first_time_install"},
         Flushing => ~desired', QuietServer => QuietServer',
         server'.thread = "serving" => server.thread = "serving",
         app = 2 /\ ~fit /\ t = "boot" /\ task[t].job = "watch" => ~res
  PROVE  ManagerInv'
<1>1. ManagerTypes /\ PlaceOf(t)
  BY TypeParts DEF ManagerInv, Places
<1>2. /\ Rest(t) /\ task'[t].job = task[t].job /\ task'[t].pc = "done" /\ task'[t].starting = FALSE
      /\ task'[t].res = res
  BY <1>1, DoneTo
<1>3. PlaceOf(t)' /\ VouchedBy(t)'
  BY <1>1, <1>2 DEF PlaceOf, VouchedBy, Installing
<1>4. Resetting => Resetting'
  BY <1>2, Names DEF Resetting, Rest
<1>5. "wipe" \notin gap => (setup'.ready => Sound' \/ Resetting')
  BY <1>4 DEF ManagerInv, Vouched, Sound, Steady
<1>6. Fine(t)
  BY <1>2, <1>3, <1>5 DEF Fine, Grows, ManagerInv, Vouched
<1> QED BY <1>2, <1>6, OneMoves

LEMMA StartStep ==
  ASSUME TypeOK, ManagerInv, Steady, NEW t \in Thread, Start(t)
  PROVE  ManagerTypes' /\ ManagerInv'
<1>1. /\ ManagerTypes /\ PlaceOf(t) /\ At(t, "start") /\ UNCHANGED <<setup, db, server, worker, event, creating>>
      /\ desired' = (desired \/ task[t].job # "watch") /\ desired' \in BOOLEAN
  BY TypeParts DEF Start, ManagerInv, Places, ManagerTypes
<1>2. Flushing => t # "panel" /\ task[t].job = "watch" /\ ~desired /\ ~desired'
  <2>1. SUFFICES ASSUME Flushing PROVE t # "panel" /\ task[t].job = "watch" /\ ~desired /\ ~desired'
    OBVIOUS
  <2>2. task["panel"].job \in {"flush", "rebuild"} /\ ~desired
    BY <2>1 DEF Flushing, ManagerInv, FlushAlone
  <2>3. t # "panel" /\ task[t].job = "watch"
    BY <1>1, <2>2, Names DEF PlaceOf, At, ManagerInv, Places
  <2> QED BY <1>1, <2>2, <2>3
<1>3. CASE Done(t, FALSE)
  <2>1. ManagerInv'
    BY <1>1, <1>2, <1>3, DoneKeeps DEF At, QuietServer
  <2> QED BY <1>1, <1>3, <2>1, DoneTo DEF ManagerTypes
<1>4. ASSUME ~Refused(t),
             task' = [task EXCEPT ![t].pc = IF IsRunning THEN "ensure" ELSE "ensure_django",
                                  ![t].starting = TRUE, ![t].todo = Kind]
      PROVE  ManagerTypes' /\ ManagerInv'
  <2> DEFINE to == IF IsRunning THEN "ensure" ELSE "ensure_django"
  <2>1. to \in {"ensure", "ensure_django"} /\ to \in Place /\ (to = "ensure" => server.thread = "serving")
    BY DEF Place, IsRunning
  <2> HIDE DEF to
  <2>2. task' = [task EXCEPT ![t].pc = to, ![t].starting = TRUE, ![t].todo = Kind]
    BY <1>4 DEF to
  <2>3. task[t] \in Task /\ task \in [Thread -> Task]
    BY <1>1 DEF ManagerTypes
  <2>4. task'[t] = [job |-> task[t].job, pc |-> to, starting |-> TRUE, todo |-> Kind, res |-> task[t].res]
    BY <2>2, <2>3 DEF Task
  <2>5. Rest(t) /\ task' = [u \in Thread |-> task'[u]] /\ task'[t] \in Task
    BY <2>1, <2>2, <2>3, <2>4 DEF Rest, Task
  <2>6. \A u \in Thread : task'[u] \in Task
    BY <2>3, <2>5 DEF Rest
  <2>7. task' \in [Thread -> Task]
    BY <2>5, <2>6
  <2>8. ManagerTypes'
    BY <1>1, <2>7 DEF ManagerTypes
  <2>9. ~Flushing
    BY <1>1, <1>2, <1>4 DEF Refused
  <2>10. PlaceOf(t)' /\ VouchedBy(t)'
    BY <1>1, <2>1, <2>4 DEF PlaceOf, VouchedBy, At, Installing
  <2>11. Resetting => Resetting'
    BY <2>9 DEF Resetting, Flushing
  <2>12. "wipe" \notin gap => (setup'.ready => Sound' \/ Resetting')
    BY <1>1, <2>11 DEF ManagerInv, Vouched, Sound, Steady
  <2>13. app = 2 /\ ~fit => task'[t].pc = "ensure_django"
    BY <2>1, <2>4 DEF ManagerInv, UnfitIsDown
  <2>14. Fine(t)
    BY <1>1, <2>9, <2>10, <2>12, <2>13 DEF Fine, Grows, ManagerInv, Vouched, QuietServer
  <2>15. ManagerInv'
    BY <1>1, <2>1, <2>4, <2>5, <2>14, OneMoves DEF At
  <2> QED BY <2>8, <2>15
<1> QED BY <1>3, <1>4 DEF Start

LEMMA SpawnStep ==
  ASSUME TypeOK, ManagerInv, Steady, NEW t \in Thread, Spawn(t)
  PROVE  ManagerTypes' /\ ManagerInv'
<1>1. /\ ManagerTypes /\ PlaceOf(t) /\ At(t, "spawn") /\ Goes(t, "bind") /\ "bind" \in Place
      /\ UNCHANGED <<setup, db, desired, worker, event, creating>>
      /\ server' = [thread |-> "binding", exit |-> FALSE]
  BY TypeParts DEF Spawn, ManagerInv, Places, Place
<1>2. /\ task' \in [Thread -> Task] /\ Rest(t)
      /\ task'[t].job = task[t].job /\ task'[t].pc = "bind" /\ task'[t].starting = task[t].starting
  BY <1>1, GoesTo
<1>3. task[t].starting /\ ~Flushing
  BY <1>1 DEF PlaceOf, At, ManagerInv, FlushAlone
<1>4. PlaceOf(t)' /\ VouchedBy(t)'
  BY <1>1, <1>2, <1>3 DEF PlaceOf, VouchedBy, At, Installing
<1>5. "wipe" \notin gap => Sound'
  BY <1>1 DEF At, ManagerInv, Vouched, VouchedBy, Sound, Steady
<1>6. Fine(t)
  BY <1>1, <1>2, <1>3, <1>4, <1>5 DEF Fine, Grows, ManagerInv, Vouched
<1>7. ManagerInv'
  BY <1>1, <1>2, <1>6, OneMoves DEF At
<1> QED BY <1>1, <1>2, <1>7 DEF ManagerTypes

LEMMA BoundStep ==
  ASSUME TypeOK, ManagerInv, Steady, NEW t \in Thread, Bound(t)
  PROVE  ManagerTypes' /\ ManagerInv'
<1>1. /\ ManagerTypes /\ PlaceOf(t) /\ At(t, "bind") /\ "ensure" \in Place
      /\ UNCHANGED <<setup, db, desired, server, worker, event, creating>>
  BY TypeParts DEF Bound, ManagerInv, Places, Place
<1>2. CASE IsRunning
  <2>1. Goes(t, "ensure") /\ server.thread = "serving" /\ "ensure" \notin Installing
    BY <1>2 DEF Bound, IsRunning, Installing
  <2>2. ManagerInv'
    BY <1>1, <2>1, GoesKeeps DEF At, Grows, PlaceOf, ManagerInv, Vouched, Resetting
  <2> QED BY <1>1, <2>1, <2>2, GoesTo DEF ManagerTypes
<1>3. CASE ~IsRunning
  <2>1. Done(t, FALSE)
    BY <1>3 DEF Bound
  <2>2. Flushing => ~desired'
    BY <1>1 DEF ManagerInv, FlushAlone
  <2>3. ManagerInv'
    BY <1>1, <2>1, <2>2, DoneKeeps DEF At, QuietServer
  <2> QED BY <1>1, <2>1, <2>3, DoneTo DEF ManagerTypes
<1> QED BY <1>2, <1>3

LEMMA BindTimeoutStep ==
  ASSUME TypeOK, ManagerInv, Steady, NEW t \in Thread, BindTimeout(t)
  PROVE  ManagerTypes' /\ ManagerInv'
<1>1. /\ ManagerTypes /\ At(t, "bind") /\ Done(t, FALSE)
      /\ UNCHANGED <<setup, db, desired, worker, event, creating>>
      /\ server' \in [thread : {"dead", "binding", "serving"}, exit : BOOLEAN]
      /\ server'.exit /\ server'.thread = server.thread
  BY TypeParts DEF BindTimeout, ManagerTypes
<1>2. Flushing => ~desired'
  BY <1>1 DEF ManagerInv, FlushAlone
<1>3. ManagerInv'
  BY <1>1, <1>2, DoneKeeps DEF At, QuietServer
<1> QED BY <1>1, <1>3, DoneTo DEF ManagerTypes

LEMMA EnsureWorkerStep ==
  ASSUME TypeOK, ManagerInv, Steady, NEW t \in Thread, EnsureWorker(t)
  PROVE  ManagerTypes' /\ ManagerInv'
<1> DEFINE k == CHOOSE k \in task[t].todo : TRUE
<1>1. /\ ManagerTypes /\ PlaceOf(t) /\ At(t, "ensure") /\ task[t].todo # {}
      /\ UNCHANGED <<setup, db, desired, server, worker, event>>
      /\ \/ creating' = k /\ UNCHANGED task
         \/ task' = [task EXCEPT ![t].todo = @ \ {k}] /\ UNCHANGED creating
  BY TypeParts DEF EnsureWorker, ManagerInv, Places
<1>2. k \in task[t].todo
  BY <1>1
<1> HIDE DEF k
<1>3. k \in Kind /\ task[t] \in Task /\ task \in [Thread -> Task]
  BY <1>1, <1>2 DEF ManagerTypes, Task
<1>4. /\ task' \in [Thread -> Task] /\ Rest(t)
      /\ task'[t].job = task[t].job /\ task'[t].pc = task[t].pc /\ task'[t].starting = task[t].starting
  BY <1>1, <1>3 DEF Task, Rest
<1>5. creating' \in Kind \union {None}
  BY <1>1, <1>3 DEF ManagerTypes
<1>6. PlaceOf(t)' /\ VouchedBy(t)'
  BY <1>1, <1>4 DEF PlaceOf, VouchedBy, At, Installing
<1>7. Resetting => Resetting'
  BY <1>4, Names DEF Resetting, Rest
<1>8. "wipe" \notin gap => (setup'.ready => Sound' \/ Resetting')
  BY <1>1, <1>7 DEF ManagerInv, Vouched, Sound, Steady
<1>9. Fine(t)
  BY <1>1, <1>4, <1>6, <1>8
     DEF Fine, Grows, ManagerInv, Vouched, FlushAlone, UnfitIsDown, QuietServer, At
<1>10. ManagerInv'
  BY <1>1, <1>4, <1>9, OneMoves DEF At
<1> QED BY <1>1, <1>4, <1>5, <1>10 DEF ManagerTypes

LEMMA EnsuredStep ==
  ASSUME TypeOK, ManagerInv, Steady, NEW t \in Thread, Ensured(t)
  PROVE  ManagerTypes' /\ ManagerInv'
<1>1. /\ ManagerTypes /\ At(t, "ensure") /\ Done(t, TRUE)
      /\ UNCHANGED <<setup, db, desired, server, worker, event, creating>>
  BY TypeParts DEF Ensured
<1>2. Flushing => ~desired'
  BY <1>1 DEF ManagerInv, FlushAlone
<1>3. ManagerInv'
  BY <1>1, <1>2, DoneKeeps DEF At, QuietServer, ManagerInv, UnfitIsDown
<1> QED BY <1>1, <1>3, DoneTo DEF ManagerTypes

LEMMA QuitStep ==
  ASSUME TypeOK, ManagerInv, Steady, NEW t \in Thread, Quit(t)
  PROVE  ManagerTypes' /\ ManagerInv'
<1>1. /\ ManagerTypes /\ PlaceOf(t) /\ At(t, "quit") /\ Done(t, task[t].res) /\ task[t].res \in BOOLEAN
      /\ UNCHANGED <<setup, db, desired, server, worker, event, creating>>
  BY TypeParts DEF Quit, ManagerTypes, Task, ManagerInv, Places
<1>2. Flushing => ~desired'
  BY <1>1 DEF ManagerInv, FlushAlone
<1>3. task[t].job # "watch"
  BY <1>1 DEF PlaceOf, At
<1>4. ManagerInv'
  BY <1>1, <1>2, <1>3, DoneKeeps DEF At, QuietServer
<1> QED BY <1>1, <1>4, DoneTo DEF ManagerTypes

\* The two steps by which stop takes the manager.
LEMMA StopKeeps ==
  ASSUME TypeOK, ManagerInv, Steady, NEW t \in Thread, Rest(t), UNCHANGED <<setup, db>>,
         task[t].pc \in {"stop", "join"}, task'[t].pc \in {"join", "quit"},
         task'[t].job = task[t].job, task'[t].starting = task[t].starting,
         server'.thread = server.thread, QuietServer => QuietServer',
         Flushing' => ~desired' /\ \A u \in Thread \ {t} : ~task[u].starting,
         task'[t].pc = "quit" => QuietServer',
         task[t].pc = "join" => task'[t].pc = "quit"
  PROVE  ManagerInv'
<1>1. PlaceOf(t) /\ "boot" \in Thread /\ "panel" \in Thread
  BY Names DEF ManagerInv, Places
<1>2. Places'
  <2>1. \A u \in Thread : task'[u].job = task[u].job
    BY DEF Rest
  <2>2. PlaceOf(t)'
    BY <1>1 DEF PlaceOf, Installing
  <2>3. \A u \in Thread : PlaceOf(u)'
    BY <2>2 DEF Rest, ManagerInv, Places, PlaceOf
  <2> QED BY <2>1, <2>3, Names DEF ManagerInv, Places
<1>3. NobodyHome'
  <2>1. app # 0
    BY DEF ManagerInv, NobodyHome, Threads, Idle
  <2> QED BY <2>1 DEF NobodyHome, Steady
<1>4. FlushAlone'
  <2>1. ~task[t].starting
    BY <1>1 DEF PlaceOf
  <2>2. Flushing' => ~desired' /\ \A u \in Thread : ~task'[u].starting
    BY <2>1 DEF Rest
  <2>3. Flushing' /\ task'["panel"].pc # "join" => QuietServer'
    <3>1. CASE t = "panel"
      BY <3>1
    <3>2. CASE t # "panel"
      BY <1>1, <3>2 DEF Flushing, Rest, ManagerInv, FlushAlone
    <3> QED BY <3>1, <3>2
  <2> QED BY <2>2, <2>3 DEF FlushAlone
<1>5. Vouched'
  <2>1. SUFFICES ASSUME "wipe" \notin gap
                 PROVE  /\ db'.sig # 0 => db'.admin /\ db'.seeded
                        /\ \A u \in Thread : VouchedBy(u)'
                        /\ setup'.ready => Sound' \/ Resetting'
                        /\ task'["panel"].job = "rebuild" => task'["panel"].pc # "idle"
    BY DEF Vouched, Steady
  <2>2. ASSUME NEW u \in Thread PROVE VouchedBy(u)'
    BY <2>1 DEF Rest, ManagerInv, Vouched, VouchedBy, Sound, Steady
  <2>3. Resetting => Resetting'
    BY <1>1 DEF Resetting, Rest
  <2>4. task'["panel"].job = "rebuild" => task'["panel"].pc # "idle"
    BY <1>1, <2>1 DEF Rest, ManagerInv, Vouched
  <2> QED BY <2>1, <2>2, <2>3, <2>4 DEF ManagerInv, Vouched, Sound, Steady
<1>6. UnfitIsDown'
  BY <1>1 DEF Rest, Steady, ManagerInv, UnfitIsDown
<1>7. SetupSound'
  BY DEF ManagerInv, SetupSound, QuietServer, Steady
<1> QED BY <1>2, <1>3, <1>4, <1>5, <1>6, <1>7 DEF ManagerInv

LEMMA StopStep ==
  ASSUME TypeOK, ManagerInv, Steady, NEW t \in Thread, Stop(t)
  PROVE  ManagerTypes' /\ ManagerInv'
<1>1. /\ ManagerTypes /\ At(t, "stop") /\ Goes(t, "join") /\ "join" \in Place /\ desired' = FALSE
      /\ UNCHANGED <<setup, db, server, worker, creating>> /\ event' \in [Kind -> BOOLEAN]
      /\ \A u \in Thread \ {t} : ~task[u].starting
  BY TypeParts DEF Stop, LifecycleFree, Living, Place
<1>2. ManagerInv'
  BY <1>1, GoesTo, StopKeeps DEF At, QuietServer
<1> QED BY <1>1, <1>2, GoesTo DEF ManagerTypes

LEMMA JoinStep ==
  ASSUME TypeOK, ManagerInv, Steady, NEW t \in Thread, Join(t)
  PROVE  ManagerTypes' /\ ManagerInv'
<1>1. /\ ManagerTypes /\ PlaceOf(t) /\ At(t, "join")
      /\ UNCHANGED <<setup, db, desired, worker, event, creating>>
      /\ task' = [task EXCEPT ![t].pc = "quit", ![t].res = (Alive = {})]
      /\ server' = [server EXCEPT !.exit = server.thread # "dead"]
  BY TypeParts DEF Join, ManagerInv, Places
<1>2. /\ server' \in [thread : {"dead", "binding", "serving"}, exit : BOOLEAN]
      /\ server'.thread = server.thread /\ QuietServer'
  BY <1>1 DEF ManagerTypes, QuietServer
<1>3. /\ task' \in [Thread -> Task] /\ Rest(t) /\ task'[t].pc = "quit"
      /\ task'[t].job = task[t].job /\ task'[t].starting = task[t].starting
  <2> DEFINE res == (Alive = {})
  <2>1. task[t] \in Task /\ task \in [Thread -> Task] /\ res \in BOOLEAN /\ "quit" \in Place
    BY <1>1 DEF ManagerTypes, Place
  <2>2. task' = [task EXCEPT ![t].pc = "quit", ![t].res = res]
    BY <1>1
  <2> HIDE DEF res
  <2>3. task'[t] = [task[t] EXCEPT !.pc = "quit", !.res = res] /\ Rest(t)
        /\ task' = [u \in Thread |-> task'[u]]
    BY <2>1, <2>2 DEF Rest
  <2>4. task'[t] \in Task /\ task'[t].pc = "quit"
        /\ task'[t].job = task[t].job /\ task'[t].starting = task[t].starting
    BY <2>1, <2>3 DEF Task
  <2>5. \A u \in Thread : task'[u] \in Task
    BY <2>1, <2>3, <2>4 DEF Rest
  <2>6. task' \in [Thread -> Task]
    BY <2>3, <2>5
  <2> QED BY <2>3, <2>4, <2>6
<1>4. Flushing' => ~desired' /\ \A u \in Thread \ {t} : ~task[u].starting
  <2>1. Flushing' => Flushing
    <3>1. CASE t = "panel"
      BY <1>1, <1>3, <3>1 DEF Flushing, At
    <3>2. CASE t # "panel"
      BY <1>3, <3>2, Names DEF Flushing, Rest
    <3> QED BY <3>1, <3>2
  <2> QED BY <1>1, <2>1 DEF ManagerInv, FlushAlone
<1>5. ManagerInv'
  BY <1>1, <1>2, <1>3, <1>4, StopKeeps DEF At
<1> QED BY <1>1, <1>2, <1>3, <1>5 DEF ManagerTypes

LEMMA CallStepKeeps ==
  ASSUME TypeOK, ManagerInv, NEW t \in Thread, CallStep(t)
  PROVE  ManagerTypes' /\ ManagerInv'
<1>1. Steady
  BY DEF CallStep, Steady, update, flags, bounds
<1>2. \/ EnsureDjango(t) \/ FirstTimeInstall(t) \/ StartPostgres(t) \/ Load(t) \/ Check(t, app)
      \/ Install(t, app) \/ SetupFails(t) \/ Sign(t, app) \/ Start(t) \/ Spawn(t) \/ Bound(t)
      \/ EnsureWorker(t) \/ Ensured(t) \/ Stop(t) \/ Join(t) \/ Quit(t)
  BY DEF CallStep, Unreachable
<1> QED BY <1>1, <1>2, EnsureDjangoStep, FirstTimeInstallStep, StartPostgresStep, LoadStep, CheckStep,
           InstallStep, SetupFailsStep, SignStep, StartStep, SpawnStep, BoundStep, EnsureWorkerStep,
           EnsuredStep, StopStep, JoinStep, QuitStep

\* The server and the workers by themselves.
LEMMA ServerKeeps ==
  ASSUME TypeOK, ManagerInv, Steady, UNCHANGED <<task, setup, db, desired>>,
         QuietServer => QuietServer',
         server'.thread = "serving" => server.thread = "serving" \/ ~(app = 2 /\ ~fit)
  PROVE  ManagerInv'
<1>1. Places'
  BY DEF ManagerInv, Places, PlaceOf
<1>2. NobodyHome'
  BY DEF ManagerInv, NobodyHome, Steady
<1>3. FlushAlone'
  BY DEF ManagerInv, FlushAlone, Flushing
<1>4. Vouched'
  BY DEF ManagerInv, Vouched, VouchedBy, Sound, Resetting, Steady
<1>5. UnfitIsDown'
  BY DEF ManagerInv, UnfitIsDown, Steady
<1>6. SetupSound'
  BY DEF ManagerInv, SetupSound, QuietServer, Steady
<1> QED BY <1>1, <1>2, <1>3, <1>4, <1>5, <1>6 DEF ManagerInv

LEMMA ServerStepKeeps ==
  ASSUME TypeOK, ManagerInv, ServerStep
  PROVE  ManagerTypes' /\ ManagerInv'
<1>1. Steady /\ ManagerTypes
  BY TypeParts DEF ServerStep, Steady, update, flags, bounds
<1>2. CASE Create
  <2>1. creating \in Kind /\ UNCHANGED <<task, setup, db, desired, server>>
    BY <1>1, <1>2 DEF Create, ManagerTypes
  <2>2. ManagerInv'
    BY <1>1, <2>1, ServerKeeps DEF QuietServer
  <2> QED BY <1>1, <1>2, <2>1, <2>2 DEF Create, ManagerTypes
<1>3. CASE EnsureHeartbeat
  <2>1. UNCHANGED <<task, setup, db, desired, server>>
    BY <1>3 DEF EnsureHeartbeat
  <2>2. ManagerInv'
    BY <1>1, <2>1, ServerKeeps DEF QuietServer
  <2> QED BY <1>1, <1>3, <2>1, <2>2 DEF EnsureHeartbeat, ManagerTypes
<1>4. ASSUME NEW k \in Kind, WorkerStops(k) PROVE ManagerTypes' /\ ManagerInv'
  <2>1. UNCHANGED <<task, setup, db, desired, server>>
    BY <1>4 DEF WorkerStops
  <2>2. ManagerInv'
    BY <1>1, <2>1, ServerKeeps DEF QuietServer
  <2> QED BY <1>1, <1>4, <2>1, <2>2 DEF WorkerStops, ManagerTypes
<1>5. CASE Binds /\ (app = 1 \/ fit)
  <2>1. /\ UNCHANGED <<task, setup, db, desired, worker, event, creating>> /\ ~QuietServer
        /\ server' \in [thread : {"dead", "binding", "serving"}, exit : BOOLEAN]
    BY <1>1, <1>5 DEF Binds, ManagerTypes, QuietServer
  <2>2. ManagerInv'
    BY <1>1, <1>5, <2>1, ServerKeeps
  <2> QED BY <1>1, <2>1, <2>2 DEF ManagerTypes
<1>6. CASE ServerEnds
  <2>1. /\ UNCHANGED <<task, setup, db, desired, worker, event, creating>>
        /\ server' = NoServer
    BY <1>6 DEF ServerEnds
  <2>2. ManagerInv'
    BY <1>1, <2>1, ServerKeeps DEF QuietServer, NoServer
  <2> QED BY <1>1, <2>1, <2>2 DEF ManagerTypes, NoServer
<1> QED BY <1>2, <1>3, <1>4, <1>5, <1>6 DEF ServerStep

-----------------------------------------------------------------------------
(* The threads of the launcher. *)

\* A thread begins its next call.
LEMMA BeginKeeps ==
  ASSUME TypeOK, ManagerInv, NEW t \in Thread, NEW job \in Job, NEW pc \in Place, Begin(t, job, pc),
         UNCHANGED <<setup, db, desired, server, app, fit, gap>>, app # 0,
         t = "boot" => job \in {"boot", "autostart", "watch"},
         t = "panel" => job \in {"none", "start", "stop", "setup", "flush"},
         t = "closer" => job \in {"close", "update"},
         pc \in {"idle", "ensure_django", "start", "stop", "tunnel"},
         pc = "start" => job = "start",
         pc = "stop" => job \in {"stop", "flush"},
         pc = "tunnel" => job \in {"close", "update"},
         job = "flush" => pc = "stop",
         job = "watch" => pc = "idle",
         task[t].pc # "first_time_install",
         ready' => ready \/ ~(app = 2 /\ ~fit)
  PROVE  ManagerInv'
<1>1. ManagerTypes /\ "boot" \in Thread /\ "panel" \in Thread /\ "closer" \in Thread
  BY TypeParts, Names
<1>2. /\ Rest(t) /\ task'[t].job = job /\ task'[t].pc = pc /\ task'[t].starting = FALSE
      /\ task'[t].res = FALSE
  BY <1>1, BeginTo
<1>3. Places'
  <2>1. PlaceOf(t)'
    BY <1>2 DEF PlaceOf, Installing
  <2>2. \A u \in Thread : PlaceOf(u)'
    BY <1>2, <2>1 DEF Rest, ManagerInv, Places, PlaceOf
  <2>3. /\ task'["boot"].job \in {"none", "boot", "autostart", "watch"}
        /\ task'["panel"].job \in {"none", "start", "stop", "setup", "flush", "rebuild"}
        /\ task'["closer"].job \in {"none", "close", "update"}
    BY <1>1, <1>2 DEF Rest, ManagerInv, Places
  <2> QED BY <2>2, <2>3 DEF Places
<1>4. NobodyHome'
  BY DEF NobodyHome
<1>5. FlushAlone'
  <2>1. Flushing' => Flushing /\ t # "panel"
    BY <1>1, <1>2 DEF Flushing, Rest
  <2> QED BY <1>1, <1>2, <2>1 DEF FlushAlone, ManagerInv, Rest, QuietServer
<1>6. Vouched'
  <2>1. SUFFICES ASSUME "wipe" \notin gap
                 PROVE  /\ db'.sig # 0 => db'.admin /\ db'.seeded
                        /\ \A u \in Thread : VouchedBy(u)'
                        /\ setup'.ready => Sound' \/ Resetting'
                        /\ task'["panel"].job = "rebuild" => task'["panel"].pc # "idle"
    BY DEF Vouched
  <2>2. ASSUME NEW u \in Thread PROVE VouchedBy(u)'
    BY <1>2, <2>1 DEF Rest, ManagerInv, Vouched, VouchedBy, Sound
  <2>3. Resetting => Resetting'
    BY <1>1, <1>2 DEF Resetting, Rest
  <2>4. task'["panel"].job = "rebuild" => task'["panel"].pc # "idle"
    BY <1>1, <1>2, <2>1 DEF Rest, ManagerInv, Vouched
  <2> QED BY <2>1, <2>2, <2>3, <2>4 DEF ManagerInv, Vouched, Sound
<1>7. UnfitIsDown'
  BY <1>1, <1>2 DEF Rest, ManagerInv, UnfitIsDown
<1>8. SetupSound'
  BY DEF ManagerInv, SetupSound
<1> QED BY <1>3, <1>4, <1>5, <1>6, <1>7, <1>8 DEF ManagerInv

LEMMA Owned ==
  ASSUME TypeOK, ManagerInv, NEW t \in Thread, task[t].pc # "idle" \/ task[t].job # "none"
  PROVE  app # 0
BY DEF ManagerInv, NobodyHome, Threads, Idle

LEMMA BootKeeps ==
  ASSUME TypeOK, ManagerInv, BootStep
  PROVE  ManagerTypes' /\ ManagerInv'
<1>1. ManagerTypes /\ "boot" \in Thread /\ {"boot", "autostart", "watch"} \subseteq Job
      /\ {"ensure_django", "idle", "start", "ensure"} \subseteq Place
  BY TypeParts, Names DEF Job, Place
<1>2. CASE CallStep("boot")
  BY <1>1, <1>2, CallStepKeeps
<1>3. CASE BootRetries /\ UNCHANGED <<update, gap, bounds>>
  <2>1. PICK job \in {"boot", "autostart"} :
          Returns("boot", job, FALSE) /\ Begin("boot", job, "ensure_django")
    BY <1>3 DEF BootRetries
  <2>2. UNCHANGED <<state, app, fit, gap, ready>>
    BY <1>3 DEF BootRetries, update, bounds, flags
  <2>3. app # 0 /\ task["boot"].pc = "done"
    BY <1>1, <2>1, Owned DEF Returns, At
  <2>4. ManagerInv'
    BY <1>1, <2>1, <2>2, <2>3, BeginKeeps DEF state
  <2> QED BY <1>1, <2>1, <2>2, <2>4, BeginTo DEF ManagerTypes, state
<1>4. CASE BootGoesOn /\ UNCHANGED <<update, gap, bounds>>
  <2>1. Returns("boot", "boot", TRUE) /\ Begin("boot", "autostart", "ensure_django")
        /\ UNCHANGED <<state, app, fit, gap, ready>>
    BY <1>4 DEF BootGoesOn, update, bounds, flags
  <2>2. app # 0 /\ task["boot"].pc = "done"
    BY <1>1, <2>1, Owned DEF Returns, At
  <2>3. ManagerInv'
    BY <1>1, <2>1, <2>2, BeginKeeps DEF state
  <2> QED BY <1>1, <2>1, <2>3, BeginTo DEF ManagerTypes, state
<1>5. CASE Watch /\ UNCHANGED <<update, gap, bounds>>
  <2>1. /\ task["boot"].pc = "done" /\ Begin("boot", "watch", "idle")
        /\ ready' = (ready \/ (task["boot"].job = "watch" /\ task["boot"].res))
        /\ UNCHANGED <<state, app, fit, gap>>
    BY <1>5 DEF Watch, Returns, At, update, bounds
  <2>2. app # 0 /\ (ready' => ready \/ ~(app = 2 /\ ~fit))
    BY <1>1, <2>1, Owned DEF ManagerInv, UnfitIsDown
  <2>3. ManagerInv'
    BY <1>1, <2>1, <2>2, BeginKeeps DEF state
  <2> QED BY <1>1, <2>1, <2>3, BeginTo DEF ManagerTypes, state
<1>6. CASE (WatchStarts \/ WatchEnsures) /\ UNCHANGED <<update, gap, bounds>>
  <2>1. /\ task["boot"].job = "watch" /\ task["boot"].pc = "idle"
        /\ UNCHANGED <<state, app, fit, gap, ready, updater, cleanup>>
    BY <1>6 DEF WatchStarts, WatchEnsures, At, update, bounds, flags
  <2>2. PICK pc \in {"start", "ensure"} :
          /\ task' \in [Thread -> Task] /\ Rest("boot") /\ task'["boot"].job = "watch"
          /\ task'["boot"].pc = pc /\ task'["boot"].starting = task["boot"].starting
          /\ pc = "ensure" => server.thread = "serving"
    <3>1. CASE WatchStarts
      BY <1>1, <2>1, <3>1, GoesTo DEF WatchStarts
    <3>2. CASE WatchEnsures
      <4> DEFINE todo == IF desired THEN Kind ELSE {}
      <4>1. /\ task["boot"] \in Task /\ task \in [Thread -> Task] /\ todo \in SUBSET Kind
            /\ server.thread = "serving"
        BY <1>1, <3>2 DEF ManagerTypes, WatchEnsures, IsRunning
      <4>2. task' = [task EXCEPT !["boot"].pc = "ensure", !["boot"].todo = todo]
        BY <3>2 DEF WatchEnsures
      <4> HIDE DEF todo
      <4>3. task'["boot"] = [job |-> task["boot"].job, pc |-> "ensure", starting |-> task["boot"].starting,
                             todo |-> todo, res |-> task["boot"].res]
        BY <1>1, <4>1, <4>2 DEF Task
      <4>4. Rest("boot") /\ task' = [u \in Thread |-> task'[u]] /\ task'["boot"] \in Task
        BY <1>1, <4>1, <4>2, <4>3 DEF Rest, Task
      <4>5. \A u \in Thread : task'[u] \in Task
        BY <4>1, <4>4 DEF Rest
      <4>6. task' \in [Thread -> Task]
        BY <4>4, <4>5
      <4> QED BY <2>1, <4>1, <4>3, <4>4, <4>6
    <3> QED BY <1>6, <3>1, <3>2
  <2>3. PlaceOf("boot")' /\ VouchedBy("boot")'
    BY <1>1, <2>1, <2>2 DEF PlaceOf, VouchedBy, ManagerInv, Places, Installing
  <2>4. Resetting => Resetting'
    BY <2>2, Names DEF Resetting, Rest
  <2>5. "wipe" \notin gap => (setup'.ready => Sound' \/ Resetting')
    BY <2>1, <2>4 DEF ManagerInv, Vouched, Sound, state
  <2>6. Fine("boot")
    BY <1>1, <2>1, <2>2, <2>3, <2>5
       DEF Fine, Grows, ManagerInv, Vouched, FlushAlone, UnfitIsDown, QuietServer, state
  <2>7. ManagerInv'
    BY <1>1, <2>1, <2>2, <2>6, OneMoves DEF Steady
  <2> QED BY <1>1, <2>1, <2>2, <2>7 DEF ManagerTypes, state
<1> QED BY <1>2, <1>3, <1>4, <1>5, <1>6 DEF BootStep

-----------------------------------------------------------------------------
(* The requests of the panel, the shutdown and the process. *)

\* A step that leaves the manager alone.
LEMMA AloneKeeps ==
  ASSUME TypeOK, ManagerInv, UNCHANGED <<manager, app, ready>>,
         fit' = fit \/ app # 2,
         "wipe" \in gap => "wipe" \in gap',
         app = 0 => UNCHANGED <<updater, cleanup>>
  PROVE  ManagerTypes' /\ ManagerInv'
<1>1. ManagerTypes'
  BY TypeParts DEF ManagerTypes, manager
<1>2. Places'
  BY DEF ManagerInv, Places, PlaceOf, manager
<1>3. NobodyHome'
  BY DEF ManagerInv, NobodyHome, manager
<1>4. FlushAlone'
  BY DEF ManagerInv, FlushAlone, Flushing, QuietServer, manager
<1>5. Vouched'
  BY DEF ManagerInv, Vouched, VouchedBy, Sound, Resetting, manager
<1>6. UnfitIsDown'
  BY DEF ManagerInv, UnfitIsDown, manager
<1>7. SetupSound'
  BY DEF ManagerInv, SetupSound, manager
<1> QED BY <1>1, <1>2, <1>3, <1>4, <1>5, <1>6, <1>7 DEF ManagerInv

LEMMA RequestKeeps ==
  ASSUME TypeOK, ManagerInv, (Request \/ CloseWindow) /\ UNCHANGED fit
  PROVE  ManagerTypes' /\ ManagerInv'
<1>1. ManagerTypes /\ "panel" \in Thread /\ "closer" \in Thread /\ app # 0
      /\ {"none", "start", "stop", "setup", "flush", "close"} \subseteq Job
      /\ {"start", "stop", "ensure_django", "tunnel"} \subseteq Place
  BY TypeParts, Names DEF Job, Place, Request, CloseWindow
<1>2. CASE \E r \in {<<"start", "start">>, <<"stop", "stop">>, <<"setup", "ensure_django">>,
                     <<"flush", "stop">>} :
             Begin("panel", r[1], r[2]) /\ Request /\ UNCHANGED <<state, tunnel, update>>
  <2>1. UNCHANGED <<state, app, fit, gap, ready>> /\ task["panel"].pc = "idle"
    BY <1>2 DEF Request, flags, update, Idle
  <2>2. PICK job \in {"start", "stop", "setup", "flush"}, pc \in {"start", "stop", "ensure_django"} :
          /\ Begin("panel", job, pc)
          /\ pc = "start" => job = "start"
          /\ pc = "stop" => job \in {"stop", "flush"}
          /\ job = "flush" => pc = "stop"
    BY <1>2
  <2>3. ManagerInv'
    BY <1>1, <2>1, <2>2, BeginKeeps DEF state
  <2>4. task' \in [Thread -> Task]
    BY <1>1, <2>2, BeginTo
  <2> QED BY <1>1, <2>1, <2>3, <2>4 DEF ManagerTypes, state
<1>3. CASE Request /\ UNCHANGED manager
  <2>1. UNCHANGED <<app, ready, gap>>
    BY <1>3 DEF Request, StartUpdate, flags, update
  <2> QED BY <1>1, <1>3, <2>1, AloneKeeps
<1>4. CASE CloseWindow
  <2>1. Begin("closer", "close", "tunnel") /\ task["closer"] = Idle /\ UNCHANGED <<state, app, fit, gap, ready>>
    BY <1>4 DEF CloseWindow, flags, update
  <2>2. ManagerInv'
    BY <1>1, <2>1, BeginKeeps DEF state, Idle
  <2> QED BY <1>1, <2>1, <2>2, BeginTo DEF ManagerTypes, state
<1> QED BY <1>2, <1>3, <1>4 DEF Request

LEMMA HandsOverKeeps ==
  ASSUME TypeOK, ManagerInv, HandsOver, UNCHANGED bounds
  PROVE  ManagerTypes' /\ ManagerInv'
<1>1. /\ ManagerTypes /\ "closer" \in Thread /\ "update" \in Job /\ "tunnel" \in Place
      /\ Begin("closer", "update", "tunnel") /\ task["closer"] = Idle
      /\ UNCHANGED <<state, app, fit, gap, ready>>
  BY TypeParts, Names DEF Job, Place, HandsOver, HandOver, bounds
<1>2. app # 0
  BY DEF HandsOver, HandOver, ManagerInv, NobodyHome
<1>3. ManagerInv'
  BY <1>1, <1>2, BeginKeeps DEF state, Idle
<1> QED BY <1>1, <1>3, BeginTo DEF ManagerTypes, state

LEMMA RequestStepKeeps ==
  ASSUME TypeOK, ManagerInv, RequestStep
  PROVE  ManagerTypes' /\ ManagerInv'
<1>1. /\ ManagerTypes /\ "panel" \in Thread /\ "closer" \in Thread
      /\ {"none", "start"} \subseteq Job /\ {"start", "idle", "stop"} \subseteq Place
      /\ UNCHANGED <<state, app, fit, gap, ready, updater, cleanup>>
  BY TypeParts, Names DEF Job, Place, RequestStep, Rebuilt, RequestEnds, CloserGoesOn, update, bounds, flags
<1>2. CASE Rebuilt \/ RequestEnds
  <2>1. /\ task["panel"].pc = "done"
        /\ Begin("panel", "start", "start") \/ Begin("panel", "none", "idle")
    BY <1>2 DEF Rebuilt, RequestEnds, Returns, At
  <2>2. app # 0
    BY <1>1, <2>1, Owned
  <2>3. CASE Begin("panel", "start", "start")
    BY <1>1, <2>1, <2>2, <2>3, BeginTo, BeginKeeps DEF state, ManagerTypes
  <2>4. CASE Begin("panel", "none", "idle")
    BY <1>1, <2>1, <2>2, <2>4, BeginTo, BeginKeeps DEF state, ManagerTypes
  <2> QED BY <2>1, <2>3, <2>4
<1>3. CASE CloserGoesOn
  <2>1. task["closer"].pc = "tunnel" /\ Goes("closer", "stop")
    BY <1>3 DEF CloserGoesOn, At
  <2>2. /\ task' \in [Thread -> Task] /\ Rest("closer") /\ task'["closer"].job = task["closer"].job
        /\ task'["closer"].pc = "stop" /\ task'["closer"].starting = task["closer"].starting
    BY <1>1, <2>1, GoesTo
  <2>3. PlaceOf("closer")' /\ VouchedBy("closer")'
    BY <1>1, <2>1, <2>2 DEF PlaceOf, VouchedBy, ManagerInv, Places, Installing
  <2>4. Resetting => Resetting'
    BY <2>2, Names DEF Resetting, Rest
  <2>5. "wipe" \notin gap => (setup'.ready => Sound' \/ Resetting')
    BY <1>1, <2>4 DEF ManagerInv, Vouched, Sound, state
  <2>6. Fine("closer")
    BY <1>1, <2>1, <2>2, <2>3, <2>5
       DEF Fine, Grows, ManagerInv, Vouched, FlushAlone, QuietServer, state
  <2>7. ManagerInv'
    BY <1>1, <2>1, <2>2, <2>6, OneMoves DEF Steady
  <2> QED BY <1>1, <2>2, <2>7 DEF ManagerTypes, state
<1> QED BY <1>2, <1>3 DEF RequestStep

LEMMA FlushFailsKeeps ==
  ASSUME TypeOK, ManagerInv, FlushFails, UNCHANGED <<app, fit, gap>>
  PROVE  ManagerTypes' /\ ManagerInv'
<1>1. /\ ManagerTypes /\ "panel" \in Thread /\ "none" \in Job /\ "idle" \in Place
      /\ UNCHANGED <<state, ready>> /\ Begin("panel", "none", "idle")
      /\ task["panel"].pc # "idle" \/ task["panel"].job # "none"
      /\ task["panel"].pc # "first_time_install"
  BY TypeParts, Names DEF Job, Place, FlushFails, flags, Returns, At
<1>2. app # 0
  BY <1>1, Owned
<1> QED BY <1>1, <1>2, BeginTo, BeginKeeps DEF state, ManagerTypes

\* The database is wiped: whatever was vouched for is in doubt until the rebuild.
LEMMA WipeKeeps ==
  ASSUME TypeOK, ManagerInv, Wipe, UNCHANGED <<update, bounds>>
  PROVE  ManagerTypes' /\ ManagerInv'
<1>1. /\ ManagerTypes /\ "panel" \in Thread /\ "rebuild" \in Job /\ "idle" \in Place
      /\ Begin("panel", "rebuild", "idle") /\ "wipe" \in gap'
      /\ UNCHANGED <<setup, desired, server, worker, event, creating, app, fit, ready>>
      /\ task["panel"].job = "flush" /\ task["panel"].pc = "done"
  BY TypeParts, Names DEF Job, Place, Wipe, flags, At, update, bounds
<1>2. /\ task' \in [Thread -> Task] /\ Rest("panel") /\ task'["panel"].job = "rebuild"
      /\ task'["panel"].pc = "idle" /\ task'["panel"].starting = FALSE
  BY <1>1, BeginTo
<1>3. db' \in Db
  BY <1>1 DEF Wipe, Stopped, ManagerTypes, Db
<1>4. Places'
  <2>1. PlaceOf("panel")'
    BY <1>2 DEF PlaceOf, Installing
  <2>2. \A u \in Thread : PlaceOf(u)'
    BY <1>2, <2>1 DEF Rest, ManagerInv, Places, PlaceOf
  <2> QED BY <1>2, <2>2, Names DEF ManagerInv, Places, Rest
<1>5. FlushAlone'
  <2>1. Flushing
    BY <1>1 DEF Flushing
  <2> QED BY <1>1, <1>2, <2>1 DEF FlushAlone, ManagerInv, Rest, QuietServer
<1>6. app # 0
  BY <1>1, Owned
<1>7. UnfitIsDown'
  BY <1>1, <1>2, Names DEF ManagerInv, UnfitIsDown, Rest
<1> QED BY <1>1, <1>2, <1>3, <1>4, <1>5, <1>6, <1>7
       DEF ManagerInv, ManagerTypes, NobodyHome, Vouched, SetupSound

\* The rebuild clears the signature.  With nobody in a setup, no step that vouched for
\* the old database is left.
LEMMA RebuildKeeps ==
  ASSUME TypeOK, ManagerInv, Rebuild, UNCHANGED <<update, bounds>>
  PROVE  ManagerTypes' /\ ManagerInv'
<1>1. /\ ManagerTypes /\ "panel" \in Thread /\ "rebuild" \in Job /\ "first_time_install" \in Place
      /\ Begin("panel", "rebuild", "first_time_install")
      /\ UNCHANGED <<setup, desired, server, worker, event, creating, app, fit, ready>>
      /\ task["panel"].job = "rebuild" /\ task["panel"].pc = "idle"
      /\ db' = [db EXCEPT !.sig = 0, !.up = TRUE]
  BY TypeParts, Names DEF Job, Place, Rebuild, flags, At, update, bounds
<1>2. /\ task' \in [Thread -> Task] /\ Rest("panel") /\ task'["panel"].job = "rebuild"
      /\ task'["panel"].pc = "first_time_install" /\ task'["panel"].starting = FALSE
  BY <1>1, BeginTo
<1>3. db' \in Db /\ db'.sig = 0
  BY <1>1 DEF ManagerTypes, Db
<1>4. Places'
  <2>1. PlaceOf("panel")'
    BY <1>2 DEF PlaceOf, Installing
  <2>2. \A u \in Thread : PlaceOf(u)'
    BY <1>2, <2>1 DEF Rest, ManagerInv, Places, PlaceOf
  <2> QED BY <1>2, <2>2, Names DEF ManagerInv, Places, Rest
<1>5. Flushing /\ FlushAlone'
  <2>1. Flushing
    BY <1>1 DEF Flushing
  <2> QED BY <1>1, <1>2, <2>1 DEF FlushAlone, ManagerInv, Rest, QuietServer
<1>6. app # 0
  BY <1>1, Owned
<1>7. UnfitIsDown'
  BY <1>1, <1>2, Names DEF ManagerInv, UnfitIsDown, Rest
<1>8. QuietServer /\ QuietServer' /\ \A t \in Thread : ~task[t].starting
  BY <1>1, <1>5 DEF ManagerInv, FlushAlone, QuietServer
<1>9. Vouched'
  <2>1. SUFFICES ASSUME "wipe" \notin gap' PROVE \A t \in Thread : VouchedBy(t)'
    BY <1>2, <1>3 DEF Vouched, Resetting
  <2>2. SetupFree("panel")
    BY <1>1, <2>1 DEF Rebuild, ManagerInv, Vouched
  <2>3. ASSUME NEW t \in Thread, t # "panel" PROVE VouchedBy(t)'
    <3>1. task[t].pc \notin Installing /\ task[t].pc # "spawn"
      BY <1>8, <2>2, <2>3 DEF SetupFree, ManagerInv, Places, PlaceOf
    <3> QED BY <1>2, <2>3, <3>1 DEF VouchedBy, Rest, Installing
  <2>4. VouchedBy("panel")'
    BY <1>2 DEF VouchedBy
  <2> QED BY <2>3, <2>4
<1>10. SetupSound'
  BY <1>8 DEF SetupSound, QuietServer
<1> QED BY <1>1, <1>2, <1>3, <1>4, <1>5, <1>6, <1>7, <1>9, <1>10
       DEF ManagerInv, ManagerTypes, NobodyHome

\* A process ends or begins.
LEMMA ProcessKeeps ==
  ASSUME TypeOK, ManagerInv, NEW boot \in {Idle, Booting}, Process(boot),
         db' \in {db, Stopped}, "wipe" \in gap => "wipe" \in gap',
         app' = 0 => boot = Idle, updater' = "idle", cleanup' = "none"
  PROVE  ManagerTypes' /\ ManagerInv'
<1>1. /\ task' = [t \in Thread |-> IF t = "boot" THEN boot ELSE Idle]
      /\ ~setup'.ready /\ server' = NoServer /\ ready' = FALSE
      /\ setup' \in [django : BOOLEAN, ready : BOOLEAN]
      /\ desired' = TRUE /\ worker' = All(FALSE) /\ event' = All(FALSE) /\ creating' = None
  BY DEF Process, Threads, Renewed, NotReady
<1>2. db' \in Db /\ db'.sig = db.sig /\ db'.admin = db.admin /\ db'.seeded = db.seeded
  BY TypeParts DEF Stopped, ManagerTypes, Db
<1>3. /\ boot \in Task /\ Idle \in Task
      /\ \A b \in {Idle, boot} : b.job \in {"none", "boot"} /\ b.pc \in {"idle", "ensure_django"} /\ ~b.starting
  <2>1. Idle \in Task
    BY DEF Idle, Task, Job, Place
  <2>2. Idle.job = "none" /\ Idle.pc = "idle" /\ ~Idle.starting
    BY DEF Idle
  <2>3. /\ Booting \in Task /\ Booting.job = "boot" /\ Booting.pc = "ensure_django"
        /\ Booting.starting = Idle.starting
    BY <2>1 DEF Booting, Task, Job, Place
  <2> QED BY <2>1, <2>2, <2>3
<1>4. ManagerTypes'
  BY <1>1, <1>2, <1>3 DEF ManagerTypes, NoServer, All, None
<1>5. /\ \A t \in Thread : /\ task'[t].job \in {"none", "boot"} /\ ~task'[t].starting
                           /\ task'[t].pc \in {"idle", "ensure_django"}
      /\ \A t \in Thread \ {"boot"} : task'[t].job = "none"
  BY <1>1, <1>3 DEF Idle
<1>6. Places'
  BY <1>5, Names DEF Places, PlaceOf, Installing
<1>7. NobodyHome'
  BY <1>1 DEF NobodyHome, Threads
<1>8. FlushAlone'
  BY <1>5, Names DEF FlushAlone, Flushing
<1>9. Vouched'
  BY <1>1, <1>2, <1>5, Names DEF ManagerInv, Vouched, VouchedBy
<1>10. UnfitIsDown'
  BY <1>1, <1>5, Names DEF UnfitIsDown, NoServer
<1>11. SetupSound'
  BY <1>1 DEF SetupSound, NoServer
<1> QED BY <1>4, <1>6, <1>7, <1>8, <1>9, <1>10, <1>11 DEF ManagerInv

LEMMA ProcessStepKeeps ==
  ASSUME TypeOK, ManagerInv, Open \/ Exit \/ Crash \/ PowerCut
  PROVE  ManagerTypes' /\ ManagerInv'
<1>1. CASE Open
  <2>1. Process(Booting) /\ UNCHANGED <<db, gap>> /\ app' # 0 /\ updater' = "idle" /\ cleanup' = "none"
    BY <1>1 DEF Open, AppOpens
  <2> QED BY <2>1, ProcessKeeps
<1>2. CASE Exit \/ Crash
  <2>1. Process(Idle) /\ UNCHANGED gap /\ db' \in {db, Stopped} /\ updater' = "idle" /\ cleanup' = "none"
    BY <1>2 DEF Exit, Crash, AppExits, AppEnds
  <2> QED BY <2>1, ProcessKeeps
<1>3. CASE PowerCut
  <2>1. Process(Idle) /\ db' \in {db, Stopped} /\ updater' = "idle" /\ cleanup' = "none" /\ gap \subseteq gap'
    BY <1>3 DEF PowerCut
  <2> QED BY <2>1, ProcessKeeps
<1> QED BY <1>1, <1>2, <1>3

LEMMA HelperStepKeeps ==
  ASSUME TypeOK, ManagerInv, HelperStep \/ HelperClicked
  PROVE  ManagerTypes' /\ ManagerInv'
<1>1. Opens /\ UNCHANGED bounds /\ (Launch \/ RollBack \/ CloseHelper)
  BY DEF HelperStep, HelperClicked
<1>2. (updater' = "idle" /\ cleanup' = "none") \/ UNCHANGED <<app, updater, cleanup>>
  BY <1>1 DEF Launch, RollBack, CloseHelper, AppOpens
<1>3. CASE app' = app
  <2>1. UNCHANGED <<manager, app, ready, gap, fit>>
    BY <1>1, <1>3 DEF Opens, flags, bounds
  <2> QED BY <1>2, <2>1, AloneKeeps DEF ManagerInv, NobodyHome
<1>4. CASE app' # app
  <2>1. PICK boot \in {Idle, Booting} : Process(boot) /\ (app' = 0 => boot = Idle) /\ UNCHANGED <<db, gap>>
    BY <1>1, <1>4 DEF Opens
  <2> QED BY <1>2, <1>4, <2>1, ProcessKeeps
<1> QED BY <1>3, <1>4

\* The updater and the tunnel work beside the manager.
LEMMA BesideKeeps ==
  ASSUME TypeOK, ManagerInv, TunnelStep \/ StageStep \/ UpdateStep \/ GivesUp
  PROVE  ManagerTypes' /\ ManagerInv'
<1>1. CASE TunnelStep
  BY <1>1, AloneKeeps DEF TunnelStep, update, flags, bounds
<1>2. CASE StageStep
  BY <1>2, AloneKeeps DEF StageStep, Stage, flags
<1>3. CASE GivesUp
  BY <1>3, AloneKeeps DEF GivesUp, Unhealthy, flags, bounds
<1>4. CASE UpdateStep
  <2>1. app' = app
    BY <1>4 DEF UpdateStep, NothingNew, WritePending, LaunchHelper, HelperReady, Waited, RemoveOldBackup,
           BackupCurrent, ActivateNew, StopWithError, Confirmed, CleanupPrevious, HandshakeFails, MarkStartedOk
  <2>2. app = 0 => UNCHANGED <<updater, cleanup>>
    <3>1. SUFFICES ASSUME app = 0 PROVE UNCHANGED <<updater, cleanup>>
      OBVIOUS
    <3>2. updater = "idle" /\ cleanup = "none" /\ ~ready
      BY <3>1 DEF ManagerInv, NobodyHome
    <3> QED BY <1>4, <3>2
            DEF UpdateStep, NothingNew, WritePending, LaunchHelper, HelperReady, Waited, RemoveOldBackup,
                BackupCurrent, ActivateNew, StopWithError, Confirmed, CleanupPrevious, HandshakeFails, Healthy
  <2>3. UNCHANGED <<manager, ready, gap, fit>>
    BY <1>4 DEF UpdateStep, flags, bounds
  <2> QED BY <2>1, <2>2, <2>3, AloneKeeps
<1> QED BY <1>1, <1>2, <1>3, <1>4

LEMMA FailsKeeps ==
  ASSUME TypeOK, ManagerInv, Fails
  PROVE  ManagerTypes' /\ ManagerInv'
<1>1. UNCHANGED fit
  BY DEF Fails, Event
<1>2. ASSUME NEW t \in Thread, SetupFails(t), UNCHANGED <<tunnel, update, flags, gap>>
      PROVE  ManagerTypes' /\ ManagerInv'
  BY <1>1, <1>2, SetupFailsStep DEF Steady, update, flags
<1>3. ASSUME NEW t \in Thread, BindTimeout(t), UNCHANGED <<tunnel, update, flags, gap>>
      PROVE  ManagerTypes' /\ ManagerInv'
  BY <1>1, <1>3, BindTimeoutStep DEF Steady, update, flags
<1>4. CASE ServerEnds /\ UNCHANGED <<tunnel, update, flags, gap>>
  <2>1. /\ UNCHANGED <<task, setup, db, desired, worker, event, creating>> /\ server' = NoServer
        /\ ManagerTypes /\ Steady
    BY <1>1, <1>4, TypeParts DEF ServerEnds, Steady, update, flags
  <2>2. ManagerInv'
    BY <2>1, ServerKeeps DEF QuietServer, NoServer
  <2> QED BY <2>1, <2>2 DEF ManagerTypes, NoServer
<1>5. CASE FlushFails /\ UNCHANGED <<update, gap>>
  BY <1>1, <1>5, FlushFailsKeeps DEF update
<1>6. CASE UNCHANGED <<manager, update, flags, gap>>
  BY <1>1, <1>6, AloneKeeps DEF update, flags
<1>7. CASE UpdateFails /\ UNCHANGED <<manager, tunnel, flags>> /\ gap \subseteq gap'
  <2>1. app # 0 /\ UNCHANGED <<app, cleanup, ready>>
    BY <1>7 DEF UpdateFails, ManagerInv, NobodyHome, flags
  <2> QED BY <1>1, <1>7, <2>1, AloneKeeps
<1>8. CASE (StopWithError \/ (MarkStartedFails /\ Healthy)) /\ UNCHANGED <<manager, tunnel, flags, gap>>
  <2>1. UNCHANGED <<app, ready, updater>> /\ (app = 0 => UNCHANGED cleanup)
    BY <1>8 DEF StopWithError, MarkStartedFails, Healthy, ManagerInv, NobodyHome, flags
  <2> QED BY <1>1, <1>8, <2>1, AloneKeeps
<1>9. CASE Crash \/ PowerCut
  BY <1>9, ProcessStepKeeps
<1> QED BY <1>2, <1>3, <1>4, <1>5, <1>6, <1>7, <1>8, <1>9 DEF Fails

LEMMA ManagerStep ==
  ASSUME TypeOK, ManagerInv, Next
  PROVE  ManagerTypes' /\ ManagerInv'
<1>1. "panel" \in Thread /\ "closer" \in Thread
  BY Names
<1>2. CASE Finite
  BY <1>1, <1>2, CallStepKeeps, RequestStepKeeps, WipeKeeps, RebuildKeeps, BesideKeeps, HelperStepKeeps,
     HandsOverKeeps, ProcessStepKeeps DEF Finite, FlushStep, ExitStep
<1>3. CASE Event /\ (Request \/ CloseWindow)
  BY <1>3, RequestKeeps DEF Event
<1> QED BY <1>2, <1>3, BootKeeps, ServerStepKeeps, HelperStepKeeps, FailsKeeps, ProcessStepKeeps DEF Next

-----------------------------------------------------------------------------
(* The types of the tunnel. *)

LEMMA StartOverTypes ==
  ASSUME TunnelTypes, NEW old \in Supervisor \union {0}, StartOver(old)
  PROVE  halt' \in BOOLEAN /\ thread' \in Supervisor \union {0} /\ sup' \in [Supervisor -> Ssh]
<1>1. CASE ~Dead(old)
  BY <1>1 DEF StartOver, TunnelTypes
<1>2. CASE Dead(old)
  <2>1. PICK s \in Unused : halt' = FALSE /\ thread' = s /\ sup' = [sup EXCEPT ![s] = [pc |-> "read", conf |-> 0]]
    BY <1>2 DEF StartOver
  <2>2. s \in Supervisor
    BY DEF Unused
  <2> QED BY <2>1, <2>2 DEF TunnelTypes, Ssh
<1> QED BY <1>1, <1>2

LEMMA ReturnedTypes ==
  ASSUME TunnelTypes, NEW c \in Caller
  PROVE  Returned(c) \in [Caller -> Call]
BY DEF Returned, TunnelTypes, Call, NoCall

LEMMA TunnelActions ==
  ASSUME TunnelTypes,
         \/ TunnelStart
         \/ \E s \in Supervisor : \/ Connect(s) \/ Ends(s) \/ Disconnect(s)
                                 \/ RestartAfterJoin(s) \/ RestartGivesUp(s)
         \/ \E c \in Caller : \/ Halt(c) \/ Joined(c) \/ Restarted(c) \/ JoinTimeout(c) \/ StopTunnel(c)
                              \/ \E on \in BOOLEAN : Save(c, on)
  PROVE  TunnelTypes'
<1>1. ASSUME TunnelStart PROVE TunnelTypes'
  BY <1>1, StartOverTypes DEF TunnelStart, TunnelTypes
<1>2. ASSUME NEW s \in Supervisor, Connect(s) PROVE TunnelTypes'
  BY <1>2 DEF Connect, TunnelTypes, Ssh
<1>3. ASSUME NEW s \in Supervisor, Ends(s) PROVE TunnelTypes'
  BY <1>3 DEF Ends, TunnelTypes, Ssh, Gone
<1>4. ASSUME NEW s \in Supervisor, RestartAfterJoin(s) PROVE TunnelTypes'
  <2> DEFINE old == IF thread = s THEN 0 ELSE thread
  <2>1. old \in Supervisor \union {0} /\ StartOver(old)
    BY <1>4 DEF TunnelTypes, RestartAfterJoin
  <2> HIDE DEF old
  <2> QED BY <1>4, <2>1, StartOverTypes DEF RestartAfterJoin, TunnelTypes
<1>5. ASSUME NEW s \in Supervisor, Disconnect(s) PROVE TunnelTypes'
  BY <1>5 DEF Disconnect, TunnelTypes, Ssh
<1>6. ASSUME NEW c \in Caller, Halt(c) PROVE TunnelTypes'
  <2>1. /\ call' = [call EXCEPT ![c].pc = "join", ![c].old = thread]
        /\ call[c] \in Call /\ call \in [Caller -> Call] /\ thread \in Supervisor \union {0}
    BY <1>6 DEF Halt, TunnelTypes
  <2>2. call'[c] = [pc |-> "join", old |-> thread, again |-> call[c].again]
    BY <2>1 DEF Call
  <2>3. call' = [d \in Caller |-> call'[d]] /\ \A d \in Caller \ {c} : call'[d] = call[d]
    BY <2>1
  <2>4. call'[c] \in Call
    BY <2>1, <2>2 DEF Call
  <2>5. \A d \in Caller : call'[d] \in Call
    BY <2>1, <2>3, <2>4
  <2>6. call' \in [Caller -> Call]
    BY <2>3, <2>5
  <2> QED BY <1>6, <2>6 DEF Halt, TunnelTypes
<1>7. ASSUME NEW c \in Caller, Joined(c) PROVE TunnelTypes'
  <2>1. call' \in [Caller -> Call]
    <3>1. CASE call[c].again
      <4>1. /\ call' = [call EXCEPT ![c].pc = "start", ![c].old = 0]
            /\ call[c] \in Call /\ call \in [Caller -> Call]
        BY <1>7, <3>1 DEF Joined, TunnelTypes
      <4>2. call'[c] = [pc |-> "start", old |-> 0, again |-> call[c].again]
        BY <4>1 DEF Call
      <4>3. call' = [d \in Caller |-> call'[d]] /\ \A d \in Caller \ {c} : call'[d] = call[d]
        BY <4>1
      <4>4. call'[c] \in Call
        BY <4>1, <4>2 DEF Call
      <4>5. \A d \in Caller : call'[d] \in Call
        BY <4>1, <4>3, <4>4
      <4> QED BY <4>3, <4>5
    <3>2. CASE ~call[c].again
      BY <1>7, <3>2, ReturnedTypes DEF Joined
    <3> QED BY <3>1, <3>2
  <2> QED BY <1>7, <2>1 DEF Joined, TunnelTypes
<1>8. ASSUME NEW c \in Caller, Restarted(c) PROVE TunnelTypes'
  BY <1>8, StartOverTypes, ReturnedTypes DEF Restarted, TunnelTypes
<1>9. ASSUME NEW c \in Caller, JoinTimeout(c) PROVE TunnelTypes'
  <2>1. call[c].old \in Supervisor
    BY <1>9 DEF JoinTimeout, Dead, Running
  <2> QED BY <1>9, <2>1, ReturnedTypes DEF JoinTimeout, HandedOver, TunnelTypes
<1>10. ASSUME NEW c \in Caller, StopTunnel(c) PROVE TunnelTypes'
  BY <1>10 DEF StopTunnel, TunnelTypes, Call
<1>11. ASSUME NEW c \in Caller, NEW on \in BOOLEAN, Save(c, on) PROVE TunnelTypes'
  BY <1>11 DEF Save, TunnelTypes, Call
<1>12. ASSUME NEW s \in Supervisor, RestartGivesUp(s) PROVE TunnelTypes'
  BY <1>12 DEF RestartGivesUp, TunnelTypes
<1> QED BY <1>1, <1>2, <1>3, <1>4, <1>5, <1>6, <1>7, <1>8, <1>9, <1>10, <1>11, <1>12

LEMMA QuietedTypes ==
  ASSUME TunnelTypes, Process(Idle) \/ Process(Booting)
  PROVE  TunnelTypes'
<1>1. Quieted /\ conf' = [conf EXCEPT !.saves = 0]
  BY DEF Process
<1>2. Nobody \in [Supervisor -> Ssh] /\ NoCalls \in [Caller -> Call]
  BY DEF Nobody, Gone, Ssh, NoCalls, NoCall, Call
<1> QED BY <1>1, <1>2 DEF Quieted, TunnelTypes

-----------------------------------------------------------------------------
(* The update. *)

LEMMA UpdateAlone ==
  ASSUME UpdateTypes, UpdateInv, UNCHANGED <<update, fit>>,
         gap \intersect {"power", "confirm"} \subseteq gap'
  PROVE  UpdateTypes' /\ UpdateInv'
<1>1. UpdateTypes' /\ Installs' /\ InstallKept' /\ UnfitRolledBack'
  BY DEF UpdateTypes, update, UpdateInv, Installs, InstallKept, HelperAt, UnfitRolledBack
<1>2. Phases'
  BY DEF UpdateInv, Phases, Marked, update
<1> QED BY <1>1, <1>2 DEF UpdateInv

\* The worker of the updater.
LEMMA WorkerActions ==
  ASSUME UpdateTypes, ManagerInv, UpdateInv, UNCHANGED gap,
         \/ (StartUpdate \/ NothingNew \/ WritePending \/ LaunchHelper \/ HandOver \/ HandshakeFails) /\ UNCHANGED fit
         \/ Stage,
         app # 0
  PROVE  UpdateTypes' /\ UpdateInv'
<1> USE Names
<1>1. ASSUME StartUpdate, UNCHANGED fit PROVE UpdateTypes' /\ UpdateInv'
  BY <1>1 DEF UpdateTypes, StartUpdate, files, UpdateInv, Installs, Phases, Marked, InstallKept, HelperAt,
              UnfitRolledBack
<1>2. ASSUME NothingNew, UNCHANGED fit PROVE UpdateTypes' /\ UpdateInv'
  BY <1>2 DEF UpdateTypes, NothingNew, files, UpdateInv, Installs, Phases, Marked, InstallKept, HelperAt,
              UnfitRolledBack
<1>3. ASSUME WritePending, UNCHANGED fit PROVE UpdateTypes' /\ UpdateInv'
  BY <1>3 DEF UpdateTypes, WritePending, files, UpdateInv, Installs, Phases, Marked, InstallKept, HelperAt,
              UnfitRolledBack
<1>4. ASSUME LaunchHelper, UNCHANGED fit PROVE UpdateTypes' /\ UpdateInv'
  BY <1>4 DEF UpdateTypes, LaunchHelper, files, Phase, UpdateInv, Installs, Phases, Marked, InstallKept,
              HelperAt, UnfitRolledBack
<1>5. ASSUME HandOver, UNCHANGED fit PROVE UpdateTypes' /\ UpdateInv'
  BY <1>5 DEF UpdateTypes, HandOver, files, UpdateInv, Installs, Phases, Marked, InstallKept, HelperAt,
              UnfitRolledBack
<1>6. ASSUME HandshakeFails, UNCHANGED fit PROVE UpdateTypes' /\ UpdateInv'
  BY <1>6 DEF UpdateTypes, HandshakeFails, Off, Phase, Dirs, UpdateInv, Installs, Phases, Marked,
              InstallKept, HelperAt, UnfitRolledBack
<1>7. ASSUME Stage PROVE UpdateTypes' /\ UpdateInv'
  <2>1. /\ app = 1 /\ app' = 1 /\ dir.install = 1 /\ helper' \in [pc : Phase, parent : BOOLEAN, own : BOOLEAN]
        /\ helper'.pc = helper.pc /\ helper'.own = FALSE
        /\ marker' = marker /\ last' = last /\ updater' = "staged" /\ cleanup' = cleanup
    BY <1>7 DEF UpdateTypes, Stage, UpdateInv, Installs
  <2>2. dir' \in Dirs /\ dir'.install = 1 /\ dir'.previous = dir.previous /\ dir'.stage = 2
    BY <1>7, <2>1 DEF UpdateTypes, Stage, Dirs
  <2>3. UpdateTypes' /\ Installs' /\ InstallKept' /\ UnfitRolledBack'
    BY <2>1, <2>2 DEF UpdateTypes, UpdateInv, Installs, InstallKept, UnfitRolledBack
  <2>4. Phases'
    BY <2>1, <2>2 DEF UpdateInv, Phases, Marked
  <2> QED BY <2>3, <2>4 DEF UpdateInv
<1> QED BY <1>1, <1>2, <1>3, <1>4, <1>5, <1>6, <1>7

\* A failed check may delete the marker of a version that has not confirmed itself: "confirm".
LEMMA UpdateFailsAction ==
  ASSUME UpdateTypes, ManagerInv, UpdateInv, UpdateFails, UNCHANGED fit,
         gap' = gap \union IF marker # 0 /\ marker = app THEN {"confirm"} ELSE {}
  PROVE  UpdateTypes' /\ UpdateInv'
<1>1. app # 0
  BY DEF UpdateFails, ManagerInv, NobodyHome
<1> QED BY <1>1, Names
        DEF UpdateTypes, UpdateFails, Dirs, UpdateInv, Installs, Phases, Marked, InstallKept, HelperAt,
            UnfitRolledBack

\* The helper up to the swap, and its errors.
LEMMA SwapActions ==
  ASSUME UpdateTypes, ManagerInv, UpdateInv, UNCHANGED <<fit, gap>>,
         HelperReady \/ Waited \/ RemoveOldBackup \/ BackupCurrent \/ ActivateNew \/ StopWithError
  PROVE  UpdateTypes' /\ UpdateInv'
<1> USE Names
<1>1. ASSUME HelperReady PROVE UpdateTypes' /\ UpdateInv'
  BY <1>1 DEF UpdateTypes, HelperReady, files, Off, Phase, UpdateInv, Installs, Phases, Marked, InstallKept,
              HelperAt, UnfitRolledBack
<1>2. ASSUME Waited PROVE UpdateTypes' /\ UpdateInv'
  BY <1>2 DEF UpdateTypes, Waited, HelperGoes, files, Phase, UpdateInv, Installs, Phases, Marked,
              InstallKept, HelperAt, UnfitRolledBack
<1>3. ASSUME RemoveOldBackup PROVE UpdateTypes' /\ UpdateInv'
  BY <1>3 DEF UpdateTypes, RemoveOldBackup, HelperGoes, Phase, Dirs, UpdateInv, Installs, Phases, Marked,
              InstallKept, HelperAt, UnfitRolledBack
<1>4. ASSUME BackupCurrent PROVE UpdateTypes' /\ UpdateInv'
  <2>1. /\ app = 0 /\ dir.install = 1 /\ helper.pc = "backup" /\ Marked
        /\ helper' \in [pc : Phase, parent : BOOLEAN, own : BOOLEAN] /\ helper'.pc = "activate" /\ helper'.own = helper.own
        /\ UNCHANGED <<app, marker, last, updater, cleanup>>
    BY <1>4 DEF UpdateTypes, BackupCurrent, HelperGoes, HelperAt, Phase, UpdateInv, Phases
  <2>2. dir' \in Dirs /\ dir'.install = 0 /\ dir'.previous = 1 /\ dir'.stage = dir.stage
    BY <1>4, <2>1 DEF UpdateTypes, BackupCurrent, Dirs
  <2>3. UpdateTypes' /\ Installs' /\ InstallKept' /\ UnfitRolledBack'
    BY <2>1, <2>2 DEF UpdateTypes, UpdateInv, Installs, InstallKept, HelperAt, UnfitRolledBack
  <2>4. Phases'
    BY <2>1, <2>2 DEF UpdateInv, Phases, Marked
  <2> QED BY <2>3, <2>4 DEF UpdateInv
<1>5. ASSUME ActivateNew PROVE UpdateTypes' /\ UpdateInv'
  BY <1>5 DEF UpdateTypes, ActivateNew, Staged, HelperGoes, Phase, Dirs, UpdateInv, Installs, Phases, Marked,
              InstallKept, HelperAt, UnfitRolledBack
<1>6. ASSUME StopWithError PROVE UpdateTypes' /\ UpdateInv'
  <2>1. /\ helper.pc \in {"remove", "backup", "activate", "launch"} /\ marker' = 0
        /\ UNCHANGED <<app, last, updater, cleanup>>
        /\ dir' = Restored /\ app \in {0, dir.install}
    BY <1>6 DEF StopWithError, UpdateInv, Installs
  <2>2. /\ dir' \in Dirs /\ dir'.install = 1 /\ dir'.stage = dir.stage
        /\ dir'.previous \in {0, dir.previous} /\ app' \in {0, dir'.install}
    <3>1. CASE helper.pc \in {"remove", "backup"}
      BY <2>1, <3>1 DEF Restored, BackedUp, UpdateTypes, UpdateInv, Phases
    <3>2. CASE helper.pc \in {"activate", "launch"}
      <4>1. dir.previous = 1 /\ app = 0 /\ dir' = [dir EXCEPT !.install = dir.previous, !.previous = 0]
        BY <2>1, <3>2 DEF Restored, BackedUp, UpdateInv, Phases
      <4> QED BY <2>1, <4>1 DEF Dirs, UpdateTypes
    <3> QED BY <2>1, <3>1, <3>2
  <2>3. helper' \in [pc : Phase, parent : BOOLEAN, own : BOOLEAN] /\ helper'.pc = "offer"
    <3>1. helper' = [Off EXCEPT !.pc = "offer"]
      BY <1>6, <2>2 DEF StopWithError
    <3>2. Off \in [pc : Phase, parent : BOOLEAN, own : BOOLEAN]
      BY DEF Off, Phase
    <3> QED BY <3>1, <3>2 DEF Phase
  <2>4. UpdateTypes' /\ Installs' /\ InstallKept' /\ UnfitRolledBack'
    BY <2>1, <2>2, <2>3 DEF UpdateTypes, UpdateInv, Installs, InstallKept, UnfitRolledBack
  <2>5. Phases'
    BY <2>2, <2>3 DEF Phases
  <2> QED BY <2>4, <2>5 DEF UpdateInv
<1> QED BY <1>1, <1>2, <1>3, <1>4, <1>5, <1>6

\* The helper after the swap: the new version, or the old one again.
LEMMA VerifyActions ==
  ASSUME UpdateTypes, ManagerInv, UpdateInv, UNCHANGED <<fit, gap>>,
         Launch \/ Confirmed \/ Unhealthy \/ RollBack \/ CloseHelper
  PROVE  UpdateTypes' /\ UpdateInv'
<1> USE Names
<1>1. ASSUME Launch PROVE UpdateTypes' /\ UpdateInv'
  BY <1>1 DEF UpdateTypes, Launch, AppOpens, files, Phase, Dirs, UpdateInv, Installs, Phases, Marked,
              InstallKept, HelperAt, UnfitRolledBack
<1>2. ASSUME Confirmed PROVE UpdateTypes' /\ UpdateInv'
  BY <1>2 DEF UpdateTypes, Confirmed, Off, files, Phase, UpdateInv, Installs, Phases, Marked, InstallKept,
              HelperAt, UnfitRolledBack
<1>3. ASSUME Unhealthy PROVE UpdateTypes' /\ UpdateInv'
  BY <1>3 DEF UpdateTypes, Unhealthy, HelperGoes, files, Phase, UpdateInv, Installs, Phases, Marked,
              InstallKept, HelperAt, UnfitRolledBack
<1>4. ASSUME RollBack PROVE UpdateTypes' /\ UpdateInv'
  <2>1. /\ helper.pc = "doomed" /\ marker' = 0 /\ last' = last /\ updater' = "idle" /\ cleanup' = "none"
        /\ dir.install = 2 /\ dir.previous \in {0, 1} /\ ("confirm" \notin gap => dir.previous = 1)
    BY <1>4 DEF UpdateTypes, Dirs, RollBack, AppOpens, HelperAt, UpdateInv, Installs, Phases
  <2>2. /\ dir' \in Dirs /\ dir'.stage = dir.stage /\ dir'.previous = 0
        /\ dir'.install = IF dir.previous = 0 THEN 2 ELSE 1
    <3>1. dir' = IF dir.previous = 0 THEN dir ELSE [dir EXCEPT !.install = dir.previous, !.previous = 0]
      BY <1>4, <2>1 DEF RollBack, Restored, BackedUp
    <3> QED BY <2>1, <3>1 DEF Dirs, UpdateTypes
  <2>3. /\ helper' \in [pc : Phase, parent : BOOLEAN, own : BOOLEAN]
        /\ helper'.pc \in {"repair", "off", "offer"}
        /\ app' \in {0, dir.previous}
    BY <1>4 DEF RollBack, AppOpens, Off, Phase
  <2>4. UpdateTypes' /\ Installs' /\ InstallKept' /\ UnfitRolledBack'
    BY <2>1, <2>2, <2>3 DEF UpdateTypes, UpdateInv, Installs, InstallKept, UnfitRolledBack
  <2>5. Phases'
    BY <2>2, <2>3 DEF Phases
  <2> QED BY <2>4, <2>5 DEF UpdateInv
<1>5. ASSUME CloseHelper PROVE UpdateTypes' /\ UpdateInv'
  BY <1>5 DEF UpdateTypes, CloseHelper, AppOpens, Off, files, Phase, Dirs, UpdateInv, Installs, Phases,
              Marked, InstallKept, HelperAt, UnfitRolledBack
<1> QED BY <1>1, <1>2, <1>3, <1>4, <1>5

\* A version that is up confirms itself, and drops the rollback files.
LEMMA ConfirmActions ==
  ASSUME UpdateTypes, ManagerInv, UpdateInv, UNCHANGED <<fit, gap>>,
         (MarkStartedOk /\ Healthy) \/ (MarkStartedFails /\ Healthy) \/ CleanupPrevious
  PROVE  UpdateTypes' /\ UpdateInv'
<1> USE Names
<1>1. ASSUME MarkStartedOk, Healthy PROVE UpdateTypes' /\ UpdateInv'
  <2>1. app # 0 /\ (app = 2 => fit)
    BY <1>1 DEF Healthy, ManagerInv, NobodyHome, UnfitIsDown
  <2> QED BY <1>1, <2>1 DEF UpdateTypes, MarkStartedOk, Keeps, UpdateInv, Installs, Phases, Marked,
                            InstallKept, HelperAt, UnfitRolledBack
<1>2. ASSUME MarkStartedFails PROVE UpdateTypes' /\ UpdateInv'
  BY <1>2 DEF UpdateTypes, MarkStartedFails, Keeps, UpdateInv, Installs, Phases, Marked, InstallKept,
              HelperAt, UnfitRolledBack
<1>3. ASSUME CleanupPrevious PROVE UpdateTypes' /\ UpdateInv'
  <2>1. app # 0
    BY <1>3 DEF CleanupPrevious, ManagerInv, NobodyHome
  <2> QED BY <1>3, <2>1 DEF UpdateTypes, CleanupPrevious, Settled, Dirs, UpdateInv, Installs, Phases, Marked,
                            InstallKept, HelperAt, UnfitRolledBack
<1> QED BY <1>1, <1>2, <1>3

LEMMA ProcessActions ==
  ASSUME UpdateTypes, ManagerInv, UpdateInv, UNCHANGED fit, Open \/ Exit \/ Crash \/ PowerCut
  PROVE  UpdateTypes' /\ UpdateInv'
<1> USE Names
<1>1. ASSUME Open PROVE UpdateTypes' /\ UpdateInv'
  BY <1>1 DEF UpdateTypes, Open, AppOpens, files, Dirs, UpdateInv, Installs, Phases, Marked, InstallKept,
              HelperAt, UnfitRolledBack
<1>2. ASSUME AppEnds, UNCHANGED <<files, gap>> PROVE UpdateTypes' /\ UpdateInv'
  <2>1. /\ app' = 0 /\ updater' = "idle" /\ cleanup' = "none"
        /\ UNCHANGED <<dir, marker, last, gap, fit>>
        /\ helper' \in [pc : Phase, parent : BOOLEAN, own : BOOLEAN] /\ helper'.pc = helper.pc /\ helper'.own = helper.own
    BY <1>2 DEF UpdateTypes, AppEnds, files
  <2>2. UpdateTypes' /\ Installs' /\ InstallKept' /\ UnfitRolledBack'
    BY <2>1 DEF UpdateTypes, UpdateInv, Installs, InstallKept, HelperAt, UnfitRolledBack
  <2>3. Phases'
    BY <2>1 DEF UpdateInv, Phases, Marked
  <2> QED BY <2>2, <2>3 DEF UpdateInv
<1>3. ASSUME PowerCut PROVE UpdateTypes' /\ UpdateInv'
  BY <1>3 DEF UpdateTypes, PowerCut, Off, files, Phase, Dirs, UpdateInv, Installs, Phases, Marked,
              InstallKept, HelperAt, UnfitRolledBack
<1> QED BY <1>1, <1>2, <1>3 DEF Exit, Crash, AppExits

\* Every step, as the updater sees it.
LEMMA UpdaterStep ==
  ASSUME TypeOK, ManagerInv, UpdateInv, Next
  PROVE  UpdateTypes' /\ UpdateInv'
<1>1. UpdateTypes
  BY TypeParts
<1>2. CASE UNCHANGED <<update, fit>> /\ gap \intersect {"power", "confirm"} \subseteq gap'
  BY <1>1, <1>2, UpdateAlone
<1>3. CASE BootStep \/ ServerStep \/ CallStep("panel") \/ CallStep("closer") \/ RequestStep \/ FlushStep \/ TunnelStep
  <2>1. UNCHANGED <<update, fit>>
    BY <1>3 DEF BootStep, ServerStep, CallStep, RequestStep, FlushStep, TunnelStep, bounds
  <2>2. gap \ {"wipe"} \subseteq gap'
    BY <1>3 DEF BootStep, ServerStep, CallStep, RequestStep, FlushStep, TunnelStep, Wipe, Rebuild
  <2> QED BY <1>2, <2>1, <2>2
<1>4. CASE StageStep
  <2>1. app # 0
    BY <1>4 DEF StageStep, Stage
  <2> QED BY <1>1, <1>4, <2>1, WorkerActions DEF StageStep
<1>5. CASE UpdateStep
  <2>1. UNCHANGED <<fit, gap>>
    BY <1>5 DEF UpdateStep, bounds
  <2>2. CASE NothingNew \/ WritePending \/ LaunchHelper \/ HandshakeFails
    <3>1. app # 0
      BY <2>2 DEF NothingNew, WritePending, LaunchHelper, HandshakeFails, ManagerInv, NobodyHome
    <3> QED BY <1>1, <2>1, <2>2, <3>1, WorkerActions
  <2>3. CASE HelperReady \/ Waited \/ RemoveOldBackup \/ BackupCurrent \/ ActivateNew \/ StopWithError
    BY <1>1, <2>1, <2>3, SwapActions
  <2>4. CASE Confirmed
    BY <1>1, <2>1, <2>4, VerifyActions
  <2>5. CASE CleanupPrevious \/ (MarkStartedOk /\ Healthy)
    BY <1>1, <2>1, <2>5, ConfirmActions
  <2> QED BY <1>5, <2>2, <2>3, <2>4, <2>5 DEF UpdateStep
<1>6. CASE HelperStep \/ HelperClicked \/ GivesUp
  <2>1. UNCHANGED <<fit, gap>> /\ (Launch \/ RollBack \/ CloseHelper \/ Unhealthy)
    BY <1>6 DEF HelperStep, HelperClicked, GivesUp, Opens, bounds
  <2> QED BY <1>1, <2>1, VerifyActions
<1>7. CASE ExitStep
  <2>1. CASE HandsOver /\ UNCHANGED bounds
    <3>1. HandOver /\ UNCHANGED <<fit, gap>> /\ app # 0
      BY <2>1 DEF HandsOver, HandOver, bounds, ManagerInv, NobodyHome
    <3> QED BY <1>1, <3>1, WorkerActions
  <2>2. CASE Exit /\ UNCHANGED bounds
    BY <1>1, <2>2, ProcessActions DEF bounds
  <2> QED BY <1>7, <2>1, <2>2 DEF ExitStep
<1>8. CASE Event /\ (Request \/ CloseWindow)
  <2>1. UNCHANGED <<fit, gap>> /\ app # 0
    BY <1>8 DEF Event, Request, CloseWindow
  <2>2. CASE UNCHANGED update
    BY <1>2, <2>1, <2>2
  <2>3. CASE StartUpdate
    BY <1>1, <2>1, <2>3, WorkerActions
  <2> QED BY <1>8, <2>2, <2>3 DEF Request, CloseWindow
<1>9. CASE Open /\ UNCHANGED bounds
  BY <1>1, <1>9, ProcessActions DEF bounds
<1>10. CASE Fails
  <2>1. UNCHANGED fit
    BY <1>10 DEF Fails, Event
  <2>2. CASE UNCHANGED <<update, gap>>
    BY <1>2, <2>1, <2>2
  <2>3. CASE UpdateFails /\ gap' = gap \union IF marker # 0 /\ marker = app THEN {"confirm"} ELSE {}
    BY <1>1, <2>1, <2>3, UpdateFailsAction
  <2>4. CASE StopWithError /\ UNCHANGED gap
    BY <1>1, <2>1, <2>4, SwapActions
  <2>5. CASE MarkStartedFails /\ Healthy /\ UNCHANGED gap
    BY <1>1, <2>1, <2>5, ConfirmActions
  <2>6. CASE Crash \/ PowerCut
    BY <1>1, <2>1, <2>6, ProcessActions
  <2> QED BY <1>10, <2>2, <2>3, <2>4, <2>5, <2>6 DEF Fails
<1> QED BY <1>3, <1>4, <1>5, <1>6, <1>7, <1>8, <1>9, <1>10 DEF Next, Finite

\* Every step, as the tunnel sees it.
LEMMA TunnelTyped ==
  ASSUME TypeOK, Next
  PROVE  TunnelTypes'
<1>1. TunnelTypes /\ "panel" \in Caller /\ "closer" \in Caller
  BY TypeParts, Names
<1>2. CASE UNCHANGED tunnel
  BY <1>1, <1>2 DEF tunnel, TunnelTypes
<1>3. CASE Process(Idle) \/ Process(Booting)
  BY <1>1, <1>3, QuietedTypes
<1>4. CASE TunnelStep
  BY <1>1, <1>4, TunnelActions DEF TunnelStep
<1>5. CASE Open \/ Exit \/ Crash \/ PowerCut \/ HelperStep \/ HelperClicked
  BY <1>2, <1>3, <1>5 DEF Open, Exit, Crash, AppExits, PowerCut, HelperStep, HelperClicked, Opens
<1>6. CASE HandsOver \/ CloseWindow \/ Request
  <2>1. CASE StopTunnel("closer")
    BY <1>1, <2>1, TunnelActions
  <2>2. CASE \E on \in BOOLEAN : Save("panel", on)
    BY <1>1, <2>2, TunnelActions
  <2> QED BY <1>2, <1>6, <2>1, <2>2 DEF HandsOver, CloseWindow, Request
<1>7. CASE BootStep
  <2>1. CASE TunnelStart
    BY <1>1, <2>1, TunnelActions
  <2> QED BY <1>2, <1>7, <2>1 DEF BootStep, CallStep, BootRetries, BootGoesOn, Watch, WatchStarts, WatchEnsures
<1>8. CASE Fails
  <2>1. CASE \E s \in Supervisor : Disconnect(s)
    BY <1>1, <2>1, TunnelActions
  <2>2. CASE \E c \in Caller : JoinTimeout(c)
    BY <1>1, <2>2, TunnelActions
  <2> QED BY <1>2, <1>5, <1>8, <2>1, <2>2 DEF Fails, FlushFails
<1>9. CASE ServerStep \/ CallStep("panel") \/ CallStep("closer") \/ RequestStep \/ FlushStep \/ StageStep
           \/ UpdateStep \/ GivesUp
  BY <1>2, <1>9 DEF ServerStep, CallStep, RequestStep, Rebuilt, RequestEnds, CloserGoesOn, FlushStep, Wipe,
                    Rebuild,
     StageStep, UpdateStep, GivesUp
<1> QED BY <1>4, <1>5, <1>6, <1>7, <1>8, <1>9 DEF Next, Finite, ExitStep

LEMMA FlagsTyped ==
  ASSUME TypeOK, Next
  PROVE  FlagTypes'
<1>1. FlagTypes /\ task \in [Thread -> Task] /\ "boot" \in Thread
  BY TypeParts, Names DEF ManagerTypes
<1>2. fit' \in BOOLEAN /\ events' \in Nat
  <2>1. UNCHANGED bounds \/ (UNCHANGED fit /\ events' = events + 1) \/ (fit' \in BOOLEAN /\ UNCHANGED events)
    BY DEF Next, Event, Fails, Finite, BootStep, ServerStep, CallStep, RequestStep, FlushStep, TunnelStep,
           StageStep,
       UpdateStep, HelperStep, HelperClicked, ExitStep, GivesUp
  <2> QED BY <1>1, <2>1 DEF FlagTypes, bounds
<1>3. gap' \subseteq Gaps
  BY <1>1 DEF FlagTypes, Gaps, Next, Event, Fails, Finite, BootStep, ServerStep, CallStep, RequestStep,
              FlushStep, TunnelStep,
     StageStep, UpdateStep, HelperStep, HelperClicked, ExitStep, GivesUp, Open, Opens, Exit, Crash, AppExits,
     PowerCut,
     HandsOver, Request, CloseWindow, Wipe, Rebuild
<1>4. latch' \in BOOLEAN /\ ready' \in BOOLEAN
  <2>1. ready' = (ready \/ (task["boot"].job = "watch" /\ task["boot"].res)) => ready' \in BOOLEAN
    BY <1>1 DEF Task, FlagTypes
  <2> QED BY <1>1, <2>1
          DEF FlagTypes, flags, Next, Event, Fails, Finite, BootStep, ServerStep, CallStep, RequestStep,
              FlushStep, TunnelStep,
              StageStep, UpdateStep, HelperStep, HelperClicked, ExitStep, GivesUp, Open, Opens, Exit, Crash,
              AppExits,
              PowerCut, Process, HandsOver, Request, CloseWindow, Wipe, Rebuild, FlushFails, BootRetries,
              BootGoesOn, Watch,
              WatchStarts, WatchEnsures, Rebuilt, RequestEnds, CloserGoesOn
<1> QED BY <1>2, <1>3, <1>4 DEF FlagTypes

\* A kind of worker: who is about to create one has seen that there is none, and holds the lock.
LEMMA OneWorkerStep ==
  ASSUME TypeOK, OneWorker, Next
  PROVE  OneWorker'
<1>1. worker \in [Kind -> BOOLEAN] /\ creating \in Kind \union {None}
  BY TypeParts DEF ManagerTypes
<1>2. CASE UNCHANGED <<worker, creating>>
  BY <1>2 DEF OneWorker
<1>3. CASE creating' = None
  BY <1>3 DEF OneWorker
<1>4. ASSUME NEW t \in Thread, CallStep(t) PROVE OneWorker'
  <2>1. CASE EnsureWorker(t)
    BY <2>1, <1>2 DEF EnsureWorker, Missing, OneWorker
  <2>2. CASE ~EnsureWorker(t)
    BY <1>2, <1>4, <2>2 DEF CallStep, EnsureDjango, FirstTimeInstall, StartPostgres, Load, Check, Install,
                            Unreachable,
       SetupFails, Sign, Start, Spawn, Bound, Ensured, Stop, Join, Quit
  <2> QED BY <2>1, <2>2
<1>5. CASE ServerStep
  <2>1. CASE EnsureHeartbeat
    BY <2>1 DEF EnsureHeartbeat, Missing, OneWorker
  <2>2. ASSUME NEW k \in Kind, WorkerStops(k) PROVE OneWorker'
    BY <1>1, <2>2 DEF WorkerStops, OneWorker
  <2> QED BY <1>2, <1>3, <1>5, <2>1, <2>2 DEF ServerStep, Create, Binds, ServerEnds
<1>6. CASE Process(Idle) \/ Process(Booting)
  BY <1>3, <1>6 DEF Process, Renewed
<1>7. CASE Open \/ Exit \/ Crash \/ PowerCut \/ HelperStep \/ HelperClicked
  BY <1>2, <1>6, <1>7 DEF Open, Exit, Crash, AppExits, PowerCut, HelperStep, HelperClicked, Opens, manager
<1>8. CASE BootStep
  BY <1>2, <1>4, <1>8, Names DEF BootStep, BootRetries, BootGoesOn, Watch, WatchStarts, WatchEnsures, state
<1>9. CASE Fails
  BY <1>2, <1>7, <1>9 DEF Fails, SetupFails, ServerEnds, BindTimeout, FlushFails, state, manager
<1>10. CASE RequestStep \/ FlushStep \/ TunnelStep \/ StageStep \/ UpdateStep \/ GivesUp \/ HandsOver \/ Request \/ CloseWindow
  BY <1>2, <1>10 DEF RequestStep, Rebuilt, RequestEnds, CloserGoesOn, FlushStep, Wipe, Rebuild, TunnelStep,
                     StageStep,
     UpdateStep, GivesUp, HandsOver, Request, CloseWindow, state, manager
<1> QED BY <1>4, <1>5, <1>7, <1>8, <1>9, <1>10, Names DEF Next, Finite, ExitStep

-----------------------------------------------------------------------------
(* The theorems. *)

LEMMA InitHolds == Init => IInv
<1> SUFFICES ASSUME Init PROVE IInv
  OBVIOUS
<1>1. TypeOK
  <2>1. /\ setup = NotReady /\ desired = TRUE /\ server = NoServer /\ worker = All(FALSE) /\ event = All(FALSE)
        /\ creating = None /\ task = Threads(Idle)
        /\ db = [up |-> FALSE, schema |-> 0, admin |-> FALSE, seeded |-> FALSE, sig |-> 0]
    BY DEF Init, Fresh
  <2>2. Idle \in Task
    BY DEF Idle, Task, Job, Place
  <2>3. ManagerTypes
    BY <2>1, <2>2 DEF ManagerTypes, NotReady, NoServer, All, Threads, Db
  <2>4. TunnelTypes
    BY DEF Init, Quiet, TunnelTypes, Nobody, Gone, Ssh, NoCalls, NoCall, Call
  <2>5. UpdateTypes
    BY Names DEF Init, Installed, UpdateTypes, Dirs, Off, Phase
  <2>6. FlagTypes
    BY DEF Init, FlagTypes
  <2> QED BY <2>3, <2>4, <2>5, <2>6, TypeParts
<1>2. /\ app = 0 /\ task = Threads(Idle) /\ server.thread = "dead" /\ ~setup.ready /\ ~ready /\ creating = None
      /\ updater = "idle" /\ cleanup = "none" /\ db.sig = 0 /\ helper.pc = "off" /\ dir.install = 1
      /\ dir.previous = 0 /\ dir.stage = 0 /\ marker = 0
  BY DEF Init, Fresh, NoServer, NotReady, Installed, Off
<1>3. \A t \in Thread : task[t].job = "none" /\ task[t].pc = "idle" /\ ~task[t].starting
  BY <1>2 DEF Threads, Idle
<1>4. ManagerInv
  BY <1>2, <1>3, Names DEF ManagerInv, Places, PlaceOf, NobodyHome, FlushAlone, Flushing, Vouched, VouchedBy,
                           UnfitIsDown,
     SetupSound, Installing
<1>5. UpdateInv
  BY <1>2 DEF UpdateInv, Installs, Phases, InstallKept, UnfitRolledBack
<1> QED BY <1>1, <1>2, <1>4, <1>5 DEF IInv, OneWorker

LEMMA StepHolds == IInv /\ [Next]_vars => IInv'
<1> SUFFICES ASSUME IInv, [Next]_vars PROVE IInv'
  OBVIOUS
<1>1. CASE Next
  <2>1. ManagerTypes' /\ ManagerInv'
    BY <1>1, ManagerStep DEF IInv
  <2>2. UpdateTypes' /\ UpdateInv'
    BY <1>1, UpdaterStep DEF IInv
  <2>3. TunnelTypes' /\ FlagTypes' /\ OneWorker'
    BY <1>1, TunnelTyped, FlagsTyped, OneWorkerStep DEF IInv
  <2>4. TypeOK'
    BY <2>1, <2>2, <2>3, TypeParts
       DEF TypeOK, ManagerTypes, TunnelTypes, UpdateTypes, FlagTypes, Task, Call, Ssh, Dirs, Db
  <2> QED BY <2>1, <2>2, <2>3, <2>4 DEF IInv
<1>2. CASE UNCHANGED vars
  <2>1. TypeOK'
    BY <1>2 DEF vars, manager, tunnel, update, flags, bounds, IInv, TypeOK
  <2>2. ManagerInv'
    BY <1>2, AloneKeeps DEF vars, manager, update, flags, bounds, IInv
  <2>3. UpdateInv'
    BY <1>2, UpdateAlone, TypeParts DEF vars, bounds, IInv
  <2>4. OneWorker'
    BY <1>2 DEF vars, manager, IInv, OneWorker
  <2> QED BY <2>1, <2>2, <2>3, <2>4 DEF IInv
<1> QED BY <1>1, <1>2

\* The parts keep each other: the manager knows its database by the updater's version, the
\* updater knows a version fit by the manager's ready flag.
THEOREM Inductive == Spec => []IInv
BY InitHolds, StepHolds, PTL DEF Spec

\* Every variable of the launcher, its manager, tunnel and updater keeps its type.
THEOREM DesktopTypes == Spec => []TypeOK
<1>1. IInv => TypeOK
  BY DEF IInv
<1> QED BY <1>1, Inductive, PTL

\* The tills are only served from a database of the running version with its admin and the
\* data of the first start, whatever setups, stops, failures and rollbacks come between.
THEOREM ServedFromSoundDatabase == Spec => []SetupSound
<1>1. IInv => SetupSound
  BY DEF IInv, ManagerInv
<1> QED BY <1>1, Inductive, PTL

\* No kind of worker ever has two threads, whoever revives them.
THEOREM OneWorkerOfAKind == Spec => []OneWorker
<1>1. IInv => OneWorker
  BY DEF IInv
<1> QED BY <1>1, Inductive, PTL

\* As long as the helper may have to roll back, it has what it would put back.
THEOREM RollbackIsKept == Spec => []RollbackKept
<1>1. IInv => RollbackKept
  BY DEF IInv, UpdateInv, Phases, RollbackKept, Restorable, HelperAt
<1> QED BY <1>1, Inductive, PTL

\* Whatever step of the swap fails, the machine has a launcher when the helper is done.
THEOREM InstallIsKept == Spec => []InstallKept
<1>1. IInv => InstallKept
  BY DEF IInv, UpdateInv
<1> QED BY <1>1, Inductive, PTL

\* A version that cannot serve does not outlive its helper.
THEOREM UnfitIsRolledBack == Spec => []UnfitRolledBack
<1>1. IInv => UnfitRolledBack
  BY DEF IInv, UpdateInv
<1> QED BY <1>1, Inductive, PTL
=============================================================================
