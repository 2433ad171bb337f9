--------------------------- MODULE SupportTunnel ---------------------------
(***************************************************************************)
(* The support tunnel (desktop/support_tunnel.py): a supervisor thread     *)
(* keeps one ssh process connected with the settings it read when it       *)
(* started it.  A save of the settings restarts the supervisor; when the   *)
(* old one outlasts the join, a thread of its own waits for it, half a     *)
(* minute at most, and starts the next one.  _STOP is one event for all supervisors, and stop sets it *)
(* and joins without the lock that start holds.                            *)
(***************************************************************************)
EXTENDS Naturals

CONSTANTS
  Caller,      \* the threads that call restart or stop
  Supervisor   \* names for the supervisor threads, positive numbers

ASSUME SupervisorNames == Supervisor \subseteq Nat \ {0}

VARIABLES
  conf,      \* SUPPORT_TUNNEL_ENABLED, and how often the settings were saved
  halt,      \* _STOP
  thread,    \* _THREAD, 0 for None
  sup,       \* Supervisor: pc, and the settings its ssh was started with
  call,      \* Caller: pc, the thread it captured, whether it restarts
  rejoin     \* the threads that restart_after_join waits for

tunnel == <<conf, halt, thread, sup, call, rejoin>>

Gone == [pc |-> "dead", conf |-> 0]
NoCall == [pc |-> "idle", old |-> 0, again |-> FALSE]

Nobody == [s \in Supervisor |-> Gone]
NoCalls == [c \in Caller |-> NoCall]

\* The tunnel as the process starts.
Quiet == halt = FALSE /\ thread = 0 /\ sup = Nobody /\ call = NoCalls /\ rejoin = {}
Quieted == halt' = FALSE /\ thread' = 0 /\ sup' = Nobody /\ call' = NoCalls /\ rejoin' = {}

Running == {s \in Supervisor : sup[s].pc # "dead"}
Dead(s) == s \notin Running
Unused == {s \in Supervisor : Dead(s) /\ s # thread /\ s \notin rejoin
                                /\ \A c \in Caller : call[c].old # s}

\* start: exactly one fresh supervisor, unless _THREAD is alive.  Bound: the names of
\* threads; one that has ended and that nobody refers to is used again.
StartOver(old) ==
  IF ~Dead(old) THEN thread' = old /\ UNCHANGED <<halt, sup>>
  ELSE \E s \in Unused :
         /\ \A u \in Unused : s <= u
         /\ halt' = FALSE
         /\ thread' = s
         /\ sup' = [sup EXCEPT ![s] = [pc |-> "read", conf |-> 0]]

-----------------------------------------------------------------------------
(* _supervisor. *)

\* A pass: the settings are read, and ssh is started with them.
Connect(s) ==
  /\ sup[s].pc \in {"read", "off"} /\ ~halt
  /\ sup' = [sup EXCEPT ![s] = IF conf.on THEN [pc |-> "ssh", conf |-> conf.saves]
                                          ELSE [pc |-> "off", conf |-> 0]]
  /\ sup' # sup
  /\ UNCHANGED <<conf, halt, thread, call, rejoin>>

\* ssh exits, or cannot be started: the next pass comes after a delay.
Disconnect(s) ==
  /\ sup[s].pc = "ssh"
  /\ sup' = [sup EXCEPT ![s] = [pc |-> "read", conf |-> 0]]
  /\ UNCHANGED <<conf, halt, thread, call, rejoin>>

\* The supervisor sees _STOP, terminates its ssh and ends.
Ends(s) ==
  /\ ~Dead(s) /\ halt
  /\ sup' = [sup EXCEPT ![s] = Gone]
  /\ UNCHANGED <<conf, halt, thread, call, rejoin>>

-----------------------------------------------------------------------------
(* start, stop and restart. *)

TunnelStart == StartOver(thread) /\ UNCHANGED <<conf, call, rejoin>>

\* set_enabled and the other saves: the settings, then restart.
Save(c, on) ==
  /\ call[c].pc = "idle"
  /\ conf' = [on |-> on, saves |-> conf.saves + 1]
  /\ call' = [call EXCEPT ![c] = [pc |-> "stop", old |-> 0, again |-> TRUE]]
  /\ UNCHANGED <<halt, thread, sup, rejoin>>

StopTunnel(c) ==
  /\ call[c].pc = "idle"
  /\ call' = [call EXCEPT ![c] = [pc |-> "stop", old |-> 0, again |-> FALSE]]
  /\ UNCHANGED <<conf, halt, thread, sup, rejoin>>

\* _STOP is set, the thread captured and its ssh told to terminate.
Halt(c) ==
  /\ call[c].pc = "stop"
  /\ halt' = TRUE
  /\ call' = [call EXCEPT ![c].pc = "join", ![c].old = thread]
  /\ UNCHANGED <<conf, thread, sup, rejoin>>

Returned(c) == [call EXCEPT ![c] = NoCall]

\* The thread has ended: _THREAD is cleared, and restart starts anew.
Joined(c) ==
  /\ call[c].pc = "join" /\ Dead(call[c].old)
  /\ thread' = 0
  /\ call' = IF call[c].again THEN [call EXCEPT ![c].pc = "start", ![c].old = 0] ELSE Returned(c)
  /\ UNCHANGED <<conf, halt, sup, rejoin>>

Restarted(c) ==
  /\ call[c].pc = "start"
  /\ StartOver(thread)
  /\ call' = Returned(c)
  /\ UNCHANGED <<conf, rejoin>>

\* Mutant: a restart that cannot join gives up.
HandedOverNever(c) == {}
HandedOver(c) == IF call[c].again THEN {call[c].old} ELSE {}

\* The thread outlasts the join: the handoff goes on in the background.
JoinTimeout(c) ==
  /\ call[c].pc = "join" /\ ~Dead(call[c].old)
  /\ rejoin' = rejoin \union HandedOver(c)
  /\ call' = Returned(c)
  /\ UNCHANGED <<conf, halt, thread, sup>>

\* restart_after_join: the old supervisor has ended.
RestartAfterJoin(s) ==
  /\ s \in rejoin /\ Dead(s)
  /\ rejoin' = rejoin \ {s}
  /\ StartOver(IF thread = s THEN 0 ELSE thread)
  /\ UNCHANGED <<conf, call>>

\* It has not, after thirty seconds more: its calls of whoami and icacls, ten seconds each, do
\* not look at _STOP.  The restart is not attempted.
RestartGivesUp(s) ==
  /\ s \in rejoin /\ ~Dead(s)
  /\ rejoin' = rejoin \ {s}
  /\ UNCHANGED <<conf, halt, thread, sup, call>>
=============================================================================
