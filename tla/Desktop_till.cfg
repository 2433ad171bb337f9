SPECIFICATION Spec
CONSTANTS
  Thread = {"boot", "panel", "closer"}
  Caller = {"panel", "closer"}
  Kind = {"sync", "heartbeat"}
  Supervisor = {1, 2}
  Version = {1, 2}
  MaxEvents = 2
INVARIANTS SetupSound OneWorker RollbackKept InstallKept UnfitRolledBack
PROPERTIES EventuallyServing TunnelFollows
CHECK_DEADLOCK FALSE
