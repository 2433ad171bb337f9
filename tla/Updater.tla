------------------------------ MODULE Updater ------------------------------
(***************************************************************************)
(* The self-update (desktop/updater.py) and the helper that swaps the      *)
(* directories while no launcher runs (desktop/update_helper.ps1).  The    *)
(* worker stages a signed version beside the install, writes the pending   *)
(* marker and hands over to the helper once its window is up; the helper   *)
(* waits for the launcher to exit, moves the install to .previous and the  *)
(* stage to the install, opens the new version and gives it time to delete *)
(* the marker; if it does not, the helper puts .previous back.             *)
(*                                                                         *)
(* The moves are tried up to twelve times, and a file that is open makes   *)
(* them fail; the move that restores .previous is taken to succeed. Three  *)
(* durations are taken for granted: the launcher forces its exit (20 s)    *)
(* before the helper stops waiting for it (45 s); the rollback files are   *)
(* kept (30 s) longer than a helper that has seen the marker needs to stop *)
(* the new version (a tick, 8 s and 5 s); and nobody else opens the        *)
(* launcher in the tick between two phases of the helper.                  *)
(***************************************************************************)
EXTENDS Naturals

CONSTANT Version   \* 1 is installed, 2 can be downloaded

ASSUME Versions == Version = {1, 2}

VARIABLES
  app,       \* the version of the launcher that runs, 0 for none
  dir,       \* what is whole in the install, in .previous and in the stage
  marker,    \* pending update marker, 0 for none
  last,      \* last_update_version
  updater,   \* the update worker
  helper,    \* the phase of the helper, is its parent alive, is the stage its own
  cleanup    \* "none", "settling" or "now": the cleanup thread of this process

files == <<dir, marker, last>>
update == <<app, dir, marker, last, updater, helper, cleanup>>

Phase == {"off", "loading", "wait", "remove", "backup", "activate", "launch", "verify", "doomed", "offer", "repair"}
Off == [pc |-> "off", parent |-> FALSE, own |-> FALSE]

Installed ==
  /\ app = 0
  /\ dir = [install |-> 1, previous |-> 0, stage |-> 0]
  /\ marker = 0 /\ last = 0
  /\ updater = "idle"
  /\ helper = Off
  /\ cleanup = "none"

\* The end of the launcher: its threads are gone, and the helper may see it.
AppEnds ==
  /\ app' = 0 /\ updater' = "idle" /\ cleanup' = "none"
  /\ helper' = [helper EXCEPT !.parent = FALSE]

AppOpens(v) == app' = v /\ updater' = "idle" /\ cleanup' = "none"

-----------------------------------------------------------------------------
(* _install_worker. *)

StartUpdate ==
  /\ updater = "idle"
  /\ updater' = "checking"
  /\ UNCHANGED <<app, files, helper, cleanup>>

\* An older stage is pruned, one that a helper waits to install too; a version is
\* downloaded, verified and extracted.
Stage ==
  /\ updater = "checking" /\ app = 1
  /\ dir' = [dir EXCEPT !.stage = 2]
  /\ updater' = "staged"
  /\ helper' = [helper EXCEPT !.own = FALSE]
  /\ UNCHANGED <<app, marker, last, cleanup>>

\* There is nothing newer.
NothingNew ==
  /\ updater = "checking" /\ app = 2
  /\ updater' = "idle"
  /\ UNCHANGED <<app, files, helper, cleanup>>

\* Any step up to the handover raises: the stage and the marker are removed.
UpdateFails ==
  /\ updater \in {"checking", "staged", "marked"}
  /\ dir' = [dir EXCEPT !.stage = 0]
  /\ marker' = 0
  /\ updater' = "idle"
  /\ UNCHANGED <<app, last, helper, cleanup>>

WritePending ==
  /\ updater = "staged"
  /\ marker' = 2
  /\ updater' = "marked"
  /\ UNCHANGED <<app, dir, last, helper, cleanup>>

\* Bound: no second helper while there is one.
LaunchHelper ==
  /\ updater = "marked" /\ helper.pc = "off"
  /\ helper' = [pc |-> "loading", parent |-> TRUE, own |-> TRUE]
  /\ updater' = "shaking"
  /\ UNCHANGED <<app, files, cleanup>>

\* ContentRendered: the window goes again, or is ready and its timer started.
HelperReady ==
  /\ helper.pc = "loading"
  /\ helper' = IF marker = 2 THEN [helper EXCEPT !.pc = "wait"] ELSE Off
  /\ UNCHANGED <<app, files, updater, cleanup>>

\* _wait_helper_ready; the shutdown callback comes with it.
HandOver ==
  /\ updater = "shaking" /\ helper.pc = "wait"
  /\ updater' = "handed"
  /\ UNCHANGED <<app, files, helper, cleanup>>

\* The window is closed, or not ready in time: the helper is stopped, the marker cleared.
HandshakeFails ==
  /\ updater = "shaking"
  /\ helper' = Off
  /\ dir' = [dir EXCEPT !.stage = 0]
  /\ marker' = 0
  /\ updater' = "idle"
  /\ UNCHANGED <<app, last, cleanup>>

-----------------------------------------------------------------------------
(* update_helper.ps1. *)

HelperAt(pc) == helper.pc = pc
HelperGoes(pc) == helper' = [helper EXCEPT !.pc = pc]

Waited ==
  /\ HelperAt("wait") /\ ~helper.parent
  /\ HelperGoes("remove")
  /\ UNCHANGED <<app, files, updater, cleanup>>

RemoveOldBackup ==
  /\ HelperAt("remove")
  /\ dir' = [dir EXCEPT !.previous = 0]
  /\ HelperGoes("backup")
  /\ UNCHANGED <<app, marker, last, updater, cleanup>>

BackupCurrent ==
  /\ HelperAt("backup") /\ app = 0 /\ dir.install # 0
  /\ dir' = [dir EXCEPT !.previous = dir.install, !.install = 0]
  /\ HelperGoes("activate")
  /\ UNCHANGED <<app, marker, last, updater, cleanup>>

\* The stage that this helper was started with is still there.
Staged == dir.stage # 0 /\ helper.own

\* Mutant: the rollback files go with the swap.
ActivateNewFinal ==
  /\ HelperAt("activate") /\ Staged
  /\ dir' = [install |-> dir.stage, previous |-> 0, stage |-> 0]
  /\ HelperGoes("launch")
  /\ UNCHANGED <<app, marker, last, updater, cleanup>>
ActivateNew ==
  /\ HelperAt("activate") /\ Staged
  /\ dir' = [dir EXCEPT !.install = dir.stage, !.stage = 0]
  /\ HelperGoes("launch")
  /\ UNCHANGED <<app, marker, last, updater, cleanup>>

BackedUp == helper.pc \in {"activate", "launch", "doomed"}

\* Mutant: an error after the backup leaves the install as it is.
RestoredNever == dir
\* Restore-PreviousInstall.
Restored ==
  IF ~BackedUp \/ dir.previous = 0 THEN dir
  ELSE [dir EXCEPT !.install = dir.previous, !.previous = 0]

\* A removal or a move fails to the last attempt, as it does without a stage: Stop-WithError, and its window
\* offers to open what is installed.
StopWithError ==
  /\ helper.pc \in {"remove", "backup", "activate", "launch"}
  /\ dir' = Restored
  /\ marker' = 0
  /\ helper' = [Off EXCEPT !.pc = IF dir'.install # 0 THEN "offer" ELSE "repair"]
  /\ UNCHANGED <<app, last, updater, cleanup>>

\* The helper opens the new version.
Launch ==
  /\ HelperAt("launch")
  /\ helper' = [helper EXCEPT !.pc = "verify"]
  /\ AppOpens(dir.install)
  /\ UNCHANGED files

Confirmed ==
  /\ HelperAt("verify") /\ marker = 0
  /\ helper' = Off
  /\ UNCHANGED <<app, files, updater, cleanup>>

\* The version it opened has ended, or is not ready in time.
Unhealthy ==
  /\ HelperAt("verify") /\ marker # 0
  /\ HelperGoes("doomed")
  /\ UNCHANGED <<app, files, updater, cleanup>>

\* Rollback-UnhealthyVersion: stop the new version, restore the old one and open
\* it, or offer to when that fails.
RollBack ==
  /\ HelperAt("doomed")
  /\ dir' = Restored
  /\ marker' = 0
  /\ \/ AppOpens(dir.previous)
        /\ helper' = [Off EXCEPT !.pc = IF dir.previous = 0 THEN "repair" ELSE "off"]
     \/ dir.previous # 0 /\ AppOpens(0) /\ helper' = [Off EXCEPT !.pc = "offer"]
  /\ UNCHANGED last

\* The button of its last window, or the window closed.
CloseHelper ==
  /\ helper.pc \in {"offer", "repair"}
  /\ helper' = Off
  /\ IF HelperAt("offer") /\ app = 0
     THEN AppOpens(dir.install) \/ UNCHANGED <<app, updater, cleanup>>
     ELSE UNCHANGED <<app, updater, cleanup>>
  /\ UNCHANGED files

-----------------------------------------------------------------------------
(* mark_started_ok, once per process, when its backend is ready. *)

Keeps == cleanup' = "kept" /\ UNCHANGED <<marker, last>>

MarkStartedOk ==
  /\ cleanup = "none"
  /\ \/ marker = 0 /\ last = app /\ cleanup' = "now" /\ UNCHANGED <<marker, last>>
     \/ marker = 0 /\ last # app /\ Keeps
     \/ marker = app /\ marker' = 0 /\ last' = app /\ cleanup' = "settling"
     \/ marker \notin {0, app} /\ Keeps
  /\ UNCHANGED <<app, dir, updater, helper>>

\* The marker cannot be deleted: the helper will roll back.
MarkStartedFails ==
  /\ cleanup = "none" /\ marker = app
  /\ Keeps
  /\ UNCHANGED <<app, dir, updater, helper>>

\* _ROLLBACK_SETTLE_SECONDS have passed.
Settled == helper.pc \notin {"verify", "doomed"}

CleanupPrevious ==
  /\ cleanup = "now" \/ (cleanup = "settling" /\ Settled)
  /\ dir' = [dir EXCEPT !.previous = 0]
  /\ cleanup' = "done"
  /\ UNCHANGED <<app, marker, last, updater, helper>>

\* What the helper may still have to put back is there.
Restorable ==
  \/ HelperAt("verify") /\ marker # 0
  \/ helper.pc \in {"activate", "launch", "doomed"}
=============================================================================
