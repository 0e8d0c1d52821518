---------------------------- MODULE SystemdManager ----------------------------
(***************************************************************************)
(* manager_linux.go: a systemd unit.  reg is the unit file, known the unit *)
(* that systemd has read (daemon-reload), enabled the link of the boot     *)
(* target.                                                                 *)
(***************************************************************************)
EXTENDS ServiceMachine

LOCAL Frame == UNCHANGED setting

(* Supervisor. *)
DaemonReload == known' = reg /\ UNCHANGED <<reg, enabled, instance, files>>
EnableUnit == enabled' = TRUE /\ known' = reg /\ UNCHANGED <<reg, instance, files>>
StartUnit == /\ known # None
             /\ IF proc.st = "running" THEN UNCHANGED <<instance, files>> ELSE Launched(known)
             /\ UNCHANGED machine
StopUnit == proc' = NoProc /\ UNCHANGED <<machine, host, files>>
RestartUnit == known # None /\ Launched(known) /\ UNCHANGED machine
UnitAbsent == known = None   \* isUnitAbsent: what systemctl says of the unit
DisableNow == enabled' = FALSE /\ proc' = NoProc /\ UNCHANGED <<reg, known, host, files>>

(***************************************************************************)
(* Install and register.                                                   *)
(***************************************************************************)
SystemdCheck ==   \* options, paths of the unit, account and its access, root
    /\ At("install", "check") /\ Untouched /\ UNCHANGED left /\ Frame
    /\ \/ Privileged /\ cmd' = [cmd EXCEPT !.pc = "prepare", !.created = CreatedDirs]
       \/ Refuse

SystemdGrant ==   \* grantInstanceDirs: what was there must be usable, what is new is given away
    /\ At("install", "prepared") /\ Untouched /\ Frame
    /\ (Go("preflight") /\ UNCHANGED left) \/ Fails("rmdirs")

SystemdPreflight ==
    /\ At("install", "preflight") /\ Untouched /\ Frame
    /\ (Go("write") /\ UNCHANGED left) \/ Fails("rmdirs")

WriteUnitFile ==   \* a temporary file and a rename
    /\ At("install", "write") /\ Frame
    /\ \/ reg' = cmd.ver /\ Go("reload") /\ UNCHANGED <<known, enabled, left>>
       \/ Fails("rmdirs") /\ UNCHANGED machine
    /\ UNCHANGED <<instance, files>>

ReloadAndEnable ==
    /\ Frame
    /\ \/ At("install", "reload") /\ Call(DaemonReload, "enable", "unwrite")
       \/ At("install", "enable") /\ Call(EnableUnit, "done", "unwrite")

(* The context of the roll-back is not cancelled with the command's. *)
RollbackUnit ==
    /\ Frame
    /\ \/ /\ At("install", "unwrite") /\ UNCHANGED <<known, enabled, instance, files>>
          /\ \/ reg' = cmd.saved.reg /\ Go("unreload") /\ UNCHANGED left
             \/ FailsToUndo("unreload") /\ UNCHANGED reg
       \/ /\ At("install", "unreload")
          /\ \/ DaemonReload /\ Go("rmdirs") /\ UNCHANGED left
             \/ FailsToUndo("rmdirs") /\ Untouched

(***************************************************************************)
(* Uninstall.                                                              *)
(***************************************************************************)
SystemdUninstall ==
    /\ Frame
    /\ \/ /\ At("uninstall", "check") /\ Untouched /\ UNCHANGED left
          /\ IF reg = None THEN Go("done")
             ELSE IF Privileged THEN Go("disable") ELSE Refuse
       \/ At("uninstall", "disable") /\ Call(DisableNow, "remove", "done")
       \/ /\ At("uninstall", "disable") /\ UnitAbsent
          /\ Untouched /\ Go("remove") /\ UNCHANGED left
       \/ /\ At("uninstall", "remove") /\ UNCHANGED <<known, enabled, instance, files>>
          /\ \/ reg' = None /\ Go("reload") /\ UNCHANGED left
             \/ Fails("done") /\ UNCHANGED reg
       \/ At("uninstall", "reload") /\ Call(DaemonReload, "done", "done")

(***************************************************************************)
(* Start, Stop, Restart.  requireLifecycle: without a unit file a stop has *)
(* nothing to do and the others are refused; then the privileges.          *)
(***************************************************************************)
RequireLifecycle ==
    /\ cmd.op \in {"start", "stop", "restart"} /\ cmd.pc = "check"
    /\ IF reg = None THEN IF cmd.op = "stop" THEN Go("done") ELSE Refuse
       ELSE IF Privileged THEN Go("call") ELSE Refuse
    /\ Untouched /\ UNCHANGED left /\ Frame

SystemdStart ==
    /\ Frame
    /\ \/ At("start", "call") /\ Call(StartUnit, "done", "look")
       \/ At("start", "call") /\ UnitAbsent /\ Go("look") /\ Untouched /\ UNCHANGED left
       \/ /\ At("start", "look") /\ Untouched /\ UNCHANGED left   \* currentState
          /\ IF proc.st = "running" /\ ~cmd.cut
             THEN cmd' = [cmd EXCEPT !.pc = "done", !.err = FALSE] ELSE Refuse

SystemdStop ==
    /\ Frame
    /\ \/ At("stop", "call") /\ Call(StopUnit, "done", "look")
       \/ /\ At("stop", "call") /\ UnitAbsent /\ proc.st = "none"
          /\ Go("done") /\ Untouched /\ UNCHANGED left
       \/ /\ At("stop", "look") /\ Untouched /\ UNCHANGED left
          /\ IF proc.st = "none" /\ ~cmd.cut
             THEN cmd' = [cmd EXCEPT !.pc = "done", !.err = FALSE] ELSE Refuse

SystemdRestart ==
    /\ Frame /\ At("restart", "call")
    /\ \/ Call(RestartUnit, "done", "done")
       \/ UnitAbsent /\ Refuse /\ Untouched /\ UNCHANGED left

SystemdCommand ==
    \/ SystemdCheck \/ SystemdGrant \/ SystemdPreflight \/ WriteUnitFile
    \/ ReloadAndEnable \/ RollbackUnit \/ SystemdUninstall
    \/ RequireLifecycle \/ SystemdStart \/ SystemdStop \/ SystemdRestart

(***************************************************************************)
(* Status: the unit file first, the supervisor second.                     *)
(***************************************************************************)
ActiveState == CASE proc.st = "running" -> "running"
                 [] proc.st = "auto" -> "starting"    \* activating (auto-restart)
                 [] proc.st = "none" -> "stopped"
                 [] OTHER -> "failed"
SystemdStatus == IF reg = None \/ UnitAbsent THEN "not-installed" ELSE ActiveState

(***************************************************************************)
(* The unit that the template describes: Restart=on-failure, RestartSec,   *)
(* WantedBy the boot target of the scope.                                  *)
(***************************************************************************)
SystemdRestartsInstance ==
    /\ proc.st = "auto" /\ known # None
    /\ Launched(known)
    /\ UNCHANGED <<setting, machine, cmd, left>>

SystemdBoot ==
    /\ known' = reg
    /\ IF enabled /\ reg # None THEN Launched(reg)
       ELSE proc' = NoProc /\ UNCHANGED <<host, files>>
    /\ UNCHANGED <<reg, enabled>>
=============================================================================
