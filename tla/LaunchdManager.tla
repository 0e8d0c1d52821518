---------------------------- MODULE LaunchdManager ----------------------------
(***************************************************************************)
(* manager_darwin.go: a launchd job.  reg is the property list, known the  *)
(* job that is loaded into the domain, enabled FALSE when the override     *)
(* database disables the label.  RunAtLoad is set, KeepAlive relaunches    *)
(* after a failure.                                                        *)
(***************************************************************************)
EXTENDS ServiceMachine

LOCAL Frame == UNCHANGED setting

(* Supervisor. *)
Bootout == known' = None /\ proc' = NoProc /\ UNCHANGED <<reg, enabled, host, files>>
Bootstrap == /\ known' = reg /\ UNCHANGED <<reg, enabled>>
             /\ IF enabled THEN Launched(reg) ELSE UNCHANGED <<instance, files>>
Enable == enabled' = TRUE /\ UNCHANGED <<reg, known, instance, files>>
Disable == enabled' = FALSE /\ UNCHANGED <<reg, known, instance, files>>
Kickstart == /\ known # None /\ enabled
             /\ IF proc.st \in {"running", "draining"} THEN UNCHANGED <<instance, files>> ELSE Launched(known)
             /\ UNCHANGED machine
SendTerm == /\ proc' = IF proc.st = "running" THEN [proc EXCEPT !.st = "draining"] ELSE proc
            /\ UNCHANGED <<machine, host, files>>
PrintJob == Untouched

(***************************************************************************)
(* Install and register.                                                   *)
(***************************************************************************)
LaunchdCheck ==
    /\ At("install", "check") /\ Untouched /\ UNCHANGED left /\ Frame
    /\ \/ Privileged /\ cmd' = [cmd EXCEPT !.pc = "prepare", !.created = CreatedDirs]
       \/ Refuse

LaunchdGrant ==
    /\ At("install", "prepared") /\ Untouched /\ Frame
    /\ (Go("preflight") /\ UNCHANGED left) \/ Fails("rmdirs")

LaunchdPreflight ==
    /\ At("install", "preflight") /\ Untouched /\ Frame
    /\ (Go("write") /\ UNCHANGED left) \/ Fails("rmdirs")

WritePlist ==   \* "changed": there was none, or another one
    /\ At("install", "write") /\ Frame /\ UNCHANGED <<known, enabled, instance, files>>
    /\ \/ /\ reg' = cmd.ver /\ UNCHANGED left
          /\ IF reg = cmd.ver THEN Go("print") ELSE Note("print", "changed")
       \/ Fails("rmdirs") /\ UNCHANGED reg

(* The state before: a list of disabled labels that cannot be read counts  *)
(* as a list without the label.                                            *)
SupervisorState ==
    /\ Frame
    /\ \/ At("install", "print") /\ Call(PrintJob, "overrides", "unload")
       \/ /\ At("install", "overrides") /\ Untouched
          /\ LET n == (IF known # None THEN {"loaded"} ELSE {})
                      \union (IF enabled THEN {} ELSE {"disabled"})
             IN \/ ~cmd.cut /\ cmd' = [cmd EXCEPT !.pc = "load", !.note = @ \union n] /\ UNCHANGED left
                \/ /\ cmd' = [cmd EXCEPT !.pc = "load", !.note = @ \union (n \ {"disabled"}),
                                         !.broken = @ \/ "disabled" \in n]
                   /\ (cmd.cut /\ UNCHANGED left) \/ Spend("faults")

Load ==
    /\ Frame
    /\ \/ /\ At("install", "load") /\ UNCHANGED left /\ Untouched
          /\ Go(IF "loaded" \notin cmd.note THEN "bootstrap"
                ELSE IF "changed" \in cmd.note THEN "replace" ELSE "enable")
       \/ At("install", "replace") /\ Call(Bootout, "replaced", "unload")
       \/ At("install", "replaced") /\ Note("bootstrap", "replaced") /\ Untouched /\ UNCHANGED left
       \/ At("install", "bootstrap") /\ Call(Bootstrap, "bootstrapped", "unload")
       \/ At("install", "bootstrapped") /\ Note("enable", "bootstrapped") /\ Untouched /\ UNCHANGED left
       \/ At("install", "enable") /\ Call(Enable, "done", "unload")

(***************************************************************************)
(* The roll-back uses the context of the command: when that is cancelled,  *)
(* the first call of launchctl fails and the rest is not done.             *)
(***************************************************************************)
Undo(effect, next) ==
    \/ ~cmd.cut /\ effect /\ Go(next) /\ UNCHANGED left
    \/ cmd.cut /\ Go("rmdirs") /\ Untouched /\ UNCHANGED left
    \/ ~cmd.cut /\ FailsToUndo("rmdirs") /\ Untouched

RemovePlist ==   \* mutant: forgets what there was
    /\ reg' = None /\ UNCHANGED <<known, enabled, instance, files>>

RestorePlist ==
    /\ reg' = cmd.saved.reg /\ UNCHANGED <<known, enabled, instance, files>>

LaunchdRollback ==
    /\ Frame
    /\ \/ /\ At("install", "unload")
          /\ IF "replaced" \in cmd.note \/ ("bootstrapped" \in cmd.note /\ "loaded" \notin cmd.note)
             THEN Undo(Bootout, "restore")
             ELSE Go("restore") /\ Untouched /\ UNCHANGED left
       \/ /\ At("install", "restore")
          /\ \/ RestorePlist /\ UNCHANGED left
                /\ Go(IF "replaced" \in cmd.note THEN "again" ELSE "overridden")
             \/ FailsToUndo("rmdirs") /\ Untouched
       \/ At("install", "again") /\ Undo(Bootstrap, "overridden")
       \/ /\ At("install", "overridden")
          /\ IF "disabled" \in cmd.note THEN Undo(Disable, "rmdirs")
             ELSE IF "loaded" \in cmd.note THEN Undo(Enable, "rmdirs")
             ELSE Go("rmdirs") /\ Untouched /\ UNCHANGED left

(***************************************************************************)
(* Uninstall.                                                              *)
(***************************************************************************)
LaunchdUninstall ==
    /\ Frame
    /\ \/ /\ At("uninstall", "check") /\ Untouched /\ UNCHANGED left
          /\ IF reg = None THEN Go("done")
             ELSE IF Privileged THEN Go("bootout") ELSE Refuse
       \/ At("uninstall", "bootout") /\ Call(Bootout, "remove", "done")
       \/ /\ At("uninstall", "remove") /\ UNCHANGED <<known, enabled, instance, files>>
          /\ \/ reg' = None /\ Go("done") /\ UNCHANGED left
             \/ Fails("done") /\ UNCHANGED reg

(***************************************************************************)
(* Stop: the process is asked to end, waited for and unloaded.  Restart is *)
(* a stop and, if that succeeded, a start.                                 *)
(***************************************************************************)
Stopping == cmd.op \in {"stop", "restart"}

LaunchdStopCheck ==
    /\ Stopping /\ cmd.pc = "check" /\ Untouched /\ UNCHANGED left /\ Frame
    /\ IF reg = None THEN IF cmd.op = "stop" THEN Go("done") ELSE Refuse
       ELSE IF Privileged THEN Go("print") ELSE Refuse

AskToEnd ==
    /\ Stopping /\ Frame
    /\ \/ /\ cmd.pc = "print" /\ Untouched
          /\ \/ /\ ~cmd.cut /\ UNCHANGED left
                /\ cmd' = [cmd EXCEPT !.pc = "kill",
                                      !.pid = IF proc.st \in {"running", "draining"} THEN proc.pid + 1 ELSE None]
             \/ (cmd.cut /\ Refuse /\ UNCHANGED left) \/ Fails("done")
       \/ cmd.pc = "kill" /\ Call(SendTerm, "wait", "done")

WaitForExit ==
    /\ Stopping /\ cmd.pc = "wait" /\ Untouched /\ Frame
    /\ \/ /\ ~cmd.cut /\ UNCHANGED left
          /\ proc.st \in {"running", "draining"} => cmd.pid \notin {None, proc.pid + 1}
          /\ Go("bootout")
       \/ /\ proc.st \in {"running", "draining"}    \* the deadline, or a call that failed
          /\ cmd' = [cmd EXCEPT !.pc = "bootout", !.err = TRUE] /\ UNCHANGED left
       \/ cmd.cut /\ cmd' = [cmd EXCEPT !.pc = "bootout", !.err = TRUE] /\ UNCHANGED left

Unload ==
    /\ Stopping /\ cmd.pc = "bootout" /\ Frame
    /\ Call(Bootout, IF cmd.op = "restart" /\ ~cmd.err THEN "start" ELSE "done", "done")

(***************************************************************************)
(* Start: load the job if it is not loaded, and kickstart it.              *)
(***************************************************************************)
LaunchdStartCheck ==
    /\ At("start", "check") \/ At("restart", "start")
    /\ Untouched /\ UNCHANGED left /\ Frame
    /\ IF reg # None /\ Privileged THEN Go("ensure") ELSE Refuse

EnsureLoaded ==
    /\ cmd.pc = "ensure" /\ Frame
    /\ \/ known # None /\ ~cmd.cut /\ Untouched /\ Go("kickstart") /\ UNCHANGED left
       \/ known # None /\ cmd.cut /\ Refuse /\ Untouched /\ UNCHANGED left
       \/ known = None /\ Call(Bootstrap, "kickstart", "done")

KickstartJob ==
    /\ cmd.pc = "kickstart" /\ Frame
    /\ \/ Call(Kickstart, "done", "done")
       \/ ~(known # None /\ enabled) /\ Refuse /\ Untouched /\ UNCHANGED left

LaunchdCommand ==
    \/ LaunchdCheck \/ LaunchdGrant \/ LaunchdPreflight \/ WritePlist
    \/ SupervisorState \/ Load \/ LaunchdRollback \/ LaunchdUninstall
    \/ LaunchdStopCheck \/ AskToEnd \/ WaitForExit \/ Unload
    \/ LaunchdStartCheck \/ EnsureLoaded \/ KickstartJob

(* Status: the property list, the job of the domain, its state. *)
JobState == CASE proc.st \in {"running", "draining"} -> "running"
              [] proc.st = "auto" -> "starting"
              [] proc.st = "none" -> "stopped"
              [] OTHER -> "failed"
LaunchdStatus == CASE reg = None -> "not-installed"
                   [] reg # None /\ known = None -> "stopped"
                   [] OTHER -> JobState

(* KeepAlive: after an exit with a status other than 0. *)
LaunchdRelaunches ==
    /\ proc.st = "auto" /\ known # None /\ enabled
    /\ Launched(known)
    /\ UNCHANGED <<setting, machine, cmd, left>>

LaunchdBoot ==
    /\ known' = IF enabled THEN reg ELSE None
    /\ IF enabled /\ reg # None THEN Launched(reg)
       ELSE proc' = NoProc /\ UNCHANGED <<host, files>>
    /\ UNCHANGED <<reg, enabled>>
=============================================================================
