------------------------------ MODULE ScmManager ------------------------------
(***************************************************************************)
(* manager_windows.go and scm_windows.go: a service of the service control *)
(* manager (SCM), and the process behind it, which reports its state.      *)
(*                                                                         *)
(* proc.st is the state the SCM was told ("failed" is a stop with an exit  *)
(* code).  host.exec is where Execute is, host.run the server it started,  *)
(* host.late that the shutdown took longer than its budget.                *)
(***************************************************************************)
EXTENDS ServiceMachine

LOCAL Frame == UNCHANGED setting

Halted == proc.st \in {"none", "failed"}
StartService == /\ Halted
                /\ proc' = [st |-> "starting", ver |-> reg, pid |-> 0]
                /\ host' = [exec |-> "resolve", run |-> "none", late |-> FALSE]
                /\ UNCHANGED <<machine, files>>

(***************************************************************************)
(* Install: create the service, or update the one that exists.             *)
(***************************************************************************)
ScmCheck ==
    /\ At("install", "check") /\ Untouched /\ UNCHANGED left /\ Frame
    /\ \/ Privileged /\ cmd' = [cmd EXCEPT !.pc = "prepare", !.created = CreatedDirs]
       \/ Refuse

RestrictInstanceState ==   \* the paths that exist are checked, then the new ones get their ACL
    /\ At("install", "prepared") /\ Untouched /\ Frame
    /\ (Go("preflight") /\ UNCHANGED left) \/ Fails("rmdirs")

ScmPreflight ==
    /\ At("install", "preflight") /\ Untouched /\ Frame
    /\ (Go("register") /\ UNCHANGED left) \/ Fails("rmdirs")

RegisterOnce ==   \* mutant: keeps the registration that exists
    /\ At("install", "register") /\ UNCHANGED <<instance, files>> /\ Frame
    /\ \/ /\ IF reg = None THEN reg' = cmd.ver /\ known' = cmd.ver /\ enabled' = TRUE ELSE UNCHANGED machine
          /\ Go("done") /\ UNCHANGED left
       \/ Fails("rmdirs") /\ UNCHANGED machine

ScmRegister ==
    /\ At("install", "register") /\ UNCHANGED <<instance, files>> /\ Frame
    /\ \/ reg' = cmd.ver /\ known' = cmd.ver /\ enabled' = TRUE /\ Go("done") /\ UNCHANGED left
       \/ Fails("rmdirs") /\ UNCHANGED machine

(***************************************************************************)
(* The other commands open the registration first: absent, readable, or    *)
(* denied.                                                                 *)
(***************************************************************************)
OpenRegistration ==
    /\ cmd.op \in {"uninstall", "start", "stop", "restart"} /\ cmd.pc = "check"
    /\ Untouched /\ Frame
    /\ \/ UNCHANGED left
          /\ IF reg = None THEN IF cmd.op \in {"stop", "uninstall"} THEN Go("done") ELSE Refuse
             ELSE IF ~Privileged THEN Refuse
             ELSE Go(IF cmd.op = "start" THEN "start" ELSE "query")
       \/ Fails("done")

ScmStart ==
    /\ cmd.op \in {"start", "restart"} /\ cmd.pc = "start" /\ Frame
    /\ \/ StartService /\ Go("done") /\ UNCHANGED left
       \/ ~Halted /\ Go("done") /\ Untouched /\ UNCHANGED left   \* already running
       \/ Fails("done") /\ Untouched

(***************************************************************************)
(* stopService: query, deliver the control until it is accepted, wait.     *)
(***************************************************************************)
AfterStop == CASE cmd.op = "restart" -> "start" [] cmd.op = "uninstall" -> "delete" [] OTHER -> "done"

QueryService ==
    /\ cmd.pc = "query" /\ Untouched /\ Frame
    /\ \/ Halted /\ Go(AfterStop) /\ UNCHANGED left
       \/ ~Halted /\ "delivered" \notin cmd.note /\ Go("control") /\ UNCHANGED left
       \/ ~Halted /\ Refuse /\ UNCHANGED left       \* the deadline
       \/ cmd.cut /\ Refuse /\ UNCHANGED left
       \/ Fails("done")

DeliverStop ==
    /\ cmd.pc = "control" /\ Frame
    /\ \/ /\ proc.st = "running"
          /\ proc' = [proc EXCEPT !.st = "draining"]
          /\ host' = [host EXCEPT !.exec = "stopping", !.run = IF @ = "serving" THEN "closing" ELSE @]
          /\ Note("query", "delivered") /\ UNCHANGED <<machine, files, left>>
       \/ Halted /\ Go(AfterStop) /\ Untouched /\ UNCHANGED left            \* not active
       \/ proc.st \in {"starting", "draining"} /\ Go("query") /\ Untouched /\ UNCHANGED left
       \/ Fails("done") /\ Untouched

ScmDelete ==
    /\ At("uninstall", "delete") /\ UNCHANGED <<instance, files>> /\ Frame
    /\ \/ reg' = None /\ known' = None /\ enabled' = FALSE /\ Go("done") /\ UNCHANGED left
       \/ Fails("done") /\ UNCHANGED machine

ScmCommand ==
    \/ ScmCheck \/ RestrictInstanceState \/ ScmPreflight \/ ScmRegister
    \/ OpenRegistration \/ ScmStart \/ QueryService \/ DeliverStop \/ ScmDelete

(***************************************************************************)
(* Execute: the process of the service.                                    *)
(***************************************************************************)
Ended == host.run \in {"ended", "failed"}
Report(st) == proc' = [proc EXCEPT !.st = st]

ResolveOptions ==
    /\ host.exec = "resolve" /\ UNCHANGED files
    /\ \/ host' = [host EXCEPT !.exec = "wait", !.run = "up"] /\ UNCHANGED <<proc, left>>
       \/ Spend("crashes") /\ Report("failed") /\ host' = [host EXCEPT !.exec = "off"]

WaitForAnswer ==   \* mutant: neither a deadline nor the end of the host
    /\ host.exec = "wait" /\ UNCHANGED <<left, files>>
    /\ host.run = "serving" /\ Report("running") /\ host' = [host EXCEPT !.exec = "serve"]

WaitForReady ==
    /\ host.exec = "wait" /\ UNCHANGED <<left, files>>
    /\ \/ host.run = "serving" /\ Report("running") /\ host' = [host EXCEPT !.exec = "serve"]
       \/ host.run \in {"up", "ended", "failed"} /\ UNCHANGED proc   \* the deadline, or the end of the host
          /\ host' = [host EXCEPT !.exec = "quit", !.run = IF Ended THEN @ ELSE "closing"]

ServeRequests ==   \* the end of the host without a request
    /\ host.exec = "serve" /\ Ended /\ UNCHANGED <<left, files>>
    /\ Report(IF host.run = "failed" THEN "failed" ELSE "none")
    /\ host' = [host EXCEPT !.exec = "off"]

ReportAtOnce ==   \* mutant: a start that failed does not wait for the host
    /\ host.exec \in {"stopping", "quit"} /\ UNCHANGED files
    /\ Ended \/ host.exec = "quit"
    /\ UNCHANGED left /\ host' = [host EXCEPT !.exec = "off"]
    /\ Report(IF host.run = "failed" \/ host.exec = "quit" THEN "failed" ELSE "none")

(* waitForShutdown, in the stop and after a start that failed. *)
WaitForShutdown ==
    /\ host.exec \in {"stopping", "quit"} /\ UNCHANGED files
    /\ \/ /\ Ended /\ UNCHANGED left /\ host' = [host EXCEPT !.exec = "off"]
          /\ Report(IF host.run = "failed" \/ host.exec = "quit" THEN "failed" ELSE "none")
       \/ /\ ~Ended /\ Spend("crashes") /\ Report("failed")
          /\ host' = [host EXCEPT !.exec = "off", !.late = TRUE]

(* Run: the server of the instance. *)
HostRuns ==
    /\ \/ /\ host.run = "up" /\ WritesState /\ UNCHANGED left
          /\ host' = [host EXCEPT !.run = "serving"]
       \/ /\ host.run = "closing" /\ UNCHANGED <<files, left>>
          /\ \E end \in {"ended", "failed"} : host' = [host EXCEPT !.run = end]
       \/ /\ host.run \in {"up", "serving"} /\ Spend("crashes") /\ UNCHANGED files
          /\ \E end \in {"ended", "failed"} : host' = [host EXCEPT !.run = end]
    /\ UNCHANGED proc

ScmHost ==
    /\ ResolveOptions \/ WaitForReady \/ ServeRequests \/ WaitForShutdown \/ HostRuns
    /\ UNCHANGED <<setting, machine, cmd>>

(* Status: the registration first, then what the SCM was told. *)
ScmState == CASE proc.st = "starting" -> "starting" [] proc.st = "running" -> "running"
              [] proc.st = "draining" -> "stopping" [] OTHER -> "stopped"
ScmFailedExit == proc.st = "failed"
ScmStatusFrom == IF ScmFailedExit THEN "failed" ELSE ScmState
ScmStatus == IF reg = None THEN "not-installed" ELSE ScmStatusFrom

(* The service starts automatically. *)
ScmBoot ==
    /\ UNCHANGED <<machine, files>>
    /\ IF reg # None
       THEN /\ proc' = [st |-> "starting", ver |-> reg, pid |-> 0]
            /\ host' = [exec |-> "resolve", run |-> "none", late |-> FALSE]
       ELSE proc' = NoProc /\ host' = Off
=============================================================================
