--------------------------- MODULE ServiceManagers ---------------------------
(***************************************************************************)
(* The service commands on the three platforms, with the life of the       *)
(* instance, reboots, interrupts and kills around them.                    *)
(***************************************************************************)
EXTENDS SystemdManager, LaunchdManager, ScmManager

CommandStep ==
    \/ EnsureDir \/ RollBackDirs
    \/ os = "linux" /\ SystemdCommand
    \/ os = "darwin" /\ LaunchdCommand
    \/ os = "windows" /\ ScmCommand

(***************************************************************************)
(* The end of the process of an instance: the answer to a request to shut  *)
(* down, or a crash.  A restart policy applies to failures only.           *)
(***************************************************************************)
InstanceEnds ==
    /\ os # "windows" /\ proc.st \in {"running", "draining"}
    /\ \/ proc.st = "draining" /\ UNCHANGED left
       \/ proc.st = "running" /\ Spend("crashes")
    /\ \E st \in {"none", "auto"} : proc' = [proc EXCEPT !.st = st]
    /\ UNCHANGED <<setting, machine, host, files, cmd>>

SupervisorStep ==
    \/ os = "linux" /\ SystemdRestartsInstance
    \/ os = "darwin" /\ LaunchdRelaunches

InstanceStep == InstanceEnds \/ (os = "windows" /\ ScmHost)

Reboot ==
    /\ Spend("kills") /\ cmd' = Idle
    /\ \/ os = "linux" /\ SystemdBoot
       \/ os = "darwin" /\ LaunchdBoot
       \/ os = "windows" /\ ScmBoot
    /\ UNCHANGED setting

Next == BeginCommand \/ CommandStep \/ InstanceStep \/ SupervisorStep
        \/ Interrupt \/ Kill \/ ForeignFile \/ Reboot

Fairness == WF_vars(CommandStep) /\ WF_vars(InstanceStep) /\ WF_vars(SupervisorStep)
Spec == Init /\ [][Next]_vars /\ Fairness

(***************************************************************************)
(* Properties.                                                             *)
(***************************************************************************)
TypeOK ==
    /\ os \in Platforms /\ scope \in {"user", "system"} /\ root \in BOOLEAN
    /\ {reg, known} \subseteq Versions \union {None} /\ enabled \in BOOLEAN
    /\ proc.st \in {"none", "starting", "running", "draining", "auto", "failed"}
    /\ dirs \subseteq Dirs /\ used \subseteq dirs

(* An installation that fails leaves the machine as it was: registration,  *)
(* boot setting and directories.  A directory that was made may stay when  *)
(* something is in it.                                                     *)
FailedInstall == cmd.op = "install" /\ cmd.pc = "done" /\ cmd.err
Kept(d) == \E e \in used : d \in Ancestors(e)
Restored ==
    /\ reg = cmd.saved.reg /\ known \in {cmd.saved.known, cmd.saved.reg}
    /\ enabled = cmd.saved.enabled
    /\ cmd.saved.dirs \subseteq dirs
    /\ \A d \in dirs \ cmd.saved.dirs : Kept(d)

(* The roll-back also holds for an installation that is interrupted, apart *)
(* from the boot setting that the interrupted call made (manager_linux.go).*)
InterruptedInstallRestores ==
    FailedInstall /\ ~cmd.broken /\ os = "linux"
       => reg = cmd.saved.reg /\ known \in {reg, cmd.saved.known}

(* On darwin the roll-back does not survive an interrupt: see              *)
(* FailedInstallIsNeverHalf, which fails.                                  *)
HalfInstalled == os = "darwin" /\ left.interrupts < MaxInterrupts

FailedInstallRestores ==
    /\ FailedInstall /\ ~cmd.broken /\ ~cmd.cut => Restored
    /\ InterruptedInstallRestores

(* manager_darwin.go:182: "An installation that fails after the property   *)
(* list was written restores the previous registration".                   *)
FailedInstallIsNeverHalf == FailedInstall /\ ~cmd.broken => reg = cmd.saved.reg

(* An installation that succeeds is what the supervisor has and starts at  *)
(* boot, whatever earlier commands left behind.  (launchd keeps a job whose*)
(* property list did not change.)                                          *)
InstallTakesEffect ==
    Done("install") => /\ reg = cmd.ver /\ enabled
                       /\ known = cmd.ver \/ (os = "darwin" /\ cmd.saved.reg = cmd.ver)

(* What a stop or an uninstallation has stopped stays stopped, also when   *)
(* the supervisor restarts failed instances; and an uninstallation leaves  *)
(* nothing that starts at boot.                                            *)
StopIsStable ==
    ~HalfInstalled => /\ Done("stop") \/ Done("uninstall") => ~Alive
                      /\ Done("uninstall") => reg = None

(* A command that succeeds has its effect. *)
CommandsTakeEffect == InstallTakesEffect /\ StopIsStable

(* Nothing runs that is not registered (and loaded). *)
RunningIsRegistered == Alive /\ ~HalfInstalled => reg # None /\ (os = "linux" \/ known # None)

(* What "service status" and the summary of an installation answer: that   *)
(* nothing runs is true.                                                   *)
Status == CASE os = "linux" -> SystemdStatus [] os = "darwin" -> LaunchdStatus [] OTHER -> ScmStatus
StatusTellsTruth ==
    ~HalfInstalled /\ Status \in {"not-installed", "stopped", "failed"} => ~Alive

(* Windows is told that the instance has stopped only after the server has *)
(* ended, unless the shutdown took longer than its budget.                 *)
StoppedMeansEnded ==
    os = "windows" /\ proc.st \in {"none", "failed"} /\ ~host.late
       => host.run \in {"none", "ended", "failed"}

(* What the supervisor, the registration, the answers and the processes     *)
(* say of each other agrees, after every step.                             *)
Consistent == TypeOK /\ RunningIsRegistered /\ StatusTellsTruth /\ StoppedMeansEnded

(* Every command comes to an end, and so does every state that the SCM     *)
(* waits for: a service does not stay "starting" or "stopping".            *)
CommandsEnd == (cmd.pc # "done") ~> (cmd.pc = "done")
Pending == os = "windows" /\ proc.st \in {"starting", "draining"}
PendingEnds == Pending ~> ~Pending
ServiceSettles == CommandsEnd /\ PendingEnds
=============================================================================
