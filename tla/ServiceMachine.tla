---------------------------- MODULE ServiceMachine ----------------------------
(***************************************************************************)
(* What the three service managers of internal/service share: the machine *)
(* they change, and the frame of a command "hfdesk service ...".           *)
(*                                                                         *)
(* A command is a sequence of calls (file system, supervisor).  Each call  *)
(* is an action; it may fail, the command may be interrupted (the context  *)
(* of a call is then cancelled) or killed between two calls, and the       *)
(* instance, the supervisor and other programs move in between.  The       *)
(* calls themselves are in SystemdManager, LaunchdManager and ScmManager.  *)
(***************************************************************************)
EXTENDS Naturals

CONSTANTS Platforms,     \* the platforms to consider
          Versions,      \* configurations that an installation may register
          Dirs,          \* directories of an instance and their parents
          Parent,        \* Parent[d]: the directory above d, or the root
          Root,          \* a directory that always exists
          MaxFaults, MaxInterrupts, MaxKills, MaxCrashes,
          MaxCommands   \* bounds of what may happen

None == 0   \* no registration, no version

ASSUME MachineAssumption ==
    /\ Platforms \subseteq {"linux", "darwin", "windows"}
    /\ Versions \subseteq Nat \ {None}
    /\ Parent \in [Dirs -> Dirs \union {Root}] /\ Root \notin Dirs
    /\ \E d \in Dirs : \A e \in Dirs : Parent[e] # d   \* some directory is not a parent
    /\ {MaxFaults, MaxInterrupts, MaxKills, MaxCrashes, MaxCommands} \subseteq Nat

VARIABLES os, scope, root, \* platform, scope of the instance, privileged caller
          reg,      \* what the registration says: a version, or None
          known,    \* the registration the supervisor has loaded
          enabled,  \* the supervisor starts the registration at boot
          proc,     \* the instance as the supervisor sees it
          host,     \* the process of the instance behind a Windows service
          dirs,     \* directories that exist
          used,     \* directories that hold files
          cmd,      \* the command at work, or the last one
          left      \* what may still happen

vars == <<os, scope, root, reg, known, enabled, proc, host, dirs, used, cmd, left>>
machine == <<reg, known, enabled>>
instance == <<proc, host>>
files == <<dirs, used>>
setting == <<os, scope, root>>

(* d and the directories above it: what every set that holds d and is      *)
(* closed under Parent holds.                                              *)
Ancestors(d) ==
    {a \in Dirs : \A S \in SUBSET Dirs :
                      d \in S /\ (\A e \in S : Parent[e] \in S \union {Root}) => a \in S}
Leaves == {d \in Dirs : \A e \in Dirs : Parent[e] # d}
StateDir == CHOOSE d \in Leaves : TRUE   \* the instance keeps its state here

(* createdDirs of every directory of the instance: those that do not exist *)
(* before the installation makes any.                                      *)
CreatedDirs == Dirs \ dirs

(* removeCreatedDirs, deepest first: an entry that holds anything stays.   *)
RemoveCreatedDirs(created) ==
    dirs \ {d \in created : \A e \in dirs : d \in Ancestors(e) => e \notin used}

Saved == [reg |-> reg, known |-> known, enabled |-> enabled, dirs |-> dirs]

Idle == [op |-> "none", pc |-> "done", err |-> FALSE, broken |-> FALSE, cut |-> FALSE,
         ver |-> None, saved |-> Saved, created |-> {}, pid |-> None, note |-> {}]

(***************************************************************************)
(* Steps of a command.                                                     *)
(***************************************************************************)
At(op, pc) == cmd.op = op /\ cmd.pc = pc
Go(pc) == cmd' = [cmd EXCEPT !.pc = pc]
Note(pc, n) == cmd' = [cmd EXCEPT !.pc = pc, !.note = @ \union {n}]
Refuse == cmd' = [cmd EXCEPT !.pc = "done", !.err = TRUE]

Spend(what) == left[what] > 0 /\ left' = [left EXCEPT ![what] = @ - 1]
Untouched == UNCHANGED <<machine, instance, files>>
(* A call of the file system that fails. *)
Fails(pc) == Spend("faults") /\ cmd' = [cmd EXCEPT !.pc = pc, !.err = TRUE]
(* A call of the supervisor: it succeeds, it is interrupted when it has    *)
(* taken effect, it fails, or it is not even made (a cancelled context).   *)
Call(effect, next, otherwise) ==
    \/ ~cmd.cut /\ effect /\ Go(next) /\ UNCHANGED left
    \/ /\ ~cmd.cut /\ effect /\ Spend("interrupts")
       /\ cmd' = [cmd EXCEPT !.pc = otherwise, !.err = TRUE, !.cut = TRUE]
    \/ ~cmd.cut /\ Untouched /\ Fails(otherwise)
    \/ /\ cmd.cut /\ Untouched /\ UNCHANGED left
       /\ cmd' = [cmd EXCEPT !.pc = otherwise, !.err = TRUE]
(* A step of a roll-back that fails. *)
FailsToUndo(pc) == Spend("faults") /\ cmd' = [cmd EXCEPT !.pc = pc, !.broken = TRUE]
Done(op) == cmd.op = op /\ cmd.pc = "done" /\ ~cmd.err

Privileged == scope = "user" \/ root

(***************************************************************************)
(* PrepareDirs: the directories of the instance, parents first, one by one *)
(* (ensureDir, createMissingDirs).  A failure takes the created ones away. *)
(***************************************************************************)
EnsureDir ==
    /\ At("install", "prepare")
    /\ \/ \E d \in Dirs \ dirs :
             /\ Parent[d] \in dirs \union {Root}
             /\ dirs' = dirs \union {d}
             /\ UNCHANGED <<cmd, left>>
       \/ Dirs \subseteq dirs /\ Go("prepared") /\ UNCHANGED <<dirs, left>>
       \/ Dirs \ dirs # {} /\ Fails("rmdirs") /\ UNCHANGED dirs
    /\ UNCHANGED <<setting, machine, instance, used>>

(* The end of a failed installation. *)
RollBackDirs ==
    /\ At("install", "rmdirs")
    /\ dirs' = RemoveCreatedDirs(cmd.created)
    /\ Go("done")
    /\ UNCHANGED <<setting, machine, instance, used, left>>

(***************************************************************************)
(* The command line: one command at a time, with its scope and privileges  *)
(* (serviceInstall, serviceUninstall, serviceStart, Stop, Restart).        *)
(***************************************************************************)
Begin(op, v) ==
    /\ cmd.pc = "done" /\ Spend("commands")
    /\ cmd' = [Idle EXCEPT !.op = op, !.pc = "check", !.ver = v]
    /\ UNCHANGED <<setting, machine, instance, files>>

BeginCommand ==
    \/ \E v \in Versions : Begin("install", v)
    \/ \E op \in {"uninstall", "start", "stop", "restart"} : Begin(op, None)

(* Ctrl-C: signal.NotifyContext cancels the context of the calls to come.  *)
Interrupt ==
    /\ cmd.pc # "done" /\ ~cmd.cut /\ Spend("interrupts")
    /\ cmd' = [cmd EXCEPT !.cut = TRUE]
    /\ UNCHANGED <<setting, machine, instance, files>>

Kill ==
    /\ cmd.pc # "done" /\ Spend("kills")
    /\ cmd' = [cmd EXCEPT !.op = "killed", !.pc = "done", !.err = TRUE]
    /\ UNCHANGED <<setting, machine, instance, files>>

(* Another program puts a file into a directory. *)
ForeignFile ==
    /\ Spend("crashes")
    /\ \E d \in dirs \ used : used' = used \union {d}
    /\ UNCHANGED <<setting, machine, instance, dirs, cmd>>

(***************************************************************************)
(* Instances.  "auto" is one that the supervisor starts again by itself,   *)
(* "draining" one that was asked to shut down.                             *)
(***************************************************************************)
(* A running instance makes its directories and writes into them. *)
WritesState == /\ dirs' = dirs \union Ancestors(StateDir)
               /\ used' = used \union {StateDir}
NoProc == [st |-> "none", ver |-> None, pid |-> 0]
Launched(v) == /\ proc' = [st |-> "running", ver |-> v, pid |-> (proc.pid + 1) % 3]
               /\ WritesState /\ UNCHANGED host
Off == [exec |-> "off", run |-> "none", late |-> FALSE]
Alive == proc.st \in {"starting", "running", "draining", "auto"}

Init ==
    /\ os \in Platforms
    /\ scope \in IF os = "windows" THEN {"system"} ELSE {"user", "system"}
    /\ root \in BOOLEAN /\ (scope = "user" => root)
    /\ reg \in Versions \union {None} /\ known = reg   \* nothing, or an instance that is installed
    /\ enabled \in IF os = "darwin" THEN BOOLEAN ELSE {reg # None}
    /\ proc = NoProc /\ host = Off
    /\ dirs \in {D \in SUBSET Dirs : /\ \A d \in D : Ancestors(d) \subseteq D
                                   /\ reg # None => D = Dirs}
    /\ used = {}
    /\ cmd = Idle
    /\ left = [faults |-> MaxFaults, interrupts |-> MaxInterrupts, kills |-> MaxKills,
               crashes |-> MaxCrashes,
               commands |-> MaxCommands]
=============================================================================
