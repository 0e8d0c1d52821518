---------------------------- MODULE ServiceProofs ----------------------------
(***************************************************************************)
(* The service commands on the three platforms, for any versions, any tree *)
(* of directories and any number of commands, faults, interrupts, kills,   *)
(* crashes and reboots.                                                    *)
(*                                                                         *)
(* None of the properties is inductive: whether an installation undoes     *)
(* what it did depends on where its command is and on what it knows of the *)
(* machine before.  The invariant of a platform therefore says, for every  *)
(* program counter, what holds of the registration, of what is loaded and  *)
(* of the boot setting (LinuxInstall, LaunchdForward and LaunchdBack,      *)
(* ScmCommandInv); on Windows also how what the SCM was told follows the   *)
(* process (ScmInv).  The directories are the same on all of them          *)
(* (DirsInv).                                                              *)
(*                                                                         *)
(* A step of a command is described by what it does to the command         *)
(* (Passes, Errs, Stops, Breaks, Adds) and to the machine (the effects of  *)
(* a call, or Rests).                                                      *)
(*                                                                         *)
(* The last section is about three decisions of module Decisions: they     *)
(* hold for every input, not only for those that the run enumerates.       *)
(***************************************************************************)
EXTENDS ServiceManagers, WellFoundedInduction, SequenceTheorems, TLAPS

Acl == INSTANCE ServiceAcl
Destinations == INSTANCE InstanceDestinations
Roots == INSTANCE LocalRoots

---------------------------------------------------------------------------
(* The invariant *)

\* The values of the variables.
ProcStates == {"none", "starting", "running", "draining", "auto", "failed"}
Ran == {"none", "up", "serving", "closing", "ended", "failed"}
Executes == {"off", "resolve", "wait", "serve", "stopping", "quit"}
Notes == {"changed", "loaded", "disabled", "replaced", "bootstrapped"}
Version == Versions \union {None}
Ops == {"none", "killed", "install", "uninstall", "start", "stop", "restart"}
\* The program counters of an installation before it changes the registration.
Begun == {"check", "prepare", "prepared", "preflight", "write", "register"}
Places ==
    Begun \union
    {"reload", "enable", "unwrite", "unreload", "rmdirs", "done",
     "disable", "remove", "call", "look",
     "print", "overrides", "load", "replace", "replaced", "bootstrap", "bootstrapped",
     "unload", "restore", "again", "overridden", "bootout", "kill", "wait",
     "start", "ensure", "kickstart", "query", "control", "delete"}
Command == [op : Ops, pc : Places, err : BOOLEAN, broken : BOOLEAN, cut : BOOLEAN,
            ver : Version,
            saved : [reg : Version, known : Version, enabled : BOOLEAN, dirs : SUBSET Dirs],
            created : SUBSET Dirs, pid : Nat, note : SUBSET (Notes \union {"delivered"})]

\* The types, and what an interrupt leaves behind.
ServiceType ==
    /\ TypeOK
    /\ proc \in [st : ProcStates, ver : Version, pid : Nat]
    /\ host \in [exec : Executes, run : Ran, late : BOOLEAN]
    /\ left \in [faults : Nat, interrupts : Nat, kills : Nat, crashes : Nat, commands : Nat]
    /\ cmd \in Command
    /\ left.interrupts <= MaxInterrupts
    /\ cmd.cut => left.interrupts < MaxInterrupts
    /\ cmd.op = "install" => cmd.ver \in Versions

Installing == cmd.op = "install"

\* The directories of an installation: those that were there are there,
\* the others are its own or hold something.
DirsInv ==
    /\ Installing => /\ cmd.saved.dirs \subseteq dirs
                     /\ cmd.created \cap cmd.saved.dirs = {}
                     /\ cmd.pc = "check" => cmd.created = {}
                     /\ cmd.pc = "prepare" => Dirs \ cmd.created \subseteq dirs
    /\ Installing /\ cmd.pc # "done"
         => \A d \in dirs : d \in cmd.saved.dirs \/ d \in cmd.created \/ Kept(d)
    /\ FailedInstall => \A d \in dirs \ cmd.saved.dirs : Kept(d)

\* The registration is the one that the command found.
AsSaved == reg = cmd.saved.reg /\ known = cmd.saved.known /\ enabled = cmd.saved.enabled
Failed == Installing /\ cmd.err /\ cmd.pc \in {"rmdirs", "done"}

\* An installation on Linux, by its program counter.
LinuxInstall ==
    /\ cmd.pc \in Begun => ~cmd.err /\ AsSaved
    /\ cmd.pc = "reload" => ~cmd.err /\ reg = cmd.ver /\ enabled = cmd.saved.enabled
    /\ cmd.pc = "enable" => ~cmd.err /\ reg = cmd.ver /\ enabled = cmd.saved.enabled
    /\ cmd.pc \in {"unwrite", "unreload", "rmdirs"}
         => cmd.err /\ (~cmd.cut => enabled = cmd.saved.enabled)
    /\ cmd.pc = "unreload" /\ ~cmd.broken => reg = cmd.saved.reg
    /\ Failed /\ ~cmd.broken => reg = cmd.saved.reg /\ known \in {cmd.saved.known, cmd.saved.reg}
    /\ Failed /\ ~cmd.cut => enabled = cmd.saved.enabled
    /\ Done("install") => reg = cmd.ver /\ known = cmd.ver /\ enabled
    /\ cmd.pc # "done" /\ cmd.saved.reg = None => ~Alive

\* A running unit is registered and loaded; an uninstallation has stopped it.
LinuxInv ==
    os = "linux" =>
      /\ proc.st \in {"none", "running", "auto"}
      /\ Alive => reg # None /\ known # None
      /\ Installing => LinuxInstall
      /\ cmd.op = "uninstall" /\ cmd.pc \in {"remove", "reload"} => ~Alive
      /\ At("uninstall", "reload") => reg = None
      /\ cmd.pc = "call" => reg # None
      /\ Done("uninstall") => ~Alive /\ reg = None
      /\ Done("stop") => ~Alive

\* What the notes of an installation on macOS say of the state before it.
Noted ==
    /\ "changed" \in cmd.note <=> cmd.saved.reg # cmd.ver
    /\ "loaded" \in cmd.note <=> cmd.saved.known # None
Overrides ==
    /\ "disabled" \in cmd.note => ~cmd.saved.enabled
    /\ "loaded" \in cmd.note
         => cmd.saved.known # None /\ (cmd.saved.enabled \/ "disabled" \in cmd.note \/ cmd.broken)
    /\ "replaced" \in cmd.note => "loaded" \in cmd.note
\* How far the replacement of the job has come.
Fresh == "replaced" \notin cmd.note /\ "bootstrapped" \notin cmd.note
Replacing == {"loaded", "changed"} \subseteq cmd.note
Making == "bootstrapped" \in cmd.note /\ "loaded" \notin cmd.note

\* An installation on macOS on its way.
LaunchdForward ==
    /\ cmd.pc \in Begun => ~cmd.err /\ AsSaved /\ cmd.note = {}
    /\ cmd.pc \in {"print", "overrides"}
         => /\ known = cmd.saved.known /\ cmd.note \subseteq {"changed"}
            /\ "changed" \in cmd.note <=> cmd.saved.reg # cmd.ver
    /\ cmd.pc \in {"load", "replace", "replaced", "bootstrap", "bootstrapped", "enable"}
         => Noted /\ Overrides
    /\ cmd.pc \in {"print", "overrides", "load", "replace", "replaced", "bootstrap", "bootstrapped", "enable"}
         => ~cmd.err /\ reg = cmd.ver /\ enabled = cmd.saved.enabled
    /\ cmd.pc = "load" => known = cmd.saved.known /\ Fresh
    /\ cmd.pc = "replace" => known = cmd.saved.known /\ Fresh /\ Replacing
    /\ cmd.pc = "replaced" => known = None /\ Fresh /\ Replacing
    /\ cmd.pc \in {"bootstrap", "bootstrapped"}
         => /\ "bootstrapped" \notin cmd.note
            /\ "replaced" \in cmd.note \/ "loaded" \notin cmd.note
            /\ known = IF cmd.pc = "bootstrap" THEN None ELSE cmd.ver
    /\ cmd.pc = "enable"
         => \/ /\ "bootstrapped" \in cmd.note /\ known = cmd.ver
               /\ "replaced" \in cmd.note \/ "loaded" \notin cmd.note
            \/ known = cmd.saved.known /\ Fresh /\ cmd.saved.reg = cmd.ver
    /\ Done("install") => reg = cmd.ver /\ enabled /\ (known = cmd.ver \/ cmd.saved.reg = cmd.ver)

\* Its roll-back, as far as no interrupt cancelled it.
LaunchdBack ==
    /\ cmd.pc \in {"unload", "restore", "again", "overridden", "rmdirs"} => cmd.err
    /\ cmd.pc \in {"unload", "restore", "again", "overridden"} /\ ~cmd.cut
         => enabled = cmd.saved.enabled /\ Overrides
    /\ cmd.pc = "unload" /\ ~cmd.cut
         => /\ Making => cmd.saved.known = None
            /\ "replaced" \in cmd.note \/ Making \/ known = cmd.saved.known
    /\ cmd.pc = "restore" /\ ~cmd.cut => "replaced" \in cmd.note \/ known = cmd.saved.known
    /\ cmd.pc = "again" /\ ~cmd.cut => reg = cmd.saved.reg /\ "replaced" \in cmd.note
    /\ cmd.pc = "overridden" /\ ~cmd.cut
         => reg = cmd.saved.reg /\ known \in {cmd.saved.known, cmd.saved.reg}
    /\ Failed /\ ~cmd.cut /\ ~cmd.broken
         => /\ reg = cmd.saved.reg /\ known \in {cmd.saved.known, cmd.saved.reg}
            /\ enabled = cmd.saved.enabled

\* A running job is loaded, and a loaded one registered, unless an interrupt has
\* left an installation half done.
LaunchdInv ==
    os = "darwin" =>
      /\ proc.st \in {"none", "running", "draining", "auto"}
      /\ ~HalfInstalled => (Alive => known # None) /\ (known # None => reg # None)
      /\ Installing => LaunchdForward /\ LaunchdBack
      /\ Installing /\ ~HalfInstalled /\ cmd.saved.known # None => cmd.saved.reg # None
      /\ At("uninstall", "remove") => ~Alive /\ known = None
      /\ cmd.pc \in {"ensure", "kickstart"} => cmd.op \in {"start", "restart"}
      /\ cmd.pc = "ensure" => reg # None
      /\ Done("uninstall") => reg = None
      /\ ~HalfInstalled /\ (Done("uninstall") \/ Done("stop")) => ~Alive

\* The commands on Windows, by their program counters.
ScmCommandInv ==
    /\ Installing =>
         /\ cmd.pc \in Begun \union {"rmdirs"} \/ Failed => AsSaved
         /\ cmd.pc \in Begun => ~cmd.err
         /\ cmd.pc = "rmdirs" => cmd.err
         /\ Done("install") => reg = cmd.ver /\ enabled
    /\ cmd.pc \in {"query", "control"} => cmd.op \in {"uninstall", "stop", "restart"}
    /\ cmd.pc \in {"query", "control", "start"} => reg # None
    /\ cmd.pc = "delete" => ~Alive
    /\ Done("uninstall") \/ Done("stop") => ~Alive
    /\ Done("uninstall") => reg = None

\* The registration, what the SCM was told, and the process behind it.
ScmInv ==
    os = "windows" =>
      /\ known = reg /\ (Alive => reg # None)
      /\ proc.st = "starting" <=> host.exec \in {"resolve", "wait", "quit"}
      /\ proc.st = "running" <=> host.exec = "serve"
      /\ proc.st = "draining" <=> host.exec = "stopping"
      /\ proc.st # "auto"
      /\ host.exec = "resolve" => host.run = "none"
      /\ host.exec = "off" /\ ~host.late => host.run \in {"none", "ended", "failed"}
      /\ ScmCommandInv

IInv == ServiceType /\ DirsInv /\ LinuxInv /\ LaunchdInv /\ ScmInv
---------------------------------------------------------------------------
(* Directories *)

\* The instance has a directory for its state, and a directory is its own
\* ancestor.
LEMMA Above ==
    /\ StateDir \in Dirs /\ StateDir \in Ancestors(StateDir)
    /\ \A d : Ancestors(d) \subseteq Dirs
    /\ \A d \in Dirs : d \in Ancestors(d)
<1>1. Leaves # {}
  BY MachineAssumption DEF Leaves
<1>2. StateDir \in Dirs
  BY <1>1 DEF StateDir, Leaves
<1> QED
  BY <1>2 DEF Ancestors

\* Versions are numbers other than 0, which stands for none.
LEMMA Constants ==
    /\ None = 0 /\ None \in Version /\ None \notin Versions /\ Versions \subseteq Version
    /\ Version \subseteq Nat /\ MaxInterrupts \in Nat
  BY MachineAssumption DEF None, Version

\* The machine starts within its types.
LEMMA InitType == ASSUME Init PROVE ServiceType
<1>1. {D \in SUBSET Dirs : /\ \A d \in D : Ancestors(d) \subseteq D
                           /\ reg # None => D = Dirs} \subseteq SUBSET Dirs
  OBVIOUS
<1>2. dirs \in SUBSET Dirs /\ used = {}
  BY <1>1 DEF Init
<1>3. scope \in {"user", "system"} /\ root \in BOOLEAN /\ enabled \in BOOLEAN
  BY DEF Init
<1>4. reg \in Version /\ known \in Version
  BY DEF Init, Version
<1>5. cmd \in Command
  <2>1. Saved \in [reg : Version, known : Version, enabled : BOOLEAN, dirs : SUBSET Dirs]
    BY <1>2, <1>3, <1>4 DEF Saved
  <2>2. cmd = Idle
    BY DEF Init
  <2> HIDE DEF Saved
  <2> QED
    BY <2>1, <2>2, Constants DEF Idle, Command, Ops, Places
<1>6. left \in [faults : Nat, interrupts : Nat, kills : Nat, crashes : Nat, commands : Nat]
  BY MachineAssumption DEF Init
<1>7. proc \in [st : ProcStates, ver : Version, pid : Nat]
  BY Constants DEF Init, NoProc, ProcStates
<1>8. host \in [exec : Executes, run : Ran, late : BOOLEAN]
  BY DEF Init, Off, Executes, Ran
<1> QED
  BY <1>2, <1>3, <1>4, <1>5, <1>6, <1>7, <1>8, Constants
  DEF ServiceType, TypeOK, Init, NoProc, Idle, Version
\* What a step of a command leaves of it.
Counts == [faults : Nat, interrupts : Nat, kills : Nat, crashes : Nat, commands : Nat]
Advances ==
    /\ cmd' \in Command /\ cmd'.op = cmd.op /\ cmd'.ver = cmd.ver /\ cmd'.saved = cmd.saved
    /\ left' \in Counts /\ left'.interrupts <= left.interrupts
    /\ cmd'.cut => cmd.cut \/ left'.interrupts < left.interrupts
\* The types of the parts of the machine after a step.
MachineTyped == reg' \in Version /\ known' \in Version /\ enabled' \in BOOLEAN
ProcTyped ==
    /\ proc' \in [st : ProcStates, ver : Version, pid : Nat]
    /\ host' \in [exec : Executes, run : Ran, late : BOOLEAN]
FilesTyped == dirs' \subseteq Dirs /\ used' \subseteq dirs'

\* A step that keeps the command in its frame keeps every variable in its
\* type.
LEMMA AdvanceType ==
    ASSUME ServiceType, UNCHANGED setting, Advances, MachineTyped, ProcTyped, FilesTyped
    PROVE  ServiceType'
<1>1. proc'.st \in ProcStates
  BY DEF ProcTyped
<1>2. left'.interrupts \in Nat /\ left.interrupts \in Nat
  BY DEF Advances, Counts, ServiceType
<1>3. /\ left'.interrupts <= MaxInterrupts
      /\ cmd'.cut => left'.interrupts < MaxInterrupts
  BY <1>2, Constants DEF Advances, ServiceType
<1>4. TypeOK'
  BY <1>1 DEF ServiceType, TypeOK, MachineTyped, FilesTyped, setting, ProcStates, Version
<1> QED
  BY <1>3, <1>4 DEF ServiceType, Advances, ProcTyped, Counts

\* The types, piece by piece.
LEMMA CommandIs ==
    ASSUME ServiceType
    PROVE  /\ cmd \in Command /\ cmd.saved.reg \in Version /\ cmd.saved.known \in Version
           /\ cmd.saved.enabled \in BOOLEAN /\ cmd.ver \in Version /\ left \in Counts
           /\ reg \in Version /\ known \in Version /\ enabled \in BOOLEAN
           /\ left.interrupts \in Nat /\ left.faults \in Nat
  BY DEF ServiceType, TypeOK, Command, Version, Counts

\* An instance that is launched stays within the types.
LEMMA LaunchedTyped ==
    ASSUME ServiceType, NEW v \in Version, Launched(v)
    PROVE  ProcTyped /\ FilesTyped
  BY Above DEF Launched, WritesState, ProcTyped, FilesTyped, ServiceType, TypeOK, ProcStates

\* Go moves the program counter and nothing else.
LEMMA GoAdvances ==
    ASSUME ServiceType, UNCHANGED left, NEW q \in Places, Go(q)
    PROVE  Advances /\ cmd'.pc = q /\ cmd'.err = cmd.err /\ cmd'.broken = cmd.broken
           /\ cmd'.cut = cmd.cut /\ cmd'.created = cmd.created /\ cmd'.note = cmd.note
  BY CommandIs DEF Go, Advances, Command

\* A call that fails spends a fault and records the error.
LEMMA FailsAdvances ==
    ASSUME ServiceType, NEW q \in Places, Fails(q)
    PROVE  Advances /\ cmd'.pc = q /\ cmd'.err /\ cmd'.broken = cmd.broken
           /\ cmd'.cut = cmd.cut /\ cmd'.created = cmd.created /\ cmd'.note = cmd.note
<1>1. left' \in Counts /\ left'.interrupts = left.interrupts
  BY CommandIs DEF Fails, Spend, Counts
<1>2. cmd' = [cmd EXCEPT !.pc = q, !.err = TRUE]
  BY DEF Fails
<1>3. cmd' \in Command
  BY <1>1, <1>2, CommandIs DEF Command
<1>4. /\ cmd'.op = cmd.op /\ cmd'.ver = cmd.ver /\ cmd'.saved = cmd.saved
      /\ cmd'.created = cmd.created /\ cmd'.note = cmd.note
  BY <1>1, <1>2, CommandIs DEF Command
<1> QED
  BY <1>1, <1>2, <1>3, <1>4, CommandIs DEF Advances, Command, Counts

\* A step of a roll-back that fails marks the command as broken.
LEMMA FailsToUndoAdvances ==
    ASSUME ServiceType, NEW q \in Places, FailsToUndo(q)
    PROVE  Advances /\ cmd'.pc = q /\ cmd'.err = cmd.err /\ cmd'.broken
           /\ cmd'.cut = cmd.cut /\ cmd'.created = cmd.created /\ cmd'.note = cmd.note
<1>1. left' \in Counts /\ left'.interrupts = left.interrupts
  BY CommandIs DEF FailsToUndo, Spend, Counts
<1>2. cmd' = [cmd EXCEPT !.pc = q, !.broken = TRUE]
  BY DEF FailsToUndo
<1>3. cmd' \in Command
  BY <1>1, <1>2, CommandIs DEF Command
<1>4. /\ cmd'.op = cmd.op /\ cmd'.ver = cmd.ver /\ cmd'.saved = cmd.saved
      /\ cmd'.created = cmd.created /\ cmd'.note = cmd.note
  BY <1>1, <1>2, CommandIs DEF Command
<1> QED
  BY <1>1, <1>2, <1>3, <1>4, CommandIs DEF Advances, Command, Counts

\* A refusal ends the command with an error.
LEMMA RefuseAdvances ==
    ASSUME ServiceType, Refuse, UNCHANGED left
    PROVE  Advances /\ cmd'.pc = "done" /\ cmd'.err /\ cmd'.broken = cmd.broken
           /\ cmd'.cut = cmd.cut /\ cmd'.created = cmd.created /\ cmd'.note = cmd.note
<1>1. cmd' = [cmd EXCEPT !.pc = "done", !.err = TRUE] /\ "done" \in Places
  BY DEF Refuse, Places
<1>3. cmd' \in Command
  BY <1>1, CommandIs DEF Command
<1>4. /\ cmd'.op = cmd.op /\ cmd'.ver = cmd.ver /\ cmd'.saved = cmd.saved
      /\ cmd'.created = cmd.created /\ cmd'.note = cmd.note
  BY <1>1, CommandIs DEF Command
<1> QED
  BY <1>1, <1>3, <1>4, CommandIs DEF Advances, Command, Counts

\* Note moves the program counter and adds to the notes.
LEMMA NoteAdvances ==
    ASSUME ServiceType, UNCHANGED left, NEW q \in Places,
           NEW n \in Notes \union {"delivered"}, Note(q, n)
    PROVE  Advances /\ cmd'.pc = q /\ cmd'.err = cmd.err /\ cmd'.broken = cmd.broken
           /\ cmd'.cut = cmd.cut /\ cmd'.created = cmd.created /\ cmd'.note = cmd.note \union {n}
<1> DEFINE Marks == SUBSET (Notes \union {"delivered"})
<1>1. cmd.note \in Marks /\ cmd.note \union {n} \in Marks
  BY CommandIs DEF Command
<1>2. cmd' = [cmd EXCEPT !.pc = q, !.note = cmd.note \union {n}]
  BY CommandIs DEF Note, Command
<1>3. cmd \in [op : Ops, pc : Places, err : BOOLEAN, broken : BOOLEAN, cut : BOOLEAN, ver : Version,
               saved : [reg : Version, known : Version, enabled : BOOLEAN, dirs : SUBSET Dirs],
               created : SUBSET Dirs, pid : Nat, note : Marks]
  BY CommandIs DEF Command
<1>4. cmd' \in Command /\ cmd'.op = cmd.op /\ cmd'.pc = q /\ cmd'.note = cmd.note \union {n}
  <2> HIDE DEF Marks
  <2>1. cmd' \in [op : Ops, pc : Places, err : BOOLEAN, broken : BOOLEAN, cut : BOOLEAN, ver : Version,
                  saved : [reg : Version, known : Version, enabled : BOOLEAN, dirs : SUBSET Dirs],
                  created : SUBSET Dirs, pid : Nat, note : Marks]
    BY <1>1, <1>2, <1>3
  <2> QED
    BY <1>2, <1>3, <2>1 DEF Command, Marks
<1> QED
  BY <1>2, <1>3, <1>4, CommandIs DEF Advances
\* A step of a command other than its check and the ones that make or take
\* away directories.
FilesGrow ==
    \/ dirs' = dirs /\ used' = used
    \/ dirs' = dirs \union Ancestors(StateDir) /\ used' = used \union {StateDir}
Typed == MachineTyped /\ ProcTyped /\ FilesTyped /\ FilesGrow
Moves ==
    /\ Advances /\ Typed
    /\ cmd'.created = cmd.created
    /\ cmd'.pc \notin {"check", "prepare"}
    /\ Installing => cmd.pc # "done" /\ ~(cmd'.pc = "done" /\ cmd'.err)

\* A machine that is not touched keeps its types.
LEMMA UntouchedTyped == ASSUME ServiceType, Untouched PROVE Typed
  BY CommandIs DEF Typed, Untouched, MachineTyped, ProcTyped, FilesTyped, FilesGrow,
     machine, instance, files, ServiceType, TypeOK

\* A launch beside an unchanged registration.
LEMMA LaunchedGrows ==
    ASSUME ServiceType, NEW v \in Version, Launched(v), UNCHANGED machine
    PROVE  Typed /\ proc'.st = "running"
  BY LaunchedTyped, CommandIs DEF Launched, WritesState, Typed, FilesGrow, MachineTyped, machine

\* A call that is interrupted when it has taken effect.
LEMMA InterruptedAdvances ==
    ASSUME ServiceType, NEW q \in Places, Spend("interrupts"),
           cmd' = [cmd EXCEPT !.pc = q, !.err = TRUE, !.cut = TRUE]
    PROVE  Advances /\ cmd'.pc = q /\ cmd'.err /\ cmd'.broken = cmd.broken
           /\ cmd'.cut /\ cmd'.created = cmd.created /\ cmd'.note = cmd.note
           /\ left'.interrupts < MaxInterrupts
<1>1. left' \in Counts /\ left'.interrupts < left.interrupts /\ left.interrupts <= MaxInterrupts
  BY CommandIs DEF Spend, Counts, ServiceType
<1>2. cmd' \in Command
  BY CommandIs DEF Command
<1>3. /\ cmd'.op = cmd.op /\ cmd'.ver = cmd.ver /\ cmd'.saved = cmd.saved
      /\ cmd'.created = cmd.created /\ cmd'.note = cmd.note
  BY CommandIs DEF Command
<1>4. left'.interrupts \in Nat
  BY <1>1 DEF Counts
<1> QED
  BY <1>1, <1>2, <1>3, <1>4, CommandIs, Constants DEF Advances, Command, Counts

\* A call that is not made: its context is cancelled.
LEMMA CutAdvances ==
    ASSUME ServiceType, NEW q \in Places, UNCHANGED left,
           cmd' = [cmd EXCEPT !.pc = q, !.err = TRUE]
    PROVE  Advances /\ cmd'.pc = q /\ cmd'.err /\ cmd'.broken = cmd.broken
           /\ cmd'.cut = cmd.cut /\ cmd'.created = cmd.created /\ cmd'.note = cmd.note
<1>2. cmd' \in Command
  BY CommandIs DEF Command
<1>3. /\ cmd'.op = cmd.op /\ cmd'.ver = cmd.ver /\ cmd'.saved = cmd.saved
      /\ cmd'.created = cmd.created /\ cmd'.note = cmd.note
  BY CommandIs DEF Command
<1> QED
  BY <1>2, <1>3, CommandIs DEF Advances, Command

\* The outcomes of a step: it is made, it fails, it is interrupted when it
\* has taken effect, or a roll-back cannot make it.
Moved(q) ==
    /\ Advances /\ cmd'.pc = q /\ cmd'.created = cmd.created /\ cmd'.note = cmd.note
    /\ cmd'.op = cmd.op /\ cmd'.ver = cmd.ver /\ cmd'.saved = cmd.saved
Passes(q) == Moved(q) /\ cmd'.err = cmd.err /\ cmd'.broken = cmd.broken /\ cmd'.cut = cmd.cut
Errs(q) == Moved(q) /\ cmd'.err /\ cmd'.broken = cmd.broken /\ cmd'.cut = cmd.cut
Stops(q) == Moved(q) /\ cmd'.err /\ cmd'.broken = cmd.broken /\ cmd'.cut
            /\ left'.interrupts < MaxInterrupts
Breaks(q) == Moved(q) /\ cmd'.err = cmd.err /\ cmd'.broken /\ cmd'.cut = cmd.cut

\* The steps of a command, by what they do to it.
LEMMA Outcomes ==
    ASSUME ServiceType, NEW q \in Places
    PROVE  /\ Go(q) /\ UNCHANGED left => Passes(q)
           /\ Fails(q) => Errs(q)
           /\ UNCHANGED left /\ cmd' = [cmd EXCEPT !.pc = q, !.err = TRUE] => Errs(q)
           /\ Refuse /\ UNCHANGED left => Errs("done")
           /\ Spend("interrupts") /\ cmd' = [cmd EXCEPT !.pc = q, !.err = TRUE, !.cut = TRUE] => Stops(q)
           /\ FailsToUndo(q) => Breaks(q)
<1>1. Advances => cmd'.op = cmd.op /\ cmd'.ver = cmd.ver /\ cmd'.saved = cmd.saved
  BY DEF Advances
<1>2. Go(q) /\ UNCHANGED left => Passes(q)
  BY <1>1, GoAdvances DEF Moved, Passes
<1>3. Fails(q) => Errs(q)
  BY <1>1, FailsAdvances DEF Moved, Errs
<1>4. UNCHANGED left /\ cmd' = [cmd EXCEPT !.pc = q, !.err = TRUE] => Errs(q)
  BY <1>1, CutAdvances DEF Moved, Errs
<1>5. Refuse /\ UNCHANGED left => Errs("done")
  BY <1>1, RefuseAdvances DEF Moved, Errs
<1>6. Spend("interrupts") /\ cmd' = [cmd EXCEPT !.pc = q, !.err = TRUE, !.cut = TRUE] => Stops(q)
  BY <1>1, InterruptedAdvances DEF Moved, Stops
<1>7. FailsToUndo(q) => Breaks(q)
  BY <1>1, FailsToUndoAdvances DEF Moved, Breaks
<1> QED
  BY <1>2, <1>3, <1>4, <1>5, <1>6, <1>7

\* The machine rests.
Rests == /\ reg' = reg /\ known' = known /\ enabled' = enabled
         /\ proc' = proc /\ host' = host /\ dirs' = dirs /\ used' = used

\* What is not touched rests.
LEMMA UntouchedIs == ASSUME ServiceType, Untouched PROVE Typed /\ Rests
  BY UntouchedTyped DEF Untouched, Rests, machine, instance, files

\* Program counters of Linux and of all platforms.
LEMMA PlacesAre ==
    /\ {"done", "rmdirs", "prepare", "prepared", "preflight", "write", "register"} \subseteq Places
    /\ {"reload", "enable", "unwrite", "unreload", "disable", "remove", "call", "look"} \subseteq Places
  BY DEF Places, Begun

---------------------------------------------------------------------------
(* The frame of a command *)

\* The check of an installation: it goes on and knows what it will create,
\* or it refuses.
Checks ==
    /\ Advances /\ Typed /\ Rests
    /\ \/ /\ cmd'.pc = "prepare" /\ cmd'.created = CreatedDirs /\ cmd'.note = cmd.note
          /\ cmd'.op = cmd.op /\ cmd'.ver = cmd.ver /\ cmd'.saved = cmd.saved
          /\ cmd'.err = cmd.err /\ cmd'.broken = cmd.broken /\ cmd'.cut = cmd.cut
       \/ Errs("done")

\* The check of the three installations is Checks.
LEMMA ChecksIs ==
    ASSUME ServiceType, Untouched, UNCHANGED left,
           \/ Privileged /\ cmd' = [cmd EXCEPT !.pc = "prepare", !.created = CreatedDirs]
           \/ Refuse
    PROVE  Checks
<1>1. CASE cmd' = [cmd EXCEPT !.pc = "prepare", !.created = CreatedDirs]
  <2>1. cmd' \in Command
    BY <1>1, CommandIs, PlacesAre DEF Command, CreatedDirs
  <2>2. /\ cmd'.op = cmd.op /\ cmd'.ver = cmd.ver /\ cmd'.saved = cmd.saved
        /\ cmd'.created = CreatedDirs /\ cmd'.note = cmd.note
    BY <1>1, CommandIs DEF Command
  <2> QED
    BY <1>1, <2>1, <2>2, CommandIs, UntouchedIs DEF Checks, Advances, Command
<1>2. CASE Refuse
  BY <1>2, Outcomes, PlacesAre, UntouchedIs DEF Checks, Errs, Moved
<1> QED
  BY <1>1, <1>2

\* A directory is made or taken away, and the rest of the machine rests.
Prepares ==
    /\ Advances /\ FilesTyped /\ os' = os
    /\ reg' = reg /\ known' = known /\ enabled' = enabled /\ proc' = proc /\ host' = host
    /\ used' = used /\ cmd.op = "install"
    /\ \/ /\ cmd.pc = "prepare"
          /\ \/ /\ cmd' = cmd /\ left' = left
                /\ \E d \in Dirs \ dirs : dirs' = dirs \union {d}
             \/ dirs' = dirs /\ (Passes("prepared") \/ Errs("rmdirs"))
       \/ cmd.pc = "rmdirs" /\ Passes("done") /\ dirs' = RemoveCreatedDirs(cmd.created)

\* PrepareDirs and the end of a failed installation are Prepares.
LEMMA PreparesIs == ASSUME ServiceType, EnsureDir \/ RollBackDirs PROVE Prepares /\ ServiceType'
<1>0. used \subseteq dirs /\ dirs \subseteq Dirs
  BY DEF ServiceType, TypeOK
<1>1. Prepares
  <2>1. CASE EnsureDir
    <3>1. /\ At("install", "prepare") /\ used' = used
          /\ \/ cmd' = cmd /\ left' = left /\ \E d \in Dirs \ dirs : dirs' = dirs \union {d}
             \/ dirs' = dirs /\ (Passes("prepared") \/ Errs("rmdirs"))
      BY <2>1, Outcomes, PlacesAre DEF EnsureDir
    <3>2. FilesTyped
      BY <1>0, <3>1 DEF FilesTyped
    <3>3. Advances
      BY <3>1, CommandIs DEF Passes, Errs, Moved, Advances
    <3> QED
      BY <2>1, <3>1, <3>2, <3>3 DEF EnsureDir, Prepares, At, setting, machine, instance
  <2>2. CASE RollBackDirs
    <3>1. Passes("done")
      BY <2>2, Outcomes, PlacesAre DEF RollBackDirs
    <3>2. dirs' = RemoveCreatedDirs(cmd.created) /\ used' = used
      BY <2>2 DEF RollBackDirs
    <3>3. used' \subseteq dirs'
      BY <1>0, <3>2, Above DEF RemoveCreatedDirs
    <3>4. FilesTyped
      BY <1>0, <3>2, <3>3 DEF FilesTyped, RemoveCreatedDirs
    <3> QED
      BY <2>2, <3>1, <3>2, <3>4
      DEF RollBackDirs, Prepares, At, setting, machine, instance, Passes, Moved
  <2> QED
    BY <2>1, <2>2
<1>2. MachineTyped /\ ProcTyped
  BY <1>1, CommandIs DEF Prepares, MachineTyped, ProcTyped, ServiceType
<1>3. UNCHANGED setting
  BY DEF EnsureDir, RollBackDirs
<1> QED
  BY <1>1, <1>2, <1>3, AdvanceType DEF Prepares

\* A command begins: it remembers the machine as it is.
Begins ==
    /\ os' = os /\ reg' = reg /\ known' = known /\ enabled' = enabled
    /\ proc' = proc /\ host' = host /\ dirs' = dirs /\ used' = used
    /\ cmd'.op \in Ops /\ cmd'.pc = "check" /\ cmd'.created = {} /\ cmd'.note = {}
    /\ ~cmd'.err /\ ~cmd'.broken /\ ~cmd'.cut
    /\ cmd'.saved.reg = reg /\ cmd'.saved.known = known
    /\ cmd'.saved.enabled = enabled /\ cmd'.saved.dirs = dirs
    /\ left'.interrupts = left.interrupts

\* What a command remembers of the machine is well typed.
LEMMA SavedType ==
    ASSUME ServiceType
    PROVE  /\ Saved \in [reg : Version, known : Version, enabled : BOOLEAN, dirs : SUBSET Dirs]
           /\ Idle \in Command
<1>1. Saved \in [reg : Version, known : Version, enabled : BOOLEAN, dirs : SUBSET Dirs]
  BY CommandIs DEF Saved, ServiceType, TypeOK
<1> HIDE DEF Saved
<1> QED
  BY <1>1, Constants DEF Idle, Command, Ops, Places

\* A command that begins is Begins.
LEMMA BeginsIs == ASSUME ServiceType, BeginCommand PROVE Begins /\ ServiceType'
<1>1. PICK op \in Ops, v \in Version :
          Begin(op, v) /\ (op = "install" => v \in Versions)
  BY Constants DEF BeginCommand, Ops
<1>2. cmd' = [Idle EXCEPT !.op = op, !.pc = "check", !.ver = v] /\ "check" \in Places
  BY <1>1 DEF Begin, Places, Begun
<1>3. left' \in Counts /\ left'.interrupts = left.interrupts
  BY <1>1, CommandIs DEF Begin, Spend, Counts
<1>4. cmd' \in Command
  <2> HIDE DEF Idle
  <2> QED
    BY <1>2, SavedType DEF Command
<1>5. /\ cmd'.op = op /\ cmd'.pc = "check" /\ cmd'.ver = v
      /\ ~cmd'.err /\ ~cmd'.broken /\ ~cmd'.cut /\ cmd'.created = {} /\ cmd'.note = {}
      /\ cmd'.saved = Saved
  BY <1>2 DEF Idle
<1>6. /\ cmd'.saved.reg = reg /\ cmd'.saved.known = known
      /\ cmd'.saved.enabled = enabled /\ cmd'.saved.dirs = dirs
  BY <1>5 DEF Saved
<1>7. UNCHANGED <<os, scope, root, reg, known, enabled, proc, host, dirs, used>>
  BY <1>1 DEF Begin, setting, machine, instance, files
<1>8. Begins
  BY <1>3, <1>5, <1>6, <1>7 DEF Begins
<1>9. ServiceType'
  <2>1. TypeOK'
    BY <1>7 DEF ServiceType, TypeOK
  <2> QED
    BY <2>1, <1>1, <1>3, <1>4, <1>5, <1>7 DEF ServiceType, Counts
<1> QED
  BY <1>8, <1>9

\* The command ends without a word of its own: it is killed, or the machine
\* starts again.
Dies == cmd'.op \in {"none", "killed"} /\ cmd'.pc = "done" /\ left'.interrupts = left.interrupts

\* A killed command changes nothing on the machine.
LEMMA KillIs == ASSUME ServiceType, Kill PROVE Dies /\ Rests /\ os' = os /\ ServiceType'
<1>1. left' \in Counts /\ left'.interrupts = left.interrupts
  BY CommandIs DEF Kill, Spend, Counts
<1>2. cmd' = [cmd EXCEPT !.op = "killed", !.pc = "done", !.err = TRUE]
      /\ "killed" \in Ops /\ "done" \in Places
  BY DEF Kill, Ops, Places
<1>3. cmd' \in Command
  BY <1>2, CommandIs DEF Command
<1>4. cmd'.op = "killed" /\ cmd'.pc = "done"
  BY <1>2, CommandIs DEF Command
<1>5. cmd'.cut => cmd.cut
  BY <1>2, CommandIs DEF Command
<1>6. UNCHANGED <<os, scope, root, reg, known, enabled, proc, host, dirs, used>>
  BY DEF Kill, setting, machine, instance, files
<1>7. TypeOK'
  BY <1>6 DEF ServiceType, TypeOK
<1> QED
  BY <1>1, <1>3, <1>4, <1>5, <1>6, <1>7 DEF Dies, Rests, ServiceType, Counts

\* An interrupt cancels the context of the calls to come.
Interrupts ==
    /\ Advances /\ Rests /\ os' = os
    /\ cmd'.pc = cmd.pc /\ cmd.pc # "done" /\ cmd'.created = cmd.created /\ cmd'.note = cmd.note
    /\ cmd'.err = cmd.err /\ cmd'.broken = cmd.broken /\ cmd'.cut
    /\ left'.interrupts < MaxInterrupts

\* An interrupt is Interrupts.
LEMMA InterruptIs == ASSUME ServiceType, Interrupt PROVE Interrupts /\ ServiceType'
<1>1. left' \in Counts /\ left'.interrupts < left.interrupts /\ left.interrupts <= MaxInterrupts
  BY CommandIs DEF Interrupt, Spend, Counts, ServiceType
<1>2. cmd' = [cmd EXCEPT !.cut = TRUE] /\ cmd.pc # "done"
  BY DEF Interrupt
<1>3. cmd' \in Command
  BY <1>2, CommandIs DEF Command
<1>4. /\ cmd'.op = cmd.op /\ cmd'.pc = cmd.pc /\ cmd'.ver = cmd.ver /\ cmd'.saved = cmd.saved
      /\ cmd'.created = cmd.created /\ cmd'.note = cmd.note
  BY <1>2, CommandIs DEF Command
<1>5. cmd'.err = cmd.err /\ cmd'.broken = cmd.broken /\ cmd'.cut
  BY <1>2, CommandIs DEF Command
<1>6. UNCHANGED <<os, scope, root, reg, known, enabled, proc, host, dirs, used>>
  BY DEF Interrupt, setting, machine, instance, files
<1>7. left'.interrupts \in Nat /\ left'.interrupts < MaxInterrupts
  BY <1>1, CommandIs, Constants DEF Counts
<1>8. Interrupts
  BY <1>1, <1>2, <1>3, <1>4, <1>5, <1>6, <1>7, CommandIs DEF Interrupts, Advances, Rests
<1>9. MachineTyped /\ ProcTyped /\ FilesTyped /\ UNCHANGED setting
  BY <1>6, CommandIs DEF MachineTyped, ProcTyped, FilesTyped, ServiceType, TypeOK, setting
<1> QED
  BY <1>8, <1>9, AdvanceType DEF Interrupts

\* Files of others, and of the instance, appear in directories.
FilesLive ==
    /\ dirs \subseteq dirs' /\ used \subseteq used'
    /\ \A d \in dirs' \ dirs : d \in Ancestors(StateDir) /\ StateDir \in used'

\* Directories of the instance grow as others may.
LEMMA GrowLives == ASSUME FilesGrow PROVE FilesLive
  BY DEF FilesGrow, FilesLive

\* The machine lives on beside the command.
Lives == cmd' = cmd /\ reg' = reg /\ known' = known /\ enabled' = enabled /\ os' = os
         /\ left'.interrupts = left.interrupts

\* Another program only adds files.
LEMMA ForeignFileIs ==
    ASSUME ServiceType, ForeignFile
    PROVE  Lives /\ proc' = proc /\ host' = host /\ dirs' = dirs /\ used \subseteq used' /\ ServiceType'
<1>1. left' \in Counts /\ left'.interrupts = left.interrupts
  BY CommandIs DEF ForeignFile, Spend, Counts
<1>2. UNCHANGED <<os, scope, root, reg, known, enabled, proc, host, dirs, cmd>>
  BY DEF ForeignFile, setting, machine, instance
<1>3. used \subseteq used' /\ used' \subseteq dirs'
  BY <1>2 DEF ForeignFile, ServiceType, TypeOK
<1>4. TypeOK'
  BY <1>2, <1>3 DEF ServiceType, TypeOK
<1> QED
  BY <1>1, <1>2, <1>3, <1>4 DEF Lives, ServiceType, Counts

\* The end of an instance changes nothing but the instance.
LEMMA InstanceEndsIs ==
    ASSUME ServiceType, InstanceEnds
    PROVE  /\ Lives /\ host' = host /\ dirs' = dirs /\ used' = used /\ ServiceType'
           /\ os # "windows" /\ proc.st \in {"running", "draining"} /\ proc'.st \in {"none", "auto"}
<1>1. left' \in Counts /\ left'.interrupts = left.interrupts
  BY CommandIs DEF InstanceEnds, Spend, Counts
<1>2. UNCHANGED <<os, scope, root, reg, known, enabled, host, dirs, used, cmd>>
  BY DEF InstanceEnds, setting, machine, files
<1>3. PICK st \in {"none", "auto"} : proc' = [proc EXCEPT !.st = st]
  BY DEF InstanceEnds
<1>4. proc' \in [st : ProcStates, ver : Version, pid : Nat] /\ proc'.st = st
  BY <1>3 DEF ServiceType, ProcStates
<1>5. TypeOK'
  BY <1>2, <1>4 DEF ServiceType, TypeOK, ProcStates
<1>6. ServiceType'
  BY <1>1, <1>2, <1>4, <1>5 DEF ServiceType, Counts
<1> QED
  BY <1>1, <1>2, <1>4, <1>6 DEF Lives, InstanceEnds

\* A reboot ends the command, if the boot keeps the types.
LEMMA RebootIs == ASSUME ServiceType, Reboot, Typed PROVE Dies /\ os' = os /\ ServiceType'
<1>1. left' \in Counts /\ left'.interrupts = left.interrupts
  BY CommandIs DEF Reboot, Spend, Counts
<1>2. cmd' = Idle /\ UNCHANGED setting
  BY DEF Reboot
<1>3. cmd' \in Command /\ cmd'.op = "none" /\ cmd'.pc = "done" /\ ~cmd'.cut
  <2>1. Idle.op = "none" /\ Idle.pc = "done" /\ ~Idle.cut
    BY DEF Idle
  <2> QED
    BY <1>2, <2>1, SavedType
<1>4. TypeOK'
  BY <1>2 DEF ServiceType, TypeOK, Typed, MachineTyped, ProcTyped, FilesTyped, setting, ProcStates, Version
<1> QED
  BY <1>1, <1>2, <1>3, <1>4 DEF Dies, ServiceType, Typed, MachineTyped, ProcTyped, FilesTyped, setting, Counts

---------------------------------------------------------------------------
(* The directories of an installation *)

\* What holds a directory goes on to hold it.
LEMMA KeptStays == ASSUME used \subseteq used', NEW d, Kept(d) PROVE Kept(d)'
  BY DEF Kept

\* Growing directories keep DirsInv, unless an installation ends.
LEMMA DirsLive ==
    ASSUME DirsInv, FilesLive, cmd'.op = cmd.op, cmd'.saved = cmd.saved, cmd'.created = cmd.created,
           Installing => /\ cmd'.pc # "done" => cmd.pc # "done"
                         /\ cmd'.pc = "check" => cmd.pc = "check"
                         /\ cmd'.pc = "prepare" => cmd.pc = "prepare"
                         /\ cmd'.pc = "done" /\ cmd'.err => FailedInstall
    PROVE  DirsInv'
<1>1. \A d : Kept(d) => Kept(d)'
  BY KeptStays DEF FilesLive
<1>2. \A d \in dirs' : d \in dirs \/ Kept(d)'
  BY DEF FilesLive, Kept
<1> HIDE DEF Kept
<1> QED
  BY <1>1, <1>2 DEF DirsInv, FilesLive, Installing, FailedInstall

\* Every kind of step keeps DirsInv.
LEMMA DirsStep ==
    ASSUME ServiceType, DirsInv,
           \/ Checks /\ cmd.pc = "check"
           \/ Moves
           \/ Prepares
           \/ Begins
           \/ Dies
           \/ Interrupts
           \/ Lives /\ FilesLive
    PROVE  DirsInv'
<1>0. dirs \subseteq Dirs
  BY DEF ServiceType, TypeOK
<1>1. CASE Checks /\ cmd.pc = "check"
  <2>1. dirs' = dirs /\ used' = used
    BY <1>1 DEF Checks, Rests
  <2>2. \A d : Kept(d) => Kept(d)'
    BY <2>1, KeptStays
  <2>3. cmd'.op = cmd.op /\ cmd'.saved = cmd.saved
    BY <1>1 DEF Checks, Advances
  <2>4. \/ cmd'.pc = "prepare" /\ cmd'.created = Dirs \ dirs
        \/ cmd'.pc = "done" /\ cmd'.created = cmd.created
    BY <1>1 DEF Checks, Errs, Moved, CreatedDirs
  <2> HIDE DEF Kept
  <2> QED
    BY <1>0, <1>1, <2>1, <2>2, <2>3, <2>4 DEF DirsInv, Installing, FailedInstall
<1>2. CASE Moves
  <2>1. FilesLive
    BY <1>2, GrowLives DEF Moves, Typed
  <2> QED
    BY <1>2, <2>1, DirsLive DEF Moves, Advances
<1>3. CASE Prepares
  <2>1. \A d : Kept(d) => Kept(d)'
    BY <1>3, KeptStays DEF Prepares
  <2>2. cmd'.op = cmd.op /\ cmd'.saved = cmd.saved /\ cmd'.created = cmd.created
    BY <1>3 DEF Prepares, Passes, Errs, Moved
  <2>3. CASE cmd.pc = "prepare"
    <3>1. \/ cmd' = cmd /\ \E d \in Dirs \ dirs : dirs' = dirs \union {d}
          \/ dirs' = dirs /\ cmd'.pc \in {"prepared", "rmdirs"}
      BY <1>3, <2>3 DEF Prepares, Passes, Errs, Moved
    <3> HIDE DEF Kept
    <3> QED
      BY <1>0, <2>1, <2>2, <2>3, <3>1 DEF DirsInv, Installing, FailedInstall
  <2>4. CASE cmd.pc = "rmdirs"
    <3>1. cmd'.pc = "done" /\ dirs' = RemoveCreatedDirs(cmd.created) /\ used' = used
      BY <1>3, <2>4 DEF Prepares, Passes, Moved
    <3>2. dirs' \subseteq dirs /\ \A d \in dirs : d \notin cmd.created => d \in dirs'
      BY <3>1 DEF RemoveCreatedDirs
    <3>3. \A d \in dirs' : d \in cmd.created => Kept(d)'
      <4> SUFFICES ASSUME NEW d \in dirs', d \in cmd.created PROVE Kept(d)'
        OBVIOUS
      <4>1. PICK e \in dirs : d \in Ancestors(e) /\ e \in used
        BY <3>1 DEF RemoveCreatedDirs
      <4> QED
        BY <3>1, <4>1 DEF Kept
    <3> HIDE DEF Kept
    <3> QED
      BY <1>3, <2>1, <2>2, <2>4, <3>1, <3>2, <3>3 DEF Prepares, DirsInv, Installing, FailedInstall
  <2> QED
    BY <1>3, <2>3, <2>4 DEF Prepares
<1>4. CASE Begins
  BY <1>4 DEF Begins, DirsInv, Installing, FailedInstall
<1>5. CASE Dies
  BY <1>5 DEF Dies, DirsInv, Installing, FailedInstall
<1>6. CASE Interrupts
  <2>1. FilesLive
    BY <1>6 DEF Interrupts, Rests, FilesLive
  <2> QED
    BY <1>6, <2>1, DirsLive DEF Interrupts, Advances, FailedInstall
<1>7. CASE Lives /\ FilesLive
  BY <1>7, DirsLive DEF Lives, FailedInstall, Installing
<1> QED
  BY <1>1, <1>2, <1>3, <1>4, <1>5, <1>6, <1>7

---------------------------------------------------------------------------
(* Linux *)

\* What the calls of systemctl change.
LEMMA SystemdEffects ==
    ASSUME ServiceType
    PROVE  /\ DaemonReload => Typed /\ known' = reg /\ reg' = reg /\ enabled' = enabled /\ proc' = proc
           /\ EnableUnit => Typed /\ known' = reg /\ reg' = reg /\ enabled' /\ proc' = proc
           /\ StartUnit => /\ Typed /\ known' = known /\ reg' = reg /\ enabled' = enabled
                           /\ known # None /\ proc'.st = "running"
           /\ RestartUnit => /\ Typed /\ known' = known /\ reg' = reg /\ enabled' = enabled
                             /\ known # None /\ proc'.st = "running"
           /\ StopUnit => /\ Typed /\ known' = known /\ reg' = reg /\ enabled' = enabled
                          /\ proc'.st = "none"
           /\ DisableNow => Typed /\ known' = known /\ reg' = reg /\ proc'.st = "none"
<1> USE CommandIs DEF Typed, MachineTyped, ProcTyped, FilesTyped, FilesGrow, ServiceType, TypeOK,
                      machine, instance, files
<1>1. NoProc \in [st : ProcStates, ver : Version, pid : Nat] /\ NoProc.st = "none"
  BY Constants DEF NoProc, ProcStates
<1>2. DaemonReload => Typed /\ known' = reg /\ reg' = reg /\ enabled' = enabled /\ proc' = proc
  BY DEF DaemonReload
<1>3. EnableUnit => Typed /\ known' = reg /\ reg' = reg /\ enabled' /\ proc' = proc
  BY DEF EnableUnit
<1>4. StartUnit => /\ Typed /\ known' = known /\ reg' = reg /\ enabled' = enabled
                  /\ known # None /\ proc'.st = "running"
  BY LaunchedGrows DEF StartUnit
<1>5. RestartUnit => /\ Typed /\ known' = known /\ reg' = reg /\ enabled' = enabled
                    /\ known # None /\ proc'.st = "running"
  BY LaunchedGrows DEF RestartUnit
<1>6. StopUnit => /\ Typed /\ known' = known /\ reg' = reg /\ enabled' = enabled
                 /\ proc'.st = "none"
  BY <1>1 DEF StopUnit
<1>7. DisableNow => Typed /\ known' = known /\ reg' = reg /\ proc'.st = "none"
  BY <1>1 DEF DisableNow
<1> QED
  BY <1>2, <1>3, <1>4, <1>5, <1>6, <1>7

\* systemctl daemon-reload and enable.
LEMMA ReloadAndEnableInv ==
    ASSUME IInv, os = "linux", ReloadAndEnable
    PROVE  Moves /\ LinuxInv'
<1>0. ServiceType /\ LinuxInv /\ os' = os /\ cmd.op = "install" /\ cmd.pc \in {"reload", "enable"}
  BY DEF IInv, ReloadAndEnable, setting, At
<1>1. \/ cmd.pc = "reload" /\ DaemonReload /\ (Passes("enable") \/ Stops("unwrite"))
      \/ cmd.pc = "enable" /\ EnableUnit /\ (Passes("done") \/ Stops("unwrite"))
      \/ Untouched /\ Errs("unwrite")
  BY <1>0, Outcomes, PlacesAre DEF ReloadAndEnable, Call, At
<1>2. Typed
  BY <1>0, <1>1, SystemdEffects, UntouchedIs
<1>3. ~cmd.err
  BY <1>0 DEF LinuxInv, LinuxInstall, Installing
<1>4. Moves
  BY <1>0, <1>1, <1>2, <1>3 DEF Moves, Passes, Stops, Errs, Moved
<1>5. LinuxInv'
  BY <1>0, <1>1, SystemdEffects, UntouchedIs, CommandIs
  DEF LinuxInv, LinuxInstall, Passes, Stops, Errs, Moved, Rests, Installing, At, Done, Failed, Alive, Begun
<1> QED
  BY <1>4, <1>5

\* grantInstanceDirs.
LEMMA SystemdGrantInv ==
    ASSUME IInv, os = "linux", SystemdGrant
    PROVE  Moves /\ LinuxInv'
<1>0. ServiceType /\ LinuxInv /\ os' = os /\ cmd.op = "install" /\ cmd.pc = "prepared"
  BY DEF IInv, SystemdGrant, setting, At
<1>1. Untouched /\ (Passes("preflight") \/ Errs("rmdirs"))
  BY <1>0, Outcomes, PlacesAre DEF SystemdGrant, Call, At
<1>2. Typed
  BY <1>0, <1>1, SystemdEffects, UntouchedIs
<1>3. ~cmd.err
  BY <1>0 DEF LinuxInv, LinuxInstall, Installing, Begun
<1>4. Moves
  BY <1>0, <1>1, <1>2, <1>3 DEF Moves, Passes, Stops, Errs, Breaks, Moved, Installing
<1>5. LinuxInv'
  BY <1>0, <1>1, SystemdEffects, UntouchedIs, CommandIs, Constants
  DEF LinuxInv, LinuxInstall, Passes, Stops, Errs, Breaks, Moved, Rests, Installing, At, Done, Failed,
      AsSaved, Alive, Begun
<1> QED
  BY <1>4, <1>5

\* The preflight of an installation.
LEMMA SystemdPreflightInv ==
    ASSUME IInv, os = "linux", SystemdPreflight
    PROVE  Moves /\ LinuxInv'
<1>0. ServiceType /\ LinuxInv /\ os' = os /\ cmd.op = "install" /\ cmd.pc = "preflight"
  BY DEF IInv, SystemdPreflight, setting, At
<1>1. Untouched /\ (Passes("write") \/ Errs("rmdirs"))
  BY <1>0, Outcomes, PlacesAre DEF SystemdPreflight, Call, At
<1>2. Typed
  BY <1>0, <1>1, SystemdEffects, UntouchedIs
<1>3. ~cmd.err
  BY <1>0 DEF LinuxInv, LinuxInstall, Installing, Begun
<1>4. Moves
  BY <1>0, <1>1, <1>2, <1>3 DEF Moves, Passes, Stops, Errs, Breaks, Moved, Installing
<1>5. LinuxInv'
  BY <1>0, <1>1, SystemdEffects, UntouchedIs, CommandIs, Constants
  DEF LinuxInv, LinuxInstall, Passes, Stops, Errs, Breaks, Moved, Rests, Installing, At, Done, Failed,
      AsSaved, Alive, Begun
<1> QED
  BY <1>4, <1>5

\* The unit file is written.
LEMMA WriteUnitFileInv ==
    ASSUME IInv, os = "linux", WriteUnitFile
    PROVE  Moves /\ LinuxInv'
<1>0. ServiceType /\ LinuxInv /\ os' = os /\ cmd.op = "install" /\ cmd.pc = "write" /\ cmd.ver \in Versions
  BY DEF IInv, WriteUnitFile, setting, At, ServiceType
<1>1. /\ known' = known /\ enabled' = enabled /\ UNCHANGED <<proc, host, dirs, used>>
      /\ (reg' = cmd.ver /\ Passes("reload")) \/ (reg' = reg /\ Errs("rmdirs"))
  BY <1>0, Outcomes, PlacesAre DEF WriteUnitFile, At, machine, instance, files
<1>2. Typed
  BY <1>0, <1>1, CommandIs, Constants
  DEF Typed, MachineTyped, ProcTyped, FilesTyped, FilesGrow, ServiceType, TypeOK
<1>3. ~cmd.err
  BY <1>0 DEF LinuxInv, LinuxInstall, Installing, Begun
<1>4. Moves
  BY <1>0, <1>1, <1>2, <1>3 DEF Moves, Passes, Errs, Moved
<1>5. LinuxInv'
  BY <1>0, <1>1, CommandIs, Constants
  DEF LinuxInv, LinuxInstall, Passes, Stops, Errs, Breaks, Moved, Rests, Installing, At, Done, Failed,
      AsSaved, Alive, Begun
<1> QED
  BY <1>4, <1>5

\* The unit file is restored and read again.
LEMMA RollbackUnitInv ==
    ASSUME IInv, os = "linux", RollbackUnit
    PROVE  Moves /\ LinuxInv'
<1>0. ServiceType /\ LinuxInv /\ os' = os /\ cmd.op = "install"
  BY DEF IInv, RollbackUnit, setting, At
<1>1. \/ /\ cmd.pc = "unwrite" /\ UNCHANGED <<known, enabled, proc, host, dirs, used>>
         /\ (reg' = cmd.saved.reg /\ Passes("unreload")) \/ (reg' = reg /\ Breaks("unreload"))
      \/ /\ cmd.pc = "unreload"
         /\ (DaemonReload /\ Passes("rmdirs")) \/ (Untouched /\ Breaks("rmdirs"))
  BY <1>0, Outcomes, PlacesAre DEF RollbackUnit, At, instance, files
<1>2. Typed
  <2>1. CASE Untouched \/ DaemonReload
    BY <1>0, <2>1, SystemdEffects, UntouchedIs
  <2>2. CASE UNCHANGED <<known, enabled, proc, host, dirs, used>> /\ reg' \in {reg, cmd.saved.reg}
    BY <1>0, <2>2, CommandIs
    DEF Typed, MachineTyped, ProcTyped, FilesTyped, FilesGrow, ServiceType, TypeOK
  <2> QED
    BY <1>1, <2>1, <2>2
<1>4. Moves
  BY <1>0, <1>1, <1>2 DEF Moves, Passes, Breaks, Moved
<1>5. LinuxInv'
  BY <1>0, <1>1, SystemdEffects, UntouchedIs, CommandIs
  DEF LinuxInv, LinuxInstall, Passes, Stops, Errs, Breaks, Moved, Rests, Installing, At, Done, Failed,
      AsSaved, Alive, Begun
<1> QED
  BY <1>4, <1>5

\* The steps of an uninstallation.
LEMMA SystemdUninstallInv ==
    ASSUME IInv, os = "linux", SystemdUninstall
    PROVE  Moves /\ LinuxInv'
<1>0. ServiceType /\ LinuxInv /\ os' = os /\ cmd.op = "uninstall"
  BY DEF IInv, SystemdUninstall, setting, At
<1>1. \/ /\ cmd.pc = "check" /\ Untouched
         /\ (reg = None /\ Passes("done")) \/ (reg # None /\ (Passes("disable") \/ Errs("done")))
      \/ /\ cmd.pc = "disable"
         /\ \/ DisableNow /\ (Passes("remove") \/ Stops("done"))
            \/ Untouched /\ (Errs("done") \/ (known = None /\ Passes("remove")))
      \/ /\ cmd.pc = "remove" /\ UNCHANGED <<known, enabled, proc, host, dirs, used>>
         /\ (reg' = None /\ Passes("reload")) \/ (reg' = reg /\ Errs("done"))
      \/ /\ cmd.pc = "reload"
         /\ (DaemonReload /\ (Passes("done") \/ Stops("done"))) \/ (Untouched /\ Errs("done"))
  BY <1>0, Outcomes, PlacesAre DEF SystemdUninstall, Call, At, instance, files, UnitAbsent
<1>2. Typed
  <2>1. CASE Untouched \/ DaemonReload \/ DisableNow
    BY <1>0, <2>1, SystemdEffects, UntouchedIs
  <2>2. CASE UNCHANGED <<known, enabled, proc, host, dirs, used>> /\ reg' \in {reg, None}
    BY <1>0, <2>2, CommandIs, Constants
    DEF Typed, MachineTyped, ProcTyped, FilesTyped, FilesGrow, ServiceType, TypeOK
  <2> QED
    BY <1>1, <2>1, <2>2
<1>4. Moves
  BY <1>0, <1>1, <1>2 DEF Moves, Passes, Errs, Stops, Moved, Installing
<1>5. LinuxInv'
  BY <1>0, <1>1, SystemdEffects, UntouchedIs, CommandIs
  DEF LinuxInv, LinuxInstall, Passes, Stops, Errs, Breaks, Moved, Rests, Installing, At, Done, Failed,
      AsSaved, Alive, Begun
<1> QED
  BY <1>4, <1>5

\* requireLifecycle.
LEMMA RequireLifecycleInv ==
    ASSUME IInv, os = "linux", RequireLifecycle
    PROVE  Moves /\ LinuxInv'
<1>0. ServiceType /\ LinuxInv /\ os' = os /\ cmd.op \in {"start", "stop", "restart"}
  BY DEF IInv, RequireLifecycle, setting, At
<1>1. /\ Untouched
      /\ \/ reg = None /\ cmd.op = "stop" /\ Passes("done")
         \/ reg # None /\ Passes("call")
         \/ Errs("done")
  BY <1>0, Outcomes, PlacesAre DEF RequireLifecycle, Call, At
<1>2. Typed
  BY <1>0, <1>1, SystemdEffects, UntouchedIs
<1>4. Moves
  BY <1>0, <1>1, <1>2 DEF Moves, Passes, Stops, Errs, Breaks, Moved, Installing
<1>5. LinuxInv'
  BY <1>0, <1>1, SystemdEffects, UntouchedIs, CommandIs, Constants
  DEF LinuxInv, LinuxInstall, Passes, Stops, Errs, Breaks, Moved, Rests, Installing, At, Done, Failed,
      AsSaved, Alive, Begun
<1> QED
  BY <1>4, <1>5

\* What a look at the instance decides.
LEMMA LookIs ==
    ASSUME ServiceType, UNCHANGED left, cmd' = [cmd EXCEPT !.pc = "done", !.err = FALSE]
    PROVE  Moved("done") /\ ~cmd'.err /\ cmd'.broken = cmd.broken /\ cmd'.cut = cmd.cut
<1>1. cmd' \in Command /\ "done" \in Places
  BY CommandIs, PlacesAre DEF Command
<1>2. /\ cmd'.op = cmd.op /\ cmd'.ver = cmd.ver /\ cmd'.saved = cmd.saved
      /\ cmd'.created = cmd.created /\ cmd'.note = cmd.note
  BY CommandIs DEF Command
<1> QED
  BY <1>1, <1>2, CommandIs DEF Advances, Moved, Command

\* The steps of a start.
LEMMA SystemdStartInv ==
    ASSUME IInv, os = "linux", SystemdStart
    PROVE  Moves /\ LinuxInv'
<1>0. ServiceType /\ LinuxInv /\ os' = os /\ cmd.op = "start" /\ cmd.pc \in {"call", "look"}
  BY DEF IInv, SystemdStart, setting, At
<1>1. \/ /\ cmd.pc = "call"
         /\ \/ StartUnit /\ (Passes("done") \/ Stops("look"))
            \/ Untouched /\ (Errs("look") \/ Passes("look"))
      \/ Untouched /\ Errs("done")
      \/ /\ Untouched /\ proc.st = "running" /\ UNCHANGED left
         /\ cmd' = [cmd EXCEPT !.pc = "done", !.err = FALSE]
  BY <1>0, Outcomes, PlacesAre DEF SystemdStart, Call, At
<1>2. Typed
  BY <1>0, <1>1, SystemdEffects, UntouchedIs
<1>4. Moves
  BY <1>0, <1>1, <1>2, LookIs DEF Moves, Passes, Errs, Stops, Moved, Installing
<1>5. LinuxInv'
  BY <1>0, <1>1, SystemdEffects, UntouchedIs, LookIs
  DEF LinuxInv, LinuxInstall, Passes, Stops, Errs, Breaks, Moved, Rests, Installing, At, Done, Failed,
      AsSaved, Alive, Begun
<1> QED
  BY <1>4, <1>5

\* The steps of a stop.
LEMMA SystemdStopInv ==
    ASSUME IInv, os = "linux", SystemdStop
    PROVE  Moves /\ LinuxInv'
<1>0. ServiceType /\ LinuxInv /\ os' = os /\ cmd.op = "stop" /\ cmd.pc \in {"call", "look"}
  BY DEF IInv, SystemdStop, setting, At
<1>1. \/ /\ cmd.pc = "call"
         /\ \/ StopUnit /\ (Passes("done") \/ Stops("look"))
            \/ Untouched /\ (Errs("look") \/ (proc.st = "none" /\ Passes("done")))
      \/ Untouched /\ Errs("done")
      \/ /\ Untouched /\ proc.st = "none" /\ UNCHANGED left
         /\ cmd' = [cmd EXCEPT !.pc = "done", !.err = FALSE]
  BY <1>0, Outcomes, PlacesAre DEF SystemdStop, Call, At
<1>2. Typed
  BY <1>0, <1>1, SystemdEffects, UntouchedIs
<1>4. Moves
  BY <1>0, <1>1, <1>2, LookIs DEF Moves, Passes, Errs, Stops, Moved, Installing
<1>5. LinuxInv'
  BY <1>0, <1>1, SystemdEffects, UntouchedIs, LookIs
  DEF LinuxInv, LinuxInstall, Passes, Stops, Errs, Breaks, Moved, Rests, Installing, At, Done, Failed,
      AsSaved, Alive, Begun
<1> QED
  BY <1>4, <1>5

\* A restart.
LEMMA SystemdRestartInv ==
    ASSUME IInv, os = "linux", SystemdRestart
    PROVE  Moves /\ LinuxInv'
<1>0. ServiceType /\ LinuxInv /\ os' = os /\ cmd.op = "restart" /\ cmd.pc = "call"
  BY DEF IInv, SystemdRestart, setting, At
<1>1. \/ RestartUnit /\ (Passes("done") \/ Stops("done"))
      \/ Untouched /\ Errs("done")
  BY <1>0, Outcomes, PlacesAre DEF SystemdRestart, Call, At
<1>2. Typed
  BY <1>0, <1>1, SystemdEffects, UntouchedIs
<1>4. Moves
  BY <1>0, <1>1, <1>2 DEF Moves, Passes, Stops, Errs, Breaks, Moved, Installing
<1>5. LinuxInv'
  BY <1>0, <1>1, SystemdEffects, UntouchedIs, CommandIs, Constants
  DEF LinuxInv, LinuxInstall, Passes, Stops, Errs, Breaks, Moved, Rests, Installing, At, Done, Failed,
      AsSaved, Alive, Begun
<1> QED
  BY <1>4, <1>5
\* Steps beside the calls of the manager.
LEMMA LinuxFrame ==
    ASSUME IInv, os = "linux", ServiceType',
           \/ Checks /\ os' = os /\ cmd.op = "install" /\ cmd.pc = "check"
           \/ Prepares
           \/ Begins
           \/ Dies /\ os' = os /\ Rests
           \/ Interrupts
    PROVE  LinuxInv'
<1>0. ServiceType /\ LinuxInv
  BY DEF IInv
<1>1. CASE Checks /\ os' = os /\ cmd.op = "install" /\ cmd.pc = "check"
  BY <1>0, <1>1, CommandIs, Constants
  DEF Checks, LinuxInv, LinuxInstall, Passes, Stops, Errs, Breaks, Moved, Rests, Installing, At, Done, Failed,
      AsSaved, Alive, Begun
<1>2. CASE Prepares
  BY <1>0, <1>2, CommandIs, Constants
  DEF Prepares, LinuxInv, LinuxInstall, Passes, Stops, Errs, Breaks, Moved, Rests, Installing, At, Done, Failed,
      AsSaved, Alive, Begun
<1>3. CASE Begins
  BY <1>0, <1>3, CommandIs, Constants
  DEF Begins, LinuxInv, LinuxInstall, Passes, Stops, Errs, Breaks, Moved, Rests, Installing, At, Done, Failed,
      AsSaved, Alive, Begun
<1>4. CASE Dies /\ os' = os /\ Rests
  BY <1>0, <1>4, CommandIs, Constants
  DEF Dies, LinuxInv, LinuxInstall, Passes, Stops, Errs, Breaks, Moved, Rests, Installing, At, Done, Failed,
      AsSaved, Alive, Begun
<1>5. CASE Interrupts
  BY <1>0, <1>5, CommandIs, Constants
  DEF Interrupts, Advances, LinuxInv, LinuxInstall, Passes, Stops, Errs, Breaks, Moved, Rests, Installing, At, Done, Failed,
      AsSaved, Alive, Begun
<1> QED
  BY <1>1, <1>2, <1>3, <1>4, <1>5

\* The instance, systemd, other programs and reboots keep LinuxInv.
LEMMA LinuxLife ==
    ASSUME IInv, os = "linux",
           ForeignFile \/ InstanceEnds \/ SystemdRestartsInstance \/ Reboot
    PROVE  LinuxInv' /\ ServiceType' /\ (Dies \/ (Lives /\ FilesLive))
<1>0. ServiceType /\ LinuxInv
  BY DEF IInv
<1>1. CASE ForeignFile
  <2>1. Lives /\ proc' = proc /\ FilesLive /\ ServiceType'
    BY <1>0, <1>1, ForeignFileIs DEF FilesLive
  <2> QED
    BY <1>0, <2>1 DEF Lives, LinuxInv, LinuxInstall, Installing, At, Done, Failed, AsSaved, Alive
<1>2. CASE InstanceEnds
  <2>1. /\ Lives /\ FilesLive /\ ServiceType'
        /\ proc.st \in {"running", "draining"} /\ proc'.st \in {"none", "auto"}
    BY <1>0, <1>2, InstanceEndsIs DEF FilesLive
  <2> QED
    BY <1>0, <2>1 DEF Lives, LinuxInv, LinuxInstall, Installing, At, Done, Failed, AsSaved, Alive
<1>3. CASE SystemdRestartsInstance
  <2>1. Typed /\ proc'.st = "running" /\ proc.st = "auto"
    BY <1>0, <1>3, LaunchedGrows, CommandIs DEF SystemdRestartsInstance, machine
  <2>2. Lives /\ UNCHANGED <<scope, root, left>>
    BY <1>3 DEF SystemdRestartsInstance, machine, setting, Lives
  <2>3. ServiceType'
    <3>1. Advances /\ UNCHANGED setting
      BY <2>2, CommandIs, <1>0 DEF Advances, Lives, setting
    <3> QED
      BY <1>0, <2>1, <3>1, AdvanceType DEF Typed
  <2> QED
    BY <1>0, <2>1, <2>2, <2>3, GrowLives
    DEF Lives, LinuxInv, LinuxInstall, Installing, At, Done, Failed, AsSaved, Alive, Typed
<1>4. CASE Reboot
  <2>1. SystemdBoot
    BY <1>4 DEF Reboot
  <2>2. NoProc \in [st : ProcStates, ver : Version, pid : Nat] /\ NoProc.st = "none"
    BY Constants DEF NoProc, ProcStates
  <2>3. known' = reg /\ reg' = reg /\ enabled' = enabled
    BY <2>1 DEF SystemdBoot
  <2>4. Typed /\ (proc'.st = "none" \/ (proc'.st = "running" /\ reg # None))
    <3>1. CASE enabled /\ reg # None
      <4>1. Launched(reg) /\ reg # None
        BY <2>1, <3>1 DEF SystemdBoot
      <4>2. ProcTyped /\ FilesTyped /\ proc'.st = "running" /\ FilesGrow
        BY <1>0, <4>1, LaunchedTyped, CommandIs DEF Launched, WritesState, FilesGrow
      <4> QED
        BY <1>0, <2>3, <4>1, <4>2, CommandIs DEF Typed, MachineTyped
    <3>2. CASE ~(enabled /\ reg # None)
      <4>1. proc' = NoProc /\ UNCHANGED <<host, dirs, used>>
        BY <2>1, <3>2 DEF SystemdBoot, files
      <4> QED
        BY <1>0, <2>2, <2>3, <4>1, CommandIs
        DEF Typed, MachineTyped, ProcTyped, FilesTyped, FilesGrow, ServiceType, TypeOK
    <3> QED
      BY <3>1, <3>2
  <2>5. Dies /\ os' = os /\ ServiceType'
    BY <1>0, <1>4, <2>4, RebootIs
  <2> QED
    BY <1>0, <2>3, <2>4, <2>5
    DEF Dies, LinuxInv, Installing, At, Done, Alive
<1> QED
  BY <1>1, <1>2, <1>3, <1>4

\* Every step on Linux.
LEMMA LinuxCommand ==
    ASSUME IInv, os = "linux", SystemdCommand
    PROVE  LinuxInv' /\ ServiceType' /\ ((Checks /\ cmd.pc = "check") \/ Moves)
<1>0. ServiceType /\ UNCHANGED setting
  BY DEF IInv, SystemdCommand, SystemdCheck, SystemdGrant, SystemdPreflight, WriteUnitFile,
         ReloadAndEnable, RollbackUnit, SystemdUninstall, RequireLifecycle, SystemdStart,
         SystemdStop, SystemdRestart
<1>1. CASE SystemdCheck
  <2>1. Checks /\ os' = os /\ cmd.op = "install" /\ cmd.pc = "check"
    BY <1>0, <1>1, ChecksIs DEF SystemdCheck, At, setting
  <2>2. ServiceType'
    BY <1>0, <2>1, AdvanceType DEF Checks, Typed
  <2> QED
    BY <2>1, <2>2, LinuxFrame
<1>2. CASE ~SystemdCheck
  <2>1. Moves /\ LinuxInv'
    BY <1>2, SystemdGrantInv, SystemdPreflightInv, WriteUnitFileInv, ReloadAndEnableInv,
       RollbackUnitInv, SystemdUninstallInv, RequireLifecycleInv, SystemdStartInv,
       SystemdStopInv, SystemdRestartInv
    DEF SystemdCommand
  <2>2. ServiceType'
    BY <1>0, <2>1, AdvanceType DEF Moves, Typed
  <2> QED
    BY <2>1, <2>2
<1> QED
  BY <1>1, <1>2
---------------------------------------------------------------------------
(* macOS *)

\* Program counters of macOS.
LEMMA LaunchdPlacesAre ==
    /\ {"print", "overrides", "load", "replace", "replaced", "bootstrap", "bootstrapped"} \subseteq Places
    /\ {"unload", "restore", "again", "overridden", "bootout", "kill", "wait"} \subseteq Places
    /\ {"start", "ensure", "kickstart", "enable", "remove"} \subseteq Places
  BY DEF Places, Begun

\* A step takes a note.
Adds(q, n) ==
    /\ Advances /\ cmd'.pc = q /\ cmd'.created = cmd.created /\ cmd'.note = cmd.note \union {n}
    /\ cmd'.op = cmd.op /\ cmd'.ver = cmd.ver /\ cmd'.saved = cmd.saved
    /\ cmd'.err = cmd.err /\ cmd'.broken = cmd.broken /\ cmd'.cut = cmd.cut

\* Note takes a note.
LEMMA AddsIs ==
    ASSUME ServiceType, UNCHANGED left, NEW q \in Places,
           NEW n \in Notes \union {"delivered"}, Note(q, n)
    PROVE  Adds(q, n)
  BY NoteAdvances DEF Adds, Advances

\* What an interrupt leaves half done stays so.
LEMMA Halves ==
    ASSUME ServiceType, os = "darwin", os' = os, Advances
    PROVE  /\ HalfInstalled => HalfInstalled'
           /\ cmd.cut => HalfInstalled
           /\ \A q : Stops(q) => HalfInstalled'
<1>1. left'.interrupts \in Nat /\ left.interrupts \in Nat /\ left'.interrupts <= left.interrupts
  BY CommandIs DEF Advances, Counts
<1> QED
  BY <1>1, Constants DEF HalfInstalled, Stops, ServiceType

\* What the calls of launchctl change.
LEMMA LaunchdEffects ==
    ASSUME ServiceType
    PROVE  /\ Bootout => /\ Typed /\ known' = None /\ reg' = reg /\ enabled' = enabled
                         /\ proc'.st = "none"
           /\ Bootstrap => /\ Typed /\ known' = reg /\ reg' = reg /\ enabled' = enabled
                           /\ proc'.st = "running" \/ proc' = proc
           /\ Enable => Typed /\ known' = known /\ reg' = reg /\ enabled' = TRUE /\ proc' = proc
           /\ Disable => Typed /\ known' = known /\ reg' = reg /\ enabled' = FALSE /\ proc' = proc
           /\ Kickstart => /\ Typed /\ known' = known /\ reg' = reg /\ enabled' = enabled
                           /\ known # None /\ (proc'.st = "running" \/ proc' = proc)
           /\ SendTerm => /\ Typed /\ known' = known /\ reg' = reg /\ enabled' = enabled
                          /\ proc' = proc \/ (proc'.st = "draining" /\ proc.st = "running")
<1> USE CommandIs DEF Typed, MachineTyped, ProcTyped, FilesTyped, FilesGrow, ServiceType, TypeOK,
                      machine, instance, files
<1>1. NoProc \in [st : ProcStates, ver : Version, pid : Nat] /\ NoProc.st = "none"
  BY Constants DEF NoProc, ProcStates
<1>2. Bootout => /\ Typed /\ known' = None /\ reg' = reg /\ enabled' = enabled
                 /\ proc'.st = "none"
  BY <1>1, Constants DEF Bootout
<1>3. Bootstrap => /\ Typed /\ known' = reg /\ reg' = reg /\ enabled' = enabled
                   /\ proc'.st = "running" \/ proc' = proc
  <2> SUFFICES ASSUME Bootstrap PROVE Typed /\ (proc'.st = "running" \/ proc' = proc)
    BY DEF Bootstrap
  <2>1. known' = reg /\ reg' = reg /\ enabled' = enabled
    BY DEF Bootstrap
  <2>2. CASE Launched(reg)
    <3>1. ProcTyped /\ FilesTyped /\ proc'.st = "running" /\ FilesGrow
      BY <2>2, LaunchedTyped DEF Launched, WritesState
    <3> QED
      BY <2>1, <3>1
  <2>3. CASE UNCHANGED <<instance, files>>
    BY <2>1, <2>3
  <2> QED
    BY <2>2, <2>3 DEF Bootstrap
<1>4. Enable => Typed /\ known' = known /\ reg' = reg /\ enabled' = TRUE /\ proc' = proc
  BY DEF Enable
<1>5. Disable => Typed /\ known' = known /\ reg' = reg /\ enabled' = FALSE /\ proc' = proc
  BY DEF Disable
<1>6. Kickstart => /\ Typed /\ known' = known /\ reg' = reg /\ enabled' = enabled
                   /\ known # None /\ (proc'.st = "running" \/ proc' = proc)
  BY LaunchedGrows DEF Kickstart
<1>7. SendTerm => /\ Typed /\ known' = known /\ reg' = reg /\ enabled' = enabled
                  /\ proc' = proc \/ (proc'.st = "draining" /\ proc.st = "running")
  BY DEF SendTerm, ProcStates
<1> QED
  BY <1>2, <1>3, <1>4, <1>5, <1>6, <1>7

\* The directories are given to the account of the instance.
LEMMA LaunchdGrantInv ==
    ASSUME IInv, os = "darwin", LaunchdGrant
    PROVE  Moves /\ LaunchdInv'
<1>0. ServiceType /\ LaunchdInv /\ os' = os /\ cmd.op = "install" /\ cmd.pc = "prepared"
  BY DEF IInv, LaunchdGrant, setting, At, Stopping
<1>1. Untouched /\ (Passes("preflight") \/ Errs("rmdirs"))
  BY <1>0, Outcomes, PlacesAre, LaunchdPlacesAre
  DEF LaunchdGrant, Call, At, Undo, Stopping, PrintJob, instance, files
<1>2. Typed
  BY <1>0, <1>1, LaunchdEffects, UntouchedIs
<1>3. ~cmd.err
  BY <1>0, <1>1 DEF LaunchdInv, LaunchdForward, Installing, Begun
<1>4. Moves
  BY <1>0, <1>1, <1>2, <1>3 DEF Moves, Passes, Stops, Errs, Breaks, Adds, Moved, Installing
<1>5. /\ HalfInstalled => HalfInstalled'
      /\ cmd.cut => HalfInstalled
      /\ \A q : Stops(q) => HalfInstalled'
  BY <1>0, <1>4, Halves DEF Moves
<1>6. LaunchdInv'
  BY <1>0, <1>1, <1>5, LaunchdEffects, UntouchedIs, CommandIs, Constants
  DEF LaunchdInv, LaunchdForward, LaunchdBack, Overrides, Noted, Fresh, Replacing, Making,
      Passes, Stops, Errs, Breaks, Adds, Moved, Rests, Installing, At, Done, Failed,
      AsSaved, Alive, Begun
<1> QED
  BY <1>4, <1>6

\* The preflight of an installation.
LEMMA LaunchdPreflightInv ==
    ASSUME IInv, os = "darwin", LaunchdPreflight
    PROVE  Moves /\ LaunchdInv'
<1>0. ServiceType /\ LaunchdInv /\ os' = os /\ cmd.op = "install" /\ cmd.pc = "preflight"
  BY DEF IInv, LaunchdPreflight, setting, At, Stopping
<1>1. Untouched /\ (Passes("write") \/ Errs("rmdirs"))
  BY <1>0, Outcomes, PlacesAre, LaunchdPlacesAre
  DEF LaunchdPreflight, Call, At, Undo, Stopping, PrintJob, instance, files
<1>2. Typed
  BY <1>0, <1>1, LaunchdEffects, UntouchedIs
<1>3. ~cmd.err
  BY <1>0, <1>1 DEF LaunchdInv, LaunchdForward, Installing, Begun
<1>4. Moves
  BY <1>0, <1>1, <1>2, <1>3 DEF Moves, Passes, Stops, Errs, Breaks, Adds, Moved, Installing
<1>5. /\ HalfInstalled => HalfInstalled'
      /\ cmd.cut => HalfInstalled
      /\ \A q : Stops(q) => HalfInstalled'
  BY <1>0, <1>4, Halves DEF Moves
<1>6. LaunchdInv'
  BY <1>0, <1>1, <1>5, LaunchdEffects, UntouchedIs, CommandIs, Constants
  DEF LaunchdInv, LaunchdForward, LaunchdBack, Overrides, Noted, Fresh, Replacing, Making,
      Passes, Stops, Errs, Breaks, Adds, Moved, Rests, Installing, At, Done, Failed,
      AsSaved, Alive, Begun
<1> QED
  BY <1>4, <1>6

\* The property list is written.
LEMMA WritePlistInv ==
    ASSUME IInv, os = "darwin", WritePlist
    PROVE  Moves /\ LaunchdInv'
<1>0. ServiceType /\ LaunchdInv /\ os' = os /\ cmd.op = "install" /\ cmd.pc = "write" /\ cmd.ver \in Versions
  BY DEF IInv, WritePlist, setting, At, Stopping, ServiceType
<1>1. /\ UNCHANGED <<known, enabled, proc, host, dirs, used>>
      /\ \/ reg' = cmd.ver /\ reg = cmd.ver /\ Passes("print")
         \/ reg' = cmd.ver /\ reg # cmd.ver /\ Adds("print", "changed")
         \/ reg' = reg /\ Errs("rmdirs")
  BY <1>0, Outcomes, AddsIs, PlacesAre, LaunchdPlacesAre
  DEF WritePlist, Call, At, Undo, Stopping, PrintJob, instance, files, Notes
<1>2. Typed
  BY <1>0, <1>1, UntouchedIs, CommandIs, Constants
  DEF Typed, MachineTyped, ProcTyped, FilesTyped, FilesGrow, ServiceType, TypeOK
<1>3. ~cmd.err
  BY <1>0, <1>1 DEF LaunchdInv, LaunchdForward, Installing, Begun
<1>4. Moves
  BY <1>0, <1>1, <1>2, <1>3 DEF Moves, Passes, Stops, Errs, Breaks, Adds, Moved, Installing
<1>5. /\ HalfInstalled => HalfInstalled'
      /\ cmd.cut => HalfInstalled
      /\ \A q : Stops(q) => HalfInstalled'
  BY <1>0, <1>4, Halves DEF Moves
<1>6. LaunchdInv'
  BY <1>0, <1>1, <1>5, LaunchdEffects, UntouchedIs, CommandIs, Constants
  DEF LaunchdInv, LaunchdForward, LaunchdBack, Overrides, Noted, Fresh, Replacing, Making,
      Passes, Stops, Errs, Breaks, Adds, Moved, Rests, Installing, At, Done, Failed,
      AsSaved, Alive, Begun
<1> QED
  BY <1>4, <1>6
\* The supervisor's lists are read, or the list of overrides cannot be.
ReadsState ==
    /\ Advances /\ cmd'.pc = "load" /\ cmd'.created = cmd.created
    /\ cmd'.op = cmd.op /\ cmd'.ver = cmd.ver /\ cmd'.saved = cmd.saved
    /\ cmd'.err = cmd.err /\ cmd'.cut = cmd.cut /\ (cmd.broken => cmd'.broken)
    /\ "changed" \in cmd'.note <=> "changed" \in cmd.note
    /\ "replaced" \in cmd'.note => "replaced" \in cmd.note
    /\ "bootstrapped" \in cmd'.note => "bootstrapped" \in cmd.note
    /\ "loaded" \in cmd'.note <=> ("loaded" \in cmd.note \/ known # None)
    /\ "disabled" \in cmd'.note => ("disabled" \in cmd.note \/ ~enabled)
    /\ enabled \/ "disabled" \in cmd'.note \/ cmd'.broken

\* Both ways to read the lists are ReadsState.
LEMMA ReadsStateIs ==
    ASSUME ServiceType, UNCHANGED left \/ Spend("faults"),
           NEW n, n = (IF known # None THEN {"loaded"} ELSE {}) \union (IF enabled THEN {} ELSE {"disabled"}),
           \/ cmd' = [cmd EXCEPT !.pc = "load", !.note = @ \union n]
           \/ cmd' = [cmd EXCEPT !.pc = "load", !.note = @ \union (n \ {"disabled"}),
                                !.broken = @ \/ "disabled" \in n]
    PROVE  ReadsState
<1> DEFINE Marks == SUBSET (Notes \union {"delivered"})
           Cmds == [op : Ops, pc : Places, err : BOOLEAN, broken : BOOLEAN, cut : BOOLEAN, ver : Version,
                    saved : [reg : Version, known : Version, enabled : BOOLEAN, dirs : SUBSET Dirs],
                    created : SUBSET Dirs, pid : Nat, note : Marks]
<1>1. left' \in Counts /\ left'.interrupts = left.interrupts
  BY CommandIs DEF Spend, Counts
<1>2. cmd \in Cmds /\ cmd.note \in Marks /\ "load" \in Places
  BY CommandIs, LaunchdPlacesAre DEF Command
<1>3. n \subseteq Notes
  BY DEF Notes
<1>4. PICK b \in BOOLEAN, m \in {n, n \ {"disabled"}} :
        /\ cmd' = [cmd EXCEPT !.pc = "load", !.note = cmd.note \union m, !.broken = b]
        /\ b <=> (cmd.broken \/ (m # n /\ "disabled" \in n))
  <2>1. CASE cmd' = [cmd EXCEPT !.pc = "load", !.note = @ \union n]
    <3>1. cmd' = [cmd EXCEPT !.pc = "load", !.note = cmd.note \union n, !.broken = cmd.broken]
      BY <2>1, <1>2
    <3> QED
      BY <3>1, <1>2
  <2>2. CASE cmd' = [cmd EXCEPT !.pc = "load", !.note = @ \union (n \ {"disabled"}),
                                !.broken = @ \/ "disabled" \in n]
    <3> DEFINE b == cmd.broken \/ "disabled" \in n
    <3>1. cmd' = [cmd EXCEPT !.pc = "load", !.note = cmd.note \union (n \ {"disabled"}), !.broken = b]
      BY <2>2, <1>2
    <3>2. b \in BOOLEAN /\ (b <=> (cmd.broken \/ (n \ {"disabled"} # n /\ "disabled" \in n)))
      BY <1>2
    <3> HIDE DEF b
    <3> QED
      BY <3>1, <3>2
  <2> QED
    BY <2>1, <2>2
<1>5. cmd.note \union m \in Marks
  BY <1>2, <1>3
<1>6. cmd' \in Cmds
  <2> HIDE DEF Marks
  <2> QED
    BY <1>2, <1>4, <1>5
<1>7. /\ cmd'.op = cmd.op /\ cmd'.ver = cmd.ver /\ cmd'.saved = cmd.saved
      /\ cmd'.pc = "load" /\ cmd'.created = cmd.created /\ cmd'.note = cmd.note \union m
  <2> HIDE DEF Marks
  <2> QED
    BY <1>2, <1>4
<1>8. cmd'.err = cmd.err /\ cmd'.cut = cmd.cut /\ cmd'.broken = b
  <2> HIDE DEF Marks
  <2> QED
    BY <1>2, <1>4
<1>9. Advances
  BY <1>1, <1>6, <1>7, <1>8, CommandIs DEF Advances, Command
<1> QED
  BY <1>4, <1>7, <1>8, <1>9, CommandIs DEF ReadsState

\* The state before the installation is read.
LEMMA SupervisorStateInv ==
    ASSUME IInv, os = "darwin", SupervisorState
    PROVE  Moves /\ LaunchdInv'
<1>0. ServiceType /\ LaunchdInv /\ os' = os /\ cmd.op = "install" /\ cmd.pc \in {"print", "overrides"}
  BY DEF IInv, SupervisorState, setting, At, Stopping
<1>1. /\ Untouched
      /\ \/ cmd.pc = "print" /\ (Passes("overrides") \/ Stops("unload") \/ Errs("unload"))
         \/ cmd.pc = "overrides" /\ ReadsState
  BY <1>0, Outcomes, PlacesAre, LaunchdPlacesAre, ReadsStateIs
  DEF SupervisorState, Call, At, Undo, Stopping, PrintJob, instance, files
<1>2. Typed
  BY <1>0, <1>1, LaunchdEffects, UntouchedIs
<1>3. ~cmd.err
  BY <1>0, <1>1 DEF LaunchdInv, LaunchdForward, Installing, Begun
<1>4. Moves
  BY <1>0, <1>1, <1>2, <1>3 DEF Moves, Passes, Stops, Errs, Breaks, Adds, Moved, Installing, ReadsState
<1>5. /\ HalfInstalled => HalfInstalled'
      /\ cmd.cut => HalfInstalled
      /\ \A q : Stops(q) => HalfInstalled'
  BY <1>0, <1>4, Halves DEF Moves
<1>6. LaunchdInv'
  <2>1. LaunchdForward'
    BY <1>0, <1>1, <1>3, <1>5, LaunchdEffects, UntouchedIs, CommandIs, Constants
    DEF LaunchdInv, LaunchdForward, Overrides, Noted, Fresh, Replacing,
        Passes, Stops, Errs, Breaks, Adds, Moved, Rests, Installing, Done, AsSaved, Begun, ReadsState
  <2>2. LaunchdBack'
    BY <1>0, <1>1, <1>3, <1>5, LaunchdEffects, UntouchedIs, CommandIs, Constants
    DEF LaunchdInv, LaunchdForward, Overrides, Noted, Fresh, Making,
        LaunchdBack, Passes, Stops, Errs, Breaks, Adds, Moved, Rests, Installing, Failed, ReadsState
  <2>3. QED
    BY <1>0, <1>1, <1>5, <2>1, <2>2, LaunchdEffects, UntouchedIs, CommandIs, Constants
    DEF LaunchdInv, Passes, Stops, Errs, Breaks, Adds, Moved, Rests, Installing, At, Done,
        Alive, ReadsState
<1> QED
  BY <1>4, <1>6

\* The job is unloaded if it changed, loaded and enabled.
LEMMA LoadInv ==
    ASSUME IInv, os = "darwin", Load
    PROVE  Moves /\ LaunchdInv'
<1>0. ServiceType /\ LaunchdInv /\ os' = os /\ cmd.op = "install" /\ cmd.ver \in Versions
  BY DEF IInv, Load, setting, At, Stopping, ServiceType
<1>1. \/ /\ Untouched /\ cmd.pc = "load"
         /\ \/ "loaded" \notin cmd.note /\ Passes("bootstrap")
            \/ {"loaded", "changed"} \subseteq cmd.note /\ Passes("replace")
            \/ "loaded" \in cmd.note /\ "changed" \notin cmd.note /\ Passes("enable")
      \/ cmd.pc = "replace" /\ Bootout /\ (Passes("replaced") \/ Stops("unload"))
      \/ cmd.pc = "replaced" /\ Untouched /\ Adds("bootstrap", "replaced")
      \/ cmd.pc = "bootstrap" /\ Bootstrap /\ (Passes("bootstrapped") \/ Stops("unload"))
      \/ cmd.pc = "bootstrapped" /\ Untouched /\ Adds("enable", "bootstrapped")
      \/ cmd.pc = "enable" /\ Enable /\ (Passes("done") \/ Stops("unload"))
      \/ cmd.pc \in {"replace", "bootstrap", "enable"} /\ Untouched /\ Errs("unload")
  <2>1. CASE cmd.pc = "load"
    BY <1>0, <2>1, Outcomes, PlacesAre, LaunchdPlacesAre DEF Load, At
  <2>2. CASE cmd.pc = "replace"
    BY <1>0, <2>2, Outcomes, PlacesAre, LaunchdPlacesAre DEF Load, Call, At
  <2>3. CASE cmd.pc = "bootstrap"
    BY <1>0, <2>3, Outcomes, PlacesAre, LaunchdPlacesAre DEF Load, Call, At
  <2>4. CASE cmd.pc = "enable"
    BY <1>0, <2>4, Outcomes, PlacesAre, LaunchdPlacesAre DEF Load, Call, At
  <2>5. CASE cmd.pc \in {"replaced", "bootstrapped"}
    BY <1>0, <2>5, PlacesAre, LaunchdPlacesAre, AddsIs DEF Load, At, Notes
  <2> QED
    BY <2>1, <2>2, <2>3, <2>4, <2>5 DEF Load, At
<1>2. Typed
  BY <1>0, <1>1, LaunchdEffects, UntouchedIs
<1>3. ~cmd.err
  BY <1>0, <1>1 DEF LaunchdInv, LaunchdForward, Installing, Begun
<1>4. Moves
  BY <1>0, <1>1, <1>2, <1>3 DEF Moves, Passes, Stops, Errs, Breaks, Adds, Moved, Installing
<1>5. /\ HalfInstalled => HalfInstalled'
      /\ cmd.cut => HalfInstalled
      /\ \A q : Stops(q) => HalfInstalled'
  BY <1>0, <1>4, Halves DEF Moves
<1>6. LaunchdInv'
  <2>1. CASE cmd.pc = "load" /\ Untouched /\ Passes("bootstrap") /\ "loaded" \notin cmd.note
    BY <1>0, <1>5, <2>1, LaunchdEffects, UntouchedIs, CommandIs, Constants
    DEF LaunchdInv, LaunchdForward, LaunchdBack, Overrides, Noted, Fresh, Replacing, Making,
        Passes, Stops, Errs, Breaks, Adds, Moved, Rests, Installing, At, Done, Failed,
        AsSaved, Alive, Begun
  <2>2. CASE cmd.pc = "load" /\ Untouched /\ Passes("replace") /\ {"loaded", "changed"} \subseteq cmd.note
    BY <1>0, <1>5, <2>2, LaunchdEffects, UntouchedIs, CommandIs, Constants
    DEF LaunchdInv, LaunchdForward, LaunchdBack, Overrides, Noted, Fresh, Replacing, Making,
        Passes, Stops, Errs, Breaks, Adds, Moved, Rests, Installing, At, Done, Failed,
        AsSaved, Alive, Begun
  <2>3. CASE cmd.pc = "load" /\ Untouched /\ Passes("enable") /\ "loaded" \in cmd.note /\ "changed" \notin cmd.note
    BY <1>0, <1>5, <2>3, LaunchdEffects, UntouchedIs, CommandIs, Constants
    DEF LaunchdInv, LaunchdForward, LaunchdBack, Overrides, Noted, Fresh, Replacing, Making,
        Passes, Stops, Errs, Breaks, Adds, Moved, Rests, Installing, At, Done, Failed,
        AsSaved, Alive, Begun
  <2>4. CASE cmd.pc = "replace" /\ Bootout /\ (Passes("replaced") \/ Stops("unload"))
    BY <1>0, <1>5, <2>4, LaunchdEffects, UntouchedIs, CommandIs, Constants
    DEF LaunchdInv, LaunchdForward, LaunchdBack, Overrides, Noted, Fresh, Replacing, Making,
        Passes, Stops, Errs, Breaks, Adds, Moved, Rests, Installing, At, Done, Failed,
        AsSaved, Alive, Begun
  <2>5. CASE cmd.pc = "replaced" /\ Untouched /\ Adds("bootstrap", "replaced")
    BY <1>0, <1>5, <2>5, LaunchdEffects, UntouchedIs, CommandIs, Constants
    DEF LaunchdInv, LaunchdForward, LaunchdBack, Overrides, Noted, Fresh, Replacing, Making,
        Passes, Stops, Errs, Breaks, Adds, Moved, Rests, Installing, At, Done, Failed,
        AsSaved, Alive, Begun
  <2>6. CASE cmd.pc = "bootstrap" /\ Bootstrap /\ (Passes("bootstrapped") \/ Stops("unload"))
    BY <1>0, <1>5, <2>6, LaunchdEffects, UntouchedIs, CommandIs, Constants
    DEF LaunchdInv, LaunchdForward, LaunchdBack, Overrides, Noted, Fresh, Replacing, Making,
        Passes, Stops, Errs, Breaks, Adds, Moved, Rests, Installing, At, Done, Failed,
        AsSaved, Alive, Begun
  <2>7. CASE cmd.pc = "bootstrapped" /\ Untouched /\ Adds("enable", "bootstrapped")
    BY <1>0, <1>5, <2>7, LaunchdEffects, UntouchedIs, CommandIs, Constants
    DEF LaunchdInv, LaunchdForward, LaunchdBack, Overrides, Noted, Fresh, Replacing, Making,
        Passes, Stops, Errs, Breaks, Adds, Moved, Rests, Installing, At, Done, Failed,
        AsSaved, Alive, Begun
  <2>8. CASE cmd.pc = "enable" /\ Enable /\ (Passes("done") \/ Stops("unload"))
    BY <1>0, <1>5, <2>8, LaunchdEffects, UntouchedIs, CommandIs, Constants
    DEF LaunchdInv, LaunchdForward, LaunchdBack, Overrides, Noted, Fresh, Replacing, Making,
        Passes, Stops, Errs, Breaks, Adds, Moved, Rests, Installing, At, Done, Failed,
        AsSaved, Alive, Begun
  <2>9. CASE cmd.pc \in {"replace", "bootstrap", "enable"} /\ Untouched /\ Errs("unload")
    BY <1>0, <1>5, <2>9, LaunchdEffects, UntouchedIs, CommandIs, Constants
    DEF LaunchdInv, LaunchdForward, LaunchdBack, Overrides, Noted, Fresh, Replacing, Making,
        Passes, Stops, Errs, Breaks, Adds, Moved, Rests, Installing, At, Done, Failed,
        AsSaved, Alive, Begun
  <2> QED
    BY <1>1, <2>1, <2>2, <2>3, <2>4, <2>5, <2>6, <2>7, <2>8, <2>9
<1> QED
  BY <1>4, <1>6

\* The steps of a roll-back.
LEMMA LaunchdRollbackInv ==
    ASSUME IInv, os = "darwin", LaunchdRollback
    PROVE  Moves /\ LaunchdInv'
<1>0. ServiceType /\ LaunchdInv /\ os' = os /\ cmd.op = "install"
  BY DEF IInv, LaunchdRollback, setting, At, Stopping
<1>1. \/ cmd.pc = "unload" /\ ~cmd.cut /\ Bootout /\ Passes("restore") /\ ("replaced" \in cmd.note \/ Making)
      \/ cmd.pc = "unload" /\ Untouched /\ Passes("restore") /\ ~("replaced" \in cmd.note \/ Making)
      \/ cmd.pc = "restore" /\ reg' = cmd.saved.reg /\ UNCHANGED <<known, enabled, proc, host, dirs, used>> /\ Passes("again") /\ "replaced" \in cmd.note
      \/ cmd.pc = "restore" /\ reg' = cmd.saved.reg /\ UNCHANGED <<known, enabled, proc, host, dirs, used>> /\ Passes("overridden") /\ "replaced" \notin cmd.note
      \/ cmd.pc = "again" /\ ~cmd.cut /\ Bootstrap /\ Passes("overridden")
      \/ cmd.pc = "overridden" /\ ~cmd.cut /\ Disable /\ Passes("rmdirs") /\ "disabled" \in cmd.note
      \/ /\ cmd.pc = "overridden" /\ ~cmd.cut /\ Enable /\ Passes("rmdirs")
         /\ "disabled" \notin cmd.note /\ "loaded" \in cmd.note
      \/ cmd.pc = "overridden" /\ Untouched /\ Passes("rmdirs")
      \/ /\ cmd.pc \in {"unload", "again", "overridden"} /\ Untouched
         /\ cmd.cut /\ Passes("rmdirs")
      \/ cmd.pc \in {"unload", "restore", "again", "overridden"} /\ Untouched /\ Breaks("rmdirs")
  <2>1. CASE cmd.pc = "unload"
    BY <1>0, <2>1, Outcomes, PlacesAre, LaunchdPlacesAre DEF LaunchdRollback, At, Undo, Making
  <2>2. CASE cmd.pc = "restore"
    BY <1>0, <2>2, Outcomes, PlacesAre, LaunchdPlacesAre DEF LaunchdRollback, At, RestorePlist, instance, files
  <2>3. CASE cmd.pc = "again"
    BY <1>0, <2>3, Outcomes, PlacesAre, LaunchdPlacesAre DEF LaunchdRollback, At, Undo
  <2>4. CASE cmd.pc = "overridden"
    BY <1>0, <2>4, Outcomes, PlacesAre, LaunchdPlacesAre DEF LaunchdRollback, At, Undo
  <2> QED
    BY <2>1, <2>2, <2>3, <2>4 DEF LaunchdRollback, At
<1>2. Typed
  <2>1. CASE Untouched \/ Bootout \/ Bootstrap \/ Enable \/ Disable
    BY <1>0, <2>1, LaunchdEffects, UntouchedIs
  <2>2. CASE UNCHANGED <<known, enabled, proc, host, dirs, used>> /\ reg' \in {reg, cmd.saved.reg}
    BY <1>0, <2>2, CommandIs, Constants
    DEF Typed, MachineTyped, ProcTyped, FilesTyped, FilesGrow, ServiceType, TypeOK
  <2> QED
    BY <1>1, <2>1, <2>2
<1>4. Moves
  BY <1>0, <1>1, <1>2 DEF Moves, Passes, Stops, Errs, Breaks, Adds, Moved, Installing
<1>5. /\ HalfInstalled => HalfInstalled'
      /\ cmd.cut => HalfInstalled
      /\ \A q : Stops(q) => HalfInstalled'
  BY <1>0, <1>4, Halves DEF Moves
<1>6. LaunchdInv'
  <2>1. CASE cmd.pc = "unload" /\ ~cmd.cut /\ Bootout /\ Passes("restore") /\ ("replaced" \in cmd.note \/ Making)
    BY <1>0, <1>5, <2>1, LaunchdEffects, UntouchedIs, CommandIs, Constants
    DEF LaunchdInv, LaunchdForward, LaunchdBack, Overrides, Noted, Fresh, Replacing, Making,
        Passes, Stops, Errs, Breaks, Adds, Moved, Rests, Installing, At, Done, Failed,
        AsSaved, Alive, Begun
  <2>2. CASE cmd.pc = "unload" /\ Untouched /\ Passes("restore") /\ ~("replaced" \in cmd.note \/ Making)
    BY <1>0, <1>5, <2>2, LaunchdEffects, UntouchedIs, CommandIs, Constants
    DEF LaunchdInv, LaunchdForward, LaunchdBack, Overrides, Noted, Fresh, Replacing, Making,
        Passes, Stops, Errs, Breaks, Adds, Moved, Rests, Installing, At, Done, Failed,
        AsSaved, Alive, Begun
  <2>3. CASE cmd.pc = "restore" /\ reg' = cmd.saved.reg /\ UNCHANGED <<known, enabled, proc, host, dirs, used>> /\ Passes("again") /\ "replaced" \in cmd.note
    BY <1>0, <1>5, <2>3, LaunchdEffects, UntouchedIs, CommandIs, Constants
    DEF LaunchdInv, LaunchdForward, LaunchdBack, Overrides, Noted, Fresh, Replacing, Making,
        Passes, Stops, Errs, Breaks, Adds, Moved, Rests, Installing, At, Done, Failed,
        AsSaved, Alive, Begun
  <2>4. CASE cmd.pc = "restore" /\ reg' = cmd.saved.reg /\ UNCHANGED <<known, enabled, proc, host, dirs, used>> /\ Passes("overridden") /\ "replaced" \notin cmd.note
    BY <1>0, <1>5, <2>4, LaunchdEffects, UntouchedIs, CommandIs, Constants
    DEF LaunchdInv, LaunchdForward, LaunchdBack, Overrides, Noted, Fresh, Replacing, Making,
        Passes, Stops, Errs, Breaks, Adds, Moved, Rests, Installing, At, Done, Failed,
        AsSaved, Alive, Begun
  <2>5. CASE cmd.pc = "again" /\ ~cmd.cut /\ Bootstrap /\ Passes("overridden")
    BY <1>0, <1>5, <2>5, LaunchdEffects, UntouchedIs, CommandIs, Constants
    DEF LaunchdInv, LaunchdForward, LaunchdBack, Overrides, Noted, Fresh, Replacing, Making,
        Passes, Stops, Errs, Breaks, Adds, Moved, Rests, Installing, At, Done, Failed,
        AsSaved, Alive, Begun
  <2>6. CASE cmd.pc = "overridden" /\ ~cmd.cut /\ Disable /\ Passes("rmdirs") /\ "disabled" \in cmd.note
    BY <1>0, <1>5, <2>6, LaunchdEffects, UntouchedIs, CommandIs, Constants
    DEF LaunchdInv, LaunchdForward, LaunchdBack, Overrides, Noted, Fresh, Replacing, Making,
        Passes, Stops, Errs, Breaks, Adds, Moved, Rests, Installing, At, Done, Failed,
        AsSaved, Alive, Begun
  <2>7. CASE /\ cmd.pc = "overridden" /\ ~cmd.cut /\ Enable /\ Passes("rmdirs")
            /\ "disabled" \notin cmd.note /\ "loaded" \in cmd.note
    BY <1>0, <1>5, <2>7, LaunchdEffects, UntouchedIs, CommandIs, Constants
    DEF LaunchdInv, LaunchdForward, LaunchdBack, Overrides, Noted, Fresh, Replacing, Making,
        Passes, Stops, Errs, Breaks, Adds, Moved, Rests, Installing, At, Done, Failed,
        AsSaved, Alive, Begun
  <2>8. CASE cmd.pc = "overridden" /\ Untouched /\ Passes("rmdirs")
    BY <1>0, <1>5, <2>8, LaunchdEffects, UntouchedIs, CommandIs, Constants
    DEF LaunchdInv, LaunchdForward, LaunchdBack, Overrides, Noted, Fresh, Replacing, Making,
        Passes, Stops, Errs, Breaks, Adds, Moved, Rests, Installing, At, Done, Failed,
        AsSaved, Alive, Begun
  <2>9. CASE /\ cmd.pc \in {"unload", "again", "overridden"} /\ Untouched
            /\ cmd.cut /\ Passes("rmdirs")
    BY <1>0, <1>5, <2>9, LaunchdEffects, UntouchedIs, CommandIs, Constants
    DEF LaunchdInv, LaunchdForward, LaunchdBack, Overrides, Noted, Fresh, Replacing, Making,
        Passes, Stops, Errs, Breaks, Adds, Moved, Rests, Installing, At, Done, Failed,
        AsSaved, Alive, Begun
  <2>10. CASE cmd.pc \in {"unload", "restore", "again", "overridden"} /\ Untouched /\ Breaks("rmdirs")
    BY <1>0, <1>5, <2>10, LaunchdEffects, UntouchedIs, CommandIs, Constants
    DEF LaunchdInv, LaunchdForward, LaunchdBack, Overrides, Noted, Fresh, Replacing, Making,
        Passes, Stops, Errs, Breaks, Adds, Moved, Rests, Installing, At, Done, Failed,
        AsSaved, Alive, Begun
  <2> QED
    BY <1>1, <2>1, <2>2, <2>3, <2>4, <2>5, <2>6, <2>7, <2>8, <2>9, <2>10
<1> QED
  BY <1>4, <1>6

\* The steps of an uninstallation.
LEMMA LaunchdUninstallInv ==
    ASSUME IInv, os = "darwin", LaunchdUninstall
    PROVE  Moves /\ LaunchdInv'
<1>0. ServiceType /\ LaunchdInv /\ os' = os /\ cmd.op = "uninstall"
  BY DEF IInv, LaunchdUninstall, setting, At, Stopping
<1>1. \/ /\ cmd.pc = "check" /\ Untouched
         /\ (reg = None /\ Passes("done")) \/ Passes("bootout") \/ Errs("done")
      \/ cmd.pc = "bootout" /\ Bootout /\ (Passes("remove") \/ Stops("done"))
      \/ cmd.pc = "bootout" /\ Untouched /\ Errs("done")
      \/ /\ cmd.pc = "remove" /\ UNCHANGED <<known, enabled, proc, host, dirs, used>>
         /\ (reg' = None /\ Passes("done")) \/ (reg' = reg /\ Errs("done"))
  BY <1>0, Outcomes, PlacesAre, LaunchdPlacesAre
  DEF LaunchdUninstall, Call, At, Undo, Stopping, PrintJob, instance, files
<1>2. Typed
  <2>1. CASE Untouched \/ Bootout \/ Bootstrap \/ Enable \/ Disable
    BY <1>0, <2>1, LaunchdEffects, UntouchedIs
  <2>2. CASE UNCHANGED <<known, enabled, proc, host, dirs, used>> /\ reg' \in {reg, None}
    BY <1>0, <2>2, CommandIs, Constants
    DEF Typed, MachineTyped, ProcTyped, FilesTyped, FilesGrow, ServiceType, TypeOK
  <2> QED
    BY <1>1, <2>1, <2>2
<1>4. Moves
  BY <1>0, <1>1, <1>2 DEF Moves, Passes, Stops, Errs, Breaks, Adds, Moved, Installing
<1>5. /\ HalfInstalled => HalfInstalled'
      /\ cmd.cut => HalfInstalled
      /\ \A q : Stops(q) => HalfInstalled'
  BY <1>0, <1>4, Halves DEF Moves
<1>6. LaunchdInv'
  BY <1>0, <1>1, <1>5, LaunchdEffects, UntouchedIs, CommandIs, Constants
  DEF LaunchdInv, LaunchdForward, LaunchdBack, Overrides, Noted, Fresh, Replacing, Making,
      Passes, Stops, Errs, Breaks, Adds, Moved, Rests, Installing, At, Done, Failed,
      AsSaved, Alive, Begun
<1> QED
  BY <1>4, <1>6

\* The check of a stop.
LEMMA LaunchdStopCheckInv ==
    ASSUME IInv, os = "darwin", LaunchdStopCheck
    PROVE  Moves /\ LaunchdInv'
<1>0. ServiceType /\ LaunchdInv /\ os' = os /\ cmd.op \in {"stop", "restart"} /\ cmd.pc = "check"
  BY DEF IInv, LaunchdStopCheck, setting, At, Stopping
<1>1. /\ Untouched
      /\ \/ reg = None /\ cmd.op = "stop" /\ Passes("done")
         \/ reg # None /\ Passes("print")
         \/ Errs("done")
  BY <1>0, Outcomes, PlacesAre, LaunchdPlacesAre
  DEF LaunchdStopCheck, Call, At, Undo, Stopping, PrintJob, instance, files
<1>2. Typed
  BY <1>0, <1>1, LaunchdEffects, UntouchedIs
<1>4. Moves
  BY <1>0, <1>1, <1>2 DEF Moves, Passes, Stops, Errs, Breaks, Adds, Moved, Installing
<1>5. /\ HalfInstalled => HalfInstalled'
      /\ cmd.cut => HalfInstalled
      /\ \A q : Stops(q) => HalfInstalled'
  BY <1>0, <1>4, Halves DEF Moves
<1>6. LaunchdInv'
  BY <1>0, <1>1, <1>5, LaunchdEffects, UntouchedIs, CommandIs, Constants
  DEF LaunchdInv, LaunchdForward, LaunchdBack, Overrides, Noted, Fresh, Replacing, Making,
      Passes, Stops, Errs, Breaks, Adds, Moved, Rests, Installing, At, Done, Failed,
      AsSaved, Alive, Begun
<1> QED
  BY <1>4, <1>6

\* The process to wait for is remembered.
LEMMA AsksIs ==
    ASSUME ServiceType, UNCHANGED left, NEW n \in Nat, cmd' = [cmd EXCEPT !.pc = "kill", !.pid = n]
    PROVE  Passes("kill")
<1>1. cmd' \in Command
  BY CommandIs, LaunchdPlacesAre DEF Command
<1>2. /\ cmd'.op = cmd.op /\ cmd'.ver = cmd.ver /\ cmd'.saved = cmd.saved /\ cmd'.pc = "kill"
      /\ cmd'.created = cmd.created /\ cmd'.note = cmd.note
  BY CommandIs DEF Command
<1>3. cmd'.err = cmd.err /\ cmd'.broken = cmd.broken /\ cmd'.cut = cmd.cut
  BY CommandIs DEF Command
<1> QED
  BY <1>1, <1>2, <1>3, CommandIs DEF Advances, Passes, Moved

\* The process is looked up and asked to end.
LEMMA AskToEndInv ==
    ASSUME IInv, os = "darwin", AskToEnd
    PROVE  Moves /\ LaunchdInv'
<1>0. ServiceType /\ LaunchdInv /\ os' = os /\ cmd.op \in {"stop", "restart"} /\ cmd.pc \in {"print", "kill"}
  BY DEF IInv, AskToEnd, setting, At, Stopping
<1>1. \/ Untouched /\ (Passes("kill") \/ Errs("done"))
      \/ SendTerm /\ (Passes("wait") \/ Stops("done"))
  <2>1. CASE cmd.pc = "kill"
    BY <1>0, <2>1, Outcomes, PlacesAre, LaunchdPlacesAre DEF AskToEnd, Call
  <2>2. CASE cmd.pc = "print"
    <3> DEFINE n == IF proc.st \in {"running", "draining"} THEN proc.pid + 1 ELSE None
    <3>1. n \in Nat
      BY <1>0, Constants DEF ServiceType
    <3>2. UNCHANGED left /\ cmd' = [cmd EXCEPT !.pc = "kill", !.pid = n] => Passes("kill")
      <4> HIDE DEF n
      <4> QED
        BY <1>0, <3>1, AsksIs
    <3> QED
      BY <1>0, <2>2, <3>2, Outcomes, PlacesAre DEF AskToEnd
  <2> QED
    BY <1>0, <2>1, <2>2
<1>2. Typed
  BY <1>0, <1>1, LaunchdEffects, UntouchedIs
<1>4. Moves
  BY <1>0, <1>1, <1>2 DEF Moves, Passes, Stops, Errs, Breaks, Adds, Moved, Installing
<1>5. /\ HalfInstalled => HalfInstalled'
      /\ cmd.cut => HalfInstalled
      /\ \A q : Stops(q) => HalfInstalled'
  BY <1>0, <1>4, Halves DEF Moves
<1>6. LaunchdInv'
  BY <1>0, <1>1, <1>5, LaunchdEffects, UntouchedIs, CommandIs, Constants
  DEF LaunchdInv, LaunchdForward, LaunchdBack, Overrides, Noted, Fresh, Replacing, Making,
      Passes, Stops, Errs, Breaks, Adds, Moved, Rests, Installing, At, Done, Failed,
      AsSaved, Alive, Begun
<1> QED
  BY <1>4, <1>6

\* The process is waited for.
LEMMA WaitForExitInv ==
    ASSUME IInv, os = "darwin", WaitForExit
    PROVE  Moves /\ LaunchdInv'
<1>0. ServiceType /\ LaunchdInv /\ os' = os /\ cmd.op \in {"stop", "restart"} /\ cmd.pc = "wait"
  BY DEF IInv, WaitForExit, setting, At, Stopping
<1>1. Untouched /\ (Passes("bootout") \/ Errs("bootout"))
  BY <1>0, Outcomes, PlacesAre, LaunchdPlacesAre
  DEF WaitForExit, Call, At, Undo, Stopping, PrintJob, instance, files
<1>2. Typed
  BY <1>0, <1>1, LaunchdEffects, UntouchedIs
<1>4. Moves
  BY <1>0, <1>1, <1>2 DEF Moves, Passes, Stops, Errs, Breaks, Adds, Moved, Installing
<1>5. /\ HalfInstalled => HalfInstalled'
      /\ cmd.cut => HalfInstalled
      /\ \A q : Stops(q) => HalfInstalled'
  BY <1>0, <1>4, Halves DEF Moves
<1>6. LaunchdInv'
  BY <1>0, <1>1, <1>5, LaunchdEffects, UntouchedIs, CommandIs, Constants
  DEF LaunchdInv, LaunchdForward, LaunchdBack, Overrides, Noted, Fresh, Replacing, Making,
      Passes, Stops, Errs, Breaks, Adds, Moved, Rests, Installing, At, Done, Failed,
      AsSaved, Alive, Begun
<1> QED
  BY <1>4, <1>6

\* The job is unloaded.
LEMMA UnloadInv ==
    ASSUME IInv, os = "darwin", Unload
    PROVE  Moves /\ LaunchdInv'
<1>0. ServiceType /\ LaunchdInv /\ os' = os /\ cmd.op \in {"stop", "restart"} /\ cmd.pc = "bootout"
  BY DEF IInv, Unload, setting, At, Stopping
<1>1. \/ Bootout /\ ((Passes("start") /\ cmd.op = "restart") \/ Passes("done") \/ Stops("done"))
      \/ Untouched /\ Errs("done")
  BY <1>0, Outcomes, PlacesAre, LaunchdPlacesAre
  DEF Unload, Call, At, Undo, Stopping, PrintJob, instance, files
<1>2. Typed
  BY <1>0, <1>1, LaunchdEffects, UntouchedIs
<1>4. Moves
  BY <1>0, <1>1, <1>2 DEF Moves, Passes, Stops, Errs, Breaks, Adds, Moved, Installing
<1>5. /\ HalfInstalled => HalfInstalled'
      /\ cmd.cut => HalfInstalled
      /\ \A q : Stops(q) => HalfInstalled'
  BY <1>0, <1>4, Halves DEF Moves
<1>6. LaunchdInv'
  BY <1>0, <1>1, <1>5, LaunchdEffects, UntouchedIs, CommandIs, Constants
  DEF LaunchdInv, LaunchdForward, LaunchdBack, Overrides, Noted, Fresh, Replacing, Making,
      Passes, Stops, Errs, Breaks, Adds, Moved, Rests, Installing, At, Done, Failed,
      AsSaved, Alive, Begun
<1> QED
  BY <1>4, <1>6

\* The check of a start.
LEMMA LaunchdStartCheckInv ==
    ASSUME IInv, os = "darwin", LaunchdStartCheck
    PROVE  Moves /\ LaunchdInv'
<1>0. ServiceType /\ LaunchdInv /\ os' = os /\ cmd.op \in {"start", "restart"}
  BY DEF IInv, LaunchdStartCheck, setting, At, Stopping
<1>1. Untouched /\ ((reg # None /\ Passes("ensure")) \/ Errs("done"))
  BY <1>0, Outcomes, PlacesAre, LaunchdPlacesAre
  DEF LaunchdStartCheck, Call, At, Undo, Stopping, PrintJob, instance, files
<1>2. Typed
  BY <1>0, <1>1, LaunchdEffects, UntouchedIs
<1>4. Moves
  BY <1>0, <1>1, <1>2 DEF Moves, Passes, Stops, Errs, Breaks, Adds, Moved, Installing
<1>5. /\ HalfInstalled => HalfInstalled'
      /\ cmd.cut => HalfInstalled
      /\ \A q : Stops(q) => HalfInstalled'
  BY <1>0, <1>4, Halves DEF Moves
<1>6. LaunchdInv'
  BY <1>0, <1>1, <1>5, LaunchdEffects, UntouchedIs, CommandIs, Constants
  DEF LaunchdInv, LaunchdForward, LaunchdBack, Overrides, Noted, Fresh, Replacing, Making,
      Passes, Stops, Errs, Breaks, Adds, Moved, Rests, Installing, At, Done, Failed,
      AsSaved, Alive, Begun
<1> QED
  BY <1>4, <1>6

\* The job is loaded unless it is.
LEMMA EnsureLoadedInv ==
    ASSUME IInv, os = "darwin", EnsureLoaded
    PROVE  Moves /\ LaunchdInv'
<1>0. ServiceType /\ LaunchdInv /\ os' = os /\ cmd.pc = "ensure" /\ cmd.op \in {"start", "restart"} /\ reg # None
  BY DEF IInv, EnsureLoaded, setting, LaunchdInv
<1>1. \/ known # None /\ Untouched /\ (Passes("kickstart") \/ Errs("done"))
      \/ Bootstrap /\ (Passes("kickstart") \/ Stops("done"))
      \/ Untouched /\ Errs("done")
  BY <1>0, Outcomes, PlacesAre, LaunchdPlacesAre
  DEF EnsureLoaded, Call, At, Undo, Stopping, PrintJob, instance, files
<1>2. Typed
  BY <1>0, <1>1, LaunchdEffects, UntouchedIs
<1>4. Moves
  BY <1>0, <1>1, <1>2 DEF Moves, Passes, Stops, Errs, Breaks, Adds, Moved, Installing
<1>5. /\ HalfInstalled => HalfInstalled'
      /\ cmd.cut => HalfInstalled
      /\ \A q : Stops(q) => HalfInstalled'
  BY <1>0, <1>4, Halves DEF Moves
<1>6. LaunchdInv'
  BY <1>0, <1>1, <1>5, LaunchdEffects, UntouchedIs, CommandIs, Constants
  DEF LaunchdInv, LaunchdForward, LaunchdBack, Overrides, Noted, Fresh, Replacing, Making,
      Passes, Stops, Errs, Breaks, Adds, Moved, Rests, Installing, At, Done, Failed,
      AsSaved, Alive, Begun
<1> QED
  BY <1>4, <1>6

\* The job is started.
LEMMA KickstartJobInv ==
    ASSUME IInv, os = "darwin", KickstartJob
    PROVE  Moves /\ LaunchdInv'
<1>0. ServiceType /\ LaunchdInv /\ os' = os /\ cmd.pc = "kickstart" /\ cmd.op \in {"start", "restart"}
  BY DEF IInv, KickstartJob, setting, LaunchdInv
<1>1. \/ Kickstart /\ (Passes("done") \/ Stops("done"))
      \/ Untouched /\ Errs("done")
  BY <1>0, Outcomes, PlacesAre, LaunchdPlacesAre
  DEF KickstartJob, Call, At, Undo, Stopping, PrintJob, instance, files
<1>2. Typed
  BY <1>0, <1>1, LaunchdEffects, UntouchedIs
<1>4. Moves
  BY <1>0, <1>1, <1>2 DEF Moves, Passes, Stops, Errs, Breaks, Adds, Moved, Installing
<1>5. /\ HalfInstalled => HalfInstalled'
      /\ cmd.cut => HalfInstalled
      /\ \A q : Stops(q) => HalfInstalled'
  BY <1>0, <1>4, Halves DEF Moves
<1>6. LaunchdInv'
  BY <1>0, <1>1, <1>5, LaunchdEffects, UntouchedIs, CommandIs, Constants
  DEF LaunchdInv, LaunchdForward, LaunchdBack, Overrides, Noted, Fresh, Replacing, Making,
      Passes, Stops, Errs, Breaks, Adds, Moved, Rests, Installing, At, Done, Failed,
      AsSaved, Alive, Begun
<1> QED
  BY <1>4, <1>6

\* Steps beside the calls of the manager.
LEMMA LaunchdFrame ==
    ASSUME IInv, os = "darwin", ServiceType',
           \/ Checks /\ os' = os /\ cmd.op = "install" /\ cmd.pc = "check"
           \/ Prepares
           \/ Begins
           \/ Dies /\ os' = os /\ Rests
           \/ Interrupts
    PROVE  LaunchdInv'
<1>0. ServiceType /\ LaunchdInv
  BY DEF IInv
<1>1. CASE Checks /\ os' = os /\ cmd.op = "install" /\ cmd.pc = "check"
  <2>1. /\ HalfInstalled => HalfInstalled'
        /\ cmd.cut => HalfInstalled
    BY <1>0, <1>1, Halves DEF Checks
  <2> QED
    BY <1>0, <1>1, <2>1, CommandIs, Constants
    DEF Checks, LaunchdInv, LaunchdForward, LaunchdBack, Overrides, Noted, Fresh, Replacing, Making,
      Passes, Stops, Errs, Breaks, Adds, Moved, Rests, Installing, At, Done, Failed,
      AsSaved, Alive, Begun
<1>2. CASE Prepares
  <2>1. /\ HalfInstalled => HalfInstalled'
        /\ cmd.cut => HalfInstalled
    BY <1>0, <1>2, Halves DEF Prepares
  <2> QED
    BY <1>0, <1>2, <2>1, CommandIs, Constants
    DEF Prepares, LaunchdInv, LaunchdForward, LaunchdBack, Overrides, Noted, Fresh, Replacing, Making,
      Passes, Stops, Errs, Breaks, Adds, Moved, Rests, Installing, At, Done, Failed,
      AsSaved, Alive, Begun
<1>3. CASE Begins
  <2>1. HalfInstalled' <=> HalfInstalled
    BY <1>3 DEF Begins, HalfInstalled
  <2> QED
    BY <1>0, <1>3, <2>1, CommandIs, Constants
    DEF Begins, LaunchdInv, LaunchdForward, LaunchdBack, Overrides, Noted, Fresh, Replacing, Making,
      Passes, Stops, Errs, Breaks, Adds, Moved, Rests, Installing, At, Done, Failed,
      AsSaved, Alive, Begun
<1>4. CASE Dies /\ os' = os /\ Rests
  <2>1. HalfInstalled' <=> HalfInstalled
    BY <1>4 DEF Dies, HalfInstalled
  <2> QED
    BY <1>0, <1>4, <2>1, CommandIs, Constants
    DEF Dies, LaunchdInv, LaunchdForward, LaunchdBack, Overrides, Noted, Fresh, Replacing, Making,
      Passes, Stops, Errs, Breaks, Adds, Moved, Rests, Installing, At, Done, Failed,
      AsSaved, Alive, Begun
<1>5. CASE Interrupts
  <2>1. HalfInstalled'
    BY <1>5 DEF Interrupts, HalfInstalled
  <2> QED
    BY <1>0, <1>5, <2>1, CommandIs, Constants
    DEF Interrupts, Advances, LaunchdInv, LaunchdForward, LaunchdBack, Overrides, Noted, Fresh, Replacing, Making,
      Passes, Stops, Errs, Breaks, Adds, Moved, Rests, Installing, At, Done, Failed,
      AsSaved, Alive, Begun
<1> QED
  BY <1>1, <1>2, <1>3, <1>4, <1>5

\* The instance, launchd, other programs and reboots keep LaunchdInv.
LEMMA LaunchdLife ==
    ASSUME IInv, os = "darwin",
           ForeignFile \/ InstanceEnds \/ LaunchdRelaunches \/ Reboot
    PROVE  LaunchdInv' /\ ServiceType' /\ (Dies \/ (Lives /\ FilesLive))
<1>0. ServiceType /\ LaunchdInv
  BY DEF IInv
<1>a. ASSUME Lives PROVE HalfInstalled' <=> HalfInstalled
  BY <1>a DEF Lives, HalfInstalled
<1>1. CASE ForeignFile
  <2>1. Lives /\ proc' = proc /\ FilesLive /\ ServiceType'
    BY <1>0, <1>1, ForeignFileIs DEF FilesLive
  <2> QED
    BY <1>0, <1>a, <2>1
    DEF Lives, LaunchdInv, LaunchdForward, LaunchdBack, Overrides, Noted, Fresh, Replacing, Making,
      Passes, Stops, Errs, Breaks, Adds, Moved, Rests, Installing, At, Done, Failed,
      AsSaved, Alive, Begun
<1>2. CASE InstanceEnds
  <2>1. /\ Lives /\ FilesLive /\ ServiceType'
        /\ proc.st \in {"running", "draining"} /\ proc'.st \in {"none", "auto"}
    BY <1>0, <1>2, InstanceEndsIs DEF FilesLive
  <2> QED
    BY <1>0, <1>a, <2>1
    DEF Lives, LaunchdInv, LaunchdForward, LaunchdBack, Overrides, Noted, Fresh, Replacing, Making,
      Passes, Stops, Errs, Breaks, Adds, Moved, Rests, Installing, At, Done, Failed,
      AsSaved, Alive, Begun
<1>3. CASE LaunchdRelaunches
  <2>1. Typed /\ proc'.st = "running" /\ proc.st = "auto"
    BY <1>0, <1>3, LaunchedGrows, CommandIs DEF LaunchdRelaunches, machine
  <2>2. Lives /\ UNCHANGED <<scope, root, left>>
    BY <1>3 DEF LaunchdRelaunches, machine, setting, Lives
  <2>3. ServiceType'
    <3>1. Advances /\ UNCHANGED setting
      BY <2>2, CommandIs, <1>0 DEF Advances, Lives, setting
    <3> QED
      BY <1>0, <2>1, <3>1, AdvanceType DEF Typed
  <2>4. FilesLive
    BY <2>1, GrowLives DEF Typed
  <2> QED
    BY <1>0, <1>a, <2>1, <2>2, <2>3, <2>4
    DEF Lives, LaunchdInv, LaunchdForward, LaunchdBack, Overrides, Noted, Fresh, Replacing, Making,
      Passes, Stops, Errs, Breaks, Adds, Moved, Rests, Installing, At, Done, Failed,
      AsSaved, Alive, Begun
<1>4. CASE Reboot
  <2>1. LaunchdBoot
    BY <1>4 DEF Reboot
  <2>2. NoProc \in [st : ProcStates, ver : Version, pid : Nat] /\ NoProc.st = "none"
    BY Constants DEF NoProc, ProcStates
  <2>3. known' \in {reg, None} /\ (enabled => known' = reg) /\ reg' = reg /\ enabled' = enabled
    BY <2>1 DEF LaunchdBoot
  <2>4. Typed /\ (proc'.st = "none" \/ (proc'.st = "running" /\ reg # None /\ known' = reg))
    <3>1. CASE enabled /\ reg # None
      <4>1. Launched(reg) /\ reg # None
        BY <2>1, <3>1 DEF LaunchdBoot
      <4>2. ProcTyped /\ FilesTyped /\ proc'.st = "running" /\ FilesGrow
        BY <1>0, <4>1, LaunchedTyped, CommandIs DEF Launched, WritesState, FilesGrow
      <4> QED
        BY <1>0, <2>3, <3>1, <4>1, <4>2, CommandIs DEF Typed, MachineTyped
    <3>2. CASE ~(enabled /\ reg # None)
      <4>1. proc' = NoProc /\ UNCHANGED <<host, dirs, used>>
        BY <2>1, <3>2 DEF LaunchdBoot, files
      <4> QED
        BY <1>0, <2>2, <2>3, <4>1, CommandIs, Constants
        DEF Typed, MachineTyped, ProcTyped, FilesTyped, FilesGrow, ServiceType, TypeOK
    <3> QED
      BY <3>1, <3>2
  <2>5. Dies /\ os' = os /\ ServiceType'
    BY <1>0, <1>4, <2>4, RebootIs
  <2> QED
    BY <1>0, <2>3, <2>4, <2>5 DEF Dies, LaunchdInv, Installing, At, Done, Alive
<1> QED
  BY <1>1, <1>2, <1>3, <1>4

\* Every step of a command on macOS.
LEMMA LaunchdCommandInv ==
    ASSUME IInv, os = "darwin", LaunchdCommand
    PROVE  LaunchdInv' /\ ServiceType' /\ ((Checks /\ cmd.pc = "check") \/ Moves)
<1>0. ServiceType /\ UNCHANGED setting
  BY DEF IInv, LaunchdCommand, LaunchdCheck, LaunchdGrant, LaunchdPreflight, WritePlist,
         SupervisorState, Load, LaunchdRollback, LaunchdUninstall, LaunchdStopCheck, AskToEnd,
         WaitForExit, Unload, LaunchdStartCheck, EnsureLoaded, KickstartJob
<1>1. CASE LaunchdCheck
  <2>1. Checks /\ os' = os /\ cmd.op = "install" /\ cmd.pc = "check"
    BY <1>0, <1>1, ChecksIs DEF LaunchdCheck, At, setting
  <2>2. ServiceType'
    BY <1>0, <2>1, AdvanceType DEF Checks, Typed
  <2> QED
    BY <2>1, <2>2, LaunchdFrame
<1>2. CASE ~LaunchdCheck
  <2>1. Moves /\ LaunchdInv'
    BY <1>2, LaunchdGrantInv, LaunchdPreflightInv, WritePlistInv, SupervisorStateInv, LoadInv,
       LaunchdRollbackInv, LaunchdUninstallInv, LaunchdStopCheckInv, AskToEndInv,
       WaitForExitInv, UnloadInv, LaunchdStartCheckInv, EnsureLoadedInv, KickstartJobInv
    DEF LaunchdCommand
  <2>2. ServiceType'
    BY <1>0, <2>1, AdvanceType DEF Moves, Typed
  <2> QED
    BY <2>1, <2>2
<1> QED
  BY <1>1, <1>2
---------------------------------------------------------------------------
(* Windows *)

\* Program counters of Windows.
LEMMA ScmPlacesAre == {"query", "control", "delete", "start"} \subseteq Places
  BY DEF Places

\* The directories get their access control lists.
LEMMA RestrictInstanceStateInv ==
    ASSUME IInv, os = "windows", RestrictInstanceState
    PROVE  Moves /\ ScmInv'
<1>0. ServiceType /\ ScmInv /\ os' = os /\ cmd.op = "install" /\ cmd.pc = "prepared"
  BY DEF IInv, RestrictInstanceState, setting, At
<1>1. Untouched /\ (Passes("preflight") \/ Errs("rmdirs"))
  BY <1>0, Outcomes, PlacesAre, ScmPlacesAre
  DEF RestrictInstanceState, At
<1>2. Typed
  BY <1>0, <1>1, UntouchedIs
<1>3. ~cmd.err
  BY <1>0, <1>1 DEF ScmInv, ScmCommandInv, Installing, Begun
<1>4. Moves
  BY <1>0, <1>1, <1>2, <1>3 DEF Moves, Passes, Stops, Errs, Breaks, Adds, Moved, Installing
<1>5. ScmInv'
  BY <1>0, <1>1, UntouchedIs, CommandIs, Constants
  DEF ScmInv, ScmCommandInv, Passes, Stops, Errs, Breaks, Adds, Moved, Rests, Installing, At, Done,
      Failed, AsSaved, Alive, Begun
<1> QED
  BY <1>4, <1>5

\* The preflight of an installation.
LEMMA ScmPreflightInv ==
    ASSUME IInv, os = "windows", ScmPreflight
    PROVE  Moves /\ ScmInv'
<1>0. ServiceType /\ ScmInv /\ os' = os /\ cmd.op = "install" /\ cmd.pc = "preflight"
  BY DEF IInv, ScmPreflight, setting, At
<1>1. Untouched /\ (Passes("register") \/ Errs("rmdirs"))
  BY <1>0, Outcomes, PlacesAre, ScmPlacesAre
  DEF ScmPreflight, At
<1>2. Typed
  BY <1>0, <1>1, UntouchedIs
<1>3. ~cmd.err
  BY <1>0, <1>1 DEF ScmInv, ScmCommandInv, Installing, Begun
<1>4. Moves
  BY <1>0, <1>1, <1>2, <1>3 DEF Moves, Passes, Stops, Errs, Breaks, Adds, Moved, Installing
<1>5. ScmInv'
  BY <1>0, <1>1, UntouchedIs, CommandIs, Constants
  DEF ScmInv, ScmCommandInv, Passes, Stops, Errs, Breaks, Adds, Moved, Rests, Installing, At, Done,
      Failed, AsSaved, Alive, Begun
<1> QED
  BY <1>4, <1>5

\* The service is created or updated.
LEMMA ScmRegisterInv ==
    ASSUME IInv, os = "windows", ScmRegister
    PROVE  Moves /\ ScmInv'
<1>0. ServiceType /\ ScmInv /\ os' = os /\ cmd.op = "install" /\ cmd.pc = "register" /\ cmd.ver \in Versions
  BY DEF IInv, ScmRegister, setting, At, ServiceType
<1>1. /\ UNCHANGED <<proc, host, dirs, used>>
      /\ \/ reg' = cmd.ver /\ known' = cmd.ver /\ enabled' = TRUE /\ Passes("done")
         \/ reg' = reg /\ known' = known /\ enabled' = enabled /\ Errs("rmdirs")
  BY <1>0, Outcomes, PlacesAre, ScmPlacesAre
  DEF ScmRegister, At, instance, files, machine
<1>2. Typed
  BY <1>0, <1>1, UntouchedIs, CommandIs, Constants
  DEF Typed, MachineTyped, ProcTyped, FilesTyped, FilesGrow, ServiceType, TypeOK
<1>3. ~cmd.err
  BY <1>0, <1>1 DEF ScmInv, ScmCommandInv, Installing, Begun
<1>4. Moves
  BY <1>0, <1>1, <1>2, <1>3 DEF Moves, Passes, Stops, Errs, Breaks, Adds, Moved, Installing
<1>5. ScmInv'
  BY <1>0, <1>1, UntouchedIs, CommandIs, Constants
  DEF ScmInv, ScmCommandInv, Passes, Stops, Errs, Breaks, Adds, Moved, Rests, Installing, At, Done,
      Failed, AsSaved, Alive, Begun
<1> QED
  BY <1>4, <1>5

\* The registration is opened.
LEMMA OpenRegistrationInv ==
    ASSUME IInv, os = "windows", OpenRegistration
    PROVE  Moves /\ ScmInv'
<1>0. ServiceType /\ ScmInv /\ os' = os /\ cmd.op \in {"uninstall", "start", "stop", "restart"}
  BY DEF IInv, OpenRegistration, setting, At
<1>1. /\ Untouched
      /\ \/ reg = None /\ cmd.op \in {"stop", "uninstall"} /\ Passes("done")
         \/ reg # None /\ cmd.op = "start" /\ Passes("start")
         \/ reg # None /\ cmd.op # "start" /\ Passes("query")
         \/ Errs("done")
  BY <1>0, Outcomes, PlacesAre, ScmPlacesAre
  DEF OpenRegistration, At
<1>2. Typed
  BY <1>0, <1>1, UntouchedIs
<1>4. Moves
  BY <1>0, <1>1, <1>2 DEF Moves, Passes, Stops, Errs, Breaks, Adds, Moved, Installing
<1>5. ScmInv'
  BY <1>0, <1>1, UntouchedIs, CommandIs, Constants
  DEF ScmInv, ScmCommandInv, Passes, Stops, Errs, Breaks, Adds, Moved, Rests, Installing, At, Done,
      Failed, AsSaved, Alive, Begun
<1> QED
  BY <1>4, <1>5

\* A service that starts stays within the types.
LEMMA StartingTyped ==
    ASSUME ServiceType, UNCHANGED <<reg, known, enabled, dirs, used>>,
           proc' = [st |-> "starting", ver |-> reg, pid |-> 0],
           host' = [exec |-> "resolve", run |-> "none", late |-> FALSE]
    PROVE  Typed
  BY CommandIs
  DEF Typed, MachineTyped, ProcTyped, FilesTyped, FilesGrow, ServiceType, TypeOK, ProcStates, Executes, Ran

\* The service is started.
LEMMA ScmStartInv ==
    ASSUME IInv, os = "windows", ScmStart
    PROVE  Moves /\ ScmInv'
<1>0. ServiceType /\ ScmInv /\ os' = os /\ cmd.op \in {"start", "restart"} /\ cmd.pc = "start"
  BY DEF IInv, ScmStart, setting, At
<1>1. \/ /\ proc' = [st |-> "starting", ver |-> reg, pid |-> 0]
         /\ host' = [exec |-> "resolve", run |-> "none", late |-> FALSE]
         /\ UNCHANGED <<reg, known, enabled, dirs, used>> /\ Passes("done")
      \/ Untouched /\ (Passes("done") \/ Errs("done"))
  BY <1>0, Outcomes, PlacesAre, ScmPlacesAre
  DEF ScmStart, At, StartService, machine, files
<1>2. Typed
  <2>1. CASE Untouched
    BY <1>0, <2>1, UntouchedIs
  <2>2. CASE /\ proc' = [st |-> "starting", ver |-> reg, pid |-> 0]
             /\ host' = [exec |-> "resolve", run |-> "none", late |-> FALSE]
             /\ UNCHANGED <<reg, known, enabled, dirs, used>>
    BY <1>0, <2>2, CommandIs, StartingTyped
  <2> QED
    BY <1>1, <2>1, <2>2
<1>4. Moves
  BY <1>0, <1>1, <1>2 DEF Moves, Passes, Stops, Errs, Breaks, Adds, Moved, Installing
<1>5. ScmInv'
  BY <1>0, <1>1, UntouchedIs, CommandIs, Constants
  DEF ScmInv, ScmCommandInv, Passes, Stops, Errs, Breaks, Adds, Moved, Rests, Installing, At, Done,
      Failed, AsSaved, Alive, Begun
<1> QED
  BY <1>4, <1>5

\* Where a command goes when the service has stopped.
Onward ==
    \/ cmd.op = "restart" /\ Passes("start")
    \/ cmd.op = "uninstall" /\ Passes("delete")
    \/ cmd.op = "stop" /\ Passes("done")

\* AfterStop is Onward.
LEMMA OnwardIs ==
    ASSUME ServiceType, UNCHANGED left, Go(AfterStop), cmd.op \in {"uninstall", "stop", "restart"}
    PROVE  Onward
  BY Outcomes, PlacesAre, ScmPlacesAre DEF AfterStop, Onward

\* The service is queried until it has stopped.
LEMMA QueryServiceInv ==
    ASSUME IInv, os = "windows", QueryService
    PROVE  Moves /\ ScmInv'
<1>0. ServiceType /\ ScmInv /\ os' = os /\ cmd.op \in {"uninstall", "stop", "restart"} /\ cmd.pc = "query" /\ reg # None
  BY DEF IInv, QueryService, setting, At, ScmInv, ScmCommandInv
<1>1. /\ Untouched
      /\ (Halted /\ Onward) \/ Passes("control") \/ Errs("done")
  BY <1>0, Outcomes, PlacesAre, ScmPlacesAre, OnwardIs
  DEF QueryService, At
<1>2. Typed
  BY <1>0, <1>1, UntouchedIs
<1>4. Moves
  BY <1>0, <1>1, <1>2 DEF Moves, Onward, Passes, Stops, Errs, Breaks, Adds, Moved, Installing
<1>5. ScmInv'
  BY <1>0, <1>1, UntouchedIs, CommandIs, Constants
  DEF ScmInv, ScmCommandInv, Passes, Stops, Errs, Breaks, Adds, Moved, Rests, Installing, At, Done,
      Failed, AsSaved, Alive, Begun, Onward, Halted
<1> QED
  BY <1>4, <1>5

\* The control is delivered.
LEMMA DeliverStopInv ==
    ASSUME IInv, os = "windows", DeliverStop
    PROVE  Moves /\ ScmInv'
<1>0. ServiceType /\ ScmInv /\ os' = os /\ cmd.op \in {"uninstall", "stop", "restart"} /\ cmd.pc = "control" /\ reg # None
  BY DEF IInv, DeliverStop, setting, At, ScmInv, ScmCommandInv
<1>1. \/ /\ proc.st = "running" /\ proc' = [proc EXCEPT !.st = "draining"]
         /\ host' = [host EXCEPT !.exec = "stopping", !.run = IF @ = "serving" THEN "closing" ELSE @]
         /\ UNCHANGED <<reg, known, enabled, dirs, used>> /\ Adds("query", "delivered")
      \/ Untouched /\ ((Halted /\ Onward) \/ Passes("query") \/ Errs("done"))
  BY <1>0, Outcomes, PlacesAre, ScmPlacesAre, OnwardIs, AddsIs
  DEF DeliverStop, At, machine, files
<1>2. Typed
  <2>1. CASE Untouched
    BY <1>0, <2>1, UntouchedIs
  <2>2. CASE /\ proc' = [proc EXCEPT !.st = "draining"]
             /\ host' = [host EXCEPT !.exec = "stopping", !.run = IF @ = "serving" THEN "closing" ELSE @]
             /\ UNCHANGED <<reg, known, enabled, dirs, used>>
    <3>1. ProcTyped
      BY <1>0, <2>2 DEF ProcTyped, ServiceType, ProcStates, Executes, Ran
    <3> QED
      BY <1>0, <2>2, <3>1, CommandIs
      DEF Typed, MachineTyped, FilesTyped, FilesGrow, ServiceType, TypeOK
  <2> QED
    BY <1>1, <2>1, <2>2
<1>4. Moves
  BY <1>0, <1>1, <1>2 DEF Moves, Onward, Passes, Stops, Errs, Breaks, Adds, Moved, Installing
<1>5. ScmInv'
  <2>1. CASE Untouched /\ ((Halted /\ Onward) \/ Passes("query") \/ Errs("done"))
    BY <1>0, <2>1, UntouchedIs, CommandIs, Constants
    DEF ScmInv, ScmCommandInv, Passes, Errs, Moved, Rests, Installing, At, Done,
        Failed, AsSaved, Alive, Begun, Onward, Halted
  <2>2. CASE /\ proc.st = "running" /\ proc' = [proc EXCEPT !.st = "draining"]
             /\ host' = [host EXCEPT !.exec = "stopping", !.run = IF @ = "serving" THEN "closing" ELSE @]
             /\ UNCHANGED <<reg, known, enabled, dirs, used>> /\ Adds("query", "delivered")
    <3>1. /\ proc'.st = "draining" /\ host'.exec = "stopping"
          /\ known' = reg' /\ reg' = reg
      BY <1>0, <2>2 DEF ScmInv, ServiceType
    <3>2. cmd'.op \in {"uninstall", "stop", "restart"} /\ cmd'.pc = "query"
      BY <1>0, <2>2 DEF Adds
    <3>3. ScmCommandInv'
      BY <1>0, <3>1, <3>2 DEF ScmCommandInv, Installing, Failed, Done
    <3> QED
      BY <1>0, <3>1, <3>3 DEF ScmInv, Alive
  <2> QED
    BY <1>1, <2>1, <2>2
<1> QED
  BY <1>4, <1>5

\* The service is deleted.
LEMMA ScmDeleteInv ==
    ASSUME IInv, os = "windows", ScmDelete
    PROVE  Moves /\ ScmInv'
<1>0. ServiceType /\ ScmInv /\ os' = os /\ cmd.op = "uninstall" /\ cmd.pc = "delete"
  BY DEF IInv, ScmDelete, setting, At
<1>1. /\ UNCHANGED <<proc, host, dirs, used>>
      /\ \/ reg' = None /\ known' = None /\ enabled' = FALSE /\ Passes("done")
         \/ reg' = reg /\ known' = known /\ enabled' = enabled /\ Errs("done")
  BY <1>0, Outcomes, PlacesAre, ScmPlacesAre
  DEF ScmDelete, At, instance, files, machine
<1>2. Typed
  BY <1>0, <1>1, UntouchedIs, CommandIs, Constants
  DEF Typed, MachineTyped, ProcTyped, FilesTyped, FilesGrow, ServiceType, TypeOK
<1>4. Moves
  BY <1>0, <1>1, <1>2 DEF Moves, Passes, Stops, Errs, Breaks, Adds, Moved, Installing
<1>5. ScmInv'
  BY <1>0, <1>1, UntouchedIs, CommandIs, Constants
  DEF ScmInv, ScmCommandInv, Passes, Stops, Errs, Breaks, Adds, Moved, Rests, Installing, At, Done,
      Failed, AsSaved, Alive, Begun
<1> QED
  BY <1>4, <1>5

\* Steps beside the calls of the manager.
LEMMA ScmFrame ==
    ASSUME IInv, os = "windows", ServiceType',
           \/ Checks /\ os' = os /\ cmd.op = "install" /\ cmd.pc = "check"
           \/ Prepares
           \/ Begins
           \/ Dies /\ os' = os /\ Rests
           \/ Interrupts
    PROVE  ScmInv'
<1>0. ServiceType /\ ScmInv
  BY DEF IInv
<1>1. CASE Checks /\ os' = os /\ cmd.op = "install" /\ cmd.pc = "check"
  BY <1>0, <1>1, CommandIs, Constants
  DEF Checks, ScmInv, ScmCommandInv, Passes, Stops, Errs, Breaks, Adds, Moved, Rests, Installing, At, Done,
      Failed, AsSaved, Alive, Begun
<1>2. CASE Prepares
  <2>1. /\ os' = os /\ reg' = reg /\ known' = known /\ enabled' = enabled
        /\ proc' = proc /\ host' = host /\ cmd.op = "install"
    BY <1>2 DEF Prepares
  <2>2. CASE cmd' = cmd
    BY <1>0, <2>1, <2>2 DEF ScmInv, ScmCommandInv, Passes, Stops, Errs, Breaks, Adds, Moved, Rests, Installing, At, Done,
      Failed, AsSaved, Alive, Begun
  <2>3. CASE cmd.pc = "prepare" /\ (Passes("prepared") \/ Errs("rmdirs"))
    BY <1>0, <2>1, <2>3, CommandIs
    DEF ScmInv, ScmCommandInv, Passes, Stops, Errs, Breaks, Adds, Moved, Rests, Installing, At, Done,
      Failed, AsSaved, Alive, Begun
  <2>4. CASE cmd.pc = "rmdirs" /\ Passes("done")
    BY <1>0, <2>1, <2>4, CommandIs
    DEF ScmInv, ScmCommandInv, Passes, Stops, Errs, Breaks, Adds, Moved, Rests, Installing, At, Done,
      Failed, AsSaved, Alive, Begun
  <2> QED
    BY <1>2, <2>2, <2>3, <2>4 DEF Prepares
<1>3. CASE Begins
  BY <1>0, <1>3, CommandIs, Constants
  DEF Begins, ScmInv, ScmCommandInv, Passes, Stops, Errs, Breaks, Adds, Moved, Rests, Installing, At, Done,
      Failed, AsSaved, Alive, Begun
<1>4. CASE Dies /\ os' = os /\ Rests
  BY <1>0, <1>4, CommandIs, Constants
  DEF Dies, ScmInv, ScmCommandInv, Passes, Stops, Errs, Breaks, Adds, Moved, Rests, Installing, At, Done,
      Failed, AsSaved, Alive, Begun
<1>5. CASE Interrupts
  BY <1>0, <1>5, CommandIs, Constants
  DEF Interrupts, Advances, ScmInv, ScmCommandInv, Passes, Stops, Errs, Breaks, Adds, Moved, Rests, Installing, At, Done,
      Failed, AsSaved, Alive, Begun
<1> QED
  BY <1>1, <1>2, <1>3, <1>4, <1>5

\* The process of the service and what the SCM is told of it.
HostFollows ==
    /\ proc.st = "starting" <=> host.exec \in {"resolve", "wait", "quit"}
    /\ proc.st = "running" <=> host.exec = "serve"
    /\ proc.st = "draining" <=> host.exec = "stopping"
    /\ proc.st # "auto"
    /\ host.exec = "resolve" => host.run = "none"
    /\ host.exec = "off" /\ ~host.late => host.run \in {"none", "ended", "failed"}

\* A step of the process keeps HostFollows, and revives no service that has
\* stopped.
LEMMA HostStep ==
    ASSUME ServiceType, HostFollows, ScmHost
    PROVE  /\ HostFollows' /\ ProcTyped /\ FilesTyped /\ FilesGrow
           /\ left' \in Counts /\ left'.interrupts = left.interrupts
           /\ proc'.st \in {"none", "failed"} \/ proc'.st = proc.st \/ proc.st = "starting"
<1>0. /\ proc \in [st : ProcStates, ver : Version, pid : Nat]
      /\ host \in [exec : Executes, run : Ran, late : BOOLEAN]
      /\ dirs \subseteq Dirs /\ used \subseteq dirs /\ left \in Counts
  BY DEF ServiceType, TypeOK, Counts
<1>1. left' \in Counts /\ left'.interrupts = left.interrupts
  BY <1>0 DEF ScmHost, ResolveOptions, WaitForReady, ServeRequests, WaitForShutdown, HostRuns, Spend, Counts
<1>2. FilesTyped /\ FilesGrow
  <2>1. CASE UNCHANGED files
    BY <1>0, <2>1 DEF files, FilesTyped, FilesGrow
  <2>2. CASE WritesState
    BY <1>0, <2>2, Above DEF WritesState, FilesTyped, FilesGrow
  <2> QED
    BY <2>1, <2>2
    DEF ScmHost, ResolveOptions, WaitForReady, ServeRequests, WaitForShutdown, HostRuns
<1>3. CASE ResolveOptions
  <2>1. ProcTyped
    BY <1>0, <1>3 DEF ResolveOptions, Report, Ended, ProcTyped, ProcStates, Executes, Ran
  <2>2. /\ HostFollows'
        /\ proc'.st \in {"none", "failed"} \/ proc'.st = proc.st \/ proc.st = "starting"
    BY <1>0, <1>3 DEF ResolveOptions, Report, Ended, HostFollows, ProcStates, Executes, Ran
  <2> QED
    BY <1>1, <1>2, <2>1, <2>2
<1>4. CASE WaitForReady
  <2>1. ProcTyped
    BY <1>0, <1>4 DEF WaitForReady, Report, Ended, ProcTyped, ProcStates, Executes, Ran
  <2>2. /\ HostFollows'
        /\ proc'.st \in {"none", "failed"} \/ proc'.st = proc.st \/ proc.st = "starting"
    BY <1>0, <1>4 DEF WaitForReady, Report, Ended, HostFollows, ProcStates, Executes, Ran
  <2> QED
    BY <1>1, <1>2, <2>1, <2>2
<1>5. CASE ServeRequests
  <2>1. ProcTyped
    BY <1>0, <1>5 DEF ServeRequests, Report, Ended, ProcTyped, ProcStates, Executes, Ran
  <2>2. /\ HostFollows'
        /\ proc'.st \in {"none", "failed"} \/ proc'.st = proc.st \/ proc.st = "starting"
    BY <1>0, <1>5 DEF ServeRequests, Report, Ended, HostFollows, ProcStates, Executes, Ran
  <2> QED
    BY <1>1, <1>2, <2>1, <2>2
<1>6. CASE WaitForShutdown
  <2>1. ProcTyped
    BY <1>0, <1>6 DEF WaitForShutdown, Report, Ended, ProcTyped, ProcStates, Executes, Ran
  <2>2. /\ HostFollows'
        /\ proc'.st \in {"none", "failed"} \/ proc'.st = proc.st \/ proc.st = "starting"
    <3>1. proc'.st \in {"none", "failed"} /\ host'.exec = "off"
      BY <1>0, <1>6 DEF WaitForShutdown, Report
    <3>2. ~host'.late => host'.run \in {"none", "ended", "failed"}
      <4>1. CASE Ended /\ host' = [host EXCEPT !.exec = "off"]
        BY <1>0, <4>1 DEF Ended
      <4>2. CASE host' = [host EXCEPT !.exec = "off", !.late = TRUE]
        BY <1>0, <4>2
      <4> QED
        BY <1>6, <4>1, <4>2 DEF WaitForShutdown
    <3> QED
      BY <3>1, <3>2 DEF HostFollows
  <2> QED
    BY <1>1, <1>2, <2>1, <2>2
<1>7. CASE HostRuns
  <2>1. ProcTyped
    BY <1>0, <1>7 DEF HostRuns, Report, Ended, ProcTyped, ProcStates, Executes, Ran
  <2>2. /\ HostFollows'
        /\ proc'.st \in {"none", "failed"} \/ proc'.st = proc.st \/ proc.st = "starting"
    BY <1>0, <1>7 DEF HostRuns, Report, Ended, HostFollows, ProcStates, Executes, Ran
  <2> QED
    BY <1>1, <1>2, <2>1, <2>2
<1> QED
  BY <1>3, <1>4, <1>5, <1>6, <1>7 DEF ScmHost

\* The process of the service, other programs and reboots keep ScmInv.
LEMMA ScmLife ==
    ASSUME IInv, os = "windows", ForeignFile \/ InstanceEnds \/ ScmHost \/ Reboot
    PROVE  ScmInv' /\ ServiceType' /\ (Dies \/ (Lives /\ FilesLive))
<1>0. ServiceType /\ ScmInv /\ HostFollows
  BY DEF IInv, ScmInv, HostFollows
<1>1. CASE ForeignFile
  <2>1. Lives /\ proc' = proc /\ host' = host /\ FilesLive /\ ServiceType'
    BY <1>0, <1>1, ForeignFileIs DEF FilesLive
  <2> QED
    BY <1>0, <2>1 DEF Lives, ScmInv, ScmCommandInv, Passes, Stops, Errs, Breaks, Adds, Moved, Rests, Installing, At, Done,
      Failed, AsSaved, Alive, Begun
<1>2. CASE InstanceEnds
  BY <1>2 DEF InstanceEnds
<1>3. CASE ScmHost
  <2>1. /\ HostFollows' /\ ProcTyped /\ FilesTyped /\ FilesGrow
        /\ left' \in Counts /\ left'.interrupts = left.interrupts
        /\ proc'.st \in {"none", "failed"} \/ proc'.st = proc.st \/ proc.st = "starting"
    BY <1>0, <1>3, HostStep
  <2>2. UNCHANGED <<os, scope, root, reg, known, enabled, cmd>>
    BY <1>3 DEF ScmHost, setting, machine
  <2>3. Lives /\ FilesLive
    BY <2>1, <2>2, GrowLives DEF Lives
  <2>4. ServiceType'
    <3>1. Advances
      BY <1>0, <2>1, <2>2, CommandIs DEF Advances, Counts
    <3>2. MachineTyped /\ UNCHANGED setting
      BY <1>0, <2>2, CommandIs DEF MachineTyped, setting
    <3> QED
      BY <1>0, <2>1, <3>1, <3>2, AdvanceType
  <2>5. Alive' => Alive
    BY <2>1 DEF Alive
  <2>6. ScmInv'
    BY <1>0, <2>1, <2>2, <2>5
    DEF ScmInv, HostFollows, ScmCommandInv, Installing, At, Done, Failed, AsSaved, Begun
  <2> QED
    BY <2>3, <2>4, <2>6
<1>4. CASE Reboot
  <2>1. /\ UNCHANGED <<reg, known, enabled, dirs, used>>
        /\ \/ /\ reg # None /\ proc' = [st |-> "starting", ver |-> reg, pid |-> 0]
              /\ host' = [exec |-> "resolve", run |-> "none", late |-> FALSE]
           \/ reg = None /\ proc' = NoProc /\ host' = Off
    BY <1>4 DEF Reboot, ScmBoot, machine, files
  <2>2. Typed
    <3>1. CASE reg # None
      BY <1>0, <2>1, <3>1, StartingTyped
    <3>2. CASE reg = None
      <4>1. ProcTyped
        <5>1. NoProc \in [st : ProcStates, ver : Version, pid : Nat]
          BY Constants DEF NoProc, ProcStates
        <5>2. Off \in [exec : Executes, run : Ran, late : BOOLEAN]
          BY DEF Off, Executes, Ran
        <5> QED
          BY <2>1, <3>2, <5>1, <5>2 DEF ProcTyped
      <4> QED
        BY <1>0, <2>1, <4>1, CommandIs
        DEF Typed, MachineTyped, FilesTyped, FilesGrow, ServiceType, TypeOK
    <3> QED
      BY <3>1, <3>2
  <2>3. Dies /\ os' = os /\ ServiceType'
    BY <1>0, <1>4, <2>2, RebootIs
  <2> QED
    BY <1>0, <2>1, <2>3
    DEF Dies, NoProc, Off, ScmInv, ScmCommandInv, Installing, At, Done, Failed, Alive, Begun
<1> QED
  BY <1>1, <1>2, <1>3, <1>4

\* Every step of a command on Windows.
LEMMA ScmCommandStep ==
    ASSUME IInv, os = "windows", ScmCommand
    PROVE  ScmInv' /\ ServiceType' /\ ((Checks /\ cmd.pc = "check") \/ Moves)
<1>0. ServiceType /\ UNCHANGED setting
  BY DEF IInv, ScmCommand, ScmCheck, RestrictInstanceState, ScmPreflight, ScmRegister,
         OpenRegistration, ScmStart, QueryService, DeliverStop, ScmDelete
<1>1. CASE ScmCheck
  <2>1. Checks /\ os' = os /\ cmd.op = "install" /\ cmd.pc = "check"
    BY <1>0, <1>1, ChecksIs DEF ScmCheck, At, setting
  <2>2. ServiceType'
    BY <1>0, <2>1, AdvanceType DEF Checks, Typed
  <2> QED
    BY <2>1, <2>2, ScmFrame
<1>2. CASE ~ScmCheck
  <2>1. Moves /\ ScmInv'
    BY <1>2, RestrictInstanceStateInv, ScmPreflightInv, ScmRegisterInv, OpenRegistrationInv,
       ScmStartInv, QueryServiceInv, DeliverStopInv, ScmDeleteInv
    DEF ScmCommand
  <2>2. ServiceType'
    BY <1>0, <2>1, AdvanceType DEF Moves, Typed
  <2> QED
    BY <2>1, <2>2
<1> QED
  BY <1>1, <1>2
---------------------------------------------------------------------------
(* Theorems *)

\* The machine starts within the invariant.
LEMMA InitIInv == ASSUME Init PROVE IInv
<1>1. ServiceType
  BY InitType
<1>2. cmd = Idle /\ proc.st = "none" /\ host = Off /\ known = reg
  BY DEF Init, NoProc
<1>3. cmd.op = "none" /\ cmd.pc = "done"
  BY <1>2 DEF Idle
<1>4. DirsInv
  BY <1>3 DEF DirsInv, Installing, FailedInstall
<1>5. LinuxInv /\ LaunchdInv
  BY <1>2, <1>3 DEF LinuxInv, LaunchdInv, Installing, At, Done, Alive
<1>6. ScmInv
  BY <1>2, <1>3 DEF ScmInv, ScmCommandInv, Off, Installing, At, Done, Failed, Alive, Begun
<1> QED
  BY <1>1, <1>4, <1>5, <1>6 DEF IInv

\* The invariants of the other platforms say nothing.
LEMMA OnePlatform ==
    ASSUME ServiceType
    PROVE  /\ os = "linux" /\ LinuxInv' /\ os' = os => LinuxInv' /\ LaunchdInv' /\ ScmInv'
           /\ os = "darwin" /\ LaunchdInv' /\ os' = os => LinuxInv' /\ LaunchdInv' /\ ScmInv'
           /\ os = "windows" /\ ScmInv' /\ os' = os => LinuxInv' /\ LaunchdInv' /\ ScmInv'
           /\ os \in {"linux", "darwin", "windows"}
  BY MachineAssumption DEF ServiceType, TypeOK, LinuxInv, LaunchdInv, ScmInv

\* The steps that the platforms share.
LEMMA FrameStep ==
    ASSUME IInv, EnsureDir \/ RollBackDirs \/ BeginCommand \/ Interrupt \/ Kill
    PROVE  IInv'
<1>0. ServiceType /\ DirsInv
  BY DEF IInv
<1>1. /\ ServiceType' /\ os' = os
      /\ Prepares \/ Begins \/ (Dies /\ Rests) \/ Interrupts
  <2>1. CASE EnsureDir \/ RollBackDirs
    BY <1>0, <2>1, PreparesIs DEF Prepares
  <2>2. CASE BeginCommand
    BY <1>0, <2>2, BeginsIs DEF Begins
  <2>3. CASE Interrupt
    BY <1>0, <2>3, InterruptIs DEF Interrupts
  <2>4. CASE Kill
    BY <1>0, <2>4, KillIs
  <2> QED
    BY <2>1, <2>2, <2>3, <2>4
<1>2. DirsInv'
  BY <1>0, <1>1, DirsStep
<1>3. LinuxInv' /\ LaunchdInv' /\ ScmInv'
  BY <1>0, <1>1, LinuxFrame, LaunchdFrame, ScmFrame, OnePlatform
<1> QED
  BY <1>1, <1>2, <1>3 DEF IInv

\* The steps of one platform.
LEMMA PlatformStep ==
    ASSUME IInv,
           \/ os = "linux" /\ SystemdCommand
           \/ os = "darwin" /\ LaunchdCommand
           \/ os = "windows" /\ ScmCommand
           \/ ForeignFile \/ InstanceStep \/ SupervisorStep \/ Reboot
    PROVE  IInv'
<1>0. ServiceType /\ DirsInv /\ os \in {"linux", "darwin", "windows"}
  BY OnePlatform DEF IInv
<1>1. /\ os' = os
  BY DEF SystemdCommand, SystemdCheck, SystemdGrant, SystemdPreflight, WriteUnitFile,
         ReloadAndEnable, RollbackUnit, SystemdUninstall, RequireLifecycle, SystemdStart,
         SystemdStop, SystemdRestart,
         LaunchdCommand, LaunchdCheck, LaunchdGrant, LaunchdPreflight, WritePlist,
         SupervisorState, Load, LaunchdRollback, LaunchdUninstall, LaunchdStopCheck, AskToEnd,
         WaitForExit, Unload, LaunchdStartCheck, EnsureLoaded, KickstartJob,
         ScmCommand, ScmCheck, RestrictInstanceState, ScmPreflight, ScmRegister,
         OpenRegistration, ScmStart, QueryService, DeliverStop, ScmDelete,
         ForeignFile, InstanceStep, InstanceEnds, ScmHost, SupervisorStep,
         SystemdRestartsInstance, LaunchdRelaunches, Reboot, setting
<1>2. /\ ServiceType'
      /\ (Checks /\ cmd.pc = "check") \/ Moves \/ Dies \/ (Lives /\ FilesLive)
      /\ LinuxInv' /\ LaunchdInv' /\ ScmInv'
  <2>1. CASE os = "linux"
    <3>1. SystemdCommand \/ ForeignFile \/ InstanceEnds \/ SystemdRestartsInstance \/ Reboot
      BY <2>1 DEF InstanceStep, SupervisorStep
    <3>2. /\ ServiceType' /\ LinuxInv'
          /\ (Checks /\ cmd.pc = "check") \/ Moves \/ Dies \/ (Lives /\ FilesLive)
      BY <2>1, <3>1, LinuxCommand, LinuxLife
    <3> QED
      BY <1>0, <1>1, <2>1, <3>2, OnePlatform
  <2>2. CASE os = "darwin"
    <3>1. LaunchdCommand \/ ForeignFile \/ InstanceEnds \/ LaunchdRelaunches \/ Reboot
      BY <2>2 DEF InstanceStep, SupervisorStep
    <3>2. /\ ServiceType' /\ LaunchdInv'
          /\ (Checks /\ cmd.pc = "check") \/ Moves \/ Dies \/ (Lives /\ FilesLive)
      BY <2>2, <3>1, LaunchdCommandInv, LaunchdLife
    <3> QED
      BY <1>0, <1>1, <2>2, <3>2, OnePlatform
  <2>3. CASE os = "windows"
    <3>1. ScmCommand \/ ForeignFile \/ InstanceEnds \/ ScmHost \/ Reboot
      BY <2>3 DEF InstanceStep, SupervisorStep
    <3>2. /\ ServiceType' /\ ScmInv'
          /\ (Checks /\ cmd.pc = "check") \/ Moves \/ Dies \/ (Lives /\ FilesLive)
      BY <2>3, <3>1, ScmCommandStep, ScmLife
    <3> QED
      BY <1>0, <1>1, <2>3, <3>2, OnePlatform
  <2> QED
    BY <1>0, <2>1, <2>2, <2>3
<1>3. DirsInv'
  BY <1>0, <1>2, DirsStep
<1> QED
  BY <1>2, <1>3 DEF IInv

\* Nothing happens.
LEMMA StutterStep == ASSUME IInv, UNCHANGED vars PROVE IInv'
<1>1. UNCHANGED <<os, scope, root, reg, known, enabled, proc, host, dirs, used, cmd, left>>
  BY DEF vars
<1>2. ServiceType' /\ DirsInv'
  BY <1>1 DEF IInv, ServiceType, TypeOK, DirsInv, Installing, FailedInstall, Kept
<1>3. LinuxInv'
  BY <1>1 DEF IInv, LinuxInv, LinuxInstall, Installing, At, Done, Failed, AsSaved, Alive
<1>4. LaunchdInv'
  <2>1. LaunchdForward' <=> LaunchdForward
    <3>1. /\ Overrides' <=> Overrides
          /\ Noted' <=> Noted
          /\ Fresh' <=> Fresh
          /\ Replacing' <=> Replacing
      BY <1>1 DEF Overrides, Noted, Fresh, Replacing
    <3>2. AsSaved' <=> AsSaved
      BY <1>1 DEF AsSaved
    <3>3. Done("install")' <=> Done("install")
      BY <1>1 DEF Done
    <3>4. QED
      BY <1>1, <3>1, <3>2, <3>3 DEF LaunchdForward
  <2>2. LaunchdBack' <=> LaunchdBack
    <3>1. /\ Overrides' <=> Overrides
          /\ Making' <=> Making
          /\ Failed' <=> Failed
      BY <1>1 DEF Overrides, Making, Failed, Installing
    <3>2. QED
      BY <1>1, <3>1 DEF LaunchdBack
  <2>3. /\ HalfInstalled' <=> HalfInstalled
        /\ Installing' <=> Installing
        /\ Alive' <=> Alive
    BY <1>1 DEF HalfInstalled, Installing, Alive
  <2>4. /\ Done("uninstall")' <=> Done("uninstall")
        /\ Done("stop")' <=> Done("stop")
        /\ At("uninstall", "remove")' <=> At("uninstall", "remove")
    BY <1>1 DEF Done, At
  <2>5. LaunchdInv
    BY DEF IInv
  <2>6. QED
    BY <1>1, <2>1, <2>2, <2>3, <2>4, <2>5 DEF LaunchdInv
<1>5. ScmInv'
  BY <1>1 DEF IInv, ScmInv, ScmCommandInv, Installing, At, Done, Failed, AsSaved, Alive
<1> QED
  BY <1>2, <1>3, <1>4, <1>5 DEF IInv

\* On every platform, for any versions, any tree of directories and any
\* number of commands and mishaps, the invariant holds.
THEOREM ServiceInvariant == Spec => []IInv
<1>1. IInv /\ [Next]_vars => IInv'
  <2> SUFFICES ASSUME IInv, [Next]_vars PROVE IInv'
    OBVIOUS
  <2>1. CASE EnsureDir \/ RollBackDirs \/ BeginCommand \/ Interrupt \/ Kill
    BY <2>1, FrameStep
  <2>2. CASE \/ os = "linux" /\ SystemdCommand
             \/ os = "darwin" /\ LaunchdCommand
             \/ os = "windows" /\ ScmCommand
             \/ ForeignFile \/ InstanceStep \/ SupervisorStep \/ Reboot
    BY <2>2, PlatformStep
  <2>3. CASE UNCHANGED vars
    BY <2>3, StutterStep
  <2> QED
    BY <2>1, <2>2, <2>3 DEF Next, CommandStep
<1> QED
  BY InitIInv, <1>1, PTL DEF Spec

\* What the supervisor, the registration, the status and the processes say of
\* each other agrees (Status of the three managers, Execute on Windows).
THEOREM ConsistentAlways == Spec => []Consistent
<1>1. ASSUME IInv PROVE Consistent
  <2>0. ServiceType /\ LinuxInv /\ LaunchdInv /\ ScmInv /\ os \in {"linux", "darwin", "windows"}
    BY <1>1, OnePlatform DEF IInv
  <2>1. RunningIsRegistered
    BY <2>0, Constants DEF RunningIsRegistered, LinuxInv, LaunchdInv, ScmInv
  <2>2. StatusTellsTruth
    <3>1. CASE os = "linux"
      BY <2>0, <3>1 DEF StatusTellsTruth, Status, SystemdStatus, UnitAbsent, ActiveState, LinuxInv, Alive
    <3>2. CASE os = "darwin"
      BY <2>0, <3>2 DEF StatusTellsTruth, Status, LaunchdStatus, JobState, LaunchdInv, Alive
    <3>3. CASE os = "windows"
      BY <2>0, <3>3
      DEF StatusTellsTruth, Status, ScmStatus, ScmStatusFrom, ScmFailedExit, ScmState, ScmInv, Alive
    <3> QED
      BY <2>0, <3>1, <3>2, <3>3
  <2>3. StoppedMeansEnded
    BY <2>0 DEF StoppedMeansEnded, ScmInv, ServiceType, Executes
  <2> QED
    BY <2>0, <2>1, <2>2, <2>3 DEF Consistent, ServiceType
<1> QED
  BY ServiceInvariant, <1>1, PTL

\* An installation that fails, and whose roll-back is neither broken nor
\* interrupted, leaves registration, boot setting and directories as they
\* were; on Linux also when it is interrupted (registerUnit and its roll-
\* backs).
THEOREM FailedInstallRestoresAlways == Spec => []FailedInstallRestores
<1>1. ASSUME IInv PROVE FailedInstallRestores
  <2>0. /\ ServiceType /\ DirsInv /\ LinuxInv /\ LaunchdInv /\ ScmInv
        /\ os \in {"linux", "darwin", "windows"}
    BY <1>1, OnePlatform DEF IInv
  <2>1. ASSUME FailedInstall, ~cmd.broken, ~cmd.cut PROVE Restored
    <3>1. /\ reg = cmd.saved.reg /\ known \in {cmd.saved.known, cmd.saved.reg}
          /\ enabled = cmd.saved.enabled
      BY <2>0, <2>1
      DEF FailedInstall, Failed, Installing, AsSaved, LinuxInv, LinuxInstall,
          LaunchdInv, LaunchdBack, ScmInv, ScmCommandInv
    <3>2. cmd.saved.dirs \subseteq dirs /\ \A d \in dirs \ cmd.saved.dirs : Kept(d)
      BY <2>0, <2>1 DEF DirsInv, FailedInstall, Installing
    <3> QED
      BY <3>1, <3>2 DEF Restored
  <2>2. InterruptedInstallRestores
    BY <2>0
    DEF InterruptedInstallRestores, FailedInstall, Failed, Installing, LinuxInv, LinuxInstall
  <2> QED
    BY <2>1, <2>2 DEF FailedInstallRestores
<1> QED
  BY ServiceInvariant, <1>1, PTL

\* An installation that succeeds is what the supervisor has and starts at
\* boot; what a stop or an uninstallation has stopped stays stopped, and
\* nothing is left of what was uninstalled.
THEOREM CommandsTakeEffectAlways == Spec => []CommandsTakeEffect
<1>1. ASSUME IInv PROVE CommandsTakeEffect
  <2>0. /\ ServiceType /\ LinuxInv /\ LaunchdInv /\ ScmInv
        /\ os \in {"linux", "darwin", "windows"}
    BY <1>1, OnePlatform DEF IInv
  <2>1. InstallTakesEffect
    BY <2>0
    DEF InstallTakesEffect, Done, Installing, LinuxInv, LinuxInstall,
        LaunchdInv, LaunchdForward, ScmInv, ScmCommandInv
  <2>2. StopIsStable
    BY <2>0 DEF StopIsStable, LinuxInv, LaunchdInv, ScmInv, ScmCommandInv
  <2> QED
    BY <2>1, <2>2 DEF CommandsTakeEffect
<1> QED
  BY ServiceInvariant, <1>1, PTL

---------------------------------------------------------------------------
(***************************************************************************)
(* Decisions.  The run asks each question of module Decisions for every    *)
(* input of a small set; here three of the answers are compared with their *)
(* independent definitions for every input: any lists, paths, links and    *)
(* directories.                                                            *)
(***************************************************************************)

\* One path begins with another.
StartsWith(s, t) == Len(s) <= Len(t) /\ \A i \in 1 .. Len(s) : s[i] = t[i]

LEMMA StartsWithIsPrefix ==
    ASSUME NEW Name, NEW s \in Seq(Name), NEW t \in Seq(Name)
    PROVE  Len(s) <= Len(t) /\ SubSeq(s, 1, Len(s)) = SubSeq(t, 1, Len(s)) <=> StartsWith(s, t)
  <1>1. Len(s) \in Nat /\ Len(t) \in Nat
    BY LenProperties
  <1>2. CASE Len(s) <= Len(t)
    <2>1. \A i \in 1 .. Len(s) : s[i] \in Name /\ t[i] \in Name
      BY <1>1, <1>2, ElementOfSeq
    <2>2. /\ SubSeq(s, 1, Len(s)) \in Seq(Name) /\ SubSeq(t, 1, Len(s)) \in Seq(Name)
          /\ Len(SubSeq(s, 1, Len(s))) = Len(s) /\ Len(SubSeq(t, 1, Len(s))) = Len(s)
          /\ \A i \in 1 .. Len(s) : SubSeq(s, 1, Len(s))[i] = s[i]
          /\ \A i \in 1 .. Len(s) : SubSeq(t, 1, Len(s))[i] = t[i]
      <3>1. 1 \in Int /\ Len(s) \in Int /\ Len(s) - 1 + 1 = Len(s)
        BY <1>1
      <3>2. \A i \in 1 .. Len(s) : 1 + i - 1 = i
        BY <1>1
      <3>3. (IF 1 <= Len(s) THEN Len(s) - 1 + 1 ELSE 0) = Len(s)
        BY <1>1
      <3>4. /\ SubSeq(s, 1, Len(s)) \in Seq(Name)
            /\ Len(SubSeq(s, 1, Len(s))) = IF 1 <= Len(s) THEN Len(s) - 1 + 1 ELSE 0
            /\ \A i \in 1 .. Len(s) - 1 + 1 : SubSeq(s, 1, Len(s))[i] = s[1 + i - 1]
        BY <2>1, <3>1, SubSeqProperties
      <3>5. /\ SubSeq(t, 1, Len(s)) \in Seq(Name)
            /\ Len(SubSeq(t, 1, Len(s))) = IF 1 <= Len(s) THEN Len(s) - 1 + 1 ELSE 0
            /\ \A i \in 1 .. Len(s) - 1 + 1 : SubSeq(t, 1, Len(s))[i] = t[1 + i - 1]
        BY <2>1, <3>1, SubSeqProperties
      <3>6. QED
        BY <3>1, <3>2, <3>3, <3>4, <3>5
    <2> DEFINE u == SubSeq(s, 1, Len(s))
               v == SubSeq(t, 1, Len(s))
    <2>3. /\ u \in Seq(Name) /\ v \in Seq(Name) /\ Len(u) = Len(s) /\ Len(v) = Len(s)
          /\ \A i \in 1 .. Len(s) : u[i] = s[i] /\ v[i] = t[i]
      BY <2>2
    <2> HIDE DEF u, v
    <2>4. u = v <=> \A i \in 1 .. Len(s) : s[i] = t[i]
      <3>1. ASSUME u = v PROVE \A i \in 1 .. Len(s) : s[i] = t[i]
        BY <2>3, <3>1
      <3>2. ASSUME \A i \in 1 .. Len(s) : s[i] = t[i] PROVE u = v
        <4>1. \A i \in 1 .. Len(u) : u[i] = v[i]
          BY <2>3, <3>2
        <4>2. QED
          BY <2>3, <4>1, SeqEqual
      <3>3. QED
        BY <3>1, <3>2
    <2>5. QED
      BY <1>2, <2>4 DEF StartsWith, u, v
  <1>3. QED
    BY <1>2 DEF StartsWith

\* A list that sddlGrantsIdentity accepts is usable by the ordered check of
\* Windows: no entry that denies applies, and one that allows each kind does.
LEMMA GrantIsUsable ==
    ASSUME NEW Ace, NEW aces \in Seq(Ace), Acl!SddlGrantsIdentity(aces)
    PROVE  Acl!Usable(aces)
  <1> DEFINE of(kind) == UNION {Acl!MaskRights(a.rights) :
                 a \in {b \in Acl!ToSet(aces) : Acl!Applies(b) /\ b.kind = kind}}
  <1>1. of("D") = {} /\ of("A") = {"read", "write"}
    BY DEF Acl!SddlGrantsIdentity
  <1>2. ASSUME NEW i \in DOMAIN aces, Acl!Applies(aces[i]), aces[i].kind = "D"
        PROVE  aces[i].rights \cap Acl!ReadRights = {} /\ aces[i].rights \cap Acl!WriteRights = {}
    <2>1. aces[i] \in {b \in Acl!ToSet(aces) : Acl!Applies(b) /\ b.kind = "D"}
      BY <1>2 DEF Acl!ToSet
    <2>2. Acl!MaskRights(aces[i].rights) \subseteq of("D")
      BY <2>1
    <2>3. QED
      BY <1>1, <2>2 DEF Acl!MaskRights
  <1>3. ASSUME NEW kind \in {"read", "write"}
        PROVE  \E i \in DOMAIN aces : /\ Acl!Applies(aces[i]) /\ aces[i].kind = "A"
                                      /\ kind \in Acl!MaskRights(aces[i].rights)
    <2>1. kind \in of("A")
      BY <1>1
    <2>2. PICK a \in {b \in Acl!ToSet(aces) : Acl!Applies(b) /\ b.kind = "A"} :
                 kind \in Acl!MaskRights(a.rights)
      BY <2>1
    <2>3. PICK i \in DOMAIN aces : a = aces[i]
      BY DEF Acl!ToSet
    <2>4. QED
      BY <2>2, <2>3
  <1>4. ASSUME NEW S \in {Acl!ReadRights, Acl!WriteRights}, NEW i \in DOMAIN aces,
               Acl!Applies(aces[i]), aces[i].kind = "A", aces[i].rights \cap S # {}
        PROVE  \E r \in S : Acl!WindowsGrants(aces, r)
    <2>1. PICK r \in S : r \in aces[i].rights
      BY <1>4
    <2>2. ASSUME NEW j \in 1 .. (i - 1), Acl!Speaks(aces[j], r), aces[j].kind = "D"
          PROVE  FALSE
      <3>1. j \in DOMAIN aces
        OBVIOUS
      <3>2. Acl!Applies(aces[j]) /\ r \in aces[j].rights
        BY <2>2 DEF Acl!Speaks, Acl!Applies, Acl!CoversIdentity
      <3>3. QED
        BY <1>2, <2>2, <3>1, <3>2
    <2>3. QED
      BY <1>4, <2>1, <2>2 DEF Acl!WindowsGrants, Acl!Speaks, Acl!Applies, Acl!CoversIdentity
  <1>5. QED
    <2>1. \E r \in Acl!ReadRights : Acl!WindowsGrants(aces, r)
      BY <1>3, <1>4 DEF Acl!MaskRights
    <2>2. \E r \in Acl!WriteRights : Acl!WindowsGrants(aces, r)
      BY <1>3, <1>4 DEF Acl!MaskRights
    <2>3. QED
      BY <2>1, <2>2 DEF Acl!Usable

\* So is the list that the installation gives to a directory of its own.
LEMMA OwnDirIsUsable == Acl!Usable(Acl!StateAcl)
  <1>1. DOMAIN Acl!StateAcl = 1 .. 3
    BY DEF Acl!StateAcl
  <1>2. \A i \in 1 .. 3 : Acl!StateAcl[i].kind = "A"
    BY DEF Acl!StateAcl
  <1>3. /\ Acl!StateAcl[3].rights = Acl!Rights /\ Acl!StateAcl[3].trustee = "LS"
        /\ Acl!StateAcl[3].inheritOnly = FALSE
    BY DEF Acl!StateAcl
  <1>4. ASSUME NEW r \in Acl!Rights PROVE Acl!WindowsGrants(Acl!StateAcl, r)
    <2>1. Acl!Speaks(Acl!StateAcl[3], r)
      BY <1>3 DEF Acl!Speaks, Acl!IdentitySIDs
    <2>2. \A j \in 1 .. (3 - 1) : Acl!StateAcl[j].kind # "D"
      BY <1>2
    <2>3. 3 \in DOMAIN Acl!StateAcl /\ Acl!StateAcl[3].kind = "A"
      BY <1>1, <1>2
    <2>4. QED
      BY <2>1, <2>2, <2>3 DEF Acl!WindowsGrants
  <1>5. "readData" \in Acl!ReadRights \cap Acl!Rights
        /\ "append" \in Acl!WriteRights \cap Acl!Rights
    BY DEF Acl!ReadRights, Acl!WriteRights, Acl!Rights
  <1>6. QED
    BY <1>4, <1>5 DEF Acl!Usable

\* The nearest directory exists where any directory above the path does.
LEMMA NearestExists ==
    ASSUME NEW Name, NEW lists, DOMAIN lists \subseteq Seq(Name), NEW path \in Seq(Name),
           NEW top \in DOMAIN lists, Acl!IsPrefix(top, path)
    PROVE  LET near == Acl!NearestExistingDir(lists, path)
           IN  /\ near \in DOMAIN lists /\ Acl!IsPrefix(near, path)
               /\ \A e \in DOMAIN lists : Acl!IsPrefix(e, path) => Len(e) <= Len(near)
  <1> DEFINE P == {e \in DOMAIN lists : Acl!IsPrefix(e, path)}
             T == {Len(path) - Len(e) : e \in P}
  <1>1. \A e \in P : Len(e) \in Nat /\ Len(e) <= Len(path) /\ Len(path) \in Nat
    BY LenProperties DEF Acl!IsPrefix
  <1>2. T \subseteq Nat /\ T # {}
    BY <1>1
  <1>3. PICK x \in T : \A y \in T : ~(<<y, x>> \in OpToRel(<, Nat))
    <2> HIDE DEF T
    <2>1. QED
      BY <1>2, NatLessThanWellFounded, WFMin
  <1>4. \A y \in T : x <= y
    <2> HIDE DEF T
    <2>1. ASSUME NEW y \in T PROVE x <= y
      <3>1. x \in Nat /\ y \in Nat
        BY <1>2
      <3>2. y < x => <<y, x>> \in OpToRel(<, Nat)
        BY <3>1 DEF OpToRel
      <3>3. ~(y < x)
        BY <1>3, <3>2
      <3>4. QED
        BY <3>1, <3>3
    <2>2. QED
      BY <2>1
  <1>5. PICK d \in P : x = Len(path) - Len(d)
    OBVIOUS
  <1>6. \A e \in P : Len(e) <= Len(d)
    <2> SUFFICES ASSUME NEW e \in P PROVE Len(e) <= Len(d)
      OBVIOUS
    <2>1. x <= Len(path) - Len(e)
      BY <1>4
    <2>2. QED
      BY <1>1, <1>5, <2>1
  <1>7. QED
    BY <1>6 DEF Acl!NearestExistingDir

\* An access control list that the installation accepts lets the service read
\* and write, for any directories, any lists and any order of their entries: a
\* deny entry is never outvoted, wherever it is (AclIsSound of Decisions).
THEOREM AclIsSoundAlways ==
    ASSUME NEW Name, NEW Ace, NEW in,
           in.path \in Seq(Name), in.state \in Seq(Name), DOMAIN in.dirs \subseteq Seq(Name),
           <<>> \in DOMAIN in.dirs,
           \A d \in DOMAIN in.dirs : in.dirs[d] \in Seq(Ace),
           Acl!InstallAccepts(in)
    PROVE  Acl!ServiceCanUse(in)
  <1> DEFINE lists == Acl!Restricted(in.dirs, in.state)
             near == Acl!NearestExistingDir(lists, in.path)
  <1>1. DOMAIN lists = DOMAIN in.dirs \cup {in.state}
    BY DEF Acl!Restricted
  <1>2. ASSUME NEW d \in DOMAIN lists, d \in DOMAIN in.dirs => Acl!SddlGrantsIdentity(in.dirs[d])
        PROVE  Acl!Usable(lists[d])
    <2>1. CASE d \in DOMAIN in.dirs
      <3>1. lists[d] = in.dirs[d]
        BY <2>1 DEF Acl!Restricted
      <3>2. QED
        BY <1>2, <2>1, <3>1, GrantIsUsable
    <2>2. CASE d \notin DOMAIN in.dirs
      <3>1. lists[d] = Acl!StateAcl
        BY <1>1, <2>2 DEF Acl!Restricted
      <3>2. QED
        BY <3>1, OwnDirIsUsable
    <2>3. QED
      BY <2>1, <2>2
  <1>3. in.state \in DOMAIN in.dirs => Acl!SddlGrantsIdentity(in.dirs[in.state])
    BY DEF Acl!InstallAccepts, Acl!StateAccepted
  <1>4. \/ in.path \notin DOMAIN lists /\ Acl!IsPrefix(in.state, in.path)
        \/ Acl!SddlGrantsIdentity(lists[near])
    BY DEF Acl!InstallAccepts, Acl!PreflightDataPath, Acl!PathInsideStateRoot
  <1> HIDE DEF lists, near
  <1>5. ASSUME in.path \notin DOMAIN lists, Acl!IsPrefix(in.state, in.path)
        PROVE  Acl!Usable(lists[near]) \/ (near # in.path /\ Acl!IsPrefix(in.state, near) /\ near # in.state)
    <2>1. DOMAIN lists \subseteq Seq(Name) /\ in.state \in DOMAIN lists
      BY <1>1
    <2>2. /\ near \in DOMAIN lists /\ Acl!IsPrefix(near, in.path)
          /\ Len(in.state) <= Len(near)
      BY <1>5, <2>1, NearestExists DEF near
    <2>3. near # in.path
      BY <1>5, <2>2
    <2>4. Acl!IsPrefix(in.state, near)
      <3>1. near \in Seq(Name) /\ StartsWith(in.state, in.path) /\ StartsWith(near, in.path)
        BY <1>5, <2>1, <2>2, StartsWithIsPrefix DEF Acl!IsPrefix
      <3>2. StartsWith(in.state, near)
        BY <2>1, <2>2, <3>1, LenProperties DEF StartsWith
      <3>3. QED
        BY <3>1, <3>2, StartsWithIsPrefix DEF Acl!IsPrefix
    <2>5. CASE near = in.state
      BY <1>2, <1>3, <2>2, <2>5
    <2>6. QED
      BY <2>3, <2>4, <2>5
  <1>6. ASSUME Acl!SddlGrantsIdentity(lists[near]) PROVE Acl!Usable(lists[near])
    <2>1. DOMAIN lists \subseteq Seq(Name) /\ <<>> \in DOMAIN lists
      BY <1>1
    <2>2. Acl!IsPrefix(<<>>, in.path)
      <3>1. <<>> \in Seq(Name) /\ Len(<<>>) = 0 /\ Len(in.path) \in Nat
        BY LenProperties, EmptySeq
      <3>2. StartsWith(<<>>, in.path)
        BY <3>1 DEF StartsWith
      <3>3. QED
        BY <3>1, <3>2, StartsWithIsPrefix DEF Acl!IsPrefix
    <2>3. near \in DOMAIN lists
      BY <2>1, <2>2, NearestExists DEF near
    <2>4. near \in DOMAIN in.dirs => lists[near] = in.dirs[near]
      BY DEF lists, Acl!Restricted
    <2>5. QED
      BY <1>2, <1>6, <2>3, <2>4
  <1>7. QED
    BY <1>4, <1>5, <1>6 DEF Acl!ServiceCanUse, lists, near

\* The summary of an installation names the directories that its process will
\* use, for any flags and environment, with a config file or one that cannot be
\* read: RunArgs carries over what the host needs to decide alike (SummaryIsTrue
\* of Decisions).
THEOREM SummaryIsTrueAlways ==
    ASSUME NEW Name, {"hub", "home", "state", "cache"} \subseteq Name,
           NEW in, in.flags.cache \in Seq(Name), in.env.home \in Seq(Name),
           in.file.cache \in Seq(Name), in.file.ok \/ in.file.cache = Destinations!Unset
    PROVE  Destinations!UsedByHost(in) = Destinations!NamedBySummary(in)
  <1> DEFINE opts == Destinations!BuildInstallOptions(in)
             file == in.file
  <1>1. \A p \in Seq(Name) : Destinations!Hub(p) # Destinations!Unset
    BY AppendProperties DEF Destinations!Hub, Destinations!Unset
  <1>2. Destinations!DefaultRoot(in) \in Seq(Name) /\ Destinations!DefaultRoot(in) # Destinations!Unset
    <2>1. <<"home">> \in Seq(Name) /\ <<"state", "cache">> \in Seq(Name)
      OBVIOUS
    <2>2. <<"home">> # <<>> /\ <<"state", "cache">> # <<>>
      OBVIOUS
    <2>3. QED
      BY <2>1, <2>2 DEF Destinations!DefaultRoot, Destinations!Or, Destinations!Unset
  <1>3. opts.cache # Destinations!Unset
    BY <1>2 DEF Destinations!BuildInstallOptions, Destinations!Or
  <1>4. opts.hub # Destinations!Unset
    <2>1. Destinations!DefaultHub(in) # Destinations!Unset
      BY <1>1, <1>2 DEF Destinations!DefaultHub, Destinations!Or
    <2>2. QED
      BY <1>1, <2>1 DEF Destinations!BuildInstallOptions
  <1>5. Destinations!RunOptions(Destinations!RunArgs(opts)) = [a \in {"cache", "hub"} |-> opts[a]]
    BY <1>3, <1>4 DEF Destinations!RunOptions, Destinations!RunArgs
  <1> DEFINE run == [a \in {"cache", "hub"} |-> opts[a]]
  <1>6. run.cache = opts.cache /\ run.hub = opts.hub
    OBVIOUS
  <1> HIDE DEF opts, run
  <1> DEFINE Or(a, b) == IF a # Destinations!Unset THEN a ELSE b
  <1>7. Destinations!EffectiveDestinations(run, file) =
          [cache |-> Or(file.cache, opts.cache),
           hub |-> IF file.cache # Destinations!Unset THEN Destinations!Hub(file.cache) ELSE opts.hub]
    BY <1>3, <1>4, <1>6 DEF Destinations!EffectiveDestinations, Destinations!Or
  <1> DEFINE dest == Destinations!EffectiveDestinations(run, file)
  <1>8. dest.cache # Destinations!Unset /\ dest.hub # Destinations!Unset
    BY <1>1, <1>3, <1>4, <1>7
  <1>9. Destinations!UsedByHost(in) = [home |-> dest.cache, hub |-> dest.hub]
    <2>1. Destinations!UsedByHost(in) = Destinations!PinCacheEnvironment(dest, in.bare)
      BY <1>5 DEF Destinations!UsedByHost, opts, run
    <2>2. QED
      BY <1>8, <2>1 DEF Destinations!PinCacheEnvironment, Destinations!Or
  <1>10. Destinations!NamedBySummary(in) = [home |-> dest.cache, hub |-> dest.hub]
    <2>1. Destinations!EffectiveCacheDir(file, Destinations!Unset) = file.cache
      BY DEF Destinations!EffectiveCacheDir, Destinations!Or
    <2>2. Destinations!EffectiveCacheDirs(opts, file) = [cache |-> dest.cache, hub |-> dest.hub]
      <3>1. CASE file.cache # Destinations!Unset
        BY <1>7, <2>1, <3>1 DEF Destinations!EffectiveCacheDirs
      <3>2. CASE file.cache = Destinations!Unset
        <4>1. Destinations!EffectiveCacheDir(file, opts.cache) = opts.cache
          BY <3>2 DEF Destinations!EffectiveCacheDir, Destinations!Or
        <4>2. QED
          BY <1>4, <1>7, <2>1, <3>2, <4>1 DEF Destinations!EffectiveCacheDirs
      <3>3. QED
        BY <3>1, <3>2
    <2>3. QED
      BY <2>2 DEF Destinations!NamedBySummary, opts
  <1>11. QED
    BY <1>9, <1>10

\* What is left of a path behind a directory.
LEMMA RestOfPath ==
    ASSUME NEW Name, NEW top \in Seq(Name), NEW p \in Seq(Name), Len(top) <= Len(p)
    PROVE  /\ Roots!Rest(top, p) \in Seq(Name)
           /\ Len(Roots!Rest(top, p)) = Len(p) - Len(top)
           /\ \A i \in 1 .. Len(p) - Len(top) : Roots!Rest(top, p)[i] = p[Len(top) + i]
  <1>1. Len(top) \in Nat /\ Len(p) \in Nat
    BY LenProperties
  <1> DEFINE m == Len(top) + 1
             n == Len(p)
  <1>2. m \in Int /\ n \in Int /\ m >= 1
    BY <1>1
  <1>3. \A i \in m .. n : p[i] \in Name
    <2>1. \A i \in m .. n : i \in 1 .. Len(p)
      BY <1>1
    <2>2. QED
      BY <2>1, ElementOfSeq
  <1>4. n - m + 1 = Len(p) - Len(top) /\ (IF m <= n THEN n - m + 1 ELSE 0) = Len(p) - Len(top)
    BY <1>1
  <1>5. \A i \in 1 .. n - m + 1 : m + i - 1 = Len(top) + i
    BY <1>1
  <1>6. Roots!Rest(top, p) = SubSeq(p, m, n)
    BY DEF Roots!Rest
  <1> HIDE DEF m, n
  <1>7. /\ SubSeq(p, m, n) \in Seq(Name)
        /\ Len(SubSeq(p, m, n)) = IF m <= n THEN n - m + 1 ELSE 0
        /\ \A i \in 1 .. n - m + 1 : SubSeq(p, m, n)[i] = p[m + i - 1]
    BY <1>2, <1>3, SubSeqProperties
  <1>8. QED
    BY <1>4, <1>5, <1>6, <1>7

\* A path below a directory is the directory and the rest.
LEMMA PathIsRest ==
    ASSUME NEW Name, NEW top \in Seq(Name), NEW p \in Seq(Name), StartsWith(top, p)
    PROVE  p = top \o Roots!Rest(top, p)
  <1> DEFINE r == Roots!Rest(top, p)
  <1>1. Len(top) \in Nat /\ Len(p) \in Nat /\ Len(top) <= Len(p)
    BY LenProperties DEF StartsWith
  <1>2. /\ r \in Seq(Name) /\ Len(r) = Len(p) - Len(top)
        /\ \A i \in 1 .. Len(p) - Len(top) : r[i] = p[Len(top) + i]
    BY <1>1, RestOfPath
  <1> HIDE DEF r
  <1>3. /\ top \o r \in Seq(Name) /\ Len(top \o r) = Len(top) + Len(r)
        /\ \A i \in 1 .. Len(top) + Len(r) :
              (top \o r)[i] = IF i <= Len(top) THEN top[i] ELSE r[i - Len(top)]
    BY <1>2, ConcatProperties
  <1>4. Len(top \o r) = Len(p)
    BY <1>1, <1>2, <1>3
  <1>5. ASSUME NEW i \in 1 .. Len(p) PROVE p[i] = (top \o r)[i]
    <2>1. CASE i <= Len(top)
      <3>1. (top \o r)[i] = top[i]
        BY <1>1, <1>2, <1>3, <2>1
      <3>2. QED
        BY <1>1, <2>1, <3>1 DEF StartsWith
    <2>2. CASE ~(i <= Len(top))
      <3>1. i - Len(top) \in 1 .. Len(p) - Len(top) /\ Len(top) + (i - Len(top)) = i
        BY <1>1, <2>2
      <3>2. (top \o r)[i] = r[i - Len(top)]
        BY <1>1, <1>2, <1>3, <2>2
      <3>3. QED
        BY <1>2, <3>1, <3>2
    <2>3. QED
      BY <2>1, <2>2
  <1>6. p = top \o r
    BY <1>3, <1>4, <1>5, SeqEqual
  <1>7. QED
    BY <1>6 DEF r

\* What is left behind a directory, by way of one between them.
LEMMA RestByWay ==
    ASSUME NEW Name, NEW a \in Seq(Name), NEW b \in Seq(Name), NEW c \in Seq(Name),
           StartsWith(a, b), StartsWith(b, c)
    PROVE  Roots!Rest(a, c) = Roots!Rest(a, b) \o Roots!Rest(b, c)
  <1> DEFINE x == Roots!Rest(a, b)
             y == Roots!Rest(b, c)
             z == Roots!Rest(a, c)
  <1>1. /\ Len(a) \in Nat /\ Len(b) \in Nat /\ Len(c) \in Nat
        /\ Len(a) <= Len(b) /\ Len(b) <= Len(c) /\ Len(a) <= Len(c)
    BY LenProperties DEF StartsWith
  <1>2. /\ x \in Seq(Name) /\ Len(x) = Len(b) - Len(a)
        /\ \A i \in 1 .. Len(b) - Len(a) : x[i] = b[Len(a) + i]
    BY <1>1, RestOfPath
  <1>3. /\ y \in Seq(Name) /\ Len(y) = Len(c) - Len(b)
        /\ \A i \in 1 .. Len(c) - Len(b) : y[i] = c[Len(b) + i]
    BY <1>1, RestOfPath
  <1>4. /\ z \in Seq(Name) /\ Len(z) = Len(c) - Len(a)
        /\ \A i \in 1 .. Len(c) - Len(a) : z[i] = c[Len(a) + i]
    BY <1>1, RestOfPath
  <1> HIDE DEF x, y, z
  <1>5. /\ x \o y \in Seq(Name) /\ Len(x \o y) = Len(x) + Len(y)
        /\ \A i \in 1 .. Len(x) + Len(y) :
              (x \o y)[i] = IF i <= Len(x) THEN x[i] ELSE y[i - Len(x)]
    BY <1>2, <1>3, ConcatProperties
  <1>6. Len(z) = Len(x \o y)
    BY <1>1, <1>2, <1>3, <1>4, <1>5
  <1>7. ASSUME NEW i \in 1 .. Len(z) PROVE z[i] = (x \o y)[i]
    <2>1. i \in 1 .. Len(x) + Len(y) /\ z[i] = c[Len(a) + i]
      BY <1>4, <1>5, <1>6
    <2>2. CASE i <= Len(x)
      <3>1. i \in 1 .. Len(b) - Len(a) /\ Len(a) + i \in 1 .. Len(b)
        BY <1>1, <1>2, <2>2
      <3>2. (x \o y)[i] = b[Len(a) + i]
        BY <1>2, <1>5, <2>1, <2>2, <3>1
      <3>3. QED
        BY <2>1, <3>1, <3>2 DEF StartsWith
    <2>3. CASE ~(i <= Len(x))
      <3>1. i - Len(x) \in 1 .. Len(c) - Len(b) /\ Len(b) + (i - Len(x)) = Len(a) + i
        BY <1>1, <1>2, <1>3, <2>1, <2>3
      <3>2. (x \o y)[i] = y[i - Len(x)]
        BY <1>2, <1>5, <2>1, <2>3
      <3>3. QED
        BY <1>3, <2>1, <3>1, <3>2
    <2>4. QED
      BY <2>2, <2>3
  <1>8. z = x \o y
    BY <1>4, <1>5, <1>6, <1>7, SeqEqual
  <1>9. QED
    BY <1>8 DEF x, y, z

\* Below one directory paths begin with each other as their rests do.
LEMMA BelowStartsWith ==
    ASSUME NEW Name, NEW t \in Seq(Name), NEW x \in Seq(Name), NEW y \in Seq(Name)
    PROVE  StartsWith(t \o x, t \o y) <=> StartsWith(x, y)
  <1>1. Len(t) \in Nat /\ Len(x) \in Nat /\ Len(y) \in Nat
    BY LenProperties
  <1>2. /\ Len(t \o x) = Len(t) + Len(x)
        /\ \A i \in 1 .. Len(t) + Len(x) :
              (t \o x)[i] = IF i <= Len(t) THEN t[i] ELSE x[i - Len(t)]
    BY ConcatProperties
  <1>3. /\ Len(t \o y) = Len(t) + Len(y)
        /\ \A i \in 1 .. Len(t) + Len(y) :
              (t \o y)[i] = IF i <= Len(t) THEN t[i] ELSE y[i - Len(t)]
    BY ConcatProperties
  <1>4. ASSUME StartsWith(x, y) PROVE StartsWith(t \o x, t \o y)
    <2>1. Len(x) <= Len(y) /\ \A i \in 1 .. Len(x) : x[i] = y[i]
      BY <1>4 DEF StartsWith
    <2>2. ASSUME NEW i \in 1 .. Len(t) + Len(x) PROVE (t \o x)[i] = (t \o y)[i]
      <3>1. i \in 1 .. Len(t) + Len(y)
        BY <1>1, <2>1
      <3>2. CASE i <= Len(t)
        BY <1>2, <1>3, <3>1, <3>2
      <3>3. CASE ~(i <= Len(t))
        <4>1. i - Len(t) \in 1 .. Len(x)
          BY <1>1, <3>3
        <4>2. QED
          BY <1>2, <1>3, <2>1, <3>1, <3>3, <4>1
      <3>4. QED
        BY <3>2, <3>3
    <2>3. QED
      BY <1>1, <1>2, <1>3, <2>1, <2>2 DEF StartsWith
  <1>5. ASSUME StartsWith(t \o x, t \o y) PROVE StartsWith(x, y)
    <2>1. Len(x) <= Len(y)
      BY <1>1, <1>2, <1>3, <1>5 DEF StartsWith
    <2>2. ASSUME NEW i \in 1 .. Len(x) PROVE x[i] = y[i]
      <3>1. /\ Len(t) + i \in 1 .. Len(t) + Len(x) /\ Len(t) + i \in 1 .. Len(t) + Len(y)
            /\ ~(Len(t) + i <= Len(t)) /\ Len(t) + i - Len(t) = i
        BY <1>1, <2>1
      <3>2. (t \o x)[Len(t) + i] = (t \o y)[Len(t) + i]
        BY <1>2, <1>5, <3>1 DEF StartsWith
      <3>3. (t \o x)[Len(t) + i] = x[i] /\ (t \o y)[Len(t) + i] = y[i]
        BY <1>2, <1>3, <3>1
      <3>4. QED
        BY <3>2, <3>3
    <2>3. QED
      BY <2>1, <2>2 DEF StartsWith
  <1>6. QED
    BY <1>4, <1>5

\* A boundary below a tree, put back below it by its rest, is met by the walk
\* where the real paths meet.
LEMMA BoundaryMeets ==
    ASSUME NEW Name, NEW tree \in Seq(Name), NEW d \in Seq(Name), StartsWith(tree, d),
           NEW real \in Seq(Name), NEW P \in Seq(Name), StartsWith(real, P)
    PROVE  StartsWith(tree \o Roots!Rest(real, P), d) <=> StartsWith(P, real \o Roots!Rest(tree, d))
  <1> DEFINE x == Roots!Rest(real, P)
             y == Roots!Rest(tree, d)
  <1>1. /\ Len(tree) \in Nat /\ Len(d) \in Nat /\ Len(real) \in Nat /\ Len(P) \in Nat
        /\ Len(tree) <= Len(d) /\ Len(real) <= Len(P)
    BY LenProperties DEF StartsWith
  <1>2. /\ x \in Seq(Name) /\ Len(x) = Len(P) - Len(real)
        /\ \A i \in 1 .. Len(P) - Len(real) : x[i] = P[Len(real) + i]
    BY <1>1, RestOfPath
  <1>3. /\ y \in Seq(Name) /\ Len(y) = Len(d) - Len(tree)
        /\ \A i \in 1 .. Len(d) - Len(tree) : y[i] = d[Len(tree) + i]
    BY <1>1, RestOfPath
  <1>4. d = tree \o y /\ P = real \o x
    BY PathIsRest
  <1> HIDE DEF x, y
  <1>5. StartsWith(tree \o x, d) <=> StartsWith(x, y)
    BY <1>2, <1>3, <1>4, BelowStartsWith
  <1>6. StartsWith(P, real \o y) <=> StartsWith(x, y)
    BY <1>2, <1>3, <1>4, BelowStartsWith
  <1>7. QED
    BY <1>5, <1>6 DEF x, y

\* A link leads from paths to paths.
LEMMA RealIsPath ==
    ASSUME NEW Name, NEW fs, fs.link \in Seq(Name), fs.target \in Seq(Name),
           NEW p \in Seq(Name)
    PROVE  Roots!Real(fs, p) \in Seq(Name)
  <1>1. CASE Roots!Through(fs, p)
    <2>1. Len(fs.link) <= Len(p)
      BY <1>1 DEF Roots!Through, Roots!IsPrefix
    <2>2. Roots!Rest(fs.link, p) \in Seq(Name)
      BY <2>1, RestOfPath
    <2>3. fs.target \o Roots!Rest(fs.link, p) \in Seq(Name)
      BY <2>2, ConcatProperties
    <2>4. QED
      BY <1>1, <2>3 DEF Roots!Real
  <1>2. CASE ~Roots!Through(fs, p)
    BY <1>2 DEF Roots!Real
  <1>3. QED
    BY <1>1, <1>2

\* Three paths one after the other.
Associate(a, b, c) == (a \o b) \o c = a \o (b \o c)

LEMMA PathsAssociate ==
    ASSUME NEW Name, NEW a \in Seq(Name), NEW b \in Seq(Name), NEW c \in Seq(Name)
    PROVE  Associate(a, b, c)
  BY ConcatAssociative DEF Associate

\* What the walk of a tree sees of its real path.
LEMMA WalkedIsReal ==
    ASSUME NEW Name, NEW fs, fs.link \in Seq(Name), fs.target \in Seq(Name),
           NEW tree \in Seq(Name), NEW d \in Seq(Name), Roots!IsPrefix(tree, d),
           ~(Roots!Through(fs, d) /\ Roots!IsPrefix(tree, fs.link))
    PROVE  Roots!Real(fs, d) = Roots!Real(fs, tree) \o Roots!Rest(tree, d)
  <1> DEFINE link == fs.link
             rest == Roots!Rest(tree, d)
  <1>1. link \in Seq(Name) /\ StartsWith(tree, d)
    BY StartsWithIsPrefix DEF Roots!IsPrefix
  <1>2. /\ Roots!IsPrefix(link, d) <=> StartsWith(link, d)
        /\ Roots!IsPrefix(link, tree) <=> StartsWith(link, tree)
        /\ Roots!IsPrefix(tree, link) <=> StartsWith(tree, link)
    BY <1>1, StartsWithIsPrefix DEF Roots!IsPrefix
  <1>3. Len(link) \in Nat /\ Len(tree) \in Nat /\ Len(d) \in Nat
    BY <1>1, LenProperties
  <1> HIDE DEF link
  <1>4. CASE Roots!Through(fs, d)
    <2>1. Roots!Linked(fs) /\ StartsWith(link, d) /\ ~StartsWith(tree, link)
      BY <1>2, <1>4 DEF Roots!Through, link
    <2>2. StartsWith(link, tree)
      <3>1. /\ Len(link) <= Len(d) /\ Len(tree) <= Len(d)
            /\ \A i \in 1 .. Len(link) : link[i] = d[i]
            /\ \A i \in 1 .. Len(tree) : tree[i] = d[i]
        BY <1>1, <2>1 DEF StartsWith
      <3>2. CASE Len(tree) <= Len(link)
        <4>1. \A i \in 1 .. Len(tree) : i \in 1 .. Len(link)
          BY <1>3, <3>2
        <4>2. StartsWith(tree, link)
          BY <3>1, <3>2, <4>1 DEF StartsWith
        <4>3. QED
          BY <2>1, <4>2
      <3>3. CASE ~(Len(tree) <= Len(link))
        <4>1. Len(link) <= Len(tree) /\ \A i \in 1 .. Len(link) : i \in 1 .. Len(tree)
          BY <1>3, <3>3
        <4>2. QED
          BY <3>1, <4>1 DEF StartsWith
      <3>4. QED
        BY <3>2, <3>3
    <2>3. Roots!Through(fs, tree)
      BY <1>2, <2>1, <2>2 DEF Roots!Through, link
    <2>4. /\ Roots!Real(fs, tree) = fs.target \o Roots!Rest(link, tree)
          /\ Roots!Real(fs, d) = fs.target \o Roots!Rest(link, d)
      BY <1>4, <2>3 DEF Roots!Real, link
    <2>5. Roots!Rest(link, d) = Roots!Rest(link, tree) \o rest
      BY <1>1, <2>2, RestByWay
    <2>6. Roots!Rest(link, tree) \in Seq(Name) /\ rest \in Seq(Name)
      BY <1>1, <2>2, RestOfPath DEF StartsWith
    <2> DEFINE t == fs.target
               l == Roots!Rest(link, tree)
    <2>7. t \in Seq(Name) /\ l \in Seq(Name) /\ rest \in Seq(Name)
      BY <2>6
    <2> HIDE DEF rest, t, l
    <2>8. Associate(t, l, rest)
      BY <2>7, PathsAssociate, Zenon
    <2>9. fs.target \o (Roots!Rest(link, tree) \o rest) = (fs.target \o Roots!Rest(link, tree)) \o rest
      BY <2>8 DEF Associate, t, l
    <2>10. QED
      BY <2>4, <2>5, <2>9 DEF rest
  <1>5. CASE ~Roots!Through(fs, d)
    <2>1. ~Roots!Through(fs, tree)
      <3>1. ASSUME StartsWith(link, tree) PROVE StartsWith(link, d)
        <4>1. /\ Len(link) <= Len(tree) /\ Len(tree) <= Len(d)
              /\ \A i \in 1 .. Len(link) : link[i] = tree[i]
              /\ \A i \in 1 .. Len(tree) : tree[i] = d[i]
          BY <1>1, <3>1 DEF StartsWith
        <4>2. Len(link) <= Len(d) /\ \A i \in 1 .. Len(link) : i \in 1 .. Len(tree)
          BY <1>3, <4>1
        <4>3. QED
          BY <4>1, <4>2 DEF StartsWith
      <3>2. QED
        BY <1>2, <1>5, <3>1 DEF Roots!Through, link
    <2>2. Roots!Real(fs, tree) = tree /\ Roots!Real(fs, d) = d
      BY <1>5, <2>1 DEF Roots!Real
    <2>3. QED
      BY <1>1, <2>2, PathIsRest
  <1>6. QED
    BY <1>4, <1>5

\* The walk of a tree meets paths.
LEMMA WalkedArePaths ==
    ASSUME NEW Name, NEW fs, fs.link \in Seq(Name), fs.target \in Seq(Name),
           Roots!Chain \in Seq(Name), NEW tree, NEW d \in Roots!Walked(fs, tree)
    PROVE  d \in Seq(Name)
  <1>1. Roots!ChainDirs \subseteq Seq(Name)
    <2> DEFINE c == Roots!Chain
    <2> HIDE DEF c
    <2>1. c \in Seq(Name) /\ Len(c) \in Nat
      BY LenProperties DEF c
    <2>2. ASSUME NEW i \in 0 .. Len(c) PROVE SubSeq(c, 1, i) \in Seq(Name)
      <3>1. i \in Int /\ \A k \in 1 .. i : k \in 1 .. Len(c)
        BY <2>1
      <3>2. \A k \in 1 .. i : c[k] \in Name
        BY <2>1, <3>1, ElementOfSeq
      <3>3. QED
        BY <3>1, <3>2, SubSeqProperties
    <2>3. QED
      BY <2>2 DEF Roots!ChainDirs, c
  <1>2. CASE d \in Roots!ChainDirs
    BY <1>1, <1>2
  <1>3. ASSUME NEW p \in Roots!ChainDirs, Roots!IsPrefix(fs.target, p),
               d = fs.link \o Roots!Rest(fs.target, p)
        PROVE  d \in Seq(Name)
    <2>1. p \in Seq(Name) /\ Len(fs.target) <= Len(p)
      BY <1>1, <1>3 DEF Roots!IsPrefix
    <2>2. Roots!Rest(fs.target, p) \in Seq(Name)
      BY <2>1, RestOfPath
    <2>3. QED
      BY <1>3, <2>2, ConcatProperties
  <1>4. QED
    BY <1>2, <1>3 DEF Roots!Walked

\* When the boundaries of a tree of the hub cache are complete, its walk sees a
\* directory exactly when it is in no configured directory inside the tree, for
\* any tree and configured directories and through any link, among the real
\* directories of LocalRoots (TreeIsProtected of Decisions).
THEOREM TreeIsProtectedAlways ==
    ASSUME NEW Name, NEW fs, fs.link \in Seq(Name), fs.target \in Seq(Name),
           NEW scans \in SUBSET Seq(Name), NEW tree \in Seq(Name),
           Roots!Chain \in Seq(Name),
           Roots!ProtectedRoots(fs, scans, tree).complete,
           NEW d \in Roots!Walked(fs, tree)
    PROVE  (\E b \in Roots!ProtectedRoots(fs, scans, tree).paths : Roots!Within(b, d))
           <=> \E p \in scans :
                   LET inside == Roots!Real(fs, p)
                   IN  /\ Roots!Within(Roots!Real(fs, tree), inside)
                       /\ Roots!Within(inside, Roots!Real(fs, d))
  <1>0. Roots!Real(fs, d) = Roots!Real(fs, tree) \o Roots!Rest(tree, d)
    <2>1. d \in Seq(Name)
      BY WalkedArePaths
    <2>2. Roots!IsPrefix(tree, d) /\ ~(Roots!Through(fs, d) /\ Roots!IsPrefix(tree, fs.link))
      BY DEF Roots!Walked
    <2>3. QED
      BY <2>1, <2>2, WalkedIsReal
  <1> DEFINE Id(p) == Roots!ConfiguredRootIdentity(fs, p)
             real == Roots!Real(fs, tree)
             below == Roots!Rest(tree, d)
  <1>1. \A p : Id(p).lexical = p /\ Id(p).physical = Roots!Real(fs, p)
    BY DEF Roots!ConfiguredRootIdentity
  <1>2. Id(tree).ok /\ \A p \in scans : Id(p).ok
    BY DEF Roots!ProtectedRoots
  <1>3. Roots!ProtectedRoots(fs, scans, tree).paths =
          {tree \o Roots!Rest(real, Roots!Real(fs, p)) :
              p \in {q \in scans : Roots!Within(real, Roots!Real(fs, q))}}
    <2> DEFINE ids == {Id(p) : p \in scans}
               own == Id(tree)
    <2>1. Roots!ProtectedRoots(fs, scans, tree).paths =
            IF ~own.ok THEN {} ELSE
              {c.lexical : c \in {e \in ids : ~e.ok /\ Roots!Within(own.lexical, e.lexical)}}
              \cup {own.lexical \o Roots!Rest(own.physical, c.physical) :
                      c \in {e \in ids : e.ok /\ Roots!Within(own.physical, e.physical)}}
      BY DEF Roots!ProtectedRoots
    <2> HIDE DEF Id
    <2>2. own.ok /\ own.lexical = tree /\ own.physical = real /\ \A e \in ids : e.ok
      BY <1>1, <1>2
    <2>3. {c.lexical : c \in {e \in ids : ~e.ok /\ Roots!Within(own.lexical, e.lexical)}} = {}
      BY <2>2
    <2>4. Roots!ProtectedRoots(fs, scans, tree).paths =
            {tree \o Roots!Rest(real, c.physical) :
               c \in {e \in ids : Roots!Within(real, e.physical)}}
      <3> HIDE DEF ids, own, real
      <3>1. QED
        BY <2>1, <2>2, <2>3
    <2>5. {c.physical : c \in {e \in ids : Roots!Within(real, e.physical)}}
             = {Roots!Real(fs, p) : p \in {q \in scans : Roots!Within(real, Roots!Real(fs, q))}}
      <3> HIDE DEF real
      <3>1. QED
        BY <1>1
    <2>6. QED
      <3> HIDE DEF ids, own, real
      <3>1. QED
        BY <2>4, <2>5
  <1>4. real \in Seq(Name) /\ Roots!Real(fs, d) = real \o below
    BY <1>0, RealIsPath
  <1>5. \A p \in scans : Roots!Real(fs, p) \in Seq(Name)
    BY RealIsPath
  <1>6. below \in Seq(Name) /\ StartsWith(tree, d) /\ d \in Seq(Name)
    <2>1. d \in Seq(Name)
      BY WalkedArePaths
    <2>2. Roots!IsPrefix(tree, d)
      BY DEF Roots!Walked
    <2>3. StartsWith(tree, d)
      BY <2>1, <2>2, StartsWithIsPrefix DEF Roots!IsPrefix
    <2>4. QED
      BY <2>1, <2>3, RestOfPath DEF StartsWith
  <1> HIDE DEF Id, real, below
  <1>7. ASSUME NEW p \in scans, Roots!Within(real, Roots!Real(fs, p))
        PROVE  Roots!Within(tree \o Roots!Rest(real, Roots!Real(fs, p)), d)
               <=> Roots!Within(Roots!Real(fs, p), Roots!Real(fs, d))
    <2> DEFINE P == Roots!Real(fs, p)
               b == tree \o Roots!Rest(real, P)
    <2>1. P \in Seq(Name)
      BY <1>5
    <2> HIDE DEF P
    <2>2. StartsWith(real, P)
      BY <1>4, <1>7, <2>1, StartsWithIsPrefix DEF Roots!Within, Roots!IsPrefix, P
    <2>3. b \in Seq(Name)
      BY <1>4, <2>1, <2>2, RestOfPath, ConcatProperties DEF StartsWith
    <2>4. real \o below \in Seq(Name)
      BY <1>4, <1>6, ConcatProperties
    <2>5. StartsWith(b, d) <=> StartsWith(P, real \o below)
      BY <1>4, <1>6, <2>1, <2>2, BoundaryMeets DEF below
    <2> HIDE DEF b
    <2>6. Roots!Within(b, d) <=> Roots!Within(P, real \o below)
      BY <1>6, <2>1, <2>3, <2>4, <2>5, StartsWithIsPrefix DEF Roots!Within, Roots!IsPrefix
    <2>7. QED
      BY <1>4, <2>6 DEF P, b
  <1>8. QED
    BY <1>3, <1>7 DEF real
=============================================================================
