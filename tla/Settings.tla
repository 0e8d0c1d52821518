------------------------------ MODULE Settings ------------------------------
(***************************************************************************)
(* Updates of the settings: POST /api/settings commits a new configuration *)
(* in memory, and then, one request at a time, brings it to the job        *)
(* manager and to the config file.  A token that was set or cleared by     *)
(* name is kept as an intent until the file has it.                        *)
(* Source: internal/server/api.go, server.go, config.go.                   *)
(*                                                                         *)
(* Settings are numbered by the commit that made them, explicit tokens by  *)
(* their intent; no token is among them that the user did not author.      *)
(***************************************************************************)
EXTENDS Integers

CONSTANTS
    Request,      \* requests that may be under way
    FlagGiven,    \* the process was started with --token
    MaxCommits,   \* bound: commits
    MaxRestarts   \* bound: restarts

DiskToken == 0    \* what the config file holds at first
FlagToken == -1   \* the token of the command line
NoTokenWrite == -2        \* tokenWrite is nil

ASSUME SettingsAssumption ==
    FlagGiven \in BOOLEAN /\ MaxCommits \in Nat /\ MaxRestarts \in Nat

VARIABLES
    config,    \* Server.config: settings, token, tokenWrite and tokenWriteGen
    gen,       \* Server.configGen
    manager,   \* JobManager.config
    file,      \* the config file
    at,        \* where each request is
    myGen,     \* the generation each request has committed
    snap,      \* what the request under persistMu works with
    stopping,  \* JobManager.stopping
    savedAll,  \* history: the last save succeeded
    restarts   \* bound: restarts so far

settingsVars == <<config, gen, manager, file, at, myGen, snap, stopping, savedAll, restarts>>

Token == Int
Config == [settings : Nat, token : Token, write : Token, writeGen : Nat]
Stored == [settings : Nat, token : Token]

\* "update", "save" and "consume" are under persistMu.
At == {"none", "committed", "update", "save", "consume", "saved", "skipped", "warned"}
Holding == {"update", "save", "consume"}

SettingsTypeOK ==
    /\ config \in Config /\ gen \in 0..MaxCommits /\ manager \in Stored /\ file \in Stored
    /\ at \in [Request -> At] /\ myGen \in [Request -> 0..MaxCommits]
    /\ snap \in Config /\ stopping \in BOOLEAN /\ savedAll \in BOOLEAN
    /\ restarts \in 0..MaxRestarts

Started(stored, writeGen) ==
    [settings |-> stored.settings, token |-> IF FlagGiven THEN FlagToken ELSE stored.token,
     write |-> NoTokenWrite, writeGen |-> writeGen]

SettingsInit ==
    /\ file = [settings |-> 0, token |-> DiskToken]
    /\ config = Started(file, 0) /\ snap = Started(file, 0) /\ gen = 0
    /\ manager = [settings |-> 0, token |-> config.token]
    /\ at = [r \in Request |-> "none"] /\ myGen = [r \in Request |-> 0]
    /\ stopping = FALSE /\ savedAll = TRUE /\ restarts = 0

MoveTo(r, place) == at' = [at EXCEPT ![r] = place]
-----------------------------------------------------------------------------
\* The new configuration; a token that is named authors an intent, an update that names
\* none inherits the pending one.
WithConfig(named) ==
    [config EXCEPT !.settings = gen + 1,
        !.token = IF named THEN config.writeGen + 1 ELSE @,
        !.write = IF named THEN config.writeGen + 1 ELSE @,
        !.writeGen = IF named THEN @ + 1 ELSE @]

\* A request is valid and commits.
Commit(r) ==
    /\ at[r] \in {"none", "saved", "skipped", "warned"} /\ gen < MaxCommits
    /\ \E named \in BOOLEAN : config' = WithConfig(named)
    /\ gen' = gen + 1 /\ myGen' = [myGen EXCEPT ![r] = gen + 1]
    /\ MoveTo(r, "committed")
    /\ UNCHANGED <<manager, file, snap, stopping, savedAll, restarts>>

\* Mutant: the settings that the request committed are applied, whatever came after.
PersistAlways(r) ==
    /\ at[r] = "committed" /\ \A q \in Request : at[q] \notin Holding
    /\ MoveTo(r, "update")
    /\ snap' = [config EXCEPT !.settings = myGen[r]]
    /\ UNCHANGED <<config, gen, manager, file, myGen, stopping, savedAll, restarts>>

\* Mutant: an older request waits for its generation to be the latest.
PersistOnlyLatest(r) ==
    /\ at[r] = "committed" /\ \A q \in Request : at[q] \notin Holding
    /\ gen = myGen[r] /\ MoveTo(r, "update") /\ snap' = config
    /\ UNCHANGED <<config, gen, manager, file, myGen, stopping, savedAll, restarts>>

\* persistMu is taken, and the generation is compared under it.
Persist(r) ==
    /\ at[r] = "committed" /\ \A q \in Request : at[q] \notin Holding
    /\ IF gen # myGen[r]
       THEN MoveTo(r, "skipped") /\ UNCHANGED snap
       ELSE MoveTo(r, "update") /\ snap' = config
    /\ UNCHANGED <<config, gen, manager, file, myGen, stopping, savedAll, restarts>>

\* UpdateConfig of the job manager, which takes no change any more while it stops.
UpdateManager(r) ==
    /\ at[r] = "update" /\ MoveTo(r, "save")
    /\ manager' = IF stopping THEN manager
                  ELSE [settings |-> snap.settings, token |-> snap.token]
    /\ UNCHANGED <<config, gen, file, myGen, snap, stopping, savedAll, restarts>>

\* The stored token stays unless the snapshot carries an intent.
TokenToStore == IF snap.write = NoTokenWrite THEN file.token ELSE snap.write

\* saveSettingsConfig: the new content replaces the file whole, or nothing changes.
Save(r) ==
    /\ at[r] = "save"
    /\ \/ /\ file' = [settings |-> snap.settings, token |-> TokenToStore]
          /\ savedAll' = TRUE /\ MoveTo(r, "consume")
       \/ savedAll' = FALSE /\ MoveTo(r, "warned") /\ UNCHANGED file
    /\ UNCHANGED <<config, gen, manager, myGen, snap, stopping, restarts>>

\* Mutant: whatever intent is pending is taken for the saved one.
ConsumeAnyTokenWrite(r) ==
    /\ at[r] = "consume" /\ MoveTo(r, "saved")
    /\ config' = [config EXCEPT !.write = NoTokenWrite]
    /\ UNCHANGED <<gen, manager, file, myGen, snap, stopping, savedAll, restarts>>

\* The intent that was saved is forgotten, a newer one is not.
ConsumeTokenWrite(r) ==
    /\ at[r] = "consume" /\ MoveTo(r, "saved")
    /\ config' = IF config.writeGen = snap.writeGen THEN [config EXCEPT !.write = NoTokenWrite]
                 ELSE config
    /\ UNCHANGED <<gen, manager, file, myGen, snap, stopping, savedAll, restarts>>

\* The job manager is being stopped; requests under way go on.
StopJobs ==
    /\ ~stopping /\ stopping' = TRUE
    /\ UNCHANGED <<config, gen, manager, file, at, myGen, snap, savedAll, restarts>>

\* The process ends at any time and starts again from the file.  Generations are only
\* compared within a process, so they go on counting here.
Restart ==
    /\ restarts < MaxRestarts /\ restarts' = restarts + 1
    /\ config' = Started(file, config.writeGen)
    /\ manager' = [settings |-> file.settings, token |-> config'.token]
    /\ at' = [r \in Request |-> "none"] /\ stopping' = FALSE /\ savedAll' = TRUE
    /\ UNCHANGED <<gen, file, myGen, snap>>

Handle(r) == Persist(r) \/ UpdateManager(r) \/ Save(r) \/ ConsumeTokenWrite(r)

SettingsNext == Restart \/ StopJobs \/ \E r \in Request : Commit(r) \/ Handle(r)

SettingsSpec == SettingsInit /\ [][SettingsNext]_settingsVars

\* A handler that can go on does, and one that waits for persistMu gets it in the end:
\* a Go mutex is handed to a waiter that has waited long.
SettingsFairness ==
    \A r \in Request : WF_settingsVars(Handle(r)) /\ SF_settingsVars(Persist(r))

FairSettingsSpec == SettingsSpec /\ SettingsFairness
-----------------------------------------------------------------------------
Busy(r) == at[r] \in Holding \cup {"committed"}
Quiet == \A r \in Request : ~Busy(r)

\* When no request is under way the job manager works with the configuration that the
\* server shows, unless it stops (server.go:112-127, api.go:608-621).
ManagerFollows ==
    Quiet /\ ~stopping => manager = [settings |-> config.settings, token |-> config.token]

\* When no request is under way and the last save succeeded, the file has the latest
\* settings (server.go:123-126).
FileFollows == Quiet /\ savedAll => file.settings = config.settings

\* An explicit token is forgotten only when the file has it, through skipped requests,
\* failed saves and newer intents (server.go:82-90, docs/API.md:957).
IntentReachesFile ==
    config.writeGen > 0 /\ config.write = NoTokenWrite /\ restarts = 0
        => file.token = config.writeGen

\* A token of the command line never gets into the file (docs/API.md:955).
RuntimeTokenStaysOut == file.token # FlagToken

\* A request that was told "Settings saved" finds its settings, or newer ones, in the
\* file (api.go:648-666).
SavedIsInFile == \A r \in Request : at[r] = "saved" => file.settings >= myGen[r]

\* Within a process neither the manager nor the file goes back to older settings
\* (server.go:123-126).
NeverRollsBack ==
    [][restarts' = restarts
       => manager'.settings >= manager.settings /\ file'.settings >= file.settings]_settingsVars

\* Every request is answered (api.go:608-667).
RequestsEnd == \A r \in Request : Busy(r) ~> ~Busy(r)
=============================================================================
