--------------------------- MODULE SettingsProofs ---------------------------
(***************************************************************************)
(* What Settings promises for any requests, commits and restarts.          *)
(***************************************************************************)
EXTENDS Settings, TLAPS

Holds(r) == at[r] \in Holding

\* The commit that is the latest is on its way to the places named.
Underway(places) == \E q \in Request : at[q] \in places /\ myGen[q] = gen

OneHolder == \A r, q \in Request : Holds(r) /\ Holds(q) => r = q

\* Nothing runs ahead of the configuration, and what a holder works with is as new as
\* what was applied before.
Ordered ==
    /\ config.settings <= gen
    /\ file.settings <= config.settings /\ manager.settings <= config.settings
    /\ \A r \in Request : Holds(r) =>
          /\ snap.settings <= config.settings
          /\ file.settings <= snap.settings /\ manager.settings <= snap.settings

\* An intent carries the token that it authored.
Authored ==
    /\ file.token # FlagToken
    /\ config.write \in {NoTokenWrite, config.writeGen} /\ snap.write \in {NoTokenWrite, snap.writeGen}

\* The intent of the configuration is in the file once it is forgotten, and the intent
\* of the holder's snapshot once it is saved.
Intents ==
    restarts = 0 =>
      /\ config.writeGen > 0 /\ config.write = NoTokenWrite => file.token = config.writeGen
      /\ \A r \in Request :
           /\ Holds(r) => snap.writeGen <= config.writeGen
           /\ at[r] \in {"update", "save"} =>
                /\ snap.write # NoTokenWrite => config.write # NoTokenWrite
                /\ snap.write = NoTokenWrite /\ snap.writeGen > 0 => file.token = snap.writeGen
           /\ at[r] = "consume" /\ snap.writeGen > 0 => file.token = snap.writeGen

\* A holder works with the configuration, or a newer commit waits for it.
Current ==
    \A r \in Request :
      /\ myGen[r] <= gen
      /\ at[r] = "committed" /\ myGen[r] = gen => config.settings = gen
      /\ Holds(r) /\ myGen[r] = gen =>
           snap.settings = config.settings /\ snap.token = config.token
      /\ Holds(r) /\ myGen[r] # gen => Underway({"committed"})

ManagerPending ==
    \/ stopping
    \/ manager = [settings |-> config.settings, token |-> config.token]
    \/ Underway({"committed", "update"})

FilePending ==
    savedAll => file.settings = config.settings \/ Underway({"committed", "update", "save"})

\* What a request committed is in its snapshot, and then in the file.
Delivered ==
    \A r \in Request :
      /\ Holds(r) => myGen[r] <= snap.settings
      /\ at[r] \in {"consume", "saved"} => myGen[r] <= file.settings

SettingsInv == /\ SettingsTypeOK /\ OneHolder /\ Ordered /\ Authored /\ Intents
        /\ Current /\ ManagerPending /\ FilePending /\ Delivered
-----------------------------------------------------------------------------
\* A start from the file gives a configuration without an intent.
LEMMA StartedType ==
    ASSUME NEW stored \in Stored, NEW g \in Nat
    PROVE  /\ Started(stored, g) \in Config
           /\ Started(stored, g).settings = stored.settings
           /\ Started(stored, g).write = NoTokenWrite
           /\ Started(stored, g).writeGen = g
BY DEF Started, Stored, Config, Token, FlagToken, NoTokenWrite

\* The invariant holds at the start.
LEMMA InitIInv == SettingsInit => SettingsInv
<1> SUFFICES ASSUME SettingsInit PROVE SettingsInv
    OBVIOUS
<1>1. file \in Stored /\ file.settings = 0 /\ file.token = 0
    BY DEF SettingsInit, Stored, Token, DiskToken
<1>2. /\ config \in Config /\ snap \in Config /\ config.settings = 0
      /\ config.write = NoTokenWrite /\ config.writeGen = 0 /\ snap.write = NoTokenWrite
    BY <1>1, StartedType DEF SettingsInit
<1>3. manager \in Stored /\ manager = [settings |-> config.settings, token |-> config.token]
    BY <1>2 DEF SettingsInit, Stored, Config
<1>4. SettingsTypeOK
    <2>1. stopping \in BOOLEAN /\ savedAll \in BOOLEAN
        BY Zenon DEF SettingsInit
    <2>2. at \in [Request -> At] /\ myGen \in [Request -> 0..MaxCommits]
        BY SettingsAssumption DEF SettingsInit, At
    <2> QED BY <1>1, <1>2, <1>3, <2>1, <2>2, SettingsAssumption DEF SettingsInit, SettingsTypeOK
<1>5. \A r \in Request : at[r] = "none" /\ myGen[r] = 0 /\ ~Holds(r)
    BY DEF SettingsInit, Holds, Holding
<1>6. OneHolder /\ Ordered /\ Authored /\ Intents
    BY <1>1, <1>2, <1>3, <1>5 DEF SettingsInit, OneHolder, Ordered, Authored, Intents, FlagToken
<1>7. Current /\ ManagerPending /\ FilePending /\ Delivered
    BY <1>1, <1>2, <1>3, <1>5 DEF SettingsInit, Current, ManagerPending, FilePending, Delivered
<1> QED BY <1>4, <1>6, <1>7 DEF SettingsInv
-----------------------------------------------------------------------------
\* A commit keeps the invariant.
LEMMA CommitIInv == ASSUME SettingsInv, NEW r \in Request, Commit(r) PROVE SettingsInv'
<1> USE DEF SettingsInv
<1>0. /\ at[r] \notin Holding /\ gen' = gen + 1 /\ gen < MaxCommits
      /\ at' = [at EXCEPT ![r] = "committed"] /\ myGen' = [myGen EXCEPT ![r] = gen + 1]
      /\ UNCHANGED <<manager, file, snap, stopping, savedAll, restarts>>
    BY DEF Commit, MoveTo, Holding
<1>1. PICK named \in BOOLEAN : config' = WithConfig(named)
    BY DEF Commit
<1>2. /\ config' \in Config /\ config'.settings = gen + 1
      /\ config'.writeGen \in {config.writeGen, config.writeGen + 1}
      /\ config'.writeGen = config.writeGen => config'.write = config.write
      /\ config'.writeGen # config.writeGen => config'.write = config'.writeGen
    <2>1. /\ config \in Config /\ gen \in Nat /\ config.token \in Int
          /\ config.write \in Int /\ config.writeGen \in Nat
        BY SettingsAssumption DEF SettingsTypeOK, Config, Token
    <2>2. config' = [settings |-> gen + 1, token |-> config'.token, write |-> config'.write,
                     writeGen |-> config'.writeGen]
        BY <1>1, <2>1, Zenon DEF WithConfig, Config
    <2> DEFINE next == config.writeGen + 1
    <2>3. \/ config'.token = next /\ config'.write = next /\ config'.writeGen = next
          \/ /\ config'.token = config.token /\ config'.write = config.write
             /\ config'.writeGen = config.writeGen
        <3> HIDE DEF next
        <3> QED BY <1>1, <2>1 DEF WithConfig, Config, next
    <2> QED BY <2>1, <2>2, <2>3 DEF Config, Token
<1>3. /\ gen \in Nat /\ gen' \in 0..MaxCommits /\ config.writeGen \in Nat
      /\ file.settings \in Nat /\ manager.settings \in Nat /\ config.settings \in Nat
      /\ snap.settings \in Nat /\ snap.writeGen \in Nat
    BY <1>0, SettingsAssumption DEF SettingsTypeOK, Config, Stored
<1>4. SettingsTypeOK'
    BY <1>0, <1>2, <1>3 DEF SettingsTypeOK, At
<1>5. /\ \A q \in Request : Holds(q)' = Holds(q)
      /\ \A q \in Request \ {r} : at'[q] = at[q] /\ myGen'[q] = myGen[q]
      /\ at'[r] = "committed" /\ myGen'[r] = gen'
    BY <1>0 DEF Holds, SettingsTypeOK, Holding
<1>6. OneHolder'
    BY <1>5 DEF OneHolder
<1>7. Ordered'
    BY <1>0, <1>2, <1>3, <1>5 DEF Ordered
<1>8. Authored'
    BY <1>0, <1>2 DEF Authored
<1>9. Intents'
    BY <1>0, <1>2, <1>3, <1>5 DEF Intents, Authored, NoTokenWrite
<1>10. Underway({"committed"})' /\ Underway({"committed", "update"})'
       /\ Underway({"committed", "update", "save"})'
    BY <1>5 DEF Underway
<1>11. Current'
    BY <1>0, <1>2, <1>3, <1>5, <1>10 DEF Current, SettingsTypeOK, Holds, Holding
<1>12. Delivered'
    BY <1>0, <1>5 DEF Delivered, Holds, Holding
<1> QED BY <1>4, <1>6, <1>7, <1>8, <1>9, <1>10, <1>11, <1>12 DEF ManagerPending, FilePending

\* Taking persistMu, or being told that a newer commit will do the work, keeps it.
LEMMA PersistIInv == ASSUME SettingsInv, NEW r \in Request, Persist(r) PROVE SettingsInv'
<1> USE DEF SettingsInv
<1>0. /\ at[r] = "committed" /\ \A q \in Request : ~Holds(q)
      /\ UNCHANGED <<config, gen, manager, file, myGen, stopping, savedAll, restarts>>
    BY DEF Persist, Holds
<1>1. \/ gen # myGen[r] /\ at' = [at EXCEPT ![r] = "skipped"] /\ snap' = snap
      \/ gen = myGen[r] /\ at' = [at EXCEPT ![r] = "update"] /\ snap' = config
    BY DEF Persist, MoveTo
<1>2. SettingsTypeOK'
    BY <1>0, <1>1 DEF SettingsTypeOK, At
<1>3. /\ \A q \in Request \ {r} : at'[q] = at[q] /\ ~Holds(q)'
      /\ at'[r] = (IF gen = myGen[r] THEN "update" ELSE "skipped")
      /\ Holds(r)' <=> gen = myGen[r]
      /\ gen = myGen[r] => snap' = config
    BY <1>0, <1>1 DEF SettingsTypeOK, Holds, Holding
<1>4. OneHolder'
    BY <1>3 DEF OneHolder
<1>5. Ordered'
    <2>1. config.settings \in Nat
        BY DEF SettingsTypeOK, Config
    <2> QED BY <1>0, <1>3, <2>1 DEF Ordered
<1>6. Authored'
    BY <1>0, <1>1 DEF Authored
<1>7. Intents'
    <2>1. config.writeGen \in Nat
        BY DEF SettingsTypeOK, Config
    <2> QED BY <1>0, <1>3, <2>1 DEF Intents, Holds, Holding
<1>8. Current'
    BY <1>0, <1>3 DEF Current
<1>9. ManagerPending'
    BY <1>0, <1>3 DEF ManagerPending, Underway
<1>10. FilePending'
    BY <1>0, <1>3 DEF FilePending, Underway
<1>11. Delivered'
    <2>1. gen = myGen[r] => myGen[r] <= snap'.settings
        BY <1>0, <1>3 DEF Current, SettingsTypeOK
    <2> QED BY <1>0, <1>3, <2>1 DEF Delivered, Holds, Holding
<1> QED BY <1>2, <1>4, <1>5, <1>6, <1>7, <1>8, <1>9, <1>10, <1>11

\* The update of the job manager keeps it.
LEMMA UpdateManagerIInv == ASSUME SettingsInv, NEW r \in Request, UpdateManager(r) PROVE SettingsInv'
<1> USE DEF SettingsInv
<1>0. /\ at[r] = "update" /\ at' = [at EXCEPT ![r] = "save"]
      /\ manager' = IF stopping THEN manager ELSE [settings |-> snap.settings, token |-> snap.token]
      /\ UNCHANGED <<config, gen, file, myGen, snap, stopping, savedAll, restarts>>
    BY DEF UpdateManager, MoveTo
<1>1. /\ manager' \in Stored /\ snap.settings \in Nat
      /\ manager'.settings \in {manager.settings, snap.settings}
    <2>1. snap.settings \in Nat /\ snap.token \in Token
        BY DEF SettingsTypeOK, Config
    <2>2. /\ [settings |-> snap.settings, token |-> snap.token] \in Stored
          /\ [settings |-> snap.settings, token |-> snap.token].settings = snap.settings
        BY <2>1 DEF Stored
    <2>3. CASE stopping
        BY <1>0, <2>1, <2>3 DEF SettingsTypeOK
    <2>4. CASE ~stopping
        BY <1>0, <2>1, <2>2, <2>4
    <2> QED BY <2>3, <2>4
<1>2. SettingsTypeOK'
    BY <1>0, <1>1 DEF SettingsTypeOK, At
<1>3. /\ \A q \in Request \ {r} : at'[q] = at[q]
      /\ \A q \in Request : Holds(q)' = Holds(q)
      /\ at'[r] = "save" /\ Holds(r)
    BY <1>0 DEF SettingsTypeOK, Holds, Holding
<1>4. OneHolder'
    BY <1>3 DEF OneHolder
<1>5. Ordered'
    BY <1>0, <1>1, <1>3 DEF Ordered
<1>6. Authored'
    BY <1>0 DEF Authored
<1>7. Intents'
    BY <1>0, <1>3 DEF Intents
<1>8. Underway({"committed"}) => Underway({"committed", "update"})'
    BY <1>0, <1>3 DEF Underway
<1>9. Underway({"committed"}) => Underway({"committed"})'
    BY <1>0, <1>3 DEF Underway
<1>10. Current'
    BY <1>0, <1>3, <1>9 DEF Current
<1>11. ManagerPending'
    <2>1. CASE myGen[r] = gen
        BY <1>0, <1>3, <2>1 DEF ManagerPending, Current
    <2>2. CASE myGen[r] # gen
        BY <1>0, <1>3, <1>8, <2>2 DEF ManagerPending, Current
    <2> QED BY <2>1, <2>2
<1>12. FilePending'
    BY <1>0, <1>3 DEF FilePending, Underway
<1>13. Delivered'
    BY <1>0, <1>3 DEF Delivered
<1> QED BY <1>2, <1>4, <1>5, <1>6, <1>7, <1>10, <1>11, <1>12, <1>13

\* A save keeps it, whether it replaces the file or fails.
LEMMA SaveIInv == ASSUME SettingsInv, NEW r \in Request, Save(r) PROVE SettingsInv'
<1> USE DEF SettingsInv
<1>0. /\ at[r] = "save" /\ UNCHANGED <<config, gen, manager, myGen, snap, stopping, restarts>>
      /\ \/ /\ file' = [settings |-> snap.settings, token |-> TokenToStore]
            /\ savedAll' = TRUE /\ at' = [at EXCEPT ![r] = "consume"]
         \/ savedAll' = FALSE /\ at' = [at EXCEPT ![r] = "warned"] /\ file' = file
    BY DEF Save, MoveTo
<1>1. /\ snap.settings \in Nat /\ snap.writeGen \in Nat /\ file.settings \in Nat
      /\ config.writeGen \in Nat /\ TokenToStore \in Int
    <2>1. snap \in Config /\ config \in Config /\ file \in Stored
        BY DEF SettingsTypeOK
    <2>2. /\ snap.settings \in Nat /\ snap.writeGen \in Nat /\ file.settings \in Nat
          /\ config.writeGen \in Nat /\ snap.write \in Int /\ file.token \in Int
        BY <2>1 DEF Config, Stored, Token
    <2>3. TokenToStore \in {file.token, snap.write}
        BY Zenon DEF TokenToStore
    <2> QED BY <2>2, <2>3
<1>2. SettingsTypeOK'
    <2>1. file' \in Stored
        <3>1. [settings |-> snap.settings, token |-> TokenToStore] \in Stored
            BY <1>1 DEF Stored, Token
        <3> QED BY <1>0, <3>1 DEF SettingsTypeOK
    <2>2. savedAll' \in BOOLEAN /\ at' \in [Request -> At]
        BY <1>0 DEF SettingsTypeOK, At
    <2> QED BY <1>0, <2>1, <2>2 DEF SettingsTypeOK
<1>3. /\ \A q \in Request \ {r} : at'[q] = at[q] /\ ~Holds(q) /\ ~Holds(q)'
      /\ at'[r] \in {"consume", "warned"} /\ Holds(r)
      /\ at'[r] = "consume" => file' = [settings |-> snap.settings, token |-> TokenToStore]
      /\ at'[r] = "warned" => file' = file /\ ~savedAll'
    BY <1>0 DEF SettingsTypeOK, Holds, Holding, OneHolder
<1>4. OneHolder'
    BY <1>3 DEF OneHolder
<1>5. Ordered'
    BY <1>0, <1>1, <1>3 DEF Ordered
<1>6. Authored'
    BY <1>0, <1>1 DEF Authored, TokenToStore, FlagToken
<1>7. Intents'
    <2> SUFFICES ASSUME restarts = 0 PROVE Intents'
        BY <1>0 DEF Intents
    <2>1. /\ snap.write # NoTokenWrite => snap.write = snap.writeGen /\ config.write # NoTokenWrite
          /\ snap.write = NoTokenWrite /\ snap.writeGen > 0 => file.token = snap.writeGen
          /\ snap.writeGen <= config.writeGen
        BY <1>0, <1>3 DEF Intents, Authored
    <2>2. at'[r] = "consume" /\ snap.writeGen > 0 => file'.token = snap.writeGen
        BY <1>3, <2>1 DEF TokenToStore
    <2>3. config.writeGen > 0 /\ config.write = NoTokenWrite => file'.token = config.writeGen
        <3>1. config.write = NoTokenWrite => file'.token = file.token
            BY <1>0, <2>1 DEF TokenToStore
        <3> QED BY <3>1 DEF Intents
    <2> QED BY <1>0, <1>3, <2>1, <2>2, <2>3 DEF Intents, Holding, Holds
<1>8. Underway({"committed"}) => Underway({"committed"})' /\ Underway({"committed", "update", "save"})'
    BY <1>0, <1>3 DEF Underway
<1>9. Current'
    BY <1>0, <1>3, <1>8 DEF Current
<1>10. ManagerPending'
    BY <1>0, <1>3 DEF ManagerPending, Underway
<1>11. FilePending'
    <2>1. CASE myGen[r] = gen
        BY <1>0, <1>3, <2>1 DEF FilePending, Current
    <2>2. CASE myGen[r] # gen
        BY <1>0, <1>3, <1>8, <2>2 DEF FilePending, Current
    <2> QED BY <2>1, <2>2
<1>12. Delivered'
    <2>1. file'.settings \in Nat /\ file.settings <= file'.settings
        BY <1>0, <1>1, <1>3 DEF Ordered
    <2>2. at'[r] = "consume" => myGen[r] <= file'.settings
        BY <1>3 DEF Delivered
    <2>3. \A q \in Request : myGen[q] \in Nat
        BY DEF SettingsTypeOK
    <2> QED BY <1>0, <1>1, <1>3, <2>1, <2>2, <2>3 DEF Delivered, Holds, Holding
<1> QED BY <1>2, <1>4, <1>5, <1>6, <1>7, <1>9, <1>10, <1>11, <1>12

\* Forgetting the intent that was saved keeps it.
LEMMA ConsumeIInv == ASSUME SettingsInv, NEW r \in Request, ConsumeTokenWrite(r) PROVE SettingsInv'
<1> USE DEF SettingsInv
<1>0. /\ at[r] = "consume" /\ at' = [at EXCEPT ![r] = "saved"]
      /\ config' = IF config.writeGen = snap.writeGen THEN [config EXCEPT !.write = NoTokenWrite]
                   ELSE config
      /\ UNCHANGED <<gen, manager, file, myGen, snap, stopping, savedAll, restarts>>
    BY DEF ConsumeTokenWrite, MoveTo
<1>1. /\ config' \in Config /\ config'.settings = config.settings
      /\ config'.token = config.token /\ config'.writeGen = config.writeGen
      /\ config'.write = (IF config.writeGen = snap.writeGen THEN NoTokenWrite ELSE config.write)
    BY <1>0 DEF SettingsTypeOK, Config, Token, NoTokenWrite
<1>2. SettingsTypeOK'
    BY <1>0, <1>1 DEF SettingsTypeOK, At
<1>3. /\ \A q \in Request \ {r} : at'[q] = at[q] /\ ~Holds(q) /\ ~Holds(q)'
      /\ at'[r] = "saved" /\ Holds(r) /\ ~Holds(r)'
    BY <1>0 DEF SettingsTypeOK, Holds, Holding, OneHolder
<1>4. OneHolder' /\ Authored'
    BY <1>0, <1>1, <1>3 DEF OneHolder, Authored
<1>5. Ordered'
    BY <1>0, <1>1, <1>3 DEF Ordered
<1>6. Intents'
    BY <1>0, <1>1, <1>3 DEF Intents, Holds, Holding
<1>7. Current' /\ ManagerPending' /\ FilePending'
    BY <1>0, <1>1, <1>3 DEF Current, ManagerPending, FilePending, Underway
<1>8. Delivered'
    BY <1>0, <1>3 DEF Delivered
<1> QED BY <1>2, <1>4, <1>5, <1>6, <1>7, <1>8

\* So does a restart.
LEMMA RestartIInv == ASSUME SettingsInv, Restart PROVE SettingsInv'
<1> USE DEF SettingsInv
<1>0. /\ restarts < MaxRestarts /\ restarts' = restarts + 1
      /\ config' = Started(file, config.writeGen)
      /\ manager' = [settings |-> file.settings, token |-> config'.token]
      /\ at' = [r \in Request |-> "none"] /\ stopping' = FALSE /\ savedAll' = TRUE
      /\ UNCHANGED <<gen, file, myGen, snap>>
    BY DEF Restart
<1>1. /\ config' \in Config /\ config'.settings = file.settings /\ config'.write = NoTokenWrite
      /\ manager' \in Stored
      /\ manager' = [settings |-> config'.settings, token |-> config'.token]
    <2>1. file \in Stored /\ config.writeGen \in Nat
        BY DEF SettingsTypeOK, Config
    <2>2. config' \in Config /\ config'.settings = file.settings /\ config'.write = NoTokenWrite
        BY <1>0, <2>1, StartedType
    <2> QED BY <1>0, <2>2 DEF Stored, Config
<1>2. restarts' \in 0..MaxRestarts /\ restarts' # 0
    BY <1>0, SettingsAssumption DEF SettingsTypeOK
<1>3. SettingsTypeOK'
    BY <1>0, <1>1, <1>2 DEF SettingsTypeOK, At
<1>4. \A q \in Request : at'[q] = "none" /\ ~Holds(q)'
    BY <1>0 DEF Holds, Holding
<1>5. OneHolder' /\ Authored' /\ Intents'
    BY <1>0, <1>1, <1>2, <1>4 DEF OneHolder, Authored, Intents
<1>6. Ordered'
    <2>1. /\ file.settings \in Nat /\ gen \in Nat /\ config.settings \in Nat
          /\ manager'.settings = file.settings
        BY <1>1 DEF SettingsTypeOK, Stored, Config
    <2> QED BY <1>0, <1>1, <1>4, <2>1 DEF Ordered
<1>7. Current' /\ ManagerPending' /\ FilePending' /\ Delivered'
    BY <1>0, <1>1, <1>4 DEF Current, ManagerPending, FilePending, Delivered
<1> QED BY <1>3, <1>5, <1>6, <1>7

\* Every step keeps the invariant.
LEMMA NextIInv == SettingsInv /\ [SettingsNext]_settingsVars => SettingsInv'
<1> SUFFICES ASSUME SettingsInv, [SettingsNext]_settingsVars PROVE SettingsInv'
    OBVIOUS
<1>1. CASE UNCHANGED settingsVars
    BY <1>1 DEF settingsVars, SettingsInv, SettingsTypeOK, OneHolder, Ordered, Authored, Intents, Current,
        ManagerPending, FilePending, Delivered, Underway, Holds
<1>2. CASE StopJobs
    BY <1>2 DEF StopJobs, SettingsInv, SettingsTypeOK, OneHolder, Ordered, Authored, Intents, Current,
        ManagerPending, FilePending, Delivered, Underway, Holds
<1> QED BY <1>1, <1>2, CommitIInv, PersistIInv, UpdateManagerIInv, SaveIInv, ConsumeIInv,
        RestartIInv DEF SettingsNext, Handle

\* The invariant holds in every reachable state.
THEOREM Invariant == SettingsSpec => []SettingsInv
BY InitIInv, NextIInv, PTL DEF SettingsSpec
-----------------------------------------------------------------------------
\* The settings, the intents and the steps of the requests have their types.
THEOREM TypeCorrect == SettingsSpec => []SettingsTypeOK
<1> SettingsInv => SettingsTypeOK
    BY DEF SettingsInv
<1> QED BY Invariant, PTL

\* The job manager works with the server's configuration when no request is under way.
THEOREM ManagerFollowsAlways == SettingsSpec => []ManagerFollows
<1> SettingsInv => ManagerFollows
    BY DEF SettingsInv, ManagerPending, Underway, ManagerFollows, Quiet, Busy, Holding
<1> QED BY Invariant, PTL

\* The file has the latest settings when no request is under way and the last save
\* succeeded.
THEOREM FileFollowsAlways == SettingsSpec => []FileFollows
<1> SettingsInv => FileFollows
    BY DEF SettingsInv, FilePending, Underway, FileFollows, Quiet, Busy, Holding
<1> QED BY Invariant, PTL

\* An explicit token is forgotten only when the file has it.
THEOREM IntentReachesFileAlways == SettingsSpec => []IntentReachesFile
<1> SettingsInv => IntentReachesFile
    BY DEF SettingsInv, Intents, IntentReachesFile
<1> QED BY Invariant, PTL

\* No token of the command line is ever saved.
THEOREM RuntimeTokenStaysOutAlways == SettingsSpec => []RuntimeTokenStaysOut
<1> SettingsInv => RuntimeTokenStaysOut
    BY DEF SettingsInv, Authored, RuntimeTokenStaysOut
<1> QED BY Invariant, PTL

\* "Settings saved" is true of the file for as long as the process runs.
THEOREM SavedIsInFileAlways == SettingsSpec => []SavedIsInFile
<1> SettingsInv => SavedIsInFile
    BY DEF SettingsInv, Delivered, SavedIsInFile, SettingsTypeOK, Stored
<1> QED BY Invariant, PTL

\* No step of a process takes the manager or the file back to older settings.
THEOREM NeverRollsBackAlways == SettingsSpec => NeverRollsBack
<1> DEFINE Forward == restarts' = restarts
              => manager'.settings >= manager.settings /\ file'.settings >= file.settings
<1>1. SettingsInv /\ [SettingsNext]_settingsVars => [Forward]_settingsVars
    <2> SUFFICES ASSUME SettingsInv, SettingsNext PROVE Forward
        OBVIOUS
    <2>0. manager.settings \in Nat /\ file.settings \in Nat /\ snap.settings \in Nat
        BY DEF SettingsInv, SettingsTypeOK, Config, Stored
    <2>1. CASE Restart \/ StopJobs
        BY <2>0, <2>1 DEF Restart, StopJobs, SettingsInv, SettingsTypeOK
    <2>2. ASSUME NEW r \in Request, Commit(r) \/ Persist(r) \/ ConsumeTokenWrite(r)
          PROVE  Forward
        BY <2>0, <2>2 DEF Commit, Persist, ConsumeTokenWrite
    <2>3. ASSUME NEW r \in Request, UpdateManager(r) PROVE Forward
        BY <2>0, <2>3 DEF UpdateManager, SettingsInv, Ordered, Holds, Holding
    <2>4. ASSUME NEW r \in Request, Save(r) PROVE Forward
        BY <2>0, <2>4 DEF Save, SettingsInv, Ordered, Holds, Holding
    <2> QED BY <2>1, <2>2, <2>3, <2>4 DEF SettingsNext, Handle
<1> QED BY <1>1, Invariant, PTL DEF SettingsSpec, NeverRollsBack
=============================================================================
