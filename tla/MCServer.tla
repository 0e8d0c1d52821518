------------------------------ MODULE MCServer ------------------------------
(***************************************************************************)
(* Settings requests (Settings), the log to a client (LogStream) and the   *)
(* log to its files (FileSink), for TLC.  The three share no state, so a   *)
(* behaviour is one of any.                                                *)
(***************************************************************************)
EXTENDS Settings, LogStream, FileSink

CONSTANTS q1, q2

VARIABLE part   \* what the behaviour is of

TwoRequests == {q1, q2}

MCInit ==
    /\ part \in {"settings", "stream", "files"}
    /\ SettingsInit /\ StreamInit /\ SinkInit

SettingsStep ==
    part = "settings" /\ SettingsNext /\ UNCHANGED <<part, streamVars, sinkVars>>
StreamStep ==
    part = "stream" /\ StreamNext /\ UNCHANGED <<part, settingsVars, sinkVars>>
FileStep ==
    part = "files" /\ SinkNext /\ UNCHANGED <<part, settingsVars, streamVars>>

\* In its initial state a part that takes no step owes none.
MCSpec ==
    /\ MCInit
    /\ [][SettingsStep \/ StreamStep \/ FileStep]_<<part, settingsVars, streamVars, sinkVars>>
    /\ SettingsFairness /\ StreamFairness
=============================================================================
