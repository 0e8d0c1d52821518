\* One publisher, one browser: from a change of the job to what is shown.
SPECIFICATION FairUpdatesSpec
CONSTANTS
    Publishers = {p1}
    Timers = {t1, t2}
    Clients = {c1}
    MinGap = 2
    MaxVersion = 3
    BroadcastCap = 2
    SendCap = 1

    
PROPERTIES
    ChannelsAreOpen
    UpdatesArrive
\* The job stops changing at MaxVersion.
CHECK_DEADLOCK FALSE
