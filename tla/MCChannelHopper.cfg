\* kismet_hopper over every setup path and the card mixes that hop.
CONSTANTS
    Invocations <- MCInvocations
    MaxSources = 3
    HopChannels <- MCHopChannels
    ConfFiles <- MCConfFiles
    MaxOpen = 3
SPECIFICATION Spec
\* main ends: exit(), CatchShutdown or a fault.
CHECK_DEADLOCK FALSE
INVARIANTS
    TypeOK
    EnableListRespected
    ConfigParsedInOrder
PROPERTIES
    EveryChannelVisited
    KillfileStops
