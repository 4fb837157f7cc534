CONSTANTS
    Invocations <- MCInvocations
    MaxSources = 3
    HopChannels <- MCHopChannels
    ConfFiles <- MCConfFiles
    MaxOpen = 3
SPECIFICATION Spec
\* main ends: exit(), CatchShutdown or a fault.
CHECK_DEADLOCK FALSE
INVARIANT NoHopWithoutTemplate
