CONSTANTS
    Chips <- MCChips
    Images <- MCImages
    Unit <- MCUnit
SPECIFICATION Spec
\* Validation and upload run once per device open: the lifecycle ends.
CHECK_DEADLOCK FALSE
INVARIANTS
    TypeOK
    CrcVerdictMatchesReference
    LoadedDeviceReady
