CONSTANTS
    Hardware <- MCHardware
    EepromWords <- MCEepromWords
    RfcsrInit <- MCRfcsrInit
    RxBbpInit <- MCRxBbpInit
    Rf5Init <- MCRf5Init
    BwBbpInit <- MCBwBbpInit
    DcocInit <- MCDcocInit
    MacInit <- MCMacInit
    CharSigned = TRUE
    BusyCount <- MCBusyCount
SPECIFICATION BringUpSpec
INVARIANTS
    TypeOK
    RepairIdempotent
    BlankImageSafeDefaults
    RfInitAfterBootAndBbp
PROPERTIES
    ChipIdWordUntouched
    RxCalRefined
    BwCalRefined
    EnableReturns
\* Bring-up runs once per device and then stops.
CHECK_DEADLOCK FALSE
