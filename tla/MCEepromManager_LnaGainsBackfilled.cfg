CONSTANTS
    Hardware <- MCHardware
    EepromWords <- MCEepromWords
    RfcsrInit <- MCRfcsrInit
    RxBbpInit <- MCRxBbpInit
    Rf5Init <- MCRf5Init
    BwBbpInit <- MCBwBbpInit
    DcocInit <- MCDcocInit
    MacInit <- MCMacInit
    CharSigned = TRUE
    BusyCount <- MCBusyCount
SPECIFICATION BringUpSpec
INVARIANT LnaGainsBackfilled
CHECK_DEADLOCK FALSE
