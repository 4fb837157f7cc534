CONSTANTS
    Hardware <- MCHardware
    EepromWords <- MCEepromWords
    RfcsrInit <- MCRfcsrInit
    RxBbpInit <- MCRxBbpInit
    Rf5Init <- MCRf5Init
    BwBbpInit <- MCBwBbpInit
    DcocInit <- MCDcocInit
    MacInit <- MCMacInit
    CharSigned = TRUE
    BusyCount <- MCBusyCount
SPECIFICATION BringUpSpec
PROPERTY RssiOffsetInRangeKept
CHECK_DEADLOCK FALSE
