CONSTANTS
    Hardware <- MCHardware
    EepromWords <- MCEepromWords
    RfcsrInit <- MCRfcsrInit
    RxBbpInit <- MCRxBbpInit
    Rf5Init <- MCRf5Init
    BwBbpInit <- MCBwBbpInit
    DcocInit <- MCDcocInit
    MacInit <- MCMacInit
    CharSigned = FALSE
    BusyCount <- MCBusyCount
SPECIFICATION BringUpSpec
\* A build whose plain char is unsigned (gcc on ARM Linux).
PROPERTY BwCalRefined
CHECK_DEADLOCK FALSE
