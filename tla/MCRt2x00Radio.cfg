CONSTANTS
    Chips <- MCChips
    HwChannels <- MCHwChannels
    Confs <- MCConfs
    TxPinResets <- MCTxPinResets
    Rssis <- MCRssis
    Eeproms <- MCEeproms
SPECIFICATION Spec
INVARIANTS
    TypeOK
    RadioFlagMatchesHardware
    ReceiveLnasFollowChannel
    TransmitPasFollowChannel
PROPERTIES
    AntennaResetProgramsDefault
