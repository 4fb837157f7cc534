CONSTANTS
    Chips <- MCChips
    Images <- MCImages
    Unit <- MCUnit
SPECIFICATION Spec
CHECK_DEADLOCK FALSE
INVARIANT
    AcceptedImageNonEmpty
