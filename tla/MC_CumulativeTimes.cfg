\* The parser against the reference parse, on every output of up to three
\* lines made of the requested event names.
CONSTANTS
    Columns  <- MCColumns
    Preset   <- MCPreset
    Keys     <- MCKeys
    Seps     <- MCSeps
    Values   <- MCValues
    Units    <- MCUnits
    MaxLines = 3
    NONE     = NONE

SPECIFICATION Spec

INVARIANT ParsesReference

\* The function returns after CheckMissing: those states are final.
CHECK_DEADLOCK FALSE
