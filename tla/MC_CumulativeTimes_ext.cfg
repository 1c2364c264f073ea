\* The same parser when the output also prints an event name that begins
\* with a requested column name.
CONSTANTS
    Columns  <- MCColumns
    Preset   <- MCPreset
    Keys     <- MCKeysExt
    Seps     <- MCSeps
    Values   <- MCValues
    Units    <- MCUnits
    MaxLines = 3
    NONE     = NONE

SPECIFICATION Spec

INVARIANT RaisesIffMissing

CHECK_DEADLOCK FALSE
