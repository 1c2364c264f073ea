\* DT.py's hour-of-day histogram evaluated on entries' atime.
CONSTANTS
    Variant    = "DT"
    Reftimes   <- MCReftimes
    Buckets    <- MCBuckets
    Timestamps <- MCTimestamps
    NULL       = NULL

SPECIFICATION Spec

INVARIANT HourHistIsHourOfDay
