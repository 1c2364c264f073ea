\* DT.py's descriptor tables and compiler over every combination of
\* arguments: the view's columns, the histogram descriptors, and the
\* column lists of both generators.
CONSTANTS
    Variant    = "DT"
    Reftimes   <- MCReftimes
    Buckets    <- MCBuckets
    Timestamps <- MCTimestamps
    NULL       = NULL

SPECIFICATION Spec

INVARIANTS
    ViewColsDistinct
    HistogramDescriptors
    SchemaCreatable
