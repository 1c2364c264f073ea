CONSTANTS
    u1 = u1
    u2 = u2
    Uids <- MCUids
    EntryNames <- MCEntryNames
    Times <- MCTimes
    MaxEntries = 2
    NULL = NULL
SPECIFICATION Spec
INVARIANTS
    OneRowPerDirectory
    EntryStatsDescribeEntries
