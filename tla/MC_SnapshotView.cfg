\* -G's view over two indexes of different filesystems, every inode
\* numbering those filesystems allow with two inode numbers.
CONSTANTS
    top = top
    d1 = d1
    e1 = e1
    d2 = d2
    host = host
    fa = fa
    fb = fb
    Dirs <- MCDirs
    FsOf <- MCFsOf
    Inodes = {1, 2}
    HasSummary <- MCHasSummary
    HasTreeSum <- MCHasTreeSum
    NULL = NULL
SPECIFICATION Spec
INVARIANT ViewPairsOwnRollup
