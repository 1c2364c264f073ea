---------------------------- MODULE MC_NodeSelect ----------------------------
(* Directories of up to two entries, two owners, and names with no '.',  *)
(* an extension, and a leading '.', and atime/mtime values 1 and 2.       *)
EXTENDS NodeSelect

CONSTANTS u1, u2

MCUids       == {u1, u2}
MCEntryNames == {<<"a">>, <<"a", ".", "b">>, <<".", "a">>}
MCTimes      == {1, 2}
==============================================================================
