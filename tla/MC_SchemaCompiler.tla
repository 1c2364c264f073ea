-------------------------- MODULE MC_SchemaCompiler --------------------------
(***************************************************************************)
(* Arguments of an invocation: two reference times, bucket counts 0..7 for *)
(* both bounds, and atime values on both sides of SQLite's Julian-day     *)
(* range (a time in the first hours of the epoch, and one of 2023).        *)
(***************************************************************************)
EXTENDS SchemaCompiler

MCReftimes   == {1700000000, 1800000000}
MCBuckets    == 0..7
MCTimestamps == {3600, 1700000000}

=============================================================================
