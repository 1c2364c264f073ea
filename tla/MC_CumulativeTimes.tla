------------------------- MODULE MC_CumulativeTimes -------------------------
(***************************************************************************)
(* A columns list with a preset column ("id") and two event names one of   *)
(* which begins the other ("a", "ab"), as "opendir" begins "opendir and    *)
(* close" style names of the debug output.                                 *)
(***************************************************************************)
EXTENDS CumulativeTimes

MCColumns == << <<"i", "d">>, <<"a">>, <<"a", "b">> >>
MCPreset  == { <<"i", "d">> }

\* Keys the debug output prints: the requested event names and none.
MCKeys    == { <<>>, <<"a">>, <<"a", "b">> }
\* ... and also an event name that begins with a requested one.
MCKeysExt == MCKeys \cup { <<"a", "c">> }

MCSeps    == { <<>>, <<":", " ">>, <<" ">> }
MCValues  == { <<>>, <<"1">>, <<"2">> }
MCUnits   == { <<>>, <<"s">> }

=============================================================================
