--------------------------- MODULE MC_ExtensionHist ---------------------------
(* Names of up to four characters over a letter, a second letter and '.'. *)
EXTENDS ExtensionHist

MCAlphabet == {"a", "b", "."}
==============================================================================
