--------------------------- MODULE MCAlpha4Source ---------------------------
(***************************************************************************)
(* TLC instances of Alpha4Source.                                          *)
(***************************************************************************)
EXTENDS Alpha4Source

CONSTANTS s1, s2

\* The host lists a set of sessions in one order or, for the last definition,
\* with one of them repeated.
MCListings(S) == {SetToSeq(S)}
MCRepeating(S) == {SetToSeq(S)} \cup {Append(SetToSeq(S), s) : s \in S}
=============================================================================
