-------------------------- MODULE MCHistoryShadow --------------------------
(***************************************************************************)
(* TLC instances of HistoryShadow: five source files in three directories, *)
(* a lockfile, and a path that is gone from HEAD; one diff is bulk, one has*)
(* too many paths.                                                         *)
(***************************************************************************)
EXTENDS HistoryShadow

MCCurrent == 1..6
MCEligible == 1..5
MCDirectory == [p \in 1..6 |-> IF p \in {1, 4} THEN "lib" ELSE IF p = 5 THEN "docs" ELSE "app"]
MCDiff == {{}, {1}, {5}, {6}, {7}, {1, 2}, {1, 3, 6}, {1, 2, 3, 4}, 1..5, 1..6}
=============================================================================
