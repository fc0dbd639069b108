--------------------------- MODULE MCCrossfitCache ---------------------------
(***************************************************************************)
(* Small instances of CrossfitCache for TLC.                               *)
(***************************************************************************)
EXTENDS CrossfitCache, TLC

CONSTANTS s1, s2, k1, k2, y1, y2, p1, p2

OneScope == {s1}
TwoScopes == {s1, s2}
TwoKeys == {k1, k2}
TwoOutcomes == {y1, y2}
TwoProblems == {p1, p2}

\* The larger preparation does not fit beside a key and two of its columns.
TwoCosts == p1 :> 1 @@ p2 :> 3
None == {}

\* A grid of two thresholds, its first column alone, and the same column on another
\* design.
Grids == {[key |-> k1, outcomes |-> <<y1, y2>>], [key |-> k1, outcomes |-> <<y1>>],
          [key |-> k2, outcomes |-> <<y1>>]}

\* Two thresholds with no observed outcome between them.
EqualColumns == {[key |-> k1, outcomes |-> <<y1, y1>>]}
=============================================================================
