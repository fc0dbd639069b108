-------------------------- MODULE MCCausalState --------------------------
(***************************************************************************)
(* Small instances of CausalState for TLC.                                 *)
(***************************************************************************)
EXTENDS CausalState, TLC

CONSTANTS j1, b1, i1, x, a1, d1

\* The facade's publish_recomputed_results fills in every field of a
\* ResultPublication, refresh_results none.
Full == [lineage |-> TRUE, snapshot |-> TRUE, identities |-> TRUE]
Bare == [lineage |-> FALSE, snapshot |-> FALSE, identities |-> FALSE]
\* A direct caller of publish_results may leave some out.
NoIdentities == [lineage |-> TRUE, snapshot |-> TRUE, identities |-> FALSE]
NoSnapshot   == [lineage |-> TRUE, snapshot |-> FALSE, identities |-> TRUE]

AllForms    == {Full, Bare, NoIdentities, NoSnapshot}
FullOnly    == {Full}
Jobs1 == {j1}
None  == {}
B1 == {b1}
I1 == {i1}
X  == {x}
A1 == {a1}
D1 == {d1}
V0 == {0}
One == {1}
Two == {2}
OneTwo == {1, 2}
Slots == {"ols", "cov", "graph_scores"}
\* A limit just below the largest u64, and CacheBudget::unlimited().
LimitedAndNot == {3, 4}
=============================================================================
