-------------------------- MODULE MCEvidenceLedger --------------------------
(***************************************************************************)
(* Small instances of EvidenceLedger for TLC.                              *)
(***************************************************************************)
EXTENDS EvidenceLedger, TLC

Declare(kind, rows, lineage, parents, transported) ==
    [kind |-> kind, rows |-> rows, lineage |-> lineage, parents |-> parents,
     transported |-> transported]

\* Every lineage, rows known and unknown, a grown version of the first data set, a
\* prior, a transported claim and a model of the first source.
Evidence ==
    {Declare("observation_set", {1, 2}, "original", {}, FALSE),
     Declare("observation_set", {1, 2, 3}, "original", {}, FALSE),
     Declare("observation_set", {2}, "subset", {1}, FALSE),
     Declare("experiment", Unknown, "duplicate", {1}, FALSE),
     Declare("prior", {}, "original", {}, FALSE),
     Declare("external_claim", {3}, "original", {}, TRUE),
     Declare("fitted_model", Unknown, "prior_plus_likelihood", {1, 2}, FALSE),
     Declare("fitted_model", Unknown, "derived", {1}, FALSE)}
=============================================================================
