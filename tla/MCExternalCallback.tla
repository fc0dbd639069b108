------------------------- MODULE MCExternalCallback -------------------------
(***************************************************************************)
(* Small instances of ExternalCallback for TLC.                            *)
(***************************************************************************)
EXTENDS ExternalCallback, TLC

Descriptor(p, k) == [policy |-> p, idempotency_supported |-> k]
Request(b, s, d, k) == [branch |-> b, study |-> s, descriptor |-> d, key |-> k]

Keyed == Descriptor("side_effecting", TRUE)

\* Every policy, two studies, two branches, and keyed requests that share a key.
AllPolicies ==
    {Request(0, 1, Descriptor("deterministic", FALSE), NoKey),
     Request(0, 2, Descriptor("seeded", FALSE), NoKey),
     Request(0, 1, Descriptor("stateful", FALSE), NoKey),
     Request(0, 1, Descriptor("side_effecting", FALSE), NoKey),
     Request(0, 1, Descriptor("side_effecting", FALSE), "k"),
     Request(0, 1, Descriptor("unknown", FALSE), NoKey),
     Request(0, 1, Keyed, "k"), Request(0, 2, Keyed, "k"), Request(1, 1, Keyed, "k"),
     Request(0, 1, Keyed, "j")}
=============================================================================
