------------------------- MODULE MCCompositeSession -------------------------
(***************************************************************************)
(* Small instances of CompositeSession for TLC.                            *)
(***************************************************************************)
EXTENDS CompositeSession, TLC

Descriptor(p, k) == [policy |-> p, idempotency_supported |-> k]
Request(b, s, d, k) == [branch |-> b, study |-> s, descriptor |-> d, key |-> k]

Pure   == Descriptor("deterministic", FALSE)
Once   == Descriptor("side_effecting", FALSE)
Keyed  == Descriptor("side_effecting", TRUE)

\* A pure study that may change, a keyed side effect
\* whose key may meet another study, and a third branch, pure or
\* with a side effect, that may take the place of either.
ThreeBranches == {0, 1, 2}
MixedRequests ==
    {Request(0, 1, Pure, NoKey), Request(0, 2, Pure, NoKey),
     Request(1, 1, Keyed, "k"), Request(1, 2, Keyed, "k"),
     Request(2, 1, Pure, NoKey), Request(2, 1, Once, NoKey)}

\* The declared provider is at hand or it is not.
Called == [provider |-> "declared", cancelled |-> FALSE, fits |-> TRUE]
WithOrWithout == {Called, [Called EXCEPT !.provider = "none"]}

\* Only what is shared reaches the branches; data stays with the native session.
ThreeNatives == {[shared |-> 1, data |-> 1], [shared |-> 1, data |-> 2], [shared |-> 2, data |-> 1]}
=============================================================================
