--------------------------- MODULE MCMetadataSync ---------------------------
(* Finite instances of MetadataSync for TLC.                                *)
EXTENDS MetadataSync, TLC

CONSTANTS r1, r2

TwoRequests == {r1, r2}
NoFaults == {}
AllFaults == FaultKinds
ProcessFaults == {"broker", "web_crash", "worker_crash"}

\* Requests are interchangeable in Init, Next and the safety properties.
RequestSymmetry == Permutations(Requests)
=============================================================================
