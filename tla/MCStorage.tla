----------------------------- MODULE MCStorage ------------------------------
(* A storage in a two-sided spot market with a future market, or the same  *)
(* storage in a one-sided market without one.                              *)
EXTENDS StorageState

VARIABLE market

OneSided == INSTANCE StorageState WITH TwoSided <- FALSE, FutureSlots <- 0

MCInit == market \in {"one-sided", "two-sided"} /\ Init

MCNext ==
    \/ market = "two-sided" /\ Next /\ UNCHANGED market
    \/ market = "one-sided" /\ OneSided!Next /\ UNCHANGED market

MCSpec == MCInit /\ [][MCNext]_<<vars, market>>
=============================================================================
