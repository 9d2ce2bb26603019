-------------------------- MODULE MCReviewLifecycle --------------------------
(***************************************************************************)
(* Instances of ReviewLifecycle for TLC.                                   *)
(***************************************************************************)
EXTENDS ReviewLifecycle

CONSTANTS u1, r1, r2

\* One account uploads every review: requests compete for the same wallets.
MCOwner == [r \in Reviews |-> u1]

AllFaults == FaultKinds
==============================================================================
