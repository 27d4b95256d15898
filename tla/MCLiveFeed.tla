----------------------------- MODULE MCLiveFeed -----------------------------
(* Instances of LiveFeed for TLC. *)
EXTENDS LiveFeed, TLC

\* Viewers are only compared for equality.
Symmetry == Permutations(Viewer)

=============================================================================
