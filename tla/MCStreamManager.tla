--------------------------- MODULE MCStreamManager ---------------------------
(***************************************************************************)
(* Instances of StreamManager for TLC.  Sessions are interchangeable, and  *)
(* so are requests: both are only ever compared for equality.              *)
(***************************************************************************)
EXTENDS StreamManager, TLC

\* Requests pick a representative only through \E, so both sets may be permuted.
AnySymmetry == Permutations(Session) \cup Permutations(Request)

=============================================================================
