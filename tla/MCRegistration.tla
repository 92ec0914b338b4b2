--------------------------- MODULE MCRegistration ---------------------------
(* Small instances of Registration for TLC. *)
EXTENDS Registration, TLC

\* Names stand for themselves only, and so do replicas and requests.
MCSymmetry == Permutations(Requests) \cup Permutations(Names) \cup Permutations(Replicas)
=============================================================================
