--------------------------- MODULE MCRunLifecycle ---------------------------
(* RunLifecycle for TLC. Identities are model values; the ones that no action *)
(* tells apart are interchangeable.                                           *)
EXTENDS RunRefinement, TLC

Symmetry ==
    Permutations(Procs) \cup Permutations(Tasks) \cup Permutations(Reqs) \cup Permutations(Drafts)
=============================================================================
