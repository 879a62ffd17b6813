----------------------------- MODULE MCQueryLoop -----------------------------
(* Small instances of QueryLoop.                                           *)
EXTENDS QueryProperties, TLC

Symmetry ==
    Permutations(Metrics) \cup Permutations(Versions) \cup Permutations(Bodies)
        \cup Permutations(Policies)
=============================================================================
