------------------------------ MODULE MCRestApi ------------------------------
(* Symmetry for TLC: requests, fields and values are interchangeable. *)
EXTENDS RestApi, TLC

Symmetry ==
    Permutations(Requests) \cup Permutations(Fields) \cup Permutations(Values)
=============================================================================
