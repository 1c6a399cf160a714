----------------------------- MODULE MCSendApi -----------------------------
(* SendApi for TLC: requests are interchangeable. *)
EXTENDS SendApi, TLC

Symmetry == Permutations(Requests)
=============================================================================
