----------------------------- MODULE MCApiKeys -----------------------------
(* A small instance of ApiKeys for TLC. *)
EXTENDS ApiKeys, TLC

\* Requests, assertions and sign-ins are interchangeable.
Symmetry == Permutations(Call) \union Permutations(Jti) \union Permutations(Authentication)
=============================================================================
