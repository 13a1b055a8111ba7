------------------------------ MODULE MCSignIn ------------------------------
(* A small instance of SignIn for TLC. *)
EXTENDS SignIn, TLC

\* Browsers, flows, codes and requests are interchangeable.
Symmetry ==
  Permutations(Browser) \union Permutations(Flow) \union Permutations(Code)
    \union Permutations(Call)
=============================================================================
