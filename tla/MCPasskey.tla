----------------------------- MODULE MCPasskey -----------------------------
(* A small instance of Passkey for TLC. *)
EXTENDS Passkey, TLC

\* Users, challenges, credentials and requests are interchangeable.
Symmetry ==
  Permutations(User) \union Permutations(Challenge) \union Permutations(Credential)
    \union Permutations(Call)
=============================================================================
