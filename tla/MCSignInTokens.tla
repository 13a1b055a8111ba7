--------------------------- MODULE MCSignInTokens ---------------------------
(* A small instance of SignInTokens for TLC. *)
EXTENDS SignInTokens, TLC

\* Accounts, addresses, tokens, rows and requests are interchangeable.
Symmetry ==
  Permutations(Account) \union Permutations(Token) \union Permutations(Authentication)
    \union Permutations(Call) \union Permutations(Address)
=============================================================================
