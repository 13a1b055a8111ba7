------------------------------ MODULE MCOauth ------------------------------
(* Small instances of Oauth for TLC. *)
EXTENDS Oauth, TLC

\* One scope, the same at every resource.
ReadOnly == [s \in Resource |-> {"read"}]

Symmetry ==
  Permutations(Request) \union Permutations(AuthorizationRequest)
    \union Permutations(Code) \union Permutations(Grant) \union Permutations(RefreshToken)
=============================================================================
