----------------------------- MODULE MCClients -----------------------------
(* A small instance of Clients for TLC. *)
EXTENDS Clients, TLC

CONSTANTS web1, port1, port2, k1, k2

\* The document of a client that moves from its address to the user's
\* machine.
Documents == {{web1}, {port1}}

\* Either kind of URI admitted and then taken back, and a key of its own.
Configurations ==
  {[key |-> k1, rules |-> {web1, port1}], [key |-> k1, rules |-> {port1}],
   [key |-> k2, rules |-> {web1}]}

Symmetry == Permutations(Call)
=============================================================================
