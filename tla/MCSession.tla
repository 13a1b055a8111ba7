----------------------------- MODULE MCSession -----------------------------
(* Small instances of Session for TLC. *)
EXTENDS Session, TLC

AllRoles == {"member", "admin"}
AllTenants == {"t1", "t2"}

Row(locked, role, tenant) == [locked |-> locked, roles |-> {role}, tenant |-> tenant]

\* Accounts that are locked and unlocked; that are given other roles and moved to
\* another tenant as well.
LockableRows == {Row(FALSE, "member", "t1"), Row(TRUE, "member", "t1")}
ChangingRows == {Row(FALSE, "member", "t1"), Row(FALSE, "admin", "t1"),
                 Row(FALSE, "member", "t2"), Row(TRUE, "admin", "t1")}

\* Handlers, challenges, authentications and device keys are interchangeable.
Symmetry ==
  Permutations(Request) \union Permutations(Challenge) \union Permutations(Auth)
    \union Permutations(Key)
=============================================================================
