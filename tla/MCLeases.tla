------------------------------ MODULE MCLeases ------------------------------
(* Owners and model values for Leases.                                     *)
EXTENDS Leases, TLC

CONSTANTS n1, n2, i1, i2, r1, u1, a1, a2

\* One account.
OneAccount == {[user |-> NoUser, account |-> a1]}

\* Two accounts of the single-tenant caller.
SingleTenants == {[user |-> NoUser, account |-> a1], [user |-> NoUser, account |-> a2]}

\* A tenant that uses the account name of the single-tenant caller.
SameAccount == {[user |-> NoUser, account |-> a1], [user |-> u1, account |-> a1]}

\* Nodes, addresses and the accounts of one caller are interchangeable.
Symmetry == Permutations(Nodes) \cup Permutations(IPs) \cup Permutations({a1, a2})
=============================================================================
