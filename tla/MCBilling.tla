----------------------------- MODULE MCBilling ------------------------------
(* Model values and the operator's requests for Billing.                   *)
EXTENDS Billing, TLC
CONSTANTS s1, s2, r1, r2, c1, c2

TwoSubs == {s1, s2}
OneRequest == {r1}
TwoRequests == {r1, r2}
TwoCodes == {c1, c2}
NoCodes == {}

\* One code pays once, the other has no limit.
OnceAndUnlimited == [c \in Codes |-> IF c = c1 THEN 1 ELSE 0]

TopUps == {2, -1}
TopUp == {4}

NoPatches == {}
AllPatches == {[field |-> "status", value |-> "active"], [field |-> "extend_days", value |-> 1],
               [field |-> "expires_at_ns", value |-> 0]}

RequestSymmetry == Permutations(Requests)
=============================================================================
