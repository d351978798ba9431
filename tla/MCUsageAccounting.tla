-------------------------- MODULE MCUsageAccounting --------------------------
(* Instances of UsageAccounting: one account with one key, on one platform   *)
(* or on two.                                                                *)
EXTENDS UsageAccounting, TLC

CONSTANTS b1, b2, k1, u1, s1, s2

\* One key on one platform.
OneKey == b1 :> k1
OneUser == b1 :> u1

\* One key, two platforms.
TwoPlatformKeys == (b1 :> k1) @@ (b2 :> k1)
TwoPlatformUsers == (b1 :> u1) @@ (b2 :> u1)

\* A behaviour meets at most two events, in any order and at any point: of the
\* failed calls, the restarts, the requests and, in MCSpec, the rollovers.  A
\* shutdown in progress counts as the restart it leads to, so that the bound
\* never stops Exit, which is fair.
MaxEvents == 2
Events == faults + crashes + requests + (IF stopping THEN 1 ELSE 0)
MCSpec == Init /\ [][Next /\ Events' + (clock' - 1) <= MaxEvents]_vars
MCFairSpec == Init /\ [][Next /\ Events' <= MaxEvents]_vars /\ Fairness

\* Subscription ids are random strings, and the two platforms are alike.
Symmetry == Permutations({s1, s2}) \cup Permutations({b1, b2})
=============================================================================
