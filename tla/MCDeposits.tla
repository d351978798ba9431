----------------------------- MODULE MCDeposits -----------------------------
(***************************************************************************)
(* Instances of Deposits for TLC.  One whole amount is three micro-units.  *)
(* A customer who asks for 2 is offered 4: the candidate 3 is a whole       *)
(* amount and is skipped, so two customers compete for one amount.  With a  *)
(* single attempt, one who asks for 3 is offered 4 and nothing else.        *)
(***************************************************************************)
EXTENDS Deposits

CONSTANTS i1, i2

\* Identifiers are alike, so the first intent takes the first one.
InOrder == status[i2] # "none" => status[i1] # "none"
MCSpec == Init /\ [][Next /\ InOrder']_vars /\ Fairness
=============================================================================
