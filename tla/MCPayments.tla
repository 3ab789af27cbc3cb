------------------------------ MODULE MCPayments ------------------------------
(* XanaxPayments on a log of three payments of two users.                  *)
EXTENDS XanaxPayments, TLC

CONSTANTS u1, u2

MCQuantity == <<1, 1, 1>>
MCSender == <<u1, u2, u1>>

\* Only the fairness of FairSpec tells the nightly run from the others.
Symmetry == Permutations(Runs) \cup Permutations(Transfers)
=============================================================================
