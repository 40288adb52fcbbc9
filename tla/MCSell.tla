------------------------------- MODULE MCSell -------------------------------
(***************************************************************************)
(* An instance of SellConfig for TLC: one splitter that can be paid for,   *)
(* two wallets that can be its admin, lists that fill the account, that    *)
(* are empty and that are too long.                                        *)
(***************************************************************************)
EXTENDS SellConfig, TLC

CONSTANTS w1, w2, m1, x1

NoBytes == {0}
SellNames == {<< >>}
SellAdmins == {w2}
SellWhitelists == {<< >>, <<m1>>, <<m1, m1>>}
SellApprovals == {<<x1>>, <<x1, x1>>}
\* The whole split goes to one of the wallets.
SellDistributions ==
  {[i \in 1..1 |-> [address |-> a, share |-> TOTAL_SHARES]] : a \in Wallets}
\* w1 pays for a splitter and a configuration, and 1 is left.
SellLamports ==
  [a \in Address |-> IF a = w1 THEN RentSplitter + RentConfig + 1 ELSE 0]

=============================================================================
