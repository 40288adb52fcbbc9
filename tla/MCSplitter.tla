----------------------------- MODULE MCSplitter -----------------------------
(***************************************************************************)
(* Instances of Splitter for TLC.                                          *)
(***************************************************************************)
EXTENDS SplitterAgreement, TLC

CONSTANTS w1, w2

AllAddresses == Address
OnlyDefault == {Default}
MCBytes == {0, 1, 2}

\* Slots of entries (address, share), as SetSplitterDistribution receives them.
E(a, s) == [address |-> a, share |-> s]
Lists(as, shares, n) == UNION {[1..k -> [address : as, share : shares]] : k \in 0..n}

(* Configuration: every list of up to three entries for two recipients,    *)
(* valid or not, and one list that is too long.                            *)
ConfigDistributions ==
  Lists({w1, w2}, 0..TOTAL_SHARES, 3) \cup {[i \in 1..4 |-> E(w1, 1)]}
ConfigNames == {<< >>, <<1>>, <<2, 1>>, <<1, 1, 1>>}
ConfigMinShares == 0..(TOTAL_SHARES + 1)
\* Only w1 can pay for a splitter, and nothing is left over.
ConfigLamports == [a \in Address |-> IF a = w1 THEN RentSplitter ELSE 0]

(* SOL: a fixed choice of distributions over the two wallets, the splitter *)
(* PDAs themselves and the system program's address.                       *)
P1 == SplitterPDA(w1, 0)
P2 == SplitterPDA(w2, 0)
SolDistributions ==
  { <<E(w1, 1), E(w2, 3)>>,             \* uneven shares, dust
    <<E(w2, 2), E(w1, 1), E(w2, 1)>>,   \* an address in two slots
    <<E(P1, 2), E(w2, 2)>>,             \* P1 listing itself, P2 listing P1
    <<E(P2, 3), E(w1, 1)>>,             \* P2, created or not, as a recipient
    <<E(Default, 1), E(w1, 3)>>,        \* an address nothing can be credited to
    [i \in 1..4 |-> E(w1, 1)] }         \* a list that is too long
SolNames == {<< >>}
SolLamports == [a \in Address |-> CASE a = w1 -> 9 [] a = w2 -> 4 [] OTHER -> 0]

=============================================================================
