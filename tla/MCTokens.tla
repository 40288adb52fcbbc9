------------------------------ MODULE MCTokens ------------------------------
(***************************************************************************)
(* Instances of TokenSplitter for TLC: two wallets, one splitter that can  *)
(* be paid for, lists that differ in order, in length and in addresses.    *)
(***************************************************************************)
EXTENDS TokenSplitter, TLC

CONSTANTS w1, w2, m1

E(a, s) == [address |-> a, share |-> s]
P1 == SplitterPDA(w1, 0)

NoBytes == {0}
TokenNames == {<< >>}
TokenDistributions ==
  { <<E(w1, 1), E(w2, 3)>>,             \* uneven shares, dust
    <<E(w2, 3), E(w1, 1)>>,             \* the same parts in another order
    <<E(w2, 2), E(w1, 1), E(w2, 1)>>,   \* an address in two slots
    <<E(P1, 2), E(w2, 2)>> }            \* the splitter itself
\* Only w1 can pay for a splitter.
TokenLamports == [a \in Address |-> IF a = w1 THEN RentSplitter ELSE 0]
\* The splitter's account is open; w1 holds tokens, w2 has no account yet.
HolderTokens ==
  [x \in Address \X Mints |->
     CASE x[1] = w1 -> [amount |-> 5, frozen |-> FALSE]
       [] x[1] = P1 -> [amount |-> 0, frozen |-> FALSE]
       [] OTHER -> NoData]

=============================================================================
