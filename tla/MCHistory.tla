----------------------------- MODULE MCHistory ------------------------------
(***************************************************************************)
(* Instances of SplitterHistory for TLC: one splitter that can be paid     *)
(* for, two recipients, lists that change under a floor.                   *)
(***************************************************************************)
EXTENDS SplitterHistory, TLC

CONSTANTS w1, w2

E(a, s) == [address |-> a, share |-> s]
P1 == SplitterPDA(w1, 0)

NoBytes == {0}
HistoryNames == {<< >>}
OnlyDefault == {Default}
HistoryDistributions ==
  { <<E(w1, 1), E(w2, 3)>>,             \* a share of 1 is rounded to nothing at first
    <<E(w2, 2), E(w1, 1), E(w2, 1)>>,   \* the same parts, w2 in two slots
    <<E(w1, 2), E(w2, 2)>>,             \* a list that lowers w2
    <<E(w1, 4)>>,                       \* one that drops it
    <<E(P1, 2), E(w2, 2)>> }            \* the splitter itself
HistoryLamports ==
  [a \in Address |-> CASE a = w1 -> RentSplitter + 3 [] a = w2 -> 0 [] OTHER -> 0]

=============================================================================
