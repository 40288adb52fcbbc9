----------------------------- MODULE MCExternal -----------------------------
(***************************************************************************)
(* Instances of ExternalCalls for TLC: one splitter, one exchange, three   *)
(* mints: junk to be sold, one to be kept, and wrapped SOL.                *)
(***************************************************************************)
EXTENDS ExternalCalls, TLC

CONSTANTS w1, x1, junk, kept, wsol

NoBytes == {0}
ExternalNames == {<< >>}
ExternalWhitelists == {<<kept>>}
ExternalApprovals == {<<x1>>, << >>}
P1 == SplitterPDA(w1, 0)

\* w1 pays for the splitter, the configuration and one token account.
ExternalLamports ==
  [a \in Address |-> IF a = w1 THEN RentSplitter + RentConfig + RentToken ELSE 0]

ExternalTokens ==
  [x \in Account |->
     CASE x = <<P1, junk>> -> 1
       [] x = <<P1, kept>> -> 1
       [] x = <<P1, wsol>> -> 1        \* wrapped SOL from before any swap
       [] x = <<w1, kept>> -> 0
       [] x = <<x1, junk>> -> 0
       [] x = <<x1, kept>> -> 1
       [] x = <<x1, wsol>> -> 1
       [] OTHER -> NoData]

\* The exchange is the permanent delegate of junk; of no mint at all.
JunkDelegated == [mint \in Mints |-> IF mint = junk THEN x1 ELSE NoData]
NoDelegates == [mint \in Mints |-> NoData]

=============================================================================
