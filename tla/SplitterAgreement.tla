-------------------------- MODULE SplitterAgreement --------------------------
(***************************************************************************)
(* The splitter accounts of module Splitter keep the agreements of module  *)
(* SplitAgreement: the part of an address is the sum over its slots, its   *)
(* floor the floor of its first slot.                                      *)
(***************************************************************************)
EXTENDS Splitter

AgreementOf(p) ==
  LET rs == splitter[p].recipients IN
  IF Initialized(p)
  THEN [admin |-> splitter[p].admin,
        share |-> [a \in Address |-> ShareOf(rs, a)],
        floor |-> [a \in Address |-> LockOf(rs, a)]]
  ELSE NoData

Agreement == INSTANCE SplitAgreement
  WITH Splitters <- PDAs, Addresses <- Address, Nobody <- Default,
       Unopened <- NoData, Whole <- TOTAL_SHARES,
       agreement <- [p \in PDAs |-> AgreementOf(p)]

ASSUME NoDataIsNoAgreement == NoData \notin Agreement!Agreements

\* The handlers implement the agreement: no list, however it repeats or
\* reorders addresses, gives somebody who keeps a part less than the floor,
\* and floors move only upward or away with the whole part.
KeepsAgreement == Agreement!Spec

=============================================================================
