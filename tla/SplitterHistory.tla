--------------------------- MODULE SplitterHistory ---------------------------
(***************************************************************************)
(* Module Splitter with a tally, for every splitter and address, of what   *)
(* the distributions had to give, what the address received and what the   *)
(* events reported.                                                        *)
(*                                                                         *)
(* DistributeSOL keeps no accounts: it rounds every payout down and offers *)
(* what is left again, whoever cranks it and however often.  The tallies   *)
(* say what that comes to over many distributions and changes of the list. *)
(***************************************************************************)
EXTENDS Splitter

CONSTANT MaxCranks   \* the distributions a splitter makes

ASSUME MaxCranksIsNat == MaxCranks \in Nat

VARIABLES
  cranks,    \* history: the distributions of a splitter
  listed,    \* history: the tallies since the list was last set
  floor,     \* history: the floor an address last raised while it is listed
  pledged    \* history: the tallies since then

historyVars == <<vars, cranks, listed, floor, pledged>>

NewTally == [cranks |-> 0, offered |-> 0, got |-> 0, reported |-> 0]

Counted(t, p, a) ==
  [cranks |-> t.cranks + 1,
   offered |-> t.offered + Distributable(p),
   got |-> t.got + (lamports'[a] - lamports[a]),
   reported |-> t.reported + Reported(splitter[p].recipients, Distributable(p), a)]

\* How many slots name a.
SlotsOf(rs, a) == Total([i \in 1..Len(rs) |-> IF rs[i].address = a THEN 1 ELSE 0])

Crank(p) ==
  /\ cranks[p] < MaxCranks
  /\ DistributeSOL(p)
  /\ cranks' = [cranks EXCEPT ![p] = @ + 1]
  /\ listed' = [listed EXCEPT ![p] = [a \in Address |-> Counted(@[a], p, a)]]
  /\ pledged' = [pledged EXCEPT ![p] = [a \in Address |-> Counted(@[a], p, a)]]
  /\ UNCHANGED floor

\* A list that leaves an address out ends its floor.
Relist(p) ==
  /\ SetSplitterDistribution(p)
  /\ LET kept == Listed(splitter'[p].recipients) IN
     /\ floor' = [floor EXCEPT ![p] = [a \in Address |-> IF a \in kept THEN @[a] ELSE 0]]
     /\ pledged' = [pledged EXCEPT ![p] =
                      [a \in Address |-> IF a \in kept THEN @[a] ELSE NewTally]]
  /\ listed' = [listed EXCEPT ![p] = [a \in Address |-> NewTally]]
  /\ UNCHANGED cranks

Pledge(p) ==
  /\ LockRecipient(p)
  /\ \E a \in Listed(splitter[p].recipients) :
       LET lock == LockOf(splitter'[p].recipients, a) IN
       /\ lock # LockOf(splitter[p].recipients, a)
       /\ floor' = [floor EXCEPT ![p][a] = lock]
       /\ pledged' = [pledged EXCEPT ![p][a] = NewTally]
  /\ UNCHANGED <<cranks, listed>>

HistoryInit ==
  /\ Init
  /\ cranks = [p \in PDAs |-> 0]
  /\ listed = [p \in PDAs |-> [a \in Address |-> NewTally]]
  /\ floor = [p \in PDAs |-> [a \in Address |-> 0]]
  /\ pledged = [p \in PDAs |-> [a \in Address |-> NewTally]]

HistoryNext ==
  \/ \E p \in PDAs : Crank(p) \/ Relist(p) \/ Pledge(p)
  \/ /\ \/ \E creator \in Wallets : CreateSplitter(creator)
        \/ \E p \in PDAs :
             SetSplitterAdmin(p) \/ RevokeSplitterAdmin(p) \/ SetSplitterName(p)
        \/ \E from \in Wallets, to \in Address : Transfer(from, to)
     /\ UNCHANGED <<cranks, listed, floor, pledged>>

HistorySpec == HistoryInit /\ [][HistoryNext]_historyVars

(***************************************************************************)
(* Properties.                                                             *)
(***************************************************************************)

\* However often a splitter is cranked, with whatever amounts in between and
\* the dust of every crank offered again in the next, a recipient has received
\* its share of all that was offered, less at most one lamport for each of its
\* slots and each distribution.
NobodyFallsBehind ==
  \A p \in PDAs, a \in Address : Initialized(p) /\ a # p =>
    LET rs == splitter[p].recipients
        t  == listed[p][a] IN
    ShareOf(rs, a) * t.offered <= TOTAL_SHARES * (t.got + t.cranks * SlotsOf(rs, a))

\* Nobody gains by the rounding of the others, by a second slot or by being
\* paid first: a recipient never has more than its share of what was offered.
NobodyRunsAhead ==
  \A p \in PDAs, a \in Address : Initialized(p) /\ a # p =>
    LET t == listed[p][a] IN
    TOTAL_SHARES * t.got <= ShareOf(splitter[p].recipients, a) * t.offered

\* "Guaranteed minimum rate" (README.md), over any number of distributions and
\* of lists that keep the recipient: since it raised its floor it has received
\* the floor's part of all that was offered, less a lamport a distribution.
FloorRateKept ==
  \A p \in PDAs, a \in Address : Initialized(p) /\ a # p =>
    LET t == pledged[p][a] IN
    floor[p][a] * t.offered <= TOTAL_SHARES * (t.got + t.cranks)

\* Whoever adds up the Distribution events of a splitter (events.rs) finds for
\* every recipient what its balance gained, over any number of distributions,
\* with an address in several slots and slots that were due nothing.  What a
\* splitter pays to itself is reported too, and moves nothing.
EventsTell ==
  \A p \in PDAs, a \in Address : Initialized(p) /\ a # p =>
    listed[p][a].got = listed[p][a].reported

=============================================================================
