--------------------------- MODULE SplitAgreement ---------------------------
(***************************************************************************)
(* What a splitter promises, without slots, lists or signatures: who may   *)
(* change the agreement, which part of the income every address has, and   *)
(* the floor below which that part does not fall while it lasts.           *)
(***************************************************************************)
EXTENDS Naturals, Functions

CONSTANTS Splitters, Addresses, Nobody, Unopened, Whole

VARIABLE agreement

Agreements == [admin : Addresses, share : [Addresses -> 0..Whole],
               floor : [Addresses -> 0..Whole]]

Sound(g) == /\ g \in Agreements
            /\ SumFunction(g.share) = Whole
            /\ \A a \in Addresses : g.floor[a] <= g.share[a]

Only(s, new) == agreement' = [agreement EXCEPT ![s] = new]

\* An agreement opens without floors.
Open(s) ==
  /\ agreement[s] = Unopened
  /\ Sound(agreement'[s])
  /\ \A a \in Addresses : agreement'[s].floor[a] = 0
  /\ Only(s, agreement'[s])

\* The parts change together.  Whoever keeps a part keeps the floor; whoever
\* loses the part loses the floor with it.
Renegotiate(s) ==
  LET old == agreement[s]
      new == agreement'[s] IN
  /\ old # Unopened /\ old.admin # Nobody
  /\ Sound(new)
  /\ new.admin = old.admin
  /\ \A a \in Addresses : new.floor[a] = IF new.share[a] > 0 THEN old.floor[a] ELSE 0
  /\ Only(s, new)

\* The admin hands over, perhaps to nobody, and then for good.
HandOver(s) ==
  /\ agreement[s] # Unopened /\ agreement[s].admin # Nobody
  /\ \E key \in Addresses : Only(s, [agreement[s] EXCEPT !.admin = key])

\* A party raises its own floor up to its part; nobody lowers it.
RaiseFloor(s, a) ==
  /\ agreement[s] # Unopened
  /\ \E floor \in (agreement[s].floor[a] + 1)..agreement[s].share[a] :
       Only(s, [agreement[s] EXCEPT !.floor[a] = floor])

Init == agreement = [s \in Splitters |-> Unopened]

Next == \E s \in Splitters :
          \/ Open(s) \/ Renegotiate(s) \/ HandOver(s)
          \/ \E a \in Addresses : RaiseFloor(s, a)

Spec == Init /\ [][Next]_agreement

=============================================================================
