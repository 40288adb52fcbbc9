------------------------- MODULE SplitterStateProofs -------------------------
(***************************************************************************)
(* Facts about the operators of SplitterState: the list lookups, the       *)
(* arithmetic of a distribution, and that every list and name a handler    *)
(* writes is one the other handlers can rely on.                           *)
(***************************************************************************)
EXTENDS SplitterState, SumsProofs, SequenceTheorems

(***************************************************************************)
(* Lists of recipients.                                                    *)
(***************************************************************************)

\* The first slot that names a listed address names it, and no earlier one
\* does.
LEMMA FirstSlotDef ==
  ASSUME NEW rs \in Seq(Recipient), NEW a \in Listed(rs)
  PROVE  /\ FirstSlot(rs, a) \in 1..Len(rs)
         /\ rs[FirstSlot(rs, a)].address = a
         /\ \A j \in 1..(FirstSlot(rs, a) - 1) : rs[j].address # a
<1> DEFINE T == {i \in 1..Len(rs) : rs[i].address = a}
<1>1. T \in SUBSET Nat /\ T # {}
  BY DEF Listed
<1>2. PICK m \in T : \A k \in T : m <= k
  BY <1>1, LeastNatural
<1>3. /\ m \in 1..Len(rs) /\ rs[m].address = a
      /\ \A j \in 1..(m - 1) : rs[j].address # a
  <2>1. m \in 1..Len(rs) /\ rs[m].address = a
    OBVIOUS
  <2>2. ASSUME NEW j \in 1..(m - 1), rs[j].address = a PROVE FALSE
    <3>1. j \in T /\ j < m
      BY <2>1, <2>2
    <3> QED
      BY <1>2, <2>1, <3>1
  <2> QED
    BY <2>1, <2>2
<1> HIDE DEF T
<1> QED
  BY <1>3, Zenon DEF FirstSlot

\* A list a splitter may hold.
GoodList(rs) ==
  /\ rs \in Seq(Recipient)
  /\ Len(rs) <= MAX_RECIPIENTS
  /\ Total(Shares(rs)) = TOTAL_SHARES
  /\ \A i \in 1..Len(rs) :
       /\ rs[i].share > 0
       /\ rs[i].locked_share <= rs[i].share
       /\ rs[i].locked_share <= LockOf(rs, rs[i].address)

\* The shares of a list are a sequence of naturals.
LEMMA SharesType ==
  ASSUME NEW rs, Len(rs) \in Nat, \A i \in 1..Len(rs) : rs[i].share \in Nat
  PROVE  /\ Shares(rs) \in Seq(Nat) /\ Len(Shares(rs)) = Len(rs)
         /\ \A i \in 1..Len(rs) : Shares(rs)[i] = rs[i].share
<1>1. [i \in 1..Len(rs) |-> rs[i].share] \in [1..Len(rs) -> Nat]
  OBVIOUS
<1>2. Shares(rs) \in [1..Len(rs) -> Nat]
  BY <1>1 DEF Shares
<1>3. Shares(rs) \in Seq(Nat) /\ Len(Shares(rs)) = Len(rs)
  BY <1>2
<1> QED
  BY <1>3 DEF Shares

(***************************************************************************)
(* The arithmetic of a distribution.                                       *)
(***************************************************************************)

\* One payout is the share's part of the amount, rounded down.
LEMMA PayoutRoundsDown ==
  ASSUME NEW d \in Nat, NEW s \in Nat
  PROVE  /\ Payout(d, s) \in Nat
         /\ TOTAL_SHARES * Payout(d, s) <= d * s
         /\ d * s <= TOTAL_SHARES * Payout(d, s) + (TOTAL_SHARES - 1)
<1>1. d * s \in Nat
  BY ProductNat
<1> DEFINE x == d * s
<1>2. x \in Nat
  BY <1>1
<1> HIDE DEF x
<1>3. /\ x \div TOTAL_SHARES \in Nat
      /\ TOTAL_SHARES * (x \div TOTAL_SHARES) <= x
      /\ x <= TOTAL_SHARES * (x \div TOTAL_SHARES) + (TOTAL_SHARES - 1)
  BY <1>2, DivisionRoundsDown, LimitsAreNat
<1> QED
  BY <1>3 DEF Payout, x

\* The payouts of a list that shares 100% never exceed the amount, so the
\* splitter's lamports do not underflow, and they leave less than one lamport
\* per slot.
LEMMA PayoutsBounded ==
  ASSUME NEW rs, Len(rs) \in Nat \ {0}, \A i \in 1..Len(rs) : rs[i].share \in Nat,
         Total(Shares(rs)) = TOTAL_SHARES, NEW d \in Nat
  PROVE  /\ Total(Payouts(rs, d)) \in Nat
         /\ Total(Payouts(rs, d)) <= d
         /\ d < Total(Payouts(rs, d)) + Len(rs)
<1> DEFINE f == Shares(rs)
           g == Payouts(rs, d)
           T == TOTAL_SHARES
           P == Total(g)
           n == Len(rs)
<1>1. f \in Seq(Nat) /\ Len(f) = n /\ \A i \in 1..n : f[i] = rs[i].share
  BY SharesType
<1>2. \A i \in 1..n : /\ Payout(d, rs[i].share) \in Nat
                      /\ T * Payout(d, rs[i].share) <= d * rs[i].share
                      /\ d * rs[i].share <= T * Payout(d, rs[i].share) + (T - 1)
  BY PayoutRoundsDown
<1>3. g \in Seq(Nat) /\ Len(g) = n /\ \A i \in 1..n : g[i] = Payout(d, rs[i].share)
  <2>1. [i \in 1..n |-> Payout(d, rs[i].share)] \in [1..n -> Nat]
    BY <1>2
  <2>2. g \in [1..n -> Nat]
    BY <2>1 DEF Payouts
  <2>3. g \in Seq(Nat) /\ Len(g) = n
    BY <2>2
  <2> QED
    BY <2>3 DEF Payouts
<1>4. \A i \in 1..n : T * g[i] <= d * f[i] + 0 /\ d * f[i] <= T * g[i] + (T - 1)
  <2>1. TAKE i \in 1..n
  <2>2. g[i] = Payout(d, rs[i].share) /\ f[i] = rs[i].share
    BY <1>1, <1>3
  <2>3. T * g[i] <= d * f[i] /\ d * f[i] <= T * g[i] + (T - 1)
    BY <1>2, <2>2, Zenon
  <2>4. d * f[i] \in Nat
    BY <1>1, ProductNat
  <2> DEFINE x == d * f[i]  y == T * g[i]
  <2> HIDE DEF x, y
  <2>5. x \in Nat => x + 0 = x
    OBVIOUS
  <2> QED
    BY <2>3, <2>4, <2>5, Zenon DEF x
<1>5. T \in Nat \ {0} /\ T - 1 \in Nat /\ P \in Nat /\ Total(f) = T /\ n \in Nat \ {0}
  BY LimitsAreNat, <1>3, TotalNat
<1> HIDE DEF f, g, T, P, n
<1>6. T * P <= d * T + 0 * n
  <2>1. T * Total(g) <= d * Total(f) + 0 * Len(f)
    BY <1>1, <1>3, <1>4, <1>5, TotalLinear
  <2> QED
    BY <1>1, <1>5, <2>1 DEF P
<1>7. d * T <= T * P + (T - 1) * n
  <2>1. d * Total(f) <= T * Total(g) + (T - 1) * Len(g)
    BY <1>1, <1>3, <1>4, <1>5, TotalLinear
  <2> QED
    BY <1>3, <1>5, <2>1 DEF P
<1>8. P <= d
  <2>1. T * P <= T * d
    <3>1. d * T = T * d /\ 0 * n = 0 /\ T * d \in Nat
      BY <1>5, ProductCommutes, ProductNat
    <3> QED
      BY <1>6, <3>1
  <2> QED
    BY <1>5, <2>1, CancelFactor
<1>9. d < P + n
  <2>1. SUFFICES ASSUME P + n <= d PROVE FALSE
    BY <1>5
  <2>2. T * (P + n) <= T * d
    BY <1>5, <2>1, ProductMonotone
  <2>3. T * (P + n) = T * P + T * n
    BY <1>5, ProductOfSum
  <2>4. n * T = n * (T - 1) + n * 1
    <3>1. (T - 1) + 1 = T /\ 1 \in Nat
      BY <1>5
    <3>2. n * ((T - 1) + 1) = n * (T - 1) + n * 1
      BY <1>5, ProductOfSum
    <3> QED
      BY <3>1, <3>2
  <2>5. T * n = (T - 1) * n + n
    BY <1>5, <2>4, ProductCommutes
  <2> DEFINE tp == T * P  td == T * d  tn == T * n  kn == (T - 1) * n
  <2>6. tp \in Nat /\ td \in Nat /\ tn \in Nat /\ kn \in Nat
    BY <1>5, ProductNat
  <2>7. td <= tp + kn
    BY <1>5, <1>7, ProductCommutes
  <2>8. tp + tn <= td /\ tn = kn + n
    BY <2>2, <2>3, <2>5
  <2> HIDE DEF tp, td, tn, kn
  <2> QED
    BY <1>5, <2>6, <2>7, <2>8
<1> QED
  BY <1>5, <1>8, <1>9 DEF P, g, n

\* What an address is paid is a natural, and at least the payout of any slot
\* that names it.
LEMMA PaidToAtLeast ==
  ASSUME NEW rs, Len(rs) \in Nat, \A i \in 1..Len(rs) : rs[i].share \in Nat,
         NEW d \in Nat, NEW a
  PROVE  /\ PaidTo(rs, d, a) \in Nat
         /\ \A i \in 1..Len(rs) : rs[i].address = a =>
              Payout(d, rs[i].share) <= PaidTo(rs, d, a)
<1> DEFINE n == Len(rs)
           h == [i \in 1..n |->
                  IF rs[i].address = a THEN Payout(d, rs[i].share) ELSE 0]
<1>1. \A i \in 1..n : Payout(d, rs[i].share) \in Nat
  BY PayoutRoundsDown
<1>2. h \in [1..n -> Nat]
  BY <1>1
<1>3. h \in Seq(Nat) /\ Len(h) = n
  BY <1>2
<1>4. PaidTo(rs, d, a) = Total(h)
  BY DEF PaidTo
<1>5. ASSUME NEW i \in 1..n, rs[i].address = a
      PROVE  h[i] = Payout(d, rs[i].share)
  BY <1>5
<1> HIDE DEF h
<1>6. Total(h) \in Nat /\ \A i \in 1..n : h[i] <= Total(h)
  BY <1>3, TotalNat, ElementWithinTotal
<1> QED
  BY <1>4, <1>5, <1>6

\* A list names addresses.
LEMMA GoodListAddresses ==
  ASSUME NEW rs, GoodList(rs), NEW a \in Listed(rs)
  PROVE  a \in Address
<1>1. \A i \in 1..Len(rs) : rs[i] \in Recipient
  BY ElementOfSeq DEF GoodList
<1> QED
  BY <1>1 DEF Listed, Recipient

\* A list a splitter holds has a slot, since its shares total 100%.
LEMMA StoredListTypes ==
  ASSUME NEW rs, GoodList(rs)
  PROVE  /\ rs # << >> /\ Len(rs) \in Nat \ {0}
         /\ \A i \in 1..Len(rs) : rs[i].share \in Nat
<1>1. rs \in Seq(Recipient) /\ \A i \in 1..Len(rs) : rs[i] \in Recipient
  BY ElementOfSeq DEF GoodList
<1>2. Len(rs) \in Nat /\ \A i \in 1..Len(rs) : rs[i].share \in Nat
  BY <1>1 DEF Recipient
<1>3. ASSUME Len(rs) = 0 PROVE FALSE
  <2>1. Shares(rs) \in Seq(Nat) /\ Len(Shares(rs)) = 0
    BY <1>2, <1>3, SharesType
  <2>2. Total(Shares(rs)) = 0
    <3> DEFINE f == Shares(rs)
    <3>1. f \in Seq(Nat) /\ \A i \in 1..Len(f) : f[i] = 0
      BY <2>1
    <3> HIDE DEF f
    <3>2. Total(f) = 0
      BY <3>1, TotalOfZeros
    <3> QED
      BY <3>2 DEF f
  <2> QED
    BY <2>2, LimitsAreNat DEF GoodList
<1> QED
  BY <1>1, <1>2, <1>3

\* The events of a distribution report what every address is due: the slots
\* without an event are due nothing.
LEMMA ReportedIsDue ==
  ASSUME NEW rs, GoodList(rs), NEW d \in Nat, NEW a
  PROVE  Reported(rs, d, a) = PaidTo(rs, d, a)
<1> DEFINE es == Events(rs, d)
           f == [i \in 1..Len(rs) |->
                   IF i \in DOMAIN es /\ es[i].recipient = a THEN es[i].amount ELSE 0]
           g == [i \in 1..Len(rs) |->
                   IF rs[i].address = a THEN Payout(d, rs[i].share) ELSE 0]
<1>1. ASSUME NEW i \in 1..Len(rs) PROVE f[i] = g[i]
  <2>1. Payout(d, rs[i].share) \in Nat
    BY StoredListTypes, PayoutRoundsDown
  <2>2. CASE Payout(d, rs[i].share) > 0
    BY <2>2 DEF Events
  <2>3. CASE Payout(d, rs[i].share) = 0
    BY <2>3 DEF Events
  <2> QED
    BY <2>1, <2>2, <2>3
<1>2. f = g
  BY <1>1
<1> QED
  BY <1>2 DEF Reported, PaidTo

\* A recipient is due at least what its floor alone would be due.
LEMMA FloorWithinPaid ==
  ASSUME NEW rs, GoodList(rs), NEW d \in Nat, NEW a \in Listed(rs)
  PROVE  /\ PaidTo(rs, d, a) \in Nat
         /\ Payout(d, LockOf(rs, a)) <= PaidTo(rs, d, a)
<1> DEFINE k == FirstSlot(rs, a)
<1>1. k \in 1..Len(rs) /\ rs[k].address = a
  BY FirstSlotDef DEF GoodList
<1>2. LockOf(rs, a) = rs[k].locked_share
  BY DEF LockOf
<1> HIDE DEF k
<1>3. /\ Len(rs) \in Nat
      /\ \A i \in 1..Len(rs) : rs[i].share \in Nat /\ rs[i].locked_share \in Nat
  <2>1. \A i \in 1..Len(rs) : rs[i] \in Recipient
    BY ElementOfSeq DEF GoodList
  <2> QED
    BY <2>1 DEF Recipient, GoodList
<1>4. rs[k].locked_share <= rs[k].share
  BY <1>1 DEF GoodList
<1>5. PaidTo(rs, d, a) \in Nat /\ Payout(d, rs[k].share) <= PaidTo(rs, d, a)
  BY <1>1, <1>3, PaidToAtLeast
<1>6. Payout(d, rs[k].locked_share) <= Payout(d, rs[k].share)
  <2> DEFINE x == d * rs[k].locked_share  z == d * rs[k].share
  <2>1. x \in Nat /\ z \in Nat /\ x <= z
    BY <1>1, <1>3, <1>4, ProductNat, ProductMonotone
  <2> HIDE DEF x, z
  <2>2. x \div TOTAL_SHARES <= z \div TOTAL_SHARES
    BY <2>1, DivisionMonotone, LimitsAreNat
  <2> QED
    BY <2>2 DEF Payout, x, z
<1>7. Payout(d, rs[k].locked_share) \in Nat /\ Payout(d, rs[k].share) \in Nat
  BY <1>1, <1>3, PayoutRoundsDown
<1> QED
  BY <1>2, <1>5, <1>6, <1>7

\* What two addresses are due together is within the payouts.
LEMMA PaidToTwo ==
  ASSUME NEW rs, GoodList(rs), NEW d \in Nat, NEW a, NEW b, a # b
  PROVE  /\ PaidTo(rs, d, a) \in Nat /\ PaidTo(rs, d, b) \in Nat
         /\ PaidTo(rs, d, a) + PaidTo(rs, d, b) <= Total(Payouts(rs, d))
<1> DEFINE n    == Len(rs)
           due  == Payouts(rs, d)
           f    == [i \in 1..n |-> IF rs[i].address = a THEN Payout(d, rs[i].share) ELSE 0]
           g    == [i \in 1..n |-> IF rs[i].address = b THEN Payout(d, rs[i].share) ELSE 0]
           h    == [i \in 1..n |-> f[i] + g[i]]
<1>1. n \in Nat /\ \A i \in 1..n : Payout(d, rs[i].share) \in Nat
  BY StoredListTypes, PayoutRoundsDown
<1>2. /\ f \in [1..n -> Nat] /\ g \in [1..n -> Nat] /\ due \in [1..n -> Nat]
      /\ \A i \in 1..n : due[i] = Payout(d, rs[i].share)
  BY <1>1 DEF Payouts
<1>3. h \in [1..n -> Nat] /\ \A i \in 1..n : h[i] = f[i] + g[i]
  <2> HIDE DEF f, g
  <2>1. \A i \in 1..n : f[i] + g[i] \in Nat
    BY <1>2
  <2> QED
    BY <2>1
<1>4. \A i \in 1..n : f[i] + g[i] <= due[i]
  BY <1>1, <1>2
<1>5. PaidTo(rs, d, a) = Total(f) /\ PaidTo(rs, d, b) = Total(g)
  BY DEF PaidTo
<1> HIDE DEF n, due, f, g, h
<1>6. /\ f \in Seq(Nat) /\ g \in Seq(Nat) /\ h \in Seq(Nat) /\ due \in Seq(Nat)
      /\ Len(f) = n /\ Len(g) = n /\ Len(h) = n /\ Len(due) = n
  <2>1. \A s \in [1..n -> Nat] : s \in Seq(Nat) /\ Len(s) = n
    BY <1>1
  <2> QED
    BY <1>2, <1>3, <2>1
<1>7. Total(f) \in Nat /\ Total(g) \in Nat /\ Total(h) \in Nat /\ Total(due) \in Nat
  BY <1>6, TotalNat
<1>8. Total(h) = Total(f) + Total(g)
  <2>1. Len(g) = Len(f) /\ Len(h) = Len(f) /\ \A i \in 1..Len(f) : h[i] = f[i] + g[i]
    BY <1>3, <1>6
  <2> QED
    BY <1>6, <2>1, TotalAdds
<1>9. \A i \in 1..n : 1 * h[i] <= 1 * due[i] + 0
  <2>1. TAKE i \in 1..n
  <2>2. h[i] \in Nat /\ due[i] \in Nat /\ h[i] <= due[i]
    BY <1>2, <1>3, <1>4
  <2> QED
    BY <2>2
<1>10. 1 * Total(h) <= 1 * Total(due) + 0 * Len(due)
  BY <1>6, <1>9, TotalLinear
<1>11. Total(h) <= Total(due)
  BY <1>1, <1>6, <1>7, <1>10
<1> QED
  BY <1>5, <1>7, <1>8, <1>11 DEF due

(***************************************************************************)
(* What all addresses have together.                                       *)
(***************************************************************************)

\* There are finitely many addresses.
LEMMA AddressesFinite == IsFiniteSet(PDAs) /\ IsFiniteSet(Address)
<1>1. PDAs = Wallets \X Nonces
  BY DEF PDAs, SplitterPDA
<1>2. IsFiniteSet(PDAs)
  BY <1>1, KeysAreFinite, FS_Product
<1>3. IsFiniteSet(Wallets \cup PDAs) /\ IsFiniteSet({Default})
  BY <1>2, KeysAreFinite, FS_Union, FS_Singleton
<1>4. IsFiniteSet((Wallets \cup PDAs) \cup {Default})
  BY <1>3, FS_Union
<1> QED
  BY <1>2, <1>4 DEF Address

\* The addresses are paid together what the slots are due together: duplicate
\* slots are counted once each, and nothing is due to an address not listed.
LEMMA PaidToAddsUp ==
  ASSUME NEW rs, GoodList(rs), NEW d \in Nat,
         NEW f, \A a \in Address : f[a] = PaidTo(rs, d, a)
  PROVE  SumFunctionOnSet(f, Address) = Total(Payouts(rs, d))
<1> DEFINE s == Payouts(rs, d)
           address == [i \in 1..Len(rs) |-> rs[i].address]
<1>1. /\ Len(rs) \in Nat
      /\ \A i \in 1..Len(rs) : rs[i].share \in Nat /\ rs[i].address \in Address
  <2>1. \A i \in 1..Len(rs) : rs[i] \in Recipient
    BY ElementOfSeq DEF GoodList
  <2> QED
    BY <2>1 DEF GoodList, Recipient
<1>2. \A i \in 1..Len(rs) : Payout(d, rs[i].share) \in Nat
  BY <1>1, PayoutRoundsDown
<1>3. s \in [1..Len(rs) -> Nat] /\ \A i \in 1..Len(rs) : s[i] = Payout(d, rs[i].share)
  BY <1>2 DEF Payouts
<1>4. s \in Seq(Nat) /\ Len(s) = Len(rs)
  BY <1>1, <1>3
<1>5. \A i \in 1..Len(s) : address[i] \in Address
  BY <1>1, <1>4
<1>6. ASSUME NEW a \in Address PROVE f[a] = Total(PartOf(address, s, a))
  <2>1. PartOf(address, s, a) =
          [i \in 1..Len(rs) |-> IF rs[i].address = a THEN Payout(d, rs[i].share) ELSE 0]
    BY <1>3, <1>4 DEF PartOf
  <2> QED
    BY <2>1 DEF PaidTo
<1> HIDE DEF s, address
<1>7. SumFunctionOnSet(f, Address) = Total(s)
  BY <1>4, <1>5, <1>6, AddressesFinite, SumOfParts
<1> QED
  BY <1>7 DEF s

\* The shares of all addresses are the shares of all slots: 100%.
LEMMA SharesAddUp ==
  ASSUME NEW rs, GoodList(rs), NEW f, \A a \in Address : f[a] = ShareOf(rs, a)
  PROVE  SumFunctionOnSet(f, Address) = TOTAL_SHARES
<1> DEFINE s == Shares(rs)
           address == [i \in 1..Len(rs) |-> rs[i].address]
<1>1. /\ Len(rs) \in Nat /\ Total(s) = TOTAL_SHARES
      /\ \A i \in 1..Len(rs) : rs[i].share \in Nat /\ rs[i].address \in Address
  <2>1. \A i \in 1..Len(rs) : rs[i] \in Recipient
    BY ElementOfSeq DEF GoodList
  <2> QED
    BY <2>1 DEF GoodList, Recipient
<1>2. s \in Seq(Nat) /\ Len(s) = Len(rs) /\ \A i \in 1..Len(rs) : s[i] = rs[i].share
  BY <1>1, SharesType
<1>3. \A i \in 1..Len(s) : address[i] \in Address
  BY <1>1, <1>2
<1>4. ASSUME NEW a \in Address PROVE f[a] = Total(PartOf(address, s, a))
  <2>1. PartOf(address, s, a) =
          [i \in 1..Len(rs) |-> IF rs[i].address = a THEN rs[i].share ELSE 0]
    BY <1>2 DEF PartOf
  <2> QED
    BY <2>1 DEF ShareOf
<1> HIDE DEF s, address
<1>5. SumFunctionOnSet(f, Address) = Total(s)
  BY <1>2, <1>3, <1>4, AddressesFinite, SumOfParts
<1> QED
  BY <1>1, <1>5

(***************************************************************************)
(* The lists the handlers write.                                           *)
(***************************************************************************)

\* A list with the same addresses has the same first slots.
LEMMA SameFirstSlot ==
  ASSUME NEW rs, NEW ts, NEW a, Len(ts) = Len(rs),
         \A i \in 1..Len(rs) : ts[i].address = rs[i].address
  PROVE  Listed(ts) = Listed(rs) /\ FirstSlot(ts, a) = FirstSlot(rs, a)
<1>1. Listed(ts) = Listed(rs)
  BY DEF Listed
<1>2. \A i \in 1..Len(rs) :
        (/\ ts[i].address = a /\ \A j \in 1..(i-1) : ts[j].address # a)
        <=> (/\ rs[i].address = a /\ \A j \in 1..(i-1) : rs[j].address # a)
  OBVIOUS
<1>3. FirstSlot(ts, a) = FirstSlot(rs, a)
  BY <1>2, Zenon DEF FirstSlot
<1> QED
  BY <1>1, <1>3

\* The list of a new splitter: everything to the creator.
LEMMA NewListGood ==
  ASSUME NEW creator \in Wallets
  PROVE  GoodList(<<[address |-> creator, share |-> TOTAL_SHARES, locked_share |-> 0]>>)
<1> DEFINE rs == <<[address |-> creator, share |-> TOTAL_SHARES, locked_share |-> 0]>>
<1>1. rs \in Seq(Recipient) /\ Len(rs) = 1 /\ rs[1].share = TOTAL_SHARES
      /\ rs[1].locked_share = 0 /\ rs[1].address = creator
  BY LimitsAreNat DEF Recipient, Address
<1> HIDE DEF rs
<1>2. Shares(rs) \in Seq(Nat) /\ Len(Shares(rs)) = 1 /\ Shares(rs)[1] = TOTAL_SHARES
  BY <1>1, SharesType, LimitsAreNat
<1>3. Total(Shares(rs)) = TOTAL_SHARES
  <2>1. /\ RunningTotals(Shares(rs))[0] = 0
        /\ RunningTotals(Shares(rs))[1] = RunningTotals(Shares(rs))[1-1] + Shares(rs)[1]
    BY <1>2, RunningTotalsDef
  <2> QED
    BY <1>2, <2>1, LimitsAreNat DEF Total
<1>4. LockOf(rs, creator) = 0
  <2>1. creator \in Listed(rs)
    BY <1>1 DEF Listed
  <2>2. FirstSlot(rs, creator) \in 1..1
    BY <1>1, <2>1, FirstSlotDef
  <2>3. FirstSlot(rs, creator) = 1
    BY <2>2
  <2> QED
    BY <1>1, <2>1, <2>3 DEF LockOf
<1>5. \A i \in 1..1 : i = 1
  OBVIOUS
<1> QED
  BY <1>1, <1>3, <1>4, <1>5, LimitsAreNat DEF GoodList, rs

\* SetSplitterDistribution stores a list that meets its own floors.
LEMMA StoredListGood ==
  ASSUME NEW old, GoodList(old), NEW rs \in Seq(Entry),
         ValidList(rs), RespectsLocks(old, rs)
  PROVE  GoodList(StoredList(old, rs))
<1> DEFINE n == Len(rs)
           L(i) == LockOf(old, rs[i].address)
           ts == [i \in 1..n |-> WithLock(rs[i], L(i))]
<1>0. /\ Len(rs) <= MAX_RECIPIENTS /\ Total(Shares(rs)) = TOTAL_SHARES
      /\ \A i \in 1..Len(rs) : rs[i].share # 0
  BY DEF ValidList
<1>1. n \in Nat /\ \A i \in 1..n : rs[i].address \in Address /\ rs[i].share \in Nat
  <2>1. \A i \in 1..n : rs[i] \in Entry
    BY ElementOfSeq
  <2> QED
    BY <2>1 DEF Entry
<1>2. ASSUME NEW i \in 1..n PROVE L(i) \in Nat /\ L(i) <= rs[i].share
  <2>1. CASE rs[i].address \in Listed(old)
    <3> DEFINE k == FirstSlot(old, rs[i].address)
    <3>1. k \in 1..Len(old) /\ old[k].address = rs[i].address
      BY <2>1, FirstSlotDef DEF GoodList
    <3>2. L(i) = old[k].locked_share
      BY <2>1 DEF LockOf
    <3> HIDE DEF k, L
    <3>3. old[k] \in Recipient
      BY <3>1, ElementOfSeq DEF GoodList
    <3>4. old[k].locked_share \in Nat
      BY <3>3 DEF Recipient
    <3>5. rs[i].share >= old[k].locked_share
      BY <3>1 DEF RespectsLocks
    <3> QED
      BY <1>1, <3>2, <3>4, <3>5
  <2>2. CASE rs[i].address \notin Listed(old)
    BY <1>1, <2>2 DEF LockOf
  <2> QED
    BY <2>1, <2>2
<1> HIDE DEF L
<1>3. \A i \in 1..n : /\ ts[i].address = rs[i].address /\ ts[i].share = rs[i].share
                      /\ ts[i].locked_share = L(i)
                      /\ ts[i] \in Recipient
  BY <1>1, <1>2 DEF WithLock, Recipient
<1>4. ts \in Seq(Recipient) /\ Len(ts) = n
  <2>1. ts \in [1..n -> Recipient]
    <3>1. \A i \in 1..n : WithLock(rs[i], L(i)) \in Recipient
      BY <1>3
    <3> QED
      BY <3>1
  <2> HIDE DEF ts
  <2> QED
    BY <1>1, <2>1
<1> HIDE DEF ts
<1>5. Total(Shares(ts)) = TOTAL_SHARES
  <2>1. Shares(ts) = Shares(rs)
    BY <1>3, <1>4 DEF Shares
  <2> QED
    BY <1>0, <2>1
<1>6. ASSUME NEW i \in 1..n PROVE ts[i].locked_share = LockOf(ts, ts[i].address)
  <2> DEFINE a == rs[i].address
             k == FirstSlot(ts, a)
  <2>1. a \in Listed(ts) /\ ts[i].address = a
    BY <1>3, <1>4 DEF Listed
  <2>2. k \in 1..n /\ ts[k].address = a
    BY <1>4, <2>1, FirstSlotDef
  <2>3. LockOf(ts, ts[i].address) = ts[k].locked_share
    BY <2>1 DEF LockOf
  <2>4. ts[k].locked_share = LockOf(old, a) /\ ts[i].locked_share = LockOf(old, a)
    BY <1>3, <2>2 DEF L
  <2> QED
    BY <2>3, <2>4
<1>7. \A i \in 1..n : /\ ts[i].share > 0 /\ ts[i].locked_share <= ts[i].share
                      /\ ts[i].locked_share <= LockOf(ts, ts[i].address)
  <2>1. TAKE i \in 1..n
  <2>2. /\ ts[i].share = rs[i].share /\ ts[i].locked_share = L(i)
        /\ L(i) \in Nat /\ L(i) <= rs[i].share /\ rs[i].share \in Nat /\ rs[i].share # 0
    BY <1>0, <1>1, <1>2, <1>3
  <2>3. ts[i].locked_share = LockOf(ts, ts[i].address)
    BY <1>6
  <2> QED
    BY <2>2, <2>3
<1>8. GoodList(ts)
  BY <1>0, <1>4, <1>5, <1>7 DEF GoodList
<1> QED
  BY <1>8 DEF ts, L, StoredList

\* A stored list carries every floor of the previous list over.
LEMMA StoredListLocks ==
  ASSUME NEW old, GoodList(old), NEW rs \in Seq(Entry),
         ValidList(rs), RespectsLocks(old, rs),
         NEW a \in Listed(StoredList(old, rs))
  PROVE  LockOf(StoredList(old, rs), a) = LockOf(old, a)
<1> DEFINE ts == StoredList(old, rs)
           k  == FirstSlot(ts, a)
<1>1. ts \in Seq(Recipient)
  BY StoredListGood DEF StoredList, GoodList
<1>2. k \in 1..Len(ts) /\ ts[k].address = a
  BY <1>1, FirstSlotDef
<1>3. Len(ts) = Len(rs)
  BY DEF StoredList
<1>4. ts[k] = WithLock(rs[k], LockOf(old, rs[k].address))
  BY <1>2, <1>3 DEF StoredList
<1>5. ts[k].locked_share = LockOf(old, a)
  BY <1>2, <1>4 DEF WithLock
<1> QED
  BY <1>5 DEF LockOf

\* LockRecipient raises a floor up to the share, and only one floor.
LEMMA LockedListGood ==
  ASSUME NEW rs, GoodList(rs), NEW a \in Listed(rs), NEW m \in Nat,
         Lockable(rs[FirstSlot(rs, a)], m)
  PROVE  LET k  == FirstSlot(rs, a)
             ts == [rs EXCEPT ![k] = WithLock(rs[k], m)]
         IN  /\ GoodList(ts)
             /\ Len(ts) = Len(rs)
             /\ \A i \in 1..Len(rs) :
                  /\ ts[i].address = rs[i].address /\ ts[i].share = rs[i].share
                  /\ ts[i].locked_share = IF i = k THEN m ELSE rs[i].locked_share
<1> DEFINE k  == FirstSlot(rs, a)
           n  == Len(rs)
           ts == [rs EXCEPT ![k] = WithLock(rs[k], m)]
<1>1. rs \in Seq(Recipient) /\ n \in Nat /\ n <= MAX_RECIPIENTS
  BY DEF GoodList
<1>2. k \in 1..n /\ rs[k].address = a
  BY <1>1, FirstSlotDef
<1>3. m <= rs[k].share /\ m > rs[k].locked_share
  BY DEF Lockable
<1> HIDE DEF k
<1>4. \A i \in 1..n : rs[i] \in Recipient
  BY <1>1, ElementOfSeq
<1>5. /\ WithLock(rs[k], m) \in Recipient
      /\ WithLock(rs[k], m).address = rs[k].address
      /\ WithLock(rs[k], m).share = rs[k].share
      /\ WithLock(rs[k], m).locked_share = m
  <2>1. rs[k].address \in Address /\ rs[k].share \in Nat
    BY <1>2, <1>4 DEF Recipient
  <2> QED
    BY <2>1 DEF WithLock, Recipient
<1>6. /\ ts \in Seq(Recipient) /\ Len(ts) = n
      /\ \A i \in 1..n : ts[i] = IF i = k THEN WithLock(rs[k], m) ELSE rs[i]
  BY <1>1, <1>2, <1>5, ExceptSeq
<1> HIDE DEF ts
<1>7. \A i \in 1..n : /\ ts[i].address = rs[i].address /\ ts[i].share = rs[i].share
                      /\ ts[i].locked_share = IF i = k THEN m ELSE rs[i].locked_share
  BY <1>5, <1>6
<1>8. Total(Shares(ts)) = TOTAL_SHARES
  <2>1. Shares(ts) = Shares(rs)
    BY <1>6, <1>7 DEF Shares
  <2> QED
    BY <2>1 DEF GoodList
<1>9. ASSUME NEW i \in 1..n
      PROVE  /\ ts[i].share > 0 /\ ts[i].locked_share <= ts[i].share
             /\ ts[i].locked_share <= LockOf(ts, ts[i].address)
  <2> DEFINE b == rs[i].address
             j == FirstSlot(rs, b)
  <2>1. b \in Listed(rs)
    BY DEF Listed
  <2>2. j \in 1..n /\ rs[j].address = b
    BY <1>1, <2>1, FirstSlotDef
  <2>3. LockOf(rs, b) = rs[j].locked_share
    BY <2>1 DEF LockOf
  <2>4. b = a => j = k
    BY DEF k
  <2>5. LockOf(ts, ts[i].address) = ts[j].locked_share
    <3>1. Listed(ts) = Listed(rs) /\ FirstSlot(ts, b) = j
      BY <1>6, <1>7, SameFirstSlot
    <3>2. ts[i].address = b
      BY <1>7
    <3> QED
      BY <2>1, <3>1, <3>2 DEF LockOf
  <2>6. rs[i] \in Recipient /\ rs[j] \in Recipient /\ rs[k] \in Recipient
    BY <1>2, <1>4, <2>2
  <2>7. /\ rs[i].locked_share \in Nat /\ rs[j].locked_share \in Nat
        /\ rs[k].locked_share \in Nat /\ rs[i].share \in Nat
    BY <2>6 DEF Recipient
  <2> HIDE DEF j, b
  <2>8. rs[i].share > 0 /\ rs[i].locked_share <= rs[i].share
        /\ rs[i].locked_share <= rs[j].locked_share
    BY <2>3 DEF GoodList, b
  <2>9. CASE i = k
    <3>1. j = k
      BY <1>2, <2>4, <2>9 DEF b
    <3> QED
      BY <1>3, <1>7, <2>2, <2>5, <2>8, <2>9, <3>1
  <2>10. CASE i # k
    <3>1. ts[i].locked_share = rs[i].locked_share /\ ts[i].share = rs[i].share
      BY <1>7, <2>10
    <3>2. ts[j].locked_share >= rs[j].locked_share
      BY <1>3, <1>7, <2>2, <2>7
    <3>3. ts[j].locked_share \in Nat
      BY <1>7, <2>2, <2>7
    <3> QED
      BY <2>5, <2>7, <2>8, <3>1, <3>2, <3>3
  <2> QED
    BY <2>9, <2>10
<1>10. GoodList(ts)
  BY <1>1, <1>6, <1>8, <1>9 DEF GoodList
<1> QED
  BY <1>6, <1>7, <1>10 DEF ts, k

(***************************************************************************)
(* Names and accounts.                                                     *)
(***************************************************************************)

\* The zeros behind a name.
Padded(s) == \A i \in 1..MAX_NAME_LEN : i > s.name_len => s.name[i] = 0

\* set_name keeps the account well formed, pads the name and leaves the rest.
LEMMA SetNameGood ==
  ASSUME NEW s \in Splitter, NEW name \in Seq(Bytes)
  PROVE  /\ set_name(s, name) \in Splitter
         /\ Padded(set_name(s, name))
         /\ set_name(s, name).recipients = s.recipients
         /\ set_name(s, name).creator = s.creator
         /\ set_name(s, name).nonce = s.nonce
         /\ set_name(s, name).admin = s.admin
<1> DEFINE len == IF Len(name) <= MAX_NAME_LEN THEN Len(name) ELSE MAX_NAME_LEN
           field == [i \in 1..MAX_NAME_LEN |-> IF i <= len THEN name[i] ELSE 0]
<1>1. len \in 0..MAX_NAME_LEN /\ len <= Len(name)
  BY LimitsAreNat
<1>2. field \in [1..MAX_NAME_LEN -> Bytes]
  <2>1. \A i \in 1..MAX_NAME_LEN : i <= len => name[i] \in Bytes
    <3>1. TAKE i \in 1..MAX_NAME_LEN
    <3>2. HAVE i <= len
    <3>3. i \in 1..Len(name)
      BY <1>1, <3>2, LimitsAreNat
    <3> QED
      BY <3>3, ElementOfSeq
  <2> HIDE DEF len
  <2>2. \A i \in 1..MAX_NAME_LEN : (IF i <= len THEN name[i] ELSE 0) \in Bytes
    BY <2>1, LimitsAreNat
  <2> QED
    BY <2>2
<1>3. \A i \in 1..MAX_NAME_LEN : i > len => field[i] = 0
  <2> HIDE DEF len
  <2> QED
    BY <1>1, LimitsAreNat
<1>4. set_name(s, name) = [s EXCEPT !.name = field, !.name_len = len]
  BY DEF set_name
<1> HIDE DEF len, field
<1>5. /\ set_name(s, name) = [creator |-> s.creator, nonce |-> s.nonce, admin |-> s.admin,
                              recipients |-> s.recipients, name |-> field, name_len |-> len]
  BY <1>4 DEF Splitter
<1>6. /\ s.creator \in Wallets /\ s.nonce \in Nonces /\ s.admin \in Address
      /\ s.recipients \in Seq(Recipient)
  BY DEF Splitter
<1> QED
  BY <1>1, <1>2, <1>3, <1>5, <1>6 DEF Splitter, Padded

\* A splitter account every instruction can rely on.
GoodAccount(s) == s \in Splitter /\ GoodList(s.recipients) /\ Padded(s)

\* A new account is good.
LEMMA NewAccountGood ==
  ASSUME NEW creator \in Wallets, NEW nonce \in Nonces, NEW name \in Seq(Bytes)
  PROVE  GoodAccount(NewSplitter(creator, nonce, name))
<1> DEFINE rs == <<[address |-> creator, share |-> TOTAL_SHARES, locked_share |-> 0]>>
           s == [creator |-> creator, nonce |-> nonce, admin |-> creator,
                 recipients |-> rs,
                 name |-> [i \in 1..MAX_NAME_LEN |-> 0], name_len |-> 0]
<1>1. GoodList(rs)
  BY NewListGood
<1> HIDE DEF rs
<1>2. s \in Splitter /\ s.recipients = rs
  <2>1. rs \in Seq(Recipient)
    BY <1>1 DEF GoodList
  <2>2. [i \in 1..MAX_NAME_LEN |-> 0] \in [1..MAX_NAME_LEN -> Bytes]
    BY LimitsAreNat
  <2>3. 0 \in 0..MAX_NAME_LEN /\ creator \in Address
    BY LimitsAreNat DEF Address
  <2> QED
    BY <2>1, <2>2, <2>3 DEF Splitter
<1>3. NewSplitter(creator, nonce, name) = set_name(s, name)
  BY DEF NewSplitter, rs
<1> HIDE DEF s
<1> QED
  BY <1>1, <1>2, <1>3, SetNameGood DEF GoodAccount

\* Replacing the list or the admin of a good account.
LEMMA ReplaceField ==
  ASSUME NEW s, GoodAccount(s)
  PROVE  /\ \A rs : GoodList(rs) => /\ GoodAccount([s EXCEPT !.recipients = rs])
                                    /\ [s EXCEPT !.recipients = rs].recipients = rs
         /\ \A key \in Address : /\ GoodAccount([s EXCEPT !.admin = key])
                                 /\ [s EXCEPT !.admin = key].recipients = s.recipients
<1>1. s \in Splitter /\ GoodList(s.recipients) /\ Padded(s)
  BY DEF GoodAccount
<1>2. ASSUME NEW rs, GoodList(rs)
      PROVE  /\ GoodAccount([s EXCEPT !.recipients = rs])
             /\ [s EXCEPT !.recipients = rs].recipients = rs
  <2>1. rs \in Seq(Recipient)
    BY <1>2 DEF GoodList
  <2> DEFINE t == [s EXCEPT !.recipients = rs]
  <2>2. t \in Splitter /\ t.recipients = rs /\ t.name = s.name /\ t.name_len = s.name_len
    BY <1>1, <2>1 DEF Splitter
  <2> HIDE DEF t
  <2>3. GoodAccount(t)
    BY <1>1, <1>2, <2>2 DEF GoodAccount, Padded
  <2> QED
    BY <2>2, <2>3 DEF t
<1>3. ASSUME NEW key \in Address
      PROVE  /\ GoodAccount([s EXCEPT !.admin = key])
             /\ [s EXCEPT !.admin = key].recipients = s.recipients
  <2> DEFINE t == [s EXCEPT !.admin = key]
  <2>1. t \in Splitter /\ t.recipients = s.recipients /\ t.name = s.name
        /\ t.name_len = s.name_len
    BY <1>1 DEF Splitter
  <2> HIDE DEF t
  <2>2. GoodAccount(t)
    BY <1>1, <2>1 DEF GoodAccount, Padded
  <2> QED
    BY <2>1, <2>2 DEF t
<1> QED
  BY <1>2, <1>3

=============================================================================
