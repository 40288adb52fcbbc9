--------------------------- MODULE HistoryProofs ---------------------------
(***************************************************************************)
(* What the roundings of DistributeSOL come to over any number of          *)
(* distributions, for every list of recipients: the safety of module       *)
(* SplitterHistory.                                                        *)
(***************************************************************************)
EXTENDS SplitterHistory, SplitterProofs

(***************************************************************************)
(* One distribution.                                                       *)
(***************************************************************************)

\* What an address receives of d, against its share and its slots.
LEMMA PaidToBounds ==
  ASSUME NEW rs, Len(rs) \in Nat, \A i \in 1..Len(rs) : rs[i].share \in Nat,
         NEW d \in Nat, NEW a
  PROVE  /\ PaidTo(rs, d, a) \in Nat /\ ShareOf(rs, a) \in Nat /\ SlotsOf(rs, a) \in Nat
         /\ TOTAL_SHARES * PaidTo(rs, d, a) <= d * ShareOf(rs, a)
         /\ d * ShareOf(rs, a) <= TOTAL_SHARES * (PaidTo(rs, d, a) + SlotsOf(rs, a))
<1> DEFINE n == Len(rs)
           f == [i \in 1..n |-> IF rs[i].address = a THEN Payout(d, rs[i].share) ELSE 0]
           g == [i \in 1..n |-> IF rs[i].address = a THEN rs[i].share ELSE 0]
           h == [i \in 1..n |-> IF rs[i].address = a THEN 1 ELSE 0]
           k == [i \in 1..n |-> f[i] + h[i]]
           T == TOTAL_SHARES
<1>1. \A i \in 1..n : /\ Payout(d, rs[i].share) \in Nat
                      /\ T * Payout(d, rs[i].share) <= d * rs[i].share
                      /\ d * rs[i].share <= T * Payout(d, rs[i].share) + (T - 1)
  BY PayoutRoundsDown
<1>2. f \in [1..n -> Nat] /\ g \in [1..n -> Nat] /\ h \in [1..n -> Nat]
  BY <1>1
<1>3. k \in [1..n -> Nat]
  BY <1>2
<1>4. /\ f \in Seq(Nat) /\ g \in Seq(Nat) /\ h \in Seq(Nat) /\ k \in Seq(Nat)
      /\ Len(f) = n /\ Len(g) = n /\ Len(h) = n /\ Len(k) = n
  BY <1>2, <1>3
<1>5. /\ PaidTo(rs, d, a) = Total(f) /\ ShareOf(rs, a) = Total(g)
      /\ SlotsOf(rs, a) = Total(h)
  BY DEF PaidTo, ShareOf, SlotsOf
<1>6. T \in Nat \ {0}
  BY LimitsAreNat
<1>7. \A i \in 1..n : T * f[i] <= d * g[i] + 0 /\ d * g[i] <= T * k[i] + 0
  <2> SUFFICES ASSUME NEW i \in 1..n
               PROVE  T * f[i] <= d * g[i] + 0 /\ d * g[i] <= T * k[i] + 0
    OBVIOUS
  <2>1. CASE rs[i].address = a
    <3> DEFINE q == Payout(d, rs[i].share)
               s == d * rs[i].share
               z == T * q
    <3>1. f[i] = q /\ g[i] = rs[i].share /\ k[i] = q + 1 /\ q \in Nat
      BY <1>1, <2>1
    <3>2. s \in Nat /\ z \in Nat
      BY <1>6, <3>1, ProductNat
    <3>3. z <= s /\ s <= z + (T - 1)
      BY <1>1
    <3>4. T * (q + 1) = z + T * 1
      BY <1>6, <3>1, ProductOfSum
    <3> HIDE DEF q, s, z
    <3>5. z <= s + 0 /\ s <= (z + T * 1) + 0
      BY <1>6, <3>2, <3>3
    <3>6. T * f[i] = z /\ d * g[i] = s /\ T * k[i] = z + T * 1
      BY <3>1, <3>4 DEF s, z
    <3> QED
      BY <3>5, <3>6
  <2>2. CASE rs[i].address # a
    <3>1. f[i] = 0 /\ g[i] = 0 /\ k[i] = 0
      BY <2>2
    <3> QED
      BY <1>6, <3>1
  <2> QED
    BY <2>1, <2>2
<1>8. \A i \in 1..n : k[i] = f[i] + h[i]
  OBVIOUS
<1> HIDE DEF f, g, h, k, T, n
<1>9. /\ Total(f) \in Nat /\ Total(g) \in Nat /\ Total(h) \in Nat /\ n \in Nat
  BY <1>4, TotalNat
<1>10. T * Total(f) <= d * Total(g) + 0 * Len(g)
  BY <1>4, <1>6, <1>7, TotalLinear
<1>11. d * Total(g) <= T * Total(k) + 0 * Len(k)
  BY <1>4, <1>6, <1>7, TotalLinear
<1>12. Total(k) = Total(f) + Total(h)
  <2>1. \A i \in 1..Len(f) : k[i] = f[i] + h[i]
    BY <1>4, <1>8
  <2>2. Len(h) = Len(f) /\ Len(k) = Len(f)
    BY <1>4
  <2> QED
    BY <1>4, <2>1, <2>2, TotalAdds
<1>13. T * Total(f) <= d * Total(g)
  <2>1. T * Total(f) \in Nat /\ d * Total(g) \in Nat /\ 0 * Len(g) = 0
    BY <1>4, <1>6, <1>9, ProductNat
  <2> QED
    BY <1>10, <2>1
<1>14. d * Total(g) <= T * (Total(f) + Total(h))
  <2>1. d * Total(g) \in Nat /\ T * Total(k) \in Nat /\ 0 * Len(k) = 0
    BY <1>4, <1>6, <1>9, <1>12, ProductNat
  <2> QED
    BY <1>11, <1>12, <2>1
<1> QED
  BY <1>5, <1>9, <1>13, <1>14 DEF T

\* A floor within the share of the first slot guarantees its part of d.
LEMMA PaidToMeetsFloor ==
  ASSUME NEW rs, GoodList(rs), NEW d \in Nat, NEW a, NEW m \in Nat, m <= LockOf(rs, a)
  PROVE  m * d <= TOTAL_SHARES * (PaidTo(rs, d, a) + 1)
<1> DEFINE k == FirstSlot(rs, a)
           T == TOTAL_SHARES
           P == PaidTo(rs, d, a)
<1>0. T \in Nat \ {0}
  BY LimitsAreNat
<1>1. /\ rs \in Seq(Recipient) /\ Len(rs) \in Nat
      /\ \A i \in 1..Len(rs) : rs[i].share \in Nat /\ rs[i].locked_share \in Nat
  <2>1. rs \in Seq(Recipient)
    BY DEF GoodList
  <2>2. \A i \in 1..Len(rs) : rs[i] \in Recipient
    BY <2>1, ElementOfSeq
  <2> QED
    BY <2>1, <2>2 DEF Recipient
<1>2. P \in Nat /\ \A i \in 1..Len(rs) : rs[i].address = a => Payout(d, rs[i].share) <= P
  BY <1>1, PaidToAtLeast
<1>3. CASE a \notin Listed(rs)
  <2>1. m = 0
    BY <1>3 DEF LockOf
  <2>2. m * d = 0 /\ T * (P + 1) \in Nat
    BY <1>0, <1>2, <2>1, ProductNat
  <2> QED
    BY <2>2
<1>4. CASE a \in Listed(rs)
  <2>1. k \in 1..Len(rs) /\ rs[k].address = a
    BY <1>1, <1>4, FirstSlotDef
  <2>2. LockOf(rs, a) = rs[k].locked_share
    BY <1>4 DEF LockOf
  <2> HIDE DEF k
  <2> DEFINE s == rs[k].share
             q == Payout(d, s)
             x == m * d
             y == d * s
             z == T * q
             w == T * P
  <2>3. s \in Nat /\ m <= s
    BY <1>1, <2>1, <2>2 DEF GoodList
  <2>4. q \in Nat /\ q <= P /\ y <= z + (T - 1)
    BY <1>2, <2>1, <2>3, PayoutRoundsDown
  <2>5. x <= y
    BY <2>3, ProductCommutes, ProductMonotone
  <2>6. z <= w
    BY <1>0, <1>2, <2>4, ProductMonotone
  <2>7. x \in Nat /\ y \in Nat /\ z \in Nat /\ w \in Nat
    BY <1>0, <1>2, <2>3, <2>4, ProductNat
  <2>8. T * (P + 1) = w + T * 1
    BY <1>0, <1>2, ProductOfSum
  <2> HIDE DEF s, q, x, y, z, w
  <2>9. x <= w + T * 1
    BY <1>0, <2>4, <2>5, <2>6, <2>7
  <2>10. m * d <= T * (P + 1)
    BY <2>8, <2>9 DEF x
  <2> QED
    BY <2>10
<1> QED
  BY <1>3, <1>4

(***************************************************************************)
(* The inductive invariant.                                                *)
(***************************************************************************)

Tally == [cranks : Nat, offered : Nat, got : Nat, reported : Nat]

\* The tally of a list: neither ahead of the share nor more than a lamport
\* for each slot and distribution behind it, and what the events reported.
GoodTally(rs, a, t) ==
  /\ t \in Tally
  /\ ShareOf(rs, a) * t.offered <= TOTAL_SHARES * (t.got + t.cranks * SlotsOf(rs, a))
  /\ TOTAL_SHARES * t.got <= ShareOf(rs, a) * t.offered
  /\ t.got = t.reported

\* The tally of a floor m, which is no more than the lock in the list.
KeptFloor(rs, a, m, t) ==
  /\ t \in Tally
  /\ m \in Nat /\ m <= LockOf(rs, a)
  /\ m * t.offered <= TOTAL_SHARES * (t.got + t.cranks)

\* Until the splitter exists nothing is counted.
GoodHistory(p, a) ==
  /\ Initialized(p) => /\ GoodTally(splitter[p].recipients, a, listed[p][a])
                       /\ KeptFloor(splitter[p].recipients, a, floor[p][a], pledged[p][a])
  /\ ~Initialized(p) => /\ listed[p][a] = NewTally /\ pledged[p][a] = NewTally
                        /\ floor[p][a] = 0

Shapes ==
  /\ DOMAIN listed = PDAs /\ DOMAIN pledged = PDAs /\ DOMAIN floor = PDAs
  /\ \A p \in PDAs : DOMAIN floor[p] = Address /\ DOMAIN pledged[p] = Address

HistoryInv ==
  /\ Inv
  /\ Shapes
  /\ \A p \in PDAs, a \in Address : a # p => GoodHistory(p, a)

\* Two proportional bounds add up.
LEMMA BoundsAdd ==
  ASSUME NEW c \in Nat, NEW d \in Nat, NEW x \in Nat, NEW y \in Nat,
         NEW u \in Nat, NEW v \in Nat, c * x <= d * u, c * y <= d * v
  PROVE  c * (x + y) <= d * (u + v)
<1> DEFINE cx == c * x  cy == c * y  du == d * u  dv == d * v
<1>1. cx \in Nat /\ cy \in Nat /\ du \in Nat /\ dv \in Nat
  BY ProductNat
<1>2. c * (x + y) = cx + cy /\ d * (u + v) = du + dv
  BY ProductOfSum
<1>3. cx <= du /\ cy <= dv
  OBVIOUS
<1> HIDE DEF cx, cy, du, dv
<1> QED
  BY <1>1, <1>2, <1>3

\* The types a good list offers to the sums.
LEMMA GoodListTypes ==
  ASSUME NEW rs, GoodList(rs)
  PROVE  /\ Len(rs) \in Nat
         /\ \A i \in 1..Len(rs) : rs[i].share \in Nat /\ rs[i].locked_share \in Nat
         /\ \A a : LockOf(rs, a) \in Nat /\ ShareOf(rs, a) \in Nat /\ SlotsOf(rs, a) \in Nat
<1>1. rs \in Seq(Recipient) /\ \A i \in 1..Len(rs) : rs[i] \in Recipient
  BY ElementOfSeq DEF GoodList
<1>2. /\ Len(rs) \in Nat
      /\ \A i \in 1..Len(rs) : rs[i].share \in Nat /\ rs[i].locked_share \in Nat
  BY <1>1 DEF Recipient
<1>3. ASSUME NEW a PROVE LockOf(rs, a) \in Nat
  <2>1. CASE a \in Listed(rs)
    BY <1>1, <1>2, <2>1, FirstSlotDef DEF LockOf
  <2>2. CASE a \notin Listed(rs)
    BY <2>2 DEF LockOf
  <2> QED
    BY <2>1, <2>2
<1>4. ASSUME NEW a PROVE ShareOf(rs, a) \in Nat /\ SlotsOf(rs, a) \in Nat
  BY <1>2, PaidToBounds
<1> QED
  BY <1>2, <1>3, <1>4

\* A new tally is good for every good list and every floor within it.
LEMMA NewTallyGood ==
  ASSUME NEW rs, GoodList(rs), NEW a
  PROVE  /\ GoodTally(rs, a, NewTally)
         /\ \A m \in Nat : m <= LockOf(rs, a) => KeptFloor(rs, a, m, NewTally)
         /\ KeptFloor(rs, a, 0, NewTally)
<1>1. /\ NewTally \in Tally /\ NewTally.cranks = 0 /\ NewTally.offered = 0 /\ NewTally.got = 0
      /\ NewTally.reported = 0
  BY DEF NewTally, Tally
<1>2. /\ TOTAL_SHARES \in Nat /\ LockOf(rs, a) \in Nat
      /\ ShareOf(rs, a) \in Nat /\ SlotsOf(rs, a) \in Nat
  BY LimitsAreNat, GoodListTypes
<1>3. GoodTally(rs, a, NewTally)
  BY <1>1, <1>2 DEF GoodTally
<1>4. ASSUME NEW m \in Nat, m <= LockOf(rs, a) PROVE KeptFloor(rs, a, m, NewTally)
  BY <1>1, <1>2, <1>4 DEF KeptFloor
<1> QED
  BY <1>2, <1>3, <1>4

\* One more distribution keeps a tally good.
LEMMA CountedGood ==
  ASSUME NEW rs, GoodList(rs), NEW a, NEW d \in Nat, NEW m,
         NEW t, GoodTally(rs, a, t), NEW k, KeptFloor(rs, a, m, k)
  PROVE  LET P == PaidTo(rs, d, a)
         IN  /\ GoodTally(rs, a, [cranks |-> t.cranks + 1, offered |-> t.offered + d,
                                  got |-> t.got + P, reported |-> t.reported + P])
             /\ KeptFloor(rs, a, m, [cranks |-> k.cranks + 1, offered |-> k.offered + d,
                                     got |-> k.got + P, reported |-> k.reported + P])
<1> DEFINE P == PaidTo(rs, d, a)
           S == ShareOf(rs, a)
           N == SlotsOf(rs, a)
           T == TOTAL_SHARES
<1>1. /\ P \in Nat /\ S \in Nat /\ N \in Nat /\ T \in Nat
      /\ T * P <= S * d /\ S * d <= T * (P + N)
  <2>1. Len(rs) \in Nat /\ \A i \in 1..Len(rs) : rs[i].share \in Nat
    BY GoodListTypes
  <2>2. /\ P \in Nat /\ S \in Nat /\ N \in Nat
        /\ T * P <= d * S /\ d * S <= T * (P + N)
    BY <2>1, PaidToBounds
  <2>3. d * S = S * d
    BY <2>2, ProductCommutes
  <2> QED
    BY <2>2, <2>3, LimitsAreNat
<1>2. m \in Nat /\ m <= LockOf(rs, a) /\ m * d <= T * (P + 1)
  BY PaidToMeetsFloor DEF KeptFloor
<1>3. /\ t.cranks \in Nat /\ t.offered \in Nat /\ t.got \in Nat /\ t.reported \in Nat
      /\ k.cranks \in Nat /\ k.offered \in Nat /\ k.got \in Nat /\ k.reported \in Nat
  BY DEF GoodTally, KeptFloor, Tally
<1>4. /\ S * t.offered <= T * (t.got + t.cranks * N)
      /\ T * t.got <= S * t.offered
      /\ m * k.offered <= T * (k.got + k.cranks)
  BY DEF GoodTally, KeptFloor
<1> HIDE DEF P, S, N, T
<1>5. S * (t.offered + d) <= T * ((t.got + P) + (t.cranks + 1) * N)
  <2> DEFINE cN == t.cranks * N
  <2>1. cN \in Nat /\ (t.cranks + 1) * N = cN + N
    BY <1>1, <1>3, ProductNat, ProductOfSum, ProductCommutes
  <2>2. S * t.offered <= T * (t.got + cN)
    BY <1>4
  <2> HIDE DEF cN
  <2>3. S * (t.offered + d) <= T * ((t.got + cN) + (P + N))
    <3>1. t.got + cN \in Nat /\ P + N \in Nat
      BY <1>1, <1>3, <2>1
    <3> QED
      BY <1>1, <1>3, <2>2, <3>1, BoundsAdd
  <2>4. (t.got + cN) + (P + N) = (t.got + P) + (cN + N)
    BY <1>1, <1>3, <2>1
  <2> QED
    BY <2>1, <2>3, <2>4
<1>6. T * (t.got + P) <= S * (t.offered + d)
  BY <1>1, <1>3, <1>4, BoundsAdd
<1>7. m * (k.offered + d) <= T * ((k.got + P) + (k.cranks + 1))
  <2>1. m * (k.offered + d) <= T * ((k.got + k.cranks) + (P + 1))
    <3>1. k.got + k.cranks \in Nat /\ P + 1 \in Nat
      BY <1>1, <1>3
    <3> QED
      BY <1>1, <1>2, <1>3, <1>4, <3>1, BoundsAdd
  <2>2. (k.got + k.cranks) + (P + 1) = (k.got + P) + (k.cranks + 1)
    <3> DEFINE x == k.got  y == k.cranks
    <3>1. x \in Nat /\ y \in Nat
      BY <1>3
    <3> HIDE DEF x, y
    <3>2. (x + y) + (P + 1) = (x + P) + (y + 1)
      BY <1>1, <3>1
    <3> QED
      BY <3>2 DEF x, y
  <2> QED
    BY <2>1, <2>2
<1>8. /\ [cranks |-> t.cranks + 1, offered |-> t.offered + d,
          got |-> t.got + P, reported |-> t.reported + P] \in Tally
      /\ [cranks |-> k.cranks + 1, offered |-> k.offered + d,
          got |-> k.got + P, reported |-> k.reported + P] \in Tally
  BY <1>1, <1>3 DEF Tally
<1>9. t.got + P = t.reported + P
  BY DEF GoodTally
<1> QED
  BY <1>2, <1>5, <1>6, <1>7, <1>8, <1>9 DEF GoodTally, KeptFloor, P, S, N, T

\* Lists that differ in the floors only have the same shares and slots.
LEMMA SameShares ==
  ASSUME NEW rs, NEW ts, Len(ts) = Len(rs), NEW a,
         \A i \in 1..Len(rs) : ts[i].address = rs[i].address /\ ts[i].share = rs[i].share
  PROVE  ShareOf(ts, a) = ShareOf(rs, a) /\ SlotsOf(ts, a) = SlotsOf(rs, a)
<1>1. [i \in 1..Len(ts) |-> IF ts[i].address = a THEN ts[i].share ELSE 0]
        = [i \in 1..Len(rs) |-> IF rs[i].address = a THEN rs[i].share ELSE 0]
  OBVIOUS
<1>2. [i \in 1..Len(ts) |-> IF ts[i].address = a THEN 1 ELSE 0]
        = [i \in 1..Len(rs) |-> IF rs[i].address = a THEN 1 ELSE 0]
  OBVIOUS
<1> QED
  BY <1>1, <1>2 DEF ShareOf, SlotsOf

\* The other instructions keep every splitter and its list.
Settings ==
  \/ \E creator \in Wallets : CreateSplitter(creator)
  \/ \E p \in PDAs : SetSplitterAdmin(p) \/ RevokeSplitterAdmin(p) \/ SetSplitterName(p)
  \/ \E from \in Wallets, to \in Address : Transfer(from, to)

\* Creating others, names, admins and transfers leave a list as it is.
LEMMA SettingsKeepLists ==
  ASSUME Inv, Settings, NEW q \in PDAs, Initialized(q)
  PROVE  Initialized(q)' /\ splitter'[q].recipients = splitter[q].recipients
<1>1. splitter \in [PDAs -> Splitter \cup {NoData}] /\ GoodAccount(splitter[q])
  BY DEF Inv
<1>2. \/ splitter'[q] = splitter[q]
      \/ \E a \in Address : splitter'[q] = [splitter[q] EXCEPT !.admin = a]
      \/ \E name \in Names : splitter'[q] = set_name(splitter[q], name)
  <2>1. CASE \E creator \in Wallets : CreateSplitter(creator)
    <3>1. PICK creator \in Wallets, nonce \in Nonces, name \in Names :
                 process_create_splitter(creator, nonce, name)
      BY <2>1 DEF CreateSplitter
    <3>2. SplitterPDA(creator, nonce) # q
      BY <3>1 DEF process_create_splitter
    <3> QED
      BY <1>1, <3>1, <3>2 DEF process_create_splitter
  <2>2. CASE \E p \in PDAs : SetSplitterAdmin(p) \/ RevokeSplitterAdmin(p)
    <3>1. PICK p \in PDAs, a \in Address :
            splitter' = [splitter EXCEPT ![p] = [splitter[p] EXCEPT !.admin = a]]
      <4>1. Default \in Address /\ NewAdmins \subseteq Address
        BY InputTypes DEF Address
      <4> QED
        BY <2>2, <4>1 DEF SetSplitterAdmin, RevokeSplitterAdmin, process_set_admin,
                          process_revoke_admin
    <3> QED
      BY <1>1, <3>1
  <2>3. CASE \E p \in PDAs : SetSplitterName(p)
    <3>1. PICK p \in PDAs, name \in Names :
            splitter' = [splitter EXCEPT ![p] = set_name(splitter[p], name)]
      BY <2>3 DEF SetSplitterName, process_set_splitter_name
    <3> QED
      BY <1>1, <3>1
  <2>4. CASE \E from \in Wallets, to \in Address : Transfer(from, to)
    BY <2>4 DEF Transfer, transfer
  <2> QED
    BY <2>1, <2>2, <2>3, <2>4 DEF Settings
<1>3. /\ \A a \in Address : /\ GoodAccount([splitter[q] EXCEPT !.admin = a])
                            /\ [splitter[q] EXCEPT !.admin = a].recipients = splitter[q].recipients
      /\ \A name \in Names : /\ set_name(splitter[q], name) \in Splitter
                             /\ set_name(splitter[q], name).recipients = splitter[q].recipients
  BY <1>1, ReplaceField, SetNameGood, InputTypes DEF GoodAccount
<1>4. splitter'[q] \in Splitter /\ splitter'[q].recipients = splitter[q].recipients
  BY <1>1, <1>2, <1>3 DEF GoodAccount
<1> QED
  BY <1>4, NoDataIsNoSplitter DEF Initialized

\* What an instruction leaves alone stays good, and a new splitter is good.
LEMMA StaysGood ==
  ASSUME HistoryInv, Inv', NEW q \in PDAs, NEW a \in Address, a # q,
         listed'[q][a] = listed[q][a], floor'[q][a] = floor[q][a],
         pledged'[q][a] = pledged[q][a],
         Initialized(q) => Initialized(q)' /\ splitter'[q].recipients = splitter[q].recipients
  PROVE  GoodHistory(q, a)'
<1>1. GoodHistory(q, a)
  BY DEF HistoryInv
<1>2. CASE Initialized(q)
  BY <1>1, <1>2 DEF GoodHistory
<1>3. CASE ~Initialized(q) /\ ~Initialized(q)'
  BY <1>1, <1>3 DEF GoodHistory
<1>4. CASE ~Initialized(q) /\ Initialized(q)'
  <2>1. GoodList(splitter'[q].recipients)
    BY <1>4 DEF Inv, GoodAccount
  <2>2. /\ GoodTally(splitter'[q].recipients, a, NewTally)
        /\ KeptFloor(splitter'[q].recipients, a, 0, NewTally)
    BY <2>1, NewTallyGood
  <2> QED
    BY <1>1, <1>4, <2>2 DEF GoodHistory
<1> QED
  BY <1>2, <1>3, <1>4

\* No distribution touches the tallies of another splitter.
LEMMA CrankPreserves ==
  ASSUME HistoryInv, Inv', NEW p \in PDAs, Crank(p)
  PROVE  HistoryInv'
<1> DEFINE rs == splitter[p].recipients
           d  == Distributable(p)
<1>1. /\ DistributeSOL(p)
      /\ listed' = [listed EXCEPT ![p] = [a \in Address |-> Counted(@[a], p, a)]]
      /\ pledged' = [pledged EXCEPT ![p] = [a \in Address |-> Counted(@[a], p, a)]]
      /\ UNCHANGED floor
  BY DEF Crank
<1>2. Inv /\ Shapes
  BY DEF HistoryInv
<1>3. /\ Initialized(p) /\ GoodList(rs) /\ d \in Nat /\ UNCHANGED splitter
      /\ \A a \in Address : PaidTo(rs, d, a) \in Nat
      /\ \A a \in Address : a # p => lamports'[a] = lamports[a] + PaidTo(rs, d, a) - 0
  BY <1>1, <1>2, DistributeStep DEF DistributeSOL
<1>4. Shapes'
  BY <1>1, <1>2 DEF Shapes
<1>5. ASSUME NEW a \in Address, a # p PROVE GoodHistory(p, a)'
  <2> DEFINE P == PaidTo(rs, d, a)
             t == listed[p][a]
             k == pledged[p][a]
             m == floor[p][a]
  <2>1. GoodTally(rs, a, t) /\ KeptFloor(rs, a, m, k)
    BY <1>3, <1>5 DEF HistoryInv, GoodHistory
  <2>2. listed'[p][a] = Counted(t, p, a) /\ pledged'[p][a] = Counted(k, p, a)
        /\ floor'[p][a] = m /\ splitter'[p].recipients = rs /\ Initialized(p)'
    BY <1>1, <1>2, <1>3 DEF Shapes, Initialized
  <2>3. lamports[a] \in Nat /\ P \in Nat /\ lamports'[a] = lamports[a] + P
    <3>1. lamports[a] \in Nat
      BY <1>2 DEF Inv
    <3>2. P \in Nat /\ lamports'[a] = lamports[a] + P - 0
      BY <1>3, <1>5
    <3> HIDE DEF P
    <3> QED
      BY <3>1, <3>2
  <2>4. ASSUME NEW x \in Tally
        PROVE  Counted(x, p, a) = [cranks |-> x.cranks + 1, offered |-> x.offered + d,
                                   got |-> x.got + P, reported |-> x.reported + P]
    <3>0. Reported(rs, d, a) = P
      BY <1>3, ReportedIsDue
    <3>1. x.got + (lamports'[a] - lamports[a]) = x.got + P
      <4> HIDE DEF P
      <4>1. x.got \in Nat
        BY DEF Tally
      <4> QED
        BY <2>3, <4>1
    <3> QED
      BY <3>0, <3>1 DEF Counted
  <2>5. t \in Tally /\ k \in Tally
    BY <2>1 DEF GoodTally, KeptFloor
  <2> HIDE DEF t, k, m, P, rs, d
  <2>6. /\ GoodTally(rs, a, [cranks |-> t.cranks + 1, offered |-> t.offered + d,
                             got |-> t.got + P, reported |-> t.reported + P])
        /\ KeptFloor(rs, a, m, [cranks |-> k.cranks + 1, offered |-> k.offered + d,
                                got |-> k.got + P, reported |-> k.reported + P])
    BY <1>3, <2>1, CountedGood DEF P
  <2>7. GoodTally(rs, a, Counted(t, p, a)) /\ KeptFloor(rs, a, m, Counted(k, p, a))
    BY <2>4, <2>5, <2>6
  <2> QED
    BY <2>2, <2>7 DEF GoodHistory
<1>6. ASSUME NEW q \in PDAs, q # p, NEW a \in Address, a # q PROVE GoodHistory(q, a)'
  <2>1. /\ listed'[q][a] = listed[q][a] /\ floor'[q][a] = floor[q][a]
        /\ pledged'[q][a] = pledged[q][a]
    BY <1>1, <1>2, <1>6 DEF Shapes
  <2>2. Initialized(q) => Initialized(q)' /\ splitter'[q].recipients = splitter[q].recipients
    BY <1>3 DEF Initialized
  <2> QED
    BY <1>6, <2>1, <2>2, StaysGood
<1> QED
  BY <1>4, <1>5, <1>6 DEF HistoryInv

\* A new list starts new tallies; the floors of those it keeps are its locks.
LEMMA RelistPreserves ==
  ASSUME HistoryInv, Inv', NEW p \in PDAs, Relist(p)
  PROVE  HistoryInv'
<1> DEFINE old == splitter[p].recipients
<1>1. PICK key \in Wallets, rs \in Distributions : process_set_distribution(p, key, rs)
  BY DEF Relist, SetSplitterDistribution
<1> DEFINE ts == StoredList(old, rs)
           kept == Listed(splitter'[p].recipients)
<1>2. /\ floor' = [floor EXCEPT ![p] = [a \in Address |-> IF a \in kept THEN @[a] ELSE 0]]
      /\ pledged' = [pledged EXCEPT ![p] =
                       [a \in Address |-> IF a \in kept THEN @[a] ELSE NewTally]]
      /\ listed' = [listed EXCEPT ![p] = [a \in Address |-> NewTally]]
  BY DEF Relist
<1>3. Inv /\ Shapes
  BY DEF HistoryInv
<1>4. /\ Initialized(p) /\ ValidList(rs) /\ RespectsLocks(old, rs) /\ rs \in Seq(Entry)
      /\ splitter' = [splitter EXCEPT ![p] = [splitter[p] EXCEPT !.recipients = ts]]
  BY <1>1, InputTypes DEF process_set_distribution, AdminSigned
<1>5. splitter \in [PDAs -> Splitter \cup {NoData}] /\ GoodAccount(splitter[p]) /\ GoodList(old)
  BY <1>3, <1>4 DEF Inv, GoodAccount
<1>6. splitter'[p].recipients = ts /\ GoodList(ts) /\ Initialized(p)'
  <2>1. GoodList(ts)
    <3> HIDE DEF old
    <3> QED
      BY <1>4, <1>5, StoredListGood
  <2>2. splitter'[p] = [splitter[p] EXCEPT !.recipients = ts]
    BY <1>4, <1>5
  <2> HIDE DEF ts
  <2>3. splitter'[p].recipients = ts /\ splitter'[p] \in Splitter
    BY <1>5, <2>1, <2>2, ReplaceField DEF GoodAccount
  <2> QED
    BY <2>1, <2>3, NoDataIsNoSplitter DEF Initialized
<1>7. Shapes'
  BY <1>2, <1>3 DEF Shapes
<1>8. ASSUME NEW a \in Address, a # p PROVE GoodHistory(p, a)'
  <2>1. KeptFloor(old, a, floor[p][a], pledged[p][a])
    BY <1>4, <1>8 DEF HistoryInv, GoodHistory
  <2>2. /\ listed'[p][a] = NewTally
        /\ floor'[p][a] = IF a \in kept THEN floor[p][a] ELSE 0
        /\ pledged'[p][a] = IF a \in kept THEN pledged[p][a] ELSE NewTally
    BY <1>2, <1>3 DEF Shapes
  <2>3. kept = Listed(ts)
    BY <1>6
  <2>4. GoodTally(ts, a, NewTally) /\ KeptFloor(ts, a, 0, NewTally)
    BY <1>6, NewTallyGood
  <2>5. CASE a \in kept
    <3>1. LockOf(ts, a) = LockOf(old, a)
      <4> HIDE DEF old
      <4> QED
        BY <1>4, <1>5, <2>3, <2>5, StoredListLocks
    <3>2. KeptFloor(ts, a, floor[p][a], pledged[p][a])
      BY <2>1, <3>1 DEF KeptFloor
    <3> QED
      BY <1>6, <2>2, <2>4, <2>5, <3>2 DEF GoodHistory
  <2>6. CASE a \notin kept
    BY <1>6, <2>2, <2>4, <2>6 DEF GoodHistory
  <2> QED
    BY <2>5, <2>6
<1>9. ASSUME NEW q \in PDAs, q # p, NEW a \in Address, a # q PROVE GoodHistory(q, a)'
  <2>1. /\ listed'[q][a] = listed[q][a] /\ floor'[q][a] = floor[q][a]
        /\ pledged'[q][a] = pledged[q][a] /\ splitter'[q] = splitter[q]
    BY <1>2, <1>3, <1>4, <1>5, <1>9 DEF Shapes
  <2> QED
    BY <1>9, <2>1, StaysGood DEF Initialized
<1> QED
  BY <1>7, <1>8, <1>9 DEF HistoryInv

\* A raised floor leaves the shares alone, and the other floors.
LEMMA PledgePreserves ==
  ASSUME HistoryInv, Inv', NEW p \in PDAs, Pledge(p)
  PROVE  HistoryInv'
<1> DEFINE rs == splitter[p].recipients
           ts == splitter'[p].recipients
<1>1. PICK b \in Listed(rs) :
        /\ floor' = [floor EXCEPT ![p][b] = LockOf(ts, b)]
        /\ pledged' = [pledged EXCEPT ![p][b] = NewTally]
  BY DEF Pledge
<1>2. LockRecipient(p) /\ UNCHANGED listed /\ Inv /\ Shapes
  BY DEF Pledge, HistoryInv
<1>3. PICK c \in Listed(rs), m \in Nat :
        LET k  == FirstSlot(rs, c)
            us == [rs EXCEPT ![k] = WithLock(rs[k], m)]
        IN  /\ Initialized(p) /\ Lockable(rs[k], m)
            /\ splitter' = [splitter EXCEPT ![p] = [splitter[p] EXCEPT !.recipients = us]]
  BY <1>2, LockRecipientStep
<1>4. splitter \in [PDAs -> Splitter \cup {NoData}] /\ GoodAccount(splitter[p]) /\ GoodList(rs)
  BY <1>2, <1>3 DEF Inv, GoodAccount
<1>5. RaisedFloor(p)
  BY <1>3, <1>4 DEF RaisedFloor
<1>6. /\ splitter'[p] = [splitter[p] EXCEPT !.recipients = ts]
      /\ Len(ts) = Len(rs)
      /\ \A i \in 1..Len(rs) : /\ ts[i].address = rs[i].address /\ ts[i].share = rs[i].share
                               /\ ts[i].locked_share >= rs[i].locked_share
  BY <1>4, <1>5, RaisedFloorList
<1>7. Initialized(p)' /\ GoodList(ts)
  <2>1. splitter'[p] # NoData
    <3>1. splitter' \in [PDAs -> Splitter \cup {NoData}]
      BY DEF Inv
    <3> DEFINE us == [rs EXCEPT ![FirstSlot(rs, c)] = WithLock(rs[FirstSlot(rs, c)], m)]
    <3>2. GoodList(us)
      <4> HIDE DEF rs
      <4> QED
        BY <1>3, <1>4, LockedListGood
    <3>3. splitter'[p] = [splitter[p] EXCEPT !.recipients = us]
      BY <1>3, <1>4
    <3> HIDE DEF us
    <3>4. splitter'[p] \in Splitter
      BY <1>4, <3>2, <3>3, ReplaceField DEF GoodAccount
    <3> QED
      BY <3>4, NoDataIsNoSplitter
  <2> QED
    BY <2>1 DEF Inv, GoodAccount, Initialized
<1>8. Shapes'
  BY <1>1, <1>2 DEF Shapes
<1>9. ASSUME NEW a PROVE LockOf(ts, a) \in Nat /\ LockOf(rs, a) <= LockOf(ts, a)
  <2>1. /\ LockOf(ts, a) \in Nat /\ LockOf(rs, a) \in Nat
        /\ rs \in Seq(Recipient)
    BY <1>4, <1>7, GoodListTypes DEF GoodList
  <2>2. \A i \in 1..Len(rs) : rs[i].locked_share \in Nat /\ ts[i].locked_share \in Nat
    BY <1>4, <1>6, <1>7, GoodListTypes
  <2>3. Listed(ts) = Listed(rs) /\ FirstSlot(ts, a) = FirstSlot(rs, a)
    <3> HIDE DEF rs, ts
    <3> QED
      BY <1>6, SameFirstSlot
  <2>4. CASE a \in Listed(rs)
    <3>1. FirstSlot(rs, a) \in 1..Len(rs)
      BY <2>1, <2>4, FirstSlotDef
    <3> HIDE DEF rs, ts
    <3> QED
      BY <1>6, <2>1, <2>2, <2>3, <2>4, <3>1 DEF LockOf
  <2>5. CASE a \notin Listed(rs)
    <3> HIDE DEF rs, ts
    <3> QED
      BY <2>1, <2>3, <2>5 DEF LockOf
  <2> QED
    BY <2>4, <2>5
<1>10. ASSUME NEW a \in Address, a # p PROVE GoodHistory(p, a)'
  <2>1. GoodTally(rs, a, listed[p][a]) /\ KeptFloor(rs, a, floor[p][a], pledged[p][a])
    BY <1>3, <1>10 DEF HistoryInv, GoodHistory
  <2>2. GoodTally(ts, a, listed[p][a])
    <3>1. ShareOf(ts, a) = ShareOf(rs, a) /\ SlotsOf(ts, a) = SlotsOf(rs, a)
      <4> HIDE DEF rs, ts
      <4> QED
        BY <1>6, SameShares
    <3> QED
      BY <2>1, <3>1 DEF GoodTally
  <2>3. CASE a = b
    <3>1. floor'[p][a] = LockOf(ts, a) /\ pledged'[p][a] = NewTally
      BY <1>1, <1>2, <2>3 DEF Shapes
    <3>2. KeptFloor(ts, a, LockOf(ts, a), NewTally)
      <4>1. LockOf(ts, a) \in Nat /\ LockOf(ts, a) <= LockOf(ts, a)
        BY <1>9
      <4> QED
        BY <1>7, <4>1, NewTallyGood
    <3> QED
      BY <1>2, <1>7, <2>2, <3>1, <3>2 DEF GoodHistory
  <2>4. CASE a # b
    <3>1. floor'[p][a] = floor[p][a] /\ pledged'[p][a] = pledged[p][a]
      BY <1>1, <1>2, <2>4 DEF Shapes
    <3>2. KeptFloor(ts, a, floor[p][a], pledged[p][a])
      <4>1. LockOf(rs, a) \in Nat
        BY <1>4, GoodListTypes
      <4> QED
        BY <1>9, <2>1, <4>1 DEF KeptFloor
    <3> QED
      BY <1>2, <1>7, <2>2, <3>1, <3>2 DEF GoodHistory
  <2> QED
    BY <2>3, <2>4
<1>11. ASSUME NEW q \in PDAs, q # p, NEW a \in Address, a # q PROVE GoodHistory(q, a)'
  <2>1. /\ listed'[q][a] = listed[q][a] /\ floor'[q][a] = floor[q][a]
        /\ pledged'[q][a] = pledged[q][a] /\ splitter'[q] = splitter[q]
    BY <1>1, <1>2, <1>3, <1>4, <1>11 DEF Shapes
  <2> QED
    BY <1>11, <2>1, StaysGood DEF Initialized
<1> QED
  BY <1>8, <1>10, <1>11 DEF HistoryInv

\* Nothing has been counted in the initial state.
LEMMA HistoryInitInv == HistoryInit => HistoryInv
<1> SUFFICES ASSUME HistoryInit PROVE HistoryInv
  OBVIOUS
<1>1. Inv
  BY InitInv DEF HistoryInit
<1>2. Shapes
  BY DEF HistoryInit, Shapes
<1>3. ASSUME NEW p \in PDAs, NEW a \in Address PROVE GoodHistory(p, a)
  BY DEF HistoryInit, Init, GoodHistory, Initialized
<1> QED
  BY <1>1, <1>2, <1>3 DEF HistoryInv

\* Every step is one of module Splitter.
LEMMA HistoryStepIsStep == [HistoryNext]_historyVars => [Next]_vars
BY DEF HistoryNext, Crank, Relist, Pledge, Next, historyVars

\* Every step preserves the invariant.
LEMMA HistoryStepInv == HistoryInv /\ [HistoryNext]_historyVars => HistoryInv'
<1> SUFFICES ASSUME HistoryInv, [HistoryNext]_historyVars PROVE HistoryInv'
  OBVIOUS
<1>1. Inv /\ [Next]_vars
  BY HistoryStepIsStep DEF HistoryInv
<1>2. Inv'
  BY <1>1, StepInv
<1>3. ASSUME NEW p \in PDAs, Crank(p) \/ Relist(p) \/ Pledge(p) PROVE HistoryInv'
  BY <1>2, <1>3, CrankPreserves, RelistPreserves, PledgePreserves
<1>4. CASE (Settings \/ UNCHANGED vars) /\ UNCHANGED <<listed, floor, pledged>>
  <2>1. ASSUME NEW q \in PDAs, NEW a \in Address, a # q PROVE GoodHistory(q, a)'
    <3>1. Initialized(q) =>
            Initialized(q)' /\ splitter'[q].recipients = splitter[q].recipients
      BY <1>1, <1>4, SettingsKeepLists DEF vars, Initialized
    <3> QED
      BY <1>2, <1>4, <2>1, <3>1, StaysGood
  <2>2. Shapes'
    BY <1>4 DEF HistoryInv, Shapes
  <2> QED
    BY <1>2, <2>1, <2>2 DEF HistoryInv
<1> QED
  BY <1>3, <1>4 DEF HistoryNext, Settings, historyVars

\* The invariant holds in every reachable state.
THEOREM HistoryInvariance == HistorySpec => []HistoryInv
<1> QED
  BY HistoryInitInv, HistoryStepInv, PTL DEF HistorySpec

(***************************************************************************)
(* The theorems.                                                           *)
(***************************************************************************)

\* Every history is one of a behaviour of module Splitter: what is proved there
\* holds here.  The converse is not claimed: a history ends with MaxCranks
\* distributions of each splitter.
THEOREM HistoryIsOfSplitter == HistorySpec => Spec
<1>1. HistoryInit => Init
  BY DEF HistoryInit
<1> QED
  BY <1>1, HistoryStepIsStep, PTL DEF HistorySpec, Spec

\* Over any number of distributions nobody loses more to the rounding than
\* a lamport for each of its slots and each distribution.
THEOREM NobodyEverFallsBehind == HistorySpec => []NobodyFallsBehind
<1>1. HistoryInv => NobodyFallsBehind
  BY DEF HistoryInv, GoodHistory, GoodTally, NobodyFallsBehind
<1> QED
  BY <1>1, HistoryInvariance, PTL

\* Nobody ever has more than its share.
THEOREM NobodyEverRunsAhead == HistorySpec => []NobodyRunsAhead
<1>1. HistoryInv => NobodyRunsAhead
  BY DEF HistoryInv, GoodHistory, GoodTally, NobodyRunsAhead
<1> QED
  BY <1>1, HistoryInvariance, PTL

\* A floor holds over any number of distributions and lists.
THEOREM FloorRateAlwaysKept == HistorySpec => []FloorRateKept
<1>1. HistoryInv => FloorRateKept
  BY DEF HistoryInv, GoodHistory, KeptFloor, FloorRateKept
<1> QED
  BY <1>1, HistoryInvariance, PTL

\* The events tell what every recipient received.
THEOREM EventsAlwaysTell == HistorySpec => []EventsTell
<1>1. HistoryInv => EventsTell
  BY DEF HistoryInv, GoodHistory, GoodTally, EventsTell
<1> QED
  BY <1>1, HistoryInvariance, PTL

=============================================================================
