---------------------------- MODULE AgreementProofs ----------------------------
(***************************************************************************)
(* The handlers of module Splitter implement the agreements of module      *)
(* SplitAgreement, for every set of keys and every list: an initial state  *)
(* maps to an initial state, and every step to a step or a stutter.        *)
(***************************************************************************)
EXTENDS SplitterAgreement, SplitterProofs

(***************************************************************************)
(* Parts and floors of a list.                                             *)
(***************************************************************************)

\* The part of an address is within the whole and covers its floor, and only
\* the listed have one.
LEMMA GoodParts ==
  ASSUME NEW rs, GoodList(rs), NEW a
  PROVE  /\ ShareOf(rs, a) \in 0..TOTAL_SHARES
         /\ LockOf(rs, a) \in Nat /\ LockOf(rs, a) <= ShareOf(rs, a)
         /\ a \in Listed(rs) <=> ShareOf(rs, a) > 0
         /\ \A i \in 1..Len(rs) : rs[i].address = a => rs[i].share <= ShareOf(rs, a)
<1> DEFINE n == Len(rs)
           h == [i \in 1..n |-> IF rs[i].address = a THEN rs[i].share ELSE 0]
           s == Shares(rs)
<1>1. /\ n \in Nat /\ Total(s) = TOTAL_SHARES
      /\ \A i \in 1..n : rs[i].share \in Nat /\ rs[i].locked_share \in Nat
      /\ \A i \in 1..n : rs[i].share > 0 /\ rs[i].locked_share <= rs[i].share
  <2>1. \A i \in 1..n : rs[i] \in Recipient
    BY ElementOfSeq DEF GoodList
  <2> QED
    BY <2>1 DEF GoodList, Recipient
<1>2. s \in Seq(Nat) /\ Len(s) = n /\ \A i \in 1..n : s[i] = rs[i].share
  BY <1>1, SharesType
<1>3. h \in [1..n -> Nat]
  BY <1>1
<1>4. h \in Seq(Nat) /\ Len(h) = n
  BY <1>1, <1>3
<1>5. \A i \in 1..n : h[i] = IF rs[i].address = a THEN rs[i].share ELSE 0
  OBVIOUS
<1>6. ShareOf(rs, a) = Total(h)
  BY DEF ShareOf
<1> HIDE DEF h, s, n
<1>7. Total(h) \in Nat /\ \A i \in 1..n : h[i] <= Total(h)
  BY <1>4, TotalNat, ElementWithinTotal
<1>8. Total(h) <= TOTAL_SHARES
  <2>1. \A i \in 1..Len(h) : 1 * h[i] <= 1 * s[i] + 0
    <3>1. TAKE i \in 1..Len(h)
    <3>2. i \in 1..n /\ rs[i].share \in Nat /\ s[i] = rs[i].share
      BY <1>1, <1>2, <1>4
    <3>3. h[i] \in Nat /\ h[i] <= rs[i].share
      BY <1>5, <3>2
    <3> QED
      BY <3>2, <3>3
  <2>2. 1 * Total(h) <= 1 * Total(s) + 0 * Len(s)
    BY <1>2, <1>4, <2>1, TotalLinear
  <2> QED
    BY <1>1, <1>2, <1>7, <2>2, LimitsAreNat
<1>9. \A i \in 1..n : rs[i].address = a => rs[i].share <= Total(h)
  BY <1>5, <1>7
<1>10. CASE a \in Listed(rs)
  <2> DEFINE k == FirstSlot(rs, a)
  <2>1. k \in 1..n /\ rs[k].address = a
    BY <1>10, FirstSlotDef DEF GoodList, n
  <2>2. LockOf(rs, a) = rs[k].locked_share
    BY <1>10 DEF LockOf
  <2> HIDE DEF k
  <2>3. rs[k].share <= Total(h)
    BY <1>9, <2>1
  <2>4. /\ rs[k].share \in Nat /\ rs[k].share > 0
        /\ rs[k].locked_share \in Nat /\ rs[k].locked_share <= rs[k].share
    BY <1>1, <2>1
  <2> QED
    BY <1>6, <1>7, <1>8, <1>9, <1>10, <2>2, <2>3, <2>4, LimitsAreNat DEF n
<1>11. CASE a \notin Listed(rs)
  <2>1. LockOf(rs, a) = 0
    BY <1>11 DEF LockOf
  <2>2. \A i \in 1..n : rs[i].address # a
    BY <1>11 DEF Listed, n
  <2>3. \A i \in 1..Len(h) : h[i] = 0
    BY <1>4, <1>5, <2>2
  <2>4. Total(h) = 0
    BY <1>4, <2>3, TotalOfZeros
  <2> QED
    BY <1>6, <1>8, <1>9, <1>11, <2>1, <2>4, LimitsAreNat DEF n
<1> QED
  BY <1>10, <1>11

\* What an account says of the agreement.
TermsOf(s) ==
  [admin |-> s.admin,
   share |-> [a \in Address |-> ShareOf(s.recipients, a)],
   floor |-> [a \in Address |-> LockOf(s.recipients, a)]]

\* The instance sums with the same operator.
LEMMA SameOperator == ASSUME NEW f PROVE Agreement!SumFunction(f) = SumFunction(f)
BY DEF SumFunction, SumFunctionOnSet, FoldFunctionOnSet, MapThenFoldSet,
       Agreement!SumFunction, Agreement!SumFunctionOnSet, Agreement!FoldFunctionOnSet,
       Agreement!MapThenFoldSet

\* A good account makes a sound agreement.
LEMMA TermsSound ==
  ASSUME NEW s, GoodAccount(s)
  PROVE  /\ Agreement!Sound(TermsOf(s))
         /\ TermsOf(s) # NoData
         /\ \A a \in Address : /\ TermsOf(s).share[a] = ShareOf(s.recipients, a)
                               /\ TermsOf(s).floor[a] = LockOf(s.recipients, a)
         /\ TermsOf(s).admin = s.admin
<1> DEFINE rs == s.recipients
           share == [a \in Address |-> ShareOf(rs, a)]
           floor == [a \in Address |-> LockOf(rs, a)]
<1>1. GoodList(rs) /\ s.admin \in Address
  BY DEF GoodAccount, Splitter
<1>2. TermsOf(s) = [admin |-> s.admin, share |-> share, floor |-> floor]
  BY DEF TermsOf
<1> HIDE DEF rs
<1>3. ASSUME NEW a \in Address
      PROVE  /\ share[a] \in 0..TOTAL_SHARES /\ floor[a] \in 0..TOTAL_SHARES
             /\ floor[a] <= share[a]
  BY <1>1, GoodParts, LimitsAreNat
<1>4. \A a \in Address : share[a] = ShareOf(rs, a) /\ floor[a] = LockOf(rs, a)
  OBVIOUS
<1>5. share \in [Address -> 0..TOTAL_SHARES] /\ floor \in [Address -> 0..TOTAL_SHARES]
  BY <1>3
<1>6. SumFunctionOnSet(share, Address) = TOTAL_SHARES
  BY <1>1, SharesAddUp
<1>7. SumFunction(share) = TOTAL_SHARES
  BY <1>6 DEF SumFunction
<1> HIDE DEF share, floor
<1>8. /\ TermsOf(s).admin = s.admin /\ TermsOf(s).share = share /\ TermsOf(s).floor = floor
  BY <1>2
<1>9. TermsOf(s) \in Agreement!Agreements
  BY <1>1, <1>2, <1>5 DEF Agreement!Agreements
<1>10. Agreement!Sound(TermsOf(s))
  BY <1>3, <1>7, <1>8, <1>9, SameOperator DEF Agreement!Sound
<1>11. TermsOf(s) # NoData
  BY <1>9, NoDataIsNoAgreement
<1> QED
  BY <1>4, <1>8, <1>10, <1>11 DEF rs

(***************************************************************************)
(* Steps.                                                                  *)
(***************************************************************************)

TheAgreement == [p \in PDAs |-> AgreementOf(p)]

\* An account that is rewritten rewrites its own agreement.
LEMMA RewrittenAgreement ==
  ASSUME Inv, NEW p \in PDAs, NEW t, GoodAccount(t),
         splitter' = [splitter EXCEPT ![p] = t]
  PROVE  /\ TheAgreement'[p] = TermsOf(t)
         /\ TheAgreement' = [TheAgreement EXCEPT ![p] = TermsOf(t)]
         /\ Initialized(p) => TheAgreement[p] = TermsOf(splitter[p])
         /\ ~Initialized(p) => TheAgreement[p] = NoData
<1>1. t # NoData
  BY NoDataIsNoSplitter DEF GoodAccount
<1>2. \A q \in PDAs : splitter'[q] = IF q = p THEN t ELSE splitter[q]
  BY DEF Inv
<1>3. AgreementOf(p)' = TermsOf(t)
  BY <1>1, <1>2 DEF AgreementOf, TermsOf, Initialized
<1>4. \A q \in PDAs : q # p => AgreementOf(q)' = AgreementOf(q)
  BY <1>2 DEF AgreementOf, Initialized
<1>5. TheAgreement'[p] = TermsOf(t)
  BY <1>3 DEF TheAgreement
<1>6. TheAgreement' = [TheAgreement EXCEPT ![p] = TermsOf(t)]
  BY <1>3, <1>4 DEF TheAgreement
<1>7. /\ Initialized(p) => TheAgreement[p] = TermsOf(splitter[p])
      /\ ~Initialized(p) => TheAgreement[p] = NoData
  BY DEF TheAgreement, AgreementOf, TermsOf, Initialized
<1> QED
  BY <1>5, <1>6, <1>7

\* A new account has no floors.
LEMMA NewAccountUnlocked ==
  ASSUME NEW creator \in Wallets, NEW nonce \in Nonces, NEW name \in Seq(Bytes), NEW a
  PROVE  LockOf(NewSplitter(creator, nonce, name).recipients, a) = 0
<1> DEFINE rs == <<[address |-> creator, share |-> TOTAL_SHARES, locked_share |-> 0]>>
           s == [creator |-> creator, nonce |-> nonce, admin |-> creator,
                 recipients |-> rs,
                 name |-> [i \in 1..MAX_NAME_LEN |-> 0], name_len |-> 0]
<1>1. GoodList(rs)
  BY NewListGood
<1>2. \A i \in 1..Len(rs) : rs[i].locked_share = 0
  OBVIOUS
<1> HIDE DEF rs
<1>3. NewSplitter(creator, nonce, name) = set_name(s, name) /\ s.recipients = rs
  BY DEF NewSplitter, rs
<1>4. set_name(s, name).recipients = s.recipients
  <2> HIDE DEF s
  <2> QED
    BY DEF set_name
<1> HIDE DEF s
<1>5. LockOf(rs, a) = 0
  <2>1. CASE a \in Listed(rs)
    BY <1>1, <1>2, <2>1, FirstSlotDef DEF LockOf, GoodList
  <2>2. CASE a \notin Listed(rs)
    BY <2>2 DEF LockOf
  <2> QED
    BY <2>1, <2>2
<1> QED
  BY <1>3, <1>4, <1>5

\* CreateSplitter opens an agreement: everything is the creator's, no floors.
LEMMA CreateOpens ==
  ASSUME Inv, NEW creator \in Wallets, CreateSplitter(creator)
  PROVE  \E p \in PDAs : Agreement!Open(p)
<1>1. PICK nonce \in Nonces, name \in Names : process_create_splitter(creator, nonce, name)
  BY DEF CreateSplitter
<1> DEFINE p == SplitterPDA(creator, nonce)
           t == NewSplitter(creator, nonce, name)
<1>2. /\ p \in PDAs /\ ~Initialized(p) /\ splitter' = [splitter EXCEPT ![p] = t]
  BY <1>1 DEF process_create_splitter, PDAs
<1>3. name \in Seq(Bytes)
  BY InputTypes
<1>4. GoodAccount(t)
  BY <1>3, NewAccountGood
<1>5. \A a \in Address : LockOf(t.recipients, a) = 0
  BY <1>3, NewAccountUnlocked
<1> HIDE DEF p, t
<1>6. /\ TheAgreement'[p] = TermsOf(t) /\ TheAgreement[p] = NoData
      /\ TheAgreement' = [TheAgreement EXCEPT ![p] = TermsOf(t)]
  BY <1>2, <1>4, RewrittenAgreement
<1>7. Agreement!Sound(TermsOf(t)) /\ \A a \in Address : TermsOf(t).floor[a] = 0
  BY <1>4, <1>5, TermsSound
<1>8. Agreement!Open(p)
  BY <1>6, <1>7 DEF Agreement!Open, Agreement!Only, TheAgreement
<1> QED
  BY <1>2, <1>8


\* SetSplitterDistribution renegotiates: who keeps a part keeps the floor, who
\* loses the part loses it.
LEMMA DistributionRenegotiates ==
  ASSUME Inv, NEW p \in PDAs, SetSplitterDistribution(p)
  PROVE  Agreement!Renegotiate(p)
<1>1. PICK key \in Wallets, rs \in Distributions : process_set_distribution(p, key, rs)
  BY DEF SetSplitterDistribution
<1> DEFINE s   == splitter[p]
           old == s.recipients
           ts  == StoredList(old, rs)
           t   == [s EXCEPT !.recipients = ts]
<1>2. /\ Initialized(p) /\ ValidList(rs) /\ RespectsLocks(old, rs)
      /\ ~is_admin_revoked(s) /\ splitter' = [splitter EXCEPT ![p] = t]
  BY <1>1 DEF process_set_distribution, AdminSigned
<1>3. GoodAccount(s) /\ GoodList(old) /\ rs \in Seq(Entry)
  BY <1>2, InputTypes DEF Inv, GoodAccount
<1> HIDE DEF s, old
<1>4. GoodList(ts)
  BY <1>2, <1>3, StoredListGood
<1>5. \A a : a \in Listed(ts) => LockOf(ts, a) = LockOf(old, a)
  BY <1>2, <1>3, StoredListLocks
<1> HIDE DEF ts
<1>6. GoodAccount(t) /\ t.recipients = ts
  BY <1>3, <1>4, ReplaceField
<1>7. t.admin = s.admin
  BY <1>3 DEF GoodAccount, Splitter
<1> HIDE DEF t
<1>8. /\ TheAgreement'[p] = TermsOf(t) /\ TheAgreement[p] = TermsOf(s)
      /\ TheAgreement' = [TheAgreement EXCEPT ![p] = TermsOf(t)]
  BY <1>2, <1>6, RewrittenAgreement DEF s
<1>9. /\ Agreement!Sound(TermsOf(t)) /\ TermsOf(s) # NoData
      /\ TermsOf(t).admin = TermsOf(s).admin /\ TermsOf(s).admin # Default
  BY <1>2, <1>3, <1>6, <1>7, TermsSound DEF is_admin_revoked
<1>10. ASSUME NEW a \in Address
       PROVE  TermsOf(t).floor[a] = IF TermsOf(t).share[a] > 0 THEN TermsOf(s).floor[a] ELSE 0
  <2>1. /\ TermsOf(t).floor[a] = LockOf(ts, a) /\ TermsOf(t).share[a] = ShareOf(ts, a)
        /\ TermsOf(s).floor[a] = LockOf(old, a)
    BY <1>3, <1>6, TermsSound DEF old
  <2>2. a \in Listed(ts) <=> ShareOf(ts, a) > 0
    BY <1>4, GoodParts
  <2>3. a \notin Listed(ts) => LockOf(ts, a) = 0
    BY DEF LockOf
  <2> QED
    BY <1>5, <2>1, <2>2, <2>3
<1> QED
  BY <1>8, <1>9, <1>10 DEF Agreement!Renegotiate, Agreement!Only, TheAgreement

\* SetSplitterAdmin and RevokeSplitterAdmin hand over.
LEMMA AdminChangeHandsOver ==
  ASSUME Inv, NEW p \in PDAs, SetSplitterAdmin(p) \/ RevokeSplitterAdmin(p)
  PROVE  Agreement!HandOver(p)
<1>1. PICK key \in Address :
        /\ Initialized(p) /\ ~is_admin_revoked(splitter[p])
        /\ splitter' = [splitter EXCEPT ![p] = [splitter[p] EXCEPT !.admin = key]]
  <2>1. Default \in Address /\ NewAdmins \subseteq Address
    BY InputTypes DEF Address
  <2> QED
    BY <2>1 DEF SetSplitterAdmin, RevokeSplitterAdmin, process_set_admin,
                process_revoke_admin, AdminSigned
<1> DEFINE s == splitter[p]
           t == [s EXCEPT !.admin = key]
<1>2. GoodAccount(s)
  BY <1>1 DEF Inv
<1> HIDE DEF s
<1>3. GoodAccount(t) /\ t.recipients = s.recipients
  BY <1>2, ReplaceField
<1>4. t.admin = key
  BY <1>2 DEF GoodAccount, Splitter
<1>5. splitter' = [splitter EXCEPT ![p] = t]
  BY <1>1 DEF s
<1> HIDE DEF t
<1>6. /\ TheAgreement[p] = TermsOf(s)
      /\ TheAgreement' = [TheAgreement EXCEPT ![p] = TermsOf(t)]
  BY <1>1, <1>3, <1>5, RewrittenAgreement DEF s
<1>7. TermsOf(t) = [TermsOf(s) EXCEPT !.admin = key]
  <2> DEFINE share == [a \in Address |-> ShareOf(s.recipients, a)]
             floor == [a \in Address |-> LockOf(s.recipients, a)]
  <2>1. /\ TermsOf(s) = [admin |-> s.admin, share |-> share, floor |-> floor]
        /\ TermsOf(t) = [admin |-> key, share |-> share, floor |-> floor]
    BY <1>3, <1>4 DEF TermsOf
  <2> HIDE DEF share, floor
  <2> QED
    BY <2>1
<1>8. TermsOf(s) # NoData /\ TermsOf(s).admin # Default
  BY <1>1, <1>2, TermsSound DEF is_admin_revoked, s
<1> QED
  BY <1>6, <1>7, <1>8 DEF Agreement!HandOver, Agreement!Only, TheAgreement

\* LockRecipient raises the floor of the address whose slot it is, in all its
\* slots that count, up to its part.
LEMMA LockRaisesFloor ==
  ASSUME Inv, NEW p \in PDAs, LockRecipient(p)
  PROVE  \E a \in Address : Agreement!RaiseFloor(p, a)
<1> DEFINE s  == splitter[p]
           rs == s.recipients
<1>1. PICK a \in Listed(rs), m \in Nat :
        /\ Initialized(p) /\ Lockable(rs[FirstSlot(rs, a)], m)
        /\ splitter' = [splitter EXCEPT ![p] = [s EXCEPT !.recipients =
              [rs EXCEPT ![FirstSlot(rs, a)] = WithLock(rs[FirstSlot(rs, a)], m)]]]
  BY LockRecipientStep
<1> DEFINE k  == FirstSlot(rs, a)
           ts == [rs EXCEPT ![k] = WithLock(rs[k], m)]
           t  == [s EXCEPT !.recipients = ts]
<1>2. GoodAccount(s) /\ GoodList(rs) /\ s.admin \in Address
  BY <1>1 DEF Inv, GoodAccount, Splitter
<1>3. splitter' = [splitter EXCEPT ![p] = t]
  BY <1>1
<1> HIDE DEF s, rs
<1>4. /\ GoodList(ts) /\ Len(ts) = Len(rs)
      /\ \A i \in 1..Len(rs) :
           /\ ts[i].address = rs[i].address /\ ts[i].share = rs[i].share
           /\ ts[i].locked_share = IF i = k THEN m ELSE rs[i].locked_share
  BY <1>1, <1>2, LockedListGood
<1>5. k \in 1..Len(rs) /\ rs[k].address = a
  BY <1>2, FirstSlotDef DEF GoodList
<1>6. /\ LockOf(rs, a) = rs[k].locked_share
      /\ m <= rs[k].share /\ m > rs[k].locked_share
  BY <1>1 DEF LockOf, Lockable
<1> HIDE DEF ts
<1>7. GoodAccount(t) /\ t.recipients = ts /\ t.admin = s.admin
  <2>1. GoodAccount(t) /\ t.recipients = ts
    BY <1>2, <1>4, ReplaceField
  <2>2. t.admin = s.admin
    BY <1>2 DEF GoodAccount, Splitter
  <2> QED
    BY <2>1, <2>2
<1> HIDE DEF t
<1>8. ASSUME NEW b \in Address
      PROVE  /\ ShareOf(ts, b) = ShareOf(rs, b)
             /\ LockOf(ts, b) = IF b = a THEN m ELSE LockOf(rs, b)
  <2>1. ShareOf(ts, b) = ShareOf(rs, b)
    <3>1. [i \in 1..Len(ts) |-> IF ts[i].address = b THEN ts[i].share ELSE 0]
          = [i \in 1..Len(rs) |-> IF rs[i].address = b THEN rs[i].share ELSE 0]
      BY <1>4
    <3> QED
      BY <3>1 DEF ShareOf
  <2>2. Listed(ts) = Listed(rs) /\ FirstSlot(ts, b) = FirstSlot(rs, b)
    BY <1>4, SameFirstSlot
  <2>3. CASE b \notin Listed(rs)
    BY <2>1, <2>2, <2>3 DEF LockOf
  <2>4. CASE b \in Listed(rs)
    <3> DEFINE j == FirstSlot(rs, b)
    <3>1. j \in 1..Len(rs) /\ rs[j].address = b
      BY <1>2, <2>4, FirstSlotDef DEF GoodList
    <3>2. LockOf(ts, b) = ts[j].locked_share /\ LockOf(rs, b) = rs[j].locked_share
      BY <2>2, <2>4 DEF LockOf
    <3>3. b = a => j = k
      OBVIOUS
    <3> HIDE DEF j, k
    <3>4. j = k => b = a
      BY <1>5, <3>1
    <3>5. ts[j].locked_share = IF j = k THEN m ELSE rs[j].locked_share
      BY <1>4, <3>1
    <3> QED
      BY <2>1, <3>2, <3>3, <3>4, <3>5
  <2> QED
    BY <2>3, <2>4
<1>9. a \in Address /\ rs[k].share <= ShareOf(rs, a)
  BY <1>2, <1>5, GoodParts, GoodListAddresses
<1>10. /\ TheAgreement[p] = TermsOf(s)
       /\ TheAgreement' = [TheAgreement EXCEPT ![p] = TermsOf(t)]
  BY <1>1, <1>3, <1>7, RewrittenAgreement DEF s
<1>11. TermsOf(t) = [TermsOf(s) EXCEPT !.floor[a] = m]
  <2> DEFINE f == [b \in Address |-> LockOf(rs, b)]
             g == [b \in Address |-> LockOf(ts, b)]
             c == [b \in Address |-> ShareOf(rs, b)]
  <2>1. g = [f EXCEPT ![a] = m]
    BY <1>8, <1>9
  <2>2. [b \in Address |-> ShareOf(ts, b)] = c
    BY <1>8
  <2>3. /\ TermsOf(s) = [admin |-> s.admin, share |-> c, floor |-> f]
        /\ TermsOf(t) = [admin |-> s.admin, share |-> c, floor |-> g]
    BY <1>7, <2>2 DEF TermsOf, rs
  <2> HIDE DEF f, g, c
  <2> QED
    BY <2>1, <2>3
<1>12. /\ TermsOf(s) # NoData
       /\ TermsOf(s).floor[a] = LockOf(rs, a) /\ TermsOf(s).share[a] = ShareOf(rs, a)
  BY <1>2, <1>9, TermsSound DEF rs
<1>13. m \in (TermsOf(s).floor[a] + 1)..TermsOf(s).share[a]
  <2>1. LockOf(rs, a) \in Nat /\ ShareOf(rs, a) \in Nat
    BY <1>2, GoodParts
  <2>2. rs[k].share \in Nat
    <3>1. rs[k] \in Recipient
      BY <1>2, <1>5, ElementOfSeq DEF GoodList
    <3> QED
      BY <3>1 DEF Recipient
  <2> QED
    BY <1>6, <1>9, <1>12, <2>1, <2>2
<1>14. Agreement!RaiseFloor(p, a)
  <2>1. /\ TheAgreement[p] # NoData
        /\ m \in (TheAgreement[p].floor[a] + 1)..TheAgreement[p].share[a]
    BY <1>10, <1>12, <1>13
  <2>2. Agreement!Only(p, [TheAgreement[p] EXCEPT !.floor[a] = m])
    BY <1>10, <1>11 DEF Agreement!Only, TheAgreement
  <2> QED
    BY <2>1, <2>2 DEF Agreement!RaiseFloor, TheAgreement
<1> QED
  BY <1>9, <1>14

\* What neither touches the admin nor the list leaves the agreements alone:
\* a name, a distribution, a transfer.
LEMMA OthersStutter ==
  ASSUME Inv,
         \/ \E p \in PDAs : SetSplitterName(p) \/ DistributeSOL(p)
         \/ \E from \in Wallets, to \in Address : Transfer(from, to)
         \/ UNCHANGED vars
  PROVE  UNCHANGED TheAgreement
<1>1. CASE UNCHANGED splitter
  BY <1>1 DEF TheAgreement, AgreementOf, Initialized
<1>2. ASSUME NEW p \in PDAs, SetSplitterName(p) PROVE UNCHANGED TheAgreement
  <2>1. PICK name \in Names :
          Initialized(p) /\ splitter' = [splitter EXCEPT ![p] = set_name(splitter[p], name)]
    BY <1>2 DEF SetSplitterName, process_set_splitter_name, AdminSigned
  <2> DEFINE s == splitter[p]
             t == set_name(s, name)
  <2>2. s \in Splitter /\ name \in Seq(Bytes)
    BY <2>1, InputTypes DEF Inv, GoodAccount
  <2>3. splitter' = [splitter EXCEPT ![p] = t] /\ Initialized(p)
    BY <2>1
  <2> HIDE DEF s
  <2>4. t.recipients = s.recipients /\ t.admin = s.admin /\ GoodAccount(t)
    <3>1. GoodList(s.recipients)
      BY <2>1 DEF Inv, GoodAccount, s
    <3> QED
      BY <2>2, <3>1, SetNameGood DEF GoodAccount
  <2> HIDE DEF t
  <2>5. TermsOf(t) = TermsOf(s)
    BY <2>4 DEF TermsOf
  <2>6. /\ TheAgreement[p] = TermsOf(s)
        /\ TheAgreement' = [TheAgreement EXCEPT ![p] = TermsOf(t)]
    BY <2>3, <2>4, RewrittenAgreement DEF s
  <2> QED
    BY <2>5, <2>6 DEF TheAgreement
<1>3. CASE \/ \E p \in PDAs : DistributeSOL(p)
           \/ \E from \in Wallets, to \in Address : Transfer(from, to)
           \/ UNCHANGED vars
  <2>1. UNCHANGED splitter
    BY <1>3 DEF DistributeSOL, process_distribute_sol, Transfer, transfer, vars
  <2> QED
    BY <1>1, <2>1
<1> QED
  BY <1>2, <1>3

\* Every step is a step of the agreement or a stutter.
LEMMA StepImplements ==
  Inv /\ [Next]_vars => [Agreement!Next]_([p \in PDAs |-> AgreementOf(p)])
<1> SUFFICES ASSUME Inv, [Next]_vars
             PROVE  Agreement!Next \/ UNCHANGED TheAgreement
  BY DEF TheAgreement
<1>1. CASE \E creator \in Wallets : CreateSplitter(creator)
  <2>1. PICK p \in PDAs : Agreement!Open(p)
    BY <1>1, CreateOpens
  <2> QED
    BY <2>1 DEF Agreement!Next
<1>2. ASSUME NEW p \in PDAs, SetSplitterDistribution(p) PROVE Agreement!Next
  BY <1>2, DistributionRenegotiates DEF Agreement!Next
<1>3. ASSUME NEW p \in PDAs, SetSplitterAdmin(p) \/ RevokeSplitterAdmin(p)
      PROVE  Agreement!Next
  BY <1>3, AdminChangeHandsOver DEF Agreement!Next
<1>4. ASSUME NEW p \in PDAs, LockRecipient(p) PROVE Agreement!Next
  <2>1. PICK a \in Address : Agreement!RaiseFloor(p, a)
    BY <1>4, LockRaisesFloor
  <2> QED
    BY <2>1 DEF Agreement!Next
<1>5. CASE \/ \E p \in PDAs : SetSplitterName(p) \/ DistributeSOL(p)
           \/ \E from \in Wallets, to \in Address : Transfer(from, to)
           \/ UNCHANGED vars
  BY <1>5, OthersStutter
<1> QED
  BY <1>1, <1>2, <1>3, <1>4, <1>5 DEF Next

\* The handlers implement the agreement: whatever lists, floors and admins are
\* submitted, in whatever order.
THEOREM AgreementAlwaysKept == Spec => KeepsAgreement
<1>1. Init => Agreement!Init
  BY DEF Init, Agreement!Init, AgreementOf, Initialized
<1> QED
  BY <1>1, StepImplements, Invariance, PTL DEF Spec, KeepsAgreement, Agreement!Spec

================================================================================
