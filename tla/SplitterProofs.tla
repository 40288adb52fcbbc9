--------------------------- MODULE SplitterProofs ---------------------------
(***************************************************************************)
(* The safety of module Splitter, for every set of wallets, every list and *)
(* name submitted, every amount and every value of the limits.             *)
(*                                                                         *)
(* The inductive invariant is the conjunction of the state properties:     *)
(* a distribution does not underflow because the shares total 100%, and    *)
(* the floors of a stored list are met because those of the previous list  *)
(* were.                                                                   *)
(***************************************************************************)
EXTENDS Splitter, SplitterStateProofs

(***************************************************************************)
(* The inductive invariant.                                                *)
(***************************************************************************)

Inv ==
  /\ splitter \in [PDAs -> Splitter \cup {NoData}]
  /\ \A p \in PDAs : Initialized(p) => GoodAccount(splitter[p])
  /\ lamports \in [Address -> Nat]
  /\ \A p \in PDAs : Initialized(p) => lamports[p] >= RentSplitter

\* It is the conjunction of the properties the runs check.
LEMMA InvMeaning ==
  Inv => TypeOK /\ SharesTotal /\ LocksHonoured /\ NamePadded /\ RentPreserved
<1> SUFFICES ASSUME Inv
             PROVE  TypeOK /\ SharesTotal /\ LocksHonoured /\ NamePadded /\ RentPreserved
  OBVIOUS
<1>1. \A p \in PDAs : Initialized(p) =>
        GoodList(splitter[p].recipients) /\ Padded(splitter[p])
  BY DEF Inv, GoodAccount
<1>2. TypeOK
  BY <1>1 DEF TypeOK, Inv, GoodList
<1>3. SharesTotal
  BY <1>1 DEF SharesTotal, GoodList
<1>4. LocksHonoured
  BY <1>1 DEF LocksHonoured, GoodList
<1>5. NamePadded
  BY <1>1 DEF NamePadded, Padded
<1>6. RentPreserved
  BY DEF RentPreserved, Inv
<1> QED
  BY <1>2, <1>3, <1>4, <1>5, <1>6

\* No account exists before the first instruction.
LEMMA InitInv == Init => Inv
BY InitialTypes DEF Init, Inv, Initialized

\* An instruction of the admin rewrites one good account into another and
\* moves no lamports.
LEMMA RewritePreserves ==
  ASSUME Inv, NEW p \in PDAs, Initialized(p), NEW t, GoodAccount(t),
         splitter' = [splitter EXCEPT ![p] = t], UNCHANGED lamports
  PROVE  Inv'
<1>1. splitter' \in [PDAs -> Splitter \cup {NoData}]
  BY DEF Inv, GoodAccount
<1>2. ASSUME NEW q \in PDAs, splitter'[q] # NoData
      PROVE  GoodAccount(splitter'[q]) /\ lamports'[q] >= RentSplitter
  <2>1. CASE q = p
    <3>1. splitter'[q] = t
      BY <2>1 DEF Inv
    <3> QED
      BY <2>1, <3>1 DEF Inv
  <2>2. CASE q # p
    <3>1. splitter'[q] = splitter[q]
      BY <2>2 DEF Inv
    <3> QED
      BY <1>2, <3>1 DEF Inv, Initialized
  <2> QED
    BY <2>1, <2>2
<1>3. lamports' \in [Address -> Nat]
  BY DEF Inv
<1> QED
  BY <1>1, <1>2, <1>3 DEF Inv, Initialized

\* CreateSplitter takes the rent from the creator's key, which is no splitter.
LEMMA CreatePreserves ==
  ASSUME Inv, NEW creator \in Wallets, NEW nonce \in Nonces, NEW name \in Names,
         process_create_splitter(creator, nonce, name)
  PROVE  Inv'
<1> DEFINE p == SplitterPDA(creator, nonce)
           t == NewSplitter(creator, nonce, name)
<1>2. p \in PDAs /\ p \in Address /\ creator \in Address
  BY DEF PDAs, Address
<1>3. GoodAccount(t)
  <2>1. name \in Seq(Bytes)
    BY InputTypes
  <2> QED
    BY <2>1, NewAccountGood
<1>4. /\ splitter' = [splitter EXCEPT ![p] = t]
      /\ lamports' = [lamports EXCEPT ![p] = RentSplitter, ![creator] = @ - RentSplitter]
      /\ lamports[creator] >= RentSplitter
      /\ ~Initialized(p)
  BY DEF process_create_splitter
<1> HIDE DEF p, t
<1>5. creator \notin PDAs
  BY AddressesDiffer
<1>6. lamports' \in [Address -> Nat]
  BY <1>2, <1>4, <1>5, RentTypes DEF Inv
<1>7. splitter' \in [PDAs -> Splitter \cup {NoData}]
  BY <1>2, <1>3, <1>4 DEF Inv, GoodAccount
<1>8. ASSUME NEW q \in PDAs, splitter'[q] # NoData
      PROVE  GoodAccount(splitter'[q]) /\ lamports'[q] >= RentSplitter
  <2>0. q \in Address /\ q # creator
    BY <1>5 DEF Address
  <2>1. CASE q = p
    BY <1>2, <1>3, <1>4, <2>0, <2>1, RentTypes DEF Inv
  <2>2. CASE q # p
    <3>1. splitter'[q] = splitter[q] /\ lamports'[q] = lamports[q]
      BY <1>4, <2>0, <2>2 DEF Inv
    <3> QED
      BY <1>8, <3>1 DEF Inv, Initialized
  <2> QED
    BY <2>1, <2>2
<1> QED
  BY <1>6, <1>7, <1>8 DEF Inv, Initialized

\* SetSplitterDistribution stores a good list.
LEMMA SetDistributionPreserves ==
  ASSUME Inv, NEW p \in PDAs, SetSplitterDistribution(p)
  PROVE  Inv'
<1>1. PICK key \in Wallets, rs \in Distributions : process_set_distribution(p, key, rs)
  BY DEF SetSplitterDistribution
<1> DEFINE old == splitter[p].recipients
           ts == StoredList(old, rs)
<1>2. /\ Initialized(p) /\ ValidList(rs) /\ RespectsLocks(old, rs) /\ UNCHANGED lamports
      /\ splitter' = [splitter EXCEPT ![p] = [splitter[p] EXCEPT !.recipients = ts]]
  BY <1>1 DEF process_set_distribution, AdminSigned
<1>3. GoodAccount(splitter[p])
  BY <1>2 DEF Inv
<1>4. GoodList(ts)
  <2>1. GoodList(old) /\ rs \in Seq(Entry)
    BY <1>3, InputTypes DEF GoodAccount
  <2> HIDE DEF old
  <2> QED
    BY <1>2, <2>1, StoredListGood
<1> HIDE DEF ts
<1>5. GoodAccount([splitter[p] EXCEPT !.recipients = ts])
  BY <1>3, <1>4, ReplaceField
<1> QED
  BY <1>2, <1>5, RewritePreserves

\* SetSplitterAdmin and RevokeSplitterAdmin write an address into the admin.
LEMMA AdminChangePreserves ==
  ASSUME Inv, NEW p \in PDAs, SetSplitterAdmin(p) \/ RevokeSplitterAdmin(p)
  PROVE  Inv'
<1>1. PICK a \in Address :
        /\ Initialized(p) /\ UNCHANGED lamports
        /\ splitter' = [splitter EXCEPT ![p] = [splitter[p] EXCEPT !.admin = a]]
  <2>1. CASE SetSplitterAdmin(p)
    <3>1. PICK key \in Wallets, a \in NewAdmins : process_set_admin(p, key, a)
      BY <2>1 DEF SetSplitterAdmin
    <3>2. a \in Address
      BY InputTypes
    <3> QED
      BY <3>1, <3>2 DEF process_set_admin, AdminSigned
  <2>2. CASE RevokeSplitterAdmin(p)
    <3>1. Default \in Address
      BY DEF Address
    <3> QED
      BY <2>2, <3>1 DEF RevokeSplitterAdmin, process_revoke_admin, AdminSigned
  <2> QED
    BY <2>1, <2>2
<1>2. GoodAccount([splitter[p] EXCEPT !.admin = a])
  BY <1>1, ReplaceField DEF Inv
<1> QED
  BY <1>1, <1>2, RewritePreserves

\* What LockRecipient does to the list, for the proofs that need more than
\* that it is good.
LEMMA LockRecipientStep ==
  ASSUME Inv, NEW p \in PDAs, LockRecipient(p)
  PROVE  \E a \in Listed(splitter[p].recipients), m \in Nat :
           LET rs == splitter[p].recipients
               k  == FirstSlot(rs, a)
               ts == [rs EXCEPT ![k] = WithLock(rs[k], m)]
           IN  /\ Initialized(p) /\ UNCHANGED lamports
               /\ Lockable(rs[k], m)
               /\ splitter' = [splitter EXCEPT ![p] = [splitter[p] EXCEPT !.recipients = ts]]
<1>1. PICK key \in Wallets, m \in MinShares : process_lock_recipient(p, key, m)
  BY DEF LockRecipient
<1>2. m \in Nat /\ key \in Listed(splitter[p].recipients)
  BY <1>1, InputTypes DEF process_lock_recipient
<1> QED
  BY <1>1, <1>2 DEF process_lock_recipient

\* LockRecipient stores a good list.
LEMMA LockRecipientPreserves ==
  ASSUME Inv, NEW p \in PDAs, LockRecipient(p)
  PROVE  Inv'
<1> DEFINE rs == splitter[p].recipients
<1>1. PICK a \in Listed(rs), m \in Nat :
        LET k  == FirstSlot(rs, a)
            ts == [rs EXCEPT ![k] = WithLock(rs[k], m)]
        IN  /\ Initialized(p) /\ UNCHANGED lamports
            /\ Lockable(rs[k], m)
            /\ splitter' = [splitter EXCEPT ![p] = [splitter[p] EXCEPT !.recipients = ts]]
  BY LockRecipientStep
<1> DEFINE k  == FirstSlot(rs, a)
           ts == [rs EXCEPT ![k] = WithLock(rs[k], m)]
<1>2. GoodAccount(splitter[p])
  BY <1>1 DEF Inv
<1>3. GoodList(ts)
  <2>1. GoodList(rs)
    BY <1>2 DEF GoodAccount
  <2> HIDE DEF rs
  <2> QED
    BY <1>1, <2>1, LockedListGood
<1>4. splitter' = [splitter EXCEPT ![p] = [splitter[p] EXCEPT !.recipients = ts]]
      /\ Initialized(p) /\ UNCHANGED lamports
  BY <1>1
<1> HIDE DEF ts
<1>5. GoodAccount([splitter[p] EXCEPT !.recipients = ts])
  BY <1>2, <1>3, ReplaceField
<1> QED
  BY <1>4, <1>5, RewritePreserves

\* SetSplitterName rewrites the name only.
LEMMA SetNamePreserves ==
  ASSUME Inv, NEW p \in PDAs, SetSplitterName(p)
  PROVE  Inv'
<1>1. PICK key \in Wallets, name \in Names : process_set_splitter_name(p, key, name)
  BY DEF SetSplitterName
<1>2. /\ Initialized(p) /\ UNCHANGED lamports
      /\ splitter' = [splitter EXCEPT ![p] = set_name(splitter[p], name)]
  BY <1>1 DEF process_set_splitter_name, AdminSigned
<1>3. name \in Seq(Bytes) /\ GoodAccount(splitter[p])
  BY <1>2, InputTypes DEF Inv
<1>4. GoodAccount(set_name(splitter[p], name))
  BY <1>3, SetNameGood DEF GoodAccount
<1> QED
  BY <1>2, <1>4, RewritePreserves

\* What DistributeSOL moves: at most what lies above the rent, all of it but
\* less than one lamport per slot.
LEMMA DistributeStep ==
  ASSUME Inv, NEW p \in PDAs, process_distribute_sol(p)
  PROVE  LET rs == splitter[p].recipients
             d  == Distributable(p)
             P  == Total(Payouts(rs, d))
         IN  /\ Initialized(p) /\ GoodList(rs) /\ Len(rs) \in Nat \ {0}
             /\ \A i \in 1..Len(rs) : rs[i].share \in Nat
             /\ d \in Nat /\ lamports[p] = RentSplitter + d
             /\ P \in Nat /\ P <= d /\ d < P + Len(rs)
             /\ \A a \in Address : PaidTo(rs, d, a) \in Nat
             /\ lamports' = [a \in Address |->
                  lamports[a] + PaidTo(rs, d, a) - (IF a = p THEN P ELSE 0)]
             /\ UNCHANGED splitter
<1> DEFINE rs == splitter[p].recipients
           d  == Distributable(p)
           P  == Total(Payouts(rs, d))
<1>1. /\ Initialized(p) /\ lamports[p] > RentSplitter /\ rs # << >>
      /\ UNCHANGED splitter /\ lamports' = AfterPayouts(p, rs, d)
  BY DEF process_distribute_sol, HasDistributable
<1>2. d \in Nat /\ lamports[p] = RentSplitter + d
  <2>1. p \in Address
    BY DEF Address
  <2>2. lamports[p] \in Nat
    BY <2>1 DEF Inv
  <2> QED
    BY <1>1, <2>2, RentTypes DEF Distributable
<1>3. GoodList(rs)
  BY <1>1 DEF Inv, GoodAccount
<1> HIDE DEF rs, d
<1>4. Len(rs) \in Nat \ {0} /\ \A i \in 1..Len(rs) : rs[i].share \in Nat
  <2>1. \A i \in 1..Len(rs) : rs[i] \in Recipient
    BY <1>3, ElementOfSeq DEF GoodList
  <2> QED
    BY <1>1, <1>3, <2>1 DEF GoodList, Recipient
<1>5. P \in Nat /\ P <= d /\ d < P + Len(rs)
  BY <1>2, <1>3, <1>4, PayoutsBounded DEF GoodList
<1>6. \A a \in Address : PaidTo(rs, d, a) \in Nat
  BY <1>2, <1>4, PaidToAtLeast
<1>7. lamports' = [a \in Address |->
        lamports[a] + PaidTo(rs, d, a) - (IF a = p THEN P ELSE 0)]
  BY <1>1 DEF AfterPayouts
<1> QED
  BY <1>1, <1>2, <1>3, <1>4, <1>5, <1>6, <1>7 DEF rs, d

\* DistributeSOL leaves every balance a natural and the rent in the splitter,
\* and takes from nobody else.
LEMMA DistributePreserves ==
  ASSUME Inv, NEW p \in PDAs, process_distribute_sol(p)
  PROVE  Inv' /\ \A a \in Address : a # p => lamports'[a] >= lamports[a]
<1> DEFINE rs == splitter[p].recipients
           d  == Distributable(p)
           P  == Total(Payouts(rs, d))
<1>1. /\ Initialized(p) /\ d \in Nat /\ lamports[p] = RentSplitter + d
      /\ P \in Nat /\ P <= d /\ UNCHANGED splitter
      /\ \A a \in Address : PaidTo(rs, d, a) \in Nat
      /\ lamports' = [a \in Address |->
           lamports[a] + PaidTo(rs, d, a) - (IF a = p THEN P ELSE 0)]
  BY DistributeStep
<1> HIDE DEF rs, d, P
<1>2. ASSUME NEW a \in Address
      PROVE  /\ lamports'[a] \in Nat
             /\ a = p => lamports'[a] >= RentSplitter
             /\ a # p => lamports'[a] >= lamports[a]
  <2>1. lamports[a] \in Nat /\ PaidTo(rs, d, a) \in Nat
    BY <1>1 DEF Inv
  <2>2. lamports'[a] = lamports[a] + PaidTo(rs, d, a) - (IF a = p THEN P ELSE 0)
    BY <1>1
  <2>3. CASE a = p
    BY <1>1, <2>1, <2>2, <2>3, RentTypes
  <2>4. CASE a # p
    BY <2>1, <2>2, <2>4
  <2> QED
    BY <2>3, <2>4
<1>3. lamports' \in [Address -> Nat]
  BY <1>1, <1>2
<1>4. ASSUME NEW q \in PDAs, splitter'[q] # NoData
      PROVE  GoodAccount(splitter'[q]) /\ lamports'[q] >= RentSplitter
  <2>1. q \in Address /\ Initialized(q) /\ splitter'[q] = splitter[q]
    BY <1>1, <1>4 DEF Address, Initialized
  <2>2. lamports[q] >= RentSplitter /\ lamports[q] \in Nat
    BY <2>1 DEF Inv
  <2>3. lamports'[q] >= RentSplitter
    BY <1>2, <2>1, <2>2, RentTypes
  <2> QED
    BY <2>1, <2>3 DEF Inv
<1> QED
  BY <1>1, <1>2, <1>3, <1>4 DEF Inv, Initialized

\* Only keys pay for plain transfers.
LEMMA TransferPreserves ==
  ASSUME Inv, NEW from \in Wallets, NEW to \in Address, transfer(from, to)
  PROVE  Inv'
<1>1. PICK amount \in Amounts :
        /\ from # to /\ amount <= lamports[from] /\ UNCHANGED splitter
        /\ lamports' = [lamports EXCEPT ![from] = @ - amount, ![to] = @ + amount]
  BY DEF transfer
<1>2. /\ amount \in Nat /\ from \in Address /\ from \notin PDAs
      /\ \A a \in Address : lamports[a] \in Nat
  BY InputTypes, AddressesDiffer DEF Address, Inv
<1>3. lamports' \in [Address -> Nat]
  BY <1>1, <1>2 DEF Inv
<1>4. ASSUME NEW q \in PDAs PROVE lamports'[q] >= lamports[q]
  <2>1. q \in Address /\ q # from
    BY <1>2 DEF Address
  <2> QED
    BY <1>1, <1>2, <2>1 DEF Inv
<1>5. \A q \in PDAs : Initialized(q) => lamports'[q] >= RentSplitter
  <2>1. TAKE q \in PDAs
  <2>2. q \in Address
    BY DEF Address
  <2>3. lamports[q] \in Nat /\ lamports'[q] \in Nat
    BY <1>2, <1>3, <2>2
  <2> QED
    BY <1>4, <2>3, RentTypes DEF Inv
<1> QED
  BY <1>1, <1>3, <1>5 DEF Inv, Initialized

\* Every instruction preserves the invariant, whether or not the runtime would
\* accept the balances it leaves: nothing rests on where transactions end.
LEMMA InstructionInv == Inv /\ [SplitterInstruction]_vars => Inv'
<1> SUFFICES ASSUME Inv, [SplitterInstruction]_vars PROVE Inv'
  OBVIOUS
<1>1. CASE \E creator \in Wallets, nonce \in Nonces, name \in Names :
             process_create_splitter(creator, nonce, name)
  BY <1>1, CreatePreserves
<1>2. CASE \E p \in PDAs : SetSplitterDistribution(p)
  BY <1>2, SetDistributionPreserves
<1>3. CASE \E p \in PDAs : SetSplitterAdmin(p)
  BY <1>3, AdminChangePreserves
<1>4. CASE \E p \in PDAs : RevokeSplitterAdmin(p)
  BY <1>4, AdminChangePreserves
<1>5. CASE \E p \in PDAs : LockRecipient(p)
  BY <1>5, LockRecipientPreserves
<1>6. CASE \E p \in PDAs : SetSplitterName(p)
  BY <1>6, SetNamePreserves
<1>7. CASE \E p \in PDAs : process_distribute_sol(p)
  BY <1>7, DistributePreserves
<1>8. CASE \E from \in Wallets, to \in Address : transfer(from, to)
  BY <1>8, TransferPreserves
<1>9. CASE UNCHANGED vars
  BY <1>9 DEF vars, Inv, Initialized
<1> QED
  BY <1>1, <1>2, <1>3, <1>4, <1>5, <1>6, <1>7, <1>8, <1>9 DEF SplitterInstruction

\* A transaction of one instruction is an instruction the runtime accepts.
LEMMA NextIsInstruction == [Next]_vars => [SplitterInstruction]_vars
<1> SUFFICES ASSUME [Next]_vars PROVE [SplitterInstruction]_vars
  OBVIOUS
<1>1. CASE \E creator \in Wallets : CreateSplitter(creator)
  BY <1>1 DEF CreateSplitter, SplitterInstruction
<1>2. CASE \/ \E p \in PDAs : SetSplitterDistribution(p)
           \/ \E p \in PDAs : SetSplitterAdmin(p)
           \/ \E p \in PDAs : RevokeSplitterAdmin(p)
           \/ \E p \in PDAs : LockRecipient(p)
           \/ \E p \in PDAs : SetSplitterName(p)
  BY <1>2 DEF SplitterInstruction
<1>3. CASE \E p \in PDAs : DistributeSOL(p)
  BY <1>3 DEF DistributeSOL, SplitterInstruction
<1>4. CASE \E from \in Wallets, to \in Address : Transfer(from, to)
  BY <1>4 DEF Transfer, SplitterInstruction
<1>5. CASE UNCHANGED vars
  BY <1>5
<1> QED
  BY <1>1, <1>2, <1>3, <1>4, <1>5 DEF Next

\* Every step preserves the invariant.
LEMMA StepInv == Inv /\ [Next]_vars => Inv'
BY InstructionInv, NextIsInstruction

\* The invariant holds in every reachable state.
THEOREM Invariance == Spec => []Inv
<1> QED
  BY InitInv, StepInv, PTL DEF Spec

(***************************************************************************)
(* The theorems.                                                           *)
(***************************************************************************)

\* Accounts are well formed and no balance underflows.
THEOREM TypeCorrect == Spec => []TypeOK
BY Invariance, InvMeaning, PTL

\* The shares of every splitter total 100%, none of them zero.
THEOREM SharesAlwaysTotal == Spec => []SharesTotal
BY Invariance, InvMeaning, PTL

\* No slot is paid less than its floor.
THEOREM LocksAlwaysHonoured == Spec => []LocksHonoured
BY Invariance, InvMeaning, PTL

\* Nothing of an old name survives behind a shorter one.
THEOREM NamesAlwaysPadded == Spec => []NamePadded
BY Invariance, InvMeaning, PTL

\* No distribution touches the rent of a splitter.
THEOREM RentAlwaysPreserved == Spec => []RentPreserved
BY Invariance, InvMeaning, PTL

\* The three things a step can do to an initialized account: nothing, a
\* change its admin signed, or a floor raised.
RaisedFloor(p) ==
  \E a \in Listed(splitter[p].recipients), m \in Nat :
    LET rs == splitter[p].recipients
        k  == FirstSlot(rs, a)
        ts == [rs EXCEPT ![k] = WithLock(rs[k], m)]
    IN  /\ Lockable(rs[k], m)
        /\ splitter'[p] = [splitter[p] EXCEPT !.recipients = ts]

NewList(p) ==
  \E rs \in Distributions :
    LET old == splitter[p].recipients IN
    /\ ValidList(rs) /\ RespectsLocks(old, rs)
    /\ splitter'[p].recipients = StoredList(old, rs)

\* Every step falls in one of the three classes for every account.
LEMMA StepKinds ==
  ASSUME Inv, [SplitterInstruction]_vars, NEW p \in PDAs, Initialized(p)
  PROVE  \/ splitter'[p] = splitter[p]
         \/ /\ ~is_admin_revoked(splitter[p])
            /\ splitter'[p].recipients = splitter[p].recipients \/ NewList(p)
         \/ RaisedFloor(p)
<1>0. splitter \in [PDAs -> Splitter \cup {NoData}] /\ GoodAccount(splitter[p])
  BY DEF Inv
<1>1. CASE \E creator \in Wallets, nonce \in Nonces, name \in Names :
             process_create_splitter(creator, nonce, name)
  <2>1. PICK creator \in Wallets, nonce \in Nonces, name \in Names :
               process_create_splitter(creator, nonce, name)
    BY <1>1
  <2>2. SplitterPDA(creator, nonce) # p
    BY <2>1 DEF process_create_splitter
  <2> QED
    BY <1>0, <2>1, <2>2 DEF process_create_splitter
<1>2. CASE \E q \in PDAs : SetSplitterDistribution(q)
  <2>1. PICK q \in PDAs, key \in Wallets, rs \in Distributions :
               process_set_distribution(q, key, rs)
    BY <1>2 DEF SetSplitterDistribution
  <2>2. CASE q = p
    <3> DEFINE ts == StoredList(splitter[p].recipients, rs)
    <3>1. splitter'[p] = [splitter[p] EXCEPT !.recipients = ts]
      BY <1>0, <2>1, <2>2 DEF process_set_distribution
    <3> HIDE DEF ts
    <3>2. splitter'[p].recipients = ts
      BY <1>0, <3>1 DEF GoodAccount, Splitter
    <3>3. NewList(p)
      BY <2>1, <2>2, <3>2 DEF process_set_distribution, NewList, ts
    <3> QED
      BY <2>1, <2>2, <3>3 DEF process_set_distribution, AdminSigned
  <2>3. CASE q # p
    BY <1>0, <2>1, <2>3 DEF process_set_distribution
  <2> QED
    BY <2>2, <2>3
<1>3. CASE \E q \in PDAs : SetSplitterAdmin(q) \/ RevokeSplitterAdmin(q)
  <2>1. PICK q \in PDAs, a \in Address :
          /\ ~is_admin_revoked(splitter[q])
          /\ splitter' = [splitter EXCEPT ![q] = [splitter[q] EXCEPT !.admin = a]]
    <3>1. Default \in Address /\ NewAdmins \subseteq Address
      BY InputTypes DEF Address
    <3> QED
      BY <1>3, <3>1 DEF SetSplitterAdmin, RevokeSplitterAdmin, process_set_admin,
                        process_revoke_admin, AdminSigned
  <2>2. CASE q = p
    <3>1. splitter'[p] = [splitter[p] EXCEPT !.admin = a]
      BY <1>0, <2>1, <2>2
    <3>2. splitter'[p].recipients = splitter[p].recipients
      BY <1>0, <3>1, ReplaceField
    <3> QED
      BY <2>1, <2>2, <3>2
  <2>3. CASE q # p
    BY <1>0, <2>1, <2>3
  <2> QED
    BY <2>2, <2>3
<1>4. CASE \E q \in PDAs : LockRecipient(q)
  <2>1. PICK q \in PDAs : LockRecipient(q)
    BY <1>4
  <2>2. PICK a \in Listed(splitter[q].recipients), m \in Nat :
           LET rs == splitter[q].recipients
               k  == FirstSlot(rs, a)
               ts == [rs EXCEPT ![k] = WithLock(rs[k], m)]
           IN  /\ Initialized(q) /\ UNCHANGED lamports
               /\ Lockable(rs[k], m)
               /\ splitter' = [splitter EXCEPT ![q] = [splitter[q] EXCEPT !.recipients = ts]]
    BY <2>1, LockRecipientStep
  <2>3. CASE q = p
    <3>1. RaisedFloor(p)
      BY <1>0, <2>2, <2>3 DEF RaisedFloor
    <3> QED
      BY <3>1
  <2>4. CASE q # p
    BY <1>0, <2>2, <2>4
  <2> QED
    BY <2>3, <2>4
<1>5. CASE \E q \in PDAs : SetSplitterName(q)
  <2>1. PICK q \in PDAs, key \in Wallets, name \in Names :
               process_set_splitter_name(q, key, name)
    BY <1>5 DEF SetSplitterName
  <2>2. CASE q = p
    <3>1. splitter'[p] = set_name(splitter[p], name) /\ name \in Seq(Bytes)
      BY <1>0, <2>1, <2>2, InputTypes DEF process_set_splitter_name
    <3>2. splitter'[p].recipients = splitter[p].recipients
      BY <1>0, <3>1, SetNameGood DEF GoodAccount
    <3> QED
      BY <2>1, <2>2, <3>2 DEF process_set_splitter_name, AdminSigned
  <2>3. CASE q # p
    BY <1>0, <2>1, <2>3 DEF process_set_splitter_name
  <2> QED
    BY <2>2, <2>3
<1>6. CASE \/ \E q \in PDAs : process_distribute_sol(q)
           \/ \E from \in Wallets, to \in Address : transfer(from, to)
           \/ UNCHANGED vars
  BY <1>6 DEF process_distribute_sol, transfer, vars
<1> QED
  BY <1>1, <1>2, <1>3, <1>4, <1>5, <1>6 DEF SplitterInstruction

\* A raised floor is the only change of a list, and it is upward.
LEMMA RaisedFloorList ==
  ASSUME NEW p \in PDAs, GoodAccount(splitter[p]), RaisedFloor(p)
  PROVE  LET rs == splitter[p].recipients
             ts == splitter'[p].recipients
         IN  /\ splitter'[p] = [splitter[p] EXCEPT !.recipients = ts]
             /\ ts \in Seq(Recipient)
             /\ Len(ts) = Len(rs)
             /\ \A i \in 1..Len(rs) :
                  /\ ts[i].address = rs[i].address /\ ts[i].share = rs[i].share
                  /\ ts[i].locked_share >= rs[i].locked_share
<1> DEFINE rs == splitter[p].recipients
<1>1. GoodList(rs)
  BY DEF GoodAccount
<1>2. PICK a \in Listed(rs), m \in Nat :
        /\ Lockable(rs[FirstSlot(rs, a)], m)
        /\ splitter'[p] = [splitter[p] EXCEPT !.recipients =
              [rs EXCEPT ![FirstSlot(rs, a)] = WithLock(rs[FirstSlot(rs, a)], m)]]
  BY DEF RaisedFloor
<1> DEFINE k == FirstSlot(rs, a)
           ts == [rs EXCEPT ![k] = WithLock(rs[k], m)]
<1> HIDE DEF rs
<1>3. /\ GoodList(ts) /\ Len(ts) = Len(rs)
      /\ \A i \in 1..Len(rs) :
           /\ ts[i].address = rs[i].address /\ ts[i].share = rs[i].share
           /\ ts[i].locked_share = IF i = k THEN m ELSE rs[i].locked_share
  BY <1>1, <1>2, LockedListGood
<1>4. splitter'[p] = [splitter[p] EXCEPT !.recipients = ts]
  BY <1>2
<1>5. m > rs[k].locked_share
  BY <1>2 DEF Lockable
<1>6. \A i \in 1..Len(rs) : rs[i].locked_share \in Nat
  <2>1. \A i \in 1..Len(rs) : rs[i] \in Recipient
    BY <1>1, ElementOfSeq DEF GoodList
  <2> QED
    BY <2>1 DEF Recipient
<1> HIDE DEF ts, k
<1>7. splitter'[p].recipients = ts
  BY <1>3, <1>4, ReplaceField
<1>8. ASSUME NEW i \in 1..Len(rs) PROVE ts[i].locked_share >= rs[i].locked_share
  <2>1. CASE i = k
    BY <1>3, <1>5, <1>6, <2>1
  <2>2. CASE i # k
    BY <1>3, <1>6, <2>2
  <2> QED
    BY <2>1, <2>2
<1> QED
  BY <1>3, <1>4, <1>7, <1>8 DEF GoodList, rs

\* Floors of the recipients that stay listed never fall.
THEOREM LocksAlwaysPersist == Spec => LocksPersist
<1>1. ASSUME Inv, [SplitterInstruction]_vars, NEW p \in PDAs, Initialized(p),
             NEW a \in Listed(splitter[p].recipients) \cap Listed(splitter'[p].recipients)
      PROVE  LockOf(splitter'[p].recipients, a) >= LockOf(splitter[p].recipients, a)
  <2> DEFINE rs == splitter[p].recipients
             ts == splitter'[p].recipients
  <2>1. GoodAccount(splitter[p]) /\ GoodList(rs)
    BY <1>1 DEF Inv, GoodAccount
  <2>2. LockOf(rs, a) \in Nat
    <3>1. FirstSlot(rs, a) \in 1..Len(rs)
      BY <2>1, FirstSlotDef DEF GoodList
    <3>2. rs[FirstSlot(rs, a)] \in Recipient
      BY <2>1, <3>1, ElementOfSeq DEF GoodList
    <3> QED
      BY <3>2 DEF LockOf, Recipient
  <2>3. CASE ts = rs
    BY <2>2, <2>3
  <2>4. CASE NewList(p)
    <3>1. PICK new \in Distributions :
            /\ ValidList(new) /\ RespectsLocks(rs, new)
            /\ ts = StoredList(rs, new)
      BY <2>4 DEF NewList
    <3>2. new \in Seq(Entry) /\ a \in Listed(ts)
      BY <1>1, InputTypes
    <3> HIDE DEF rs, ts
    <3>3. LockOf(ts, a) = LockOf(rs, a)
      BY <2>1, <3>1, <3>2, StoredListLocks
    <3> QED
      BY <2>2, <3>3 DEF rs, ts
  <2>5. CASE RaisedFloor(p)
    <3>1. /\ Len(ts) = Len(rs)
          /\ \A i \in 1..Len(rs) :
               /\ ts[i].address = rs[i].address
               /\ ts[i].locked_share >= rs[i].locked_share
      BY <2>1, <2>5, RaisedFloorList
    <3>2. a \in Listed(rs) /\ a \in Listed(ts)
      BY <1>1
    <3>3. FirstSlot(rs, a) \in 1..Len(rs)
      BY <2>1, <3>2, FirstSlotDef DEF GoodList
    <3> HIDE DEF rs, ts
    <3>4. FirstSlot(ts, a) = FirstSlot(rs, a)
      BY <3>1, SameFirstSlot
    <3>5. LockOf(ts, a) >= LockOf(rs, a)
      BY <3>1, <3>2, <3>3, <3>4 DEF LockOf
    <3> QED
      BY <3>5 DEF rs, ts
  <2> QED
    BY <1>1, <2>3, <2>4, <2>5, StepKinds
<1>2. Inv /\ [Next]_vars =>
        [\A p \in PDAs : Initialized(p) =>
           \A a \in Listed(splitter[p].recipients) \cap Listed(splitter'[p].recipients) :
             LockOf(splitter'[p].recipients, a) >= LockOf(splitter[p].recipients, a)]_vars
  BY <1>1, NextIsInstruction
<1> QED
  BY <1>2, Invariance, PTL DEF Spec, LocksPersist

\* After revocation a step changes nothing but the floors.
LEMMA RevokedStep ==
  ASSUME Inv, [SplitterInstruction]_vars, NEW p \in PDAs, Initialized(p),
         is_admin_revoked(splitter[p])
  PROVE  Frozen(splitter[p], splitter'[p])
<1> DEFINE s == splitter[p]
           t == splitter'[p]
<1>1. GoodAccount(s)
  BY DEF Inv
<1>2. \A i \in 1..Len(s.recipients) : s.recipients[i].locked_share \in Nat
  <2>1. s.recipients \in Seq(Recipient)
    BY <1>1 DEF GoodAccount, GoodList
  <2>2. \A i \in 1..Len(s.recipients) : s.recipients[i] \in Recipient
    BY <2>1, ElementOfSeq
  <2> QED
    BY <2>2 DEF Recipient
<1>3. CASE t = s
  BY <1>2, <1>3 DEF Frozen, Initialized
<1>4. CASE RaisedFloor(p)
  <2> DEFINE ts == t.recipients
  <2>1. /\ t = [s EXCEPT !.recipients = ts]
        /\ ts \in Seq(Recipient)
        /\ Len(ts) = Len(s.recipients)
        /\ \A i \in 1..Len(s.recipients) :
             /\ ts[i].address = s.recipients[i].address
             /\ ts[i].share = s.recipients[i].share
             /\ ts[i].locked_share >= s.recipients[i].locked_share
    BY <1>1, <1>4, RaisedFloorList
  <2>2. s \in Splitter
    BY <1>1 DEF GoodAccount
  <2> HIDE DEF s, t, ts
  <2>3. /\ [s EXCEPT !.recipients = ts] \in Splitter
        /\ [s EXCEPT !.recipients = ts].creator = s.creator
        /\ [s EXCEPT !.recipients = ts].nonce = s.nonce
        /\ [s EXCEPT !.recipients = ts].admin = s.admin
        /\ [s EXCEPT !.recipients = ts].name = s.name
        /\ [s EXCEPT !.recipients = ts].name_len = s.name_len
    BY <2>1, <2>2 DEF Splitter
  <2>4. t # NoData
    BY <2>1, <2>3, NoDataIsNoSplitter
  <2>5. /\ t.creator = s.creator /\ t.nonce = s.nonce /\ t.admin = s.admin
        /\ t.name = s.name /\ t.name_len = s.name_len
    BY <2>1, <2>3
  <2>6. Frozen(s, t)
    BY <2>1, <2>4, <2>5 DEF Frozen, ts
  <2> QED
    BY <2>6 DEF s, t
<1> QED
  BY <1>3, <1>4, StepKinds

\* After revocation nothing but the floors changes.
THEOREM RevocationAlwaysFinal == Spec => RevocationIsFinal
<1>1. Inv /\ [Next]_vars =>
        [\A p \in PDAs : Initialized(p) /\ is_admin_revoked(splitter[p]) =>
           Frozen(splitter[p], splitter'[p])]_vars
  BY RevokedStep, NextIsInstruction
<1> QED
  BY <1>1, Invariance, PTL DEF Spec, RevocationIsFinal

\* Only its own distribution takes lamports from a splitter.
LEMMA OnlyDistributionPays ==
  ASSUME Inv, [SplitterInstruction]_vars, NEW p \in PDAs, lamports'[p] < lamports[p]
  PROVE  process_distribute_sol(p)
<1>1. p \in Address /\ p \notin Wallets /\ lamports \in [Address -> Nat]
  BY AddressesDiffer DEF Address, Inv
<1>2. lamports[p] \in Nat /\ ~(lamports[p] < lamports[p])
  BY <1>1
<1>3. CASE \E creator \in Wallets, nonce \in Nonces, name \in Names :
             process_create_splitter(creator, nonce, name)
  <2>1. PICK creator \in Wallets, nonce \in Nonces, name \in Names :
               process_create_splitter(creator, nonce, name)
    BY <1>3
  <2> DEFINE q == SplitterPDA(creator, nonce)
  <2>2. /\ lamports[q] = 0 /\ creator # p
        /\ lamports' = [lamports EXCEPT ![q] = RentSplitter, ![creator] = @ - RentSplitter]
    BY <1>1, <2>1 DEF process_create_splitter
  <2> HIDE DEF q
  <2>3. CASE q = p
    BY <1>1, <2>2, <2>3, RentTypes
  <2>4. CASE q # p
    BY <1>1, <1>2, <2>2, <2>4
  <2> QED
    BY <2>3, <2>4
<1>4. CASE \E q \in PDAs : SetSplitterDistribution(q) \/ SetSplitterAdmin(q)
              \/ RevokeSplitterAdmin(q) \/ LockRecipient(q) \/ SetSplitterName(q)
  <2>1. UNCHANGED lamports
    BY <1>4 DEF SetSplitterDistribution, process_set_distribution,
                SetSplitterAdmin, process_set_admin, RevokeSplitterAdmin,
                process_revoke_admin, LockRecipient, process_lock_recipient,
                SetSplitterName, process_set_splitter_name
  <2> QED
    BY <1>2, <2>1
<1>5. CASE \E q \in PDAs : process_distribute_sol(q)
  <2>1. PICK q \in PDAs : process_distribute_sol(q)
    BY <1>5
  <2>2. q # p => lamports'[p] >= lamports[p] /\ lamports'[p] \in Nat
    BY <1>1, <2>1, DistributePreserves DEF Inv
  <2> QED
    BY <1>2, <2>1, <2>2
<1>6. CASE \E from \in Wallets, to \in Address : transfer(from, to)
  <2>1. PICK from \in Wallets, to \in Address, amount \in Amounts :
          lamports' = [lamports EXCEPT ![from] = @ - amount, ![to] = @ + amount]
    BY <1>6 DEF transfer
  <2>2. amount \in Nat /\ from # p
    BY <1>1, InputTypes
  <2> QED
    BY <1>1, <1>2, <2>1, <2>2
<1>7. CASE UNCHANGED vars
  BY <1>2, <1>7 DEF vars
<1> QED
  BY <1>3, <1>4, <1>5, <1>6, <1>7 DEF SplitterInstruction

\* The dust a distribution leaves is less than one lamport per slot.
THEOREM DustAlwaysBounded == Spec => DustBounded
<1>1. ASSUME Inv, [SplitterInstruction]_vars, NEW p \in PDAs, lamports'[p] < lamports[p],
             p \notin Listed(splitter[p].recipients)
      PROVE  lamports'[p] - RentSplitter < Len(splitter[p].recipients)
  <2> DEFINE rs == splitter[p].recipients
             d  == Distributable(p)
             P  == Total(Payouts(rs, d))
             h  == [i \in 1..Len(rs) |->
                     IF rs[i].address = p THEN Payout(d, rs[i].share) ELSE 0]
  <2>1. process_distribute_sol(p)
    BY <1>1, OnlyDistributionPays
  <2>2. /\ GoodList(rs) /\ Len(rs) \in Nat \ {0}
        /\ d \in Nat /\ lamports[p] = RentSplitter + d
        /\ P \in Nat /\ P <= d /\ d < P + Len(rs)
        /\ lamports' = [a \in Address |->
             lamports[a] + PaidTo(rs, d, a) - (IF a = p THEN P ELSE 0)]
    BY <1>1, <2>1, DistributeStep
  <2>3. \A i \in 1..Len(rs) : rs[i].address # p
    BY <1>1 DEF Listed
  <2> HIDE DEF rs, d, P
  <2>4. PaidTo(rs, d, p) = 0
    <3>1. h \in [1..Len(rs) -> Nat] /\ \A i \in 1..Len(rs) : h[i] = 0
      BY <2>3
    <3>2. PaidTo(rs, d, p) = Total(h)
      BY DEF PaidTo
    <3> HIDE DEF h
    <3>3. h \in Seq(Nat) /\ Len(h) = Len(rs)
      BY <2>2, <3>1
    <3> QED
      BY <3>1, <3>2, <3>3, TotalOfZeros
  <2>5. p \in Address
    BY DEF Address
  <2>6. lamports'[p] = lamports[p] + 0 - P
    BY <2>2, <2>4, <2>5
  <2>7. lamports'[p] - RentSplitter < Len(rs)
    BY <2>2, <2>6, RentTypes
  <2> QED
    BY <2>7 DEF rs
<1>2. Inv /\ [Next]_vars =>
        [\A p \in PDAs :
           LET rs == splitter[p].recipients IN
           lamports'[p] < lamports[p] /\ p \notin Listed(rs)
             => lamports'[p] - RentSplitter < Len(rs)]_vars
  BY <1>1, NextIsInstruction
<1> QED
  BY <1>2, Invariance, PTL DEF Spec, DustBounded

\* A recipient with a floor is paid at least the floor's part, however small
\* the amount and whoever else is paid.
THEOREM LockedRecipientAlwaysPaid == Spec => LockedRecipientPaid
<1>1. ASSUME Inv, [SplitterInstruction]_vars, NEW p \in PDAs, lamports'[p] < lamports[p],
             NEW a \in Listed(splitter[p].recipients) \ {p}
      PROVE  lamports'[a] - lamports[a] >=
               Payout(Distributable(p), LockOf(splitter[p].recipients, a))
  <2> DEFINE rs == splitter[p].recipients
             d  == Distributable(p)
             P  == Total(Payouts(rs, d))
  <2>1. process_distribute_sol(p)
    BY <1>1, OnlyDistributionPays
  <2>2. /\ GoodList(rs) /\ Len(rs) \in Nat /\ d \in Nat
        /\ \A i \in 1..Len(rs) : rs[i].share \in Nat
        /\ lamports' = [b \in Address |->
             lamports[b] + PaidTo(rs, d, b) - (IF b = p THEN P ELSE 0)]
    BY <1>1, <2>1, DistributeStep
  <2>3. a \in Listed(rs) /\ a # p
    OBVIOUS
  <2> HIDE DEF rs, d, P
  <2>4. PaidTo(rs, d, a) \in Nat /\ Payout(d, LockOf(rs, a)) <= PaidTo(rs, d, a)
    BY <2>2, <2>3, FloorWithinPaid
  <2>5. a \in Address
    BY <2>2, <2>3, GoodListAddresses
  <2>6. lamports[a] \in Nat /\ lamports'[a] = lamports[a] + PaidTo(rs, d, a) - 0
    <3>1. lamports[a] \in Nat
      BY <1>1, <2>5 DEF Inv
    <3>2. lamports'[a] = lamports[a] + PaidTo(rs, d, a) - (IF a = p THEN P ELSE 0)
      BY <2>2, <2>5
    <3> QED
      BY <2>3, <3>1, <3>2
  <2>7. lamports'[a] - lamports[a] = PaidTo(rs, d, a)
    BY <2>4, <2>6
  <2> QED
    BY <2>4, <2>7 DEF rs, d
<1>2. Inv /\ [Next]_vars =>
        [\A p \in PDAs : lamports'[p] < lamports[p] =>
           \A a \in Listed(splitter[p].recipients) \ {p} :
             lamports'[a] - lamports[a] >=
               Payout(Distributable(p), LockOf(splitter[p].recipients, a))]_vars
  BY <1>1, NextIsInstruction
<1> QED
  BY <1>2, Invariance, PTL DEF Spec, LockedRecipientPaid

\* SOL at an address without a splitter stays, and no splitter is created there.
THEOREM EarlyDepositsAlwaysStrand == Spec => EarlyDepositStrands
<1>1. ASSUME Inv, [SplitterInstruction]_vars, NEW p \in PDAs, ~Initialized(p), lamports[p] > 0
      PROVE  splitter'[p] = NoData /\ lamports'[p] >= lamports[p]
  <2>1. /\ p \in Address
        /\ splitter \in [PDAs -> Splitter \cup {NoData}]
        /\ lamports[p] \in Nat /\ lamports'[p] \in Nat
    <3>1. Inv'
      BY <1>1, InstructionInv
    <3> QED
      BY <1>1, <3>1 DEF Inv, Address
  <2>2. lamports'[p] >= lamports[p]
    <3>1. ~process_distribute_sol(p)
      BY <1>1 DEF process_distribute_sol
    <3>2. ~(lamports'[p] < lamports[p])
      BY <1>1, <3>1, OnlyDistributionPays
    <3> QED
      BY <2>1, <3>2
  <2>3. CASE \E creator \in Wallets, nonce \in Nonces, name \in Names :
             process_create_splitter(creator, nonce, name)
    <3>1. PICK creator \in Wallets, nonce \in Nonces, name \in Names :
                 process_create_splitter(creator, nonce, name)
      BY <2>3
    <3>2. SplitterPDA(creator, nonce) # p
      BY <1>1, <2>1, <3>1 DEF process_create_splitter
    <3> QED
      BY <1>1, <2>1, <2>2, <3>1, <3>2 DEF process_create_splitter, Initialized
  <2>4. CASE \E q \in PDAs : \/ SetSplitterDistribution(q) \/ SetSplitterAdmin(q)
                             \/ RevokeSplitterAdmin(q) \/ SetSplitterName(q)
    <3>1. PICK q \in PDAs : Initialized(q) /\ \E s : splitter' = [splitter EXCEPT ![q] = s]
      <4>1. PICK q \in PDAs : \/ SetSplitterDistribution(q) \/ SetSplitterAdmin(q)
                              \/ RevokeSplitterAdmin(q) \/ SetSplitterName(q)
        BY <2>4
      <4>2. Initialized(q) /\ splitter' = [splitter EXCEPT ![q] = splitter'[q]]
        BY <2>1, <4>1 DEF SetSplitterDistribution, process_set_distribution,
                    SetSplitterAdmin, process_set_admin, RevokeSplitterAdmin,
                    process_revoke_admin, SetSplitterName,
                    process_set_splitter_name, AdminSigned
      <4> QED
        BY <4>2
    <3> QED
      BY <1>1, <2>1, <2>2, <3>1 DEF Initialized
  <2>5. CASE \E q \in PDAs : LockRecipient(q)
    <3>1. PICK q \in PDAs : LockRecipient(q)
      BY <2>5
    <3>2. /\ Initialized(q)
          /\ \E s : splitter' = [splitter EXCEPT ![q] = s]
      BY <1>1, <3>1, LockRecipientStep DEF Inv
    <3> QED
      BY <1>1, <2>1, <2>2, <3>2 DEF Initialized
  <2>6. CASE \/ \E q \in PDAs : process_distribute_sol(q)
             \/ \E from \in Wallets, to \in Address : transfer(from, to)
             \/ UNCHANGED vars
    BY <1>1, <2>2, <2>6 DEF process_distribute_sol, transfer, vars, Initialized
  <2> QED
    BY <1>1, <2>2, <2>3, <2>4, <2>5, <2>6 DEF SplitterInstruction
<1>2. Inv /\ [Next]_vars =>
        [\A p \in PDAs : ~Initialized(p) /\ lamports[p] > 0 =>
           splitter'[p] = NoData /\ lamports'[p] >= lamports[p]]_vars
  BY <1>1, NextIsInstruction
<1> QED
  BY <1>2, Invariance, PTL DEF Spec, EarlyDepositStrands

(***************************************************************************)
(* The supply.                                                             *)
(***************************************************************************)

\* The supply is the sum over the addresses, an integer.
LEMMA SupplyIs ==
  ASSUME NEW S, IsFiniteSet(S), NEW f \in [S -> Int]
  PROVE  SumFunction(f) = SumFunctionOnSet(f, S) /\ SumFunction(f) \in Int
<1>1. SumFunction(f) = SumFunctionOnSet(f, S)
  BY DEF SumFunction
<1> QED
  BY <1>1, SumOfChosen

\* Creating a splitter moves its rent from the creator to its address.
LEMMA CreateConserves ==
  ASSUME lamports \in [Address -> Nat], NEW creator \in Wallets, NEW nonce \in Nonces,
         NEW name, process_create_splitter(creator, nonce, name)
  PROVE  /\ lamports' \in [Address -> Nat]
         /\ SumFunction(lamports') = SumFunction(lamports)
<1> DEFINE p == SplitterPDA(creator, nonce)
<1>1. p \in PDAs /\ p \in Address /\ creator \in Address /\ creator \notin PDAs
  BY AddressesDiffer DEF PDAs, Address
<1>2. /\ lamports[p] = 0 /\ lamports[creator] >= RentSplitter
      /\ lamports' = [lamports EXCEPT ![p] = RentSplitter, ![creator] = @ - RentSplitter]
  BY DEF process_create_splitter
<1> HIDE DEF p
<1>3. p # creator /\ RentSplitter \in Nat
  BY <1>1, RentTypes
<1>4. lamports' \in [Address -> Nat]
  BY <1>1, <1>2, <1>3
<1>5. /\ lamports'[creator] = lamports[creator] - RentSplitter
      /\ lamports'[p] = lamports[p] + RentSplitter
  BY <1>1, <1>2, <1>3
<1>6. /\ lamports \in [Address -> Int] /\ lamports' \in [Address -> Int]
      /\ \A a \in Address : a # creator /\ a # p => lamports'[a] = lamports[a]
  BY <1>1, <1>2, <1>4
<1>7. SumFunctionOnSet(lamports', Address) = SumFunctionOnSet(lamports, Address)
  BY <1>1, <1>3, <1>5, <1>6, AddressesFinite, SumOfMoved
<1> QED
  BY <1>4, <1>7 DEF SumFunction

\* A transfer moves lamports between two different addresses.
LEMMA TransferConserves ==
  ASSUME Inv, NEW from \in Wallets, NEW to \in Address, transfer(from, to)
  PROVE  SumFunction(lamports') = SumFunction(lamports)
<1>1. PICK amount \in Amounts :
        /\ from # to
        /\ lamports' = [lamports EXCEPT ![from] = @ - amount, ![to] = @ + amount]
  BY DEF transfer
<1>2. amount \in Nat /\ from \in Address /\ lamports \in [Address -> Nat]
  BY InputTypes DEF Address, Inv
<1>3. Inv'
  BY TransferPreserves
<1>4. /\ lamports \in [Address -> Int] /\ lamports' \in [Address -> Int]
      /\ \A a \in Address : a # from /\ a # to => lamports'[a] = lamports[a]
  BY <1>1, <1>2, <1>3 DEF Inv
<1>5. lamports'[from] = lamports[from] - amount /\ lamports'[to] = lamports[to] + amount
  BY <1>1, <1>2
<1>6. from # to /\ amount \in Int
  BY <1>1, <1>2
<1>7. SumFunctionOnSet(lamports', Address) = SumFunctionOnSet(lamports, Address)
  BY <1>2, <1>4, <1>5, <1>6, AddressesFinite, SumOfMoved
<1> QED
  BY <1>2, <1>3, <1>7 DEF SumFunction, Inv

\* A distribution pays the addresses what it takes from the splitter, however
\* often an address is listed and whether or not the splitter lists itself.
LEMMA DistributeConserves ==
  ASSUME Inv, NEW p \in PDAs, process_distribute_sol(p)
  PROVE  SumFunction(lamports') = SumFunction(lamports)
<1> DEFINE rs == splitter[p].recipients
           d  == Distributable(p)
           P  == Total(Payouts(rs, d))
           paid  == [a \in Address |-> PaidTo(rs, d, a)]
           delta == [a \in Address |-> PaidTo(rs, d, a) - (IF a = p THEN P ELSE 0)]
<1>1. /\ GoodList(rs) /\ d \in Nat /\ P \in Nat
      /\ \A a \in Address : PaidTo(rs, d, a) \in Nat
      /\ lamports' = [a \in Address |->
           lamports[a] + PaidTo(rs, d, a) - (IF a = p THEN P ELSE 0)]
  BY DistributeStep
<1>2. p \in Address /\ lamports \in [Address -> Nat] /\ IsFiniteSet(Address)
  BY AddressesFinite DEF Address, Inv
<1> HIDE DEF rs, d
<1>3. SumFunctionOnSet(paid, Address) = P
  BY <1>1, PaidToAddsUp
<1> HIDE DEF P
<1>4. /\ paid \in [Address -> Int] /\ delta \in [Address -> Int]
      /\ \A a \in Address : a # p => delta[a] = paid[a]
  BY <1>1
<1>5. delta[p] = paid[p] - P
  BY <1>2
<1>6. \A a \in Address : lamports[a] \in Int /\ lamports'[a] = lamports[a] + delta[a]
  <2>1. TAKE a \in Address
  <2>2. lamports[a] \in Nat /\ PaidTo(rs, d, a) \in Nat
    BY <1>1, <1>2
  <2>3. lamports'[a] = lamports[a] + PaidTo(rs, d, a) - (IF a = p THEN P ELSE 0)
    BY <1>1
  <2> QED
    BY <1>1, <2>2, <2>3
<1> HIDE DEF paid, delta
<1>7. SumFunctionOnSet(delta, Address) =
        SumFunctionOnSet(paid, Address) + delta[p] - paid[p]
  <2>1. IsFiniteSet(Address) /\ p \in Address
    BY <1>2
  <2> QED
    BY <1>4, <2>1, SumChangedAt
<1>8. SumFunctionOnSet(delta, Address) = 0
  BY <1>1, <1>2, <1>3, <1>4, <1>5, <1>7
<1>9. /\ SumFunctionOnSet(lamports', Address) =
           SumFunctionOnSet(lamports, Address) + SumFunctionOnSet(delta, Address)
      /\ SumFunctionOnSet(lamports, Address) \in Int
  <2>1. IsFiniteSet(Address)
    BY <1>2
  <2>2. /\ \A a \in Address : lamports[a] \in Int
        /\ \A a \in Address : delta[a] \in Int
        /\ \A a \in Address : lamports'[a] = lamports[a] + delta[a]
    BY <1>4, <1>6
  <2>3. SumFunctionOnSet(lamports', Address) =
          SumFunctionOnSet(lamports, Address) + SumFunctionOnSet(delta, Address)
    BY <2>1, <2>2, SumOfSums, Zenon
  <2>4. SumFunctionOnSet(lamports, Address) \in Int
    BY <2>1, <2>2, SumOfChosen, Zenon
  <2> QED
    BY <2>3, <2>4
<1>10. SumFunctionOnSet(lamports', Address) = SumFunctionOnSet(lamports, Address)
  BY <1>8, <1>9
<1> QED
  BY <1>1, <1>2, <1>10 DEF SumFunction

\* No instruction makes or loses lamports.
LEMMA InstructionConserves ==
  Inv /\ [SplitterInstruction]_vars => SumFunction(lamports') = SumFunction(lamports)
<1> SUFFICES ASSUME Inv, [SplitterInstruction]_vars
             PROVE  SumFunction(lamports') = SumFunction(lamports)
  OBVIOUS
<1>1. CASE \E creator \in Wallets, nonce \in Nonces, name \in Names :
             process_create_splitter(creator, nonce, name)
  <2>1. PICK creator \in Wallets, nonce \in Nonces, name \in Names :
               process_create_splitter(creator, nonce, name)
    BY <1>1
  <2> QED
    BY <2>1, CreateConserves DEF Inv
<1>2. CASE \E p \in PDAs : SetSplitterDistribution(p) \/ SetSplitterAdmin(p)
              \/ RevokeSplitterAdmin(p) \/ LockRecipient(p) \/ SetSplitterName(p)
  <2>1. UNCHANGED lamports
    BY <1>2 DEF SetSplitterDistribution, process_set_distribution,
                SetSplitterAdmin, process_set_admin, RevokeSplitterAdmin,
                process_revoke_admin, LockRecipient, process_lock_recipient,
                SetSplitterName, process_set_splitter_name
  <2> QED
    BY <2>1
<1>3. CASE \E p \in PDAs : process_distribute_sol(p)
  BY <1>3, DistributeConserves
<1>4. CASE \E from \in Wallets, to \in Address : transfer(from, to)
  BY <1>4, TransferConserves
<1>5. CASE UNCHANGED vars
  BY <1>5 DEF vars
<1> QED
  BY <1>1, <1>2, <1>3, <1>4, <1>5 DEF SplitterInstruction

\* The lamports of all addresses together are those of the beginning, after
\* every distribution, to whatever list.
THEOREM SupplyAlwaysConserved == Spec => []SupplyConserved
<1>1. Init => SupplyConserved
  BY DEF Init, SupplyConserved
<1>2. Inv /\ SupplyConserved /\ [Next]_vars => SupplyConserved'
  BY InstructionConserves, NextIsInstruction DEF SupplyConserved
<1> QED
  BY <1>1, <1>2, Invariance, PTL DEF Spec

(***************************************************************************)
(* The crank.                                                              *)
(***************************************************************************)

\* What CrankAvailable says without ENABLED: in every state of the invariant
\* in which a splitter has something to distribute and no recipient is
\* refused, the payouts of the handler pass all its checks and those of the
\* runtime.  The list is not empty, nothing underflows, and the splitter, even
\* one that lists itself, stays rent exempt.
THEOREM CrankCanRun ==
  ASSUME Inv, NEW p \in PDAs, Initialized(p), lamports[p] > RentSplitter,
         \A a \in Address : ~Refused(p, a), UNCHANGED splitter,
         lamports' = AfterPayouts(p, splitter[p].recipients, Distributable(p))
  PROVE  DistributeSOL(p)
<1> DEFINE rs == splitter[p].recipients
           d  == Distributable(p)
           P  == Total(Payouts(rs, d))
<1>1. GoodList(rs)
  BY DEF Inv, GoodAccount
<1>2. d \in Nat /\ lamports[p] = RentSplitter + d
  <2>1. lamports[p] \in Nat
    BY DEF Inv, Address
  <2> QED
    BY <2>1, RentTypes DEF Distributable
<1>3. rs # << >>
  BY <1>1, StoredListTypes
<1>4. process_distribute_sol(p)
  BY <1>3 DEF process_distribute_sol, HasDistributable
<1> HIDE DEF rs, d
<1>5. Len(rs) \in Nat \ {0} /\ \A i \in 1..Len(rs) : rs[i].share \in Nat
  BY <1>1, StoredListTypes
<1>6. P \in Nat /\ P <= d
  BY <1>1, <1>2, <1>5, PayoutsBounded DEF GoodList
<1>7. \A a \in Address : PaidTo(rs, d, a) \in Nat
  BY <1>2, <1>5, PaidToAtLeast
<1> HIDE DEF P
<1>8. ASSUME NEW a \in Address, lamports'[a] # lamports[a]
      PROVE  /\ a # Default
             /\ lamports'[a] >= IF a \in PDAs /\ splitter'[a] # NoData
                               THEN RentSplitter ELSE RentWallet
  <2>1. /\ lamports[a] \in Nat /\ PaidTo(rs, d, a) \in Nat
        /\ lamports'[a] = lamports[a] + PaidTo(rs, d, a) - (IF a = p THEN P ELSE 0)
    BY <1>7 DEF Inv, AfterPayouts, rs, d, P
  <2>2. MinBalance(a) = IF a \in PDAs /\ splitter'[a] # NoData
                        THEN RentSplitter ELSE RentWallet
    BY DEF MinBalance
  <2>3. CASE a = p
    <3>1. p # Default /\ MinBalance(p) = RentSplitter
      BY AddressesDiffer DEF MinBalance, Initialized
    <3>2. lamports'[p] >= RentSplitter
      BY <1>2, <1>6, <2>1, <2>3, RentTypes
    <3> QED
      BY <2>2, <2>3, <3>1, <3>2
  <2>4. CASE a # p
    <3>1. lamports'[a] = lamports[a] + PaidTo(rs, d, a) /\ PaidTo(rs, d, a) > 0
      BY <1>8, <2>1, <2>4
    <3>2. a # Default /\ ~(lamports[a] + PaidTo(rs, d, a) < MinBalance(a))
      BY <2>4, <3>1 DEF Refused, rs, d
    <3>3. MinBalance(a) \in Nat
      BY RentTypes DEF MinBalance
    <3>4. lamports[a] + PaidTo(rs, d, a) \in Nat
      BY <2>1
    <3> QED
      BY <2>2, <3>1, <3>2, <3>3, <3>4
  <2> QED
    BY <2>3, <2>4
<1> QED
  BY <1>4, <1>8 DEF DistributeSOL, RuntimeAccepts, MinBalance

\* A distribution that owes something to another address than the splitter
\* itself takes lamports from the splitter, and never below the rent.  With
\* CrankCanRun this is the argument for QuietSplitterDrains: what a quiet
\* splitter has above its rent is a natural, every crank makes it less while
\* something is owed, and nothing but its own crank or a receipt changes it.
THEOREM CrankPaysOut ==
  ASSUME Inv, NEW p \in PDAs, DistributeSOL(p), Owed(p)
  PROVE  lamports'[p] < lamports[p] /\ lamports'[p] >= RentSplitter
<1> DEFINE rs == splitter[p].recipients
           d  == Distributable(p)
           P  == Total(Payouts(rs, d))
<1>1. /\ GoodList(rs) /\ d \in Nat /\ P \in Nat /\ P <= d /\ lamports[p] = RentSplitter + d
      /\ lamports' = [a \in Address |->
           lamports[a] + PaidTo(rs, d, a) - (IF a = p THEN P ELSE 0)]
  BY DistributeStep DEF DistributeSOL
<1>2. PICK a \in Address \ {p} : PaidTo(rs, d, a) > 0
  BY DEF Owed
<1> HIDE DEF rs, d
<1>3. /\ PaidTo(rs, d, a) \in Nat /\ PaidTo(rs, d, p) \in Nat
      /\ PaidTo(rs, d, a) + PaidTo(rs, d, p) <= P
  BY <1>1, PaidToTwo
<1> HIDE DEF P
<1>4. lamports'[p] = RentSplitter + d + PaidTo(rs, d, p) - P
  BY <1>1 DEF Address
<1> DEFINE x == PaidTo(rs, d, p)  y == PaidTo(rs, d, a)
<1>5. x \in Nat /\ y \in Nat /\ y > 0 /\ y + x <= P /\ lamports'[p] = RentSplitter + d + x - P
  BY <1>2, <1>3, <1>4
<1> HIDE DEF x, y
<1> QED
  BY <1>1, <1>5, RentTypes

\* In every reachable state: a distribution that owes somebody something makes
\* the balance less, and nothing else ever does, so between deposits only so
\* many distributions can be owed.
THEOREM CranksAlwaysDrain ==
  Spec => [][\A p \in PDAs :
               /\ DistributeSOL(p) /\ Owed(p) =>
                    lamports'[p] < lamports[p] /\ lamports'[p] >= RentSplitter
               /\ lamports'[p] < lamports[p] => process_distribute_sol(p)]_vars
<1>1. Inv /\ [Next]_vars =>
        [\A p \in PDAs :
           /\ DistributeSOL(p) /\ Owed(p) =>
                lamports'[p] < lamports[p] /\ lamports'[p] >= RentSplitter
           /\ lamports'[p] < lamports[p] => process_distribute_sol(p)]_vars
  BY CrankPaysOut, OnlyDistributionPays, NextIsInstruction
<1> QED
  BY <1>1, Invariance, PTL DEF Spec

(***************************************************************************)
(* The loop of a distribution, which AfterPayouts sums up.                 *)
(***************************************************************************)

\* One round: the splitter is debited, then the recipient of the slot, which
\* may be the splitter itself, is credited.  The code skips a round with
\* nothing to pay, which changes nothing here.
PaySlot(b, p, a, amount) == [[b EXCEPT ![p] = @ - amount] EXCEPT ![a] = @ + amount]

\* The payouts of the slots that name a, zero at the others.
PayoutsTo(rs, d, a) ==
  [i \in 1..Len(rs) |-> IF rs[i].address = a THEN Payout(d, rs[i].share) ELSE 0]

\* The balances after the first i slots.
AfterSlots(p, rs, d, i) ==
  [a \in Address |-> lamports[a] + RunningTotals(PayoutsTo(rs, d, a))[i]
                       - (IF a = p THEN RunningTotals(Payouts(rs, d))[i] ELSE 0)]

\* The loop of DistributeSOL, slot by slot: every round starts from the balances
\* the one before it left, the subtraction of a round leaves the splitter its
\* rent, so no u64 underflows on the way, and after the last round the balances
\* are AfterPayouts.
THEOREM LoopPays ==
  ASSUME Inv, NEW p \in PDAs, Initialized(p), lamports[p] > RentSplitter
  PROVE  LET rs == splitter[p].recipients
             d  == Distributable(p)
         IN  /\ AfterSlots(p, rs, d, 0) = lamports
             /\ \A i \in 1..Len(rs) :
                  LET due == Payout(d, rs[i].share) IN
                  /\ AfterSlots(p, rs, d, i - 1)[p] - due >= RentSplitter
                  /\ AfterSlots(p, rs, d, i) =
                       PaySlot(AfterSlots(p, rs, d, i - 1), p, rs[i].address, due)
             /\ AfterSlots(p, rs, d, Len(rs)) = AfterPayouts(p, rs, d)
<1> DEFINE rs   == splitter[p].recipients
           d    == Distributable(p)
           n    == Len(rs)
           due  == Payouts(rs, d)
           D    == RunningTotals(due)
           h(a) == PayoutsTo(rs, d, a)
           H(a) == RunningTotals(h(a))
           b(i) == AfterSlots(p, rs, d, i)
<1>1. /\ p \in Address /\ lamports \in [Address -> Nat]
      /\ d \in Nat /\ lamports[p] = RentSplitter + d /\ RentSplitter \in Nat
  <2>1. p \in Address /\ lamports \in [Address -> Nat]
    BY DEF Inv, Address
  <2>2. lamports[p] \in Nat /\ lamports[p] > RentSplitter
    BY <2>1
  <2> QED
    BY <2>1, <2>2, RentTypes DEF Distributable
<1>2. /\ GoodList(rs) /\ n \in Nat \ {0}
      /\ \A i \in 1..n : rs[i].share \in Nat /\ rs[i].address \in Address
  <2>1. GoodList(rs)
    BY DEF Inv, GoodAccount
  <2>2. \A i \in 1..n : rs[i] \in Recipient
    BY <2>1, ElementOfSeq DEF GoodList
  <2> QED
    BY <2>1, <2>2, StoredListTypes DEF Recipient
<1> HIDE DEF rs, d
<1>3. \A i \in 1..n : Payout(d, rs[i].share) \in Nat
  BY <1>1, <1>2, PayoutRoundsDown
<1>4. \A s \in [1..n -> Nat] : s \in Seq(Nat) /\ Len(s) = n
  BY <1>2
<1>5. due \in [1..n -> Nat] /\ \A i \in 1..n : due[i] = Payout(d, rs[i].share)
  BY <1>3 DEF Payouts
<1>6. ASSUME NEW a
      PROVE  /\ h(a) \in [1..n -> Nat]
             /\ \A i \in 1..n : h(a)[i] = IF rs[i].address = a THEN due[i] ELSE 0
  BY <1>3, <1>5 DEF PayoutsTo
<1> HIDE DEF due, n
<1>7. /\ D \in [0..n -> Nat] /\ D[0] = 0 /\ \A i \in 1..n : D[i] = D[i-1] + due[i]
      /\ \A i \in 1..n : D[i-1] + due[i] <= Total(due)
  <2>1. due \in Seq(Nat) /\ Len(due) = n
    BY <1>4, <1>5
  <2>2. \A i \in 1..Len(due) : due[i] <= due[i]
    <3>1. TAKE i \in 1..Len(due)
    <3>2. due[i] \in Nat
      BY <2>1, <3>1
    <3> QED
      BY <3>2
  <2>3. \A i \in 1..n : D[i-1] + due[i] <= Total(due)
    BY <2>1, <2>2, SpentWithinTotal
  <2> QED
    BY <2>1, <2>3, RunningTotalsDef
<1>8. ASSUME NEW a
      PROVE  /\ H(a) \in [0..n -> Nat] /\ H(a)[0] = 0
             /\ \A i \in 1..n : H(a)[i] = H(a)[i-1] + h(a)[i]
  <2> DEFINE f == h(a)
  <2>1. f \in Seq(Nat) /\ Len(f) = n
    BY <1>4, <1>6
  <2> HIDE DEF f
  <2>2. /\ RunningTotals(f) \in [0..n -> Nat] /\ RunningTotals(f)[0] = 0
        /\ \A i \in 1..n : RunningTotals(f)[i] = RunningTotals(f)[i-1] + f[i]
    BY <2>1, RunningTotalsDef
  <2> QED
    BY <2>2 DEF f
<1>9. Total(due) \in Nat /\ Total(due) <= d
  <2>1. Total(Shares(rs)) = TOTAL_SHARES
    BY <1>2 DEF GoodList
  <2> QED
    BY <1>1, <1>2, <2>1, PayoutsBounded DEF due, n
<1>10. ASSUME NEW i \in 0..n, NEW a \in Address
       PROVE  /\ b(i)[a] = lamports[a] + H(a)[i] - (IF a = p THEN D[i] ELSE 0)
              /\ lamports[a] \in Nat /\ H(a)[i] \in Nat /\ D[i] \in Nat
  <2>1. b(i)[a] = lamports[a] + H(a)[i] - (IF a = p THEN D[i] ELSE 0)
    BY DEF AfterSlots, due
  <2> HIDE DEF b, H, D
  <2> QED
    BY <1>1, <1>7, <1>8, <2>1
<1>11. \A i : b(i) = [a \in Address |-> b(i)[a]]
  BY DEF AfterSlots
<1> HIDE DEF b, H, h, D
<1>12. b(0) = lamports
  <2>1. ASSUME NEW a \in Address PROVE b(0)[a] = lamports[a]
    <3>1. 0 \in 0..n
      BY <1>2
    <3>2. /\ b(0)[a] = lamports[a] + H(a)[0] - (IF a = p THEN D[0] ELSE 0)
          /\ lamports[a] \in Nat /\ H(a)[0] = 0 /\ D[0] = 0
      BY <1>7, <1>8, <1>10, <3>1
    <3> QED
      BY <3>2
  <2> QED
    BY <1>1, <1>11, <2>1
<1>13. ASSUME NEW i \in 1..n
       PROVE  /\ b(i-1)[p] - due[i] >= RentSplitter
              /\ b(i) = PaySlot(b(i-1), p, rs[i].address, due[i])
  <2>1. i - 1 \in 0..n /\ i \in 0..n
    BY <1>2
  <2>2. due[i] \in Nat /\ rs[i].address \in Address
    BY <1>2, <1>5
  <2>3. b(i-1)[p] - due[i] >= RentSplitter
    <3> DEFINE x == H(p)[i-1]  y == D[i-1]  z == due[i]  t == Total(due)
    <3>1. /\ b(i-1)[p] = RentSplitter + d + x - y /\ x \in Nat /\ y \in Nat /\ z \in Nat
          /\ y + z <= t /\ t <= d /\ t \in Nat
      BY <1>1, <1>7, <1>9, <1>10, <2>1, <2>2
    <3> HIDE DEF x, y, z, t
    <3>2. b(i-1)[p] - z >= RentSplitter
      BY <1>1, <3>1
    <3> QED
      BY <3>2 DEF z
  <2>4. ASSUME NEW a \in Address
        PROVE  b(i)[a] = b(i-1)[a] + (IF rs[i].address = a THEN due[i] ELSE 0)
                                   - (IF a = p THEN due[i] ELSE 0)
    <3> DEFINE x == H(a)[i-1]  y == D[i-1]  z == due[i]  l == lamports[a]
    <3>1. /\ b(i-1)[a] = l + x - (IF a = p THEN y ELSE 0)
          /\ l \in Nat /\ x \in Nat /\ y \in Nat /\ z \in Nat
      BY <1>10, <2>1, <2>2
    <3>2. b(i)[a] = l + (x + h(a)[i]) - (IF a = p THEN y + z ELSE 0)
      BY <1>7, <1>8, <1>10, <2>1
    <3>3. h(a)[i] = IF rs[i].address = a THEN z ELSE 0
      BY <1>6 DEF h
    <3> HIDE DEF x, y, z, l
    <3>4. b(i)[a] = b(i-1)[a] + (IF rs[i].address = a THEN z ELSE 0)
                              - (IF a = p THEN z ELSE 0)
      BY <3>1, <3>2, <3>3
    <3> QED
      BY <3>4 DEF z
  <2>5. ASSUME NEW a \in Address PROVE b(i-1)[a] \in Int
    BY <1>10, <2>1
  <2> DEFINE c == b(i-1)  e == b(i)  r == rs[i].address  z == due[i]
  <2>6. c \in [Address -> Int] /\ e = [a \in Address |-> e[a]]
    BY <1>11, <2>5
  <2>7. /\ r \in Address /\ z \in Nat
        /\ \A a \in Address : e[a] = c[a] + (IF r = a THEN z ELSE 0) - (IF a = p THEN z ELSE 0)
    BY <2>2, <2>4
  <2> HIDE DEF c, e, r, z
  <2>8. e = PaySlot(c, p, r, z)
    <3>1. PaySlot(c, p, r, z) = [a \in Address |-> PaySlot(c, p, r, z)[a]]
      BY <2>6 DEF PaySlot
    <3>2. ASSUME NEW a \in Address PROVE PaySlot(c, p, r, z)[a] = e[a]
      <4>1. c[a] \in Int /\ c[p] \in Int
        BY <1>1, <2>6
      <4>2. CASE a = r
        BY <1>1, <2>6, <2>7, <4>1, <4>2 DEF PaySlot
      <4>3. CASE a # r
        BY <1>1, <2>6, <2>7, <4>1, <4>3 DEF PaySlot
      <4> QED
        BY <4>2, <4>3
    <3> QED
      BY <2>6, <3>1, <3>2
  <2> QED
    BY <2>3, <2>8 DEF c, e, r, z
<1>14. b(n) = AfterPayouts(p, rs, d)
  <2>1. ASSUME NEW a \in Address
        PROVE  b(n)[a] = lamports[a] + PaidTo(rs, d, a) - (IF a = p THEN Total(due) ELSE 0)
    <3>1. n \in 0..n
      BY <1>2
    <3>2. D[n] = Total(due)
      BY <1>4, <1>5 DEF D, Total
    <3>3. H(a)[n] = PaidTo(rs, d, a)
      <4>1. Len(h(a)) = n
        BY <1>4, <1>6 DEF h
      <4> QED
        BY <4>1 DEF H, h, PayoutsTo, PaidTo, Total
    <3> QED
      BY <1>10, <3>1, <3>2, <3>3
  <2> QED
    BY <1>11, <2>1 DEF AfterPayouts, due
<1>15. \A i \in 1..n : LET q == Payout(d, rs[i].share) IN
         /\ b(i-1)[p] - q >= RentSplitter
         /\ b(i) = PaySlot(b(i-1), p, rs[i].address, q)
  BY <1>5, <1>13
<1> QED
  BY <1>12, <1>14, <1>15 DEF b, n, rs, d

\* The loop of DistributeSOL stays within Most: no payout, no running total and
\* no balance between two rounds is above it, and no product is above
\* Most * TOTAL_SHARES.
LoopFits(p, Most) ==
  LET rs == splitter[p].recipients
      d  == Distributable(p)
  IN  /\ \A i \in 1..Len(rs) :
           d * rs[i].share <= Most * TOTAL_SHARES /\ Payout(d, rs[i].share) <= Most
      /\ \A i \in 0..Len(rs) :
           /\ RunningTotals(Payouts(rs, d))[i] <= Most
           /\ \A a \in Address : AfterSlots(p, rs, d, i)[a] \in 0..Most

\* It does when there are not more than Most lamports.
LEMMA LoopStaysWithin ==
  ASSUME Inv, NEW p \in PDAs, Initialized(p), HasDistributable(p),
         NEW Most \in Nat, SumFunction(lamports) <= Most
  PROVE  LoopFits(p, Most)
<1> DEFINE rs   == splitter[p].recipients
           d    == Distributable(p)
           n    == Len(rs)
           due  == Payouts(rs, d)
           D    == RunningTotals(due)
           h(a) == PayoutsTo(rs, d, a)
           H(a) == RunningTotals(h(a))
<1>1. /\ p \in Address /\ lamports \in [Address -> Nat]
      /\ d \in Nat /\ lamports[p] = RentSplitter + d /\ RentSplitter \in Nat
  <2>1. p \in Address /\ lamports \in [Address -> Nat]
    BY DEF Inv, Address
  <2>2. lamports[p] \in Nat /\ lamports[p] > RentSplitter
    BY <2>1 DEF HasDistributable
  <2> QED
    BY <2>1, <2>2, RentTypes DEF Distributable
<1>2. /\ \A a \in Address : lamports[a] \in Nat /\ lamports[a] <= Most
      /\ \A a \in Address : a # p => lamports[p] + lamports[a] <= Most
  <2>1. \A a \in Address : lamports[a] \in Nat
    BY <1>1
  <2>2. IsFiniteSet(Address)
    BY AddressesFinite
  <2> DEFINE all == SumFunctionOnSet(lamports, Address)
  <2>3. all <= Most
    BY <1>1 DEF SumFunction
  <2>4. ASSUME NEW a \in Address
        PROVE  /\ all \in Nat /\ lamports[a] <= all
               /\ a # p => lamports[p] + lamports[a] <= all
    BY <1>1, <2>1, <2>2, ValuesWithinSum
  <2> HIDE DEF all
  <2>5. ASSUME NEW a \in Address PROVE lamports[a] <= Most
    BY <2>1, <2>3, <2>4
  <2>6. ASSUME NEW a \in Address, a # p PROVE lamports[p] + lamports[a] <= Most
    BY <1>1, <2>1, <2>3, <2>4, <2>6
  <2> QED
    BY <2>1, <2>5, <2>6
<1>3. /\ GoodList(rs) /\ n \in Nat \ {0}
      /\ \A i \in 1..n : rs[i].share \in Nat
  <2>1. GoodList(rs)
    BY DEF Inv, GoodAccount
  <2> QED
    BY <2>1, StoredListTypes
<1> HIDE DEF rs, d
<1>4. \A i \in 1..n : Payout(d, rs[i].share) \in Nat
  BY <1>1, <1>3, PayoutRoundsDown
<1>5. /\ due \in Seq(Nat) /\ Len(due) = n
      /\ \A i \in 1..n : due[i] = Payout(d, rs[i].share)
  BY <1>3, <1>4 DEF Payouts
<1>6. /\ Total(due) \in Nat /\ Total(due) <= d
      /\ Total(Shares(rs)) = TOTAL_SHARES
  <2>1. Total(Shares(rs)) = TOTAL_SHARES
    BY <1>3 DEF GoodList
  <2> QED
    BY <1>1, <1>3, <2>1, PayoutsBounded
<1>7. ASSUME NEW a
      PROVE  /\ h(a) \in Seq(Nat) /\ Len(h(a)) = n
             /\ \A i \in 1..n : h(a)[i] <= due[i]
  <2>1. h(a) \in Seq(Nat) /\ Len(h(a)) = n
    BY <1>3, <1>4 DEF PayoutsTo
  <2>2. ASSUME NEW i \in 1..n PROVE h(a)[i] <= due[i]
    <3>1. h(a)[i] = IF rs[i].address = a THEN due[i] ELSE 0
      BY <1>5 DEF PayoutsTo
    <3>2. due[i] \in Nat
      BY <1>4, <1>5
    <3> QED
      BY <3>1, <3>2
  <2> QED
    BY <2>1, <2>2
<1> HIDE DEF due, n
<1>8. ASSUME NEW i \in 0..n
      PROVE  /\ D[i] \in Nat /\ D[i] <= d
             /\ \A a : H(a)[i] \in Nat /\ H(a)[i] <= D[i]
  <2>1. D \in [0..n -> Nat]
    BY <1>5, RunningTotalsDef
  <2>2. ASSUME NEW a PROVE H(a)[i] \in Nat /\ H(a)[i] <= D[i]
    <3> DEFINE g == h(a)
    <3>1. g \in Seq(Nat) /\ Len(g) = n /\ \A k \in 1..n : g[k] <= due[k]
      BY <1>7
    <3> HIDE DEF g
    <3>2. RunningTotals(g)[i] \in Nat /\ RunningTotals(g)[i] <= D[i]
      BY <1>5, <3>1, RunningTotalsDef, RunningTotalsBelow
    <3> QED
      BY <3>2 DEF g
  <2>3. D[i] <= d
    <3>1. CASE i = 0
      <4>1. D[0] = 0
        BY <1>5, RunningTotalsDef
      <4> QED
        BY <1>1, <3>1, <4>1
    <3>2. CASE i \in 1..n
      <4>1. D[i] = D[i-1] + due[i] /\ D[i] \in Nat
        BY <1>5, <2>1, <3>2, RunningTotalsDef
      <4>2. \A k \in 1..Len(due) : due[k] <= due[k]
        <5>1. TAKE k \in 1..Len(due)
        <5>2. due[k] \in Nat
          BY <1>5, <5>1
        <5> QED
          BY <5>2
      <4>3. D[i-1] + due[i] <= Total(due)
        BY <1>5, <3>2, <4>2, SpentWithinTotal
      <4> HIDE DEF D
      <4> QED
        BY <1>1, <1>6, <4>1, <4>3
    <3>3. i = 0 \/ i \in 1..n
      BY <1>3
    <3> QED
      BY <3>1, <3>2, <3>3
  <2> QED
    BY <2>1, <2>2, <2>3
<1>9. ASSUME NEW i \in 1..n
      PROVE  d * rs[i].share <= Most * TOTAL_SHARES /\ Payout(d, rs[i].share) <= Most
  <2>1. d <= Most
    BY <1>1, <1>2
  <2>2. rs[i].share \in Nat /\ rs[i].share <= TOTAL_SHARES /\ TOTAL_SHARES \in Nat \ {0}
    <3>1. Shares(rs) \in Seq(Nat) /\ Len(Shares(rs)) = n /\ Shares(rs)[i] = rs[i].share
      BY <1>3, SharesType DEF n
    <3>2. Shares(rs)[i] <= Total(Shares(rs))
      BY <3>1, ElementWithinTotal
    <3> QED
      BY <1>3, <1>6, <3>1, <3>2, LimitsAreNat
  <2> DEFINE s == rs[i].share  x == d * s
  <2>3. s \in Nat /\ s <= TOTAL_SHARES /\ TOTAL_SHARES \in Nat \ {0}
    BY <2>2
  <2> HIDE DEF s
  <2>4. d * s <= d * TOTAL_SHARES
    BY <1>1, <2>3, ProductMonotone
  <2>5. d * TOTAL_SHARES = TOTAL_SHARES * d /\ Most * TOTAL_SHARES = TOTAL_SHARES * Most
    BY <1>1, <2>3, ProductCommutes
  <2>6. TOTAL_SHARES * d <= TOTAL_SHARES * Most
    BY <1>1, <2>1, <2>3, ProductMonotone
  <2>7. d * s \in Nat /\ TOTAL_SHARES * d \in Nat /\ TOTAL_SHARES * Most \in Nat
    BY <1>1, <2>3, ProductNat
  <2>8. TOTAL_SHARES * Payout(d, s) <= d * s /\ Payout(d, s) \in Nat
    BY <1>1, <2>3, PayoutRoundsDown
  <2> DEFINE e == Payout(d, s)
             y == TOTAL_SHARES * d
             z == TOTAL_SHARES * Most
             w == TOTAL_SHARES * e
  <2>9. w <= x /\ x <= y /\ y <= z
    BY <2>4, <2>5, <2>6, <2>8
  <2>10. w \in Nat /\ x \in Nat /\ y \in Nat /\ z \in Nat
    BY <2>3, <2>7, <2>8, ProductNat
  <2> HIDE DEF x, y, z, w
  <2>11. w <= z /\ x <= z
    BY <2>9, <2>10
  <2>12. e \in Nat /\ TOTAL_SHARES * e <= TOTAL_SHARES * Most
    BY <2>8, <2>11 DEF w, z
  <2> HIDE DEF e
  <2>13. e <= Most
    BY <2>3, <2>12, CancelFactor
  <2>14. x <= Most * TOTAL_SHARES
    BY <2>5, <2>11 DEF z
  <2> QED
    BY <2>13, <2>14 DEF e, x, s
<1>10. ASSUME NEW i \in 0..n
       PROVE  /\ D[i] <= Most
              /\ \A a \in Address : AfterSlots(p, rs, d, i)[a] \in 0..Most
  <2>1. D[i] <= Most
    <3>1. lamports[p] <= Most /\ D[i] \in Nat /\ D[i] <= d
      BY <1>1, <1>2, <1>8
    <3> HIDE DEF D
    <3> QED
      BY <1>1, <3>1
  <2>2. ASSUME NEW a \in Address PROVE AfterSlots(p, rs, d, i)[a] \in 0..Most
    <3> DEFINE l == lamports[a]  q == lamports[p]  x == H(a)[i]  y == D[i]
               b == AfterSlots(p, rs, d, i)[a]
    <3>1. b = l + x - (IF a = p THEN y ELSE 0)
      BY DEF AfterSlots, due
    <3>2. /\ l \in Nat /\ q \in Nat /\ x \in Nat /\ y \in Nat
          /\ x <= y /\ y <= d /\ q = RentSplitter + d
          /\ l <= Most
          /\ a # p => q + l <= Most
      BY <1>1, <1>2, <1>8
    <3>3. a = p => l = q
      OBVIOUS
    <3> HIDE DEF l, q, x, y, b
    <3>4. ASSUME a = p PROVE b \in 0..Most
      <4>1. b = l + x - y /\ l = q
        BY <3>1, <3>3, <3>4
      <4>2. y <= l
        BY <1>1, <3>2, <4>1
      <4>3. b \in Int /\ 0 <= b /\ b <= l
        BY <3>2, <4>1, <4>2
      <4> QED
        BY <3>2, <4>3
    <3>5. ASSUME a # p PROVE b \in 0..Most
      <4>1. b = l + x
        BY <3>1, <3>2, <3>5
      <4>2. x <= q
        BY <1>1, <3>2
      <4>3. b \in Int /\ 0 <= b /\ b <= q + l
        BY <3>2, <4>1, <4>2
      <4> QED
        BY <3>2, <3>5, <4>3
    <3>6. b \in 0..Most
      BY <3>4, <3>5
    <3> QED
      BY <3>6 DEF b
  <2> QED
    BY <2>1, <2>2
<1> QED
  BY <1>9, <1>10 DEF LoopFits, D, due, n, rs, d

\* No u64 and no u128 of DistributeSOL overflows, in any reachable state and
\* for any list: with 2^64 - 1 for Most, the casts to u64 lose nothing and the
\* overflow checks of the build never fire.
THEOREM NothingOverflows ==
  ASSUME NEW Most \in Nat, SumFunction(InitialLamports) <= Most
  PROVE  Spec => [](\A p \in PDAs : Initialized(p) /\ HasDistributable(p) => LoopFits(p, Most))
<1>1. Inv /\ SupplyConserved =>
        \A p \in PDAs : Initialized(p) /\ HasDistributable(p) => LoopFits(p, Most)
  BY LoopStaysWithin DEF SupplyConserved
<1> QED
  BY <1>1, Invariance, SupplyAlwaysConserved, PTL

=============================================================================
