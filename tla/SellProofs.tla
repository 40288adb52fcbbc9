----------------------------- MODULE SellProofs -----------------------------
(***************************************************************************)
(* The safety of module SellConfig, for every set of splitters, lists and  *)
(* payments and transactions of any length.                                *)
(*                                                                         *)
(* A transaction returns to the ledger it found when it fails, so the      *)
(* invariant speaks of two ledgers, the present one and the one found, and *)
(* of what no instruction in between can have changed.                     *)
(***************************************************************************)
EXTENDS SellConfig, SplitterProofs

(***************************************************************************)
(* The inductive invariant.                                                *)
(***************************************************************************)

GoodConfig(c, k) ==
  c \in SellConfig =>
    /\ Len(c.whitelisted_mints) <= MAX_WHITELIST
    /\ Len(c.approved_programs) <= MAX_APPROVED_PROGRAMS
    /\ c = k

\* A ledger of which the invariant of module Splitter holds.
GoodSplitters(s, l) ==
  /\ s \in [PDAs -> Splitter \cup {NoData}]
  /\ \A p \in PDAs : s[p] # NoData => GoodAccount(s[p]) /\ l[p] >= RentSplitter
  /\ l \in [Address -> Nat]

\* A ledger: splitters, lamports, configurations, their lamports, and what was
\* last asked for.
GoodLedger(s, l, c, cl, k) ==
  /\ GoodSplitters(s, l)
  /\ k = [p \in PDAs |-> k[p]]
  /\ cl \in [PDAs -> Nat]
  /\ c \in [PDAs -> SellConfig \cup {NoData, Zeroed}]
  /\ \A p \in PDAs : GoodConfig(c[p], k[p])

\* An account that lost its lamports is gone at the end of the transaction.
Purged(c, cl) == \A p \in PDAs : cl[p] = 0 => c[p] = NoData

\* What a transaction cannot have changed since it began: a revoked splitter but
\* for its floors, its configuration, and an address that had lamports and no data.
KeptSince(was, p) ==
  /\ was.splitter[p] # NoData /\ is_admin_revoked(was.splitter[p]) =>
       /\ Frozen(was.splitter[p], splitter[p])
       /\ config[p] = was.config[p]
       /\ configLamports[p] >= was.configLamports[p]
  /\ was.config[p] = NoData /\ was.configLamports[p] > 0 =>
       /\ config[p] = NoData
       /\ configLamports[p] >= was.configLamports[p]

SellInv ==
  /\ GoodLedger(splitter, lamports, config, configLamports, asked)
  /\ open = NoTransaction => Purged(config, configLamports)
  /\ open # NoTransaction =>
       /\ GoodLedger(open.splitter, open.lamports, open.config, open.configLamports,
                     open.asked)
       /\ Purged(open.config, open.configLamports)
       /\ \A p \in PDAs : KeptSince(open, p)

\* The ledgers are those of the handlers' invariant.
LEMMA GoodSplittersIsInv == GoodSplitters(splitter, lamports) <=> Inv
BY DEF GoodSplitters, Inv, Initialized

\* The same after a step.
LEMMA GoodSplittersNext ==
  GoodSplitters(splitter', lamports') <=> Inv'
BY DEF GoodSplitters, Inv, Initialized

\* The invariant of transactions contains the one of splitter accounts.
LEMMA SellInvKeepsInv == SellInv => Inv
BY GoodSplittersIsInv DEF SellInv, GoodLedger

\* Only a wallet pays, and what the splitters hold is as it was or more.
LEMMA WalletMoves ==
  ASSUME Inv, UNCHANGED splitter, lamports' \in [Address -> Nat],
         \A q \in PDAs : lamports'[q] >= lamports[q]
  PROVE  GoodSplitters(splitter', lamports')
<1>1. ASSUME NEW q \in PDAs, splitter'[q] # NoData PROVE lamports'[q] >= RentSplitter
  <2>1. lamports[q] \in Nat /\ lamports'[q] \in Nat /\ RentSplitter \in Nat
    BY RentTypes DEF Inv, Address
  <2>2. lamports[q] >= RentSplitter
    BY <1>1 DEF Inv, Initialized
  <2> QED
    BY <2>1, <2>2
<1> QED
  BY <1>1 DEF GoodSplitters, Inv, Initialized

\* Frozen is an order: several steps of a transaction freeze as one does.
LEMMA FrozenItself ==
  ASSUME NEW s \in Splitter, GoodAccount(s)
  PROVE  Frozen(s, s)
<1>1. s # NoData
  BY NoDataIsNoSplitter
<1>2. \A i \in 1..Len(s.recipients) : s.recipients[i].locked_share \in Nat
  <2>1. s.recipients \in Seq(Recipient)
    BY DEF GoodAccount, GoodList
  <2>2. \A i \in 1..Len(s.recipients) : s.recipients[i] \in Recipient
    BY <2>1, ElementOfSeq
  <2> QED
    BY <2>2 DEF Recipient
<1> QED
  BY <1>1, <1>2 DEF Frozen

\* What stays frozen through two stretches stays so through both.
LEMMA FrozenThenFrozen ==
  ASSUME NEW s, NEW t, NEW u, GoodAccount(s), GoodAccount(t), GoodAccount(u),
         Frozen(s, t), Frozen(t, u)
  PROVE  Frozen(s, u)
<1>1. ASSUME NEW v, GoodAccount(v), NEW i \in 1..Len(v.recipients)
      PROVE  v.recipients[i].locked_share \in Nat
  <2>1. v.recipients \in Seq(Recipient)
    BY <1>1 DEF GoodAccount, GoodList
  <2>2. v.recipients[i] \in Recipient
    BY <2>1, ElementOfSeq
  <2> QED
    BY <2>2 DEF Recipient
<1>2. Len(t.recipients) = Len(s.recipients) /\ Len(u.recipients) = Len(s.recipients)
  BY DEF Frozen
<1>3. ASSUME NEW i \in 1..Len(s.recipients)
      PROVE  /\ u.recipients[i].address = s.recipients[i].address
             /\ u.recipients[i].share = s.recipients[i].share
             /\ u.recipients[i].locked_share >= s.recipients[i].locked_share
  <2>1. /\ s.recipients[i].locked_share \in Nat
        /\ t.recipients[i].locked_share \in Nat
        /\ u.recipients[i].locked_share \in Nat
    BY <1>1, <1>2
  <2>2. /\ u.recipients[i].locked_share >= t.recipients[i].locked_share
        /\ t.recipients[i].locked_share >= s.recipients[i].locked_share
    BY <1>2 DEF Frozen
  <2>3. u.recipients[i].locked_share >= s.recipients[i].locked_share
    BY <2>1, <2>2
  <2> QED
    BY <1>2, <2>3 DEF Frozen
<1> QED
  BY <1>2, <1>3 DEF Frozen

\* No configuration exists before the first instruction.
LEMMA SellInitInv == SellInit => SellInv
<1> SUFFICES ASSUME SellInit PROVE SellInv
  OBVIOUS
<1>1. /\ splitter = [p \in PDAs |-> NoData] /\ asked = [p \in PDAs |-> NoData]
      /\ lamports \in [Address -> Nat] /\ configLamports \in [PDAs -> Nat]
      /\ config = [p \in PDAs |-> NoData] /\ open = NoTransaction
  BY InitialTypes DEF SellInit, Init
<1>2. \A p \in PDAs : GoodConfig(config[p], asked[p])
  BY <1>1, MarksDiffer DEF GoodConfig
<1>3. GoodSplitters(splitter, lamports)
  BY InitInv, GoodSplittersIsInv DEF SellInit
<1> QED
  BY <1>1, <1>2, <1>3 DEF SellInv, GoodLedger, Purged

\* A list somebody submits, within the limits, makes a good configuration.
LEMMA NewSellConfigGood ==
  ASSUME NEW p \in PDAs, NEW mints \in Whitelists, NEW programs \in Approvals,
         ListsFit(mints, programs)
  PROVE  /\ NewSellConfig(p, mints, programs) \in SellConfig
         /\ GoodConfig(NewSellConfig(p, mints, programs), NewSellConfig(p, mints, programs))
BY SellInputTypes DEF NewSellConfig, SellConfig, GoodConfig, ListsFit

\* An instruction of the open transaction: only the kept parts need a proof.
LEMMA InstructionPreserves ==
  ASSUME SellInv, InTransaction,
         GoodLedger(splitter', lamports', config', configLamports', asked'),
         \A p \in PDAs : KeptSince(open, p) => KeptSince(open, p)'
  PROVE  SellInv'
<1>1. open # NoTransaction /\ open' = open
  BY DEF InTransaction
<1>2. \A p \in PDAs : KeptSince(open, p)'
  BY <1>1 DEF SellInv
<1> QED
  BY <1>1, <1>2 DEF SellInv, KeptSince

\* SetSellConfig needs an admin, and an address without lamports when there is
\* nothing yet.
LEMMA SetSellConfigPreserves ==
  ASSUME SellInv, NEW p \in PDAs, SetSellConfig(p)
  PROVE  SellInv'
<1>1. PICK key \in Wallets, payer \in Wallets, mints \in Whitelists, programs \in Approvals :
        /\ InTransaction
        /\ process_set_sell_config(p, key, payer, mints, programs)
        /\ asked' = [asked EXCEPT ![p] = NewSellConfig(p, mints, programs)]
  BY DEF SetSellConfig
<1> DEFINE c == NewSellConfig(p, mints, programs)
<1>2. /\ c \in SellConfig /\ GoodConfig(c, c)
  BY <1>1, NewSellConfigGood DEF process_set_sell_config
<1>3. /\ config' = [config EXCEPT ![p] = c] /\ asked' = [asked EXCEPT ![p] = c]
      /\ UNCHANGED splitter /\ UNCHANGED open
      /\ AdminSigned(p, key) /\ EnsureAccount(p, payer)
  BY <1>1 DEF process_set_sell_config, InTransaction
<1> HIDE DEF c
<1>4. GoodLedger(splitter, lamports, config, configLamports, asked)
  BY DEF SellInv
<1>5. /\ lamports' \in [Address -> Nat] /\ configLamports' \in [PDAs -> Nat]
      /\ \A q \in PDAs : configLamports'[q] = configLamports[q]
                          \/ (q = p /\ config[p] = NoData /\ configLamports[p] = 0)
  <2>1. payer \in Address /\ lamports \in [Address -> Nat] /\ configLamports \in [PDAs -> Nat]
    BY <1>4 DEF Address, GoodLedger, GoodSplitters
  <2>2. CASE /\ config[p] = NoData /\ configLamports[p] = 0 /\ lamports[payer] >= RentConfig
             /\ lamports' = [lamports EXCEPT ![payer] = @ - RentConfig]
             /\ configLamports' = [configLamports EXCEPT ![p] = RentConfig]
    <3>1. lamports' \in [Address -> Nat]
      BY <2>1, <2>2, SellInputTypes
    <3>2. configLamports' \in [PDAs -> Nat]
      BY <2>1, <2>2, SellInputTypes
    <3> QED
      BY <2>1, <2>2, <3>1, <3>2
  <2>3. CASE UNCHANGED <<lamports, configLamports>>
    BY <2>1, <2>3
  <2> QED
    BY <1>3, <2>2, <2>3 DEF EnsureAccount
<1>6. GoodLedger(splitter', lamports', config', configLamports', asked')
  <2>1. config' \in [PDAs -> SellConfig \cup {NoData, Zeroed}]
    BY <1>2, <1>3, <1>4 DEF GoodLedger
  <2>2. GoodSplitters(splitter', lamports') /\ asked' = [q \in PDAs |-> asked'[q]]
    <3>1. \A q \in PDAs : lamports'[q] >= lamports[q]
      <4>1. \A q \in PDAs : q # payer /\ q \in Address
        BY AddressesDiffer DEF Address
      <4>2. \A q \in PDAs : lamports'[q] = lamports[q] /\ lamports[q] \in Nat
        BY <1>3, <1>4, <4>1 DEF EnsureAccount, GoodLedger, GoodSplitters
      <4> QED
        BY <4>2
    <3>2. GoodSplitters(splitter', lamports')
      BY <1>3, <1>5, <3>1, SellInvKeepsInv, WalletMoves
    <3> QED
      BY <1>3, <1>4, <3>2 DEF GoodLedger
  <2>3. ASSUME NEW q \in PDAs PROVE GoodConfig(config'[q], asked'[q])
    BY <1>2, <1>3, <1>4 DEF GoodLedger
  <2> QED
    BY <1>5, <2>1, <2>2, <2>3 DEF GoodLedger
<1>7. ASSUME NEW q \in PDAs, KeptSince(open, q) PROVE KeptSince(open, q)'
  <2>1. CASE q # p
    <3>1. /\ config'[q] = config[q] /\ configLamports'[q] = configLamports[q]
          /\ splitter'[q] = splitter[q] /\ open' = open
      BY <1>3, <1>4, <1>5, <2>1 DEF GoodLedger
    <3> QED
      BY <1>7, <3>1 DEF KeptSince
  <2>2. CASE q = p
    <3>1. ~is_admin_revoked(splitter[p]) /\ splitter' = splitter /\ open' = open
      BY <1>3 DEF AdminSigned
    <3>2. ~(config[p] = NoData /\ configLamports[p] > 0)
      BY <1>3, <1>4 DEF EnsureAccount, GoodLedger
    <3>3. ~(open.splitter[p] # NoData /\ is_admin_revoked(open.splitter[p]))
      BY <1>7, <2>2, <3>1 DEF KeptSince, Frozen, is_admin_revoked
    <3>4. ~(open.config[p] = NoData /\ open.configLamports[p] > 0)
      <4>1. open.configLamports \in [PDAs -> Nat] /\ configLamports \in [PDAs -> Nat]
        BY <1>1, <1>4 DEF SellInv, GoodLedger, InTransaction
      <4> QED
        BY <1>7, <2>2, <3>2, <4>1 DEF KeptSince
    <3> QED
      BY <2>2, <3>1, <3>3, <3>4 DEF KeptSince
  <2> QED
    BY <2>1, <2>2
<1> QED
  BY <1>1, <1>6, <1>7, InstructionPreserves

\* CloseSellConfig needs an admin and leaves zeros, which are no configuration.
LEMMA CloseSellConfigPreserves ==
  ASSUME SellInv, NEW p \in PDAs, CloseSellConfig(p)
  PROVE  SellInv'
<1>1. PICK key \in Wallets :
        /\ InTransaction
        /\ process_close_sell_config(p, key)
        /\ asked' = [asked EXCEPT ![p] = NoData]
  BY DEF CloseSellConfig
<1>2. /\ config' = [config EXCEPT ![p] = Zeroed] /\ asked' = [asked EXCEPT ![p] = NoData]
      /\ lamports' = [lamports EXCEPT ![key] = @ + configLamports[p]]
      /\ configLamports' = [configLamports EXCEPT ![p] = 0]
      /\ UNCHANGED splitter /\ UNCHANGED open
      /\ AdminSigned(p, key) /\ config[p] \in SellConfig
  BY <1>1 DEF process_close_sell_config, InTransaction, ConfigInitialized
<1>3. GoodLedger(splitter, lamports, config, configLamports, asked)
  BY DEF SellInv
<1>4. GoodLedger(splitter', lamports', config', configLamports', asked')
  <2>1. key \in Address
    BY DEF Address
  <2>2. lamports' \in [Address -> Nat] /\ configLamports' \in [PDAs -> Nat]
    BY <1>2, <1>3, <2>1 DEF GoodLedger, GoodSplitters
  <2>3. /\ asked' = [q \in PDAs |-> asked'[q]]
        /\ config' \in [PDAs -> SellConfig \cup {NoData, Zeroed}]
    BY <1>2, <1>3 DEF GoodLedger
  <2>5. GoodSplitters(splitter', lamports')
    <3>1. \A q \in PDAs : q # key /\ q \in Address
      BY AddressesDiffer DEF Address
    <3>2. \A q \in PDAs : lamports'[q] = lamports[q] /\ lamports[q] \in Nat
      BY <1>2, <1>3, <3>1 DEF GoodLedger, GoodSplitters
    <3>3. \A q \in PDAs : lamports'[q] >= lamports[q]
      BY <3>2
    <3> QED
      BY <1>2, <2>2, <3>3, SellInvKeepsInv, WalletMoves
  <2>4. ASSUME NEW q \in PDAs PROVE GoodConfig(config'[q], asked'[q])
    <3>1. CASE q = p
      BY <1>2, <1>3, <3>1, MarksDiffer DEF GoodLedger, GoodConfig
    <3>2. CASE q # p
      BY <1>2, <1>3, <3>2 DEF GoodLedger
    <3> QED
      BY <3>1, <3>2
  <2> QED
    BY <2>2, <2>3, <2>4, <2>5 DEF GoodLedger
<1>5. ASSUME NEW q \in PDAs, KeptSince(open, q) PROVE KeptSince(open, q)'
  <2>1. CASE q # p
    <3>1. /\ config'[q] = config[q] /\ configLamports'[q] = configLamports[q]
          /\ splitter'[q] = splitter[q] /\ open' = open
      BY <1>2, <1>3, <2>1 DEF GoodLedger
    <3> QED
      BY <1>5, <3>1 DEF KeptSince
  <2>2. CASE q = p
    <3>1. ~is_admin_revoked(splitter[p]) /\ splitter' = splitter /\ open' = open
      BY <1>2 DEF AdminSigned
    <3>2. config[p] # NoData
      BY <1>2, MarksDiffer
    <3>3. ~(open.splitter[p] # NoData /\ is_admin_revoked(open.splitter[p]))
      BY <1>5, <2>2, <3>1 DEF KeptSince, Frozen, is_admin_revoked
    <3>4. ~(open.config[p] = NoData /\ open.configLamports[p] > 0)
      BY <1>5, <2>2, <3>2 DEF KeptSince
    <3> QED
      BY <2>2, <3>1, <3>3, <3>4 DEF KeptSince
  <2> QED
    BY <2>1, <2>2
<1> QED
  BY <1>1, <1>4, <1>5, InstructionPreserves

\* A payment only adds to the lamports of a configuration's address.
LEMMA PayConfigPreserves ==
  ASSUME SellInv, NEW from \in Wallets, NEW p \in PDAs, PayConfig(from, p)
  PROVE  SellInv'
<1>1. PICK amount \in Amounts :
        /\ InTransaction
        /\ amount <= lamports[from]
        /\ lamports' = [lamports EXCEPT ![from] = @ - amount]
        /\ configLamports' = [configLamports EXCEPT ![p] = @ + amount]
        /\ UNCHANGED <<splitter, config, asked>>
  BY DEF PayConfig
<1>2. GoodLedger(splitter, lamports, config, configLamports, asked)
  BY DEF SellInv
<1>3. amount \in Nat /\ from \in Address
  BY InputTypes DEF Address
<1>4. lamports' \in [Address -> Nat] /\ configLamports' \in [PDAs -> Nat]
      /\ \A q \in PDAs : configLamports'[q] >= configLamports[q]
  BY <1>1, <1>2, <1>3 DEF GoodLedger, GoodSplitters
<1>5. GoodLedger(splitter', lamports', config', configLamports', asked')
  <2>1. \A q \in PDAs : q # from /\ q \in Address
    BY AddressesDiffer DEF Address
  <2>2. \A q \in PDAs : lamports'[q] = lamports[q] /\ lamports[q] \in Nat
    BY <1>1, <1>2, <2>1 DEF GoodLedger, GoodSplitters
  <2>3. \A q \in PDAs : lamports'[q] >= lamports[q]
    BY <2>2
  <2>4. GoodSplitters(splitter', lamports')
    BY <1>1, <1>4, <2>3, SellInvKeepsInv, WalletMoves
  <2> QED
    BY <1>1, <1>2, <1>4, <2>4 DEF GoodLedger
<1>6. ASSUME NEW q \in PDAs, KeptSince(open, q) PROVE KeptSince(open, q)'
  <2>1. open.configLamports[q] \in Nat /\ configLamports[q] \in Nat
        /\ configLamports'[q] \in Nat
    BY <1>1, <1>2, <1>4 DEF SellInv, GoodLedger, InTransaction
  <2> QED
    BY <1>1, <1>4, <1>6, <2>1 DEF KeptSince, InTransaction
<1> QED
  BY <1>1, <1>5, <1>6, InstructionPreserves

\* The instructions of module Splitter keep its invariant in the middle of
\* a transaction too, and leave of a revoked splitter all but the floors.
LEMMA SplitterStepPreserves ==
  ASSUME SellInv, SplitterStep
  PROVE  SellInv'
<1>1. /\ InTransaction /\ [SplitterInstruction]_vars
      /\ UNCHANGED <<config, configLamports, asked>>
  BY DEF SplitterStep
<1>2. GoodLedger(splitter, lamports, config, configLamports, asked) /\ Inv
  BY SellInvKeepsInv DEF SellInv
<1>3. Inv'
  BY <1>1, <1>2, InstructionInv
<1>4. GoodLedger(splitter', lamports', config', configLamports', asked')
  <2>1. GoodSplitters(splitter', lamports')
    BY <1>3, GoodSplittersNext
  <2> QED
    BY <1>1, <1>2, <2>1 DEF GoodLedger
<1>5. ASSUME NEW q \in PDAs, KeptSince(open, q) PROVE KeptSince(open, q)'
  <2>1. open' = open /\ GoodSplitters(open.splitter, open.lamports)
    BY <1>1 DEF SellInv, GoodLedger, InTransaction
  <2>2. ASSUME open.splitter[q] # NoData, is_admin_revoked(open.splitter[q])
        PROVE  Frozen(open.splitter[q], splitter'[q])
    <3>1. Frozen(open.splitter[q], splitter[q])
      BY <1>5, <2>2 DEF KeptSince
    <3>2. Initialized(q) /\ is_admin_revoked(splitter[q])
      BY <2>2, <3>1 DEF Frozen, Initialized, is_admin_revoked
    <3>3. Frozen(splitter[q], splitter'[q])
      BY <1>1, <1>2, <3>2, RevokedStep
    <3>4. /\ GoodAccount(open.splitter[q]) /\ GoodAccount(splitter[q])
          /\ GoodAccount(splitter'[q])
      BY <1>2, <1>3, <2>1, <2>2, <3>2, <3>3 DEF GoodSplitters, Inv, Initialized, Frozen
    <3> QED
      BY <3>1, <3>3, <3>4, FrozenThenFrozen
  <2> QED
    BY <1>1, <1>5, <2>1, <2>2 DEF KeptSince
<1> QED
  BY <1>1, <1>4, <1>5, InstructionPreserves

\* Beginning, committing and failing move between the two ledgers.
LEMMA TransactionPreserves ==
  ASSUME SellInv, Begin \/ Commit \/ Abort
  PROVE  SellInv'
<1>1. CASE Begin
  <2> DEFINE was == [splitter |-> splitter, lamports |-> lamports, config |-> config,
                     configLamports |-> configLamports, asked |-> asked]
  <2>1. /\ open = NoTransaction /\ open' = was
        /\ UNCHANGED <<splitter, lamports, config, configLamports, asked>>
    BY <1>1 DEF Begin, ledger
  <2>2. /\ was.splitter = splitter /\ was.lamports = lamports /\ was.config = config
        /\ was.configLamports = configLamports /\ was.asked = asked
    OBVIOUS
  <2> HIDE DEF was
  <2>3. /\ GoodLedger(splitter, lamports, config, configLamports, asked)
        /\ Purged(config, configLamports)
    BY <2>1 DEF SellInv
  <2>4. \A p \in PDAs : KeptSince(open, p)'
    <3> SUFFICES ASSUME NEW p \in PDAs PROVE KeptSince(open, p)'
      OBVIOUS
    <3>1. splitter[p] # NoData => splitter[p] \in Splitter /\ GoodAccount(splitter[p])
      BY <2>3 DEF GoodLedger, GoodSplitters
    <3>2. splitter[p] # NoData => Frozen(splitter[p], splitter[p])
      BY <3>1, FrozenItself
    <3>3. configLamports[p] \in Nat
      BY <2>3 DEF GoodLedger
    <3> QED
      BY <2>1, <2>2, <3>2, <3>3 DEF KeptSince
  <2> QED
    BY <2>1, <2>2, <2>3, <2>4 DEF SellInv
<1>2. CASE Commit
  <2>1. /\ config' = [p \in PDAs |-> IF configLamports[p] = 0 THEN NoData ELSE config[p]]
        /\ open' = NoTransaction /\ UNCHANGED <<splitter, lamports, configLamports, asked>>
    BY <1>2 DEF Commit
  <2>2. GoodLedger(splitter, lamports, config, configLamports, asked)
    BY DEF SellInv
  <2>3. GoodLedger(splitter', lamports', config', configLamports', asked')
    <3>1. config' \in [PDAs -> SellConfig \cup {NoData, Zeroed}]
      BY <2>1, <2>2 DEF GoodLedger
    <3>2. ASSUME NEW p \in PDAs PROVE GoodConfig(config'[p], asked'[p])
      BY <2>1, <2>2, MarksDiffer DEF GoodLedger, GoodConfig
    <3> QED
      BY <2>1, <2>2, <3>1, <3>2 DEF GoodLedger
  <2>4. Purged(config', configLamports')
    BY <2>1 DEF Purged
  <2> QED
    BY <2>1, <2>3, <2>4 DEF SellInv
<1>3. CASE Abort
  BY <1>3 DEF Abort, SellInv
<1> QED
  BY <1>1, <1>2, <1>3

\* Every step preserves the invariant.
LEMMA SellStepInv == SellInv /\ [SellNext]_sellVars => SellInv'
<1> SUFFICES ASSUME SellInv, [SellNext]_sellVars PROVE SellInv'
  OBVIOUS
<1>1. CASE Begin \/ Commit \/ Abort
  BY <1>1, TransactionPreserves
<1>2. CASE SplitterStep
  BY <1>2, SplitterStepPreserves
<1>3. CASE \E p \in PDAs : SetSellConfig(p) \/ CloseSellConfig(p)
  BY <1>3, SetSellConfigPreserves, CloseSellConfigPreserves
<1>4. CASE \E from \in Wallets, p \in PDAs : PayConfig(from, p)
  BY <1>4, PayConfigPreserves
<1>5. CASE UNCHANGED sellVars
  BY <1>5 DEF sellVars, ledger, SellInv, KeptSince
<1> QED
  BY <1>1, <1>2, <1>3, <1>4, <1>5 DEF SellNext, SellInstruction

\* The invariant holds in every reachable state.
THEOREM SellInvariance == SellSpec => []SellInv
<1> QED
  BY SellInitInv, SellStepInv, PTL DEF SellSpec

(***************************************************************************)
(* The theorems.                                                           *)
(***************************************************************************)

\* Configurations fit their account, and no balance underflows.
THEOREM SellTypeCorrect == SellSpec => []SellTypeOK
<1>1. SellInv => SellTypeOK
  BY DEF SellInv, GoodLedger, GoodSplitters, GoodConfig, SellTypeOK, ConfigInitialized
<1> QED
  BY <1>1, SellInvariance, PTL

\* What can be read as a configuration is the one last asked for.
THEOREM AlwaysNeverOlder == SellSpec => []NeverOlder
<1>1. SellInv => NeverOlder
  BY DEF SellInv, GoodLedger, GoodConfig, NeverOlder, ConfigInitialized
<1> QED
  BY <1>1, SellInvariance, PTL

\* Every invariant of the splitter accounts holds in transactions of several
\* instructions, between any two of them as well.
THEOREM SplittersStayGood == SellSpec => []Inv
<1> QED
  BY SellInvKeepsInv, SellInvariance, PTL

\* What is committed changes at the end of a transaction only, to the present
\* ledger without the accounts that lost their lamports.
LEMMA CommittedStep ==
  ASSUME SellInv, [SellNext]_sellVars, NEW p \in PDAs
  PROVE  \/ /\ Committed'.splitter[p] = Committed.splitter[p]
            /\ Committed'.config[p] = Committed.config[p]
            /\ Committed'.configLamports[p] = Committed.configLamports[p]
         \/ /\ open # NoTransaction
            /\ Committed.splitter = open.splitter
            /\ Committed.config = open.config
            /\ Committed.configLamports = open.configLamports
            /\ Committed'.splitter[p] = splitter[p]
            /\ Committed'.config[p] = IF configLamports[p] = 0 THEN NoData ELSE config[p]
            /\ Committed'.configLamports[p] = configLamports[p]
<1>1. CASE Begin
  BY <1>1 DEF Begin, ledger, Committed
<1>2. CASE Commit
  BY <1>2 DEF Commit, Committed
<1>3. CASE Abort
  BY <1>3 DEF Abort, Committed
<1>4. CASE SellInstruction
  <2>1. open # NoTransaction /\ open' = open
    BY <1>4 DEF SellInstruction, SplitterStep, SetSellConfig, CloseSellConfig,
                PayConfig, InTransaction
  <2> QED
    BY <2>1 DEF Committed
<1>5. CASE UNCHANGED sellVars
  BY <1>5 DEF sellVars, ledger, Committed
<1> QED
  BY <1>1, <1>2, <1>3, <1>4, <1>5 DEF SellNext

\* Once a revocation is committed, transactions of any instructions leave the
\* splitter as it is but for floors that rise, and its configuration for good.
THEOREM RevokedAlwaysKeepsConfig == SellSpec => RevokedKeepsConfig
<1>1. ASSUME SellInv, [SellNext]_sellVars, NEW p \in PDAs,
             Committed.splitter[p] # NoData, is_admin_revoked(Committed.splitter[p])
      PROVE  /\ Frozen(Committed.splitter[p], Committed'.splitter[p])
             /\ Committed'.config[p] = Committed.config[p]
             /\ Committed'.configLamports[p] >= Committed.configLamports[p]
  <2>1. Committed.configLamports[p] \in Nat
    BY <1>1 DEF SellInv, GoodLedger, Committed
  <2>3. Frozen(Committed.splitter[p], Committed.splitter[p])
    <3>1. GoodSplitters(Committed.splitter,
                        IF open = NoTransaction THEN lamports ELSE open.lamports)
      BY <1>1 DEF SellInv, GoodLedger, Committed
    <3>2. Committed.splitter[p] \in Splitter /\ GoodAccount(Committed.splitter[p])
      BY <1>1, <3>1 DEF GoodSplitters
    <3> QED
      BY <3>2, FrozenItself
  <2>2. CASE open # NoTransaction /\ Committed.splitter = open.splitter
             /\ Committed.config = open.config
             /\ Committed.configLamports = open.configLamports
             /\ Committed'.splitter[p] = splitter[p]
             /\ Committed'.config[p] = (IF configLamports[p] = 0 THEN NoData ELSE config[p])
             /\ Committed'.configLamports[p] = configLamports[p]
    <3>1. /\ Frozen(open.splitter[p], splitter[p])
          /\ config[p] = open.config[p] /\ configLamports[p] >= open.configLamports[p]
          /\ configLamports[p] \in Nat /\ open.configLamports[p] \in Nat
          /\ open.configLamports[p] = 0 => open.config[p] = NoData
      BY <1>1, <2>2 DEF SellInv, GoodLedger, KeptSince, Purged
    <3> QED
      BY <2>2, <3>1
  <2> QED
    BY <1>1, <2>1, <2>2, <2>3, CommittedStep
<1>2. SellInv /\ [SellNext]_sellVars =>
        [LET now == Committed
             next == Committed' IN
         \A p \in PDAs :
           now.splitter[p] # NoData /\ is_admin_revoked(now.splitter[p]) =>
             /\ Frozen(now.splitter[p], next.splitter[p])
             /\ next.config[p] = now.config[p]
             /\ next.configLamports[p] >= now.configLamports[p]]_sellVars
  BY <1>1
<1> QED
  BY <1>2, SellInvariance, PTL DEF SellSpec, RevokedKeepsConfig

\* Lamports paid before the configuration is created keep it from being created.
THEOREM EarlyPaymentsAlwaysStrand == SellSpec => EarlyPaymentStrands
<1>1. ASSUME SellInv, [SellNext]_sellVars, NEW p \in PDAs,
             Committed.config[p] = NoData, Committed.configLamports[p] > 0
      PROVE  /\ Committed'.config[p] = NoData
             /\ Committed'.configLamports[p] >= Committed.configLamports[p]
  <2>1. Committed.configLamports[p] \in Nat
    BY <1>1 DEF SellInv, GoodLedger, Committed
  <2>2. CASE open # NoTransaction
             /\ Committed.config = open.config
             /\ Committed.configLamports = open.configLamports
             /\ Committed'.config[p] = (IF configLamports[p] = 0 THEN NoData ELSE config[p])
             /\ Committed'.configLamports[p] = configLamports[p]
    <3>1. config[p] = NoData /\ configLamports[p] >= open.configLamports[p]
      BY <1>1, <2>2 DEF SellInv, KeptSince
    <3> QED
      BY <2>2, <3>1
  <2> QED
    BY <1>1, <2>1, <2>2, CommittedStep
<1>2. SellInv /\ [SellNext]_sellVars =>
        [LET now == Committed
             next == Committed' IN
         \A p \in PDAs :
           now.config[p] = NoData /\ now.configLamports[p] > 0 =>
             /\ next.config[p] = NoData
             /\ next.configLamports[p] >= now.configLamports[p]]_sellVars
  BY <1>1
<1> QED
  BY <1>2, SellInvariance, PTL DEF SellSpec, EarlyPaymentStrands

(***************************************************************************)
(* The supply.                                                             *)
(***************************************************************************)

\* All lamports of a ledger.
Supply(l, cl) == SumFunction(l) + SumFunction(cl)

\* What moves from an address to a configuration, or back when n is negative.
LEMMA MovedToConfig ==
  ASSUME NEW l \in [Address -> Nat], NEW l2 \in [Address -> Nat],
         NEW cl \in [PDAs -> Nat], NEW cl2 \in [PDAs -> Nat],
         NEW a \in Address, NEW p \in PDAs, NEW n \in Int,
         \A b \in Address : b # a => l2[b] = l[b],
         \A q \in PDAs : q # p => cl2[q] = cl[q],
         l2[a] = l[a] - n, cl2[p] = cl[p] + n
  PROVE  Supply(l2, cl2) = Supply(l, cl)
<1>1. /\ l \in [Address -> Int] /\ l2 \in [Address -> Int]
      /\ cl \in [PDAs -> Int] /\ cl2 \in [PDAs -> Int]
  OBVIOUS
<1>2. IsFiniteSet(Address) /\ IsFiniteSet(PDAs)
  BY AddressesFinite
<1>3. -n \in Int /\ l2[a] = l[a] + (-n)
  OBVIOUS
<1>4. SumFunction(l2) = SumFunction(l) + (-n) /\ SumFunction(l) \in Int
  BY <1>1, <1>2, <1>3, SumGrowsAt
<1>5. SumFunction(cl2) = SumFunction(cl) + n /\ SumFunction(cl) \in Int
  BY <1>1, <1>2, SumGrowsAt
<1> QED
  BY <1>4, <1>5 DEF Supply

\* No instruction makes or loses lamports.
LEMMA SellInstructionConserves ==
  ASSUME SellInv, SellInstruction
  PROVE  Supply(lamports', configLamports') = Supply(lamports, configLamports)
<1>1. lamports \in [Address -> Nat] /\ configLamports \in [PDAs -> Nat]
  BY DEF SellInv, GoodLedger, GoodSplitters
<1>2. lamports' \in [Address -> Nat] /\ configLamports' \in [PDAs -> Nat]
  <2>1. SellInv'
    BY SellStepInv DEF SellNext
  <2> QED
    BY <2>1 DEF SellInv, GoodLedger, GoodSplitters
<1>3. CASE SplitterStep
  <2>1. [SplitterInstruction]_vars /\ UNCHANGED configLamports
    BY <1>3 DEF SplitterStep
  <2>2. SumFunction(lamports') = SumFunction(lamports)
    BY <2>1, SellInvKeepsInv, InstructionConserves
  <2> QED
    BY <2>1, <2>2 DEF Supply
<1>4. ASSUME NEW p \in PDAs, SetSellConfig(p)
      PROVE  Supply(lamports', configLamports') = Supply(lamports, configLamports)
  <2>1. PICK payer \in Wallets : EnsureAccount(p, payer)
    BY <1>4 DEF SetSellConfig, process_set_sell_config
  <2>2. CASE UNCHANGED <<lamports, configLamports>>
    BY <2>2
  <2>3. CASE /\ configLamports[p] = 0
             /\ lamports' = [lamports EXCEPT ![payer] = @ - RentConfig]
             /\ configLamports' = [configLamports EXCEPT ![p] = RentConfig]
    <3>1. payer \in Address /\ RentConfig \in Int
      BY SellInputTypes DEF Address
    <3>2. /\ lamports'[payer] = lamports[payer] - RentConfig
          /\ configLamports'[p] = configLamports[p] + RentConfig
          /\ \A b \in Address : b # payer => lamports'[b] = lamports[b]
          /\ \A q \in PDAs : q # p => configLamports'[q] = configLamports[q]
      BY <1>1, <2>3, <3>1
    <3> QED
      BY <1>1, <1>2, <3>1, <3>2, MovedToConfig
  <2> QED
    BY <2>1, <2>2, <2>3 DEF EnsureAccount
<1>5. ASSUME NEW p \in PDAs, CloseSellConfig(p)
      PROVE  Supply(lamports', configLamports') = Supply(lamports, configLamports)
  <2>1. PICK key \in Wallets :
          /\ lamports' = [lamports EXCEPT ![key] = @ + configLamports[p]]
          /\ configLamports' = [configLamports EXCEPT ![p] = 0]
    BY <1>5 DEF CloseSellConfig, process_close_sell_config
  <2> DEFINE n == -configLamports[p]
  <2>2. key \in Address /\ n \in Int /\ lamports[key] \in Int /\ configLamports[p] \in Int
    BY <1>1 DEF Address
  <2>3. /\ lamports'[key] = lamports[key] - n
        /\ configLamports'[p] = configLamports[p] + n
        /\ \A b \in Address : b # key => lamports'[b] = lamports[b]
        /\ \A q \in PDAs : q # p => configLamports'[q] = configLamports[q]
    BY <1>1, <2>1, <2>2
  <2> HIDE DEF n
  <2> QED
    BY <1>1, <1>2, <2>2, <2>3, MovedToConfig
<1>6. ASSUME NEW from \in Wallets, NEW p \in PDAs, PayConfig(from, p)
      PROVE  Supply(lamports', configLamports') = Supply(lamports, configLamports)
  <2>1. PICK amount \in Amounts :
          /\ lamports' = [lamports EXCEPT ![from] = @ - amount]
          /\ configLamports' = [configLamports EXCEPT ![p] = @ + amount]
    BY <1>6 DEF PayConfig
  <2>2. from \in Address /\ amount \in Int
    BY InputTypes DEF Address
  <2>3. /\ lamports'[from] = lamports[from] - amount
        /\ configLamports'[p] = configLamports[p] + amount
        /\ \A b \in Address : b # from => lamports'[b] = lamports[b]
        /\ \A q \in PDAs : q # p => configLamports'[q] = configLamports[q]
    BY <1>1, <2>1, <2>2
  <2> QED
    BY <1>1, <1>2, <2>2, <2>3, MovedToConfig
<1> QED
  BY <1>3, <1>4, <1>5, <1>6 DEF SellInstruction

\* Failing brings back what the transaction found, so the ledger found must
\* hold the supply too.
SupplyKept ==
  /\ Supply(lamports, configLamports) = SumFunction(InitialLamports)
  /\ open # NoTransaction =>
       Supply(open.lamports, open.configLamports) = SumFunction(InitialLamports)

\* At first there are the initial lamports and no transaction is open.
LEMMA SupplyKeptInit == SellInit => SupplyKept
<1> SUFFICES ASSUME SellInit PROVE SupplyKept
  OBVIOUS
<1>1. /\ lamports = InitialLamports /\ open = NoTransaction
      /\ configLamports = [p \in PDAs |-> 0]
  BY DEF SellInit, Init
<1>2. SumFunctionOnSet(configLamports, PDAs) = 0
  BY <1>1, AddressesFinite, SumOfZeros
<1>3. SumFunction(configLamports) = 0
  BY <1>1, <1>2 DEF SumFunction
<1>4. SumFunction(InitialLamports) \in Int
  <2>1. InitialLamports \in [Address -> Int]
    BY InitialTypes
  <2> QED
    BY <2>1, AddressesFinite, SupplyIs
<1> QED
  BY <1>1, <1>3, <1>4 DEF SupplyKept, Supply

\* Every step keeps the lamports, present and saved.
LEMMA SupplyKeptStep ==
  SellInv /\ SupplyKept /\ [SellNext]_sellVars => SupplyKept'
<1> SUFFICES ASSUME SellInv, SupplyKept, [SellNext]_sellVars PROVE SupplyKept'
  OBVIOUS
<1>1. CASE Begin
  <2> DEFINE was == [splitter |-> splitter, lamports |-> lamports, config |-> config,
                     configLamports |-> configLamports, asked |-> asked]
  <2>1. open' = was /\ UNCHANGED <<lamports, configLamports>>
    BY <1>1 DEF Begin, ledger
  <2>2. was.lamports = lamports /\ was.configLamports = configLamports
    OBVIOUS
  <2> HIDE DEF was
  <2> QED
    BY <2>1, <2>2 DEF SupplyKept
<1>2. CASE Commit
  BY <1>2 DEF Commit, SupplyKept
<1>3. CASE Abort
  BY <1>3 DEF Abort, SupplyKept
<1>4. CASE SellInstruction
  <2>1. open # NoTransaction /\ open' = open
    BY <1>4 DEF SellInstruction, SplitterStep, SetSellConfig, CloseSellConfig,
                PayConfig, InTransaction
  <2> QED
    BY <1>4, <2>1, SellInstructionConserves DEF SupplyKept
<1>5. CASE UNCHANGED sellVars
  BY <1>5 DEF sellVars, ledger, SupplyKept
<1> QED
  BY <1>1, <1>2, <1>3, <1>4, <1>5 DEF SellNext

\* Creating, paying, reviving and closing configurations, in transactions that
\* commit or fail, neither makes nor loses lamports.
THEOREM SellSupplyAlwaysConserved == SellSpec => []SellSupplyConserved
<1>1. SupplyKept => SellSupplyConserved
  BY DEF SupplyKept, Supply, SellSupplyConserved
<1> QED
  BY <1>1, SellInvariance, SupplyKeptInit, SupplyKeptStep, PTL DEF SellSpec

\* No arithmetic on lamports overflows between any two instructions of any
\* transactions: neither the loop of DistributeSOL nor the checked addition of
\* CloseSellConfig, to whatever wallet.
THEOREM NothingOverflowsInTransactions ==
  ASSUME NEW Most \in Nat, SumFunction(InitialLamports) <= Most
  PROVE  SellSpec =>
           [](\A p \in PDAs :
                /\ Initialized(p) /\ HasDistributable(p) => LoopFits(p, Most)
                /\ \A key \in Wallets : lamports[key] + configLamports[p] <= Most)
<1>1. ASSUME SellInv, SupplyKept, NEW p \in PDAs
      PROVE  /\ Initialized(p) /\ HasDistributable(p) => LoopFits(p, Most)
             /\ \A key \in Wallets : lamports[key] + configLamports[p] <= Most
  <2>1. /\ lamports \in [Address -> Nat] /\ configLamports \in [PDAs -> Nat]
        /\ IsFiniteSet(Address) /\ IsFiniteSet(PDAs)
    BY <1>1, AddressesFinite DEF SellInv, GoodLedger, GoodSplitters
  <2> DEFINE L == SumFunction(lamports)
             C == SumFunction(configLamports)
  <2>2. C \in Nat /\ configLamports[p] <= C
    <3>1. \A q \in PDAs : configLamports[q] \in Nat
      BY <2>1
    <3>2. /\ SumFunctionOnSet(configLamports, PDAs) \in Nat
          /\ configLamports[p] <= SumFunctionOnSet(configLamports, PDAs)
      BY <2>1, <3>1, ValuesWithinSum
    <3> QED
      BY <2>1, <3>2 DEF SumFunction
  <2>3. ASSUME NEW a \in Address PROVE L \in Nat /\ lamports[a] <= L
    <3>1. \A b \in Address : lamports[b] \in Nat
      BY <2>1
    <3>2. /\ SumFunctionOnSet(lamports, Address) \in Nat
          /\ lamports[a] <= SumFunctionOnSet(lamports, Address)
      BY <2>1, <3>1, ValuesWithinSum
    <3> QED
      BY <2>1, <3>2 DEF SumFunction
  <2>4. L + C <= Most /\ p \in Address
    BY <1>1 DEF SupplyKept, Supply, Address
  <2> HIDE DEF L, C
  <2>5. L <= Most
    BY <2>2, <2>3, <2>4
  <2>6. Initialized(p) /\ HasDistributable(p) => LoopFits(p, Most)
    BY <1>1, <2>5, SellInvKeepsInv, LoopStaysWithin DEF L
  <2>7. ASSUME NEW key \in Wallets PROVE lamports[key] + configLamports[p] <= Most
    <3>1. /\ L \in Nat /\ lamports[key] <= L
          /\ lamports[key] \in Nat /\ configLamports[p] \in Nat
      BY <2>1, <2>3 DEF Address
    <3> QED
      BY <2>2, <2>4, <3>1
  <2> QED
    BY <2>6, <2>7
<1>2. SellInv /\ SupplyKept =>
        \A p \in PDAs :
          /\ Initialized(p) /\ HasDistributable(p) => LoopFits(p, Most)
          /\ \A key \in Wallets : lamports[key] + configLamports[p] <= Most
  BY <1>1
<1> QED
  BY <1>2, SellInvariance, SupplyKeptInit, SupplyKeptStep, PTL DEF SellSpec

=============================================================================
